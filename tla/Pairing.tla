------------------------------- MODULE Pairing --------------------------------
(***************************************************************************)
(* The pairing handshake from end to end: the app (MobileSession), one     *)
(* session of the relay as Relay has it, and the bridge, whose router      *)
(* (packages/bridge/src/core/message-router.ts) derives the keys when a    *)
(* pair.confirm reaches it (cli/commands/start.ts:72-82).                  *)
(*                                                                         *)
(* The app's steps are those of MobileSession.  What the relay writes to   *)
(* the app stays as free as it is there; what the app writes is followed   *)
(* to the bridge.  Keys are named by the attempt they come from: both      *)
(* sides derive the same keys from one pair.confirm.  The bridge keeps one *)
(* identity and one session code, as crc start does until it exits.        *)
(***************************************************************************)
EXTENDS MobileSession, FiniteSets

CONSTANT BridgeMayLeave \* whether the bridge's own connection comes and goes

ASSUME BridgeAssumption == BridgeMayLeave \in BOOLEAN

VARIABLES
    atRelay,  \* per connection of the app: see RelaySide
    up,       \* per connection: the attempt whose pair.confirm is on its way
    bridgeUp, \* the bridge's connection is open
    toBridge, \* the attempts whose pair.confirm was passed on to it
    deriving, \* calls of completePairing() that await the derivation
    keys,     \* directionalKeys of the router; None before isPaired
    confirms, \* history: attempts in the order their pair.confirm was sent
    heard     \* history: attempts in the order the bridge heard of them

relayVars == <<atRelay, up>>
bridgeVars == <<bridgeUp, toBridge, deriving, keys, heard>>
pairingVars == <<mobileVars, relayVars, bridgeVars, confirms>>

\* "in": it holds the client slot.  "rejected": it was told that the slot is
\* held and is being closed.  "gone": the relay is done with it.
RelaySide == {"none", "in", "rejected", "gone"}

PInit ==
    /\ Init
    /\ atRelay = [c \in Conn |-> "none"]
    /\ up = [c \in Conn |-> None]
    /\ bridgeUp = ~BridgeMayLeave
    /\ toBridge = <<>>
    /\ deriving = {}
    /\ keys = None
    /\ confirms = <<>> /\ heard = <<>>

-----------------------------------------------------------------------------
(* The app.                                                                *)

\* A connection is a new one for the relay as well.
PhoneConnects ==
    /\ RetryFires \/ Restore \/ \E a \in Attempt : Pair(a)
    /\ conn' # conn => atRelay[conn'] = "none"
    /\ UNCHANGED <<relayVars, bridgeVars, confirms>>

\* pair() goes on in the step that opens the connection, and sends its
\* pair.confirm once.  The relay hears it only on a connection it has let in.
PhoneOpens(c) ==
    /\ atRelay[c] # "none"
    /\ Opened(c)
    /\ confirms' = IF waiter \in Attempt THEN Append(confirms, waiter) ELSE confirms
    /\ up' = IF waiter \in Attempt /\ atRelay[c] = "in" THEN [up EXCEPT ![c] = waiter] ELSE up
    /\ UNCHANGED <<atRelay, bridgeVars>>

PhoneHearsClose(c) ==
    /\ Closed(c)
    /\ atRelay' = [atRelay EXCEPT ![c] = IF @ = "gone" THEN "none" ELSE @]
    /\ UNCHANGED <<up, bridgeVars, confirms>>

PhoneElse ==
    /\ \/ \E c \in Conn : Lost(c) \/ PairReady(c) \/ PeerDisconnected(c) \/ ErrorHeard(c)
       \/ \E a \in Attempt : WaitTimesOut(a)
       \/ LoadRejected \/ LoadUnreadable \/ RestoreTimesOut
       \/ Disconnect \/ Stored \/ StorageRejected \/ Relaunch
    /\ UNCHANGED <<relayVars, bridgeVars, confirms>>

-----------------------------------------------------------------------------
(* The relay: one session.                                                 *)

\* Mutant: a newcomer is given the slot beside its holder.
RelayAcceptsAll(c) ==
    /\ ready[c] = "connecting" /\ atRelay[c] = "none"
    /\ atRelay' = [atRelay EXCEPT ![c] = "in"]
    /\ UNCHANGED <<mobileVars, up, bridgeVars, confirms>>

RelayAccepts(c) ==
    /\ ready[c] = "connecting" /\ atRelay[c] = "none"
    /\ atRelay' = [atRelay EXCEPT ![c] =
                      IF \E d \in Conn : atRelay[d] = "in" THEN "rejected" ELSE "in"]
    /\ UNCHANGED <<mobileVars, up, bridgeVars, confirms>>

\* The message is passed on if the bridge is there, and else dropped.
RelayHears(c) ==
    /\ up[c] # None
    /\ up' = [up EXCEPT ![c] = None]
    /\ toBridge' = IF bridgeUp THEN Append(toBridge, up[c]) ELSE toBridge
    /\ UNCHANGED <<mobileVars, atRelay, bridgeUp, deriving, keys, heard, confirms>>

\* The relay's close event, whoever closed; the app may learn of it later, or
\* have known for long.  What had not arrived by then does not.
RelayCloses(c) ==
    /\ atRelay[c] \in {"in", "rejected"}
    /\ atRelay' = [atRelay EXCEPT ![c] = IF ready[c] = "free" THEN "none" ELSE "gone"]
    /\ up' = [up EXCEPT ![c] = None]
    /\ UNCHANGED <<mobileVars, bridgeVars, confirms>>

-----------------------------------------------------------------------------
(* The bridge.                                                             *)

BridgeConnects ==
    /\ ~bridgeUp
    /\ bridgeUp' = TRUE
    /\ UNCHANGED <<mobileVars, relayVars, toBridge, deriving, keys, confirms, heard>>

BridgeLost ==
    /\ BridgeMayLeave /\ bridgeUp
    /\ bridgeUp' = FALSE
    /\ toBridge' = <<>>
    /\ UNCHANGED <<mobileVars, relayVars, deriving, keys, confirms, heard>>

\* Mutant: a bridge that is paired hears of no other pairing.
BridgeHearsOnce ==
    /\ toBridge # <<>>
    /\ toBridge' = Tail(toBridge)
    /\ heard' = Append(heard, Head(toBridge))
    /\ deriving' = IF keys = None THEN deriving \cup {Head(toBridge)} ELSE deriving
    /\ UNCHANGED <<mobileVars, relayVars, bridgeUp, keys, confirms>>

\* pairConfirm: completePairing() runs up to its await.
BridgeHears ==
    /\ toBridge # <<>>
    /\ toBridge' = Tail(toBridge)
    /\ heard' = Append(heard, Head(toBridge))
    /\ deriving' = deriving \cup {Head(toBridge)}
    /\ UNCHANGED <<mobileVars, relayVars, bridgeUp, keys, confirms>>

\* The derivation runs on libuv's thread pool: two may end in either order.
Derived(a) ==
    /\ a \in deriving
    /\ deriving' = deriving \ {a}
    /\ keys' = a
    /\ UNCHANGED <<mobileVars, relayVars, bridgeUp, toBridge, confirms, heard>>

-----------------------------------------------------------------------------
PNext ==
    \/ PhoneConnects \/ PhoneElse
    \/ \E c \in Conn : PhoneOpens(c) \/ PhoneHearsClose(c)
    \/ \E c \in Conn : RelayAccepts(c) \/ RelayHears(c) \/ RelayCloses(c)
    \/ BridgeConnects \/ BridgeLost \/ BridgeHears
    \/ \E a \in Attempt : Derived(a)

\* The relay and the bridge handle what has reached them.
PFairness ==
    /\ WF_pairingVars(\E c \in Conn : RelayHears(c))
    /\ WF_pairingVars(BridgeHears)
    /\ WF_pairingVars(\E a \in Attempt : Derived(a))

PSpec == PInit /\ [][PNext]_pairingVars
PFairSpec == PSpec /\ PFairness

-----------------------------------------------------------------------------
(* Correctness.                                                            *)

PairingTypeOK ==
    /\ atRelay \in [Conn -> RelaySide]
    /\ up \in [Conn -> Attempt \cup {None}]
    /\ bridgeUp \in BOOLEAN
    /\ toBridge \in Seq(Attempt)
    /\ deriving \in SUBSET Attempt
    /\ keys \in Attempt \cup {None}
    /\ confirms \in Seq(Attempt) /\ heard \in Seq(Attempt)

\* a comes before b in the sequence s.
Before(s, a, b) ==
    \E k, l \in 1 .. Len(s) : k < l /\ s[k] = a /\ s[l] = b

\* The bridge hears of pairings in the order the app made them, each once, on
\* whatever connections they travelled: the relay gives the slot to the next
\* connection only when the last one has closed (server.ts:87-99, 118-120).
BridgeHearsInOrder ==
    \A i, j \in 1 .. Len(heard) : i < j => Before(confirms, heard[i], heard[j])

\* A pair.confirm on a connection that holds the slot gives the bridge its
\* keys, also when the bridge had others, unless that connection or the
\* bridge's is lost first (message-forwarder.ts:57-67, message-router.ts:129-152).
ConfirmTakesEffect ==
    \A a \in Attempt :
        (\E c \in Conn : up[c] = a)
            ~> (keys = a \/ ~bridgeUp \/ \A c \in Conn : atRelay[c] # "in")

Quiet == (\A c \in Conn : up[c] = None) /\ toBridge = <<>> /\ deriving = {}

\* "both sides derive E2EE keys" (messages.ts:11): an app that shows connected
\* on a connection the relay has let in, and a bridge that is connected, hold
\* the keys of the same pairing when nothing is on its way between them.
KeysAgree ==
    Quiet /\ bridgeUp /\ Shown = "connected" /\ conn # None /\ atRelay[conn] = "in"
        => keys = snapshot

\* Two derivations of the bridge that overlap may end in either order.
OneDerivation == \A a, b \in deriving : a = b

HeldByBoth ==
    deriving = {} /\ confirms # <<>> /\ snapshot = confirms[Len(confirms)]
        /\ (\E i \in 1 .. Len(heard) : heard[i] = snapshot)
            => keys = snapshot

\* What is left of KeysAgree: once the bridge has heard the pair.confirm that
\* the app sent last, and has derived its keys, it holds the keys of that
\* pairing, as the app does until it turns to another, whatever was paired,
\* lost, restored or heard late before; unless two derivations of the bridge
\* overlap (message-router.ts:129-152, relay-session.ts:80-87).
AgreeOnceHeard == []OneDerivation => []HeldByBoth

\* The session on disk is one whose pair.confirm was sent, and a session that
\* is still to be written was sent later than those it will replace
\* (relay-session.ts:80-90, 137).
StoredInOrder ==
    /\ persisted # None => \E k \in 1 .. Len(confirms) : confirms[k] = persisted
    /\ \A i \in 1 .. Len(storage) : storage[i] # None =>
            /\ \E k \in 1 .. Len(confirms) : confirms[k] = storage[i]
            /\ persisted # None => Before(confirms, persisted, storage[i])
            /\ \A j \in 1 .. Len(storage) :
                    i < j /\ storage[j] # None => Before(confirms, storage[i], storage[j])
===============================================================================
