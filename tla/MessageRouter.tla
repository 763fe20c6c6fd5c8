---------------------------- MODULE MessageRouter -----------------------------
(***************************************************************************)
(* The bridge as a whole: class MessageRouter of                           *)
(* packages/bridge/src/core/message-router.ts as crc start runs it         *)
(* (packages/bridge/src/cli/commands/start.ts).  It decrypts requests of   *)
(* the phone and puts them to the agent, encrypts responses and events of  *)
(* the agent and gives them to the relay client, takes new keys from each  *)
(* pairing, and stops.                                                     *)
(*                                                                         *)
(* The relay client and the agent adapter are here by what they promise:   *)
(* OutboundQueue, which RelayClient implements, and AgentRequests, which   *)
(* CodexAdapter implements.  Keys are named by the pairing they come from. *)
(* A callback of a promise runs in the step that settles the promise.      *)
(***************************************************************************)
EXTENDS Naturals, Sequences

CONSTANTS
    Pairing,    \* pair.confirm messages; the bridge hears each once (see Pairing)
    Request,    \* requests of the phone
    None,       \* no keys
    Event,      \* a notification of the agent
    MaxEvents   \* bound on the notifications of the agent

ASSUME RouterAssumption ==
    /\ None \notin Pairing
    /\ Event \notin Request
    /\ MaxEvents \in Nat

VARIABLES
    phase,    \* see Phase
    link,     \* the relay client's connection: see Link
    keys,     \* directionalKeys; None when null or not isPaired
    heard,    \* pairings whose pair.confirm has been heard
    deriving, \* those whose completePairing() awaits the derivation
    outcome,  \* per request: AgentRequests
    sent,     \* the messages given to the relay client: message n is sent[n]
    written,  \* numbers of those written to a connection, in that order
    waiting,  \* numbers of those in the relay client's buffer
    events,   \* notifications of the agent so far
    by,       \* history: the keys a request was decrypted with
    derived   \* history: pairings in the order their keys were stored

keyVars == <<keys, heard, deriving, derived>>
queueVars == <<sent, written, waiting>>
vars == <<phase, link, keyVars, outcome, queueVars, events, by>>

Agent == INSTANCE AgentRequests
Queue == INSTANCE OutboundQueue WITH accepted <- Len(sent)

\* "failing": start() was rejected, "stopping": a signal; stop() awaits the agent.
Phase == {"new", "starting", "running", "failing", "stopping", "exited"}

\* "away": the client has no open connection and may get one.  "closing": it
\* is closing its connection, messages still arrive.  "reviving": the same, but
\* a pair.confirm has set its state back, so that it will reconnect.
\* "over": disconnected for good.
Link == {"idle", "away", "on", "closing", "reviving", "over"}

Hearing == phase # "exited" /\ link \in {"on", "closing", "reviving"}

Init ==
    /\ phase = "new" /\ link = "idle"
    /\ keys = None /\ heard = {} /\ deriving = {} /\ derived = <<>>
    /\ outcome = [r \in Request |-> "unsent"]
    /\ sent = <<>> /\ written = <<>> /\ waiting = <<>>
    /\ events = 0
    /\ by = [r \in Request |-> None]

-----------------------------------------------------------------------------
(* sendToMobile(): encrypt with the present keys, and send.                *)

\* send() of the relay client, of a message encrypted with the keys k.
Give(k, item) ==
    /\ sent' = Append(sent, [key |-> k, item |-> item])
    /\ IF link = "on" THEN Queue!WriteAtOnce ELSE Queue!Hold

SendToMobile(item) ==
    IF keys = None THEN UNCHANGED queueVars ELSE Give(keys, item)

-----------------------------------------------------------------------------
(* The relay client's connection.                                          *)

RelayOpens ==
    /\ phase # "exited" /\ link = "away"
    /\ link' = "on"
    /\ UNCHANGED sent /\ Queue!Flush
    /\ UNCHANGED <<phase, keyVars, outcome, events, by>>

RelayLost ==
    /\ phase # "exited" /\ link = "on"
    /\ link' = "away"
    /\ UNCHANGED <<phase, keyVars, outcome, queueVars, events, by>>

\* The close event after disconnect().
RelayCloses ==
    /\ phase # "exited" /\ link \in {"closing", "reviving"}
    /\ link' = IF link = "closing" THEN "over" ELSE "away"
    /\ UNCHANGED <<phase, keyVars, outcome, queueVars, events, by>>

-----------------------------------------------------------------------------
(* start() and stop().                                                     *)

Start ==
    /\ phase = "new"
    /\ phase' = "starting"
    /\ link' = "away"
    /\ UNCHANGED <<keyVars, outcome, queueVars, events, by>>

AgentStarted ==
    /\ phase = "starting"
    /\ phase' = "running"
    /\ UNCHANGED <<link, keyVars, outcome, queueVars, events, by>>

\* disconnect() of the relay client.
Disconnect ==
    /\ link' = IF link = "away" THEN "over"
               ELSE IF link \in {"on", "reviving"} THEN "closing" ELSE link
    /\ UNCHANGED sent /\ Queue!Discard

\* Mutant: the keys are dropped before the agent has stopped.
StopForgettingFirst ==
    /\ phase \in {"starting", "running", "stopping"}
    /\ phase' = IF phase = "starting" THEN "failing" ELSE "stopping"
    /\ Disconnect
    /\ keys' = None
    /\ UNCHANGED <<heard, deriving, derived, outcome, events, by>>

\* stop() up to its await: after a failed start(), or on a signal, which may
\* come again while the first one waits.
Stop ==
    /\ phase \in {"starting", "running", "stopping"}
    /\ phase' = IF phase = "starting" THEN "failing" ELSE "stopping"
    /\ Disconnect
    /\ UNCHANGED <<keyVars, outcome, events, by>>

\* The rest of stop(), and process.exit(): they come before the callbacks of
\* the requests that agent.stop() has just rejected.
AgentStopped ==
    /\ phase \in {"failing", "stopping"}
    /\ phase' = "exited"
    /\ keys' = None
    /\ Agent!Settle({r \in Request : outcome[r] = "waiting"}, "stopped")
    /\ UNCHANGED <<link, heard, deriving, derived, queueVars, events, by>>

\* No handler is set for a signal that comes before start() has resolved.
Killed ==
    /\ phase = "starting"
    /\ phase' = "exited"
    /\ UNCHANGED <<link, keyVars, outcome, queueVars, events, by>>

-----------------------------------------------------------------------------
(* Pairing: completePairing().                                             *)

HearsConfirm(p) ==
    /\ Hearing /\ p \notin heard
    /\ heard' = heard \cup {p}
    /\ deriving' = deriving \cup {p}
    /\ link' = IF link = "closing" THEN "reviving" ELSE link
    /\ UNCHANGED <<phase, keys, derived, outcome, queueVars, events, by>>

\* Two derivations run on libuv's thread pool and may end in either order.
Derived(p) ==
    /\ phase # "exited" /\ p \in deriving
    /\ deriving' = deriving \ {p}
    /\ keys' = p
    /\ derived' = Append(derived, p)
    /\ UNCHANGED <<phase, link, heard, outcome, queueVars, events, by>>

-----------------------------------------------------------------------------
(* Requests of the phone, and notifications of the agent.                  *)

\* handleRelayMessage() of a request it can decrypt; any other is ignored.
\* The agent takes requests only between start() and stop().
HearsRequest(r) ==
    /\ Hearing /\ keys # None
    /\ by' = [by EXCEPT ![r] = keys]
    /\ \/ phase = "running" /\ Agent!Ask(r) /\ UNCHANGED queueVars
       \/ Agent!Refuse(r) /\ SendToMobile(r)
    /\ UNCHANGED <<phase, link, keyVars, events>>

\* Mutant: an error is not caught, so nothing is sent.
SettledUncaught(r) ==
    /\ phase \in {"running", "stopping"}
    /\ \E reason \in {"answered", "timeout", "closed"} :
          /\ Agent!Settle({r}, reason)
          /\ IF reason = "answered" THEN SendToMobile(r) ELSE UNCHANGED queueVars
    /\ UNCHANGED <<phase, link, keyVars, events, by>>

\* Mutant: the reply is encrypted with the keys of its request.
SettledUnderOldKeys(r) ==
    /\ phase \in {"running", "stopping"}
    /\ \E reason \in {"answered", "timeout", "closed"} : Agent!Settle({r}, reason)
    /\ Give(by[r], r)
    /\ UNCHANGED <<phase, link, keyVars, events, by>>

\* The promise of sendRequest(): a response, or an error reply in its place.
Settled(r) ==
    /\ phase \in {"running", "stopping"}
    /\ \E reason \in {"answered", "timeout", "closed"} : Agent!Settle({r}, reason)
    /\ SendToMobile(r)
    /\ UNCHANGED <<phase, link, keyVars, events, by>>

\* Notifications are passed on until stop() unsubscribes.
AgentEvent ==
    /\ phase = "running" /\ events < MaxEvents
    /\ events' = events + 1
    /\ SendToMobile(Event)
    /\ UNCHANGED <<phase, link, keyVars, outcome, by>>

-----------------------------------------------------------------------------
Next ==
    \/ RelayOpens \/ RelayLost \/ RelayCloses
    \/ Start \/ AgentStarted \/ Stop \/ AgentStopped \/ Killed
    \/ \E p \in Pairing : HearsConfirm(p) \/ Derived(p)
    \/ \E r \in Request : HearsRequest(r) \/ Settled(r)
    \/ AgentEvent

\* The agent adapter settles what it was asked (CodexAdapter!EveryRequestSettles).
Fairness == \A r \in Request : WF_vars(Settled(r))

Spec == Init /\ [][Next]_vars
FairSpec == Spec /\ Fairness

-----------------------------------------------------------------------------
(* Correctness.                                                            *)

Message == [key : Pairing, item : Request \cup {Event}]

TypeOK ==
    /\ phase \in Phase /\ link \in Link
    /\ keys \in Pairing \cup {None}
    /\ heard \in SUBSET Pairing /\ deriving \in SUBSET heard
    /\ derived \in Seq(Pairing)
    /\ outcome \in [Request -> Agent!Outcome]
    /\ sent \in Seq(Message)
    /\ written \in Seq(1 .. Len(sent)) /\ waiting \in Seq(1 .. Len(sent))
    /\ events \in 0 .. MaxEvents
    /\ by \in [Request -> Pairing \cup {None}]

Replies(r) == {n \in 1 .. Len(sent) : sent[n].item = r}

Unsettled == {"unsent", "waiting"}

\* A request is replied to once, when the agent has settled it and never
\* before, whatever becomes of the keys, the relay or the agent meanwhile: as
\* long as the bridge runs no outcome is lost (message-router.ts:197-208, 220,
\* 241-248).
OneReplyEach ==
    \A r \in Request :
        /\ \A m, n \in Replies(r) : m = n
        /\ outcome[r] \in Unsettled => Replies(r) = {}
        /\ phase # "exited" /\ outcome[r] \notin Unsettled => Replies(r) # {}

\* p comes before q in the sequence s, or where q does.
NoLater(s, p, q) ==
    \E i, j \in 1 .. Len(s) : i <= j /\ s[i] = p /\ s[j] = q

\* On the wire the keys only move on: what was encrypted before a pairing is
\* not written after what was encrypted since, also when it waited in the
\* buffer; and a reply has the keys of its request, or keys stored since
\* (message-router.ts:145, 219-229, relay-client.ts:165-172, 201-207).
KeysOnlyMoveOn ==
    /\ \A i, j \in 1 .. Len(written) :
            i < j => NoLater(derived, sent[written[i]].key, sent[written[j]].key)
    /\ \A r \in Request : \A n \in Replies(r) : NoLater(derived, by[r], sent[n].key)

\* A request the agent was asked is replied to on the wire, unless the relay
\* is lost or the bridge is stopped first (message-router.ts:199-208).
RequestsAreAnswered ==
    \A r \in Request :
        outcome[r] = "waiting" ~>
            ((\E n \in Replies(r), i \in 1 .. Len(written) : written[i] = n)
                \/ link # "on" \/ phase # "running")
===============================================================================
