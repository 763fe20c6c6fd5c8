---------------------------- MODULE MobileSession -----------------------------
(***************************************************************************)
(* The mobile side of a session: RelaySessionManager of                    *)
(* apps/mobile/lib/relay-session.ts, the SecureWebSocketClient it attaches *)
(* (websocket-client.ts), the session store (stores/session.ts) and the    *)
(* snapshot kept in SecureStore, each operation of which may be rejected.  *)
(*                                                                         *)
(* Key generation and derivation await nothing but finished promises, so   *)
(* pair() and reconnect() run in one step up to waitForConnected().  What  *)
(* interleaves is the calls that wait, the events of connections, storage  *)
(* operations, timers, and the death of the app.  A client that was        *)
(* replaced has no handlers left, so only its closing connection remains.  *)
(* Heartbeats, relay URLs, ids and the text of errors are left out.        *)
(***************************************************************************)
EXTENDS Naturals, Sequences

CONSTANTS
    Attempt,      \* calls of pair(), each with client keys of its own
    Conn,         \* WebSocket objects; one is used again once it has closed
    None,         \* null
    StorageBound, \* bound on the storage operations under way
    Failures      \* what may go wrong with SecureStore: see Failure

ASSUME MobileAssumption ==
    None \notin Attempt \cup Conn /\ "restore" \notin Attempt \cup {None}

\* A rejected load, write or delete, and a value that does not parse.
Failure == {"load", "write", "delete", "parse"}

ASSUME StorageAssumption == StorageBound \in Nat /\ Failures \subseteq Failure

VARIABLES
    isPaired, status, encryptionReady, \* useSessionStore
    snapshot,    \* the attempt whose session this.snapshot describes
    conn,        \* this.client.ws
    clientState, \* this.client.state; "disconnected" when there is no client
    retryTimer,  \* this.client.reconnectTimer is set
    waiter,      \* the call whose waitForConnected() listens to this.client
    ready,       \* per connection: see ReadyState
    call,        \* per attempt: see CallState
    restoring,   \* restorePersistedSession(): "loading", "clearing" a value it
                 \* cannot read, "waiting" for the relay, or "done"
    storage,     \* SecureStore operations under way: None stands for a delete
    persisted,   \* what SecureStore holds
    refused      \* history: there is no snapshot, and the load of this launch, or
                 \* the delete that ended last, was rejected

storeVars == <<isPaired, status, encryptionReady>>
clientVars == <<conn, clientState, retryTimer, ready>>
callVars == <<snapshot, waiter, call, restoring>>
diskVars == <<storage, persisted, refused>>
mobileVars == <<storeVars, clientVars, callVars, diskVars>>

Status == {"disconnected", "connecting", "connected"}
ReadyState == {"free", "connecting", "open", "closing", "ending"}
CallState == {"idle", "waiting", "persisting", "done", "failed"}

Init ==
    /\ isPaired = FALSE /\ status = "disconnected" /\ encryptionReady = FALSE
    /\ snapshot = None
    /\ conn = None /\ clientState = "disconnected" /\ retryTimer = FALSE
    /\ waiter = None
    /\ ready = [c \in Conn |-> "free"]
    /\ call = [a \in Attempt |-> "idle"]
    /\ restoring = "loading"
    /\ storage = <<>> /\ persisted = None /\ refused = FALSE

-----------------------------------------------------------------------------
(* The client.                                                             *)

\* ws.close() on the connection of the client, if it has one.
AfterClose(c) ==
    CASE c # conn -> ready[c]
      [] ready[c] = "open" -> "closing"
      [] ready[c] = "connecting" -> "ending"
      [] OTHER -> ready[c]

\* Mutant: the previous client is not disconnected.
AttachBeside ==
    /\ \E c \in Conn :
          /\ ready[c] = "free"
          /\ conn' = c
          /\ ready' = [ready EXCEPT ![c] = "connecting"]
    /\ clientState' = "connecting"
    /\ retryTimer' = FALSE
    /\ status' = "connecting"

\* attachClient(): disconnect() of the previous client, then a new one connects.
Attach ==
    /\ \E c \in Conn :
          /\ ready[c] = "free"
          /\ conn' = c
          /\ ready' = [d \in Conn |-> IF d = c THEN "connecting" ELSE AfterClose(d)]
    /\ clientState' = "connecting"
    /\ retryTimer' = FALSE
    /\ status' = "connecting"

\* onopen.  pair() goes on in the same step: it sends pair.confirm, sets the
\* status and starts to persist; a restore is over.
Opened(c) ==
    /\ ready[c] = "connecting"
    /\ ready' = [ready EXCEPT ![c] = "open"]
    /\ clientState' = "connected"
    /\ status' = IF isPaired \/ waiter \in Attempt THEN "connected" ELSE status
    /\ IF waiter \in Attempt
       THEN call' = [call EXCEPT ![waiter] = "persisting"] /\ storage' = Append(storage, waiter)
       ELSE UNCHANGED <<call, storage>>
    /\ restoring' = IF waiter = "restore" THEN "done" ELSE restoring
    /\ waiter' = None
    /\ UNCHANGED <<isPaired, encryptionReady, conn, retryTimer, snapshot, persisted, refused>>

\* A handshake that fails, or a connection that is lost or closed by the relay.
Lost(c) ==
    /\ ready[c] \in {"connecting", "open", "closing"}
    /\ ready' = [ready EXCEPT ![c] = "ending"]
    /\ UNCHANGED <<storeVars, conn, clientState, retryTimer, callVars, diskVars>>

\* Mutant: the store is told nothing.
ClosedSilently(c) ==
    /\ ready[c] \in {"closing", "ending"}
    /\ ready' = [ready EXCEPT ![c] = "free"]
    /\ IF c = conn
       THEN /\ conn' = None
            /\ clientState' = "disconnected"
            /\ retryTimer' = (clientState = "connected")
       ELSE UNCHANGED <<conn, clientState, retryTimer>>
    /\ UNCHANGED <<status, isPaired, encryptionReady, callVars, diskVars>>

\* onclose; it means nothing any more to a client that was replaced.
Closed(c) ==
    /\ ready[c] \in {"closing", "ending"}
    /\ ready' = [ready EXCEPT ![c] = "free"]
    /\ IF c = conn
       THEN /\ conn' = None
            /\ clientState' = "disconnected"
            /\ retryTimer' = (clientState = "connected")
            /\ status' = IF isPaired THEN "disconnected" ELSE status
       ELSE UNCHANGED <<conn, clientState, retryTimer, status>>
    /\ UNCHANGED <<isPaired, encryptionReady, callVars, diskVars>>

RetryFires ==
    /\ retryTimer
    /\ retryTimer' = FALSE
    /\ \E c \in Conn :
          /\ ready[c] = "free"
          /\ conn' = c
          /\ ready' = [ready EXCEPT ![c] = "connecting"]
    /\ clientState' = "connecting"
    /\ status' = IF isPaired THEN "connecting" ELSE status
    /\ UNCHANGED <<isPaired, encryptionReady, callVars, diskVars>>

-----------------------------------------------------------------------------
(* handleMessage(), for messages of the current client.                    *)

Hears(c) == c = conn /\ ready[c] = "open"

PairReady(c) ==
    /\ Hears(c)
    /\ status' = IF isPaired /\ encryptionReady THEN "connected" ELSE status
    /\ UNCHANGED <<isPaired, encryptionReady, clientVars, callVars, diskVars>>

PeerDisconnected(c) ==
    /\ Hears(c)
    /\ status' = "connecting"
    /\ UNCHANGED <<isPaired, encryptionReady, clientVars, callVars, diskVars>>

\* An error of the relay, or a message that this.snapshot's keys do not decrypt.
\* The connection stays open.
ErrorHeard(c) ==
    /\ Hears(c)
    /\ status' = "disconnected"
    /\ UNCHANGED <<isPaired, encryptionReady, clientVars, callVars, diskVars>>

-----------------------------------------------------------------------------
(* RelaySessionManager.                                                    *)

Pair(a) ==
    /\ restoring = "done" /\ call[a] = "idle"
    /\ snapshot' = a
    /\ isPaired' = TRUE /\ encryptionReady' = TRUE
    /\ Attach
    /\ waiter' = a
    /\ call' = [call EXCEPT ![a] = "waiting"]
    /\ refused' = FALSE
    /\ UNCHANGED <<restoring, storage, persisted>>

\* Mutant: a wait whose client was replaced loses its timeout.
WaitTimesOutWithClient(a) ==
    /\ call[a] = "waiting" /\ waiter = a
    /\ call' = [call EXCEPT ![a] = "failed"]
    /\ waiter' = None
    /\ UNCHANGED <<storeVars, clientVars, snapshot, restoring, diskVars>>

\* waitForConnected() gives up.  The client stays attached and may still open.
WaitTimesOut(a) ==
    /\ call[a] = "waiting"
    /\ call' = [call EXCEPT ![a] = "failed"]
    /\ waiter' = IF waiter = a THEN None ELSE waiter
    /\ UNCHANGED <<storeVars, clientVars, snapshot, restoring, diskVars>>

\* restorePersistedSession() at launch; the screens are shown when it is done.
Restore ==
    /\ restoring = "loading"
    /\ snapshot' = persisted
    /\ IF persisted = None
       THEN /\ restoring' = "done"
            /\ UNCHANGED <<storeVars, clientVars, waiter>>
       ELSE /\ restoring' = "waiting"
            /\ isPaired' = TRUE /\ encryptionReady' = TRUE
            /\ Attach
            /\ waiter' = "restore"
    /\ UNCHANGED <<call, diskVars>>

\* loadSnapshot() is rejected: nothing catches that, but the screens are shown.
LoadRejected ==
    /\ restoring = "loading" /\ "load" \in Failures
    /\ restoring' = "done"
    /\ refused' = TRUE
    /\ UNCHANGED <<storeVars, clientVars, snapshot, waiter, call, storage, persisted>>

\* What was loaded does not parse: it is deleted, and nothing is restored.
LoadUnreadable ==
    /\ restoring = "loading" /\ persisted # None /\ "parse" \in Failures
    /\ restoring' = "clearing"
    /\ storage' = Append(storage, None)
    /\ UNCHANGED <<storeVars, clientVars, snapshot, waiter, call, persisted, refused>>

\* Mutant: the close event clears the timeout, and nothing rejects.
RestoreTimesOutWithClient ==
    /\ restoring = "waiting" /\ conn # None
    /\ restoring' = "done"
    /\ waiter' = None
    /\ isPaired' = TRUE /\ encryptionReady' = TRUE /\ status' = "disconnected"
    /\ UNCHANGED <<clientVars, snapshot, call, diskVars>>

RestoreTimesOut ==
    /\ restoring = "waiting"
    /\ restoring' = "done"
    /\ waiter' = None
    /\ isPaired' = TRUE /\ encryptionReady' = TRUE /\ status' = "disconnected"
    /\ UNCHANGED <<clientVars, snapshot, call, diskVars>>

\* Mutant: the snapshot is deleted from memory only.
DisconnectKeepingStorage ==
    /\ restoring = "done" /\ Len(storage) < StorageBound
    /\ ready' = [c \in Conn |-> AfterClose(c)]
    /\ conn' = None /\ clientState' = "disconnected" /\ retryTimer' = FALSE
    /\ waiter' = None
    /\ snapshot' = None
    /\ UNCHANGED <<storeVars, call, restoring, diskVars>>

\* disconnect(), up to the await of the delete.  A call that waits for the old
\* client is left to its timeout.
Disconnect ==
    /\ restoring = "done" /\ Len(storage) < StorageBound
    /\ ready' = [c \in Conn |-> AfterClose(c)]
    /\ conn' = None /\ clientState' = "disconnected" /\ retryTimer' = FALSE
    /\ waiter' = None
    /\ snapshot' = None
    /\ storage' = Append(storage, None)
    /\ UNCHANGED <<storeVars, call, restoring, persisted, refused>>

\* The launch that waits for its delete goes on.
Cleared == IF restoring = "clearing" THEN "done" ELSE restoring

\* The oldest storage operation succeeds, and the call that awaited it ends: a
\* disconnect() resets the store.  To a launch that clears what it cannot read,
\* that means nothing: the store is as it was made.
Stored ==
    /\ storage # <<>>
    /\ persisted' = Head(storage)
    /\ storage' = Tail(storage)
    /\ IF Head(storage) = None
       THEN /\ isPaired' = FALSE /\ status' = "disconnected" /\ encryptionReady' = FALSE
            /\ refused' = FALSE
            /\ UNCHANGED call
       ELSE /\ call' = [call EXCEPT ![Head(storage)] = "done"]
            /\ UNCHANGED <<storeVars, refused>>
    /\ restoring' = Cleared
    /\ UNCHANGED <<clientVars, snapshot, waiter>>

\* The oldest storage operation is rejected.  pair() fails, after its
\* pair.confirm; disconnect() ends before it resets the store, and nothing
\* catches that (settings/index.tsx:81).
StorageRejected ==
    /\ storage # <<>>
    /\ (IF Head(storage) = None THEN "delete" ELSE "write") \in Failures
    /\ storage' = Tail(storage)
    /\ IF Head(storage) = None
       THEN refused' = (snapshot = None) /\ UNCHANGED call
       ELSE call' = [call EXCEPT ![Head(storage)] = "failed"] /\ UNCHANGED refused
    /\ restoring' = Cleared
    /\ UNCHANGED <<storeVars, clientVars, snapshot, waiter, persisted>>

\* The app is killed and launched again: only SecureStore is left.
Relaunch ==
    /\ restoring' = "loading"
    /\ isPaired' = FALSE /\ status' = "disconnected" /\ encryptionReady' = FALSE
    /\ snapshot' = None /\ waiter' = None
    /\ conn' = None /\ clientState' = "disconnected" /\ retryTimer' = FALSE
    /\ ready' = [c \in Conn |-> IF ready[c] = "free" THEN "free" ELSE "ending"]
    /\ call' = [a \in Attempt |->
                    IF call[a] \in {"waiting", "persisting"} THEN "failed" ELSE call[a]]
    /\ storage' = <<>> /\ refused' = FALSE
    /\ UNCHANGED persisted

-----------------------------------------------------------------------------
Next ==
    \/ \E c \in Conn : Opened(c) \/ Lost(c) \/ Closed(c)
    \/ \E c \in Conn : PairReady(c) \/ PeerDisconnected(c) \/ ErrorHeard(c)
    \/ \E a \in Attempt : Pair(a) \/ WaitTimesOut(a)
    \/ RetryFires \/ Disconnect \/ Relaunch
    \/ Restore \/ LoadRejected \/ LoadUnreadable \/ RestoreTimesOut
    \/ Stored \/ StorageRejected

\* Timers fire, storage operations end one way or another, a connection that is
\* ending closes.
Fairness ==
    /\ WF_mobileVars(Restore \/ LoadRejected \/ LoadUnreadable)
    /\ WF_mobileVars(Stored \/ StorageRejected)
    /\ WF_mobileVars(RestoreTimesOut) /\ WF_mobileVars(RetryFires)
    /\ \A a \in Attempt : WF_mobileVars(WaitTimesOut(a))
    /\ \A c \in Conn : WF_mobileVars(Closed(c))

Spec == Init /\ [][Next]_mobileVars
FairSpec == Spec /\ Fairness

-----------------------------------------------------------------------------
(* Correctness.                                                            *)

StoreTypeOK ==
    /\ isPaired \in BOOLEAN /\ encryptionReady \in BOOLEAN
    /\ status \in Status

ClientTypeOK ==
    /\ conn \in Conn \cup {None}
    /\ clientState \in Status
    /\ retryTimer \in BOOLEAN
    /\ ready \in [Conn -> ReadyState]

CallTypeOK ==
    /\ snapshot \in Attempt \cup {None}
    /\ waiter \in Attempt \cup {"restore", None}
    /\ call \in [Attempt -> CallState]
    /\ restoring \in {"loading", "clearing", "waiting", "done"}
    /\ storage \in Seq(Attempt \cup {None})
    /\ persisted \in Attempt \cup {None}
    /\ refused \in BOOLEAN

TypeOK == StoreTypeOK /\ ClientTypeOK /\ CallTypeOK

\* What the settings screen shows (app/(main)/settings/index.tsx:19).
Shown == IF isPaired THEN status ELSE "disconnected"

\* A delete that disconnect() asked for is under way.
Forgetting == \E i \in 1 .. Len(storage) : storage[i] = None

\* "Connected" is shown only while the client holds a connection that opened,
\* whichever of three writers (connection events, relay messages, the calls
\* that went on after an await) wrote the status last.  The one exception is a
\* session that disconnect() has given up and whose snapshot is not deleted
\* yet, or could not be: the store is then as it was, without a client, until
\* the next pair(), launch, or disconnect() whose delete succeeds
\* (relay-session.ts:89, 117-122, 135-140, 156-167, 174-203).
ConnectedIsOpen ==
    Shown = "connected" =>
        \/ conn # None /\ ready[conn] \in {"open", "ending"}
        \/ snapshot = None /\ (Forgetting \/ refused)

\* The app never has two connections that compete for the session's one client
\* slot: every other connection is on its way out (relay-session.ts:147-171).
OneConnection ==
    /\ \A c \in Conn : ready[c] \in {"connecting", "open"} => c = conn
    /\ retryTimer => conn = None

\* When storage is at rest, a session that was disconnected is one the next
\* launch restores only if SecureStore rejected the delete (or the load, where
\* there was none to disconnect): no write of a call that was waiting or under
\* way when it was disconnected brings it back, nor an earlier rejection that a
\* later disconnect() made good (relay-session.ts:90, 107-111, 135-138).
ForgottenIsForgotten ==
    restoring = "done" /\ storage = <<>> /\ snapshot = None => persisted = None \/ refused

\* The app gets past its loading screen, whatever becomes of the connection,
\* unless it is killed over and over (app/_layout.tsx:12-16).
LaunchCompletes == []<>(restoring = "done") \/ []<><<Relaunch>>_mobileVars

\* Every pair() settles, also when another call or disconnect() has taken the
\* client it waits for away (relay-session.ts:218-238).
PairSettles ==
    \A a \in Attempt :
        call[a] \in {"waiting", "persisting"} ~> call[a] \in {"done", "failed"}
===============================================================================
