-------------------------------- MODULE Relay --------------------------------
(***************************************************************************)
(* The relay server of packages/relay: the connection, message, close and  *)
(* shutdown handlers of server.ts, the ClientRegistry they share, the      *)
(* MessageForwarder and the HeartbeatMonitor.                              *)
(*                                                                         *)
(* Node runs one handler at a time, so each handler is one action.  What   *)
(* interleaves is the handlers of different sockets and, for one socket,   *)
(* the moment its readyState leaves OPEN and the later moment its "close"  *)
(* event is emitted.  Peers are the environment: they connect with any     *)
(* session code and role, send any message, go away or fall silent.        *)
(***************************************************************************)
EXTENDS Integers, FiniteSets

CONSTANTS
    Socket,             \* one WebSocket connection accepted by the server
    SessionId,          \* well-formed session codes
    NoSocket,           \* the null of SessionPair.bridge and .client
    NoSession,          \* the undefined of a WeakMap lookup
    HeartbeatInterval,  \* RelayConfig.heartbeatIntervalMs, in clock ticks
    HeartbeatMaxMisses, \* RelayConfig.heartbeatMaxMisses
    SessionTimeout      \* RelayConfig.sessionTimeoutMs, in clock ticks

ASSUME SentinelsAssumption == NoSocket \notin Socket /\ NoSession \notin SessionId
ASSUME ConfigAssumption == /\ HeartbeatInterval \in Nat \ {0}
                           /\ HeartbeatMaxMisses \in Nat
                           /\ SessionTimeout \in Nat

VARIABLES
    running,      \* FALSE once shutdown() has run: no connection is accepted
    readyState,   \* per socket: see SocketState
    attached,     \* the server has set its message and close handlers on it
    sessions,     \* keys of ClientRegistry.sessions
    occupant,     \* SessionPair.bridge and .client of every session
    sessionBy,    \* ClientRegistry.sessionByBridge and .sessionByClient
    idle,         \* now - lastActivityAt, counted up to IdleLimit + 1
    sinceCleanup, \* ticks since the monitor's interval timer last fired
    sent          \* what the last handler wrote, and to which socket

vars == <<running, readyState, attached, sessions, occupant, sessionBy, idle,
          sinceCleanup, sent>>

Role == {"bridge", "client"}
Other(r) == IF r = "bridge" THEN "client" ELSE "bridge"

\* "closing": ws.close() was called here, what the peer had sent still comes in.
\* "ending": the peer's close frame, or the loss of the connection, is known.
\* Both are readyState 2; the "close" event that leads to "closed" follows.
SocketState == {"new", "open", "closing", "ending", "closed"}

\* What the server writes itself, and what it passes on ("ack", "data").
MessageKind == {"pair.ready", "disconnect", "error", "ack", "data"}
Message == [to : Socket, kind : MessageKind, from : Socket \cup {NoSocket}]

EmptySlots == [r \in Role |-> NoSocket]

MaxIdle == HeartbeatInterval * HeartbeatMaxMisses
IdleLimit == IF MaxIdle < SessionTimeout THEN MaxIdle ELSE SessionTimeout

TypeOK ==
    /\ running \in BOOLEAN
    /\ readyState \in [Socket -> SocketState]
    /\ attached \in [Socket -> BOOLEAN]
    /\ sessions \in SUBSET SessionId
    /\ occupant \in [SessionId -> [Role -> Socket \cup {NoSocket}]]
    /\ sessionBy \in [Role -> [Socket -> SessionId \cup {NoSession}]]
    /\ idle \in [SessionId -> 0 .. IdleLimit + 1]
    /\ sinceCleanup \in 0 .. HeartbeatInterval
    /\ sent \in SUBSET Message

Init ==
    /\ running = TRUE
    /\ readyState = [w \in Socket |-> "new"]
    /\ attached = [w \in Socket |-> FALSE]
    /\ sessions = {}
    /\ occupant = [id \in SessionId |-> EmptySlots]
    /\ sessionBy = [r \in Role |-> [w \in Socket |-> NoSession]]
    /\ idle = [id \in SessionId |-> 0]
    /\ sinceCleanup = 0
    /\ sent = {}

-----------------------------------------------------------------------------
(* Writing to a socket: every send but the error replies to a refused      *)
(* connection is guarded by readyState === 1.                              *)

SendTo(w, kind, from) ==
    IF w # NoSocket /\ readyState[w] = "open"
    THEN {[to |-> w, kind |-> kind, from |-> from]} ELSE {}

(* ClientRegistry.                                                         *)

\* getSessionForSocket: the bridge map first, then the client map.
RolesOf(w) == {r \in Role : sessionBy[r][w] \in sessions}
RoleOf(w) == IF "bridge" \in RolesOf(w) THEN "bridge" ELSE "client"

\* pairBridge and pairClient, after getOrCreateSession.
Pair(id, r, w) ==
    /\ sessions' = sessions \cup {id}
    /\ occupant' = [occupant EXCEPT ![id][r] = w]
    /\ sessionBy' = [sessionBy EXCEPT ![r][w] = id]
    /\ idle' = [idle EXCEPT ![id] = 0]

\* Mutant: the slot is emptied, the WeakMap entry stays.
RemoveSocketFromSlotOnly(w) ==
    /\ UNCHANGED sessionBy
    /\ IF RolesOf(w) = {}
       THEN UNCHANGED <<occupant, idle>>
       ELSE /\ occupant' = [occupant EXCEPT ![sessionBy[RoleOf(w)][w]][RoleOf(w)] = NoSocket]
            /\ idle' = [idle EXCEPT ![sessionBy[RoleOf(w)][w]] = 0]

\* removeSocket.  A bridge entry whose session is gone is deleted and the
\* client map is tried next, so every entry of w up to the first live one goes.
RemoveSocket(w) ==
    LET r == RoleOf(w)
        dropped == {q \in Role : q = "bridge" \/ RoleOf(w) = "client"}
    IN  /\ sessionBy' = [q \in Role |-> IF q \in dropped
                            THEN [sessionBy[q] EXCEPT ![w] = NoSession]
                            ELSE sessionBy[q]]
        /\ IF RolesOf(w) = {}
           THEN UNCHANGED <<occupant, idle>>
           ELSE /\ occupant' = [occupant EXCEPT ![sessionBy[r][w]][r] = NoSocket]
                /\ idle' = [idle EXCEPT ![sessionBy[r][w]] = 0]

\* Mutant: the session is forgotten, its sockets are not closed.
ForgetSessions(ids) ==
    /\ sessions' = sessions \ ids
    /\ occupant' = [id \in SessionId |-> IF id \in ids THEN EmptySlots ELSE occupant[id]]
    /\ idle' = [id \in SessionId |-> IF id \in ids THEN 0 ELSE idle[id]]
    /\ UNCHANGED <<sessionBy, readyState>>

\* Mutant: the WeakMap entries of the closed sockets stay.
CloseSessionsKeepingEntries(ids) ==
    /\ sessions' = sessions \ ids
    /\ occupant' = [id \in SessionId |-> IF id \in ids THEN EmptySlots ELSE occupant[id]]
    /\ idle' = [id \in SessionId |-> IF id \in ids THEN 0 ELSE idle[id]]
    /\ readyState' = [w \in Socket |->
            IF readyState[w] = "open" /\ \E id \in ids, r \in Role : occupant[id][r] = w
            THEN "closing" ELSE readyState[w]]
    /\ UNCHANGED sessionBy

\* closeSession, for every session of a set.
CloseSessions(ids) ==
    LET holders(r) == {occupant[id][r] : id \in ids}
    IN  /\ sessionBy' = [r \in Role |-> [w \in Socket |->
                            IF w \in holders(r) THEN NoSession ELSE sessionBy[r][w]]]
        /\ readyState' = [w \in Socket |->
                            IF readyState[w] = "open" /\ \E r \in Role : w \in holders(r)
                            THEN "closing" ELSE readyState[w]]
        /\ sessions' = sessions \ ids
        /\ occupant' = [id \in SessionId |->
                            IF id \in ids THEN EmptySlots ELSE occupant[id]]
        /\ idle' = [id \in SessionId |-> IF id \in ids THEN 0 ELSE idle[id]]

-----------------------------------------------------------------------------
(* server.ts: wss.on("connection").                                        *)

\* The code is malformed: an error, ws.close(4001), no handler is attached.
ConnectInvalid(w) ==
    /\ running /\ readyState[w] = "new"
    /\ readyState' = [readyState EXCEPT ![w] = "closing"]
    /\ sent' = {[to |-> w, kind |-> "error", from |-> NoSocket]}
    /\ UNCHANGED <<running, attached, sessions, occupant, sessionBy, idle, sinceCleanup>>

\* The slot is taken: ALREADY_PAIRED, ws.close(4002), no handler is attached.
ConnectRejected(w, id, r) ==
    /\ running /\ readyState[w] = "new"
    /\ occupant[id][r] # NoSocket
    /\ readyState' = [readyState EXCEPT ![w] = "closing"]
    /\ sent' = {[to |-> w, kind |-> "error", from |-> NoSocket]}
    /\ UNCHANGED <<running, attached, sessions, occupant, sessionBy, idle, sinceCleanup>>

\* Mutant: the newcomer takes the slot over.
ConnectTakingOver(w, id, r) ==
    /\ running /\ readyState[w] = "new"
    /\ Pair(id, r, w)
    /\ readyState' = [readyState EXCEPT ![w] = "open"]
    /\ attached' = [attached EXCEPT ![w] = TRUE]
    /\ sent' = SendTo(occupant[id][Other(r)], "pair.ready", NoSocket)
    /\ UNCHANGED <<running, sinceCleanup>>

\* The slot is free.  Only the party that was there first hears of it.
ConnectAccepted(w, id, r) ==
    /\ running /\ readyState[w] = "new"
    /\ occupant[id][r] = NoSocket
    /\ Pair(id, r, w)
    /\ readyState' = [readyState EXCEPT ![w] = "open"]
    /\ attached' = [attached EXCEPT ![w] = TRUE]
    /\ sent' = SendTo(occupant[id][Other(r)], "pair.ready", NoSocket)
    /\ UNCHANGED <<running, sinceCleanup>>

-----------------------------------------------------------------------------
(* message-forwarder.ts: handleMessage.                                    *)

CanDeliver(w) == attached[w] /\ readyState[w] \in {"open", "closing"}

MessageInvalid(w) ==
    /\ CanDeliver(w)
    /\ sent' = SendTo(w, "error", NoSocket)
    /\ UNCHANGED <<running, readyState, attached, sessions, occupant, sessionBy,
                   idle, sinceCleanup>>

MessageNotPaired(w) ==
    /\ CanDeliver(w)
    /\ RolesOf(w) = {}
    /\ sent' = SendTo(w, "error", NoSocket)
    /\ UNCHANGED <<running, readyState, attached, sessions, occupant, sessionBy,
                   idle, sinceCleanup>>

\* Mutant: the roles are swapped when the target is picked.
MessageEchoed(w, kind) ==
    /\ CanDeliver(w)
    /\ RolesOf(w) # {}
    /\ LET id == sessionBy[RoleOf(w)][w]
       IN  /\ idle' = [idle EXCEPT ![id] = 0]
           /\ sent' = SendTo(occupant[id][RoleOf(w)], kind, w)
    /\ UNCHANGED <<running, readyState, attached, sessions, occupant, sessionBy,
                   sinceCleanup>>

\* touch, then to the other party: a heartbeat as heartbeat.ack, all else as is.
MessageForwarded(w, kind) ==
    /\ CanDeliver(w)
    /\ RolesOf(w) # {}
    /\ LET id == sessionBy[RoleOf(w)][w]
       IN  /\ idle' = [idle EXCEPT ![id] = 0]
           /\ sent' = SendTo(occupant[id][Other(RoleOf(w))], kind, w)
    /\ UNCHANGED <<running, readyState, attached, sessions, occupant, sessionBy,
                   sinceCleanup>>

-----------------------------------------------------------------------------
(* The end of a connection.                                                *)

\* The peer's close frame or a network error: readyState is no longer OPEN.
PeerCloses(w) ==
    /\ readyState[w] \in {"open", "closing"}
    /\ readyState' = [readyState EXCEPT ![w] = "ending"]
    /\ sent' = {}
    /\ UNCHANGED <<running, attached, sessions, occupant, sessionBy, idle, sinceCleanup>>

\* server.ts: ws.on("close").
CloseEvent(w) ==
    /\ attached[w] /\ readyState[w] \in {"closing", "ending"}
    /\ RemoveSocket(w)
    /\ sent' = IF RolesOf(w) = {} THEN {}
               ELSE LET r == RoleOf(w)
                    IN  SendTo(occupant[sessionBy[r][w]][Other(r)], "disconnect", NoSocket)
    /\ readyState' = [readyState EXCEPT ![w] = "closed"]
    /\ UNCHANGED <<running, attached, sessions, sinceCleanup>>

\* The same event on a rejected connection, where nothing listens.
CloseUnheard(w) ==
    /\ ~attached[w] /\ readyState[w] \in {"closing", "ending"}
    /\ readyState' = [readyState EXCEPT ![w] = "closed"]
    /\ sent' = {}
    /\ UNCHANGED <<running, attached, sessions, occupant, sessionBy, idle, sinceCleanup>>

-----------------------------------------------------------------------------
(* heartbeat.ts, and shutdown().                                           *)

Expired(id) == idle[id] > MaxIdle \/ idle[id] > SessionTimeout

\* Time passes; the interval timer may fire late, it never fires early.
Tick ==
    /\ running
    /\ idle' = [id \in SessionId |->
                    IF id \in sessions /\ idle[id] <= IdleLimit
                    THEN idle[id] + 1 ELSE idle[id]]
    /\ sinceCleanup' = IF sinceCleanup < HeartbeatInterval
                       THEN sinceCleanup + 1 ELSE sinceCleanup
    /\ sent' = {}
    /\ UNCHANGED <<running, readyState, attached, sessions, occupant, sessionBy>>

\* Mutant: only sessions with a free slot are looked at.
CleanupOfUnpaired ==
    /\ running /\ sinceCleanup = HeartbeatInterval
    /\ CloseSessions({id \in sessions : Expired(id) /\ \E r \in Role : occupant[id][r] = NoSocket})
    /\ sinceCleanup' = 0
    /\ sent' = {}
    /\ UNCHANGED <<running, attached>>

Cleanup ==
    /\ running /\ sinceCleanup = HeartbeatInterval
    /\ CloseSessions({id \in sessions : Expired(id)})
    /\ sinceCleanup' = 0
    /\ sent' = {}
    /\ UNCHANGED <<running, attached>>

\* Mutant: shutdown only stops the monitor and the listener.
ShutdownOfListener ==
    /\ running
    /\ running' = FALSE
    /\ sent' = {}
    /\ UNCHANGED <<readyState, attached, sessions, occupant, sessionBy, idle, sinceCleanup>>

Shutdown ==
    /\ running
    /\ running' = FALSE
    /\ CloseSessions(sessions)
    /\ sent' = {}
    /\ UNCHANGED <<attached, sinceCleanup>>

-----------------------------------------------------------------------------
Connect(w) ==
    \/ ConnectInvalid(w)
    \/ \E id \in SessionId, r \in Role : ConnectRejected(w, id, r) \/ ConnectAccepted(w, id, r)

Receive(w) ==
    \/ MessageInvalid(w)
    \/ MessageNotPaired(w)
    \/ \E kind \in {"ack", "data"} : MessageForwarded(w, kind)

Closed(w) == CloseEvent(w) \/ CloseUnheard(w)

Next ==
    \/ \E w \in Socket : Connect(w) \/ Receive(w) \/ PeerCloses(w) \/ Closed(w)
    \/ Tick \/ Cleanup \/ Shutdown

\* Time passes and timers fire; a socket that is closing is closed in the end,
\* since ws destroys the connection 30 s after close().  Nothing is assumed of
\* the peers: they may fall silent with the connection open.
Fairness == WF_vars(Tick) /\ WF_vars(Cleanup) /\ \A w \in Socket : WF_vars(Closed(w))

Spec == Init /\ [][Next]_vars
FairSpec == Spec /\ Fairness

-----------------------------------------------------------------------------
(* Correctness.                                                            *)

\* The two views the registry keeps of who is where agree: the socket a
\* WeakMap places in a live session is the occupant of that slot there, and
\* the occupant of a slot is a socket with handlers that the map places there.
\* removeSocket() empties a slot without looking at who is in it, so this is
\* all that keeps a late close event from evicting a newcomer.
RegistryConsistent ==
    /\ \A r \in Role, w \in Socket :
            sessionBy[r][w] # NoSession =>
                /\ sessionBy[r][w] \in sessions
                /\ occupant[sessionBy[r][w]][r] = w
                /\ sessionBy[Other(r)][w] = NoSession
    /\ \A id \in SessionId, r \in Role :
            occupant[id][r] # NoSocket =>
                /\ id \in sessions
                /\ sessionBy[r][occupant[id][r]] = id
                /\ attached[occupant[id][r]]
                /\ readyState[occupant[id][r]] \in {"open", "closing", "ending"}

\* No connection is open that the registry has lost: shutdown() and the
\* monitor close sockets only through the sessions they occupy, and
\* wss.close() then waits for every connection.
NoOrphans ==
    \A w \in Socket : readyState[w] = "open" => attached[w] /\ RolesOf(w) # {}

\* A slot of a session that lives on is emptied by the close event of the very
\* socket that held it, and it is never passed from one socket to another in
\* one step (server.ts:77-99, client-registry.ts:124-148).
SlotsAreHeldUntilClosed ==
    [][\A id \in sessions \cap sessions', r \in Role :
          occupant[id][r] # NoSocket /\ occupant'[id][r] # occupant[id][r] =>
              /\ readyState[occupant[id][r]] # "closed"
              /\ readyState'[occupant[id][r]] = "closed"
              /\ occupant'[id][r] = NoSocket]_vars

\* Whatever is passed on comes from the party that holds a slot to the open
\* party that holds the other slot of the same session: a connection the relay
\* has already closed, whose last messages still arrive, is not heard in the
\* session that is later created under the same code
\* (message-forwarder.ts:38-67).
OnlyPartnersAreHeard ==
    [][\A m \in sent' : m.from # NoSocket =>
          \E id \in sessions, r \in Role :
              /\ occupant[id][r] = m.from
              /\ occupant[id][Other(r)] = m.to
              /\ readyState[m.to] = "open"]_vars

\* A session nobody speaks in does not outlive its timeout, even when both
\* parties keep their connections open (heartbeat.ts:41-53).
SilentSessionsExpire ==
    \A id \in SessionId : []<>(id \notin sessions \/ idle[id] = 0)

\* After shutdown() every accepted connection gets closed, so the callback of
\* wss.close() runs and the process exits (server.ts:137-147).
ShutdownCompletes ==
    ~running ~> \A w \in Socket : readyState[w] \in {"new", "closed"}

\* The relay keeps the promise made in Rendezvous: the connections that ever
\* had a slot are those with handlers, and the pairs of a step are the sender
\* and the receiver of what it passed on.
Promise == INSTANCE Rendezvous WITH
    slot <- occupant,
    seated <- {w \in Socket : attached[w]},
    heard <- {<<m.from, m.to>> : m \in {n \in sent : n.from # NoSocket}}

KeepsPromise == Promise!Spec
=============================================================================
