----------------------------- MODULE RelayClient ------------------------------
(***************************************************************************)
(* The bridge's connection to the relay: class RelayClient of              *)
(* packages/bridge/src/core/relay-client.ts.                               *)
(*                                                                         *)
(* The client owns one field, ws, but the handlers it sets on a WebSocket  *)
(* act on the client's fields whichever WebSocket they were set on.  So    *)
(* every connection that still has events to come is modelled, not only    *)
(* the one ws refers to.  The relay and the network are the environment.   *)
(***************************************************************************)
EXTENDS Naturals, Sequences

CONSTANTS
    Conn,         \* WebSocket objects; one is used again once it has closed
    Null,         \* this.ws === null
    MaxSends      \* bound on the messages given to send()

ASSUME NullAssumption == Null \notin Conn
ASSUME SendsAssumption == MaxSends \in Nat

VARIABLES
    ws,             \* the connection the client holds
    state,          \* RelayClientState
    ready,          \* per connection: see ConnState
    heartbeatTimer, \* the interval timer is set
    reconnectTimer, \* the reconnect timer is set
    reconnectAttempts,
    delay,          \* the delay the reconnect timer was last set with, in ms
    outboundBuffer,
    accepted,       \* messages given to send() so far: message n is the nth
    written,        \* messages passed to ws.send(), in that order
    owner,          \* what the owner has done: "idle", then "using" or "done"
    restarted       \* history: connect() was called again

connVars == <<ws, state, ready, heartbeatTimer>>
timerVars == <<reconnectTimer, reconnectAttempts, delay>>
queueVars == <<outboundBuffer, accepted, written>>
ownerVars == <<owner, restarted>>
vars == <<connVars, timerVars, queueVars, ownerVars>>

\* "closing": ws.close() was called here, messages of the peer still arrive.
\* "ending": refused, aborted, or closed by the peer.  Both precede "close".
ConnState == {"free", "connecting", "open", "closing", "ending"}
State == {"disconnected", "connecting", "connected", "paired"}

Live == {c \in Conn : ready[c] # "free"}

Init ==
    /\ ws = Null
    /\ state = "disconnected"
    /\ ready = [c \in Conn |-> "free"]
    /\ heartbeatTimer = FALSE
    /\ reconnectTimer = FALSE /\ reconnectAttempts = 0 /\ delay = 0
    /\ outboundBuffer = <<>> /\ accepted = 0 /\ written = <<>>
    /\ owner = "idle" /\ restarted = FALSE

-----------------------------------------------------------------------------
(* connect(), and the events of the connection it makes.                   *)

\* connect(): a no-op while there is a connection.
DoConnect ==
    IF ws # Null
    THEN UNCHANGED connVars
    ELSE \E c \in Conn :
            /\ ready[c] = "free"
            /\ ws' = c
            /\ state' = "connecting"
            /\ ready' = [ready EXCEPT ![c] = "connecting"]
            /\ UNCHANGED heartbeatTimer

\* Mutant: the messages are sent and stay in the buffer.
FlushKeepingBuffer(readyNow) ==
    IF ws # Null /\ readyNow[ws] = "open"
    THEN written' = written \o outboundBuffer /\ UNCHANGED <<outboundBuffer, accepted>>
    ELSE UNCHANGED queueVars

\* Mutant: nothing is flushed.
FlushNothing(readyNow) == UNCHANGED queueVars

\* flushBuffer(): send() of each message, so all are written or all held again.
FlushBuffer(readyNow) ==
    IF ws # Null /\ readyNow[ws] = "open"
    THEN /\ written' = written \o outboundBuffer
         /\ outboundBuffer' = <<>>
         /\ UNCHANGED accepted
    ELSE UNCHANGED queueVars

Connect ==
    /\ restarted' = (restarted \/ owner # "idle")
    /\ owner' = "using"
    /\ DoConnect
    /\ UNCHANGED <<timerVars, queueVars>>

\* Mutant: the attempts are not reset.
OpenedKeepingAttempts(c) ==
    /\ ready[c] = "connecting"
    /\ ready' = [ready EXCEPT ![c] = "open"]
    /\ state' = "connected"
    /\ heartbeatTimer' = TRUE
    /\ FlushBuffer(ready')
    /\ UNCHANGED <<ws, reconnectTimer, reconnectAttempts, delay, ownerVars>>

Opened(c) ==
    /\ ready[c] = "connecting"
    /\ ready' = [ready EXCEPT ![c] = "open"]
    /\ state' = "connected"
    /\ reconnectAttempts' = 0
    /\ heartbeatTimer' = TRUE
    /\ FlushBuffer(ready')
    /\ UNCHANGED <<ws, reconnectTimer, delay, ownerVars>>

\* handleMessage() of a pair.confirm; other messages change no field.
PairConfirmed(c) ==
    /\ ready[c] \in {"open", "closing"}
    /\ state' = "paired"
    /\ UNCHANGED <<ws, ready, heartbeatTimer, timerVars, queueVars, ownerVars>>

\* Math.min(RECONNECT_BACKOFF_BASE_MS * Math.pow(2, n), RECONNECT_BACKOFF_MAX_MS):
\* the same from three attempts on, so the count may stop there.
Backoff(n) == CASE n = 0 -> 1000 [] n = 1 -> 2000 [] n = 2 -> 4000 [] OTHER -> 5000
MaxAttempts == 3

ScheduleReconnect ==
    IF reconnectTimer
    THEN UNCHANGED timerVars
    ELSE /\ delay' = Backoff(reconnectAttempts)
         /\ reconnectAttempts' = IF reconnectAttempts < MaxAttempts
                                 THEN reconnectAttempts + 1 ELSE MaxAttempts
         /\ reconnectTimer' = TRUE

\* Mutant: the error handler gives the connection up and reconnects at once.
LostAndReconnected(c) ==
    /\ ready[c] \in {"connecting", "open", "closing"}
    /\ ready' = [ready EXCEPT ![c] = "ending"]
    /\ ws' = Null
    /\ ScheduleReconnect
    /\ UNCHANGED <<state, heartbeatTimer, queueVars, ownerVars>>

\* The network: the handshake fails, or the relay closes or vanishes.
Lost(c) ==
    /\ ready[c] \in {"connecting", "open", "closing"}
    /\ ready' = [ready EXCEPT ![c] = "ending"]
    /\ UNCHANGED <<ws, state, heartbeatTimer, timerVars, queueVars, ownerVars>>

\* Mutant: wasConnected is read after the state has been set.
ClosedForgetting(c) ==
    /\ ready[c] \in {"closing", "ending"}
    /\ ready' = [ready EXCEPT ![c] = "free"]
    /\ state' = "disconnected"
    /\ heartbeatTimer' = FALSE
    /\ ws' = Null
    /\ UNCHANGED <<timerVars, queueVars, ownerVars>>

\* The close event.  It acts on the client, not on the connection it ends.
Closed(c) ==
    /\ ready[c] \in {"closing", "ending"}
    /\ ready' = [ready EXCEPT ![c] = "free"]
    /\ state' = "disconnected"
    /\ heartbeatTimer' = FALSE
    /\ ws' = Null
    /\ IF state \in {"connected", "paired"}
       THEN ScheduleReconnect
       ELSE UNCHANGED timerVars
    /\ UNCHANGED <<queueVars, ownerVars>>

ReconnectTimerFires ==
    /\ reconnectTimer
    /\ reconnectTimer' = FALSE
    /\ DoConnect
    /\ UNCHANGED <<reconnectAttempts, delay, queueVars, ownerVars>>

-----------------------------------------------------------------------------
(* disconnect() and send().                                                *)

\* Mutant: a connection that is still connecting is let go of, not closed.
DisconnectOfOpen ==
    /\ owner # "idle"
    /\ owner' = "done"
    /\ heartbeatTimer' = FALSE
    /\ reconnectTimer' = FALSE
    /\ ready' = [c \in Conn |-> IF c = ws /\ ready[c] = "open" THEN "closing" ELSE ready[c]]
    /\ ws' = Null
    /\ state' = "disconnected"
    /\ outboundBuffer' = <<>>
    /\ reconnectAttempts' = 0
    /\ UNCHANGED <<delay, accepted, written, restarted>>

Disconnect ==
    /\ owner # "idle"
    /\ owner' = "done"
    /\ heartbeatTimer' = FALSE
    /\ reconnectTimer' = FALSE
    /\ ready' = [c \in Conn |->
                    CASE c = ws /\ ready[c] = "open" -> "closing"
                      [] c = ws /\ ready[c] = "connecting" -> "ending"
                      [] OTHER -> ready[c]]
    /\ ws' = Null
    /\ state' = "disconnected"
    /\ outboundBuffer' = <<>>
    /\ reconnectAttempts' = 0
    /\ UNCHANGED <<delay, accepted, written, restarted>>

\* send(): on the wire when the held connection is open, else in the buffer.
DoSend ==
    /\ accepted < MaxSends
    /\ accepted' = accepted + 1
    /\ IF ws # Null /\ ready[ws] = "open"
       THEN written' = Append(written, accepted') /\ UNCHANGED outboundBuffer
       ELSE outboundBuffer' = Append(outboundBuffer, accepted') /\ UNCHANGED written
    /\ UNCHANGED <<connVars, timerVars, ownerVars>>

Send == DoSend

\* startHeartbeat(): a heartbeat goes through send() like any message.
Heartbeat == heartbeatTimer /\ DoSend

-----------------------------------------------------------------------------
Next ==
    \/ Connect \/ Disconnect \/ Send \/ Heartbeat \/ ReconnectTimerFires
    \/ \E c \in Conn : Opened(c) \/ PairConfirmed(c) \/ Lost(c) \/ Closed(c)

\* Timers fire and close events come.  A handshake ends one way or the other;
\* which way is the network's choice.
Fairness ==
    /\ WF_vars(ReconnectTimerFires)
    /\ \A c \in Conn : WF_vars(Closed(c)) /\ WF_vars(Opened(c) \/ (ready[c] = "connecting" /\ Lost(c)))

Spec == Init /\ [][Next]_vars
FairSpec == Spec /\ Fairness

-----------------------------------------------------------------------------
(* Correctness.                                                            *)

ConnTypeOK ==
    /\ ws \in Conn \cup {Null}
    /\ state \in State
    /\ ready \in [Conn -> ConnState]
    /\ heartbeatTimer \in BOOLEAN
    /\ owner \in {"idle", "using", "done"}

TimerTypeOK ==
    /\ reconnectTimer \in BOOLEAN
    /\ reconnectAttempts \in 0 .. MaxAttempts
    /\ delay \in {0, 1000, 2000, 4000, 5000}

QueueTypeOK ==
    /\ outboundBuffer \in Seq(1 .. MaxSends)
    /\ accepted \in 0 .. MaxSends
    /\ written \in Seq(1 .. MaxSends)

TypeOK == ConnTypeOK /\ TimerTypeOK /\ QueueTypeOK /\ restarted \in BOOLEAN

\* A client whose owner calls connect() once never has two connections on their way or
\* open, so the relay never turns it away for its own sake, and it waits to
\* reconnect only when it has none (relay-client.ts:84-131, 223-237).
OneConnectionAtATime ==
    ~restarted =>
        /\ \A c, d \in Live : c = d
        /\ reconnectTimer => Live = {}

\* The heartbeat runs while the connection is open and never outlives it
\* (relay-client.ts:96, 117, 137).
HeartbeatFollowsConnection ==
    ~restarted =>
        /\ \A c \in Conn : ready[c] = "open" => ws = c /\ heartbeatTimer
        /\ heartbeatTimer => ws # Null /\ ready[ws] \in {"open", "ending"}

\* The first retry is the only one before a connection opens again, so the
\* delay is always the base delay: the backoff of lines 226-230 never grows.
BackoffNeverGrows ==
    ~restarted => reconnectAttempts <= 1 /\ delay \in {0, 1000}

\* Nothing waits in the buffer while the connection the client holds is open.
NothingWaitsOnOpen ==
    ws # Null /\ ready[ws] = "open" => outboundBuffer = <<>>

\* Messages reach the wire in the order of OutboundQueue, even when handlers
\* of an earlier connection run late (relay-client.ts:165-172, 201-207).
Queue == INSTANCE OutboundQueue WITH waiting <- outboundBuffer
KeepsOrder == Queue!Spec

\* A connection that had opened and is lost is followed by another attempt,
\* unless the owner disconnects (relay-client.ts:113-125).
LostConnectionIsRetried ==
    (heartbeatTimer /\ ws # Null /\ ready[ws] = "ending")
        ~> (state = "connecting" \/ owner = "done")

\* "Automatic reconnect with exponential backoff" (relay-client.ts:8): a client
\* that is reconnecting has a connection again or tries again, for as long as
\* its owner wants it to.
KeepsReconnecting ==
    (owner = "using" /\ ~restarted /\ ws = Null /\ reconnectAttempts > 0)
        ~> (ws # Null \/ owner = "done" \/ restarted)

\* "Gracefully disconnects from the relay server" (relay-client.ts:134): after
\* disconnect() no connection is made until the owner asks for one.
StaysDisconnected ==
    [][owner = "done" /\ owner' = "done" /\ ws = Null => ws' = Null]_vars
===============================================================================
