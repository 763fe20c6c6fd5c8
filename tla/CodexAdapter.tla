----------------------------- MODULE CodexAdapter -----------------------------
(***************************************************************************)
(* The agent adapter of the bridge: class CodexAdapter of                  *)
(* packages/bridge/src/agent/codex-adapter.ts, which spawns codex          *)
(* app-server, connects to the WebSocket it listens on, matches responses  *)
(* with requests by id, and stops the process.                             *)
(*                                                                         *)
(* As the bridge uses it, start() is called once and stop() after start()  *)
(* has settled, once per signal (start.ts:93-111); requests come at any    *)
(* time, since the relay is connected first (message-router.ts:157-181).   *)
(* What follows an await on a promise runs in the step that settles the    *)
(* promise: no other event comes between them.                             *)
(* The process, its WebSocket and the callers are the environment.         *)
(***************************************************************************)
EXTENDS FiniteSets

CONSTANTS
    Request,    \* calls of sendRequest()
    Id,         \* JSON-RPC ids
    IdOf,       \* the id the caller gave each request
    NoRequest,  \* no entry in pendingRequests
    Stopper     \* calls of stop()

ASSUME RequestAssumption == IdOf \in [Request -> Id] /\ NoRequest \notin Request

VARIABLES
    status,     \* AgentStatus
    start,      \* where start() is: see StartState
    proc,       \* the child process: see ProcessState
    process,    \* this.process !== null
    ws,         \* this.ws !== null
    ready,      \* the WebSocket: see ReadyState
    pending,    \* pendingRequests
    timers,     \* requests whose timeout is set
    outcome,    \* per request: see Outcome
    answer,     \* per request: the request whose response it was given
    atAgent,    \* requests the agent has been sent and has not answered
    stop        \* per call of stop(): see StopState

lifeVars == <<status, start, proc, process, ws, ready>>
requestVars == <<pending, timers, outcome, answer, atAgent>>
vars == <<lifeVars, requestVars, stop>>

Status == {"idle", "starting", "running", "stopping", "stopped", "error"}

\* start() waits for the URL, then for the WebSocket, and settles.
StartState == {"idle", "url", "socket", "started", "failed"}

\* "dying": SIGKILL was sent.  "exited" has an exit code, "killed" has none:
\* exitCode stays null in a process that died of a signal.
ProcessState == {"none", "alive", "dying", "exited", "killed"}

\* "closing": ws.close() was called here, messages still arrive.
\* "ending": the connection is gone or aborted.  The close event follows both.
ReadyState == {"none", "connecting", "open", "closing", "ending", "closed"}

Outcome == {"unsent", "waiting", "answered", "timeout", "closed", "stopped", "refused"}
StopState == {"idle", "waiting", "done"}

NonePending == [id \in Id |-> NoRequest]
Pending(r) == pending[IdOf[r]] = r

Init ==
    /\ status = "idle"
    /\ start = "idle"
    /\ proc = "none" /\ process = FALSE
    /\ ws = FALSE /\ ready = "none"
    /\ pending = NonePending
    /\ timers = {}
    /\ outcome = [r \in Request |-> "unsent"]
    /\ answer = [r \in Request |-> NoRequest]
    /\ atAgent = {}
    /\ stop = [s \in Stopper |-> "idle"]

-----------------------------------------------------------------------------
(* start().                                                                *)

\* spawn().  That it fails is told later, as an exit would be.
Start ==
    /\ start = "idle"
    /\ start' = "url"
    /\ status' = "starting"
    /\ proc' = "alive" /\ process' = TRUE
    /\ UNCHANGED <<ws, ready, requestVars, stop>>

\* The banner with the URL is read: connectWebSocket().
UrlSeen ==
    /\ start = "url"
    /\ start' = "socket"
    /\ ws' = TRUE /\ ready' = "connecting"
    /\ UNCHANGED <<status, proc, process, requestVars, stop>>

UrlTimesOut ==
    /\ start = "url"
    /\ start' = "failed"
    /\ UNCHANGED <<status, proc, process, ws, ready, requestVars, stop>>

\* The open event.  It comes too late when start() has timed out.
Opened ==
    /\ ready = "connecting"
    /\ ready' = "open"
    /\ IF start = "socket"
       THEN start' = "started" /\ status' = "running"
       ELSE UNCHANGED <<start, status>>
    /\ UNCHANGED <<proc, process, ws, requestVars, stop>>

\* Mutant: the timer is cleared by a close event too, and nothing rejects.
ConnectTimesOutWhileConnecting ==
    /\ start = "socket" /\ ready = "connecting"
    /\ start' = "failed"
    /\ UNCHANGED <<status, proc, process, ws, ready, requestVars, stop>>

\* Neither an error nor a close event settles connectWebSocket(): this does.
ConnectTimesOut ==
    /\ start = "socket"
    /\ start' = "failed"
    /\ UNCHANGED <<status, proc, process, ws, ready, requestVars, stop>>

-----------------------------------------------------------------------------
(* Requests.                                                               *)

\* sendRequest().  An entry under the same id is overwritten; its timer runs on.
Send(r) ==
    /\ outcome[r] = "unsent"
    /\ IF ws /\ ready = "open"
       THEN /\ outcome' = [outcome EXCEPT ![r] = "waiting"]
            /\ timers' = timers \cup {r}
            /\ pending' = [pending EXCEPT ![IdOf[r]] = r]
            /\ atAgent' = atAgent \cup {r}
       ELSE /\ outcome' = [outcome EXCEPT ![r] = "refused"]
            /\ UNCHANGED <<timers, pending, atAgent>>
    /\ UNCHANGED <<lifeVars, answer, stop>>

\* Mutant: the timeout is not cleared.
AnsweredKeepingTimer(r) ==
    /\ r \in atAgent /\ ready \in {"open", "closing"}
    /\ atAgent' = atAgent \ {r}
    /\ LET p == pending[IdOf[r]]
       IN  IF p = NoRequest
           THEN UNCHANGED <<timers, pending, outcome, answer>>
           ELSE /\ pending' = [pending EXCEPT ![IdOf[r]] = NoRequest]
                /\ outcome' = [outcome EXCEPT ![p] = "answered"]
                /\ answer' = [answer EXCEPT ![p] = r]
                /\ UNCHANGED timers
    /\ UNCHANGED <<lifeVars, stop>>

\* handleMessage() of the response to r: the request now under that id gets it.
Answered(r) ==
    /\ r \in atAgent /\ ready \in {"open", "closing"}
    /\ atAgent' = atAgent \ {r}
    /\ LET p == pending[IdOf[r]]
       IN  IF p = NoRequest
           THEN UNCHANGED <<timers, pending, outcome, answer>>
           ELSE /\ timers' = timers \ {p}
                /\ pending' = [pending EXCEPT ![IdOf[r]] = NoRequest]
                /\ outcome' = [outcome EXCEPT ![p] = "answered"]
                /\ answer' = [answer EXCEPT ![p] = r]
    /\ UNCHANGED <<lifeVars, stop>>

\* Mutant: the whole map is cleared.
RequestTimesOutForAll(r) ==
    /\ r \in timers
    /\ timers' = timers \ {r}
    /\ pending' = NonePending
    /\ outcome' = [outcome EXCEPT ![r] = "timeout"]
    /\ UNCHANGED <<lifeVars, answer, atAgent, stop>>

\* Mutant: the entry is deleted, the promise is not rejected.
RequestTimesOutSilently(r) ==
    /\ r \in timers
    /\ timers' = timers \ {r}
    /\ pending' = [pending EXCEPT ![IdOf[r]] = NoRequest]
    /\ UNCHANGED <<lifeVars, outcome, answer, atAgent, stop>>

\* The entry under the id goes, whichever request it is by now.
RequestTimesOut(r) ==
    /\ r \in timers
    /\ timers' = timers \ {r}
    /\ pending' = [pending EXCEPT ![IdOf[r]] = NoRequest]
    /\ outcome' = [outcome EXCEPT ![r] = "timeout"]
    /\ UNCHANGED <<lifeVars, answer, atAgent, stop>>

\* Every request in the map is rejected, and the map is cleared.
RejectPending(reason) ==
    /\ timers' = {r \in timers : ~Pending(r)}
    /\ outcome' = [r \in Request |-> IF Pending(r) THEN reason ELSE outcome[r]]
    /\ pending' = NonePending
    /\ UNCHANGED <<answer, atAgent>>

-----------------------------------------------------------------------------
(* The end of the WebSocket.                                               *)

\* The agent closes the connection, or it is lost.
Lost ==
    /\ ready \in {"open", "closing"}
    /\ ready' = "ending"
    /\ UNCHANGED <<status, start, proc, process, ws, requestVars, stop>>

\* The error event; it comes with every connection that does not open.
Failed ==
    /\ ready \in {"connecting", "open", "closing"}
    /\ ready' = "ending"
    /\ status' = "error"
    /\ UNCHANGED <<start, proc, process, ws, requestVars, stop>>

\* Mutant: pending requests are left to their timeouts.
ClosedKeepingPending ==
    /\ ready \in {"closing", "ending"}
    /\ ready' = "closed"
    /\ status' = "stopped"
    /\ UNCHANGED <<start, proc, process, ws, requestVars, stop>>

\* The close event.
Closed ==
    /\ ready \in {"closing", "ending"}
    /\ ready' = "closed"
    /\ status' = "stopped"
    /\ RejectPending("closed")
    /\ UNCHANGED <<start, proc, process, ws, stop>>

-----------------------------------------------------------------------------
(* stop(), and the exit of the process.                                    *)

\* What stop() does once it has waited for the process, for a set of calls.
Finish(calls) ==
    /\ process' = FALSE
    /\ RejectPending("stopped")
    /\ status' = "stopped"
    /\ stop' = [s \in Stopper |-> IF s \in calls THEN "done" ELSE stop[s]]

Waiting == {s \in Stopper : stop[s] = "waiting"}

\* stop() up to its await, or to its end when there is nothing to wait for.
Stop(s) ==
    /\ stop[s] = "idle" /\ start \in {"started", "failed"}
    /\ ws' = FALSE
    /\ ready' = IF ~ws THEN ready
                ELSE CASE ready = "open" -> "closing"
                       [] ready = "connecting" -> "ending"
                       [] OTHER -> ready
    /\ IF ~process \/ proc = "exited"
       THEN Finish({s})
       ELSE /\ stop' = [stop EXCEPT ![s] = "waiting"]
            /\ status' = "stopping"
            /\ UNCHANGED <<process, requestVars>>
    /\ UNCHANGED <<start, proc>>

\* Mutant: SIGKILL is left out.
StopGivesUp(s) ==
    /\ stop[s] = "waiting"
    /\ Finish({s})
    /\ UNCHANGED <<start, proc, ws, ready>>

\* Five seconds after SIGTERM: SIGKILL, if the adapter still has the process.
StopTimesOut(s) ==
    /\ stop[s] = "waiting"
    /\ proc' = IF process /\ proc = "alive" THEN "dying" ELSE proc
    /\ Finish({s})
    /\ UNCHANGED <<start, ws, ready>>

\* The exit event, which every waiting stop() hears; or that the spawn failed.
ProcessExits ==
    /\ proc \in {"alive", "dying"}
    /\ proc' \in {"exited", "killed"}
    /\ start' = IF start = "url" /\ status = "starting" THEN "failed" ELSE start
    /\ IF Waiting # {}
       THEN Finish(Waiting)
       ELSE UNCHANGED <<status, process, requestVars, stop>>
    /\ UNCHANGED <<ws, ready>>

-----------------------------------------------------------------------------
Next ==
    \/ Start \/ UrlSeen \/ UrlTimesOut \/ Opened \/ ConnectTimesOut
    \/ \E r \in Request : Send(r) \/ Answered(r) \/ RequestTimesOut(r)
    \/ Lost \/ Failed \/ Closed
    \/ \E s \in Stopper : Stop(s) \/ StopTimesOut(s)
    \/ ProcessExits

\* Timers fire, the close event follows the end of a connection, and a process
\* dies of SIGKILL.  The agent need not answer, nor heed SIGTERM.
Fairness ==
    /\ WF_vars(UrlTimesOut) /\ WF_vars(ConnectTimesOut)
    /\ \A r \in Request : WF_vars(RequestTimesOut(r))
    /\ WF_vars(Closed)
    /\ \A s \in Stopper : WF_vars(StopTimesOut(s))
    /\ WF_vars(proc = "dying" /\ ProcessExits)

Spec == Init /\ [][Next]_vars
FairSpec == Spec /\ Fairness

-----------------------------------------------------------------------------
(* Correctness.                                                            *)

LifeTypeOK ==
    /\ status \in Status
    /\ start \in StartState
    /\ proc \in ProcessState
    /\ process \in BOOLEAN
    /\ ws \in BOOLEAN
    /\ ready \in ReadyState
    /\ stop \in [Stopper -> StopState]

RequestTypeOK ==
    /\ pending \in [Id -> Request \cup {NoRequest}]
    /\ timers \in SUBSET Request
    /\ outcome \in [Request -> Outcome]
    /\ answer \in [Request -> Request \cup {NoRequest}]
    /\ atAgent \in SUBSET Request

TypeOK == LifeTypeOK /\ RequestTypeOK

\* A promise sendRequest() returned is unsettled exactly as long as its timeout
\* is set, and whatever the map holds under an id is an unsettled request with
\* that id: no request is lost to a map that forgot it, and no timeout of a
\* settled request is left to delete a later entry (codex-adapter.ts:186-199,
\* 236-240, 257-267).
PendingIsWaiting ==
    /\ \A r \in Request : r \in timers <=> outcome[r] = "waiting"
    /\ \A id \in Id : pending[id] # NoRequest =>
            IdOf[pending[id]] = id /\ outcome[pending[id]] = "waiting"

\* No other request is made with this id.
IdIsItsOwn(r) == \A q \in Request : IdOf[q] = IdOf[r] => q = r

\* A request whose id is its own is answered by the response to it and by no
\* other, and a response that comes while it waits is never missed: it is in
\* the map until it is settled (codex-adapter.ts:192, 258-261).
OwnAnswers ==
    \A r \in Request : IdIsItsOwn(r) =>
        /\ outcome[r] = "waiting" => Pending(r) /\ r \in atAgent
        /\ outcome[r] = "answered" => answer[r] = r

\* Every call of sendRequest() is settled once and for one reason, however its
\* response, its timeout, the close event and stop() meet (codex-adapter.ts:186-199,
\* 156-159, 236-240, 257-267): the adapter implements AgentRequests.
Agent == INSTANCE AgentRequests
SettlesOnce == Agent!Spec

\* Once the close event has come, or stop() has returned, the map is empty and
\* stays so (codex-adapter.ts:121-127, 154-159, 236-240).
NothingPendsAfterTheEnd ==
    ready \in {"none", "closed"} \/ (\E s \in Stopper : stop[s] = "done") =>
        pending = NonePending

\* The agent is said to be running only while start() has succeeded, stop() has
\* not been called and the connection has not been closed
\* (codex-adapter.ts:109, 117, 234-245).
RunningIsConnected ==
    status = "running" =>
        /\ ws /\ ready \in {"open", "ending"}
        /\ start = "started"
        /\ \A s \in Stopper : stop[s] = "idle"

\* A request is always settled, also when it was overwritten in the map.
EveryRequestSettles ==
    \A r \in Request : outcome[r] = "waiting" ~> outcome[r] # "waiting"

\* start() settles, even when the process exits or the connection is refused
\* while it waits for the WebSocket, which rejects nothing.
StartSettles == start \in {"url", "socket"} ~> start \in {"started", "failed"}

\* After stop() the adapter comes to rest for good: the process is gone, the
\* connection is closed, the status is "stopped".  Calls of stop() that overlap
\* (two signals) do not revive anything.
StopIsFinal ==
    (\E s \in Stopper : stop[s] # "idle") ~>
        [](proc \in {"exited", "killed"} /\ status = "stopped" /\ ready \in {"none", "closed"})

\* "A promise that resolves when the agent has fully stopped"
\* (codex-adapter.ts:114).
StopWaitsForExit ==
    \A s \in Stopper : stop[s] = "done" => proc \in {"exited", "killed"}
===============================================================================
