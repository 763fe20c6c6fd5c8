-------------------------- MODULE CodexAdapterProofs --------------------------
(***************************************************************************)
(* The safety properties of CodexAdapter, for any number of requests, ids  *)
(* and calls of stop().                                                    *)
(***************************************************************************)
EXTENDS CodexAdapter, TLAPS

\* Where start() and stop() are decides whether the adapter holds a WebSocket.
Stages ==
    /\ start \in {"idle", "url", "socket"} => \A s \in Stopper : stop[s] = "idle"
    /\ start = "socket" => ws
    /\ (\E s \in Stopper : stop[s] # "idle") => ~ws

LifeInv == Stages /\ RunningIsConnected /\ NothingPendsAfterTheEnd
RequestInv == PendingIsWaiting /\ OwnAnswers
IInv == TypeOK /\ RequestInv /\ LifeInv

-----------------------------------------------------------------------------
(* Types.                                                                  *)

LEMMA NonePendingTyped == NonePending \in [Id -> Request \cup {NoRequest}]
BY DEF NonePending

\* RejectPending() keeps the types of the request variables.
LEMMA RejectTyped ==
    ASSUME RequestTypeOK, NEW reason \in Outcome, RejectPending(reason)
    PROVE  RequestTypeOK'
<1>1. pending' \in [Id -> Request \cup {NoRequest}]
    BY NonePendingTyped DEF RejectPending
<1>2. timers' \in SUBSET Request
    BY DEF RejectPending, RequestTypeOK
<1>3. outcome' \in [Request -> Outcome]
    BY DEF RejectPending, RequestTypeOK
<1>4. QED BY <1>1, <1>2, <1>3 DEF RejectPending, RequestTypeOK

LEMMA FinishTyped ==
    ASSUME TypeOK, NEW calls, Finish(calls)
    PROVE  /\ RequestTypeOK'
           /\ status' \in Status
           /\ process' \in BOOLEAN
           /\ stop' \in [Stopper -> StopState]
<1>1. RequestTypeOK'
    BY RejectTyped DEF Finish, TypeOK, Outcome
<1>2. process' \in BOOLEAN
    BY DEF Finish
<1>3. status' \in Status /\ stop' \in [Stopper -> StopState]
    BY DEF Finish, TypeOK, LifeTypeOK, Status, StopState
<1>4. QED BY <1>1, <1>2, <1>3

LEMMA TypeInit == Init => TypeOK
<1> SUFFICES ASSUME Init PROVE TypeOK
    OBVIOUS
<1>1. LifeTypeOK
    BY DEF Init, LifeTypeOK, Status, StartState, ProcessState, ReadyState, StopState
<1>2. RequestTypeOK
    BY NonePendingTyped DEF Init, RequestTypeOK, Outcome
<1>3. QED BY <1>1, <1>2 DEF TypeOK

LEMMA TypeStep == TypeOK /\ [Next]_vars => TypeOK'
<1> SUFFICES ASSUME TypeOK, [Next]_vars PROVE TypeOK'
    OBVIOUS
<1> USE DEF TypeOK
<1>1. CASE Start
    BY <1>1 DEF Start, requestVars, LifeTypeOK, RequestTypeOK, Status, StartState, ProcessState
<1>2. CASE UrlSeen
    BY <1>2 DEF UrlSeen, requestVars, LifeTypeOK, RequestTypeOK, StartState, ReadyState
<1>3. CASE UrlTimesOut
    BY <1>3 DEF UrlTimesOut, requestVars, LifeTypeOK, RequestTypeOK, StartState
<1>4. CASE Opened
    BY <1>4 DEF Opened, requestVars, LifeTypeOK, RequestTypeOK, StartState, Status, ReadyState
<1>5. CASE ConnectTimesOut
    BY <1>5 DEF ConnectTimesOut, requestVars, LifeTypeOK, RequestTypeOK, StartState
<1>6. ASSUME NEW r \in Request, Send(r) PROVE TypeOK'
    <2>1. LifeTypeOK'
        BY <1>6 DEF Send, lifeVars, LifeTypeOK
    <2>2. RequestTypeOK'
        BY <1>6, RequestAssumption DEF Send, RequestTypeOK, Outcome
    <2>3. QED BY <2>1, <2>2
<1>7. ASSUME NEW r \in Request, Answered(r) PROVE TypeOK'
    <2>1. LifeTypeOK'
        BY <1>7 DEF Answered, lifeVars, LifeTypeOK
    <2>2. RequestTypeOK'
        BY <1>7, RequestAssumption DEF Answered, RequestTypeOK, Outcome
    <2>3. QED BY <2>1, <2>2
<1>8. ASSUME NEW r \in Request, RequestTimesOut(r) PROVE TypeOK'
    <2>1. LifeTypeOK'
        BY <1>8 DEF RequestTimesOut, lifeVars, LifeTypeOK
    <2>2. RequestTypeOK'
        BY <1>8, RequestAssumption DEF RequestTimesOut, RequestTypeOK, Outcome
    <2>3. QED BY <2>1, <2>2
<1>9. CASE Lost
    BY <1>9 DEF Lost, requestVars, LifeTypeOK, RequestTypeOK, ReadyState
<1>10. CASE Failed
    BY <1>10 DEF Failed, requestVars, LifeTypeOK, RequestTypeOK, ReadyState, Status
<1>11. CASE Closed
    <2>1. RequestTypeOK'
        BY <1>11, RejectTyped DEF Closed, Outcome
    <2>2. LifeTypeOK'
        BY <1>11 DEF Closed, LifeTypeOK, ReadyState, Status
    <2>3. QED BY <2>1, <2>2
<1>12. ASSUME NEW s \in Stopper, Stop(s) PROVE TypeOK'
    <2>1. ready' \in ReadyState /\ ws' \in BOOLEAN /\ start' \in StartState /\ proc' \in ProcessState
        BY <1>12 DEF Stop, LifeTypeOK, ReadyState
    <2>2. /\ RequestTypeOK' /\ status' \in Status
          /\ process' \in BOOLEAN /\ stop' \in [Stopper -> StopState]
        <3>1. CASE Finish({s})
            BY <3>1, FinishTyped
        <3>2. CASE /\ stop' = [stop EXCEPT ![s] = "waiting"]
                   /\ status' = "stopping"
                   /\ UNCHANGED <<process, requestVars>>
            BY <3>2 DEF requestVars, RequestTypeOK, LifeTypeOK, Status, StopState
        <3>3. QED BY <1>12, <3>1, <3>2 DEF Stop
    <2>3. QED BY <2>1, <2>2 DEF LifeTypeOK
<1>13. ASSUME NEW s \in Stopper, StopTimesOut(s) PROVE TypeOK'
    <2>1. /\ RequestTypeOK' /\ status' \in Status
          /\ process' \in BOOLEAN /\ stop' \in [Stopper -> StopState]
        BY <1>13, FinishTyped DEF StopTimesOut
    <2>2. /\ proc' \in ProcessState
          /\ ready' \in ReadyState /\ ws' \in BOOLEAN /\ start' \in StartState
        BY <1>13 DEF StopTimesOut, LifeTypeOK, ProcessState
    <2>3. QED BY <2>1, <2>2 DEF LifeTypeOK
<1>14. CASE ProcessExits
    <2>1. /\ RequestTypeOK' /\ status' \in Status
          /\ process' \in BOOLEAN /\ stop' \in [Stopper -> StopState]
        <3>1. CASE Finish(Waiting)
            BY <3>1, FinishTyped
        <3>2. CASE UNCHANGED <<status, process, requestVars, stop>>
            BY <3>2 DEF requestVars, RequestTypeOK, LifeTypeOK
        <3>3. QED BY <1>14, <3>1, <3>2 DEF ProcessExits
    <2>2. proc' \in ProcessState /\ start' \in StartState
        BY <1>14 DEF ProcessExits, LifeTypeOK, ProcessState, StartState
    <2>3. ready' \in ReadyState /\ ws' \in BOOLEAN
        BY <1>14 DEF ProcessExits, LifeTypeOK
    <2>4. QED BY <2>1, <2>2, <2>3 DEF LifeTypeOK
<1>15. CASE UNCHANGED vars
    BY <1>15 DEF vars, lifeVars, requestVars, LifeTypeOK, RequestTypeOK
<1>16. QED
    BY <1>1, <1>2, <1>3, <1>4, <1>5, <1>6, <1>7, <1>8, <1>9, <1>10, <1>11,
       <1>12, <1>13, <1>14, <1>15 DEF Next

\* Every variable of the adapter keeps its type.
THEOREM AdapterTypeCorrect == Spec => []TypeOK
BY TypeInit, TypeStep, PTL DEF Spec

-----------------------------------------------------------------------------
(* Requests.                                                               *)

\* Rejecting what the map holds leaves no request waiting that the map forgot.
LEMMA RejectKeeps ==
    ASSUME TypeOK, RequestInv, NEW reason \in {"closed", "stopped"}, RejectPending(reason)
    PROVE  RequestInv' /\ pending' = NonePending
<1>1. pending' = NonePending
    BY DEF RejectPending
<1>2. PendingIsWaiting'
    <2>1. ASSUME NEW r \in Request PROVE r \in timers' <=> outcome'[r] = "waiting"
        BY DEF RejectPending, RequestInv, PendingIsWaiting, TypeOK, RequestTypeOK
    <2>2. \A id \in Id : pending'[id] = NoRequest
        BY <1>1 DEF NonePending
    <2>3. QED BY <2>1, <2>2 DEF PendingIsWaiting
<1>3. OwnAnswers'
    <2> SUFFICES ASSUME NEW r \in Request, IdIsItsOwn(r)
                 PROVE  /\ outcome'[r] # "waiting"
                        /\ outcome'[r] = "answered" => answer'[r] = r
        BY DEF OwnAnswers, IdIsItsOwn
    <2>1. outcome'[r] = IF Pending(r) THEN reason ELSE outcome[r]
        BY DEF RejectPending
    <2>2. outcome[r] = "waiting" => Pending(r)
        BY DEF RequestInv, OwnAnswers
    <2>3. outcome[r] = "answered" => answer[r] = r
        BY DEF RequestInv, OwnAnswers
    <2>4. QED BY <2>1, <2>2, <2>3 DEF RejectPending
<1>4. QED BY <1>1, <1>2, <1>3 DEF RequestInv

LEMMA UnchangedKeeps ==
    ASSUME RequestInv, UNCHANGED requestVars
    PROVE  RequestInv'
BY DEF requestVars, RequestInv, PendingIsWaiting, OwnAnswers, IdIsItsOwn, Pending

LEMMA FinishKeeps ==
    ASSUME TypeOK, RequestInv, NEW calls, Finish(calls)
    PROVE  RequestInv' /\ pending' = NonePending
BY RejectKeeps DEF Finish

LEMMA SendKeeps ==
    ASSUME TypeOK, RequestInv, NEW r \in Request, Send(r)
    PROVE  RequestInv'
<1> USE RequestAssumption DEF Send, TypeOK, RequestTypeOK
<1>1. PendingIsWaiting'
    BY DEF RequestInv, PendingIsWaiting
<1>2. OwnAnswers'
    <2> SUFFICES ASSUME NEW q \in Request, IdIsItsOwn(q)
                 PROVE  /\ outcome'[q] = "waiting" => pending'[IdOf[q]] = q /\ q \in atAgent'
                        /\ outcome'[q] = "answered" => answer'[q] = q
        BY DEF OwnAnswers, IdIsItsOwn, Pending
    <2>1. CASE q = r
        BY <2>1
    <2>2. CASE q # r
        <3>1. IdOf[q] # IdOf[r]
            BY <2>2 DEF IdIsItsOwn
        <3>2. QED BY <2>2, <3>1 DEF RequestInv, OwnAnswers, Pending
    <2>3. QED BY <2>1, <2>2
<1>3. QED BY <1>1, <1>2 DEF RequestInv

LEMMA AnsweredKeeps ==
    ASSUME TypeOK, RequestInv, NEW r \in Request, Answered(r)
    PROVE  RequestInv'
<1> DEFINE p == pending[IdOf[r]]
<1> USE RequestAssumption DEF Answered, TypeOK, RequestTypeOK
<1>1. PendingIsWaiting'
    BY DEF RequestInv, PendingIsWaiting
<1>2. OwnAnswers'
    <2> SUFFICES ASSUME NEW q \in Request, IdIsItsOwn(q)
                 PROVE  /\ outcome'[q] = "waiting" => pending'[IdOf[q]] = q /\ q \in atAgent'
                        /\ outcome'[q] = "answered" => answer'[q] = q
        BY DEF OwnAnswers, IdIsItsOwn, Pending
    <2>1. CASE q = r
        <3>1. p = NoRequest \/ p = q
            BY <2>1 DEF RequestInv, PendingIsWaiting, IdIsItsOwn
        <3>2. QED BY <2>1, <3>1 DEF RequestInv, OwnAnswers, Pending
    <2>2. CASE q # r
        <3>1. IdOf[q] # IdOf[r]
            BY <2>2 DEF IdIsItsOwn
        <3>2. p # q
            BY <3>1 DEF RequestInv, PendingIsWaiting
        <3>3. QED BY <2>2, <3>1, <3>2 DEF RequestInv, OwnAnswers, Pending
    <2>3. QED BY <2>1, <2>2
<1>3. QED BY <1>1, <1>2 DEF RequestInv

LEMMA TimeoutKeeps ==
    ASSUME TypeOK, RequestInv, NEW r \in Request, RequestTimesOut(r)
    PROVE  RequestInv'
<1> USE RequestAssumption DEF RequestTimesOut, TypeOK, RequestTypeOK
<1>1. PendingIsWaiting'
    BY DEF RequestInv, PendingIsWaiting
<1>2. OwnAnswers'
    <2> SUFFICES ASSUME NEW q \in Request, IdIsItsOwn(q)
                 PROVE  /\ outcome'[q] = "waiting" => pending'[IdOf[q]] = q /\ q \in atAgent'
                        /\ outcome'[q] = "answered" => answer'[q] = q
        BY DEF OwnAnswers, IdIsItsOwn, Pending
    <2>1. CASE q = r
        BY <2>1
    <2>2. CASE q # r
        <3>1. IdOf[q] # IdOf[r]
            BY <2>2 DEF IdIsItsOwn
        <3>2. QED BY <2>2, <3>1 DEF RequestInv, OwnAnswers, Pending
    <2>3. QED BY <2>1, <2>2
<1>3. QED BY <1>1, <1>2 DEF RequestInv

LEMMA RequestStep == TypeOK /\ RequestInv /\ [Next]_vars => RequestInv'
<1> SUFFICES ASSUME TypeOK, RequestInv, [Next]_vars PROVE RequestInv'
    OBVIOUS
<1>1. CASE Start \/ UrlSeen \/ UrlTimesOut \/ Opened \/ ConnectTimesOut \/ Lost \/ Failed
    BY <1>1, UnchangedKeeps
       DEF Start, UrlSeen, UrlTimesOut, Opened, ConnectTimesOut, Lost, Failed
<1>2. ASSUME NEW r \in Request, Send(r) \/ Answered(r) \/ RequestTimesOut(r) PROVE RequestInv'
    BY <1>2, SendKeeps, AnsweredKeeps, TimeoutKeeps
<1>3. CASE Closed
    BY <1>3, RejectKeeps DEF Closed
<1>4. ASSUME NEW s \in Stopper, Stop(s) PROVE RequestInv'
    BY <1>4, FinishKeeps, UnchangedKeeps DEF Stop
<1>5. ASSUME NEW s \in Stopper, StopTimesOut(s) PROVE RequestInv'
    BY <1>5, FinishKeeps DEF StopTimesOut
<1>6. CASE ProcessExits
    BY <1>6, FinishKeeps, UnchangedKeeps DEF ProcessExits
<1>7. CASE UNCHANGED vars
    BY <1>7, UnchangedKeeps DEF vars
<1>8. QED BY <1>1, <1>2, <1>3, <1>4, <1>5, <1>6, <1>7 DEF Next

LEMMA RequestInit == Init => RequestInv
<1> SUFFICES ASSUME Init PROVE RequestInv
    OBVIOUS
<1>1. PendingIsWaiting
    BY DEF Init, PendingIsWaiting, NonePending
<1>2. OwnAnswers
    BY DEF Init, OwnAnswers
<1>3. QED BY <1>1, <1>2 DEF RequestInv

LEMMA RequestInvariant == Spec => [](TypeOK /\ RequestInv)
<1>1. Init => TypeOK /\ RequestInv
    BY TypeInit, RequestInit
<1>2. TypeOK /\ RequestInv /\ [Next]_vars => (TypeOK /\ RequestInv)'
    BY TypeStep, RequestStep
<1>3. QED BY <1>1, <1>2, PTL DEF Spec

\* A request is unsettled exactly as long as its timeout is set, and the map
\* holds only such requests, each under its id.
THEOREM AdapterPendingIsWaiting == Spec => []PendingIsWaiting
BY RequestInvariant, PTL DEF RequestInv

\* A request whose id no other request has is settled by its own response, and
\* is in the map as long as it waits for it.
THEOREM AdapterOwnAnswers == Spec => []OwnAnswers
BY RequestInvariant, PTL DEF RequestInv

-----------------------------------------------------------------------------
(* The adapter implements AgentRequests.                                   *)

\* What is rejected with the map waits.
LEMMA RejectSettles ==
    ASSUME TypeOK, RequestInv, NEW reason \in {"closed", "stopped"}, RejectPending(reason)
    PROVE  Agent!Next
<1> DEFINE calls == {r \in Request : Pending(r)}
<1>1. \A r \in calls : outcome[r] = "waiting"
    <2> SUFFICES ASSUME NEW r \in Request, Pending(r) PROVE outcome[r] = "waiting"
        OBVIOUS
    <2>1. IdOf[r] \in Id /\ pending[IdOf[r]] = r /\ r # NoRequest
        BY RequestAssumption DEF Pending
    <2>2. QED BY <2>1 DEF RequestInv, PendingIsWaiting
<1>2. Agent!Settle(calls, reason)
    BY <1>1 DEF RejectPending, Agent!Settle
<1>3. calls \in SUBSET Request /\ reason \in Agent!Reason
    BY DEF Agent!Reason
<1>4. QED BY <1>2, <1>3 DEF Agent!Next

\* What changes the outcome of one request settles one that waits.
LEMMA OneSettles ==
    ASSUME NEW r \in Request, outcome[r] = "waiting",
           NEW reason \in {"answered", "timeout"},
           outcome \in [Request -> Outcome],
           outcome' = [outcome EXCEPT ![r] = reason]
    PROVE  Agent!Next
<1>1. Agent!Settle({r}, reason)
    BY DEF Agent!Settle
<1>2. {r} \in SUBSET Request /\ reason \in Agent!Reason
    BY DEF Agent!Reason
<1>3. QED BY <1>1, <1>2 DEF Agent!Next

\* The adapter keeps what AgentRequests promises to those who call it: each
\* call is refused or put to the agent, and settled once if it was.
THEOREM AdapterSettlesOnce == Spec => SettlesOnce
<1>1. Init => Agent!Init
    BY DEF Init, Agent!Init
<1>2. TypeOK /\ RequestInv /\ [Next]_vars => [Agent!Next]_outcome
    <2> SUFFICES ASSUME TypeOK, RequestInv, [Next]_vars
                 PROVE  Agent!Next \/ UNCHANGED outcome
        OBVIOUS
    <2>1. CASE Start \/ UrlSeen \/ UrlTimesOut \/ Opened \/ ConnectTimesOut \/ Lost \/ Failed
        BY <2>1 DEF Start, UrlSeen, UrlTimesOut, Opened, ConnectTimesOut, Lost, Failed, requestVars
    <2>2. ASSUME NEW r \in Request, Send(r) PROVE Agent!Next
        <3>1. Agent!Ask(r) \/ Agent!Refuse(r)
            BY <2>2 DEF Send, Agent!Ask, Agent!Refuse
        <3>2. QED BY <3>1 DEF Agent!Next
    <2>3. ASSUME NEW r \in Request, Answered(r) PROVE Agent!Next \/ UNCHANGED outcome
        <3> DEFINE p == pending[IdOf[r]]
        <3>1. CASE p = NoRequest
            BY <2>3, <3>1 DEF Answered
        <3>2. CASE p # NoRequest
            <4>1. p \in Request /\ outcome[p] = "waiting"
                BY <3>2, RequestAssumption DEF RequestInv, PendingIsWaiting, TypeOK, RequestTypeOK
            <4>2. outcome' = [outcome EXCEPT ![p] = "answered"]
                BY <2>3, <3>2 DEF Answered
            <4>3. QED BY <4>1, <4>2, OneSettles DEF TypeOK, RequestTypeOK
        <3>3. QED BY <3>1, <3>2
    <2>4. ASSUME NEW r \in Request, RequestTimesOut(r) PROVE Agent!Next
        <3>1. outcome[r] = "waiting"
            BY <2>4 DEF RequestTimesOut, RequestInv, PendingIsWaiting
        <3>2. QED BY <2>4, <3>1, OneSettles DEF RequestTimesOut, TypeOK, RequestTypeOK
    <2>5. CASE Closed
        BY <2>5, RejectSettles DEF Closed
    <2>6. ASSUME NEW s \in Stopper, Stop(s) PROVE Agent!Next \/ UNCHANGED outcome
        BY <2>6, RejectSettles DEF Stop, Finish, requestVars
    <2>7. ASSUME NEW s \in Stopper, StopTimesOut(s) PROVE Agent!Next
        BY <2>7, RejectSettles DEF StopTimesOut, Finish
    <2>8. CASE ProcessExits
        BY <2>8, RejectSettles DEF ProcessExits, Finish, requestVars
    <2>9. CASE UNCHANGED vars
        BY <2>9 DEF vars, requestVars
    <2>10. QED BY <2>1, <2>2, <2>3, <2>4, <2>5, <2>6, <2>7, <2>8, <2>9 DEF Next
<1>3. QED BY <1>1, <1>2, RequestInvariant, PTL DEF Spec, SettlesOnce, Agent!Spec

\* So what has become of a call is final: no late answer, no timer and no stop()
\* settles it again (codex-adapter.ts:153-160, 186-198, 234-241, 257-268).
THEOREM AdapterSettledIsFinal == Spec => Agent!SettledIsFinal
<1> DEFINE Typed == outcome \in [Request -> Agent!Outcome]
           Final == \A r \in Request :
                        outcome[r] \in Agent!Reason \cup {"refused"} => outcome'[r] = outcome[r]
<1>1. Agent!Init => Typed
    BY DEF Agent!Init, Agent!Outcome
<1>2. Typed /\ [Agent!Next]_outcome => Typed'
    BY DEF Agent!Next, Agent!Ask, Agent!Refuse, Agent!Settle, Agent!Outcome, Agent!Reason
<1>3. Typed /\ [Agent!Next]_outcome => [Final]_outcome
    <2> SUFFICES ASSUME Typed, Agent!Next PROVE Final
        OBVIOUS
    <2>1. ASSUME NEW r \in Request, Agent!Ask(r) \/ Agent!Refuse(r) PROVE Final
        BY <2>1 DEF Agent!Ask, Agent!Refuse, Agent!Reason
    <2>2. ASSUME NEW calls \in SUBSET Request, NEW reason \in Agent!Reason,
                 Agent!Settle(calls, reason)
          PROVE  Final
        BY <2>2 DEF Agent!Settle, Agent!Reason
    <2> QED
        BY <2>1, <2>2 DEF Agent!Next
<1>4. Agent!SettledIsFinal <=> [][Final]_outcome
    BY DEF Agent!SettledIsFinal
<1> HIDE DEF Typed, Final
<1> QED
    BY <1>1, <1>2, <1>3, <1>4, AdapterSettlesOnce, PTL DEF SettlesOnce, Agent!Spec

-----------------------------------------------------------------------------
(* The life of the adapter.                                                *)

LEMMA LifeInit == Init => LifeInv
BY DEF Init, LifeInv, Stages, RunningIsConnected, NothingPendsAfterTheEnd

\* What a call of stop() leaves behind once it has waited for the process.
LEMMA FinishedLife ==
    ASSUME TypeOK, TypeOK', RequestInv, NEW calls \in SUBSET Stopper, Finish(calls),
           ~ws', start' \in {"started", "failed"}
    PROVE  LifeInv'
<1>1. pending' = NonePending'
    BY FinishKeeps DEF NonePending
<1>2. status' = "stopped"
    BY DEF Finish
<1>3. QED BY <1>1, <1>2 DEF LifeInv, Stages, RunningIsConnected, NothingPendsAfterTheEnd

LEMMA LifeStep == TypeOK /\ TypeOK' /\ RequestInv /\ LifeInv /\ [Next]_vars => LifeInv'
<1> SUFFICES ASSUME TypeOK, TypeOK', RequestInv, LifeInv, [Next]_vars PROVE LifeInv'
    OBVIOUS
<1> USE DEF LifeInv
<1>0. NonePending' = NonePending
    BY DEF NonePending
<1>1. CASE Start
    BY <1>0, <1>1 DEF Start, requestVars, Stages, RunningIsConnected, NothingPendsAfterTheEnd
<1>2. CASE UrlSeen
    BY <1>0, <1>2 DEF UrlSeen, requestVars, Stages, RunningIsConnected, NothingPendsAfterTheEnd
<1>3. CASE UrlTimesOut
    BY <1>0, <1>3 DEF UrlTimesOut, requestVars, Stages, RunningIsConnected, NothingPendsAfterTheEnd
<1>4. CASE Opened
    BY <1>0, <1>4 DEF Opened, requestVars, Stages, RunningIsConnected, NothingPendsAfterTheEnd
<1>5. CASE ConnectTimesOut
    BY <1>0, <1>5 DEF ConnectTimesOut, requestVars, Stages, RunningIsConnected, NothingPendsAfterTheEnd
<1>6. CASE Lost \/ Failed
    BY <1>0, <1>6 DEF Lost, Failed, requestVars, Stages, RunningIsConnected, NothingPendsAfterTheEnd
<1>7. ASSUME NEW r \in Request, Send(r) \/ Answered(r) \/ RequestTimesOut(r) PROVE LifeInv'
    <2>1. Stages' /\ RunningIsConnected'
        BY <1>7 DEF Send, Answered, RequestTimesOut, lifeVars, Stages, RunningIsConnected
    <2>2. NothingPendsAfterTheEnd'
        <3>1. CASE Send(r)
            BY <1>0, <3>1 DEF Send, lifeVars, Stages, NothingPendsAfterTheEnd
        <3>2. ASSUME pending = NonePending, Answered(r) \/ RequestTimesOut(r)
              PROVE  pending' = NonePending
            <4>1. pending'  = pending \/ pending' = [pending EXCEPT ![IdOf[r]] = NoRequest]
                BY <3>2 DEF Answered, RequestTimesOut
            <4>2. QED BY <3>2, <4>1 DEF NonePending
        <3>3. CASE Answered(r) \/ RequestTimesOut(r)
            BY <1>0, <3>2, <3>3 DEF Answered, RequestTimesOut, lifeVars, NothingPendsAfterTheEnd
        <3>4. QED BY <1>7, <3>1, <3>3
    <2>3. QED BY <2>1, <2>2
<1>8. CASE Closed
    <2>1. pending' = NonePending
        BY <1>8, RejectKeeps DEF Closed
    <2>2. QED BY <1>0, <1>8, <2>1 DEF Closed, Stages, RunningIsConnected, NothingPendsAfterTheEnd
<1>9. ASSUME NEW s \in Stopper, Stop(s) PROVE LifeInv'
    <2>1. ~ws' /\ start' \in {"started", "failed"}
        BY <1>9 DEF Stop
    <2>2. CASE Finish({s})
        BY <2>1, <2>2, FinishedLife
    <2>3. CASE /\ stop' = [stop EXCEPT ![s] = "waiting"]
               /\ status' = "stopping"
               /\ UNCHANGED <<process, requestVars>>
        <3>1. Stages' /\ RunningIsConnected'
            BY <2>1, <2>3 DEF Stages, RunningIsConnected
        <3>2. \A q \in Stopper : stop'[q] = "done" => stop[q] = "done"
            BY <2>3 DEF TypeOK, LifeTypeOK
        <3>3. ready' \in {"none", "closed"} => ready \in {"none", "closed"}
            BY <1>9 DEF Stop
        <3>4. NothingPendsAfterTheEnd'
            BY <1>0, <2>3, <3>2, <3>3 DEF requestVars, NothingPendsAfterTheEnd
        <3>5. QED BY <3>1, <3>4
    <2>4. QED BY <1>9, <2>2, <2>3 DEF Stop
<1>10. ASSUME NEW s \in Stopper, StopTimesOut(s) PROVE LifeInv'
    <2>1. ~ws' /\ start' \in {"started", "failed"}
        BY <1>10 DEF StopTimesOut, Stages, TypeOK, LifeTypeOK, StartState
    <2>2. QED BY <1>10, <2>1, FinishedLife DEF StopTimesOut
<1>11. CASE ProcessExits
    <2>1. CASE Waiting # {}
        <3>1. PICK s \in Stopper : stop[s] = "waiting"
            BY <2>1 DEF Waiting
        <3>2. ~ws /\ start \in {"started", "failed"}
            BY <3>1 DEF Stages, TypeOK, LifeTypeOK, StartState
        <3>3. ~ws' /\ start' \in {"started", "failed"}
            BY <1>11, <3>2 DEF ProcessExits
        <3>4. Waiting \in SUBSET Stopper /\ Finish(Waiting)
            BY <1>11, <2>1 DEF ProcessExits, Waiting
        <3>5. QED BY <3>3, <3>4, FinishedLife
    <2>2. CASE Waiting = {}
        BY <1>0, <1>11, <2>2
           DEF ProcessExits, requestVars, Stages, RunningIsConnected, NothingPendsAfterTheEnd
    <2>3. QED BY <2>1, <2>2
<1>12. CASE UNCHANGED vars
    BY <1>0, <1>12 DEF vars, lifeVars, requestVars, Stages, RunningIsConnected, NothingPendsAfterTheEnd
<1>13. QED
    BY <1>1, <1>2, <1>3, <1>4, <1>5, <1>6, <1>7, <1>8, <1>9, <1>10, <1>11, <1>12 DEF Next

LEMMA AdapterInvariant == Spec => []IInv
<1>1. Init => IInv
    BY TypeInit, RequestInit, LifeInit DEF IInv
<1>2. IInv /\ [Next]_vars => IInv'
    BY TypeStep, RequestStep, LifeStep DEF IInv
<1>3. QED BY <1>1, <1>2, PTL DEF Spec

\* The map of requests is empty once the close event has come or a call of
\* stop() has returned.
THEOREM AdapterEndsEmpty == Spec => []NothingPendsAfterTheEnd
BY AdapterInvariant, PTL DEF IInv, LifeInv

\* "running" is said only of an adapter that holds a connection nobody stopped.
THEOREM AdapterRunningIsConnected == Spec => []RunningIsConnected
BY AdapterInvariant, PTL DEF IInv, LifeInv
===============================================================================
