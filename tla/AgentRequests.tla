---------------------------- MODULE AgentRequests -----------------------------
(***************************************************************************)
(* What an agent adapter promises those who call its sendRequest()         *)
(* (packages/bridge/src/agent/types.ts:42-46): a call is refused at once   *)
(* or put to the agent, and a call that was put to the agent is settled    *)
(* once.  Several may be settled together, when the agent is lost.         *)
(***************************************************************************)
CONSTANT Request \* calls of sendRequest()

VARIABLE outcome \* per call

Outcome == {"unsent", "waiting", "answered", "timeout", "closed", "stopped", "refused"}

\* Why a call that waits is settled: by its response, or with an error.
Reason == {"answered", "timeout", "closed", "stopped"}

Init == outcome = [r \in Request |-> "unsent"]

Ask(r) ==
    /\ outcome[r] = "unsent"
    /\ outcome' = [outcome EXCEPT ![r] = "waiting"]

Refuse(r) ==
    /\ outcome[r] = "unsent"
    /\ outcome' = [outcome EXCEPT ![r] = "refused"]

Settle(calls, reason) ==
    /\ \A r \in calls : outcome[r] = "waiting"
    /\ outcome' = [r \in Request |-> IF r \in calls THEN reason ELSE outcome[r]]

Next ==
    \/ \E r \in Request : Ask(r) \/ Refuse(r)
    \/ \E calls \in SUBSET Request, reason \in Reason : Settle(calls, reason)

Spec == Init /\ [][Next]_outcome

-----------------------------------------------------------------------------
\* What has become of a call is final: a late answer, timeout or stop() changes
\* nothing any more (codex-adapter.ts:153-160, 186-198, 234-241, 257-268).
SettledIsFinal ==
    [][\A r \in Request : outcome[r] \in Reason \cup {"refused"} => outcome'[r] = outcome[r]]_outcome
===============================================================================
