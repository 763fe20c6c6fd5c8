---------------------------- MODULE RelayHeartbeat ----------------------------
(* Relay with a history variable: which connections the server has heard    *)
(* from since the clock last ticked.  It constrains no step of Relay.       *)
EXTENDS Relay

VARIABLE heardFrom

hvars == <<vars, heardFrom>>

HInit == Init /\ heardFrom = {}

HNext ==
    \/ \E w \in Socket : (Connect(w) \/ Receive(w)) /\ heardFrom' = heardFrom \cup {w}
    \/ \E w \in Socket : (PeerCloses(w) \/ Closed(w)) /\ UNCHANGED heardFrom
    \/ Tick /\ heardFrom' = {}
    \/ (Cleanup \/ Shutdown) /\ UNCHANGED heardFrom

HFairSpec ==
    /\ HInit /\ [][HNext]_hvars
    /\ WF_hvars(Tick /\ heardFrom' = {})
    /\ WF_hvars(Cleanup /\ UNCHANGED heardFrom)
    /\ \A w \in Socket : WF_hvars(Closed(w) /\ UNCHANGED heardFrom)

\* "Maximum missed heartbeats before disconnect" (config.ts:14; constants.ts:8
\* says the same): a connection that stays open is heard from again and again.
SilentPartyIsDropped ==
    \A w \in Socket : []<>(readyState[w] # "open" \/ w \in heardFrom)
===============================================================================
