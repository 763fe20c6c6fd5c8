----------------------------- MODULE Rendezvous ------------------------------
(***************************************************************************)
(* What the relay promises its two parties, with no word of sockets'       *)
(* states, maps or timers: a session is a pair of slots, a connection sits *)
(* in at most one slot in its life, a slot in use is not given away, and   *)
(* what one party says is heard by its partner of that moment or by nobody.*)
(***************************************************************************)
CONSTANTS Socket, SessionId, NoSocket

VARIABLES
    slot,    \* who sits where
    seated,  \* the connections that have ever been given a slot
    heard    \* <<speaker, listener>> pairs of the last step

Role == {"bridge", "client"}
Nobody == [r \in Role |-> NoSocket]

Init ==
    /\ slot = [id \in SessionId |-> Nobody]
    /\ seated = {}
    /\ heard = {}

Join(w, id, r) ==
    /\ w \notin seated
    /\ slot[id][r] = NoSocket
    /\ slot' = [slot EXCEPT ![id][r] = w]
    /\ seated' = seated \cup {w}
    /\ heard' = {}

Leave(id, r) ==
    /\ slot' = [slot EXCEPT ![id][r] = NoSocket]
    /\ heard' = {}
    /\ UNCHANGED seated

Dissolve(ids) ==
    /\ slot' = [id \in SessionId |-> IF id \in ids THEN Nobody ELSE slot[id]]
    /\ heard' = {}
    /\ UNCHANGED seated

Partners(v, w) ==
    \E id \in SessionId, r, q \in Role :
        r # q /\ slot[id][r] = v /\ slot[id][q] = w

Say(v, w) ==
    /\ Partners(v, w)
    /\ heard' = {<<v, w>>}
    /\ UNCHANGED <<slot, seated>>

Quiet == heard' = {} /\ UNCHANGED <<slot, seated>>

Next ==
    \/ \E w \in Socket, id \in SessionId, r \in Role : Join(w, id, r)
    \/ \E id \in SessionId, r \in Role : Leave(id, r)
    \/ \E ids \in SUBSET SessionId : Dissolve(ids)
    \/ \E v, w \in Socket : Say(v, w)
    \/ Quiet

Spec == Init /\ [][Next]_<<slot, seated, heard>>
=============================================================================
