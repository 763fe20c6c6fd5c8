----------------------------- MODULE RelayProofs -----------------------------
(* Proofs about Relay, for every set of sockets and session codes and every *)
(* configuration of the monitor.                                            *)
EXTENDS Relay, TLAPS

\* A connection the server has not handled yet has no handlers.
NewcomersAreUnknown == \A w \in Socket : readyState[w] = "new" => ~attached[w]

IInv == TypeOK /\ RegistryConsistent /\ NoOrphans /\ NewcomersAreUnknown

LEMMA LimitIsNat == MaxIdle \in Nat /\ IdleLimit \in Nat
BY ConfigAssumption DEF MaxIdle, IdleLimit

LEMMA Roles == /\ \A r \in Role : Other(r) \in Role /\ Other(r) # r /\ Other(Other(r)) = r
               /\ \A r, q \in Role : r # q => q = Other(r)
               /\ EmptySlots \in [Role -> Socket \cup {NoSocket}]
               /\ \A r \in Role : EmptySlots[r] = NoSocket
BY DEF Role, Other, EmptySlots

LEMMA SendToType ==
    ASSUME TypeOK, NEW w \in Socket \cup {NoSocket}, NEW kind \in MessageKind,
           NEW from \in Socket \cup {NoSocket}
    PROVE  /\ SendTo(w, kind, from) \in SUBSET Message
           /\ \A m \in SendTo(w, kind, from) :
                m.to = w /\ m.from = from /\ w # NoSocket /\ readyState[w] = "open"
BY DEF SendTo, Message, TypeOK

LEMMA InitIInv == Init => IInv
<1> SUFFICES ASSUME Init PROVE IInv
    OBVIOUS
<1>1. TypeOK
    BY LimitIsNat, ConfigAssumption, Roles DEF Init, TypeOK, SocketState
<1>2. RegistryConsistent
    BY SentinelsAssumption, Roles DEF Init, RegistryConsistent
<1>3. NoOrphans /\ NewcomersAreUnknown
    BY DEF Init, NoOrphans, NewcomersAreUnknown
<1> QED BY <1>1, <1>2, <1>3 DEF IInv

\* Where the entry that RoleOf picks points.
LEMMA RoleOfPaired ==
    ASSUME TypeOK, RegistryConsistent, NEW w \in Socket, RolesOf(w) # {}
    PROVE  /\ RoleOf(w) \in Role
           /\ sessionBy[RoleOf(w)][w] \in sessions
           /\ sessionBy[RoleOf(w)][w] \in SessionId
           /\ occupant[sessionBy[RoleOf(w)][w]][RoleOf(w)] = w
           /\ sessionBy[Other(RoleOf(w))][w] = NoSession
<1>1. RoleOf(w) \in Role /\ sessionBy[RoleOf(w)][w] \in sessions
    BY DEF RolesOf, RoleOf, Role
<1>2. sessionBy[RoleOf(w)][w] \in SessionId
    BY <1>1 DEF TypeOK
<1>3. sessionBy[RoleOf(w)][w] # NoSession
    BY <1>2, SentinelsAssumption
<1> QED BY <1>1, <1>2, <1>3 DEF RegistryConsistent

LEMMA UnpairedHasNoEntry ==
    ASSUME TypeOK, RegistryConsistent, NEW w \in Socket, RolesOf(w) = {}
    PROVE  \A r \in Role : sessionBy[r][w] = NoSession
BY DEF RegistryConsistent, RolesOf

\* Pair puts w in the free slot r of session id, and nothing else moves.
LEMMA PairKeepsRegistry ==
    ASSUME IInv, NEW w \in Socket, NEW id \in SessionId, NEW r \in Role,
           occupant[id][r] = NoSocket, readyState[w] = "new", Pair(id, r, w),
           readyState' = [readyState EXCEPT ![w] = "open"],
           attached' = [attached EXCEPT ![w] = TRUE]
    PROVE  /\ RegistryConsistent'
           /\ NoOrphans'
           /\ sessions' \in SUBSET SessionId
           /\ occupant' \in [SessionId -> [Role -> Socket \cup {NoSocket}]]
           /\ sessionBy' \in [Role -> [Socket -> SessionId \cup {NoSession}]]
           /\ idle' \in [SessionId -> 0 .. IdleLimit + 1]
<1> USE Roles
<1>1. /\ sessions' \in SUBSET SessionId
      /\ occupant' \in [SessionId -> [Role -> Socket \cup {NoSocket}]]
      /\ sessionBy' \in [Role -> [Socket -> SessionId \cup {NoSession}]]
      /\ idle' \in [SessionId -> 0 .. IdleLimit + 1]
    BY LimitIsNat DEF IInv, TypeOK, Pair
<1>2. /\ \A i \in SessionId, q \in Role :
            occupant'[i][q] = IF i = id /\ q = r THEN w ELSE occupant[i][q]
      /\ \A q \in Role, v \in Socket :
            sessionBy'[q][v] = IF q = r /\ v = w THEN id ELSE sessionBy[q][v]
    BY DEF IInv, TypeOK, Pair
<1>3. ~attached[w]
    BY DEF IInv, NewcomersAreUnknown
<1>4. /\ \A q \in Role : sessionBy[q][w] = NoSession
      /\ \A i \in SessionId, q \in Role : occupant[i][q] # w
    <2>1. \A i \in SessionId, q \in Role : occupant[i][q] # w
        BY <1>3, SentinelsAssumption DEF IInv, RegistryConsistent
    <2>2. \A q \in Role : sessionBy[q][w] \in SessionId \cup {NoSession}
        BY DEF IInv, TypeOK
    <2> QED BY <2>1, <2>2 DEF IInv, RegistryConsistent
<1>5. ASSUME NEW q \in Role, NEW v \in Socket, sessionBy'[q][v] # NoSession
      PROVE  /\ sessionBy'[q][v] \in sessions'
             /\ occupant'[sessionBy'[q][v]][q] = v
             /\ sessionBy'[Other(q)][v] = NoSession
    <2>1. CASE v = w
        BY <2>1, <1>5, <1>2, <1>4 DEF Pair
    <2>2. CASE v # w
        <3>1. sessionBy'[q][v] = sessionBy[q][v] /\ sessionBy'[Other(q)][v] = sessionBy[Other(q)][v]
            BY <2>2, <1>2
        <3>2. sessionBy[q][v] \in SessionId /\ occupant[sessionBy[q][v]][q] = v
            BY <3>1, <1>5 DEF IInv, TypeOK, RegistryConsistent
        <3>3. ~(sessionBy[q][v] = id /\ q = r)
            BY <3>2, SentinelsAssumption
        <3> QED BY <3>1, <3>2, <3>3, <1>2, <1>5 DEF IInv, RegistryConsistent, Pair
    <2> QED BY <2>1, <2>2
<1>6. ASSUME NEW i \in SessionId, NEW q \in Role, occupant'[i][q] # NoSocket
      PROVE  /\ i \in sessions'
             /\ sessionBy'[q][occupant'[i][q]] = i
             /\ attached'[occupant'[i][q]]
             /\ readyState'[occupant'[i][q]] \in {"open", "closing", "ending"}
    <2>1. CASE i = id /\ q = r
        BY <2>1, <1>2 DEF IInv, TypeOK, Pair
    <2>2. CASE ~(i = id /\ q = r)
        <3>1. occupant'[i][q] = occupant[i][q] /\ occupant[i][q] \in Socket
            BY <2>2, <1>2, <1>6 DEF IInv, TypeOK
        <3>2. occupant[i][q] # w
            BY <1>4
        <3> QED BY <3>1, <3>2, <1>2, <1>6 DEF IInv, TypeOK, RegistryConsistent, Pair
    <2> QED BY <2>1, <2>2
<1>7. RegistryConsistent'
    BY <1>5, <1>6 DEF RegistryConsistent
<1>8. NoOrphans'
    <2> SUFFICES ASSUME NEW v \in Socket, readyState'[v] = "open"
                 PROVE  attached'[v] /\ \E q \in Role : sessionBy'[q][v] \in sessions'
        BY DEF NoOrphans, RolesOf
    <2>1. CASE v = w
        BY <2>1, <1>2 DEF IInv, TypeOK, Pair
    <2>2. CASE v # w
        BY <2>2, <1>2 DEF IInv, TypeOK, NoOrphans, RolesOf, Pair
    <2> QED BY <2>1, <2>2
<1> QED BY <1>1, <1>7, <1>8

\* RemoveSocket empties the one slot w holds, if any, and forgets w.
LEMMA RemoveSocketEffect ==
    ASSUME IInv, NEW w \in Socket, RemoveSocket(w)
    PROVE  /\ \A q \in Role, v \in Socket :
                sessionBy'[q][v] = IF v = w THEN NoSession ELSE sessionBy[q][v]
           /\ \A i \in SessionId, q \in Role :
                occupant'[i][q] = IF occupant[i][q] = w THEN NoSocket ELSE occupant[i][q]
           /\ occupant' \in [SessionId -> [Role -> Socket \cup {NoSocket}]]
           /\ sessionBy' \in [Role -> [Socket -> SessionId \cup {NoSession}]]
           /\ idle' \in [SessionId -> 0 .. IdleLimit + 1]
<1> USE Roles
<1> DEFINE r == RoleOf(w)
           id == sessionBy[r][w]
<1>1. CASE RolesOf(w) = {}
    <2>1. \A q \in Role : sessionBy[q][w] = NoSession
        BY <1>1, UnpairedHasNoEntry DEF IInv
    <2>2. \A i \in SessionId, q \in Role : occupant[i][q] # w
        BY <2>1, SentinelsAssumption DEF IInv, RegistryConsistent
    <2>3. UNCHANGED <<occupant, idle>> /\ RoleOf(w) = "client"
        BY <1>1 DEF RemoveSocket, RoleOf
    <2>4. sessionBy' = [q \in Role |-> [sessionBy[q] EXCEPT ![w] = NoSession]]
        BY <2>3 DEF RemoveSocket
    <2>5. sessionBy' \in [Role -> [Socket -> SessionId \cup {NoSession}]]
        BY <2>4 DEF IInv, TypeOK
    <2> QED BY <2>1, <2>2, <2>3, <2>4, <2>5 DEF IInv, TypeOK
<1>2. CASE RolesOf(w) # {}
    <2>1. /\ r \in Role /\ id \in sessions /\ id \in SessionId
          /\ occupant[id][r] = w /\ sessionBy[Other(r)][w] = NoSession
        BY <1>2, RoleOfPaired DEF IInv
    <2>2. /\ occupant' = [occupant EXCEPT ![id][r] = NoSocket]
          /\ idle' = [idle EXCEPT ![id] = 0]
        BY <1>2 DEF RemoveSocket
    <2>3. \A i \in SessionId, q \in Role : occupant[i][q] = w => i = id /\ q = r
        <3> SUFFICES ASSUME NEW i \in SessionId, NEW q \in Role, occupant[i][q] = w
                     PROVE  i = id /\ q = r
            OBVIOUS
        <3>1. sessionBy[q][w] = i
            BY SentinelsAssumption DEF IInv, RegistryConsistent
        <3>2. q # Other(r)
            BY <3>1, <2>1, SentinelsAssumption
        <3> QED BY <3>1, <3>2, <2>1
    <2>4. \A q \in Role, v \in Socket :
                sessionBy'[q][v] = IF v = w THEN NoSession ELSE sessionBy[q][v]
        <3> SUFFICES ASSUME NEW q \in Role, NEW v \in Socket
                     PROVE  sessionBy'[q][v] = IF v = w THEN NoSession ELSE sessionBy[q][v]
            OBVIOUS
        <3>1. q = r \/ sessionBy[q][w] = NoSession
            BY <2>1
        <3>2. sessionBy[q] \in [Socket -> SessionId \cup {NoSession}]
            BY DEF IInv, TypeOK
        <3>3. q = r => q = "bridge" \/ RoleOf(w) = "client"
            BY <2>1 DEF Role
        <3>4. \/ sessionBy'[q] = [sessionBy[q] EXCEPT ![w] = NoSession]
              \/ sessionBy'[q] = sessionBy[q] /\ q # r
            BY <3>3 DEF RemoveSocket
        <3> QED BY <3>1, <3>2, <3>4
    <2>5. sessionBy' \in [Role -> [Socket -> SessionId \cup {NoSession}]]
        BY DEF IInv, TypeOK, RemoveSocket
    <2>6. /\ occupant' \in [SessionId -> [Role -> Socket \cup {NoSocket}]]
          /\ idle' \in [SessionId -> 0 .. IdleLimit + 1]
        BY <2>1, <2>2, LimitIsNat DEF IInv, TypeOK
    <2>7. \A i \in SessionId, q \in Role :
                occupant'[i][q] = IF occupant[i][q] = w THEN NoSocket ELSE occupant[i][q]
        BY <2>1, <2>2, <2>3 DEF IInv, TypeOK
    <2> QED BY <2>4, <2>5, <2>6, <2>7
<1> QED BY <1>1, <1>2

\* The close event of a connection leaves the registry consistent.
LEMMA CloseKeepsRegistry ==
    ASSUME IInv, NEW w \in Socket, RemoveSocket(w), UNCHANGED <<attached, sessions>>,
           readyState' = [readyState EXCEPT ![w] = "closed"]
    PROVE  RegistryConsistent' /\ NoOrphans'
<1> USE Roles
<1>1. /\ \A q \in Role, v \in Socket :
                sessionBy'[q][v] = IF v = w THEN NoSession ELSE sessionBy[q][v]
      /\ \A i \in SessionId, q \in Role :
                occupant'[i][q] = IF occupant[i][q] = w THEN NoSocket ELSE occupant[i][q]
    BY RemoveSocketEffect
<1>2. ASSUME NEW q \in Role, NEW v \in Socket, sessionBy'[q][v] # NoSession
      PROVE  /\ sessionBy'[q][v] \in sessions'
             /\ occupant'[sessionBy'[q][v]][q] = v
             /\ sessionBy'[Other(q)][v] = NoSession
    <2>1. v # w /\ sessionBy'[q][v] = sessionBy[q][v] /\ sessionBy[q][v] \in SessionId
        BY <1>1, <1>2 DEF IInv, TypeOK
    <2> QED BY <2>1, <1>1, <1>2 DEF IInv, RegistryConsistent
<1>3. ASSUME NEW i \in SessionId, NEW q \in Role, occupant'[i][q] # NoSocket
      PROVE  /\ i \in sessions'
             /\ sessionBy'[q][occupant'[i][q]] = i
             /\ attached'[occupant'[i][q]]
             /\ readyState'[occupant'[i][q]] \in {"open", "closing", "ending"}
    <2>1. occupant'[i][q] = occupant[i][q] /\ occupant[i][q] # w /\ occupant[i][q] \in Socket
        BY <1>1, <1>3 DEF IInv, TypeOK
    <2> QED BY <2>1, <1>1, <1>3 DEF IInv, TypeOK, RegistryConsistent
<1>4. NoOrphans'
    <2> SUFFICES ASSUME NEW v \in Socket, readyState'[v] = "open"
                 PROVE  attached'[v] /\ \E q \in Role : sessionBy'[q][v] \in sessions'
        BY DEF NoOrphans, RolesOf
    <2>1. v # w /\ readyState[v] = "open"
        BY DEF IInv, TypeOK
    <2> QED BY <2>1, <1>1 DEF IInv, NoOrphans, RolesOf
<1> QED BY <1>2, <1>3, <1>4 DEF RegistryConsistent

\* closeSession() of any set of sessions leaves the registry consistent, and no
\* connection open that it has lost.
LEMMA CloseSessionsKeepsRegistry ==
    ASSUME IInv, NEW ids \in SUBSET SessionId, CloseSessions(ids), UNCHANGED attached
    PROVE  /\ RegistryConsistent' /\ NoOrphans' /\ NewcomersAreUnknown'
           /\ sessions' \in SUBSET SessionId
           /\ readyState' \in [Socket -> SocketState]
           /\ occupant' \in [SessionId -> [Role -> Socket \cup {NoSocket}]]
           /\ sessionBy' \in [Role -> [Socket -> SessionId \cup {NoSession}]]
           /\ idle' \in [SessionId -> 0 .. IdleLimit + 1]
<1> USE Roles
<1>1. /\ sessions' \in SUBSET SessionId
      /\ readyState' \in [Socket -> SocketState]
      /\ occupant' \in [SessionId -> [Role -> Socket \cup {NoSocket}]]
      /\ sessionBy' \in [Role -> [Socket -> SessionId \cup {NoSession}]]
      /\ idle' \in [SessionId -> 0 .. IdleLimit + 1]
    BY LimitIsNat DEF IInv, TypeOK, CloseSessions, SocketState
<1>2. /\ \A i \in SessionId, q \in Role :
            occupant'[i][q] = IF i \in ids THEN NoSocket ELSE occupant[i][q]
      /\ sessions' = sessions \ ids
      /\ \A v \in Socket :
            readyState'[v] # readyState[v] =>
                readyState[v] = "open" /\ readyState'[v] = "closing"
    <2>1. occupant' = [i \in SessionId |-> IF i \in ids THEN EmptySlots ELSE occupant[i]]
        BY DEF CloseSessions
    <2>2. readyState' = [v \in Socket |->
            IF readyState[v] = "open"
               /\ \E q \in Role : v \in {occupant[id][q] : id \in ids}
            THEN "closing" ELSE readyState[v]]
        BY DEF CloseSessions
    <2>3. sessions' = sessions \ ids
        BY DEF CloseSessions
    <2>4. ASSUME NEW i \in SessionId, NEW q \in Role
          PROVE  occupant'[i][q] = IF i \in ids THEN NoSocket ELSE occupant[i][q]
        BY <2>1
    <2>5. \A v \in Socket :
            readyState'[v] # readyState[v] =>
                readyState[v] = "open" /\ readyState'[v] = "closing"
        BY <2>2
    <2> QED BY <2>3, <2>4, <2>5
<1>3. \A q \in Role, v \in Socket :
        sessionBy'[q][v] = IF sessionBy[q][v] \in ids THEN NoSession ELSE sessionBy[q][v]
    <2> SUFFICES ASSUME NEW q \in Role, NEW v \in Socket
                 PROVE  sessionBy'[q][v] =
                          IF sessionBy[q][v] \in ids THEN NoSession ELSE sessionBy[q][v]
        OBVIOUS
    <2>1. sessionBy'[q][v] = IF v \in {occupant[id][q] : id \in ids}
                             THEN NoSession ELSE sessionBy[q][v]
        BY DEF CloseSessions
    <2>2. sessionBy[q][v] \in ids => occupant[sessionBy[q][v]][q] = v
        BY SentinelsAssumption DEF IInv, RegistryConsistent
    <2>3. ASSUME NEW id \in ids, occupant[id][q] = v
          PROVE  sessionBy[q][v] = id
        BY <2>3, SentinelsAssumption DEF IInv, RegistryConsistent
    <2>4. v \in {occupant[id][q] : id \in ids} <=> sessionBy[q][v] \in ids
        BY <2>2, <2>3
    <2> QED BY <2>1, <2>4
<1>4. ASSUME NEW q \in Role, NEW v \in Socket, sessionBy'[q][v] # NoSession
      PROVE  /\ sessionBy'[q][v] \in sessions'
             /\ occupant'[sessionBy'[q][v]][q] = v
             /\ sessionBy'[Other(q)][v] = NoSession
    <2>1. /\ sessionBy'[q][v] = sessionBy[q][v] /\ sessionBy[q][v] \notin ids
          /\ sessionBy[q][v] \in SessionId
        BY <1>3, <1>4 DEF IInv, TypeOK
    <2> QED BY <2>1, <1>2, <1>3, <1>4 DEF IInv, RegistryConsistent
<1>5. ASSUME NEW i \in SessionId, NEW q \in Role, occupant'[i][q] # NoSocket
      PROVE  /\ i \in sessions'
             /\ sessionBy'[q][occupant'[i][q]] = i
             /\ attached'[occupant'[i][q]]
             /\ readyState'[occupant'[i][q]] \in {"open", "closing", "ending"}
    <2>1. occupant'[i][q] = occupant[i][q] /\ i \notin ids /\ occupant[i][q] \in Socket
        BY <1>2, <1>5 DEF IInv, TypeOK
    <2>2. sessionBy[q][occupant[i][q]] = i
        BY <2>1, <1>5 DEF IInv, RegistryConsistent
    <2> QED BY <2>1, <2>2, <1>2, <1>3, <1>5 DEF IInv, RegistryConsistent
<1>6. NoOrphans'
    <2> SUFFICES ASSUME NEW v \in Socket, readyState'[v] = "open"
                 PROVE  attached'[v] /\ \E q \in Role : sessionBy'[q][v] \in sessions'
        BY DEF NoOrphans, RolesOf
    <2>1. readyState[v] = "open"
        BY <1>2
    <2>2. PICK q \in Role : sessionBy[q][v] \in sessions
        BY <2>1 DEF IInv, NoOrphans, RolesOf
    <2>3. occupant[sessionBy[q][v]][q] = v
        <3>1. sessionBy[q][v] # NoSession
            BY <2>2, SentinelsAssumption DEF IInv, TypeOK
        <3> QED BY <3>1 DEF IInv, RegistryConsistent
    <2>4. sessionBy[q][v] \notin ids
        BY <2>1, <2>3 DEF CloseSessions
    <2> QED BY <2>1, <2>2, <2>4, <1>2, <1>3 DEF IInv, NoOrphans
<1>7. NewcomersAreUnknown'
    BY <1>2 DEF IInv, NewcomersAreUnknown
<1> QED BY <1>1, <1>4, <1>5, <1>6, <1>7 DEF RegistryConsistent

\* Every step preserves the inductive invariant.
LEMMA NextIInv == IInv /\ [Next]_vars => IInv'
<1> SUFFICES ASSUME IInv, [Next]_vars PROVE IInv'
    OBVIOUS
<1> USE Roles
<1>1. CASE UNCHANGED vars
    BY <1>1 DEF vars, IInv, TypeOK, RegistryConsistent, NoOrphans, RolesOf, NewcomersAreUnknown
<1>2. ASSUME NEW w \in Socket,
             ConnectInvalid(w) \/ \E id \in SessionId, r \in Role : ConnectRejected(w, id, r)
      PROVE  IInv'
    <2>1. /\ UNCHANGED <<running, attached, sessions, occupant, sessionBy, idle, sinceCleanup>>
          /\ readyState[w] = "new"
          /\ readyState' = [readyState EXCEPT ![w] = "closing"]
          /\ sent' = {[to |-> w, kind |-> "error", from |-> NoSocket]}
        BY <1>2 DEF ConnectInvalid, ConnectRejected
    <2>2. sent' \in SUBSET Message
        BY <2>1 DEF Message, MessageKind
    <2>3. TypeOK'
        BY <2>1, <2>2 DEF IInv, TypeOK, SocketState
    <2>4. \A v \in Socket : \/ readyState'[v] = readyState[v]
                            \/ readyState[v] = "new" /\ readyState'[v] = "closing"
        BY <2>1 DEF IInv, TypeOK
    <2>5. RegistryConsistent'
        BY <2>1, <2>4 DEF IInv, TypeOK, RegistryConsistent
    <2>6. NoOrphans' /\ NewcomersAreUnknown'
        BY <2>1, <2>4 DEF IInv, NoOrphans, RolesOf, NewcomersAreUnknown
    <2> QED BY <2>3, <2>5, <2>6 DEF IInv
<1>3. ASSUME NEW w \in Socket, NEW id \in SessionId, NEW r \in Role, ConnectAccepted(w, id, r)
      PROVE  IInv'
    <2>1. /\ RegistryConsistent' /\ NoOrphans'
          /\ sessions' \in SUBSET SessionId
          /\ occupant' \in [SessionId -> [Role -> Socket \cup {NoSocket}]]
          /\ sessionBy' \in [Role -> [Socket -> SessionId \cup {NoSession}]]
          /\ idle' \in [SessionId -> 0 .. IdleLimit + 1]
        BY <1>3, PairKeepsRegistry DEF ConnectAccepted
    <2>2. sent' \in SUBSET Message
        <3>1. occupant[id][Other(r)] \in Socket \cup {NoSocket}
            BY DEF IInv, TypeOK
        <3> QED BY <3>1, <1>3, SendToType DEF IInv, ConnectAccepted, MessageKind
    <2>3. TypeOK'
        BY <1>3, <2>1, <2>2 DEF ConnectAccepted, IInv, TypeOK, SocketState
    <2>4. NewcomersAreUnknown'
        BY <1>3 DEF ConnectAccepted, IInv, TypeOK, NewcomersAreUnknown
    <2> QED BY <2>1, <2>3, <2>4 DEF IInv
<1>4. ASSUME NEW w \in Socket, NEW kind \in {"ack", "data"},
             MessageInvalid(w) \/ MessageNotPaired(w) \/ MessageForwarded(w, kind)
      PROVE  IInv'
    <2>1. UNCHANGED <<running, readyState, attached, sessions, occupant, sessionBy, sinceCleanup>>
        BY <1>4 DEF MessageInvalid, MessageNotPaired, MessageForwarded
    <2>2. idle' \in [SessionId -> 0 .. IdleLimit + 1]
        BY <1>4, LimitIsNat
        DEF MessageInvalid, MessageNotPaired, MessageForwarded, IInv, TypeOK
    <2>3. sent' \in SUBSET Message
        <3>1. CASE MessageInvalid(w) \/ MessageNotPaired(w)
            BY <3>1, SendToType DEF MessageInvalid, MessageNotPaired, IInv, MessageKind
        <3>2. CASE MessageForwarded(w, kind)
            <4>1. occupant[sessionBy[RoleOf(w)][w]][Other(RoleOf(w))] \in Socket \cup {NoSocket}
                BY <3>2, RoleOfPaired DEF MessageForwarded, IInv, TypeOK
            <4> QED BY <4>1, <3>2, SendToType DEF MessageForwarded, IInv, MessageKind
        <3> QED BY <1>4, <3>1, <3>2
    <2> QED BY <2>1, <2>2, <2>3
            DEF IInv, TypeOK, RegistryConsistent, NoOrphans, RolesOf, NewcomersAreUnknown
<1>5. ASSUME NEW w \in Socket, PeerCloses(w) \/ CloseUnheard(w)
      PROVE  IInv'
    <2>1. /\ UNCHANGED <<running, attached, sessions, occupant, sessionBy, idle, sinceCleanup>>
          /\ sent' = {}
        BY <1>5 DEF PeerCloses, CloseUnheard
    <2>2. readyState' \in [Socket -> SocketState]
        BY <1>5 DEF PeerCloses, CloseUnheard, IInv, TypeOK, SocketState
    <2>3. \A v \in Socket : \/ readyState'[v] = readyState[v]
                            \/ readyState[v] # "new" /\ readyState'[v] = "ending"
                            \/ ~attached[v] /\ readyState[v] # "new" /\ readyState'[v] = "closed"
        BY <1>5 DEF PeerCloses, CloseUnheard, IInv, TypeOK
    <2>4. TypeOK'
        BY <2>1, <2>2 DEF IInv, TypeOK
    <2>5. RegistryConsistent'
        BY <2>1, <2>3 DEF IInv, TypeOK, RegistryConsistent
    <2>6. NoOrphans' /\ NewcomersAreUnknown'
        BY <2>1, <2>3 DEF IInv, NoOrphans, RolesOf, NewcomersAreUnknown
    <2> QED BY <2>4, <2>5, <2>6 DEF IInv
<1>6. ASSUME NEW w \in Socket, CloseEvent(w)
      PROVE  IInv'
    <2>1. RegistryConsistent' /\ NoOrphans'
        BY <1>6, CloseKeepsRegistry DEF CloseEvent
    <2>2. sent' \in SUBSET Message
        <3>1. CASE RolesOf(w) = {}
            BY <3>1, <1>6 DEF CloseEvent
        <3>2. CASE RolesOf(w) # {}
            <4>1. occupant[sessionBy[RoleOf(w)][w]][Other(RoleOf(w))] \in Socket \cup {NoSocket}
                BY <3>2, RoleOfPaired DEF IInv, TypeOK
            <4>2. sent' = SendTo(occupant[sessionBy[RoleOf(w)][w]][Other(RoleOf(w))],
                                 "disconnect", NoSocket)
                BY <3>2, <1>6 DEF CloseEvent
            <4> QED BY <4>1, <4>2, SendToType DEF IInv, MessageKind
        <3> QED BY <3>1, <3>2
    <2>3. TypeOK'
        BY <1>6, <2>2, RemoveSocketEffect DEF CloseEvent, IInv, TypeOK, SocketState
    <2>4. NewcomersAreUnknown'
        BY <1>6 DEF CloseEvent, IInv, TypeOK, NewcomersAreUnknown
    <2> QED BY <2>1, <2>3, <2>4 DEF IInv
<1>7. CASE Tick
    <2>1. idle' \in [SessionId -> 0 .. IdleLimit + 1]
        BY <1>7, LimitIsNat DEF Tick, IInv, TypeOK
    <2>2. sinceCleanup' \in 0 .. HeartbeatInterval
        BY <1>7, ConfigAssumption DEF Tick, IInv, TypeOK
    <2> QED BY <1>7, <2>1, <2>2
            DEF Tick, IInv, TypeOK, RegistryConsistent, NoOrphans, RolesOf, NewcomersAreUnknown
<1>8. CASE Cleanup
    <2>1. PICK ids \in SUBSET SessionId : CloseSessions(ids)
        BY <1>8 DEF Cleanup, IInv, TypeOK
    <2> QED BY <1>8, <2>1, CloseSessionsKeepsRegistry, ConfigAssumption DEF Cleanup, IInv, TypeOK
<1>9. CASE Shutdown
    <2>1. sessions \in SUBSET SessionId
        BY DEF IInv, TypeOK
    <2> QED BY <1>9, <2>1, CloseSessionsKeepsRegistry DEF Shutdown, IInv, TypeOK
<1>10. ASSUME NEW w \in Socket, Connect(w) PROVE IInv'
    BY <1>10, <1>2, <1>3 DEF Connect
<1>11. ASSUME NEW w \in Socket, Receive(w) PROVE IInv'
    BY <1>11, <1>4 DEF Receive
<1>12. ASSUME NEW w \in Socket, PeerCloses(w) \/ Closed(w) PROVE IInv'
    BY <1>12, <1>5, <1>6 DEF Closed
<1> QED
    BY <1>1, <1>7, <1>8, <1>9, <1>10, <1>11, <1>12 DEF Next

LEMMA SpecIInv == Spec => []IInv
BY InitIInv, NextIInv, PTL DEF Spec

\* Every variable keeps its type.
THEOREM TypeCorrect == Spec => []TypeOK
BY SpecIInv, PTL DEF IInv

\* The WeakMaps and the slots of the sessions never disagree.
THEOREM RegistryStaysConsistent == Spec => []RegistryConsistent
BY SpecIInv, PTL DEF IInv

\* Every open connection is one that shutdown and cleanup can reach.
THEOREM NoConnectionIsOrphaned == Spec => []NoOrphans
BY SpecIInv, PTL DEF IInv

\* A slot of a session that lives on is given up only by the close event of
\* the connection in it.
THEOREM SlotsStayHeld == Spec => SlotsAreHeldUntilClosed
<1> DEFINE Held == \A id \in sessions \cap sessions', r \in Role :
          occupant[id][r] # NoSocket /\ occupant'[id][r] # occupant[id][r] =>
              /\ readyState[occupant[id][r]] # "closed"
              /\ readyState'[occupant[id][r]] = "closed"
              /\ occupant'[id][r] = NoSocket
<1>1. IInv /\ [Next]_vars => Held
    <2> SUFFICES ASSUME IInv, [Next]_vars,
                        NEW id \in sessions \cap sessions', NEW r \in Role,
                        occupant[id][r] # NoSocket, occupant'[id][r] # occupant[id][r]
                 PROVE  /\ readyState[occupant[id][r]] # "closed"
                        /\ readyState'[occupant[id][r]] = "closed"
                        /\ occupant'[id][r] = NoSocket
        OBVIOUS
    <2> id \in SessionId
        BY DEF IInv, TypeOK
    <2>1. ASSUME NEW w \in Socket, NEW i \in SessionId, NEW q \in Role, ConnectAccepted(w, i, q)
          PROVE  FALSE
        BY <2>1 DEF ConnectAccepted, Pair, IInv, TypeOK
    <2>2. ASSUME NEW w \in Socket, CloseEvent(w)
          PROVE  /\ readyState[occupant[id][r]] # "closed"
                 /\ readyState'[occupant[id][r]] = "closed"
                 /\ occupant'[id][r] = NoSocket
        <3>1. occupant[id][r] = w /\ occupant'[id][r] = NoSocket
            BY <2>2, RemoveSocketEffect DEF CloseEvent
        <3> QED BY <3>1, <2>2 DEF CloseEvent, IInv, TypeOK
    <2>3. ASSUME NEW ids \in SUBSET SessionId, CloseSessions(ids)
          PROVE  FALSE
        BY <2>3 DEF CloseSessions
    <2>4. Cleanup \/ Shutdown => \E ids \in SUBSET SessionId : CloseSessions(ids)
        BY DEF Cleanup, Shutdown, IInv, TypeOK
    <2>5. occupant' # occupant
        OBVIOUS
    <2> QED BY <2>1, <2>2, <2>3, <2>4, <2>5
            DEF Next, Connect, Receive, Closed, vars, ConnectInvalid, ConnectRejected,
                MessageInvalid, MessageNotPaired, MessageForwarded, PeerCloses, CloseUnheard, Tick
<1> QED BY <1>1, SpecIInv, PTL DEF Spec, SlotsAreHeldUntilClosed

\* A forwarded message goes from the holder of one slot to the open holder of
\* the other slot of its session, and every other step writes nothing that has
\* a sender.
LEMMA WhatIsPassedOn ==
    ASSUME IInv, Next, NEW m \in sent', m.from # NoSocket
    PROVE  \E w \in Socket, kind \in {"ack", "data"} :
              /\ MessageForwarded(w, kind) /\ m.from = w
              /\ m.to = occupant[sessionBy[RoleOf(w)][w]][Other(RoleOf(w))]
              /\ m.to \in Socket /\ readyState[m.to] = "open"
              /\ sent' = {m}
<1> USE Roles
<1>1. ASSUME NEW to \in Socket \cup {NoSocket}, NEW kind \in MessageKind,
             sent' = SendTo(to, kind, NoSocket)
      PROVE  FALSE
    BY <1>1, SendToType DEF IInv
<1>2. ASSUME NEW w \in Socket, Connect(w) PROVE FALSE
    <2>1. CASE ConnectInvalid(w) \/ \E id \in SessionId, r \in Role : ConnectRejected(w, id, r)
        BY <2>1 DEF ConnectInvalid, ConnectRejected
    <2>2. ASSUME NEW id \in SessionId, NEW r \in Role, ConnectAccepted(w, id, r) PROVE FALSE
        <3>1. occupant[id][Other(r)] \in Socket \cup {NoSocket}
            BY DEF IInv, TypeOK
        <3> QED BY <3>1, <2>2, <1>1 DEF ConnectAccepted, MessageKind
    <2> QED BY <1>2, <2>1, <2>2 DEF Connect
<1>3. ASSUME NEW w \in Socket, CloseEvent(w) PROVE FALSE
    <2>1. CASE RolesOf(w) # {}
        <3>1. occupant[sessionBy[RoleOf(w)][w]][Other(RoleOf(w))] \in Socket \cup {NoSocket}
            BY <2>1, RoleOfPaired DEF IInv, TypeOK
        <3>2. sent' = SendTo(occupant[sessionBy[RoleOf(w)][w]][Other(RoleOf(w))],
                             "disconnect", NoSocket)
            BY <2>1, <1>3 DEF CloseEvent
        <3> QED BY <3>1, <3>2, <1>1 DEF MessageKind
    <2> QED BY <2>1, <1>3 DEF CloseEvent
<1>4. ASSUME NEW w \in Socket, MessageInvalid(w) \/ MessageNotPaired(w) PROVE FALSE
    BY <1>4, <1>1 DEF MessageInvalid, MessageNotPaired, MessageKind
<1>5. ASSUME NEW w \in Socket, PeerCloses(w) \/ CloseUnheard(w) PROVE FALSE
    BY <1>5 DEF PeerCloses, CloseUnheard
<1>6. CASE Tick \/ Cleanup \/ Shutdown
    BY <1>6 DEF Tick, Cleanup, Shutdown
<1>7. PICK w \in Socket, kind \in {"ack", "data"} : MessageForwarded(w, kind)
    BY <1>2, <1>3, <1>4, <1>5, <1>6 DEF Next, Receive, Closed
<1>8. occupant[sessionBy[RoleOf(w)][w]][Other(RoleOf(w))] \in Socket \cup {NoSocket}
    BY <1>7, RoleOfPaired DEF MessageForwarded, IInv, TypeOK
<1>9. sent' = SendTo(occupant[sessionBy[RoleOf(w)][w]][Other(RoleOf(w))], kind, w)
    BY <1>7 DEF MessageForwarded
<1>10. /\ m.to = occupant[sessionBy[RoleOf(w)][w]][Other(RoleOf(w))] /\ m.from = w
       /\ m.to # NoSocket /\ readyState[m.to] = "open"
    BY <1>8, <1>9, SendToType DEF IInv, MessageKind
<1>11. sent' = {m}
    BY <1>9 DEF SendTo
<1> QED BY <1>7, <1>8, <1>10, <1>11

\* A connection is heard only by the partner it has at that moment.
THEOREM PartnersOnly == Spec => OnlyPartnersAreHeard
<1> DEFINE Heard == \A m \in sent' : m.from # NoSocket =>
          \E id \in sessions, r \in Role :
              /\ occupant[id][r] = m.from
              /\ occupant[id][Other(r)] = m.to
              /\ readyState[m.to] = "open"
<1>1. IInv /\ Next => Heard
    <2> SUFFICES ASSUME IInv, Next, NEW m \in sent', m.from # NoSocket
                 PROVE  \E id \in sessions, r \in Role :
                            /\ occupant[id][r] = m.from
                            /\ occupant[id][Other(r)] = m.to
                            /\ readyState[m.to] = "open"
        OBVIOUS
    <2>1. PICK w \in Socket, kind \in {"ack", "data"} :
              /\ MessageForwarded(w, kind) /\ m.from = w
              /\ m.to = occupant[sessionBy[RoleOf(w)][w]][Other(RoleOf(w))]
              /\ readyState[m.to] = "open"
        BY WhatIsPassedOn
    <2>2. /\ RoleOf(w) \in Role /\ sessionBy[RoleOf(w)][w] \in sessions
          /\ occupant[sessionBy[RoleOf(w)][w]][RoleOf(w)] = w
        BY <2>1, RoleOfPaired DEF MessageForwarded, IInv
    <2> QED BY <2>1, <2>2
<1>2. IInv /\ [Next]_vars => [Heard]_vars
    BY <1>1
<1> QED BY <1>2, SpecIInv, PTL DEF Spec, OnlyPartnersAreHeard

\* Every step of the relay is a step of the promise, or changes nothing in it.
LEMMA StepKeepsPromise ==
    IInv /\ [Next]_vars =>
        [Promise!Next]_<<occupant, {w \in Socket : attached[w]},
                         {<<m.from, m.to>> : m \in {n \in sent : n.from # NoSocket}}>>
<1> DEFINE seated == {w \in Socket : attached[w]}
           heard == {<<m.from, m.to>> : m \in {n \in sent : n.from # NoSocket}}
<1> SUFFICES ASSUME IInv, [Next]_vars PROVE [Promise!Next]_<<occupant, seated, heard>>
    OBVIOUS
<1> USE Roles
<1>1. CASE UNCHANGED vars
    BY <1>1 DEF vars
<1>2. ASSUME Next, \A w \in Socket, kind \in {"ack", "data"} : ~MessageForwarded(w, kind)
      PROVE  heard' = {}
    <2>1. \A m \in sent' : m.from = NoSocket
        BY <1>2, WhatIsPassedOn
    <2> QED BY <2>1
<1>3. ASSUME NEW w \in Socket, NEW id \in SessionId, NEW r \in Role, ConnectAccepted(w, id, r)
      PROVE  Promise!Next
    <2>1. w \notin seated
        BY <1>3 DEF ConnectAccepted, IInv, NewcomersAreUnknown
    <2>2. occupant' = [occupant EXCEPT ![id][r] = w]
        BY <1>3 DEF ConnectAccepted, Pair
    <2>3. seated' = seated \cup {w}
        BY <1>3 DEF ConnectAccepted, IInv, TypeOK
    <2>4. heard' = {}
        <3>1. occupant[id][Other(r)] \in Socket \cup {NoSocket}
            BY DEF IInv, TypeOK
        <3>2. \A m \in sent' : m.from = NoSocket
            BY <3>1, <1>3, SendToType DEF ConnectAccepted, IInv, MessageKind
        <3> QED BY <3>2
    <2>5. Promise!Join(w, id, r)
        BY <2>1, <2>2, <2>3, <2>4, <1>3 DEF Promise!Join, ConnectAccepted
    <2> QED BY <2>5 DEF Promise!Next, Promise!Role, Role
<1>4. ASSUME NEW w \in Socket, NEW kind \in {"ack", "data"}, MessageForwarded(w, kind)
      PROVE  Promise!Next
    <2> DEFINE r == RoleOf(w)
               id == sessionBy[r][w]
               partner == occupant[id][Other(r)]
    <2>1. r \in Role /\ id \in SessionId /\ occupant[id][r] = w
        BY <1>4, RoleOfPaired DEF MessageForwarded, IInv
    <2>2. UNCHANGED <<occupant, seated>> /\ sent' = SendTo(partner, kind, w)
        BY <1>4 DEF MessageForwarded
    <2>3. CASE sent' = {}
        <3>1. heard' = {}
            BY <2>3
        <3> QED BY <2>2, <3>1 DEF Promise!Next, Promise!Quiet
    <2>4. CASE sent' # {}
        <3>1. sent' = {[to |-> partner, kind |-> kind, from |-> w]} /\ partner # NoSocket
            BY <2>2, <2>4 DEF SendTo
        <3>2. partner \in Socket
            BY <2>1, <3>1 DEF IInv, TypeOK
        <3>3. heard' = {<<w, partner>>}
            <4>1. {n \in sent' : n.from # NoSocket} = sent'
                BY <3>1, SentinelsAssumption
            <4>2. heard' = {<<m.from, m.to>> : m \in sent'}
                BY <4>1
            <4>3. {<<m.from, m.to>> : m \in sent'} = {<<w, partner>>}
                <5> HIDE DEF partner
                <5> QED BY <3>1
            <4> QED BY <4>2, <4>3
        <3>4. Promise!Partners(w, partner)
            BY <2>1 DEF Promise!Partners, Promise!Role, Role
        <3> QED BY <2>2, <3>2, <3>3, <3>4 DEF Promise!Next, Promise!Say
    <2> QED BY <2>3, <2>4
<1>5. ASSUME NEW w \in Socket, CloseEvent(w), heard' = {}
      PROVE  Promise!Next
    <2>1. UNCHANGED seated
        BY <1>5 DEF CloseEvent
    <2>2. CASE RolesOf(w) = {}
        BY <1>5, <2>1, <2>2 DEF CloseEvent, RemoveSocket, Promise!Next, Promise!Quiet
    <2>3. CASE RolesOf(w) # {}
        <3>1. RoleOf(w) \in Role /\ sessionBy[RoleOf(w)][w] \in SessionId
            BY <2>3, RoleOfPaired DEF IInv
        <3>2. occupant' = [occupant EXCEPT ![sessionBy[RoleOf(w)][w]][RoleOf(w)] = NoSocket]
            BY <1>5, <2>3 DEF CloseEvent, RemoveSocket
        <3> QED BY <1>5, <2>1, <3>1, <3>2
                DEF Promise!Next, Promise!Leave, Promise!Role, Role
    <2> QED BY <2>2, <2>3
<1>6. ASSUME Cleanup \/ Shutdown, heard' = {}
      PROVE  Promise!Next
    <2>1. PICK ids \in SUBSET SessionId : CloseSessions(ids)
        BY <1>6 DEF Cleanup, Shutdown, IInv, TypeOK
    <2>2. occupant' = [id \in SessionId |-> IF id \in ids THEN EmptySlots ELSE occupant[id]]
        BY <2>1 DEF CloseSessions
    <2>3. UNCHANGED seated
        BY <1>6 DEF Cleanup, Shutdown
    <2>4. Promise!Dissolve(ids)
        BY <1>6, <2>2, <2>3 DEF Promise!Dissolve, Promise!Nobody, Promise!Role, EmptySlots, Role
    <2> QED BY <2>4 DEF Promise!Next
<1>7. ASSUME UNCHANGED <<occupant, attached>>, heard' = {}
      PROVE  Promise!Next
    BY <1>7 DEF Promise!Next, Promise!Quiet
<1>8. CASE Next
    <2>1. CASE \E w \in Socket, kind \in {"ack", "data"} : MessageForwarded(w, kind)
        BY <2>1, <1>4
    <2>2. CASE ~ \E w \in Socket, kind \in {"ack", "data"} : MessageForwarded(w, kind)
        <3>1. heard' = {}
            BY <1>8, <2>2, <1>2
        <3>2. \/ \E w \in Socket, id \in SessionId, r \in Role : ConnectAccepted(w, id, r)
              \/ \E w \in Socket : CloseEvent(w)
              \/ Cleanup \/ Shutdown
              \/ UNCHANGED <<occupant, attached>>
            BY <1>8, <2>2
            DEF Next, Connect, Receive, Closed, ConnectInvalid, ConnectRejected, MessageInvalid,
                MessageNotPaired, PeerCloses, CloseUnheard, Tick
        <3> QED BY <3>1, <3>2, <1>3, <1>5, <1>6, <1>7
    <2> QED BY <2>1, <2>2
<1> QED BY <1>1, <1>8

\* The relay implements the abstract rendezvous.
THEOREM RelayKeepsPromise == Spec => KeepsPromise
<1>1. Init => Promise!Init
    BY DEF Init, Promise!Init, Promise!Nobody, Promise!Role, Role, EmptySlots
<1> QED BY <1>1, StepKeepsPromise, SpecIInv, PTL DEF Spec, KeepsPromise, Promise!Spec

=============================================================================
