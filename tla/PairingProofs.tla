---------------------------- MODULE PairingProofs -----------------------------
(***************************************************************************)
(* Theorems about MobileSession, for any number of calls of pair(),        *)
(* connections, and storage operations under way, and about Pairing, for   *)
(* any number of losses of the bridge's connection as well.                *)
(***************************************************************************)
EXTENDS Pairing, SequenceTheorems, TLAPS

-----------------------------------------------------------------------------
(* The app by itself.                                                      *)

\* What the client believes agrees with its connection.
ClientInv ==
    /\ conn # None => ready[conn] \in {"connecting", "open", "ending"}
    /\ OneConnection

\* A pair() that listens to the client is the one whose session is held, and
\* both kinds of wait know where the launch is.
WaiterInv ==
    /\ waiter \in Attempt => snapshot = waiter /\ restoring = "done"
    /\ waiter = "restore" => restoring = "waiting"
    /\ restoring = "waiting" => snapshot # None
    /\ restoring = "loading" => storage = <<>> /\ snapshot = None
    /\ restoring = "clearing" => storage # <<>>

\* What SecureStore will hold when the operations under way have ended.
LastWrite == IF storage = <<>> THEN persisted ELSE storage[Len(storage)]

\* A session that was disconnected, or could not be read, is going to be
\* forgotten, unless SecureStore has refused.
StorageInv ==
    restoring \in {"clearing", "done"} /\ snapshot = None =>
        LastWrite = None \/ (storage = <<>> /\ refused)

IInv == TypeOK /\ ClientInv /\ ConnectedIsOpen /\ WaiterInv /\ StorageInv

-----------------------------------------------------------------------------
(* Facts about the parts of the model.                                     *)

LEMMA AfterCloseType ==
    ASSUME ClientTypeOK, NEW c \in Conn
    PROVE  /\ AfterClose(c) \in ReadyState
           /\ AfterClose(c) \in {"connecting", "open"} => c # conn /\ AfterClose(c) = ready[c]
  BY DEF AfterClose, ClientTypeOK, ReadyState

\* attachClient() leaves one connection, the one it makes.
LEMMA AttachEffect ==
    ASSUME ClientTypeOK, ClientInv, Attach
    PROVE  /\ ClientTypeOK' /\ ClientInv'
           /\ status' = "connecting"
  <1>1. PICK c \in Conn :
            /\ ready[c] = "free" /\ conn' = c
            /\ ready' = [d \in Conn |-> IF d = c THEN "connecting" ELSE AfterClose(d)]
    BY DEF Attach
  <1>2. ClientTypeOK'
    BY <1>1, AfterCloseType DEF Attach, ClientTypeOK, Status, ReadyState
  <1>3. ClientInv'
    <2>1. \A d \in Conn : ready'[d] \in {"connecting", "open"} => d = c
      BY <1>1, AfterCloseType DEF ClientInv, OneConnection
    <2>2. ready'[c] = "connecting"
      BY <1>1
    <2> QED
      BY <1>1, <2>1, <2>2 DEF Attach, ClientInv, OneConnection
  <1> QED
    BY <1>2, <1>3 DEF Attach

\* The oldest of several operations ends: the last one stays the last, and a
\* delete among the others is still under way.
LEMMA TailFacts ==
    ASSUME NEW S, NEW s \in Seq(S), s # <<>>
    PROVE  /\ Head(s) \in S /\ Tail(s) \in Seq(S)
           /\ Tail(s) = <<>> => s[Len(s)] = Head(s)
           /\ Tail(s) # <<>> => Tail(s)[Len(Tail(s))] = s[Len(s)]
           /\ \A i \in 1 .. Len(s) : i # 1 =>
                i - 1 \in 1 .. Len(Tail(s)) /\ Tail(s)[i - 1] = s[i]
  <1>1. /\ Head(s) \in S /\ Tail(s) \in Seq(S)
        /\ Len(Tail(s)) = Len(s) - 1
        /\ \A i \in 1 .. Len(Tail(s)) : Tail(s)[i] = s[i + 1]
    BY HeadTailProperties
  <1>2. Len(s) \in Nat \ {0} /\ Len(Tail(s)) \in Nat
    BY <1>1, EmptySeq, LenProperties
  <1>3. Tail(s) = <<>> => s[Len(s)] = Head(s)
    <2>0. Len(<<>>) = 0
      BY EmptySeq
    <2>1. Tail(s) = <<>> => Len(s) = 1
      <3> SUFFICES ASSUME Tail(s) = <<>> PROVE Len(s) = 1
        OBVIOUS
      <3>1. Len(Tail(s)) = 0
        BY <2>0
      <3>2. Len(s) - 1 = 0 /\ Len(s) \in Nat
        BY <3>1, <1>1, <1>2
      <3> QED
        BY <3>2
    <2>2. Head(s) = s[1]
      OBVIOUS
    <2> QED
      BY <2>1, <2>2
  <1>4. Tail(s) # <<>> => Len(Tail(s)) \in Nat \ {0}
    BY <1>1, EmptySeq
  <1> QED
    BY <1>1, <1>2, <1>3, <1>4

\* What is written last is what will be held, and nothing under way is dropped.
LEMMA AppendFacts ==
    ASSUME NEW S, NEW s \in Seq(S), NEW x \in S
    PROVE  /\ Append(s, x) \in Seq(S)
           /\ Append(s, x) # <<>>
           /\ Append(s, x)[Len(Append(s, x))] = x
           /\ Len(Append(s, x)) \in 1 .. Len(Append(s, x))
           /\ \A i \in 1 .. Len(s) : i \in 1 .. Len(Append(s, x)) /\ Append(s, x)[i] = s[i]
  BY AppendProperties, LenProperties

-----------------------------------------------------------------------------
(* Type correctness.                                                       *)

LEMMA TypeInit == Init => TypeOK
  BY EmptySeq DEF Init, TypeOK, StoreTypeOK, ClientTypeOK, CallTypeOK, Status, ReadyState, CallState

LEMMA TypeStep == TypeOK /\ ClientInv /\ [Next]_mobileVars => TypeOK'
  <1> SUFFICES ASSUME TypeOK, ClientInv, [Next]_mobileVars
               PROVE  StoreTypeOK' /\ ClientTypeOK' /\ CallTypeOK'
    BY DEF TypeOK
  <1> USE DEF TypeOK, StoreTypeOK, ClientTypeOK, CallTypeOK, Status, ReadyState, CallState
  <1>1. ASSUME NEW c \in Conn, Opened(c)
        PROVE  StoreTypeOK' /\ ClientTypeOK' /\ CallTypeOK'
    <2>1. waiter \in Attempt => Append(storage, waiter) \in Seq(Attempt \cup {None})
      BY AppendFacts
    <2> QED
      BY <1>1, <2>1 DEF Opened
  <1>2. ASSUME NEW c \in Conn, Lost(c) \/ Closed(c) \/ PairReady(c) \/ PeerDisconnected(c) \/ ErrorHeard(c)
        PROVE  StoreTypeOK' /\ ClientTypeOK' /\ CallTypeOK'
    <2>1. CallTypeOK'
      <3>1. UNCHANGED <<callVars, diskVars>>
        BY <1>2 DEF Lost, Closed, PairReady, PeerDisconnected, ErrorHeard
      <3> QED
        BY <3>1 DEF callVars, diskVars
    <2>2. CASE Lost(c)
      BY <2>1, <2>2 DEF Lost, storeVars
    <2>3. CASE Closed(c)
      BY <2>1, <2>3 DEF Closed
    <2>4. CASE PairReady(c) \/ PeerDisconnected(c) \/ ErrorHeard(c)
      BY <2>1, <2>4 DEF PairReady, PeerDisconnected, ErrorHeard, clientVars
    <2> QED
      BY <1>2, <2>2, <2>3, <2>4
  <1>3. ASSUME NEW a \in Attempt, Pair(a)
        PROVE  StoreTypeOK' /\ ClientTypeOK' /\ CallTypeOK'
    <2>1. ClientTypeOK' /\ status' = "connecting"
      BY <1>3, AttachEffect DEF Pair
    <2> QED
      BY <1>3, <2>1 DEF Pair, diskVars
  <1>4. ASSUME NEW a \in Attempt, WaitTimesOut(a)
        PROVE  StoreTypeOK' /\ ClientTypeOK' /\ CallTypeOK'
    BY <1>4 DEF WaitTimesOut, storeVars, clientVars, diskVars
  <1>5. CASE RetryFires \/ RestoreTimesOut
    BY <1>5 DEF RetryFires, RestoreTimesOut, clientVars, callVars, diskVars
  <1>6. CASE Restore
    <2>1. CASE persisted = None
      BY <1>6, <2>1 DEF Restore, storeVars, clientVars, diskVars
    <2>2. CASE persisted # None
      <3>1. ClientTypeOK' /\ status' = "connecting"
        BY <1>6, <2>2, AttachEffect DEF Restore
      <3> QED
        BY <1>6, <2>2, <3>1 DEF Restore, diskVars
    <2> QED
      BY <2>1, <2>2
  <1>7. CASE Disconnect
    <2>1. \A c \in Conn : AfterClose(c) \in ReadyState
      BY AfterCloseType
    <2>2. Append(storage, None) \in Seq(Attempt \cup {None})
      BY AppendFacts
    <2> QED
      BY <1>7, <2>1, <2>2 DEF Disconnect, storeVars
  <1>8. CASE Stored \/ StorageRejected
    <2>1. Head(storage) \in Attempt \cup {None} /\ Tail(storage) \in Seq(Attempt \cup {None})
      BY <1>8, TailFacts DEF Stored, StorageRejected
    <2>2. CASE Stored
      BY <2>1, <2>2 DEF Stored, Cleared, clientVars, storeVars
    <2>3. CASE StorageRejected
      <3>1. /\ UNCHANGED <<storeVars, clientVars, snapshot, waiter, persisted>>
            /\ storage' = Tail(storage) /\ restoring' = Cleared
        BY <2>3 DEF StorageRejected
      <3>2. StoreTypeOK' /\ ClientTypeOK'
        BY <3>1 DEF storeVars, clientVars
      <3>3. call' \in [Attempt -> CallState] /\ refused' \in BOOLEAN
        <4>1. CASE Head(storage) = None
          BY <2>3, <4>1 DEF StorageRejected
        <4>2. CASE Head(storage) # None
          BY <2>1, <2>3, <4>2 DEF StorageRejected
        <4> QED
          BY <4>1, <4>2
      <3>4. CallTypeOK'
        BY <2>1, <3>1, <3>3 DEF Cleared
      <3> QED
        BY <3>2, <3>4
    <2> QED
      BY <1>8, <2>2, <2>3
  <1>9. CASE Relaunch
    <2>1. <<>> \in Seq(Attempt \cup {None})
      BY EmptySeq
    <2> QED
      BY <1>9, <2>1 DEF Relaunch
  <1>10. CASE UNCHANGED mobileVars
    BY <1>10 DEF mobileVars, storeVars, clientVars, callVars, diskVars
  <1>11. CASE LoadRejected
    BY <1>11 DEF LoadRejected, storeVars, clientVars
  <1>12. CASE LoadUnreadable
    <2>1. Append(storage, None) \in Seq(Attempt \cup {None})
      BY AppendFacts
    <2> QED
      BY <1>12, <2>1 DEF LoadUnreadable, storeVars, clientVars
  <1> QED
    BY <1>1, <1>2, <1>3, <1>4, <1>5, <1>6, <1>7, <1>8, <1>9, <1>10, <1>11, <1>12 DEF Next

-----------------------------------------------------------------------------
(* The client and the status it is shown with.                             *)

LEMMA ClientStep == TypeOK /\ ClientInv /\ [Next]_mobileVars => ClientInv'
  <1> SUFFICES ASSUME TypeOK, ClientInv, [Next]_mobileVars
               PROVE  ClientInv'
    OBVIOUS
  <1> USE DEF ClientInv, OneConnection
  <1>0. ClientTypeOK
    BY DEF TypeOK
  <1>1. ASSUME NEW c \in Conn, Opened(c) \/ Lost(c) \/ Closed(c)
        PROVE  ClientInv'
    BY <1>0, <1>1, MobileAssumption DEF Opened, Lost, Closed, ClientTypeOK
  <1>2. CASE RetryFires
    BY <1>0, <1>2, MobileAssumption DEF RetryFires, ClientTypeOK
  <1>3. CASE \E a \in Attempt : Pair(a)
    BY <1>0, <1>3, AttachEffect DEF Pair
  <1>4. CASE Restore
    BY <1>0, <1>4, AttachEffect DEF Restore, clientVars
  <1>5. CASE Disconnect
    <2>1. \A c \in Conn : AfterClose(c) \in {"connecting", "open"} => FALSE
      BY <1>0, AfterCloseType
    <2> QED
      BY <1>5, <2>1 DEF Disconnect
  <1>6. CASE Relaunch
    BY <1>6 DEF Relaunch
  <1>7. CASE UNCHANGED clientVars
    BY <1>7 DEF clientVars
  <1> QED
    BY <1>1, <1>2, <1>3, <1>4, <1>5, <1>6, <1>7
    DEF Next, PairReady, PeerDisconnected, ErrorHeard, WaitTimesOut, RestoreTimesOut, LoadRejected,
        LoadUnreadable, Stored, StorageRejected, mobileVars

LEMMA ShownStep ==
    TypeOK /\ ClientInv /\ WaiterInv /\ ConnectedIsOpen /\ [Next]_mobileVars => ConnectedIsOpen'
  <1> SUFFICES ASSUME TypeOK, ClientInv, WaiterInv, ConnectedIsOpen, [Next]_mobileVars
               PROVE  ConnectedIsOpen'
    OBVIOUS
  <1> USE DEF ConnectedIsOpen, Shown
  <1>0. ClientTypeOK /\ storage \in Seq(Attempt \cup {None})
    BY DEF TypeOK, CallTypeOK
  <1>1. ASSUME NEW c \in Conn, Opened(c)
        PROVE  ConnectedIsOpen'
    <2>1. conn = c /\ conn' = c /\ ready'[c] = "open"
      BY <1>0, <1>1 DEF Opened, ClientInv, OneConnection, ClientTypeOK
    <2> QED
      BY <2>1, MobileAssumption
  <1>2. ASSUME NEW c \in Conn, Lost(c)
        PROVE  ConnectedIsOpen'
    BY <1>0, <1>2 DEF Lost, ClientTypeOK, storeVars, callVars, diskVars, Forgetting
  <1>3. ASSUME NEW c \in Conn, Closed(c)
        PROVE  ConnectedIsOpen'
    BY <1>0, <1>3 DEF Closed, ClientTypeOK, callVars, diskVars, Forgetting
  <1>4. ASSUME NEW c \in Conn, PairReady(c) \/ PeerDisconnected(c) \/ ErrorHeard(c)
        PROVE  ConnectedIsOpen'
    <2>1. conn = c /\ conn' = c /\ ready' = ready /\ ready[c] = "open"
      BY <1>4 DEF PairReady, PeerDisconnected, ErrorHeard, Hears, clientVars
    <2> QED
      BY <2>1, MobileAssumption
  <1>5. CASE RetryFires
    BY <1>5 DEF RetryFires
  <1>6. ASSUME NEW a \in Attempt, Pair(a)
        PROVE  ConnectedIsOpen'
    BY <1>6 DEF Pair, Attach
  <1>7. CASE Restore
    <2>1. CASE persisted = None
      <3>1. UNCHANGED <<Shown, conn, ready, storage, refused>> /\ snapshot' = None
        BY <1>7, <2>1 DEF Restore, storeVars, clientVars, diskVars
      <3> QED
        BY <3>1 DEF Forgetting
    <2>2. CASE persisted # None
      BY <1>7, <2>2 DEF Restore, Attach
    <2> QED
      BY <2>1, <2>2
  <1>8. CASE RestoreTimesOut \/ Relaunch
    BY <1>8 DEF RestoreTimesOut, Relaunch
  <1>9. CASE LoadRejected
    BY <1>9 DEF LoadRejected, WaiterInv, storeVars, clientVars
  <1>10. ASSUME storage' = Append(storage, None), snapshot' = None
         PROVE  ConnectedIsOpen'
    <2>1. Forgetting'
      BY <1>0, <1>10, AppendFacts DEF Forgetting
    <2> QED
      BY <1>10, <2>1
  <1>11. CASE Disconnect \/ LoadUnreadable
    BY <1>10, <1>11 DEF Disconnect, LoadUnreadable, WaiterInv
  <1>12. CASE Stored \/ StorageRejected
    <2>1. UNCHANGED <<conn, ready, snapshot>> /\ storage # <<>> /\ storage' = Tail(storage)
      BY <1>12 DEF Stored, StorageRejected, clientVars
    <2>2. CASE Head(storage) = None
      <3>1. CASE Stored
        BY <2>2, <3>1 DEF Stored
      <3>2. CASE StorageRejected
        <4>1. refused' = (snapshot' = None) /\ UNCHANGED Shown
          BY <2>1, <2>2, <3>2 DEF StorageRejected, storeVars
        <4> QED
          BY <2>1, <4>1
      <3> QED
        BY <1>12, <3>1, <3>2
    <2>3. CASE Head(storage) # None
      <3>1. UNCHANGED <<Shown, refused>>
        BY <1>12, <2>3 DEF Stored, StorageRejected, storeVars
      <3>2. Forgetting => Forgetting'
        BY <1>0, <2>1, <2>3, TailFacts DEF Forgetting
      <3> QED
        BY <2>1, <3>1, <3>2
    <2> QED
      BY <2>2, <2>3
  <1>13. CASE UNCHANGED <<storeVars, clientVars, snapshot, diskVars>>
    BY <1>13 DEF storeVars, clientVars, diskVars, Forgetting
  <1> QED
    BY <1>1, <1>2, <1>3, <1>4, <1>5, <1>6, <1>7, <1>8, <1>9, <1>11, <1>12, <1>13
    DEF Next, WaitTimesOut, mobileVars, callVars

-----------------------------------------------------------------------------
(* What the next launch restores.                                          *)

LEMMA WaiterStep == TypeOK /\ WaiterInv /\ [Next]_mobileVars => WaiterInv'
  <1> SUFFICES ASSUME TypeOK, WaiterInv, [Next]_mobileVars
               PROVE  WaiterInv'
    OBVIOUS
  <1> USE MobileAssumption DEF WaiterInv
  <1>0. storage \in Seq(Attempt \cup {None})
    BY DEF TypeOK, CallTypeOK
  <1>1. ASSUME NEW c \in Conn, Opened(c)
        PROVE  WaiterInv'
    BY <1>1 DEF Opened
  <1>2. ASSUME NEW c \in Conn, Lost(c) \/ Closed(c) \/ PairReady(c) \/ PeerDisconnected(c) \/ ErrorHeard(c)
        PROVE  WaiterInv'
    BY <1>2 DEF Lost, Closed, PairReady, PeerDisconnected, ErrorHeard, callVars, diskVars
  <1>3. ASSUME NEW a \in Attempt, Pair(a) \/ WaitTimesOut(a)
        PROVE  WaiterInv'
    BY <1>3 DEF Pair, WaitTimesOut, diskVars
  <1>4. CASE Restore \/ LoadRejected
    BY <1>4 DEF Restore, LoadRejected, diskVars
  <1>5. CASE RetryFires \/ RestoreTimesOut \/ Disconnect \/ Relaunch
    BY <1>5 DEF RetryFires, RestoreTimesOut, Disconnect, Relaunch, callVars, diskVars
  <1>6. CASE Stored \/ StorageRejected
    <2>1. restoring # "loading"
      BY <1>6 DEF Stored, StorageRejected
    <2>2. /\ UNCHANGED <<waiter, snapshot>>
          /\ restoring' = IF restoring = "clearing" THEN "done" ELSE restoring
      BY <1>6 DEF Stored, StorageRejected, Cleared
    <2> QED
      BY <2>1, <2>2
  <1>7. CASE LoadUnreadable
    <2>1. storage' # <<>>
      BY <1>0, <1>7, AppendFacts DEF LoadUnreadable
    <2> QED
      BY <1>7, <2>1 DEF LoadUnreadable
  <1>8. CASE UNCHANGED mobileVars
    BY <1>8 DEF mobileVars, callVars, diskVars
  <1> QED
    BY <1>1, <1>2, <1>3, <1>4, <1>5, <1>6, <1>7, <1>8 DEF Next

LEMMA StorageStep ==
    TypeOK /\ WaiterInv /\ StorageInv /\ [Next]_mobileVars => StorageInv'
  <1> SUFFICES ASSUME TypeOK, WaiterInv, StorageInv, [Next]_mobileVars
               PROVE  StorageInv'
    OBVIOUS
  <1> USE MobileAssumption DEF StorageInv
  <1>0. storage \in Seq(Attempt \cup {None})
    BY DEF TypeOK, CallTypeOK
  <1>1. ASSUME NEW c \in Conn, Opened(c)
        PROVE  StorageInv'
    BY <1>1 DEF Opened, WaiterInv, LastWrite
  <1>2. ASSUME NEW a \in Attempt, Pair(a)
        PROVE  StorageInv'
    BY <1>2 DEF Pair
  <1>3. CASE Restore
    BY <1>3 DEF Restore, WaiterInv, LastWrite, diskVars
  <1>4. CASE RestoreTimesOut \/ Relaunch \/ LoadRejected
    BY <1>4 DEF RestoreTimesOut, Relaunch, LoadRejected, WaiterInv
  <1>5. CASE Disconnect \/ LoadUnreadable
    <2>1. storage' = Append(storage, None)
      BY <1>5 DEF Disconnect, LoadUnreadable
    <2>2. LastWrite' = None
      BY <1>0, <2>1, AppendFacts DEF LastWrite
    <2> QED
      BY <2>2
  <1>6. CASE Stored \/ StorageRejected
    <2>1. /\ storage # <<>> /\ storage' = Tail(storage) /\ snapshot' = snapshot
          /\ restoring' \in {"clearing", "done"} => restoring \in {"clearing", "done"}
      BY <1>6 DEF Stored, StorageRejected, Cleared
    <2>2. snapshot = None /\ restoring' \in {"clearing", "done"} => LastWrite = None
      BY <2>1
    <2>3. CASE storage' = <<>>
      <3>1. LastWrite = Head(storage)
        BY <1>0, <2>1, <2>3, TailFacts DEF LastWrite
      <3> QED
        BY <1>6, <2>1, <2>2, <2>3, <3>1 DEF Stored, StorageRejected, LastWrite
    <2>4. CASE storage' # <<>>
      <3>1. LastWrite' = LastWrite
        BY <1>0, <2>1, <2>4, TailFacts DEF LastWrite
      <3> QED
        BY <2>1, <2>2, <3>1
    <2> QED
      BY <2>3, <2>4
  <1>7. CASE UNCHANGED <<snapshot, restoring, diskVars>>
    BY <1>7 DEF LastWrite, diskVars
  <1> QED
    BY <1>1, <1>2, <1>3, <1>4, <1>5, <1>6, <1>7
    DEF Next, Lost, Closed, PairReady, PeerDisconnected, ErrorHeard, WaitTimesOut, RetryFires,
        mobileVars, callVars

-----------------------------------------------------------------------------
LEMMA MobileInvariant == Spec => []IInv
  <1>1. Init => IInv
    <2>1. Init => ClientInv /\ ConnectedIsOpen /\ WaiterInv /\ StorageInv
      BY MobileAssumption
      DEF Init, ClientInv, OneConnection, ConnectedIsOpen, Shown, WaiterInv, StorageInv, LastWrite
    <2> QED
      BY <2>1, TypeInit DEF IInv
  <1>2. IInv /\ [Next]_mobileVars => IInv'
    BY TypeStep, ClientStep, ShownStep, WaiterStep, StorageStep DEF IInv
  <1> QED
    BY <1>1, <1>2, PTL DEF Spec

\* Every variable of the mobile side keeps its type, the queue of storage
\* operations included.
THEOREM MobileTypeCorrect == Spec => []TypeOK
  BY MobileInvariant, PTL DEF IInv

\* The user is shown "connected" only over a connection that opened, whichever
\* of the three writers of the status came last; or, without a client, once
\* disconnect() has given the session up, as long as its delete is under way or
\* after SecureStore has rejected it (relay-session.ts:135-140, 156-203).
THEOREM MobileConnectedIsOpen == Spec => []ConnectedIsOpen
  BY MobileInvariant, PTL DEF IInv

\* The app never competes with itself for the session's client slot, however
\* often it pairs, restores and reconnects (relay-session.ts:147-171).
THEOREM MobileOneConnection == Spec => []OneConnection
  BY MobileInvariant, PTL DEF IInv, ClientInv

\* With storage at rest, the next launch restores a session the user disconnected
\* only if SecureStore rejected the delete, or the load of a launch that had no
\* session to disconnect: no write of a pair() brings it back, in whatever order
\* writes, deletes and their rejections end (relay-session.ts:90, 107, 135-138).
THEOREM MobileForgets == Spec => []ForgottenIsForgotten
  <1>1. IInv => ForgottenIsForgotten
    BY DEF IInv, StorageInv, LastWrite, ForgottenIsForgotten
  <1> QED
    BY <1>1, MobileInvariant, PTL

-----------------------------------------------------------------------------
(* The app, the relay and the bridge.                                      *)

\* The slot has one holder, only the holder's messages are on their way, and a
\* connection that is being made has sent none.
SlotInv ==
    /\ \A c, d \in Conn : atRelay[c] = "in" /\ atRelay[d] = "in" => c = d
    /\ \A c \in Conn : up[c] # None => atRelay[c] = "in"
    /\ \A c \in Conn : ready[c] = "connecting" => up[c] = None

Listed(s, a) == \E k \in 1 .. Len(s) : s[k] = a

\* What the bridge has heard, what is waiting for it and what is on its way to
\* the relay were sent in this order.
OrderInv ==
    /\ \A i \in 1 .. Len(heard) : Listed(confirms, heard[i])
    /\ \A i \in 1 .. Len(toBridge) : Listed(confirms, toBridge[i])
    /\ \A c \in Conn : up[c] # None => Listed(confirms, up[c])
    /\ \A i, j \in 1 .. Len(heard) : i < j => Before(confirms, heard[i], heard[j])
    /\ \A i, j \in 1 .. Len(toBridge) : i < j => Before(confirms, toBridge[i], toBridge[j])
    /\ \A i \in 1 .. Len(heard), j \in 1 .. Len(toBridge) : Before(confirms, heard[i], toBridge[j])
    /\ \A i \in 1 .. Len(heard), c \in Conn : up[c] # None => Before(confirms, heard[i], up[c])
    /\ \A i \in 1 .. Len(toBridge), c \in Conn : up[c] # None => Before(confirms, toBridge[i], up[c])

PairInv == TypeOK /\ ClientInv /\ PairingTypeOK /\ SlotInv /\ OrderInv

-----------------------------------------------------------------------------
(* The app of the composition is the app.                                  *)

LEMMA StepIsMobileStep == [PNext]_pairingVars => [Next]_mobileVars
  BY DEF PNext, Next, PhoneConnects, PhoneElse, PhoneOpens, PhoneHearsClose, RelayAccepts, RelayHears,
         RelayCloses, BridgeConnects, BridgeLost, BridgeHears, Derived, pairingVars

\* Whatever the relay and the bridge do, the app behaves as MobileSession says,
\* so its theorems hold in the composition (relay-session.ts).
THEOREM PairingIsMobileSession == PSpec => Spec
  <1>1. PInit => Init
    BY DEF PInit
  <1> QED
    BY <1>1, StepIsMobileStep, PTL DEF PSpec, Spec

\* A step that connects makes connecting only a connection new to the relay.
LEMMA ConnectsAFreshOne ==
    ASSUME ClientTypeOK, ClientInv, PhoneConnects, NEW c \in Conn, ready'[c] = "connecting"
    PROVE  ready[c] = "connecting" \/ atRelay[c] = "none"
  <1> SUFFICES ASSUME ready[c] # "connecting" PROVE atRelay[c] = "none"
    OBVIOUS
  <1>1. CASE Attach
    <2>1. PICK d \in Conn : /\ ready[d] = "free" /\ conn' = d
                            /\ ready' = [e \in Conn |-> IF e = d THEN "connecting" ELSE AfterClose(e)]
      BY <1>1 DEF Attach
    <2>2. c = d
      BY <2>1, AfterCloseType
    <2>3. conn' # conn
      BY <2>1, MobileAssumption DEF ClientInv
    <2> QED
      BY <2>1, <2>2, <2>3 DEF PhoneConnects
  <1>2. CASE RetryFires
    <2>1. PICK d \in Conn : ready[d] = "free" /\ conn' = d /\ ready' = [ready EXCEPT ![d] = "connecting"]
      BY <1>2 DEF RetryFires
    <2>2. c = d
      BY <2>1 DEF ClientTypeOK
    <2>3. conn' # conn
      BY <2>1, MobileAssumption DEF ClientInv
    <2> QED
      BY <2>1, <2>2, <2>3 DEF PhoneConnects
  <1>3. CASE UNCHANGED clientVars
    BY <1>3 DEF clientVars
  <1> QED
    BY <1>1, <1>2, <1>3 DEF PhoneConnects, Restore, Pair

-----------------------------------------------------------------------------
(* Types and the slot.                                                     *)

LEMMA PairingTypeStep == TypeOK /\ PairingTypeOK /\ [PNext]_pairingVars => PairingTypeOK'
  <1> SUFFICES ASSUME TypeOK, PairingTypeOK, [PNext]_pairingVars
               PROVE  PairingTypeOK'
    OBVIOUS
  <1> USE DEF PairingTypeOK, RelaySide
  <1>1. CASE PhoneConnects \/ PhoneElse
    BY <1>1 DEF PhoneConnects, PhoneElse, relayVars, bridgeVars
  <1>2. ASSUME NEW c \in Conn, PhoneOpens(c)
        PROVE  PairingTypeOK'
    <2>1. waiter \in Attempt => Append(confirms, waiter) \in Seq(Attempt)
      BY AppendFacts
    <2> QED
      BY <1>2, <2>1 DEF PhoneOpens, bridgeVars
  <1>3. ASSUME NEW c \in Conn, PhoneHearsClose(c) \/ RelayAccepts(c) \/ RelayCloses(c)
        PROVE  PairingTypeOK'
    BY <1>3 DEF PhoneHearsClose, RelayAccepts, RelayCloses, bridgeVars
  <1>4. ASSUME NEW c \in Conn, RelayHears(c)
        PROVE  PairingTypeOK'
    <2>1. up[c] \in Attempt
      BY <1>4 DEF RelayHears
    <2>2. Append(toBridge, up[c]) \in Seq(Attempt)
      BY <2>1, AppendFacts
    <2> QED
      BY <1>4, <2>2 DEF RelayHears
  <1>5. CASE BridgeConnects \/ BridgeLost
    <2>1. <<>> \in Seq(Attempt)
      BY EmptySeq
    <2> QED
      BY <1>5, <2>1 DEF BridgeConnects, BridgeLost, relayVars
  <1>6. CASE BridgeHears
    <2>1. Head(toBridge) \in Attempt /\ Tail(toBridge) \in Seq(Attempt)
      BY <1>6, TailFacts DEF BridgeHears
    <2>2. Append(heard, Head(toBridge)) \in Seq(Attempt)
      BY <2>1, AppendFacts
    <2> QED
      BY <1>6, <2>1, <2>2 DEF BridgeHears, relayVars
  <1>7. ASSUME NEW a \in Attempt, Derived(a)
        PROVE  PairingTypeOK'
    BY <1>7 DEF Derived, relayVars
  <1>8. CASE UNCHANGED pairingVars
    BY <1>8 DEF pairingVars, relayVars, bridgeVars
  <1> QED
    BY <1>1, <1>2, <1>3, <1>4, <1>5, <1>6, <1>7, <1>8 DEF PNext

LEMMA SlotStep ==
    TypeOK /\ ClientInv /\ PairingTypeOK /\ SlotInv /\ [PNext]_pairingVars => SlotInv'
  <1> SUFFICES ASSUME TypeOK, ClientInv, PairingTypeOK, SlotInv, [PNext]_pairingVars
               PROVE  SlotInv'
    OBVIOUS
  <1> USE DEF SlotInv
  <1>0. /\ ClientTypeOK /\ ready \in [Conn -> ReadyState]
        /\ atRelay \in [Conn -> RelaySide] /\ up \in [Conn -> Attempt \cup {None}]
    BY DEF TypeOK, ClientTypeOK, PairingTypeOK
  <1>1. CASE PhoneConnects
    <2>1. UNCHANGED <<atRelay, up>>
      BY <1>1 DEF PhoneConnects, relayVars
    <2>2. \A c \in Conn : ready'[c] = "connecting" => ready[c] = "connecting" \/ atRelay[c] = "none"
      BY <1>0, <1>1, ConnectsAFreshOne
    <2> QED
      BY <2>1, <2>2
  <1>2. CASE PhoneElse
    <2>1. UNCHANGED <<atRelay, up>>
      BY <1>2 DEF PhoneElse, relayVars
    <2>2. \A c \in Conn : ready'[c] = "connecting" => ready[c] = "connecting"
      <3>1. CASE Disconnect
        BY <1>0, <3>1, AfterCloseType DEF Disconnect
      <3>2. CASE Relaunch
        BY <3>2 DEF Relaunch
      <3>3. CASE \E c \in Conn : Lost(c)
        BY <1>0, <3>3 DEF Lost
      <3> QED
        BY <1>2, <3>1, <3>2, <3>3 DEF PhoneElse, PairReady, PeerDisconnected, ErrorHeard, WaitTimesOut,
           RestoreTimesOut, LoadRejected, LoadUnreadable, Stored, StorageRejected, clientVars
    <2> QED
      BY <2>1, <2>2
  <1>3. ASSUME NEW c \in Conn, PhoneOpens(c)
        PROVE  SlotInv'
    BY <1>0, <1>3 DEF PhoneOpens, Opened
  <1>4. ASSUME NEW c \in Conn, PhoneHearsClose(c)
        PROVE  SlotInv'
    BY <1>0, <1>4 DEF PhoneHearsClose, Closed
  <1>5. ASSUME NEW c \in Conn, RelayAccepts(c)
        PROVE  SlotInv'
    BY <1>0, <1>5 DEF RelayAccepts, mobileVars, clientVars
  <1>6. ASSUME NEW c \in Conn, RelayHears(c) \/ RelayCloses(c)
        PROVE  SlotInv'
    BY <1>0, <1>6 DEF RelayHears, RelayCloses, mobileVars, clientVars
  <1>7. CASE UNCHANGED <<relayVars, clientVars>>
    BY <1>7 DEF relayVars, clientVars
  <1> QED
    BY <1>1, <1>2, <1>3, <1>4, <1>5, <1>6, <1>7
    DEF PNext, BridgeConnects, BridgeLost, BridgeHears, Derived, pairingVars, mobileVars

-----------------------------------------------------------------------------
(* The order.                                                              *)

\* Sending one more keeps the order of the others and comes after them all.
LEMMA SendingKeepsOrder ==
    ASSUME NEW s \in Seq(Attempt), NEW x \in Attempt, NEW t, t = Append(s, x)
    PROVE  /\ \A a, b : Before(s, a, b) => Before(t, a, b)
           /\ \A a : Listed(s, a) => Listed(t, a) /\ Before(t, a, x)
           /\ Listed(t, x)
  <1>1. /\ \A k \in 1 .. Len(s) : k \in 1 .. Len(t) /\ t[k] = s[k]
        /\ Len(t) = Len(s) + 1 /\ Len(s) \in Nat
        /\ t[Len(s) + 1] = x
    BY AppendProperties, LenProperties
  <1>2. \A a, b : Before(s, a, b) => Before(t, a, b)
    BY <1>1 DEF Before
  <1>3. \A a : Listed(s, a) => Listed(t, a) /\ Before(t, a, x)
    BY <1>1 DEF Before, Listed
  <1>4. Listed(t, x)
    BY <1>1 DEF Listed
  <1> QED
    BY <1>2, <1>3, <1>4

LEMMA OrderStep ==
    PairingTypeOK /\ SlotInv /\ OrderInv /\ [PNext]_pairingVars => OrderInv'
  <1> SUFFICES ASSUME PairingTypeOK, SlotInv, OrderInv, [PNext]_pairingVars
               PROVE  OrderInv'
    OBVIOUS
  <1>0. /\ up \in [Conn -> Attempt \cup {None}]
        /\ toBridge \in Seq(Attempt) /\ heard \in Seq(Attempt) /\ confirms \in Seq(Attempt)
    BY DEF PairingTypeOK
  <1>1. CASE UNCHANGED <<up, toBridge, heard, confirms>>
    BY <1>1 DEF OrderInv
  <1>2. ASSUME NEW c \in Conn, PhoneOpens(c)
        PROVE  OrderInv'
    <2>1. UNCHANGED <<toBridge, heard>>
      BY <1>2 DEF PhoneOpens, bridgeVars
    <2>2. CASE waiter \in Attempt
      <3>1. /\ \A a, b : Before(confirms, a, b) => Before(confirms', a, b)
            /\ \A a : Listed(confirms, a) => Listed(confirms', a) /\ Before(confirms', a, waiter)
            /\ Listed(confirms', waiter)
        BY <1>0, <1>2, <2>2, SendingKeepsOrder DEF PhoneOpens
      <3>2. \A d \in Conn : up'[d] # None => up'[d] = up[d] \/ up'[d] = waiter
        BY <1>0, <1>2 DEF PhoneOpens
      <3> QED
        BY <2>1, <3>1, <3>2 DEF OrderInv
    <2>3. CASE waiter \notin Attempt
      BY <1>2, <2>1, <2>3, <1>1 DEF PhoneOpens
    <2> QED
      BY <2>2, <2>3
  <1>3. ASSUME NEW c \in Conn, RelayCloses(c)
        PROVE  OrderInv'
    <2>1. UNCHANGED <<toBridge, heard, confirms>> /\ \A d \in Conn : up'[d] = None \/ up'[d] = up[d]
      BY <1>0, <1>3 DEF RelayCloses, bridgeVars
    <2> QED
      BY <2>1 DEF OrderInv
  <1>4. ASSUME NEW c \in Conn, RelayHears(c)
        PROVE  OrderInv'
    <2>1. UNCHANGED <<heard, confirms>> /\ up[c] # None /\ up[c] \in Attempt
      BY <1>0, <1>4 DEF RelayHears
    <2>2. \A d \in Conn : up'[d] = None
      BY <1>0, <1>4 DEF RelayHears, SlotInv
    <2>3. CASE toBridge' = toBridge
      BY <2>1, <2>2, <2>3 DEF OrderInv
    <2>4. CASE toBridge' = Append(toBridge, up[c])
      <3>1. /\ Len(toBridge') = Len(toBridge) + 1 /\ Len(toBridge) \in Nat
            /\ \A i \in 1 .. Len(toBridge) : toBridge'[i] = toBridge[i]
            /\ toBridge'[Len(toBridge) + 1] = up[c]
        BY <1>0, <2>1, <2>4, AppendProperties, LenProperties
      <3>2. \A i \in 1 .. Len(toBridge') :
                (i \in 1 .. Len(toBridge) /\ toBridge'[i] = toBridge[i])
                    \/ (i = Len(toBridge) + 1 /\ toBridge'[i] = up[c])
        BY <3>1
      <3>3. \A i, j \in 1 .. Len(toBridge') : i < j => Before(confirms, toBridge'[i], toBridge'[j])
        BY <2>1, <3>1, <3>2 DEF OrderInv
      <3> QED
        BY <2>1, <2>2, <3>2, <3>3 DEF OrderInv
    <2> QED
      BY <1>4, <2>3, <2>4 DEF RelayHears
  <1>5. CASE BridgeLost
    <2>1. UNCHANGED <<up, heard, confirms>> /\ Len(toBridge') = 0
      BY <1>5, EmptySeq DEF BridgeLost, relayVars
    <2> QED
      BY <2>1 DEF OrderInv
  <1>6. CASE BridgeHears
    <2>1. UNCHANGED <<up, confirms>> /\ toBridge # <<>> /\ toBridge' = Tail(toBridge)
          /\ heard' = Append(heard, Head(toBridge))
      BY <1>6 DEF BridgeHears, relayVars
    <2>2. /\ Len(toBridge') = Len(toBridge) - 1 /\ Len(toBridge) \in Nat \ {0}
          /\ \A i \in 1 .. Len(toBridge') : toBridge'[i] = toBridge[i + 1]
          /\ Head(toBridge) = toBridge[1] /\ Head(toBridge) \in Attempt
      BY <1>0, <2>1, HeadTailProperties, EmptySeq, LenProperties
    <2>3. /\ Len(heard') = Len(heard) + 1 /\ Len(heard) \in Nat
          /\ \A i \in 1 .. Len(heard) : heard'[i] = heard[i]
          /\ heard'[Len(heard) + 1] = toBridge[1]
      BY <1>0, <2>1, <2>2, AppendProperties, LenProperties
    <2>4. \A i \in 1 .. Len(heard') :
              (i \in 1 .. Len(heard) /\ heard'[i] = heard[i])
                  \/ (i = Len(heard) + 1 /\ heard'[i] = toBridge[1])
      BY <2>3
    <2>5. \A i \in 1 .. Len(toBridge') :
              i + 1 \in 1 .. Len(toBridge) /\ 1 < i + 1 /\ toBridge'[i] = toBridge[i + 1]
      BY <2>2
    <2>6. 1 \in 1 .. Len(toBridge)
      BY <2>2
    <2>7. \A i, j \in 1 .. Len(heard') : i < j => Before(confirms, heard'[i], heard'[j])
      BY <2>3, <2>4, <2>6 DEF OrderInv
    <2>8. \A i, j \in 1 .. Len(toBridge') : i < j => Before(confirms, toBridge'[i], toBridge'[j])
      BY <2>5 DEF OrderInv
    <2>9. \A i \in 1 .. Len(heard'), j \in 1 .. Len(toBridge') : Before(confirms, heard'[i], toBridge'[j])
      BY <2>4, <2>5, <2>6 DEF OrderInv
    <2>10. \A i \in 1 .. Len(heard'), c \in Conn : up[c] # None => Before(confirms, heard'[i], up[c])
      BY <2>4, <2>6 DEF OrderInv
    <2>11. \A i \in 1 .. Len(toBridge'), c \in Conn : up[c] # None => Before(confirms, toBridge'[i], up[c])
      BY <2>5 DEF OrderInv
    <2>12. /\ \A i \in 1 .. Len(heard') : Listed(confirms, heard'[i])
           /\ \A i \in 1 .. Len(toBridge') : Listed(confirms, toBridge'[i])
      BY <2>4, <2>5, <2>6 DEF OrderInv
    <2> QED
      BY <2>1, <2>7, <2>8, <2>9, <2>10, <2>11, <2>12 DEF OrderInv
  <1> QED
    BY <1>1, <1>2, <1>3, <1>4, <1>5, <1>6
    DEF PNext, PhoneConnects, PhoneElse, PhoneHearsClose, RelayAccepts, BridgeConnects, Derived,
        relayVars, bridgeVars, pairingVars

-----------------------------------------------------------------------------
LEMMA PairingInvariant == PSpec => []PairInv
  <1>1. PInit => PairInv
    <2> SUFFICES ASSUME PInit PROVE PairInv
      OBVIOUS
    <2>1. TypeOK /\ ClientInv
      BY TypeInit, MobileAssumption DEF PInit, Init, ClientInv, OneConnection
    <2>2. PairingTypeOK
      BY EmptySeq, BridgeAssumption DEF PInit, PairingTypeOK, RelaySide
    <2>3. SlotInv
      BY DEF PInit, SlotInv
    <2>4. OrderInv
      BY EmptySeq DEF PInit, OrderInv
    <2> QED
      BY <2>1, <2>2, <2>3, <2>4 DEF PairInv
  <1>2. PairInv /\ [PNext]_pairingVars => PairInv'
    BY StepIsMobileStep, TypeStep, ClientStep, PairingTypeStep, SlotStep, OrderStep DEF PairInv
  <1> QED
    BY <1>1, <1>2, PTL DEF PSpec

\* Every variable of the handshake keeps its type: only a pair() ever sends a
\* pair.confirm, and only a pairing gives the bridge keys.
THEOREM PairingTypeCorrect == PSpec => []PairingTypeOK
  BY PairingInvariant, PTL DEF PairInv

\* The bridge hears of pairings in the order the app made them, however many
\* connections they took (server.ts:87-120, relay-session.ts:80-87).
THEOREM PairingsHeardInOrder == PSpec => []BridgeHearsInOrder
  <1>1. PairInv => BridgeHearsInOrder
    BY DEF PairInv, OrderInv, BridgeHearsInOrder
  <1> QED
    BY <1>1, PairingInvariant, PTL

\* In the composition as well, "connected" is shown only over a connection that
\* opened, or without a client after a disconnect() whose delete has not ended
\* or was rejected.
THEOREM PairingConnectedIsOpen == PSpec => []ConnectedIsOpen
  BY PairingIsMobileSession, MobileConnectedIsOpen
-----------------------------------------------------------------------------
(* What is sent is sent once, and what is stored was sent.                 *)

\* Each pair() sends its pair.confirm at most once: the one that listens to the
\* client has not sent it, and one that has sent it no longer waits.
SentInv ==
    /\ waiter \in Attempt => call[waiter] = "waiting"
    /\ \A a \in Attempt : Listed(confirms, a) => call[a] \notin {"idle", "waiting"}
    /\ \A k, l \in 1 .. Len(confirms) : confirms[k] = confirms[l] => k = l

\* StoredInOrder, part by part.
StoredInv ==
    /\ persisted # None => Listed(confirms, persisted)
    /\ \A i \in 1 .. Len(storage) : storage[i] # None => Listed(confirms, storage[i])
    /\ \A i \in 1 .. Len(storage) :
            storage[i] # None /\ persisted # None => Before(confirms, persisted, storage[i])
    /\ \A i, j \in 1 .. Len(storage) :
            i < j /\ storage[i] # None /\ storage[j] # None
                => Before(confirms, storage[i], storage[j])

\* Steps that neither send nor store leave both as they are.
LEMMA StoredOthers ==
    ASSUME StoredInv, UNCHANGED <<confirms, persisted>>,
           \/ storage' = storage
           \/ Len(storage') = 0
           \/ storage \in Seq(Attempt \cup {None}) /\ storage' = Append(storage, None)
    PROVE  StoredInv'
  <1>1. CASE storage' = storage
    BY <1>1 DEF StoredInv
  <1>2. CASE Len(storage') = 0
    BY <1>2 DEF StoredInv
  <1>3. CASE storage \in Seq(Attempt \cup {None}) /\ storage' = Append(storage, None)
    <2>1. /\ Len(storage') = Len(storage) + 1 /\ Len(storage) \in Nat
          /\ \A i \in 1 .. Len(storage) : storage'[i] = storage[i]
          /\ storage'[Len(storage) + 1] = None
      BY <1>3, AppendProperties, LenProperties
    <2>2. \A i \in 1 .. Len(storage') :
              storage'[i] # None => i \in 1 .. Len(storage) /\ storage'[i] = storage[i]
      BY <2>1
    <2> QED
      BY <2>2 DEF StoredInv
  <1> QED
    BY <1>1, <1>2, <1>3

LEMMA SentStep ==
    TypeOK /\ PairingTypeOK /\ SentInv /\ StoredInv /\ [PNext]_pairingVars => SentInv' /\ StoredInv'
  <1> SUFFICES ASSUME TypeOK, PairingTypeOK, SentInv, StoredInv, [PNext]_pairingVars
               PROVE  SentInv' /\ StoredInv'
    OBVIOUS
  <1>0. /\ call \in [Attempt -> CallState] /\ waiter \in Attempt \cup {"restore", None}
        /\ storage \in Seq(Attempt \cup {None}) /\ persisted \in Attempt \cup {None}
        /\ confirms \in Seq(Attempt)
    BY DEF TypeOK, CallTypeOK, PairingTypeOK
  <1>1. CASE UNCHANGED <<call, waiter, storage, persisted, confirms>>
    BY <1>1 DEF SentInv, StoredInv
  <1>2. ASSUME NEW a \in Attempt, Pair(a), UNCHANGED confirms
        PROVE  SentInv' /\ StoredInv'
    <2>1. /\ call[a] = "idle" /\ call' = [call EXCEPT ![a] = "waiting"] /\ waiter' = a
          /\ UNCHANGED <<storage, persisted>>
      BY <1>2 DEF Pair, diskVars
    <2>2. ~Listed(confirms, a)
      BY <2>1 DEF SentInv
    <2> QED
      BY <1>0, <1>2, <2>1, <2>2 DEF SentInv, StoredInv, Listed
  <1>3. ASSUME NEW a \in Attempt, WaitTimesOut(a), UNCHANGED confirms
        PROVE  SentInv' /\ StoredInv'
    <2>1. UNCHANGED <<storage, persisted>>
      BY <1>3 DEF WaitTimesOut, diskVars
    <2>2. SentInv'
      BY <1>0, <1>3, MobileAssumption DEF WaitTimesOut, SentInv, Listed
    <2> QED
      BY <1>3, <2>1, <2>2, StoredOthers
  <1>4. ASSUME Restore \/ RestoreTimesOut, UNCHANGED confirms
        PROVE  SentInv' /\ StoredInv'
    <2>1. UNCHANGED <<call, storage, persisted>> /\ waiter' \in {waiter, "restore", None}
      BY <1>4 DEF Restore, RestoreTimesOut, diskVars
    <2> QED
      BY <1>4, <2>1, MobileAssumption DEF SentInv, StoredInv, Listed, Before
  <1>5. ASSUME Disconnect \/ LoadUnreadable, UNCHANGED confirms
        PROVE  SentInv' /\ StoredInv'
    <2>1. /\ UNCHANGED <<call, persisted>> /\ waiter' \in {waiter, None}
          /\ storage' = Append(storage, None)
      BY <1>5 DEF Disconnect, LoadUnreadable
    <2>2. SentInv'
      BY <1>5, <2>1, MobileAssumption DEF SentInv, Listed
    <2> QED
      BY <1>0, <1>5, <2>1, <2>2, StoredOthers
  <1>6. ASSUME Stored \/ StorageRejected, UNCHANGED confirms
        PROVE  SentInv' /\ StoredInv'
    <2> DEFINE h == Head(storage)
    <2>1. /\ storage # <<>> /\ persisted' \in {persisted, h} /\ storage' = Tail(storage)
          /\ waiter' = waiter
          /\ \/ call' = call
             \/ h # None /\ \E s \in {"done", "failed"} : call' = [call EXCEPT ![h] = s]
      BY <1>6 DEF Stored, StorageRejected
    <2>2. /\ Len(storage) \in Nat \ {0} /\ Len(storage') = Len(storage) - 1
          /\ \A i \in 1 .. Len(storage') : storage'[i] = storage[i + 1]
          /\ h = storage[1] /\ h \in Attempt \cup {None}
      BY <1>0, <2>1, HeadTailProperties, EmptySeq, LenProperties
    <2>3. 1 \in 1 .. Len(storage)
          /\ \A i \in 1 .. Len(storage') : i + 1 \in 1 .. Len(storage) /\ 1 < i + 1
      BY <2>2
    <2>4. h # None => Listed(confirms, h)
      BY <2>2, <2>3 DEF StoredInv
    <2>5. h # None => call[h] # "waiting" /\ h \in Attempt
      BY <2>2, <2>4 DEF SentInv
    <2> HIDE DEF h
    <2>6. SentInv'
      <3>1. waiter' \in Attempt => call'[waiter'] = "waiting"
        BY <1>0, <2>1, <2>5 DEF SentInv
      <3>2. \A a \in Attempt : Listed(confirms, a) => call'[a] \notin {"idle", "waiting"}
        BY <1>0, <2>1, <2>5 DEF SentInv
      <3> QED
        BY <1>6, <3>1, <3>2 DEF SentInv, Listed
    <2>7. /\ \A i \in 1 .. Len(storage') : storage'[i] # None => Listed(confirms, storage'[i])
          /\ \A i \in 1 .. Len(storage') :
                storage'[i] # None /\ h # None => Before(confirms, h, storage'[i])
          /\ \A i \in 1 .. Len(storage') :
                storage'[i] # None /\ persisted # None => Before(confirms, persisted, storage'[i])
      BY <2>2, <2>3 DEF StoredInv
    <2>8. \A i, j \in 1 .. Len(storage') :
              i < j /\ storage'[i] # None /\ storage'[j] # None
                  => Before(confirms, storage'[i], storage'[j])
      <3> SUFFICES ASSUME NEW i \in 1 .. Len(storage'), NEW j \in 1 .. Len(storage'), i < j,
                          storage'[i] # None, storage'[j] # None
                   PROVE  Before(confirms, storage'[i], storage'[j])
        OBVIOUS
      <3>1. i + 1 < j + 1 /\ i + 1 \in 1 .. Len(storage) /\ j + 1 \in 1 .. Len(storage)
        BY <2>3
      <3>2. storage'[i] = storage[i + 1] /\ storage'[j] = storage[j + 1]
        BY <2>2
      <3> QED
        BY <3>1, <3>2 DEF StoredInv
    <2>9. persisted' # None =>
              /\ Listed(confirms, persisted')
              /\ \A i \in 1 .. Len(storage') :
                    storage'[i] # None => Before(confirms, persisted', storage'[i])
      <3>1. CASE persisted' = persisted
        <4>1. persisted # None => Listed(confirms, persisted)
          BY DEF StoredInv
        <4> QED
          BY <2>7, <3>1, <4>1
      <3>2. CASE persisted' = h
        BY <2>4, <2>7, <3>2
      <3> QED
        BY <2>1, <3>1, <3>2
    <2>10. confirms' = confirms
      BY <1>6
    <2>11. /\ persisted' # None => Listed(confirms', persisted')
           /\ \A i \in 1 .. Len(storage') : storage'[i] # None => Listed(confirms', storage'[i])
           /\ \A i \in 1 .. Len(storage') : storage'[i] # None /\ persisted' # None
                  => Before(confirms', persisted', storage'[i])
      BY <2>7, <2>9, <2>10
    <2>12. \A i, j \in 1 .. Len(storage') :
              i < j /\ storage'[i] # None /\ storage'[j] # None
                  => Before(confirms', storage'[i], storage'[j])
      BY <2>8, <2>10
    <2>13. StoredInv'
      BY <2>11, <2>12 DEF StoredInv
    <2> QED
      BY <2>6, <2>13
  <1>7. ASSUME Relaunch, UNCHANGED confirms
        PROVE  SentInv' /\ StoredInv'
    <2>1. /\ waiter' = None /\ UNCHANGED persisted /\ Len(storage') = 0
          /\ call' = [a \in Attempt |->
                        IF call[a] \in {"waiting", "persisting"} THEN "failed" ELSE call[a]]
      BY <1>7, EmptySeq DEF Relaunch
    <2>2. SentInv'
      BY <1>0, <1>7, <2>1, MobileAssumption DEF SentInv, Listed
    <2> QED
      BY <1>7, <2>1, <2>2, StoredOthers
  <1>8. ASSUME NEW c \in Conn, PhoneOpens(c)
        PROVE  SentInv' /\ StoredInv'
    <2>1. waiter' = None /\ UNCHANGED persisted
      BY <1>8 DEF PhoneOpens, Opened
    <2>2. CASE waiter \notin Attempt
      <3>1. UNCHANGED <<call, storage, confirms>>
        BY <1>8, <2>2 DEF PhoneOpens, Opened
      <3> QED
        BY <2>1, <3>1, MobileAssumption DEF SentInv, StoredInv, Listed, Before
    <2>3. CASE waiter \in Attempt
      <3>1. PICK w \in Attempt : w = waiter
        BY <2>3
      <3>2. /\ confirms' = Append(confirms, w) /\ storage' = Append(storage, w)
            /\ call' = [call EXCEPT ![w] = "persisting"]
        BY <1>8, <3>1 DEF PhoneOpens, Opened
      <3>3. /\ \A a, b : Before(confirms, a, b) => Before(confirms', a, b)
            /\ \A a : Listed(confirms, a) => Listed(confirms', a) /\ Before(confirms', a, w)
            /\ Listed(confirms', w)
        BY <1>0, <3>2, SendingKeepsOrder
      <3>4. /\ Len(confirms') = Len(confirms) + 1 /\ Len(confirms) \in Nat
            /\ \A k \in 1 .. Len(confirms) : confirms'[k] = confirms[k]
            /\ confirms'[Len(confirms) + 1] = w
        BY <1>0, <3>2, AppendProperties, LenProperties
      <3>5. /\ Len(storage') = Len(storage) + 1 /\ Len(storage) \in Nat
            /\ \A k \in 1 .. Len(storage) : storage'[k] = storage[k]
            /\ storage'[Len(storage) + 1] = w
        BY <1>0, <3>2, AppendProperties, LenProperties
      <3>6. ~Listed(confirms, w)
        BY <3>1 DEF SentInv
      <3>7. \A k \in 1 .. Len(confirms') :
                \/ k \in 1 .. Len(confirms) /\ confirms'[k] = confirms[k] /\ confirms'[k] # w
                \/ k = Len(confirms) + 1 /\ confirms'[k] = w
        BY <3>4, <3>6 DEF Listed
      <3>8. \A k, l \in 1 .. Len(confirms') : confirms'[k] = confirms'[l] => k = l
        BY <3>7 DEF SentInv
      <3>9. \A a \in Attempt : Listed(confirms', a) => a = w \/ Listed(confirms, a)
        BY <3>7 DEF Listed
      <3>10. \A a \in Attempt : Listed(confirms', a) => call'[a] \notin {"idle", "waiting"}
        BY <1>0, <3>2, <3>9 DEF SentInv
      <3>11. SentInv'
        BY <2>1, <3>8, <3>10, MobileAssumption DEF SentInv
      <3>12. \A k \in 1 .. Len(storage') :
                \/ k \in 1 .. Len(storage) /\ storage'[k] = storage[k]
                \/ k = Len(storage) + 1 /\ storage'[k] = w
        BY <3>5
      <3>13. \A k, l \in 1 .. Len(storage') :
                k < l => k \in 1 .. Len(storage) /\ storage'[k] = storage[k]
        BY <3>5
      <3>14. /\ persisted' # None => Listed(confirms', persisted')
             /\ \A i \in 1 .. Len(storage') : storage'[i] # None => Listed(confirms', storage'[i])
             /\ \A i \in 1 .. Len(storage') :
                   storage'[i] # None /\ persisted' # None
                       => Before(confirms', persisted', storage'[i])
        BY <2>1, <3>3, <3>12 DEF StoredInv
      <3>15. \A i, j \in 1 .. Len(storage') :
                i < j /\ storage'[i] # None /\ storage'[j] # None
                    => Before(confirms', storage'[i], storage'[j])
        BY <3>3, <3>12, <3>13 DEF StoredInv
      <3> QED
        BY <3>11, <3>14, <3>15 DEF StoredInv
    <2> QED
      BY <2>2, <2>3
  <1> QED
    BY <1>1, <1>2, <1>3, <1>4, <1>5, <1>6, <1>7, <1>8
    DEF PNext, PhoneConnects, PhoneElse, PhoneHearsClose, RetryFires, Lost, Closed, PairReady,
        PeerDisconnected, ErrorHeard, LoadRejected, RelayAccepts, RelayHears, RelayCloses, BridgeConnects,
        BridgeLost, BridgeHears, Derived, callVars, diskVars, mobileVars, pairingVars

LEMMA SentInvariant == PSpec => [](PairInv /\ SentInv /\ StoredInv)
  <1>1. PInit => SentInv /\ StoredInv
    BY EmptySeq, MobileAssumption DEF PInit, Init, SentInv, StoredInv, Listed
  <1>2. PairInv /\ SentInv /\ StoredInv /\ [PNext]_pairingVars => SentInv' /\ StoredInv'
    BY SentStep DEF PairInv
  <1> QED
    BY <1>1, <1>2, PairingInvariant, PTL DEF PSpec

\* What is on disk was announced to the bridge, and no older session is ever
\* written over a newer one (relay-session.ts:80-90).
THEOREM PairingStoresInOrder == PSpec => []StoredInOrder
  <1>1. StoredInv => StoredInOrder
    BY DEF StoredInv, StoredInOrder, Listed
  <1> QED
    BY <1>1, SentInvariant, PTL
-----------------------------------------------------------------------------
(* What both hold.                                                         *)

\* The bridge has the keys of what it heard last, or is deriving them.
LatestInv ==
    IF heard = <<>> THEN deriving = {}
    ELSE \/ deriving = {} /\ keys = heard[Len(heard)]
         \/ deriving = {heard[Len(heard)]}

LEMMA LatestStep ==
    PairingTypeOK /\ OneDerivation' /\ LatestInv /\ [PNext]_pairingVars => LatestInv'
  <1> SUFFICES ASSUME PairingTypeOK, OneDerivation', LatestInv, [PNext]_pairingVars
               PROVE  LatestInv'
    OBVIOUS
  <1>1. CASE UNCHANGED <<heard, deriving, keys>>
    BY <1>1 DEF LatestInv
  <1>2. CASE BridgeHears
    <2> DEFINE h == Head(toBridge)
    <2>1. /\ toBridge # <<>> /\ heard' = Append(heard, h) /\ deriving' = deriving \cup {h}
      BY <1>2 DEF BridgeHears
    <2>2. h \in Attempt /\ heard \in Seq(Attempt)
      BY <2>1, HeadTailProperties DEF PairingTypeOK
    <2> HIDE DEF h
    <2>3. heard' # <<>> /\ heard'[Len(heard')] = h
      BY <2>1, <2>2, AppendFacts
    <2>4. deriving' = {h}
      BY <2>1 DEF OneDerivation
    <2> QED
      BY <2>3, <2>4 DEF LatestInv
  <1>3. ASSUME NEW a \in Attempt, Derived(a)
        PROVE  LatestInv'
    <2>1. a \in deriving /\ deriving' = deriving \ {a} /\ keys' = a /\ heard' = heard
      BY <1>3 DEF Derived
    <2>2. heard # <<>> /\ deriving = {heard[Len(heard)]}
      BY <2>1 DEF LatestInv
    <2> QED
      BY <2>1, <2>2 DEF LatestInv
  <1> QED
    BY <1>1, <1>2, <1>3
    DEF PNext, PhoneConnects, PhoneElse, PhoneOpens, PhoneHearsClose, RelayAccepts, RelayHears,
        RelayCloses, BridgeConnects, BridgeLost, bridgeVars, pairingVars

\* What was sent last and has been heard is what was heard last.
LEMMA HeardLast ==
    ASSUME PairInv, SentInv, confirms # <<>>, NEW i \in 1 .. Len(heard),
           heard[i] = confirms[Len(confirms)]
    PROVE  i = Len(heard)
  <1>1. /\ Len(heard) \in Nat /\ Len(confirms) \in Nat \ {0}
    BY LenProperties, EmptySeq DEF PairInv, PairingTypeOK
  <1>2. SUFFICES ASSUME i < Len(heard) PROVE FALSE
    BY <1>1
  <1>3. Before(confirms, heard[i], heard[Len(heard)])
    BY <1>1, <1>2 DEF PairInv, OrderInv
  <1>4. PICK k, l \in 1 .. Len(confirms) : k < l /\ confirms[k] = confirms[Len(confirms)]
    BY <1>3 DEF Before
  <1>5. k = Len(confirms)
    BY <1>1, <1>4 DEF SentInv
  <1> QED
    BY <1>1, <1>4, <1>5

\* The bridge hears no pairing twice, so it derives the keys of each once
\* (message-router.ts:129-152).
THEOREM PairingsHeardOnce ==
    PSpec => [](\A i, j \in 1 .. Len(heard) : heard[i] = heard[j] => i = j)
  <1> DEFINE Once == \A i, j \in 1 .. Len(heard) : heard[i] = heard[j] => i = j
  <1>1. PairInv /\ SentInv => Once
    <2> SUFFICES ASSUME PairInv, SentInv,
                        NEW i \in 1 .. Len(heard), NEW j \in 1 .. Len(heard), i < j
                 PROVE  heard[i] # heard[j]
      BY LenProperties DEF PairInv, PairingTypeOK
    <2>1. PICK k, l \in 1 .. Len(confirms) : k < l /\ confirms[k] = heard[i] /\ confirms[l] = heard[j]
      BY DEF PairInv, OrderInv, Before
    <2> QED
      BY <2>1, LenProperties DEF SentInv, PairInv, PairingTypeOK
  <1> HIDE DEF Once
  <1>2. PSpec => []Once
    BY <1>1, SentInvariant, PTL
  <1> QED
    BY <1>2 DEF Once

\* Once the pair.confirm that the app sent last has been heard and derived, both
\* sides hold the same keys, if no two derivations of the bridge overlap
\* (message-router.ts:145).
THEOREM PairingAgreesOnceHeard == PSpec => AgreeOnceHeard
  <1>1. PInit => LatestInv
    BY DEF PInit, LatestInv
  <1>2. PairInv /\ OneDerivation' /\ LatestInv /\ [PNext]_pairingVars => LatestInv'
    BY LatestStep DEF PairInv
  <1>3. PairInv /\ SentInv /\ LatestInv => HeldByBoth
    <2> SUFFICES ASSUME PairInv, SentInv, LatestInv, deriving = {}, confirms # <<>>,
                        snapshot = confirms[Len(confirms)],
                        NEW i \in 1 .. Len(heard), heard[i] = snapshot
                 PROVE  keys = snapshot
      BY DEF HeldByBoth
    <2>1. i = Len(heard)
      BY HeardLast
    <2>2. heard # <<>>
      BY EmptySeq
    <2> QED
      BY <2>1, <2>2 DEF LatestInv
  <1> QED
    BY <1>1, <1>2, <1>3, SentInvariant, PTL DEF PSpec, AgreeOnceHeard
===============================================================================
