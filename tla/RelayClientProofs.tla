-------------------------- MODULE RelayClientProofs ---------------------------
(* Proofs about RelayClient, for any number of connections and messages.     *)
EXTENDS RelayClient, SequenceTheorems, TLAPS

\* What keeps a client that is not restarted to one connection: a connection
\* that can still open, or is open, is the one in ws; disconnect() gives up
\* only connections it has told to close; a retry that is pending or under way
\* leaves state outside {"connected", "paired"} until a connection opens.
SingleConnection ==
    /\ \A c, d \in Live : c = d
    /\ reconnectTimer => Live = {}
    /\ ws # Null => ws \in Live
    /\ \A c \in Conn : ready[c] \in {"connecting", "open"} => ws = c
    /\ \A c \in Conn : ready[c] = "open" => heartbeatTimer
    /\ heartbeatTimer => ws # Null /\ ready[ws] \in {"open", "ending"}
    /\ owner = "idle" => Live = {} /\ ~reconnectTimer
    /\ reconnectAttempts <= 1 /\ delay \in {0, 1000}
    /\ reconnectAttempts = 1 =>
            /\ state \notin {"connected", "paired"}
            /\ \A c \in Conn : ready[c] \notin {"open", "closing"}

IInv == TypeOK /\ NothingWaitsOnOpen

LEMMA InitIInv == Init => IInv /\ SingleConnection
<1> SUFFICES ASSUME Init PROVE IInv /\ SingleConnection
    OBVIOUS
<1>1. QueueTypeOK
    BY SendsAssumption DEF Init, QueueTypeOK
<1>2. ConnTypeOK /\ TimerTypeOK
    <2>1. ConnTypeOK
        BY DEF Init, ConnTypeOK, State, ConnState
    <2>2. 0 \in 0 .. MaxAttempts
        BY DEF MaxAttempts
    <2>3. reconnectAttempts = 0 /\ delay = 0 /\ reconnectTimer = FALSE
        BY DEF Init
    <2>4. TimerTypeOK
        BY <2>2, <2>3 DEF TimerTypeOK
    <2> QED BY <2>1, <2>4
<1>3. NothingWaitsOnOpen
    BY DEF Init, NothingWaitsOnOpen
<1>4. SingleConnection
    BY DEF Init, SingleConnection, Live
<1>5. restarted \in BOOLEAN
    BY DEF Init
<1> QED BY <1>1, <1>2, <1>3, <1>4, <1>5 DEF IInv, TypeOK

\* What connect() can do.
LEMMA DoConnectEffect ==
    ASSUME TypeOK, DoConnect
    PROVE  /\ heartbeatTimer' = heartbeatTimer
           /\ ws' \in Conn \cup {Null} /\ state' \in State /\ ready' \in [Conn -> ConnState]
           /\ \/ UNCHANGED connVars
              \/ \E c \in Conn :
                    /\ ws = Null /\ ready[c] = "free" /\ ws' = c /\ state' = "connecting"
                    /\ \A d \in Conn : ready'[d] = IF d = c THEN "connecting" ELSE ready[d]
BY DEF DoConnect, TypeOK, ConnTypeOK, connVars, State, ConnState

LEMMA FlushEffect ==
    ASSUME TypeOK, NEW readyNow, FlushBuffer(readyNow)
    PROVE  /\ QueueTypeOK'
           /\ ws # Null /\ readyNow[ws] = "open" => outboundBuffer' = <<>>
<1>1. CASE ws # Null /\ readyNow[ws] = "open"
    <2>1. /\ written' = written \o outboundBuffer /\ outboundBuffer' = <<>>
          /\ accepted' = accepted
        BY <1>1 DEF FlushBuffer
    <2>2. written \in Seq(1 .. MaxSends) /\ outboundBuffer \in Seq(1 .. MaxSends)
        BY DEF TypeOK, QueueTypeOK
    <2>3. written \o outboundBuffer \in Seq(1 .. MaxSends) /\ <<>> \in Seq(1 .. MaxSends)
        BY <2>2
    <2> QED BY <2>1, <2>3 DEF TypeOK, QueueTypeOK
<1>2. CASE ~(ws # Null /\ readyNow[ws] = "open")
    BY <1>2 DEF FlushBuffer, TypeOK, QueueTypeOK, queueVars
<1> QED BY <1>1, <1>2

LEMMA ScheduleEffect ==
    ASSUME TypeOK, ScheduleReconnect
    PROVE  /\ TimerTypeOK'
           /\ reconnectTimer'
           /\ reconnectTimer => UNCHANGED timerVars
           /\ ~reconnectTimer /\ reconnectAttempts = 0 => reconnectAttempts' = 1 /\ delay' = 1000
<1>1. CASE reconnectTimer
    BY <1>1 DEF ScheduleReconnect, TypeOK, TimerTypeOK, timerVars
<1>2. CASE ~reconnectTimer
    <2>1. /\ delay' = Backoff(reconnectAttempts) /\ reconnectTimer' = TRUE
          /\ reconnectAttempts' = IF reconnectAttempts < MaxAttempts
                                  THEN reconnectAttempts + 1 ELSE MaxAttempts
        BY <1>2 DEF ScheduleReconnect
    <2>2. Backoff(reconnectAttempts) \in {1000, 2000, 4000, 5000} /\ Backoff(0) = 1000
        BY DEF Backoff
    <2>3. reconnectAttempts \in 0 .. 3
        BY DEF TypeOK, TimerTypeOK, MaxAttempts
    <2> QED BY <1>2, <2>1, <2>2, <2>3 DEF TimerTypeOK, MaxAttempts
<1> QED BY <1>1, <1>2

\* Types, and nothing waits while the held connection is open.
LEMMA NextIInv == IInv /\ [Next]_vars => IInv'
<1> SUFFICES ASSUME IInv, [Next]_vars PROVE IInv'
    OBVIOUS
<1>0. restarted' \in BOOLEAN
    <2>1. restarted' = restarted \/ restarted' = TRUE \/ restarted' = FALSE
        <3>1. CASE Connect
            BY <3>1, Zenon DEF Connect
        <3>2. CASE ~Connect
            BY <3>2, Zenon DEF Next, vars, ownerVars, ReconnectTimerFires, Opened, PairConfirmed,
                               Lost, Closed, Disconnect, Send, Heartbeat, DoSend
        <3> QED BY <3>1, <3>2
    <2>2. restarted \in BOOLEAN
        BY DEF IInv, TypeOK
    <2> QED BY <2>1, <2>2, Zenon
<1> USE <1>0 DEF IInv, TypeOK
<1>1. CASE UNCHANGED vars
    BY <1>1 DEF vars, connVars, timerVars, queueVars, ownerVars, ConnTypeOK, TimerTypeOK,
                QueueTypeOK, NothingWaitsOnOpen
<1>2. CASE Connect \/ ReconnectTimerFires
    <2>1. DoConnect /\ UNCHANGED queueVars
        BY <1>2 DEF Connect, ReconnectTimerFires
    <2>2. ConnTypeOK'
        BY <1>2, <2>1, DoConnectEffect DEF Connect, ReconnectTimerFires, ConnTypeOK, ownerVars
    <2>3. TimerTypeOK' /\ QueueTypeOK'
        <3>1. reconnectTimer' \in BOOLEAN /\ UNCHANGED <<reconnectAttempts, delay>>
            <4>1. CASE Connect
                <5>1. UNCHANGED timerVars
                    BY <4>1 DEF Connect
                <5>2. UNCHANGED <<reconnectTimer, reconnectAttempts, delay>>
                    BY <5>1 DEF timerVars
                <5>3. reconnectTimer \in BOOLEAN
                    BY DEF TimerTypeOK
                <5> QED BY <5>2, <5>3
            <4>2. CASE ReconnectTimerFires
                BY <4>2, Zenon DEF ReconnectTimerFires
            <4> QED BY <1>2, <4>1, <4>2
        <3>2. TimerTypeOK'
            BY <3>1 DEF TimerTypeOK
        <3>3. QueueTypeOK'
            BY <2>1 DEF queueVars, QueueTypeOK
        <3> QED BY <3>2, <3>3
    <2>4. NothingWaitsOnOpen'
        BY <2>1, DoConnectEffect DEF NothingWaitsOnOpen, queueVars, connVars
    <2> QED BY <2>2, <2>3, <2>4
<1>3. ASSUME NEW c \in Conn, Opened(c) PROVE IInv'
    <2>1. FlushBuffer(ready')
        BY <1>3 DEF Opened
    <2>2. ConnTypeOK'
        BY <1>3 DEF Opened, ConnTypeOK, ownerVars, State, ConnState
    <2>3. TimerTypeOK'
        BY <1>3 DEF Opened, TimerTypeOK, MaxAttempts
    <2>4. QueueTypeOK' /\ NothingWaitsOnOpen'
        BY <1>3, <2>1, FlushEffect DEF Opened, NothingWaitsOnOpen
    <2> QED BY <2>2, <2>3, <2>4
<1>4. ASSUME NEW c \in Conn, PairConfirmed(c) \/ Lost(c) PROVE IInv'
    <2>1. /\ UNCHANGED <<ws, heartbeatTimer, timerVars, queueVars, owner>>
          /\ state' \in State
          /\ ready' \in [Conn -> ConnState]
          /\ \A d \in Conn : ready'[d] = "open" => ready[d] = "open"
        BY <1>4 DEF PairConfirmed, Lost, ConnTypeOK, ownerVars, State, ConnState
    <2>2. TypeOK'
        BY <2>1 DEF ConnTypeOK, TimerTypeOK, QueueTypeOK, timerVars, queueVars
    <2>3. NothingWaitsOnOpen'
        BY <2>1 DEF NothingWaitsOnOpen, queueVars, ConnTypeOK
    <2> QED BY <2>2, <2>3
<1>5. ASSUME NEW c \in Conn, Closed(c) PROVE IInv'
    <2>1. TimerTypeOK'
        BY <1>5, ScheduleEffect DEF Closed, TimerTypeOK, timerVars
    <2>2. ConnTypeOK'
        BY <1>5 DEF Closed, ConnTypeOK, ownerVars, State, ConnState
    <2>3. QueueTypeOK' /\ NothingWaitsOnOpen'
        BY <1>5 DEF Closed, QueueTypeOK, queueVars, NothingWaitsOnOpen
    <2> QED BY <2>1, <2>2, <2>3
<1>6. CASE Disconnect
    <2>1. ready' \in [Conn -> ConnState]
        BY <1>6 DEF Disconnect, ConnTypeOK, ConnState
    <2>2. ConnTypeOK'
        BY <1>6, <2>1 DEF Disconnect, ConnTypeOK, State
    <2>3. TimerTypeOK'
        <3>1. reconnectTimer' \in BOOLEAN /\ reconnectAttempts' = 0 /\ delay' = delay
            BY <1>6, Zenon DEF Disconnect
        <3>2. 0 \in 0 .. MaxAttempts
            BY DEF MaxAttempts
        <3> QED BY <3>1, <3>2 DEF TimerTypeOK
    <2>4. QueueTypeOK'
        <3>1. <<>> \in Seq(1 .. MaxSends)
            OBVIOUS
        <3> QED BY <1>6, <3>1 DEF Disconnect, QueueTypeOK
    <2>5. NothingWaitsOnOpen'
        BY <1>6 DEF Disconnect, NothingWaitsOnOpen
    <2> QED BY <2>2, <2>3, <2>4, <2>5
<1>7. CASE Send \/ Heartbeat
    <2>1. DoSend
        BY <1>7 DEF Send, Heartbeat
    <2>2. accepted' \in 1 .. MaxSends
        BY <2>1, SendsAssumption DEF DoSend, QueueTypeOK
    <2>3. /\ Append(written, accepted') \in Seq(1 .. MaxSends)
          /\ Append(outboundBuffer, accepted') \in Seq(1 .. MaxSends)
        BY <2>2 DEF QueueTypeOK
    <2>4. QueueTypeOK'
        <3>1. \/ written' = Append(written, accepted') /\ outboundBuffer' = outboundBuffer
              \/ outboundBuffer' = Append(outboundBuffer, accepted') /\ written' = written
            BY <2>1 DEF DoSend
        <3>2. accepted' \in 0 .. MaxSends
            BY <2>2
        <3> QED BY <3>1, <3>2, <2>3 DEF QueueTypeOK
    <2>5. ConnTypeOK' /\ TimerTypeOK'
        BY <2>1 DEF DoSend, ConnTypeOK, ownerVars, TimerTypeOK, connVars, timerVars
    <2>6. NothingWaitsOnOpen'
        BY <2>1 DEF DoSend, NothingWaitsOnOpen, connVars
    <2> QED BY <2>4, <2>5, <2>6
<1> QED BY <1>1, <1>2, <1>3, <1>4, <1>5, <1>6, <1>7 DEF Next

LEMMA SpecIInv == Spec => []IInv
BY InitIInv, NextIInv, PTL DEF Spec

\* Every field keeps its type.
THEOREM ClientTypeCorrect == Spec => []TypeOK
BY SpecIInv, PTL DEF IInv

\* The client implements the outbound queue, however late the close events of
\* its earlier connections come and however often it is restarted.
THEOREM ClientKeepsOrder == Spec => KeepsOrder
<1>1. Init => Queue!Init
    BY DEF Init, Queue!Init
<1>2. IInv /\ [Next]_vars => [Queue!Next]_<<accepted, written, outboundBuffer>>
    <2> SUFFICES ASSUME IInv, Next
                 PROVE  Queue!Next \/ UNCHANGED queueVars
        BY DEF vars, queueVars
    <2>1. CASE Send \/ Heartbeat
        <3>1. DoSend
            BY <2>1 DEF Send, Heartbeat
        <3>2. CASE ws # Null /\ ready[ws] = "open"
            BY <3>1, <3>2 DEF DoSend, IInv, NothingWaitsOnOpen, Queue!Next, Queue!WriteAtOnce
        <3>3. CASE ~(ws # Null /\ ready[ws] = "open")
            BY <3>1, <3>3 DEF DoSend, Queue!Next, Queue!Hold
        <3> QED BY <3>2, <3>3
    <2>2. CASE Disconnect
        BY <2>2 DEF Disconnect, Queue!Next, Queue!Discard
    <2>3. ASSUME NEW c \in Conn, Opened(c)
          PROVE  Queue!Next \/ UNCHANGED queueVars
        BY <2>3 DEF Opened, FlushBuffer, Queue!Next, Queue!Flush
    <2>4. CASE Connect \/ ReconnectTimerFires \/ \E c \in Conn : PairConfirmed(c) \/ Lost(c) \/ Closed(c)
        BY <2>4 DEF Connect, ReconnectTimerFires, PairConfirmed, Lost, Closed
    <2> QED BY <2>1, <2>2, <2>3, <2>4 DEF Next
<1> QED BY <1>1, <1>2, SpecIInv, PTL DEF Spec, KeepsOrder, Queue!Spec

\* The wire and, after it, the buffer are in the order of the calls.
QueueOrder ==
    /\ accepted \in Nat /\ written \in Seq(1 .. accepted) /\ outboundBuffer \in Seq(1 .. accepted)
    /\ \A i, j \in 1 .. Len(written) : i < j => written[i] < written[j]
    /\ \A i, j \in 1 .. Len(outboundBuffer) : i < j => outboundBuffer[i] < outboundBuffer[j]
    /\ \A i \in 1 .. Len(written), j \in 1 .. Len(outboundBuffer) : written[i] < outboundBuffer[j]

\* A new message comes after all the others.
LEMMA NewIsLast ==
    ASSUME NEW n \in Nat, NEW s \in Seq(1 .. n), NEW t, t = Append(s, n + 1)
    PROVE  /\ t \in Seq(1 .. n + 1) /\ s \in Seq(1 .. n + 1)
           /\ \A i \in 1 .. Len(t) : \/ i \in 1 .. Len(s) /\ t[i] = s[i] /\ t[i] < n + 1
                                     \/ i = Len(s) + 1 /\ t[i] = n + 1
           /\ (\A i, j \in 1 .. Len(s) : i < j => s[i] < s[j])
                 => \A i, j \in 1 .. Len(t) : i < j => t[i] < t[j]
<1>1. 1 .. n \subseteq 1 .. n + 1
    OBVIOUS
<1>2. s \in Seq(1 .. n + 1) /\ n + 1 \in 1 .. n + 1
    BY <1>1, SeqMonotonic
<1>3. /\ t \in Seq(1 .. n + 1) /\ Len(t) = Len(s) + 1 /\ Len(s) \in Nat
      /\ \A i \in 1 .. Len(s) : t[i] = s[i]
      /\ t[Len(s) + 1] = n + 1
    BY <1>2, AppendProperties, LenProperties
<1>4. \A i \in 1 .. Len(s) : s[i] \in 1 .. n
    BY ElementOfSeq
<1>5. \A i \in 1 .. Len(t) : \/ i \in 1 .. Len(s) /\ t[i] = s[i] /\ t[i] < n + 1
                             \/ i = Len(s) + 1 /\ t[i] = n + 1
    BY <1>3, <1>4
<1> QED
    BY <1>2, <1>3, <1>5

LEMMA QueueStep == QueueOrder /\ [Queue!Next]_<<accepted, written, outboundBuffer>> => QueueOrder'
<1> SUFFICES ASSUME QueueOrder, [Queue!Next]_<<accepted, written, outboundBuffer>>
             PROVE  QueueOrder'
    OBVIOUS
<1> DEFINE N == accepted + 1
<1>1. CASE Queue!WriteAtOnce
    <2>1. /\ accepted' = N /\ N \in Nat /\ written' = Append(written, N)
          /\ outboundBuffer' = <<>>
        BY <1>1 DEF Queue!WriteAtOnce, QueueOrder
    <2>2. <<>> \in Seq(1 .. N) /\ Len(<<>>) = 0
        BY EmptySeq
    <2>3. /\ written' \in Seq(1 .. N)
          /\ \A i, j \in 1 .. Len(written') : i < j => written'[i] < written'[j]
        <3>1. PICK n \in Nat : n = accepted
            BY DEF QueueOrder
        <3>2. PICK s : s = written
            OBVIOUS
        <3>3. PICK t : t = written'
            OBVIOUS
        <3>4. /\ s \in Seq(1 .. n) /\ t = Append(s, n + 1)
              /\ \A i, j \in 1 .. Len(s) : i < j => s[i] < s[j]
            BY <2>1, <3>1, <3>2, <3>3 DEF QueueOrder
        <3>5. t \in Seq(1 .. n + 1) /\ \A i, j \in 1 .. Len(t) : i < j => t[i] < t[j]
            BY <3>4, NewIsLast
        <3> QED
            BY <3>1, <3>3, <3>5
    <2>4. outboundBuffer' \in Seq(1 .. accepted') /\ Len(outboundBuffer') = 0
        BY <2>1, <2>2
    <2>5. accepted' \in Nat /\ written' \in Seq(1 .. accepted')
        BY <2>1, <2>3
    <2> QED
        BY <2>3, <2>4, <2>5 DEF QueueOrder
<1>2. CASE Queue!Hold
    <2>1. /\ accepted' = N /\ N \in Nat /\ written' = written
          /\ outboundBuffer' = Append(outboundBuffer, N)
        BY <1>2 DEF Queue!Hold, QueueOrder
    <2>2. /\ outboundBuffer' \in Seq(1 .. N)
          /\ \A i, j \in 1 .. Len(outboundBuffer') : i < j => outboundBuffer'[i] < outboundBuffer'[j]
          /\ \A i \in 1 .. Len(outboundBuffer') :
                \/ i \in 1 .. Len(outboundBuffer) /\ outboundBuffer'[i] = outboundBuffer[i]
                \/ outboundBuffer'[i] = N
        <3>1. PICK n \in Nat : n = accepted
            BY DEF QueueOrder
        <3>2. PICK s : s = outboundBuffer
            OBVIOUS
        <3>3. PICK t : t = outboundBuffer'
            OBVIOUS
        <3>4. /\ s \in Seq(1 .. n) /\ t = Append(s, n + 1)
              /\ \A i, j \in 1 .. Len(s) : i < j => s[i] < s[j]
            BY <2>1, <3>1, <3>2, <3>3 DEF QueueOrder
        <3>5. /\ t \in Seq(1 .. n + 1)
              /\ \A i \in 1 .. Len(t) : \/ i \in 1 .. Len(s) /\ t[i] = s[i] /\ t[i] < n + 1
                                        \/ i = Len(s) + 1 /\ t[i] = n + 1
              /\ \A i, j \in 1 .. Len(t) : i < j => t[i] < t[j]
            BY <3>4, NewIsLast
        <3> QED
            BY <3>1, <3>2, <3>3, <3>5
    <2>3. written \in Seq(1 .. N) /\ \A i \in 1 .. Len(written) : written[i] < N
        <3>1. \A i \in 1 .. Len(written) : written[i] \in 1 .. accepted
            BY ElementOfSeq DEF QueueOrder
        <3>2. 1 .. accepted \subseteq 1 .. N
            BY DEF QueueOrder
        <3> QED
            BY <3>1, <3>2, SeqMonotonic DEF QueueOrder
    <2> QED
        BY <2>1, <2>2, <2>3 DEF QueueOrder
<1>3. CASE Queue!Flush
    <2>1. /\ accepted' = accepted /\ written' = written \o outboundBuffer
          /\ outboundBuffer' = <<>>
        BY <1>3 DEF Queue!Flush
    <2>2. <<>> \in Seq(1 .. accepted) /\ Len(<<>>) = 0
        BY EmptySeq
    <2>3. /\ written' \in Seq(1 .. accepted)
          /\ Len(written) \in Nat /\ Len(outboundBuffer) \in Nat
          /\ Len(written') = Len(written) + Len(outboundBuffer)
          /\ \A i \in 1 .. Len(written') :
                written'[i] = IF i <= Len(written) THEN written[i]
                              ELSE outboundBuffer[i - Len(written)]
        BY <2>1, ConcatProperties, LenProperties DEF QueueOrder
    <2>4. \A i \in 1 .. Len(written') :
              \/ i \in 1 .. Len(written) /\ written'[i] = written[i]
              \/ /\ i > Len(written) /\ i - Len(written) \in 1 .. Len(outboundBuffer)
                 /\ written'[i] = outboundBuffer[i - Len(written)]
        BY <2>3
    <2>5. ASSUME NEW i \in 1 .. Len(written'), NEW j \in 1 .. Len(written'), i < j
          PROVE  written'[i] < written'[j]
        <3>1. CASE j \in 1 .. Len(written)
            <4>1. i \in 1 .. Len(written)
                BY <2>3, <2>5, <3>1
            <4>2. written[i] < written[j]
                BY <2>5, <3>1, <4>1 DEF QueueOrder
            <4>3. written'[i] = written[i] /\ written'[j] = written[j]
                BY <2>3, <3>1, <4>1
            <4> QED
                BY <4>2, <4>3
        <3>2. CASE i \in 1 .. Len(written) /\ j > Len(written)
            <4>1. PICK k \in 1 .. Len(outboundBuffer) : k = j - Len(written)
                BY <2>3, <3>2
            <4>2. written[i] < outboundBuffer[k]
                BY <3>2, <4>1 DEF QueueOrder
            <4>3. written'[i] = written[i] /\ written'[j] = outboundBuffer[k]
                BY <2>3, <3>2, <4>1
            <4> QED
                BY <4>2, <4>3
        <3>3. CASE i > Len(written)
            <4>1. /\ i - Len(written) \in 1 .. Len(outboundBuffer)
                  /\ j - Len(written) \in 1 .. Len(outboundBuffer)
                  /\ i - Len(written) < j - Len(written)
                BY <2>3, <2>5, <3>3
            <4>2. /\ written'[i] = outboundBuffer[i - Len(written)]
                  /\ written'[j] = outboundBuffer[j - Len(written)]
                BY <2>3, <2>5, <3>3
            <4> QED
                BY <4>1, <4>2 DEF QueueOrder
        <3> QED
            BY <2>3, <3>1, <3>2, <3>3
    <2> QED
        BY <2>1, <2>2, <2>3, <2>5 DEF QueueOrder
<1>4. CASE Queue!Discard
    <2>1. <<>> \in Seq(1 .. accepted) /\ Len(<<>>) = 0
        BY EmptySeq
    <2> QED
        BY <1>4, <2>1 DEF Queue!Discard, QueueOrder
<1>5. CASE UNCHANGED <<accepted, written, outboundBuffer>>
    BY <1>5 DEF QueueOrder
<1> QED
    BY <1>1, <1>2, <1>3, <1>4, <1>5 DEF Queue!Next

\* So the client never writes a message before an earlier one, and none twice,
\* over however many connections (relay-client.ts:165-172, 201-207).
THEOREM ClientWritesInOrder == Spec => []Queue!WrittenInOrder
<1>1. Queue!Init => QueueOrder
    BY EmptySeq DEF Queue!Init, QueueOrder
<1>2. QueueOrder => Queue!WrittenInOrder
    BY DEF QueueOrder, Queue!WrittenInOrder
<1> QED
    BY <1>1, <1>2, QueueStep, ClientKeepsOrder, PTL DEF KeepsOrder, Queue!Spec

\* A client that is not restarted keeps to one connection.
LEMMA NextSingle ==
    ASSUME ~restarted', IInv, SingleConnection, [Next]_vars
    PROVE  SingleConnection'
<1> USE DEF IInv, TypeOK
<1>1. CASE UNCHANGED vars
    BY <1>1 DEF vars, connVars, timerVars, ownerVars, SingleConnection, Live
<1>2. ASSUME DoConnect, Live = {}, ~reconnectTimer', owner' # "idle",
             UNCHANGED <<reconnectAttempts, delay>>
      PROVE  SingleConnection'
    <2>1. ws = Null /\ ~heartbeatTimer
        BY <1>2 DEF SingleConnection, ConnTypeOK
    <2>2. PICK c \in Conn :
              /\ ws' = c /\ state' = "connecting"
              /\ \A d \in Conn : ready'[d] = IF d = c THEN "connecting" ELSE ready[d]
        BY <1>2, <2>1 DEF DoConnect, ConnTypeOK
    <2>3. Live' = {c} /\ \A d \in Conn : ready'[d] = IF d = c THEN "connecting" ELSE "free"
        BY <1>2, <2>2 DEF Live
    <2>4. heartbeatTimer' = heartbeatTimer
        BY <1>2, DoConnectEffect
    <2>5. c # Null
        BY NullAssumption
    <2> QED BY <1>2, <2>1, <2>2, <2>3, <2>4, <2>5 DEF SingleConnection
<1>3. CASE Connect
    <2>1. DoConnect /\ owner = "idle" /\ owner' = "using" /\ UNCHANGED timerVars
        BY <1>3, Zenon DEF Connect
    <2> QED BY <2>1, <1>2 DEF SingleConnection, timerVars
<1>4. CASE ReconnectTimerFires
    <2>1. /\ DoConnect /\ reconnectTimer /\ ~reconnectTimer' /\ owner' = owner
          /\ UNCHANGED <<reconnectAttempts, delay>>
        BY <1>4 DEF ReconnectTimerFires, ownerVars
    <2> QED BY <2>1, <1>2 DEF SingleConnection
<1>5. ASSUME NEW c \in Conn, Opened(c) PROVE SingleConnection'
    <2>1. ws = c /\ Live = {c} /\ c # Null
        BY <1>5, NullAssumption DEF Opened, SingleConnection, Live
    <2>2. /\ \A d \in Conn : ready'[d] = IF d = c THEN "open" ELSE "free"
          /\ ws' = c /\ heartbeatTimer' /\ reconnectAttempts' = 0 /\ delay' = delay
          /\ reconnectTimer' = reconnectTimer /\ owner' = owner
        BY <1>5, <2>1 DEF Opened, ConnTypeOK, Live, ownerVars
    <2>3. Live' = {c} /\ ~reconnectTimer /\ owner # "idle"
        BY <2>1, <2>2 DEF Live, SingleConnection
    <2> QED BY <2>1, <2>2, <2>3 DEF SingleConnection
<1>6. ASSUME NEW c \in Conn, PairConfirmed(c) PROVE SingleConnection'
    <2>1. /\ UNCHANGED <<ws, ready, heartbeatTimer, reconnectTimer, reconnectAttempts, delay, owner>>
          /\ ready[c] \in {"open", "closing"}
        BY <1>6 DEF PairConfirmed, timerVars, ownerVars
    <2>2. reconnectAttempts # 1
        BY <2>1 DEF SingleConnection
    <2> QED BY <2>1, <2>2 DEF SingleConnection, Live
<1>7. ASSUME NEW c \in Conn, Lost(c) PROVE SingleConnection'
    <2>1. /\ UNCHANGED <<ws, state, heartbeatTimer, reconnectTimer, reconnectAttempts, delay, owner>>
          /\ ready[c] \in {"connecting", "open", "closing"}
          /\ \A d \in Conn : ready'[d] = IF d = c THEN "ending" ELSE ready[d]
        BY <1>7 DEF Lost, timerVars, ConnTypeOK, ownerVars
    <2>2. Live' = Live
        BY <2>1 DEF Live
    <2>3. heartbeatTimer => ws # Null /\ ready'[ws] \in {"open", "ending"}
        BY <2>1 DEF SingleConnection, ConnTypeOK
    <2> QED BY <2>1, <2>2, <2>3 DEF SingleConnection
<1>8. ASSUME NEW c \in Conn, Closed(c) PROVE SingleConnection'
    <2>1. /\ ready[c] \in {"closing", "ending"} /\ ws' = Null /\ ~heartbeatTimer'
          /\ state' = "disconnected" /\ owner' = owner
          /\ \A d \in Conn : ready'[d] = IF d = c THEN "free" ELSE ready[d]
        BY <1>8 DEF Closed, ConnTypeOK, ownerVars
    <2>2. Live = {c} /\ ~reconnectTimer /\ owner # "idle"
        BY <2>1 DEF SingleConnection, Live
    <2>3. Live' = {} /\ \A d \in Conn : ready'[d] = "free"
        BY <2>1, <2>2 DEF Live
    <2>4. reconnectAttempts' <= 1 /\ delay' \in {0, 1000}
        <3>1. CASE state \in {"connected", "paired"}
            <4>1. ScheduleReconnect /\ reconnectAttempts = 0
                BY <3>1, <1>8 DEF Closed, SingleConnection, TimerTypeOK, MaxAttempts
            <4> QED BY <4>1, <2>2, ScheduleEffect
        <3>2. CASE state \notin {"connected", "paired"}
            BY <3>2, <1>8 DEF Closed, SingleConnection, timerVars
        <3> QED BY <3>1, <3>2
    <2> QED BY <2>1, <2>2, <2>3, <2>4 DEF SingleConnection
<1>9. CASE Disconnect
    <2>1. /\ ws' = Null /\ ~heartbeatTimer' /\ ~reconnectTimer' /\ reconnectAttempts' = 0
          /\ delay' = delay /\ owner' = "done"
        BY <1>9 DEF Disconnect
    <2>2. \A d \in Conn : ready'[d] = CASE d = ws /\ ready[d] = "open" -> "closing"
                                        [] d = ws /\ ready[d] = "connecting" -> "ending"
                                        [] OTHER -> ready[d]
        BY <1>9 DEF Disconnect
    <2>3. \A d \in Conn : ready'[d] \notin {"open", "connecting"} /\ (ready'[d] # "free" => ready[d] # "free")
        BY <2>2 DEF SingleConnection
    <2>4. Live' \subseteq Live
        BY <2>3 DEF Live
    <2> QED BY <2>1, <2>3, <2>4 DEF SingleConnection
<1>10. CASE Send \/ Heartbeat
    BY <1>10 DEF Send, Heartbeat, DoSend, connVars, timerVars, ownerVars, SingleConnection, Live
<1> QED BY <1>1, <1>3, <1>4, <1>5, <1>6, <1>7, <1>8, <1>9, <1>10 DEF Next

\* A restart is remembered.
LEMMA RestartStays == [Next]_vars /\ ~restarted' => ~restarted
BY Zenon DEF Next, vars, ownerVars, Connect, ReconnectTimerFires, Opened, PairConfirmed, Lost,
             Closed, Disconnect, Send, Heartbeat, DoSend

LEMMA SpecSingle == Spec => [](IInv /\ (~restarted => SingleConnection))
<1> DEFINE Inv == IInv /\ (~restarted => SingleConnection)
<1>1. Init => Inv
    BY InitIInv
<1>2. Inv /\ [Next]_vars => Inv'
    <2>1. ASSUME Inv, [Next]_vars PROVE IInv'
        BY <2>1, NextIInv, Zenon
    <2>2. ASSUME Inv, [Next]_vars, ~restarted' PROVE SingleConnection'
        <3>1. SingleConnection
            BY <2>2, RestartStays, Zenon
        <3> QED BY <3>1, <2>2, NextSingle, Zenon
    <2> QED BY <2>1, <2>2, Zenon
<1> QED BY <1>1, <1>2, PTL DEF Spec

\* Nothing waits in the buffer while the held connection is open, for any owner.
THEOREM ClientNothingWaits == Spec => []NothingWaitsOnOpen
BY SpecIInv, PTL DEF IInv

\* At most one connection, and none while a retry is pending.
THEOREM ClientHasOneConnection == Spec => []OneConnectionAtATime
<1>1. (~restarted => SingleConnection) => OneConnectionAtATime
    BY DEF SingleConnection, OneConnectionAtATime
<1> QED BY <1>1, SpecSingle, PTL

\* The heartbeat runs on an open connection, and on no other.
THEOREM ClientHeartbeat == Spec => []HeartbeatFollowsConnection
<1>1. (~restarted => SingleConnection) => HeartbeatFollowsConnection
    BY DEF SingleConnection, HeartbeatFollowsConnection
<1> QED BY <1>1, SpecSingle, PTL

\* The reconnect delay is never more than the base delay.
THEOREM ClientBackoff == Spec => []BackoffNeverGrows
<1>1. (~restarted => SingleConnection) => BackoffNeverGrows
    BY DEF SingleConnection, BackoffNeverGrows
<1> QED BY <1>1, SpecSingle, PTL

===============================================================================
