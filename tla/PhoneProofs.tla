------------------------------ MODULE PhoneProofs ------------------------------
(***************************************************************************)
(* What holds of the app's own parts for every value of the constants: the *)
(* thread screen, the database of threads, and the screens that start a    *)
(* pairing.  Each section proves its part's type invariant, then the       *)
(* strengthening its properties need, then the properties.                 *)
(***************************************************************************)
EXTENDS ThreadScreen, ThreadStorage, PairScreen, TLAPS

-----------------------------------------------------------------------------
(* The thread screen.                                                      *)

\* The screen's variables keep their types, through sends, answers and Stop.
THEOREM ScreenTypeCorrect == ScreenSpec => []ScreenTypeOK
<1>1. ScreenInit => ScreenTypeOK
    <2> SUFFICES ASSUME ScreenInit PROVE ScreenTypeOK
        OBVIOUS
    <2>1. messages \in Seq(Message)
        BY DEF ScreenInit
    <2>2. clock \in Nat /\ turns \in Nat /\ activeTurnId \in Nat \cup {NoTurn}
        BY DEF ScreenInit
    <2>3. isStreaming \in BOOLEAN /\ timers \in SUBSET Timer /\ stopped \in SUBSET Nat
        BY DEF ScreenInit
    <2> QED
        BY <2>1, <2>2, <2>3 DEF ScreenTypeOK
<1>2. ScreenTypeOK /\ [ScreenNext]_screenVars => ScreenTypeOK'
    <2> SUFFICES ASSUME ScreenTypeOK, [ScreenNext]_screenVars PROVE ScreenTypeOK'
        OBVIOUS
    <2> USE ScreenAssumption DEF ScreenTypeOK, Message, Timer
    <2>1. ASSUME NEW t \in Thread, Send(t) PROVE ScreenTypeOK'
        <3>1. turns' \in Nat /\ Question(t, turns') \in Message
            BY <2>1 DEF Send, Question
        <3>2. messages' \in Seq(Message)
            BY <2>1, <3>1 DEF Send
        <3> QED
            BY <2>1, <3>1, <3>2 DEF Send
    <2>2. ASSUME NEW m \in timers, Answer(m) PROVE ScreenTypeOK'
        <3>1. Reply(m) \in Message
            BY DEF Reply
        <3>2. messages' \in Seq(Message)
            BY <2>2, <3>1 DEF Answer
        <3> QED
            BY <2>2, <3>2 DEF Answer
    <2>3. CASE Interrupt
        BY <2>3 DEF Interrupt
    <2>4. CASE Tick
        BY <2>4 DEF Tick
    <2>5. CASE UNCHANGED screenVars
        BY <2>5 DEF screenVars
    <2> QED
        BY <2>1, <2>2, <2>3, <2>4, <2>5 DEF ScreenNext
<1> QED
    BY <1>1, <1>2, PTL DEF ScreenSpec

\* A message is put at the end.
LEMMA AppendedMessage ==
    ASSUME NEW x, ScreenTypeOK, messages' = Append(messages, x)
    PROVE  /\ Len(messages') = Len(messages) + 1
           /\ Len(messages) \in Nat
           /\ messages'[Len(messages) + 1] = x
           /\ \A i \in 1 .. Len(messages) : messages'[i] = messages[i]
    BY DEF ScreenTypeOK

\* What putting one at the end does to the places of each kind.
LEMMA AppendedPlaces ==
    ASSUME NEW x \in Message, ScreenTypeOK, messages' = Append(messages, x), NEW role
    PROVE  /\ Len(messages) + 1 \in Nat /\ messages'[Len(messages) + 1] = x
           /\ Places(role)' = IF x.role = role THEN Places(role) \cup {Len(messages) + 1}
                              ELSE Places(role)
           /\ \A i \in Places(role) :
                 /\ i \in Nat /\ i < Len(messages) + 1
                 /\ messages'[i] = messages[i] /\ messages[i] \in Message
<1>1. /\ Len(messages') = Len(messages) + 1 /\ Len(messages) \in Nat
      /\ messages'[Len(messages) + 1] = x
      /\ \A i \in 1 .. Len(messages) : messages'[i] = messages[i]
    BY AppendedMessage
<1>2. 1 .. Len(messages') = (1 .. Len(messages)) \cup {Len(messages) + 1}
    BY <1>1
<1>3. \A i \in 1 .. Len(messages) : messages[i] \in Message
    BY DEF ScreenTypeOK
<1> QED
    BY <1>1, <1>2, <1>3 DEF Places

\* Turns are numbered as they are sent, each has one message of the user, and
\* one timer until its answer is there; timers end in the order of their turns.
TurnsInv ==
    /\ \A m \in timers : m.turn <= turns
    /\ \A m, o \in timers : m.turn = o.turn => m = o
    /\ \A m \in timers : \E i \in Places("user") :
          messages[i].turn = m.turn /\ messages[i].thread = m.thread
    /\ \A i \in 1 .. Len(messages) : messages[i].turn <= turns
    /\ \A j \in Places("assistant"), m \in timers : messages[j].turn < m.turn

\* EveryMessageAnswered, and an answer or a timer for the stopped as well.
AnswersInv ==
    /\ \A j \in Places("assistant") : \E i \in Places("user") :
          /\ i < j
          /\ messages[i].turn = messages[j].turn /\ messages[i].thread = messages[j].thread
    /\ \A j, l \in Places("assistant") : j < l => messages[j].turn < messages[l].turn
    /\ \A i \in Places("user") :
          \/ \E m \in timers : m.turn = messages[i].turn /\ m.thread = messages[i].thread
          \/ \E j \in Places("assistant") : messages[j].turn = messages[i].turn

\* What Send does, in terms of places: x is the message, at n, and y the timer.
Sent(t, x, y, n) ==
    /\ n = Len(messages) + 1 /\ messages' = Append(messages, x) /\ messages'[n] = x
    /\ turns' = turns + 1 /\ turns \in Nat /\ clock' = clock /\ stopped' = stopped
    /\ x.role = "user" /\ x.thread = t /\ x.turn = turns + 1
    /\ x.at = clock /\ x.id = clock
    /\ timers' = timers \cup {y} /\ y.turn = turns + 1 /\ y.thread = t /\ y.sent = clock
    /\ isStreaming' = TRUE /\ activeTurnId' = clock
    /\ Places("user")' = Places("user") \cup {n}
    /\ Places("assistant")' = Places("assistant")

LEMMA SendEffect ==
    ASSUME ScreenTypeOK, NEW t \in Thread, Send(t)
    PROVE  \E x \in Message, y \in Timer, n \in Nat : Sent(t, x, y, n)
<1> DEFINE x == Question(t, turns + 1)
           y == [turn |-> turns + 1, thread |-> t, sent |-> clock]
<1>1. /\ turns \in Nat /\ clock \in Nat /\ messages \in Seq(Message)
      /\ turns' = turns + 1 /\ messages' = Append(messages, x) /\ timers' = timers \cup {y}
      /\ clock' = clock /\ stopped' = stopped /\ isStreaming' = TRUE /\ activeTurnId' = clock
    BY DEF Send, ScreenTypeOK
<1>2. /\ x \in Message /\ y \in Timer
      /\ x.role = "user" /\ x.thread = t /\ x.turn = turns + 1 /\ x.at = clock /\ x.id = clock
      /\ y.turn = turns + 1 /\ y.thread = t /\ y.sent = clock
    BY <1>1 DEF Question, Message, Timer
<1> HIDE DEF x, y
<1>3. /\ Len(messages) + 1 \in Nat /\ messages'[Len(messages) + 1] = x
      /\ Places("user")' = Places("user") \cup {Len(messages) + 1}
      /\ Places("assistant")' = Places("assistant")
    BY <1>1, <1>2, AppendedPlaces
<1> QED
    BY <1>1, <1>2, <1>3 DEF Sent

\* What Answer does: x is the message, at n.
Answered(m, x, n) ==
    /\ n = Len(messages) + 1 /\ messages' = Append(messages, x) /\ messages'[n] = x
    /\ turns' = turns /\ turns \in Nat /\ clock' = clock /\ stopped' = stopped
    /\ x.role = "assistant" /\ x.thread = m.thread /\ x.turn = m.turn
    /\ x.at = clock /\ x.id = clock + 1
    /\ timers' = timers \ {m} /\ (\A o \in timers : m.turn <= o.turn)
    /\ isStreaming' = FALSE
    /\ Places("user")' = Places("user")
    /\ Places("assistant")' = Places("assistant") \cup {n}

LEMMA AnswerEffect ==
    ASSUME ScreenTypeOK, NEW m \in timers, Answer(m)
    PROVE  \E x \in Message, n \in Nat : Answered(m, x, n)
<1> DEFINE x == Reply(m)
<1>1. /\ turns \in Nat /\ clock \in Nat /\ messages \in Seq(Message) /\ m \in Timer
      /\ turns' = turns /\ messages' = Append(messages, x) /\ timers' = timers \ {m}
      /\ clock' = clock /\ stopped' = stopped /\ isStreaming' = FALSE
      /\ \A o \in timers : m.turn <= o.turn
    BY DEF Answer, Due, ScreenTypeOK
<1>2. /\ x \in Message /\ x.role = "assistant" /\ x.thread = m.thread /\ x.turn = m.turn
      /\ x.at = clock /\ x.id = clock + 1
    BY <1>1 DEF Reply, Message, Timer
<1> HIDE DEF x
<1>3. /\ Len(messages) + 1 \in Nat /\ messages'[Len(messages) + 1] = x
      /\ Places("user")' = Places("user")
      /\ Places("assistant")' = Places("assistant") \cup {Len(messages) + 1}
    BY <1>1, <1>2, AppendedPlaces
<1> QED
    BY <1>1, <1>2, <1>3 DEF Answered

\* The messages keep their places.
LEMMA OldPlaces ==
    ASSUME ScreenTypeOK, NEW x \in Message, messages' = Append(messages, x)
    PROVE  /\ \A i \in Places("user") \cup Places("assistant") :
                 /\ i \in Nat /\ i < Len(messages) + 1
                 /\ messages'[i] = messages[i] /\ messages[i] \in Message
           /\ \A i \in 1 .. Len(messages') :
                 messages'[i] = x \/ (i \in 1 .. Len(messages) /\ messages'[i] = messages[i])
<1>1. \A i \in Places("user") \cup Places("assistant") :
          /\ i \in Nat /\ i < Len(messages) + 1
          /\ messages'[i] = messages[i] /\ messages[i] \in Message
    BY AppendedPlaces
<1>2. /\ Len(messages') = Len(messages) + 1 /\ Len(messages) \in Nat
      /\ messages'[Len(messages) + 1] = x
      /\ \A i \in 1 .. Len(messages) : messages'[i] = messages[i]
    BY AppendedMessage
<1>3. \A i \in 1 .. Len(messages') : i \in 1 .. Len(messages) \/ i = Len(messages) + 1
    BY <1>2
<1>4. \A i \in 1 .. Len(messages') :
          messages'[i] = x \/ (i \in 1 .. Len(messages) /\ messages'[i] = messages[i])
    BY <1>2, <1>3
<1> QED
    BY <1>1, <1>4

\* Turns, messages and timers stay in step.
LEMMA ScreenTurns == ScreenSpec => [](TurnsInv /\ AnswersInv)
<1>1. ScreenInit => TurnsInv /\ AnswersInv
    BY DEF ScreenInit, TurnsInv, AnswersInv, Places
<1>2. ScreenTypeOK /\ TurnsInv /\ AnswersInv /\ [ScreenNext]_screenVars => (TurnsInv /\ AnswersInv)'
    <2> SUFFICES ASSUME ScreenTypeOK, TurnsInv, AnswersInv, [ScreenNext]_screenVars
                 PROVE  TurnsInv' /\ AnswersInv'
        OBVIOUS
    <2>0. /\ \A m \in timers : m.turn \in Nat
          /\ \A i \in 1 .. Len(messages) : messages[i].turn \in Nat
        <3>1. \A i \in 1 .. Len(messages) : messages[i] \in Message
            BY DEF ScreenTypeOK
        <3> QED
            BY <3>1 DEF ScreenTypeOK, Timer, Message
    <2>1. ASSUME NEW t \in Thread, Send(t) PROVE TurnsInv' /\ AnswersInv'
        <3>0. PICK x \in Message, y \in Timer, n \in Nat : Sent(t, x, y, n)
            BY <2>1, SendEffect
        <3>1. /\ n = Len(messages) + 1 /\ messages' = Append(messages, x) /\ messages'[n] = x
              /\ turns' = turns + 1 /\ turns \in Nat
              /\ x.role = "user" /\ x.thread = t /\ x.turn = turns + 1
              /\ timers' = timers \cup {y} /\ y.turn = turns + 1 /\ y.thread = t
              /\ Places("user")' = Places("user") \cup {n}
              /\ Places("assistant")' = Places("assistant")
            BY <3>0 DEF Sent
        <3>2. /\ \A i \in Places("user") \cup Places("assistant") :
                    /\ i \in Nat /\ i < n /\ i \in 1 .. Len(messages)
                    /\ messages'[i] = messages[i] /\ messages[i].turn \in Nat
              /\ \A i \in 1 .. Len(messages') : messages'[i] = x
                    \/ (i \in 1 .. Len(messages) /\ messages'[i] = messages[i])
              /\ \A i \in 1 .. Len(messages) : messages[i].turn \in Nat
            BY <2>0, <3>1, OldPlaces DEF Places
        <3>3. TurnsInv'
            BY <2>0, <3>1, <3>2 DEF TurnsInv
        <3>4. AnswersInv'
            BY <3>1, <3>2 DEF AnswersInv
        <3> QED
            BY <3>3, <3>4
    <2>2. ASSUME NEW m \in timers, Answer(m) PROVE TurnsInv' /\ AnswersInv'
        <3>0. PICK x \in Message, n \in Nat : Answered(m, x, n)
            BY <2>2, AnswerEffect
        <3>1. /\ n = Len(messages) + 1 /\ messages' = Append(messages, x) /\ messages'[n] = x
              /\ turns' = turns /\ turns \in Nat
              /\ x.role = "assistant" /\ x.thread = m.thread /\ x.turn = m.turn
              /\ timers' = timers \ {m} /\ (\A o \in timers : m.turn <= o.turn)
              /\ Places("user")' = Places("user")
              /\ Places("assistant")' = Places("assistant") \cup {n}
            BY <3>0 DEF Answered
        <3>2. /\ \A i \in Places("user") \cup Places("assistant") :
                    /\ i \in Nat /\ i < n /\ i \in 1 .. Len(messages)
                    /\ messages'[i] = messages[i] /\ messages[i].turn \in Nat
              /\ \A i \in 1 .. Len(messages') : messages'[i] = x
                    \/ (i \in 1 .. Len(messages) /\ messages'[i] = messages[i])
              /\ \A i \in 1 .. Len(messages) : messages[i].turn \in Nat
            BY <2>0, <3>1, OldPlaces DEF Places
        <3>3. \A o \in timers' : m.turn < o.turn
            BY <2>0, <3>1 DEF TurnsInv
        <3>4. TurnsInv'
            BY <2>0, <3>1, <3>2, <3>3 DEF TurnsInv
        <3>5. \A j \in Places("assistant") : messages[j].turn < m.turn
            BY DEF TurnsInv
        <3>6. \E i \in Places("user") : messages[i].turn = m.turn /\ messages[i].thread = m.thread
            BY DEF TurnsInv
        <3>7. \A j \in Places("assistant")' : \E i \in Places("user")' :
                 /\ i < j
                 /\ messages'[i].turn = messages'[j].turn /\ messages'[i].thread = messages'[j].thread
            BY <3>1, <3>2, <3>6 DEF AnswersInv
        <3>8. \A j, l \in Places("assistant")' : j < l => messages'[j].turn < messages'[l].turn
            BY <3>1, <3>2, <3>5 DEF AnswersInv
        <3>9. \A i \in Places("user")' :
                 \/ \E o \in timers' : o.turn = messages'[i].turn /\ o.thread = messages'[i].thread
                 \/ \E j \in Places("assistant")' : messages'[j].turn = messages'[i].turn
            BY <3>1, <3>2 DEF AnswersInv
        <3> QED
            BY <3>4, <3>7, <3>8, <3>9 DEF AnswersInv
    <2>3. CASE UNCHANGED <<messages, timers, turns>>
        BY <2>3 DEF TurnsInv, AnswersInv, Places
    <2> QED
        BY <2>1, <2>2, <2>3 DEF ScreenNext, Interrupt, Tick, screenVars
<1> QED
    BY <1>1, <1>2, ScreenTypeCorrect, PTL DEF ScreenSpec

\* Every answer follows its own message in its own thread, in the order the
\* messages were sent, and once; a message that was not stopped is answered or
\* its timer is to come (thread/[id].tsx:27-61).
THEOREM ScreenAnswersEveryMessage == ScreenSpec => []EveryMessageAnswered
<1>1. AnswersInv => EveryMessageAnswered
    BY DEF AnswersInv, EveryMessageAnswered
<1> QED
    BY <1>1, ScreenTurns, PTL

\* Only turns that were sent are stopped.
StoppedInv == \A k \in stopped : k <= turns

LEMMA ScreenStopped == ScreenSpec => []StoppedInv
<1>1. ScreenInit => StoppedInv
    BY DEF ScreenInit, StoppedInv
<1>2. ScreenTypeOK /\ StoppedInv /\ [ScreenNext]_screenVars => StoppedInv'
    <2> SUFFICES ASSUME ScreenTypeOK, StoppedInv, [ScreenNext]_screenVars PROVE StoppedInv'
        OBVIOUS
    <2>0. turns \in Nat /\ stopped \in SUBSET Nat
        BY DEF ScreenTypeOK
    <2>1. ASSUME NEW t \in Thread, Send(t) PROVE StoppedInv'
        BY <2>0, <2>1 DEF Send, StoppedInv
    <2>2. ASSUME NEW m \in timers, Answer(m) PROVE StoppedInv'
        BY <2>2 DEF Answer, StoppedInv
    <2>3. CASE Interrupt
        BY <2>0, <2>3 DEF Interrupt, StoppedInv
    <2>4. CASE UNCHANGED <<turns, stopped>>
        BY <2>4 DEF StoppedInv
    <2> QED
        BY <2>1, <2>2, <2>3, <2>4 DEF ScreenNext, Tick, screenVars
<1> QED
    BY <1>1, <1>2, ScreenTypeCorrect, PTL DEF ScreenSpec

\* What streams is the turn sent last; a turn that waits without streaming was
\* stopped, or cut short by a timer that a Stop before it left behind
\* (thread/[id].tsx:41-61).
THEOREM ScreenHasOneTurn == ScreenSpec => []OneTurnAtATime
<1>1. ScreenInit => OneTurnAtATime
    BY DEF ScreenInit, OneTurnAtATime
<1>2. ScreenTypeOK /\ TurnsInv /\ TurnsInv' /\ OneTurnAtATime /\ StoppedInv
      /\ [ScreenNext]_screenVars => OneTurnAtATime'
    <2> SUFFICES ASSUME ScreenTypeOK, TurnsInv, TurnsInv', OneTurnAtATime, StoppedInv,
                        [ScreenNext]_screenVars
                 PROVE  OneTurnAtATime'
        OBVIOUS
    <2>0. /\ \A m \in timers : m.turn \in Nat
          /\ turns \in Nat /\ stopped \in SUBSET Nat
        BY DEF ScreenTypeOK, Timer
    <2>1. ASSUME NEW t \in Thread, Send(t) PROVE OneTurnAtATime'
        <3>0. PICK x \in Message, y \in Timer, n \in Nat : Sent(t, x, y, n)
            BY <2>1, SendEffect
        <3>1. /\ n = Len(messages) + 1 /\ messages' = Append(messages, x)
              /\ turns' = turns + 1 /\ clock' = clock /\ stopped' = stopped
              /\ timers' = timers \cup {y} /\ y.turn = turns + 1 /\ y.sent = clock
              /\ isStreaming' = TRUE /\ activeTurnId' = clock
              /\ Places("user")' = Places("user") \cup {n}
              /\ Places("assistant")' = Places("assistant")
            BY <3>0 DEF Sent
        <3>2. \A i \in Places("user") \cup Places("assistant") : messages'[i] = messages[i]
            BY <3>1, OldPlaces
        <3>3. \A m \in timers : CutShort(m) => CutShort(m)'
            BY <3>1, <3>2 DEF CutShort
        <3>4. turns' \notin stopped'
            BY <2>0, <3>1 DEF StoppedInv
        <3>5. \A m \in timers : m.turn \in stopped' \/ (CutShort(m)' /\ \E k \in stopped' : k < m.turn)
            BY <2>1, <3>1, <3>3 DEF Send, OneTurnAtATime
        <3> QED
            BY <3>1, <3>4, <3>5 DEF OneTurnAtATime
    <2>2. ASSUME NEW m \in timers, Answer(m) PROVE OneTurnAtATime'
        <3>0. PICK x \in Message, n \in Nat : Answered(m, x, n)
            BY <2>2, AnswerEffect
        <3>1. /\ n = Len(messages) + 1 /\ messages' = Append(messages, x) /\ messages'[n] = x
              /\ turns' = turns /\ stopped' = stopped /\ x.turn = m.turn
              /\ timers' = timers \ {m} /\ (\A o \in timers : m.turn <= o.turn)
              /\ isStreaming' = FALSE
              /\ Places("user")' = Places("user")
              /\ Places("assistant")' = Places("assistant") \cup {n}
            BY <3>0 DEF Answered
        <3>2. \A i \in Places("user") \cup Places("assistant") : messages'[i] = messages[i] /\ i < n
            BY <3>1, OldPlaces
        <3>3. ASSUME NEW o \in timers'
              PROVE  o.turn \in stopped' \/ (CutShort(o)' /\ \E k \in stopped' : k < o.turn)
            <4>1. o \in timers /\ o # m /\ m.turn < o.turn
                BY <2>0, <3>1 DEF TurnsInv
            <4>2. CutShort(o)'
                <5>1. PICK i \in Places("user") : messages[i].turn = o.turn
                    BY <4>1 DEF TurnsInv
                <5>2. messages'[i].turn = o.turn /\ i < n /\ messages'[n].turn < o.turn
                    BY <3>1, <3>2, <4>1, <5>1
                <5> QED
                    BY <3>1, <5>1, <5>2 DEF CutShort
            <4>3. m.turn # turns
                BY <2>0, <4>1 DEF TurnsInv
            <4>4. \E k \in stopped : k <= m.turn
                BY <2>0, <4>3 DEF OneTurnAtATime
            <4> QED
                BY <2>0, <3>1, <4>1, <4>2, <4>4
        <3> QED
            BY <3>1, <3>3 DEF OneTurnAtATime
    <2>3. CASE Interrupt
        <3>1. \A m \in timers : CutShort(m)' <=> CutShort(m)
            BY <2>3 DEF Interrupt, CutShort, Places
        <3> QED
            BY <2>3, <3>1 DEF Interrupt, OneTurnAtATime
    <2>4. CASE UNCHANGED <<messages, timers, turns, isStreaming, activeTurnId, stopped>>
        BY <2>4 DEF OneTurnAtATime, CutShort, Places
    <2> QED
        BY <2>1, <2>2, <2>3, <2>4 DEF ScreenNext, Tick, screenVars
<1> QED
    BY <1>1, <1>2, ScreenTypeCorrect, ScreenTurns, ScreenStopped, PTL DEF ScreenSpec

\* Without Stop there is no timer while nothing streams, and else one.
LEMMA NoStopOneTimer ==
    ASSUME ScreenTypeOK, TurnsInv, OneTurnAtATime, stopped = {}
    PROVE  /\ ~isStreaming => timers = {}
           /\ \A m, o \in timers : m = o
    BY DEF OneTurnAtATime, TurnsInv

\* How ids come about, and when messages are made: in order, and without Stop a
\* user's message and the next, an answer and the next, in different ms.
IdsFollowTime ==
    /\ \A i \in 1 .. Len(messages) :
          /\ messages[i].at <= clock
          /\ messages[i].id = IF messages[i].role = "user" THEN messages[i].at
                              ELSE messages[i].at + 1
    /\ \A i, j \in 1 .. Len(messages) : i < j => messages[i].at <= messages[j].at

MessagesApart ==
    stopped = {} =>
        /\ \A i, j \in 1 .. Len(messages) :
              i < j /\ messages[i].role = messages[j].role => messages[i].at < messages[j].at
        /\ timers = {} => \A i \in 1 .. Len(messages) :
              messages[i].role = "user" => messages[i].at + Delay <= clock
        /\ \A m \in timers : \A i \in 1 .. Len(messages) : messages[i].at <= m.sent

\* Every message is made no earlier than the ones before it, and named by it.
LEMMA ScreenIds == ScreenSpec => []IdsFollowTime
<1>1. ScreenInit => IdsFollowTime
    BY DEF ScreenInit, IdsFollowTime
<1>2. ScreenTypeOK /\ ScreenTypeOK' /\ IdsFollowTime /\ [ScreenNext]_screenVars => IdsFollowTime'
    <2> SUFFICES ASSUME ScreenTypeOK, ScreenTypeOK', IdsFollowTime, [ScreenNext]_screenVars
                 PROVE  IdsFollowTime'
        OBVIOUS
    <2>0. \A i \in 1 .. Len(messages) : messages[i] \in Message
        BY DEF ScreenTypeOK
    <2> USE DEF IdsFollowTime
    <2>1. ASSUME NEW x \in Message, messages' = Append(messages, x), clock' = clock,
                 x.at = clock, x.id = IF x.role = "user" THEN x.at ELSE x.at + 1
          PROVE  IdsFollowTime'
        <3>1. clock \in Nat
            BY DEF ScreenTypeOK
        <3>2. /\ Len(messages') = Len(messages) + 1 /\ Len(messages) \in Nat
              /\ messages'[Len(messages) + 1] = x
              /\ \A i \in 1 .. Len(messages) : messages'[i] = messages[i]
            BY <2>1, AppendedMessage
        <3>3. \A i \in 1 .. Len(messages') : i \in 1 .. Len(messages) \/ i = Len(messages) + 1
            BY <3>2
        <3>4. \A i \in 1 .. Len(messages') : messages'[i].at <= clock
            BY <2>1, <3>1, <3>2, <3>3
        <3>5. \A i \in 1 .. Len(messages') :
                  messages'[i].id = IF messages'[i].role = "user" THEN messages'[i].at
                                    ELSE messages'[i].at + 1
            BY <2>1, <3>2, <3>3
        <3>6. \A i, j \in 1 .. Len(messages') : i < j => messages'[i].at <= messages'[j].at
            BY <2>0, <2>1, <3>1, <3>2, <3>3 DEF Message
        <3> QED
            BY <2>1, <3>4, <3>5, <3>6
    <2>2. ASSUME NEW t \in Thread, Send(t) PROVE IdsFollowTime'
        <3>0. PICK x \in Message, y \in Timer, n \in Nat : Sent(t, x, y, n)
            BY <2>2, SendEffect
        <3>1. /\ messages' = Append(messages, x) /\ clock' = clock
              /\ x.role = "user" /\ x.at = clock /\ x.id = clock
            BY <3>0 DEF Sent
        <3> QED
            BY <2>1, <3>1
    <2>3. ASSUME NEW m \in timers, Answer(m) PROVE IdsFollowTime'
        <3>0. PICK x \in Message, n \in Nat : Answered(m, x, n)
            BY <2>3, AnswerEffect
        <3>1. /\ messages' = Append(messages, x) /\ clock' = clock
              /\ x.role = "assistant" /\ x.at = clock /\ x.id = clock + 1
            BY <3>0 DEF Answered
        <3> QED
            BY <2>1, <3>1
    <2>4. CASE Interrupt
        BY <2>4 DEF Interrupt
    <2>5. CASE Tick
        BY <2>0, <2>5 DEF Tick, ScreenTypeOK, Message
    <2>6. CASE UNCHANGED screenVars
        BY <2>6 DEF screenVars
    <2> QED
        BY <2>2, <2>3, <2>4, <2>5, <2>6 DEF ScreenNext
<1> QED
    BY <1>1, <1>2, ScreenTypeCorrect, PTL DEF ScreenSpec

\* Without Stop, messages of one kind are made in different ms.
LEMMA ScreenApart == ScreenSpec => []MessagesApart
<1>1. ScreenInit => MessagesApart
    BY DEF ScreenInit, MessagesApart
<1>2. ScreenTypeOK /\ ScreenTypeOK' /\ TurnsInv /\ OneTurnAtATime /\ IdsFollowTime
      /\ MessagesApart /\ [ScreenNext]_screenVars => MessagesApart'
    <2> SUFFICES ASSUME ScreenTypeOK, ScreenTypeOK', TurnsInv, OneTurnAtATime, IdsFollowTime,
                        MessagesApart, [ScreenNext]_screenVars
                 PROVE  MessagesApart'
        OBVIOUS
    <2>0. \A i \in 1 .. Len(messages) : messages[i] \in Message
        BY DEF ScreenTypeOK
    <2>1. ASSUME NEW t \in Thread, Send(t) PROVE MessagesApart'
        <3>0. PICK x \in Message, y \in Timer, n \in Nat : Sent(t, x, y, n)
            BY <2>1, SendEffect
        <3>1. /\ messages' = Append(messages, x) /\ timers' = timers \cup {y}
              /\ clock' = clock /\ stopped' = stopped
              /\ x.at = clock /\ x.role = "user" /\ y.sent = clock
            BY <3>0 DEF Sent
        <3>2. stopped = {} => timers = {}
            BY <2>1, NoStopOneTimer DEF Send
        <3>4. /\ Len(messages') = Len(messages) + 1 /\ Len(messages) \in Nat
              /\ messages'[Len(messages) + 1] = x
              /\ \A i \in 1 .. Len(messages) : messages'[i] = messages[i]
            BY <3>1, AppendedMessage
        <3>5. clock \in Nat /\ Delay \in Nat \ {0}
            BY ScreenAssumption DEF ScreenTypeOK
        <3>6. \A i \in 1 .. Len(messages) :
                  /\ messages[i].at \in Nat /\ messages[i].at <= clock
                  /\ stopped = {} /\ messages[i].role = "user" => messages[i].at < clock
            BY <2>0, <3>2, <3>5 DEF IdsFollowTime, MessagesApart, Message
        <3> QED
            BY <3>1, <3>2, <3>4, <3>5, <3>6 DEF MessagesApart
    <2>2. ASSUME NEW m \in timers, Answer(m) PROVE MessagesApart'
        <3>0. PICK x \in Message, n \in Nat : Answered(m, x, n)
            BY <2>2, AnswerEffect
        <3>1. /\ messages' = Append(messages, x) /\ timers' = timers \ {m}
              /\ clock' = clock /\ stopped' = stopped
              /\ x.at = clock /\ x.role = "assistant"
            BY <3>0 DEF Answered
        <3>2. stopped = {} => timers' = {}
            BY <3>1, NoStopOneTimer
        <3>4. /\ Len(messages') = Len(messages) + 1 /\ Len(messages) \in Nat
              /\ messages'[Len(messages) + 1] = x
              /\ \A i \in 1 .. Len(messages) : messages'[i] = messages[i]
            BY <3>1, AppendedMessage
        <3>5. clock \in Nat /\ Delay \in Nat \ {0} /\ m.sent \in Nat /\ m.sent + Delay <= clock
            BY <2>2, ScreenAssumption DEF ScreenTypeOK, Timer, Answer, Due
        <3>6. \A i \in 1 .. Len(messages) :
                  /\ messages[i].at \in Nat
                  /\ stopped = {} => messages[i].at + Delay <= clock
            BY <2>0, <3>5 DEF MessagesApart, Message
        <3> QED
            BY <3>1, <3>2, <3>4, <3>5, <3>6 DEF MessagesApart
    <2>3. CASE Interrupt
        BY <2>3 DEF Interrupt, MessagesApart
    <2>4. CASE Tick
        <3>1. /\ clock \in Nat /\ clock' = clock + 1 /\ Delay \in Nat
              /\ messages' = messages /\ timers' = timers /\ stopped' = stopped
            BY <2>4, ScreenAssumption DEF Tick, ScreenTypeOK
        <3>2. \A i \in 1 .. Len(messages) : messages[i].at \in Nat
            BY <2>0 DEF Message
        <3> QED
            BY <3>1, <3>2 DEF MessagesApart
    <2>5. CASE UNCHANGED screenVars
        BY <2>5 DEF screenVars, MessagesApart
    <2> QED
        BY <2>1, <2>2, <2>3, <2>4, <2>5 DEF ScreenNext
<1> QED
    BY <1>1, <1>2, ScreenTypeCorrect, ScreenTurns, ScreenHasOneTurn, ScreenIds, PTL DEF ScreenSpec

\* Without Stop, two messages share an id only where the user sends one in the
\* ms after an answer (thread/[id].tsx:29, 45).
THEOREM ScreenRepeatedIds == ScreenSpec => []RepeatedIds
<1>1. ScreenTypeOK /\ IdsFollowTime /\ MessagesApart => RepeatedIds
    <2> SUFFICES ASSUME ScreenTypeOK, IdsFollowTime, MessagesApart PROVE RepeatedIds
        OBVIOUS
    <2>1. \A i \in 1 .. Len(messages) : messages[i] \in Message
        BY DEF ScreenTypeOK
    <2> QED
        BY <2>1 DEF IdsFollowTime, MessagesApart, RepeatedIds, Message
<1> QED
    BY <1>1, ScreenTypeCorrect, ScreenIds, ScreenApart, PTL

-----------------------------------------------------------------------------
(* The database of threads.                                                *)

\* A thread's row is written: the rows keep their types.
LEMMA InsertThreadTypes ==
    ASSUME StorageTypeOK, NEW t \in ThreadId, NEW row \in Row, InsertThread(t, row)
    PROVE  /\ threads' \in [ThreadId -> Row \cup {NoRow}]
           /\ stored' \in [MessageId -> ThreadId \cup {NoRow}]
    BY DEF InsertThread, WithoutMessagesOf, StorageTypeOK

\* A call ends: it is idle, and free for another.
LEMMA EndTypes ==
    ASSUME StorageTypeOK, NEW c \in Call, End(c)
    PROVE  /\ phase' \in [Call -> Phase] /\ op' \in [Call -> Op] /\ todo' \in [Call -> Seq(ThreadId)]
           /\ UNCHANGED dbVars
<1>1. NoOp \in Op
    BY DEF NoOp, Op
<1>2. <<>> \in Seq(ThreadId) /\ "idle" \in Phase
    BY DEF Phase
<1> QED
    BY <1>1, <1>2 DEF End, StorageTypeOK

\* What a call was given.
LEMMA OpFields ==
    ASSUME StorageTypeOK, NEW c \in Call
    PROVE  /\ op[c].kind \in {"saveThread", "archiveThread", "deleteThread", "clearMessages",
                              "saveMessage"} => op[c].thread \in ThreadId
           /\ op[c].kind \in {"saveThread", "saveThreads"} => op[c].row \in Row
           /\ op[c].kind = "saveMessage" => op[c].id \in MessageId
<1>1. op[c] \in Op
    BY DEF StorageTypeOK
<1> QED
    BY <1>1, StorageAssumption DEF Op

\* A transaction is begun and rolled back by saveThreads() alone.
SaverPhases == \A c \in Call : phase[c] \in {"rows", "rollback"} => op[c].kind = "saveThreads"

LEMMA SaverPhasesKept == StorageTypeOK /\ SaverPhases /\ [StorageNext]_storageVars => SaverPhases'
<1> SUFFICES ASSUME StorageTypeOK, SaverPhases, [StorageNext]_storageVars PROVE SaverPhases'
    OBVIOUS
<1> USE DEF SaverPhases
<1>1. ASSUME NEW c \in Call, NEW o \in Op, Begin(c, o) PROVE SaverPhases'
    BY <1>1 DEF Begin, StorageTypeOK
<1>2. ASSUME NEW c \in Call, DatabaseOpened(c) PROVE SaverPhases'
    BY <1>2 DEF DatabaseOpened, StorageTypeOK
<1>3. ASSUME NEW c \in Call, SchemaCreated(c) PROVE SaverPhases'
    BY <1>3 DEF SchemaCreated, StorageTypeOK
<1>4. ASSUME NEW c \in Call, End(c) PROVE SaverPhases'
    BY <1>4 DEF End, StorageTypeOK
<1>5. ASSUME NEW c \in Call, BeginTransaction(c) PROVE SaverPhases'
    BY <1>5 DEF BeginTransaction, StorageTypeOK
<1>6. ASSUME NEW c \in Call, InsertNext(c) PROVE SaverPhases'
    BY <1>6 DEF InsertNext
<1>7. ASSUME NEW c \in Call, Fails(c) PROVE SaverPhases'
    <2>1. CASE phase[c] = "rows" \/ (phase[c] = "run" /\ op[c].kind = "saveThreads")
        BY <1>7, <2>1 DEF Fails, StorageTypeOK
    <2>2. CASE ~(phase[c] = "rows" \/ (phase[c] = "run" /\ op[c].kind = "saveThreads"))
        BY <1>4, <1>7, <2>2 DEF Fails
    <2> QED
        BY <2>1, <2>2
<1>8. CASE RelaunchStorage
    BY <1>8 DEF RelaunchStorage
<1>9. CASE UNCHANGED storageVars
    BY <1>9 DEF storageVars, callVars
<1> QED
    BY <1>1, <1>2, <1>3, <1>4, <1>5, <1>6, <1>7, <1>8, <1>9
       DEF StorageNext, Step, Statement, SaveThread, ArchiveThread, DeleteThread, SaveMessage,
           ClearMessages, Load, Commit, Rollback

\* The storage's variables keep their types.
THEOREM StorageTypeCorrect == StorageSpec => []StorageTypeOK
<1>1. StorageInit => StorageTypeOK
    <2> SUFFICES ASSUME StorageInit PROVE StorageTypeOK
        OBVIOUS
    <2>1. NoOp \in Op /\ <<>> \in Seq(ThreadId) /\ "idle" \in Phase
        BY DEF NoOp, Op, Phase
    <2>2. /\ phase \in [Call -> Phase] /\ op \in [Call -> Op] /\ todo \in [Call -> Seq(ThreadId)]
        BY <2>1 DEF StorageInit
    <2>3. /\ threads \in [ThreadId -> Row \cup {NoRow}]
          /\ stored \in [MessageId -> ThreadId \cup {NoRow}]
          /\ snapshot \in Snapshot \cup {NoSnapshot}
        BY DEF StorageInit
    <2>4. db \in BOOLEAN /\ foreignKeys \in BOOLEAN /\ tables \in BOOLEAN
        BY DEF StorageInit
    <2>5. early \in BOOLEAN /\ overlapped \in BOOLEAN /\ kept \subseteq MessageId \X ThreadId
        BY DEF StorageInit
    <2> QED
        BY <2>2, <2>3, <2>4, <2>5 DEF StorageTypeOK
<1>2. StorageTypeOK /\ SaverPhases /\ [StorageNext]_storageVars => StorageTypeOK'
    <2> SUFFICES ASSUME StorageTypeOK, SaverPhases, [StorageNext]_storageVars
                 PROVE  StorageTypeOK'
        OBVIOUS
    <2> USE DEF rowVars, dbVars, historyVars
    <2>1. ASSUME NEW c \in Call, NEW o \in Op, Begin(c, o) PROVE StorageTypeOK'
        <3>1. phase' \in [Call -> Phase]
            BY <2>1 DEF Begin, StorageTypeOK, Phase
        <3>2. o.kind = "saveThreads" => o.threads \in Seq(ThreadId)
            BY StorageAssumption DEF Op
        <3>3. todo' \in [Call -> Seq(ThreadId)] /\ op' \in [Call -> Op]
            BY <2>1, <3>2 DEF Begin, StorageTypeOK
        <3>4. early' \in BOOLEAN /\ overlapped' \in BOOLEAN
            BY <2>1 DEF Begin, StorageTypeOK
        <3>5. kept' \subseteq MessageId \X ThreadId
            BY <2>1 DEF Begin, StorageTypeOK
        <3> QED
            BY <2>1, <3>1, <3>3, <3>4, <3>5 DEF Begin, StorageTypeOK
    <2>2. ASSUME NEW c \in Call, DatabaseOpened(c) PROVE StorageTypeOK'
        BY <2>2 DEF DatabaseOpened, StorageTypeOK, Phase
    <2>3. ASSUME NEW c \in Call, SchemaCreated(c) PROVE StorageTypeOK'
        <3>1. foreignKeys' \in BOOLEAN /\ tables' \in BOOLEAN /\ phase' \in [Call -> Phase]
            BY <2>3 DEF SchemaCreated, StorageTypeOK, Phase
        <3> QED
            BY <2>3, <3>1 DEF SchemaCreated, StorageTypeOK
    <2>4. ASSUME NEW c \in Call, SaveThread(c) PROVE StorageTypeOK'
        BY <2>4, EndTypes, InsertThreadTypes, OpFields DEF SaveThread, StorageTypeOK
    <2>5. ASSUME NEW c \in Call, ArchiveThread(c) PROVE StorageTypeOK'
        <3>1. threads' \in [ThreadId -> Row \cup {NoRow}]
            BY <2>5 DEF ArchiveThread, StorageTypeOK, Row
        <3> QED
            BY <2>5, <3>1, EndTypes DEF ArchiveThread, StorageTypeOK
    <2>6. ASSUME NEW c \in Call, DeleteThread(c) PROVE StorageTypeOK'
        <3>1. /\ threads' \in [ThreadId -> Row \cup {NoRow}]
              /\ stored' \in [MessageId -> ThreadId \cup {NoRow}]
            BY <2>6, OpFields DEF DeleteThread, WithoutMessagesOf, StorageTypeOK
        <3> QED
            BY <2>6, <3>1, EndTypes DEF DeleteThread, StorageTypeOK
    <2>7. ASSUME NEW c \in Call, SaveMessage(c) PROVE StorageTypeOK'
        <3>1. op[c].id \in MessageId /\ op[c].thread \in ThreadId
            BY <2>7, OpFields DEF SaveMessage
        <3>2. stored' \in [MessageId -> ThreadId \cup {NoRow}]
            BY <2>7, <3>1 DEF SaveMessage, StorageTypeOK
        <3>3. kept' \subseteq MessageId \X ThreadId
            BY <2>7, <3>1 DEF SaveMessage, StorageTypeOK
        <3> QED
            BY <2>7, <3>2, <3>3, EndTypes DEF SaveMessage, StorageTypeOK
    <2>8. ASSUME NEW c \in Call, ClearMessages(c) PROVE StorageTypeOK'
        <3>1. stored' \in [MessageId -> ThreadId \cup {NoRow}]
            BY <2>8 DEF ClearMessages, StorageTypeOK
        <3> QED
            BY <2>8, <3>1, EndTypes DEF ClearMessages, StorageTypeOK
    <2>9. ASSUME NEW c \in Call, Load(c) PROVE StorageTypeOK'
        BY <2>9, EndTypes DEF Load, StorageTypeOK
    <2>10. ASSUME NEW c \in Call, BeginTransaction(c) PROVE StorageTypeOK'
        <3> DEFINE s == [threads |-> threads, stored |-> stored, call |-> c]
        <3>0. s \in Snapshot
            BY DEF StorageTypeOK, Snapshot
        <3>1. snapshot' = snapshot \/ snapshot' = s
            BY <2>10 DEF BeginTransaction
        <3>2. phase' \in [Call -> Phase]
            BY <2>10 DEF BeginTransaction, StorageTypeOK, Phase
        <3>3. snapshot' \in Snapshot \cup {NoSnapshot}
            BY <3>0, <3>1 DEF StorageTypeOK
        <3> QED
            BY <2>10, <3>2, <3>3 DEF BeginTransaction, StorageTypeOK
    <2>11. ASSUME NEW c \in Call, InsertNext(c) PROVE StorageTypeOK'
        <3>1. todo[c] \in Seq(ThreadId) /\ todo[c] # <<>> /\ op[c].kind = "saveThreads"
            BY <2>11 DEF InsertNext, StorageTypeOK, SaverPhases
        <3>2. Head(todo[c]) \in ThreadId /\ Tail(todo[c]) \in Seq(ThreadId)
            BY <3>1
        <3>3. todo' \in [Call -> Seq(ThreadId)]
            BY <2>11, <3>2 DEF InsertNext, StorageTypeOK
        <3>4. /\ threads' \in [ThreadId -> Row \cup {NoRow}]
              /\ stored' \in [MessageId -> ThreadId \cup {NoRow}]
            BY <2>11, <3>1, <3>2, InsertThreadTypes, OpFields DEF InsertNext
        <3> QED
            BY <2>11, <3>3, <3>4 DEF InsertNext, StorageTypeOK
    <2>12. ASSUME NEW c \in Call, Commit(c) PROVE StorageTypeOK'
        BY <2>12, EndTypes DEF Commit, StorageTypeOK
    <2>13. ASSUME NEW c \in Call, Rollback(c) PROVE StorageTypeOK'
        <3>1. /\ threads' \in [ThreadId -> Row \cup {NoRow}]
              /\ stored' \in [MessageId -> ThreadId \cup {NoRow}]
              /\ snapshot' \in Snapshot \cup {NoSnapshot}
            BY <2>13 DEF Rollback, StorageTypeOK, Snapshot
        <3> QED
            BY <2>13, <3>1, EndTypes DEF Rollback, StorageTypeOK
    <2>14. ASSUME NEW c \in Call, Fails(c) PROVE StorageTypeOK'
        <3>1. /\ phase' \in [Call -> Phase] /\ op' \in [Call -> Op]
              /\ todo' \in [Call -> Seq(ThreadId)] /\ UNCHANGED dbVars
            BY <2>14, EndTypes DEF Fails, StorageTypeOK, Phase
        <3> QED
            BY <2>14, <3>1 DEF Fails, StorageTypeOK
    <2>15. CASE RelaunchStorage
        <3>1. NoOp \in Op /\ <<>> \in Seq(ThreadId) /\ "idle" \in Phase
            BY DEF NoOp, Op, Phase
        <3>2. /\ threads' \in [ThreadId -> Row \cup {NoRow}]
              /\ stored' \in [MessageId -> ThreadId \cup {NoRow}]
              /\ snapshot' \in Snapshot \cup {NoSnapshot}
            BY <2>15 DEF RelaunchStorage, StorageTypeOK, Snapshot
        <3>3. /\ phase' \in [Call -> Phase] /\ op' \in [Call -> Op]
              /\ todo' \in [Call -> Seq(ThreadId)]
            BY <2>15, <3>1 DEF RelaunchStorage
        <3> QED
            BY <2>15, <3>2, <3>3 DEF RelaunchStorage, StorageTypeOK
    <2>16. CASE UNCHANGED storageVars
        BY <2>16 DEF storageVars, callVars, StorageTypeOK
    <2> QED
        BY <2>1, <2>2, <2>3, <2>4, <2>5, <2>6, <2>7, <2>8, <2>9, <2>10, <2>11, <2>12,
           <2>13, <2>14, <2>15, <2>16 DEF StorageNext, Step, Statement
<1>3. StorageInit => SaverPhases
    BY DEF StorageInit, SaverPhases
<1> QED
    BY <1>1, <1>2, <1>3, SaverPhasesKept, PTL DEF StorageSpec

LEMMA StorageSaverPhases == StorageSpec => []SaverPhases
<1>1. StorageInit => SaverPhases
    BY DEF StorageInit, SaverPhases
<1> QED
    BY <1>1, SaverPhasesKept, StorageTypeCorrect, PTL DEF StorageSpec

\* An open transaction has a call that is still to end it: what makes the end of
\* the schema script, which waits for no transaction, find foreign keys on.
THEOREM StorageTransactionsEnd == StorageSpec => []TransactionsEnd
<1>1. StorageInit => TransactionsEnd
    BY DEF StorageInit, TransactionsEnd
<1>2. StorageTypeOK /\ TransactionsEnd /\ [StorageNext]_storageVars => TransactionsEnd'
    <2> SUFFICES ASSUME StorageTypeOK, TransactionsEnd, [StorageNext]_storageVars
                 PROVE  TransactionsEnd'
        OBVIOUS
    <2> USE DEF TransactionsEnd, StorageTypeOK, rowVars, callVars
    <2>1. ASSUME NEW c \in Call, NEW o \in Op, Begin(c, o) PROVE TransactionsEnd'
        BY <2>1 DEF Begin
    <2>2. ASSUME NEW c \in Call, DatabaseOpened(c) PROVE TransactionsEnd'
        BY <2>2 DEF DatabaseOpened
    <2>3. ASSUME NEW c \in Call, SchemaCreated(c) PROVE TransactionsEnd'
        BY <2>3 DEF SchemaCreated
    <2>4. ASSUME NEW c \in Call, End(c), snapshot' = snapshot,
                 phase[c] \notin {"rows", "rollback"}
          PROVE  TransactionsEnd'
        BY <2>4 DEF End
    <2>5. ASSUME NEW c \in Call, BeginTransaction(c) PROVE TransactionsEnd'
        BY <2>5 DEF BeginTransaction
    <2>6. ASSUME NEW c \in Call, InsertNext(c) PROVE TransactionsEnd'
        BY <2>6 DEF InsertNext
    <2>7. ASSUME NEW c \in Call, Commit(c) \/ Rollback(c) PROVE TransactionsEnd'
        BY <2>7 DEF Commit, Rollback
    <2>8. ASSUME NEW c \in Call, Fails(c) PROVE TransactionsEnd'
        <3>1. CASE phase[c] = "rows" \/ (phase[c] = "run" /\ op[c].kind = "saveThreads")
            BY <2>8, <3>1 DEF Fails
        <3>2. CASE ~(phase[c] = "rows" \/ (phase[c] = "run" /\ op[c].kind = "saveThreads"))
            BY <2>4, <2>8, <3>2 DEF Fails
        <3> QED
            BY <3>1, <3>2
    <2>9. CASE RelaunchStorage
        BY <2>9 DEF RelaunchStorage
    <2>10. CASE UNCHANGED storageVars
        BY <2>10 DEF storageVars
    <2>11. ASSUME NEW c \in Call, Statement(c) PROVE TransactionsEnd'
        BY <2>4, <2>11 DEF Statement, SaveThread, ArchiveThread, DeleteThread, SaveMessage,
               ClearMessages, Load
    <2> QED
        BY <2>1, <2>2, <2>3, <2>5, <2>6, <2>7, <2>8, <2>9, <2>10, <2>11 DEF StorageNext, Step
<1> QED
    BY <1>1, <1>2, StorageTypeCorrect, PTL DEF StorageSpec

\* While no call was handed the database early, statements find foreign keys on.
KeysAreOn ==
    ~early => \A c \in Call : phase[c] \in {"run", "rows", "rollback"} => foreignKeys

LEMMA StorageKeysAreOn == StorageSpec => []KeysAreOn
<1>1. StorageInit => KeysAreOn
    BY DEF StorageInit, KeysAreOn
<1>2. StorageTypeOK /\ TransactionsEnd /\ KeysAreOn /\ [StorageNext]_storageVars => KeysAreOn'
    <2> SUFFICES ASSUME StorageTypeOK, TransactionsEnd, KeysAreOn, [StorageNext]_storageVars
                 PROVE  KeysAreOn'
        OBVIOUS
    <2> USE DEF KeysAreOn, StorageTypeOK, dbVars, callVars, historyVars
    <2>1. ASSUME NEW c \in Call, NEW o \in Op, Begin(c, o) PROVE KeysAreOn'
        <3>1. foreignKeys' = foreignKeys /\ early' = (early \/ (db /\ ~foreignKeys))
            BY <2>1 DEF Begin
        <3>2. phase'[c] = "run" => db
            BY <2>1 DEF Begin
        <3>3. \A d \in Call : d # c => phase'[d] = phase[d]
            BY <2>1 DEF Begin
        <3>4. phase'[c] \in {"run", "open"}
            BY <2>1 DEF Begin
        <3>5. \A d \in Call : d = c \/ d # c
            OBVIOUS
        <3> QED
            BY <3>1, <3>2, <3>3, <3>4, <3>5
    <2>2. ASSUME NEW c \in Call, DatabaseOpened(c) PROVE KeysAreOn'
        BY <2>2 DEF DatabaseOpened
    <2>3. ASSUME NEW c \in Call, SchemaCreated(c) PROVE KeysAreOn'
        <3>1. ~early => foreignKeys'
            BY <2>3 DEF SchemaCreated, TransactionsEnd
        <3> QED
            BY <2>3, <3>1 DEF SchemaCreated
    <2>4. ASSUME NEW c \in Call, End(c), early' = early PROVE KeysAreOn'
        BY <2>4 DEF End
    <2>5. ASSUME NEW c \in Call, BeginTransaction(c) PROVE KeysAreOn'
        BY <2>5 DEF BeginTransaction
    <2>6. ASSUME NEW c \in Call, InsertNext(c) PROVE KeysAreOn'
        BY <2>6 DEF InsertNext
    <2>7. ASSUME NEW c \in Call, Commit(c) \/ Rollback(c) PROVE KeysAreOn'
        BY <2>4, <2>7 DEF Commit, Rollback
    <2>8. ASSUME NEW c \in Call, Fails(c) PROVE KeysAreOn'
        <3>1. CASE phase[c] = "rows" \/ (phase[c] = "run" /\ op[c].kind = "saveThreads")
            BY <2>8, <3>1 DEF Fails
        <3>2. CASE ~(phase[c] = "rows" \/ (phase[c] = "run" /\ op[c].kind = "saveThreads"))
            BY <2>4, <2>8, <3>2 DEF Fails
        <3> QED
            BY <3>1, <3>2
    <2>9. CASE RelaunchStorage
        BY <2>9 DEF RelaunchStorage
    <2>10. CASE UNCHANGED storageVars
        BY <2>10 DEF storageVars
    <2>11. ASSUME NEW c \in Call, Statement(c) PROVE KeysAreOn'
        BY <2>4, <2>11 DEF Statement, SaveThread, ArchiveThread, DeleteThread, SaveMessage,
               ClearMessages, Load
    <2> QED
        BY <2>1, <2>2, <2>3, <2>5, <2>6, <2>7, <2>8, <2>9, <2>10, <2>11 DEF StorageNext, Step
<1> QED
    BY <1>1, <1>2, StorageTypeCorrect, StorageTransactionsEnd, PTL DEF StorageSpec

\* The rows a rollback would restore have their threads, too.
SnapshotHasThreads ==
    ~early /\ snapshot # NoSnapshot =>
        \A m \in MessageId :
            snapshot.stored[m] # NoRow => snapshot.threads[snapshot.stored[m]] # NoRow

RowsHaveThreads == MessagesHaveThreads /\ SnapshotHasThreads

\* A thread's row is written with foreign keys on.
LEMMA InsertKeepsThreads ==
    ASSUME StorageTypeOK, MessagesHaveThreads, ~early, foreignKeys, NEW t \in ThreadId,
           NEW row \in Row, InsertThread(t, row)
    PROVE  \A m \in MessageId : stored'[m] # NoRow => threads'[stored'[m]] # NoRow
<1>1. row # NoRow
    BY StorageAssumption
<1>2. /\ threads' = [threads EXCEPT ![t] = row]
      /\ stored' = IF threads[t] = NoRow THEN stored ELSE WithoutMessagesOf(t)
    BY DEF InsertThread
<1>3. \A m \in MessageId : stored'[m] # NoRow => stored'[m] = stored[m] /\ stored[m] \in ThreadId
    BY <1>2, StorageAssumption DEF StorageTypeOK, WithoutMessagesOf
<1>4. \A x \in ThreadId : threads'[x] = IF x = t THEN row ELSE threads[x]
    BY <1>2 DEF StorageTypeOK
<1> QED
    BY <1>1, <1>3, <1>4 DEF MessagesHaveThreads

\* Without an early call, no message is left without its thread, whatever calls
\* overlap and whenever the app is killed (storage.ts, database.ts).
THEOREM StorageMessagesHaveThreads == StorageSpec => []MessagesHaveThreads
<1>1. StorageInit => RowsHaveThreads
    <2> SUFFICES ASSUME StorageInit PROVE RowsHaveThreads
        OBVIOUS
    <2>1. \A m \in MessageId : stored[m] = NoRow
        BY DEF StorageInit
    <2>2. snapshot = NoSnapshot
        BY DEF StorageInit
    <2> QED
        BY <2>1, <2>2 DEF RowsHaveThreads, MessagesHaveThreads, SnapshotHasThreads
<1>2. /\ StorageTypeOK /\ SaverPhases /\ KeysAreOn /\ RowsHaveThreads
      /\ [StorageNext]_storageVars
      => RowsHaveThreads'
    <2> SUFFICES ASSUME StorageTypeOK, SaverPhases, KeysAreOn, RowsHaveThreads,
                        [StorageNext]_storageVars
                 PROVE  RowsHaveThreads'
        OBVIOUS
    <2> USE DEF rowVars, dbVars, callVars, historyVars, RowsHaveThreads
    <2>0. ASSUME early' = early, UNCHANGED snapshot,
                 ~early => \A m \in MessageId : stored'[m] # NoRow => threads'[stored'[m]] # NoRow
          PROVE  RowsHaveThreads'
        BY <2>0 DEF MessagesHaveThreads, SnapshotHasThreads
    <2>1. ASSUME UNCHANGED rowVars, early => early' PROVE RowsHaveThreads'
        BY <2>1 DEF MessagesHaveThreads, SnapshotHasThreads
    <2>2. ASSUME UNCHANGED <<threads, stored, early>>, snapshot' = NoSnapshot
          PROVE  RowsHaveThreads'
        BY <2>2 DEF MessagesHaveThreads, SnapshotHasThreads
    <2>3. ASSUME early' = early, snapshot # NoSnapshot, snapshot' = NoSnapshot,
                 threads' = snapshot.threads, stored' = snapshot.stored
          PROVE  RowsHaveThreads'
        BY <2>3 DEF MessagesHaveThreads, SnapshotHasThreads
    <2>4. ASSUME NEW c \in Call, SaveThread(c) PROVE RowsHaveThreads'
        <3>1. op[c].thread \in ThreadId /\ op[c].row \in Row
            BY <2>4, OpFields DEF SaveThread
        <3>2. InsertThread(op[c].thread, op[c].row) /\ UNCHANGED <<snapshot, early>>
            BY <2>4 DEF SaveThread
        <3>3. ~early => foreignKeys
            BY <2>4 DEF SaveThread, KeysAreOn
        <3> QED
            BY <2>0, <3>1, <3>2, <3>3, InsertKeepsThreads
    <2>5. ASSUME NEW c \in Call, InsertNext(c) PROVE RowsHaveThreads'
        <3>1. todo[c] \in Seq(ThreadId) /\ todo[c] # <<>> /\ phase[c] = "rows"
            BY <2>5 DEF InsertNext, StorageTypeOK
        <3>2. Head(todo[c]) \in ThreadId /\ op[c].row \in Row
            BY <3>1, OpFields DEF SaverPhases
        <3>3. InsertThread(Head(todo[c]), op[c].row) /\ UNCHANGED <<snapshot, early>>
            BY <2>5 DEF InsertNext
        <3>4. ~early => foreignKeys
            BY <3>1 DEF KeysAreOn
        <3> QED
            BY <2>0, <3>2, <3>3, <3>4, InsertKeepsThreads
    <2>6. ASSUME NEW c \in Call, ArchiveThread(c) PROVE RowsHaveThreads'
        <3>1. \A t \in ThreadId : threads[t] # NoRow => threads'[t] # NoRow
            BY <2>6, StorageAssumption DEF ArchiveThread, StorageTypeOK, Row
        <3>2. UNCHANGED <<stored, snapshot, early>>
            BY <2>6 DEF ArchiveThread
        <3>3. \A m \in MessageId : stored[m] # NoRow => stored[m] \in ThreadId
            BY DEF StorageTypeOK
        <3> QED
            BY <2>0, <3>1, <3>2, <3>3 DEF MessagesHaveThreads
    <2>7. ASSUME NEW c \in Call, DeleteThread(c) PROVE RowsHaveThreads'
        <3>1. op[c].thread \in ThreadId
            BY <2>7, OpFields DEF DeleteThread
        <3>2. \A t \in ThreadId : t # op[c].thread => threads'[t] = threads[t]
            BY <2>7 DEF DeleteThread, StorageTypeOK
        <3>3. ~early => foreignKeys
            BY <2>7 DEF DeleteThread, KeysAreOn
        <3>4. ~early => \A m \in MessageId : stored'[m] # NoRow =>
                            /\ stored'[m] = stored[m] /\ stored[m] \in ThreadId
                            /\ stored[m] # op[c].thread
            BY <2>7, <3>1, <3>3 DEF DeleteThread, WithoutMessagesOf, StorageTypeOK, MessagesHaveThreads
        <3>5. UNCHANGED <<snapshot, early>>
            BY <2>7 DEF DeleteThread
        <3> QED
            BY <2>0, <3>2, <3>4, <3>5 DEF MessagesHaveThreads
    <2>8. ASSUME NEW c \in Call, SaveMessage(c) PROVE RowsHaveThreads'
        <3>1. ~early => foreignKeys /\ threads[op[c].thread] # NoRow
            BY <2>8 DEF SaveMessage, KeysAreOn
        <3>2. /\ stored' = [stored EXCEPT ![op[c].id] = op[c].thread]
              /\ UNCHANGED <<threads, snapshot, early>>
            BY <2>8 DEF SaveMessage
        <3>3. \A m \in MessageId : stored'[m] = stored[m] \/ stored'[m] = op[c].thread
            BY <3>2 DEF StorageTypeOK
        <3> QED
            BY <2>0, <3>1, <3>2, <3>3 DEF MessagesHaveThreads
    <2>9. ASSUME NEW c \in Call, ClearMessages(c) PROVE RowsHaveThreads'
        <3>1. \A m \in MessageId : stored'[m] # NoRow => stored'[m] = stored[m]
            BY <2>9 DEF ClearMessages, StorageTypeOK
        <3>2. UNCHANGED <<threads, snapshot, early>>
            BY <2>9 DEF ClearMessages
        <3> QED
            BY <2>0, <3>1, <3>2 DEF MessagesHaveThreads
    <2>10. ASSUME NEW c \in Call, BeginTransaction(c) PROVE RowsHaveThreads'
        <3> DEFINE s == [threads |-> threads, stored |-> stored, call |-> c]
        <3>1. s.threads = threads /\ s.stored = stored
            OBVIOUS
        <3>2. snapshot' = s \/ snapshot' = snapshot
            BY <2>10 DEF BeginTransaction
        <3>3. UNCHANGED <<threads, stored, early>>
            BY <2>10 DEF BeginTransaction
        <3> HIDE DEF s
        <3> QED
            BY <3>1, <3>2, <3>3 DEF MessagesHaveThreads, SnapshotHasThreads
    <2>11. ASSUME NEW c \in Call, Commit(c) PROVE RowsHaveThreads'
        BY <2>2, <2>11 DEF Commit
    <2>12. ASSUME NEW c \in Call, Rollback(c) PROVE RowsHaveThreads'
        BY <2>1, <2>3, <2>12 DEF Rollback
    <2>13. CASE RelaunchStorage
        BY <2>1, <2>3, <2>13 DEF RelaunchStorage
    <2>14. ASSUME NEW c \in Call,
                  DatabaseOpened(c) \/ SchemaCreated(c) \/ Load(c) \/ Fails(c)
           PROVE  RowsHaveThreads'
        BY <2>1, <2>14 DEF DatabaseOpened, SchemaCreated, Load, Fails
    <2>15. ASSUME NEW c \in Call, NEW o \in Op, Begin(c, o) PROVE RowsHaveThreads'
        BY <2>1, <2>15 DEF Begin
    <2>16. CASE UNCHANGED storageVars
        BY <2>1, <2>16 DEF storageVars
    <2> QED
        BY <2>4, <2>5, <2>6, <2>7, <2>8, <2>9, <2>10, <2>11, <2>12, <2>13, <2>14, <2>15, <2>16
           DEF StorageNext, Step, Statement
<1>3. RowsHaveThreads => MessagesHaveThreads
    BY DEF RowsHaveThreads
<1> QED
    BY <1>1, <1>2, <1>3, StorageTypeCorrect, StorageSaverPhases, StorageKeysAreOn, PTL
       DEF StorageSpec

\* Without overlap, one call of saveThreads() is under way.
OneSaver ==
    ~overlapped => /\ \A c, d \in Savers : c = d
                   /\ TransactionsAreOwn

\* Without overlap, rows are inserted in the transaction of their own call
\* (storage.ts:14-25).
THEOREM StorageTransactionsAreOwn == StorageSpec => []TransactionsAreOwn
<1>1. StorageInit => OneSaver
    BY DEF StorageInit, OneSaver, Savers, NoOp, TransactionsAreOwn
<1>2. StorageTypeOK /\ SaverPhases /\ OneSaver /\ [StorageNext]_storageVars => OneSaver'
    <2> SUFFICES ASSUME StorageTypeOK, SaverPhases, OneSaver, [StorageNext]_storageVars
                 PROVE  OneSaver'
        OBVIOUS
    <2> USE DEF rowVars, dbVars, callVars, historyVars, StorageTypeOK, OneSaver,
                TransactionsAreOwn, Savers
    <2>1. ASSUME NEW c \in Call, NEW o \in Op, Begin(c, o) PROVE OneSaver'
        <3>1. \A d \in Call : d # c => op'[d] = op[d] /\ phase'[d] = phase[d]
            BY <2>1 DEF Begin
        <3>2. op'[c] = o /\ phase[c] = "idle" /\ phase'[c] \in {"run", "open"}
            BY <2>1 DEF Begin
        <3>3. overlapped' = (Savers # {} /\ (overlapped \/ o.kind = "saveThreads"))
              /\ snapshot' = snapshot
            BY <2>1 DEF Begin
        <3>4. CASE Savers = {}
            BY <3>1, <3>2, <3>3, <3>4 DEF SaverPhases
        <3>5. CASE Savers # {}
            <4>1. ~overlapped' => ~overlapped /\ o.kind # "saveThreads"
                BY <3>3, <3>5
            <4> QED
                BY <3>1, <3>2, <3>3, <4>1
        <3> QED
            BY <3>4, <3>5
    <2>2. ASSUME NEW c \in Call, End(c), UNCHANGED <<snapshot, overlapped>> PROVE OneSaver'
        <3>1. \A d \in Call : d # c => op'[d] = op[d] /\ phase'[d] = phase[d]
            BY <2>2 DEF End
        <3>2. op'[c].kind = "load" /\ phase'[c] = "idle"
            BY <2>2 DEF End, NoOp
        <3> QED
            BY <2>2, <3>1, <3>2
    <2>3. ASSUME NEW c \in Call, DatabaseOpened(c) \/ SchemaCreated(c) PROVE OneSaver'
        BY <2>3 DEF DatabaseOpened, SchemaCreated
    <2>4. ASSUME NEW c \in Call, BeginTransaction(c) PROVE OneSaver'
        <3>1. /\ UNCHANGED <<op, overlapped>> /\ c \in Savers
              /\ \A d \in Call : d # c => phase'[d] = phase[d]
            BY <2>4 DEF BeginTransaction
        <3>2. \/ phase'[c] = "rollback" /\ snapshot' = snapshot
              \/ snapshot'.call = c /\ snapshot' \in Snapshot
            BY <2>4 DEF BeginTransaction, Snapshot
        <3>3. \A d \in Call : d # c /\ phase[d] = "rows" => d \in Savers
            BY DEF SaverPhases
        <3> QED
            BY <3>1, <3>2, <3>3, StorageAssumption
    <2>5. ASSUME NEW c \in Call, InsertNext(c) PROVE OneSaver'
        BY <2>5 DEF InsertNext
    <2>6. ASSUME NEW c \in Call, Commit(c) \/ Rollback(c) PROVE OneSaver'
        <3>1. c \in Savers /\ overlapped' = overlapped
            BY <2>6 DEF Commit, Rollback, SaverPhases
        <3>2. \A d \in Call : d # c => op'[d] = op[d] /\ phase'[d] = phase[d]
            BY <2>6 DEF Commit, Rollback, End
        <3>3. op'[c].kind = "load" /\ phase'[c] = "idle"
            BY <2>6 DEF Commit, Rollback, End, NoOp
        <3>4. \A d \in Call : phase[d] = "rows" => d \in Savers
            BY DEF SaverPhases
        <3> QED
            BY <3>1, <3>2, <3>3, <3>4
    <2>7. ASSUME NEW c \in Call, Fails(c) PROVE OneSaver'
        <3>1. CASE phase[c] = "rows" \/ (phase[c] = "run" /\ op[c].kind = "saveThreads")
            BY <2>7, <3>1 DEF Fails
        <3>2. CASE ~(phase[c] = "rows" \/ (phase[c] = "run" /\ op[c].kind = "saveThreads"))
            BY <2>2, <2>7, <3>2 DEF Fails
        <3> QED
            BY <3>1, <3>2
    <2>8. CASE RelaunchStorage
        BY <2>8 DEF RelaunchStorage, NoOp
    <2>9. CASE UNCHANGED storageVars
        BY <2>9 DEF storageVars
    <2>10. ASSUME NEW c \in Call, Statement(c) PROVE OneSaver'
        BY <2>2, <2>10 DEF Statement, SaveThread, ArchiveThread, DeleteThread, SaveMessage,
               ClearMessages, Load
    <2> QED
        BY <2>1, <2>3, <2>4, <2>5, <2>6, <2>7, <2>8, <2>9, <2>10 DEF StorageNext, Step
<1>3. OneSaver => TransactionsAreOwn
    BY DEF OneSaver, TransactionsAreOwn
<1> QED
    BY <1>1, <1>2, <1>3, StorageTypeCorrect, StorageSaverPhases, PTL DEF StorageSpec

\* No call that is under way may lose a message that is to stay.
KeptIsSafe ==
    /\ SavedMessagesStay
    /\ \A k \in kept : \A c \in Call : phase[c] # "idle" => ~MayLose(op[c], k[1], k[2])

\* While saveThreads() is under way nothing is to stay.
LEMMA SaversKeepNothing ==
    ASSUME StorageTypeOK, KeptIsSafe, NEW c \in Call, phase[c] # "idle",
           op[c].kind = "saveThreads"
    PROVE  kept = {}
    BY DEF KeptIsSafe, MayLose

\* A saved message stays until a call is made that may lose it
\* (storage.ts:5-12, 53-63; database.ts:31).
THEOREM StorageKeepsMessages == StorageSpec => []SavedMessagesStay
<1>1. StorageInit => KeptIsSafe
    BY DEF StorageInit, KeptIsSafe, SavedMessagesStay
<1>2. /\ StorageTypeOK /\ SaverPhases /\ TransactionsEnd /\ KeptIsSafe
      /\ [StorageNext]_storageVars
      => KeptIsSafe'
    <2> SUFFICES ASSUME StorageTypeOK, SaverPhases, TransactionsEnd, KeptIsSafe,
                        [StorageNext]_storageVars
                 PROVE  KeptIsSafe'
        OBVIOUS
    <2> USE DEF rowVars, dbVars, callVars, historyVars
    <2>0. \A k \in kept : k[1] \in MessageId /\ k[2] \in ThreadId /\ stored[k[1]] = k[2]
        BY DEF StorageTypeOK, KeptIsSafe, SavedMessagesStay
    <2>1. ASSUME kept = {}, kept' = {} PROVE KeptIsSafe'
        BY <2>1 DEF KeptIsSafe, SavedMessagesStay
    <2>2. ASSUME kept' \subseteq kept, \A k \in kept' : stored'[k[1]] = k[2],
                 \A c \in Call : phase'[c] # "idle" => phase[c] # "idle" /\ op'[c] = op[c]
          PROVE  KeptIsSafe'
        BY <2>2 DEF KeptIsSafe, SavedMessagesStay, MayLose
    <2>3. ASSUME NEW c \in Call, End(c) PROVE
              \A d \in Call : phase'[d] # "idle" => phase[d] # "idle" /\ op'[d] = op[d]
        BY <2>3 DEF End, StorageTypeOK
    <2>4. ASSUME NEW c \in Call, NEW o \in Op, Begin(c, o) PROVE KeptIsSafe'
        <3>1. /\ \A d \in Call : d # c => op'[d] = op[d] /\ phase'[d] = phase[d]
              /\ op'[c] = o
            BY <2>4 DEF Begin, StorageTypeOK
        <3>2. kept' = {k \in kept : ~MayLose(o, k[1], k[2])} /\ stored' = stored
            BY <2>4 DEF Begin
        <3> QED
            BY <2>0, <3>1, <3>2 DEF KeptIsSafe, SavedMessagesStay, MayLose
    <2>5. ASSUME NEW c \in Call, SaveThread(c) PROVE KeptIsSafe'
        <3>1. \A k \in kept : k[2] # op[c].thread
            BY <2>5 DEF SaveThread, KeptIsSafe, MayLose
        <3>2. stored' = stored \/ stored' = WithoutMessagesOf(op[c].thread)
            BY <2>5 DEF SaveThread, InsertThread
        <3>3. \A k \in kept : stored'[k[1]] = k[2]
            BY <2>0, <3>1, <3>2 DEF WithoutMessagesOf
        <3> QED
            BY <2>2, <2>3, <2>5, <3>3 DEF SaveThread
    <2>6. ASSUME NEW c \in Call, ArchiveThread(c) \/ Load(c) PROVE KeptIsSafe'
        BY <2>0, <2>2, <2>3, <2>6 DEF ArchiveThread, Load
    <2>7. ASSUME NEW c \in Call, DeleteThread(c) PROVE KeptIsSafe'
        <3>1. \A k \in kept : k[2] # op[c].thread
            BY <2>7 DEF DeleteThread, KeptIsSafe, MayLose
        <3>2. stored' = stored \/ stored' = WithoutMessagesOf(op[c].thread)
            BY <2>7 DEF DeleteThread
        <3>3. \A k \in kept : stored'[k[1]] = k[2]
            BY <2>0, <3>1, <3>2 DEF WithoutMessagesOf
        <3> QED
            BY <2>2, <2>3, <2>7, <3>3 DEF DeleteThread
    <2>8. ASSUME NEW c \in Call, ClearMessages(c) PROVE KeptIsSafe'
        <3>1. \A k \in kept : k[2] # op[c].thread
            BY <2>8 DEF ClearMessages, KeptIsSafe, MayLose
        <3>2. \A k \in kept : stored'[k[1]] = k[2]
            BY <2>0, <2>8, <3>1 DEF ClearMessages
        <3> QED
            BY <2>2, <2>3, <2>8, <3>2 DEF ClearMessages
    <2>9. ASSUME NEW c \in Call, SaveMessage(c) PROVE KeptIsSafe'
        <3> DEFINE m == op[c].id
                   t == op[c].thread
        <3>1. op[c].kind = "saveMessage" /\ phase[c] # "idle" /\ m \in MessageId
            BY <2>9, OpFields DEF SaveMessage
        <3>2. \A k \in kept : k[1] # m
            BY <3>1 DEF KeptIsSafe, MayLose
        <3>3. /\ stored' = [stored EXCEPT ![m] = t]
              /\ kept' = IF \E d \in Busy \ {c} : MayLose(op[d], m, t)
                         THEN kept ELSE kept \cup {<<m, t>>}
            BY <2>9 DEF SaveMessage
        <3>4. \A k \in kept' : stored'[k[1]] = k[2]
            BY <2>0, <3>1, <3>2, <3>3 DEF StorageTypeOK
        <3>5. \A d \in Call : phase'[d] # "idle" => d # c /\ phase[d] # "idle" /\ op'[d] = op[d]
            BY <2>9 DEF SaveMessage, End, StorageTypeOK
        <3>6. ASSUME NEW d \in Call, phase'[d] # "idle", NEW k \in kept'
              PROVE  ~MayLose(op'[d], k[1], k[2])
            <4>1. d \in Busy \ {c} /\ op'[d] = op[d]
                BY <3>5, <3>6 DEF Busy
            <4>2. CASE k \in kept
                BY <3>5, <3>6, <4>1, <4>2 DEF KeptIsSafe, MayLose
            <4>3. CASE k \notin kept
                <5>1. k = <<m, t>> /\ ~MayLose(op[d], m, t)
                    BY <3>3, <3>6, <4>1, <4>3
                <5> QED
                    BY <4>1, <5>1 DEF MayLose
            <4> QED
                BY <4>2, <4>3
        <3> QED
            BY <3>4, <3>6 DEF KeptIsSafe, SavedMessagesStay, MayLose
    <2>10. ASSUME NEW c \in Call, InsertNext(c) \/ Commit(c) \/ Rollback(c) PROVE KeptIsSafe'
        <3>1. phase[c] \in {"rows", "rollback"} /\ kept' = kept
            BY <2>10 DEF InsertNext, Commit, Rollback
        <3> QED
            BY <2>1, <3>1, SaversKeepNothing DEF SaverPhases
    <2>11. ASSUME NEW c \in Call, BeginTransaction(c) PROVE KeptIsSafe'
        <3>1. phase[c] = "run" /\ op[c].kind = "saveThreads" /\ kept' = kept
            BY <2>11 DEF BeginTransaction
        <3> QED
            BY <2>1, <3>1, SaversKeepNothing
    <2>12. ASSUME NEW c \in Call, DatabaseOpened(c) \/ SchemaCreated(c) PROVE KeptIsSafe'
        <3>1. /\ \A d \in Call : phase'[d] # "idle" => phase[d] # "idle" /\ op'[d] = op[d]
              /\ kept' = kept /\ stored' = stored
            BY <2>12 DEF DatabaseOpened, SchemaCreated, StorageTypeOK
        <3> QED
            BY <2>0, <2>2, <3>1
    <2>13. ASSUME NEW c \in Call, Fails(c) PROVE KeptIsSafe'
        <3>1. \A d \in Call : phase'[d] # "idle" => phase[d] # "idle" /\ op'[d] = op[d]
            BY <2>3, <2>13 DEF Fails, StorageTypeOK
        <3> QED
            BY <2>0, <2>2, <2>13, <3>1 DEF Fails
    <2>14. CASE RelaunchStorage
        <3>1. CASE snapshot = NoSnapshot
            BY <2>0, <2>2, <2>14, <3>1 DEF RelaunchStorage
        <3>2. CASE snapshot # NoSnapshot
            <4>1. kept = {}
                BY <3>2, SaversKeepNothing DEF TransactionsEnd, SaverPhases
            <4> QED
                BY <2>1, <2>14, <4>1 DEF RelaunchStorage
        <3> QED
            BY <3>1, <3>2
    <2>15. CASE UNCHANGED storageVars
        BY <2>0, <2>2, <2>15 DEF storageVars
    <2> QED
        BY <2>4, <2>5, <2>6, <2>7, <2>8, <2>9, <2>10, <2>11, <2>12, <2>13, <2>14, <2>15
           DEF StorageNext, Step, Statement
<1>3. KeptIsSafe => SavedMessagesStay
    BY DEF KeptIsSafe
<1> QED
    BY <1>1, <1>2, <1>3, StorageTypeCorrect, StorageSaverPhases, StorageTransactionsEnd, PTL
       DEF StorageSpec

-----------------------------------------------------------------------------
(* The screens that start a pairing.                                       *)

\* The screens' variables keep their types.
THEOREM PairScreenTypeCorrect == PairSpec => []PairScreenTypeOK
<1>1. PairInit => PairScreenTypeOK
    <2> SUFFICES ASSUME PairInit PROVE PairScreenTypeOK
        OBVIOUS
    <2>1. /\ isSubmitting \in BOOLEAN /\ isScanning \in BOOLEAN /\ error \in BOOLEAN
          /\ qrPayload \in Payload \cup {Blank} /\ raced \in BOOLEAN
        BY DEF PairInit
    <2>2. shown \in [submitting : BOOLEAN, scanning : BOOLEAN, text : Payload \cup {Blank}]
        BY <2>1 DEF PairInit, Drawn
    <2> QED
        BY <2>1, <2>2 DEF PairInit, PairScreenTypeOK
<1>2. PairScreenTypeOK /\ [PairNext]_pairVars => PairScreenTypeOK'
    <2> SUFFICES ASSUME PairScreenTypeOK, [PairNext]_pairVars PROVE PairScreenTypeOK'
        OBVIOUS
    <2> USE PairScreenAssumption DEF PairScreenTypeOK, formVars
    <2>1. ASSUME isSubmitting' \in BOOLEAN, isScanning' \in BOOLEAN,
                 qrPayload' \in Payload \cup {Blank}
          PROVE  Drawn' \in [submitting : BOOLEAN, scanning : BOOLEAN, text : Payload \cup {Blank}]
        BY <2>1 DEF Drawn
    <2>2. CASE EnterPair
        BY <2>1, <2>2 DEF EnterPair
    <2>3. CASE LeavePair
        BY <2>3 DEF LeavePair
    <2>30. ASSUME NEW p, Submit(p)
          PROVE  isSubmitting' \in BOOLEAN /\ error' \in BOOLEAN /\ calls' \in Nat
        <3>1. calls + 1 \in Nat
            OBVIOUS
        <3>2. CASE isSubmitting' = TRUE /\ error' = FALSE /\ calls' = calls + 1
            BY <3>1, <3>2
        <3>3. CASE isSubmitting' = FALSE /\ error' = TRUE /\ calls' = calls
            BY <3>3
        <3> QED
            BY <2>30, <3>2, <3>3 DEF Submit
    <2>4. ASSUME NEW p \in Payload, Scan(p) PROVE PairScreenTypeOK'
        <3>1. raced' \in BOOLEAN /\ Submit(p)
            BY <2>4 DEF Scan
        <3> QED
            BY <2>30, <2>4, <3>1 DEF Scan
    <2>5. CASE PressPair
        <3>1. raced' \in BOOLEAN /\ Submit(shown.text)
            BY <2>5 DEF PressPair
        <3> QED
            BY <2>1, <2>30, <2>5, <3>1 DEF PressPair
    <2>6. ASSUME NEW p \in Payload, EditText(p) PROVE PairScreenTypeOK'
        BY <2>1, <2>6 DEF EditText
    <2>7. CASE Rescan
        BY <2>1, <2>7 DEF Rescan
    <2>8. CASE Draw
        <3>1. Drawn \in [submitting : BOOLEAN, scanning : BOOLEAN, text : Payload \cup {Blank}]
            BY DEF Drawn
        <3> QED
            BY <2>8, <3>1 DEF Draw
    <2>9. CASE Paired \/ PairingFailed
        <3>1. calls > 0 => calls - 1 \in Nat
            OBVIOUS
        <3>2. CASE Paired
            BY <3>1, <3>2 DEF Paired
        <3>3. CASE PairingFailed
            BY <3>1, <3>3 DEF PairingFailed
        <3> QED
            BY <2>9, <3>2, <3>3
    <2>10. CASE OldCallSettles
        BY <2>10 DEF OldCallSettles
    <2>11. CASE UNCHANGED pairVars
        BY <2>11 DEF pairVars
    <2> QED
        BY <2>2, <2>3, <2>4, <2>5, <2>6, <2>7, <2>8, <2>9, <2>10, <2>11 DEF PairNext
<1> QED
    BY <1>1, <1>2, PTL DEF PairSpec

\* The calls of a pair screen are its own: a screen that is left has none.
OwnCalls == OneSubmissionAtATime /\ (screen = "connect" => calls = 0)

\* Where no handler acts on a state that is out of date, a pair screen has one
\* submission at a time and shows that it has (pair.tsx:17-51).
THEOREM PairScreenSubmitsOnce == PairSpec => []OneSubmissionAtATime
<1>1. PairInit => OwnCalls
    BY DEF PairInit, OwnCalls, OneSubmissionAtATime
<1>2. PairScreenTypeOK /\ OwnCalls /\ [PairNext]_pairVars => OwnCalls'
    <2> SUFFICES ASSUME PairScreenTypeOK, OwnCalls, [PairNext]_pairVars PROVE OwnCalls'
        OBVIOUS
    <2>0. /\ calls \in Nat /\ shown.submitting \in BOOLEAN
          /\ isSubmitting \in BOOLEAN /\ error \in BOOLEAN
        BY DEF PairScreenTypeOK
    <2> USE DEF OwnCalls, OneSubmissionAtATime, formVars
    <2>1. CASE EnterPair
        BY <2>0, <2>1 DEF EnterPair
    <2>2. CASE LeavePair
        BY <2>2 DEF LeavePair
    <2>3. ASSUME NEW p, Submit(p), screen' = screen, screen = "pair",
                 ~shown.submitting, raced' = (raced \/ shown # Drawn)
          PROVE  OwnCalls'
        <3>0. Drawn.submitting = isSubmitting
            BY DEF Drawn
        <3>1. ~raced' => ~raced /\ ~isSubmitting
            BY <2>3, <3>0
        <3>2. ~raced' => calls = 0
            BY <2>0, <2>3, <3>1
        <3> QED
            BY <2>0, <2>3, <3>2 DEF Submit
    <2>4. ASSUME NEW p \in Payload, Scan(p) PROVE OwnCalls'
        BY <2>3, <2>4 DEF Scan, Reads
    <2>5. CASE PressPair
        BY <2>3, <2>5 DEF PressPair
    <2>6. ASSUME NEW p \in Payload, EditText(p) PROVE OwnCalls'
        BY <2>6 DEF EditText
    <2>7. CASE Rescan
        BY <2>7 DEF Rescan
    <2>8. CASE Draw
        BY <2>8 DEF Draw
    <2>9. CASE Paired
        BY <2>0, <2>9 DEF Paired
    <2>10. CASE PairingFailed
        BY <2>0, <2>10 DEF PairingFailed
    <2>11. CASE OldCallSettles
        BY <2>0, <2>11 DEF OldCallSettles
    <2>12. CASE UNCHANGED pairVars
        BY <2>12 DEF pairVars
    <2> QED
        BY <2>1, <2>2, <2>4, <2>5, <2>6, <2>7, <2>8, <2>9, <2>10, <2>11, <2>12 DEF PairNext
<1>3. OwnCalls => OneSubmissionAtATime
    BY DEF OwnCalls
<1> QED
    BY <1>1, <1>2, <1>3, PairScreenTypeCorrect, PTL DEF PairSpec
===============================================================================
