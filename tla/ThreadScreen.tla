----------------------------- MODULE ThreadScreen -----------------------------
(***************************************************************************)
(* The screen of a thread and the conversation store it works on:          *)
(* apps/mobile/app/(main)/thread/[id].tsx and stores/conversation.ts.      *)
(*                                                                         *)
(* Every thread has a screen; all of them share the store's one isStreaming*)
(* flag and one active turn.  The answer to a message is a timer of the    *)
(* screen, which neither Stop nor leaving the screen clears.               *)
(***************************************************************************)
EXTENDS Naturals, Sequences

CONSTANTS
    Thread,
    NoTurn,    \* activeTurnId === null
    Delay,     \* the 1000 ms of the timer, in ticks of the clock
    MaxTurns,  \* bound on the messages sent
    MaxTime    \* bound on the clock

ASSUME ScreenAssumption ==
    /\ NoTurn \notin Nat
    /\ Delay \in Nat \ {0} /\ MaxTurns \in Nat /\ MaxTime \in Nat

VARIABLES
    clock,        \* Date.now()
    messages,     \* the store's messages, with the moment each was made and,
                  \* as history, the turn it belongs to
    isStreaming,
    activeTurnId, \* the moment the turn was started, which is how it is named
    timers,       \* answers to come, each with its thread and its turn
    turns,        \* how many messages were sent
    stopped       \* history: the turns whose Stop was pressed

screenVars == <<clock, messages, isStreaming, activeTurnId, timers, turns, stopped>>

Timer == [turn : Nat, thread : Thread, sent : Nat]
Message ==
    [thread : Thread, role : {"user", "assistant"}, id : Nat, at : Nat, turn : Nat]

\* What handleSend() and the timer of a turn add to the store.
Question(t, k) == [thread |-> t, role |-> "user", id |-> clock, at |-> clock, turn |-> k]
Reply(m) ==
    [thread |-> m.thread, role |-> "assistant", id |-> clock + 1, at |-> clock, turn |-> m.turn]

ScreenInit ==
    /\ clock = 0 /\ messages = <<>>
    /\ isStreaming = FALSE /\ activeTurnId = NoTurn
    /\ timers = {} /\ turns = 0
    /\ stopped = {}

\* Mutant: the composer offers Send while an answer is streaming.
SendWhileStreaming(t) ==
    /\ turns < MaxTurns /\ clock + Delay <= MaxTime
    /\ turns' = turns + 1
    /\ messages' = Append(messages, Question(t, turns'))
    /\ activeTurnId' = clock /\ isStreaming' = TRUE
    /\ timers' = timers \cup {[turn |-> turns', thread |-> t, sent |-> clock]}
    /\ UNCHANGED <<clock, stopped>>

\* handleSend() of a text that is not blank; the composer shows Send only
\* while nothing streams.  Date.now() is the same throughout the handler.
Send(t) ==
    /\ ~isStreaming
    /\ turns < MaxTurns /\ clock + Delay <= MaxTime
    /\ turns' = turns + 1
    /\ messages' = Append(messages, Question(t, turns'))
    /\ activeTurnId' = clock /\ isStreaming' = TRUE
    /\ timers' = timers \cup {[turn |-> turns', thread |-> t, sent |-> clock]}
    /\ UNCHANGED <<clock, stopped>>

\* A timer is due after Delay, and never before one that was set earlier.
Due(m) == clock >= m.sent + Delay /\ \A o \in timers : m.turn <= o.turn

\* Mutant: the answer takes the same kind of id as a message of the user.
AnswerNow(m) ==
    /\ Due(m)
    /\ timers' = timers \ {m}
    /\ messages' = Append(messages, [Reply(m) EXCEPT !.id = clock])
    /\ isStreaming' = FALSE /\ activeTurnId' = NoTurn
    /\ UNCHANGED <<clock, turns, stopped>>

\* Mutant: the answer goes to the thread that was written in last.
AnswerElsewhere(m) ==
    /\ Due(m)
    /\ timers' = timers \ {m}
    /\ messages' = Append(messages,
            [Reply(m) EXCEPT !.thread = messages[Len(messages)].thread])
    /\ isStreaming' = FALSE /\ activeTurnId' = NoTurn
    /\ UNCHANGED <<clock, turns, stopped>>

\* The timer of a turn.  It ends the streaming of whatever turn is active.
Answer(m) ==
    /\ Due(m)
    /\ timers' = timers \ {m}
    /\ messages' = Append(messages, Reply(m))
    /\ isStreaming' = FALSE /\ activeTurnId' = NoTurn
    /\ UNCHANGED <<clock, turns, stopped>>

\* handleInterrupt(): the composer shows Stop while something streams, which is
\* the turn sent last.  Its timer is left alone.
Interrupt ==
    /\ isStreaming
    /\ isStreaming' = FALSE /\ activeTurnId' = NoTurn
    /\ stopped' = stopped \cup {turns}
    /\ UNCHANGED <<clock, messages, timers, turns>>

Tick == clock < MaxTime /\ clock' = clock + 1
        /\ UNCHANGED <<messages, isStreaming, activeTurnId, timers, turns, stopped>>

ScreenNext ==
    \/ Interrupt \/ Tick
    \/ \E t \in Thread : Send(t)
    \/ \E m \in timers : Answer(m)

ScreenSpec == ScreenInit /\ [][ScreenNext]_screenVars

-----------------------------------------------------------------------------
(* Correctness.                                                            *)

ScreenTypeOK ==
    /\ clock \in Nat /\ turns \in Nat
    /\ messages \in Seq(Message)
    /\ isStreaming \in BOOLEAN
    /\ activeTurnId \in Nat \cup {NoTurn}
    /\ timers \in SUBSET Timer
    /\ stopped \in SUBSET Nat

Places(role) == {i \in 1 .. Len(messages) : messages[i].role = role}

\* The answer of an earlier turn came while m's own was still to come.
CutShort(m) ==
    \E i \in Places("user"), j \in Places("assistant") :
        i < j /\ messages[i].turn = m.turn /\ messages[j].turn < m.turn

\* What streams is the turn sent last, which was not stopped and whose answer is
\* to come.  The other way round, a turn that waits for its answer streams; or
\* was stopped; or a timer that Stop left behind has cut it short, which takes
\* an earlier turn that was stopped: a late timer's reset of the shared flag
\* reaches no turn in another way (thread/[id].tsx:41-61).
OneTurnAtATime ==
    /\ isStreaming =>
          /\ turns \notin stopped
          /\ \E m \in timers : m.turn = turns /\ m.sent = activeTurnId
    /\ \A m \in timers :
          \/ isStreaming /\ m.turn = turns
          \/ m.turn \in stopped
          \/ CutShort(m) /\ \E k \in stopped : k < m.turn

\* A message is named by the ms it was made in, an answer by the next.  Two
\* messages share an id, which keys the list on the screen and the rows of the
\* database, when the user sends one in the ms after an answer, and in no other
\* way unless Stop was pressed (thread/[id].tsx:29, 45; conversation.ts:8).
RepeatedIds ==
    stopped = {} =>
        \A i, j \in 1 .. Len(messages) :
            i < j /\ messages[i].id = messages[j].id =>
                /\ messages[i].role = "assistant" /\ messages[j].role = "user"
                /\ messages[j].at = messages[i].at + 1

\* Every answer follows the message it answers in that message's own thread,
\* whichever thread was written in meanwhile, answers keep the order of the
\* messages, and no message is answered twice.  A message that was not stopped
\* is answered or its timer is still to come, also when another turn's Stop or
\* left-over timer ended its streaming (thread/[id].tsx:27-61).
EveryMessageAnswered ==
    /\ \A j \in Places("assistant") : \E i \in Places("user") :
          /\ i < j
          /\ messages[i].turn = messages[j].turn /\ messages[i].thread = messages[j].thread
    /\ \A j, l \in Places("assistant") : j < l => messages[j].turn < messages[l].turn
    /\ \A i \in Places("user") :
          \/ messages[i].turn \in stopped
          \/ \E m \in timers : m.turn = messages[i].turn /\ m.thread = messages[i].thread
          \/ \E j \in Places("assistant") : messages[j].turn = messages[i].turn
===============================================================================
