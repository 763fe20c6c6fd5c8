-------------------------- MODULE MessageRouterProofs -------------------------
(* Theorems about MessageRouter, for any number of pairings, requests and     *)
(* notifications, and of losses of the connection to the relay.               *)
EXTENDS MessageRouter, SequenceTheorems, TLAPS

\* The wire and the buffer hold messages in the order they were given.
QueueOrder ==
    /\ \A i, j \in 1 .. Len(written) : i < j => written[i] < written[j]
    /\ \A i \in 1 .. Len(written), j \in 1 .. Len(waiting) : written[i] < waiting[j]
    /\ \A i, j \in 1 .. Len(waiting) : i < j => waiting[i] < waiting[j]

BufferInv == link = "on" => waiting = <<>>

\* The keys in use are the ones stored last, and the running bridge has some
\* once it has stored any.
KeysInv ==
    /\ keys # None => derived # <<>> /\ derived[Len(derived)] = keys
    /\ phase # "exited" /\ derived # <<>> => keys # None

SentInv == \A m, n \in 1 .. Len(sent) : m <= n => NoLater(derived, sent[m].key, sent[n].key)

ByInv ==
    \A r \in Request :
        /\ outcome[r] # "unsent" => NoLater(derived, by[r], by[r])
        /\ \A n \in Replies(r) : NoLater(derived, by[r], sent[n].key)

QueueInv == QueueOrder /\ BufferInv
MessageInv == SentInv /\ ByInv /\ OneReplyEach
IInv == TypeOK /\ QueueInv /\ KeysInv /\ MessageInv

-----------------------------------------------------------------------------
(* Sequences.                                                              *)

LEMMA AppendFacts ==
    ASSUME NEW S, NEW s \in Seq(S), NEW x \in S
    PROVE  /\ Append(s, x) \in Seq(S)
           /\ Append(s, x) # <<>>
           /\ Len(s) \in Nat
           /\ Len(Append(s, x)) = Len(s) + 1
           /\ Append(s, x)[Len(s) + 1] = x
           /\ \A i \in 1 .. Len(s) : Append(s, x)[i] = s[i]
BY AppendProperties, LenProperties

\* Keys that have been stored stay stored, and in that order.
LEMMA NoLaterKeeps ==
    ASSUME TypeOK, NEW p, NEW q, NoLater(derived, p, q),
           derived' = derived \/ \E x \in Pairing : derived' = Append(derived, x)
    PROVE  NoLater(derived', p, q)
<1>1. PICK i, j \in 1 .. Len(derived) : i <= j /\ derived[i] = p /\ derived[j] = q
    BY DEF NoLater
<1>2. CASE derived' = derived
    BY <1>1, <1>2 DEF NoLater
<1>3. CASE \E x \in Pairing : derived' = Append(derived, x)
    <2>1. /\ Len(derived) \in Nat /\ Len(derived') = Len(derived) + 1
          /\ derived'[i] = p /\ derived'[j] = q
        BY <1>1, <1>3, AppendFacts DEF TypeOK
    <2>2. i \in 1 .. Len(derived') /\ j \in 1 .. Len(derived')
        BY <2>1
    <2>3. QED BY <1>1, <2>1, <2>2 DEF NoLater
<1>4. QED BY <1>2, <1>3

\* The keys in use were stored no earlier than any others.
LEMMA KeysAreLast ==
    ASSUME TypeOK, KeysInv, keys # None, NEW p, NoLater(derived, p, p)
    PROVE  NoLater(derived, p, keys)
<1>1. PICK i \in 1 .. Len(derived) : derived[i] = p
    BY DEF NoLater
<1>2. Len(derived) \in 1 .. Len(derived) /\ i <= Len(derived)
    BY <1>1, LenProperties DEF TypeOK
<1>3. QED BY <1>1, <1>2 DEF NoLater, KeysInv

LEMMA KeysAreStored ==
    ASSUME TypeOK, KeysInv, keys # None
    PROVE  NoLater(derived, keys, keys) /\ keys \in Pairing
<1>1. Len(derived) \in Nat /\ Len(derived) # 0
    BY LenProperties, EmptySeq DEF TypeOK, KeysInv
<1>2. Len(derived) \in 1 .. Len(derived)
    BY <1>1
<1>3. keys \in Pairing
    BY DEF TypeOK
<1>4. NoLater(derived, keys, keys)
    BY <1>2 DEF NoLater, KeysInv
<1>5. QED BY <1>3, <1>4

-----------------------------------------------------------------------------
(* What a message given to the relay client does.                          *)

LEMMA GiveEffect ==
    ASSUME TypeOK, QueueInv, NEW k \in Pairing, NEW item \in Request \cup {Event}, Give(k, item)
    PROVE  /\ sent' \in Seq(Message)
           /\ Len(sent) \in Nat /\ Len(sent') = Len(sent) + 1
           /\ sent'[Len(sent) + 1] = [key |-> k, item |-> item]
           /\ \A n \in 1 .. Len(sent) : sent'[n] = sent[n]
           /\ written' \in Seq(1 .. Len(sent')) /\ waiting' \in Seq(1 .. Len(sent'))
           /\ QueueOrder'
           /\ link = "on" => waiting' = <<>>
<1> DEFINE N == Len(sent) + 1
<1>1. /\ sent' \in Seq(Message) /\ Len(sent) \in Nat /\ Len(sent') = N
      /\ sent'[N] = [key |-> k, item |-> item]
      /\ \A n \in 1 .. Len(sent) : sent'[n] = sent[n]
    <2>1. [key |-> k, item |-> item] \in Message
        BY DEF Message
    <2>2. QED BY <2>1, AppendFacts DEF Give, TypeOK
<1>2. written \in Seq(1 .. N) /\ waiting \in Seq(1 .. N) /\ N \in 1 .. N
    <2>1. 1 .. Len(sent) \subseteq 1 .. N
        BY <1>1
    <2>2. QED BY <1>1, <2>1, SeqMonotonic DEF TypeOK
<1>3. /\ \A i \in 1 .. Len(written) : written[i] \in 1 .. Len(sent)
      /\ \A i \in 1 .. Len(waiting) : waiting[i] \in 1 .. Len(sent)
    BY ElementOfSeq DEF TypeOK
<1>4. /\ \A i \in 1 .. Len(written) : written[i] < N
      /\ \A i \in 1 .. Len(waiting) : waiting[i] < N
    BY <1>1, <1>3
<1>5. CASE link = "on"
    <2>1. written' = Append(written, N) /\ waiting' = waiting /\ waiting = <<>>
        BY <1>5 DEF Give, Queue!WriteAtOnce
    <2>2. /\ written' \in Seq(1 .. N) /\ Len(written) \in Nat /\ Len(written') = Len(written) + 1
          /\ written'[Len(written) + 1] = N
          /\ \A i \in 1 .. Len(written) : written'[i] = written[i]
        BY <1>2, <2>1, AppendFacts
    <2>3. Len(waiting') = 0
        BY <2>1, EmptySeq
    <2>4. \A i, j \in 1 .. Len(written') : i < j => written'[i] < written'[j]
        <3> SUFFICES ASSUME NEW i \in 1 .. Len(written'), NEW j \in 1 .. Len(written'), i < j
                     PROVE  written'[i] < written'[j]
            OBVIOUS
        <3>1. i \in 1 .. Len(written)
            BY <2>2
        <3>2. CASE j = Len(written) + 1
            BY <1>4, <2>2, <3>1, <3>2
        <3>3. CASE j \in 1 .. Len(written)
            BY <2>2, <3>1, <3>3 DEF QueueInv, QueueOrder
        <3>4. QED BY <2>2, <3>2, <3>3
    <2>5. QueueOrder'
        BY <2>3, <2>4 DEF QueueOrder
    <2>6. QED BY <1>1, <1>2, <2>1, <2>2, <2>5
<1>6. CASE link # "on"
    <2>1. waiting' = Append(waiting, N) /\ written' = written
        BY <1>6 DEF Give, Queue!Hold
    <2>2. /\ waiting' \in Seq(1 .. N) /\ Len(waiting) \in Nat /\ Len(waiting') = Len(waiting) + 1
          /\ waiting'[Len(waiting) + 1] = N
          /\ \A i \in 1 .. Len(waiting) : waiting'[i] = waiting[i]
        BY <1>2, <2>1, AppendFacts
    <2>3. \A j \in 1 .. Len(waiting') : j \in 1 .. Len(waiting) \/ j = Len(waiting) + 1
        BY <2>2
    <2>4. \A i, j \in 1 .. Len(waiting') : i < j => waiting'[i] < waiting'[j]
        <3> SUFFICES ASSUME NEW i \in 1 .. Len(waiting'), NEW j \in 1 .. Len(waiting'), i < j
                     PROVE  waiting'[i] < waiting'[j]
            OBVIOUS
        <3>1. i \in 1 .. Len(waiting)
            BY <2>2
        <3>2. CASE j = Len(waiting) + 1
            BY <1>4, <2>2, <3>1, <3>2
        <3>3. CASE j \in 1 .. Len(waiting)
            BY <2>2, <3>1, <3>3 DEF QueueInv, QueueOrder
        <3>4. QED BY <2>3, <3>2, <3>3
    <2>5. \A i \in 1 .. Len(written'), j \in 1 .. Len(waiting') : written'[i] < waiting'[j]
        BY <1>4, <2>1, <2>2, <2>3 DEF QueueInv, QueueOrder
    <2>6. \A i, j \in 1 .. Len(written') : i < j => written'[i] < written'[j]
        BY <2>1 DEF QueueInv, QueueOrder
    <2>7. QueueOrder'
        BY <2>4, <2>5, <2>6 DEF QueueOrder
    <2>8. QED BY <1>1, <1>2, <1>6, <2>1, <2>2, <2>7
<1>7. QED BY <1>5, <1>6

\* A message encrypted with the keys in use, which is a notification or the
\* only reply to its request, keeps what is known of the messages.
LEMMA GiveKeeps ==
    ASSUME IInv, keys # None, NEW item \in Request \cup {Event}, Give(keys, item),
           UNCHANGED <<derived, phase>>,
           outcome' \in [Request -> Agent!Outcome],
           \A r \in Request : outcome'[r] = outcome[r] \/ r = item,
           \A r \in Request : by'[r] = by[r] \/ (r = item /\ by'[r] = keys),
           item \in Request => outcome[item] \in Unsettled /\ outcome'[item] \notin Unsettled,
           item \in Request /\ by'[item] = by[item] => NoLater(derived, by[item], by[item])
    PROVE  MessageInv'
<1> DEFINE N == Len(sent) + 1
<1>1. keys \in Pairing /\ NoLater(derived, keys, keys)
    BY KeysAreStored DEF IInv
<1>2. /\ Len(sent) \in Nat /\ Len(sent') = N
      /\ sent'[N] = [key |-> keys, item |-> item]
      /\ \A n \in 1 .. Len(sent) : sent'[n] = sent[n]
    BY <1>1, GiveEffect DEF IInv
<1>3. \A p, q : NoLater(derived, p, q) => NoLater(derived', p, q)
    OBVIOUS
<1>4. \A p : NoLater(derived, p, p) => NoLater(derived, p, keys)
    BY KeysAreLast DEF IInv
<1>5. \A n \in 1 .. Len(sent') : n = N \/ n \in 1 .. Len(sent)
    BY <1>2
<1>6. SentInv'
    <2> SUFFICES ASSUME NEW m \in 1 .. Len(sent'), NEW n \in 1 .. Len(sent'), m <= n
                 PROVE  NoLater(derived', sent'[m].key, sent'[n].key)
        BY DEF SentInv
    <2>1. CASE n \in 1 .. Len(sent)
        <3>1. m \in 1 .. Len(sent)
            BY <1>2, <2>1
        <3>2. NoLater(derived, sent[m].key, sent[n].key)
            BY <2>1, <3>1 DEF IInv, MessageInv, SentInv
        <3>3. QED BY <1>2, <1>3, <2>1, <3>1, <3>2
    <2>2. CASE n = N /\ m \in 1 .. Len(sent)
        <3>1. NoLater(derived, sent[m].key, sent[m].key)
            BY <1>2, <2>2 DEF IInv, MessageInv, SentInv
        <3>2. NoLater(derived, sent[m].key, keys)
            BY <3>1, <1>4
        <3>3. QED BY <1>2, <1>3, <2>2, <3>2
    <2>3. CASE n = N /\ m = N
        BY <1>1, <1>2, <1>3, <2>3
    <2>4. QED BY <1>5, <2>1, <2>2, <2>3
<1>7. \A r \in Request :
        /\ r # item => Replies(r)' = Replies(r)
        /\ r = item => Replies(r) = {} /\ Replies(r)' = {N}
    <2> SUFFICES ASSUME NEW r \in Request
                 PROVE  /\ r # item => Replies(r)' = Replies(r)
                        /\ r = item => Replies(r) = {} /\ Replies(r)' = {N}
        OBVIOUS
    <2>1. N \in 1 .. Len(sent') /\ 1 .. Len(sent) \subseteq 1 .. Len(sent')
        BY <1>2
    <2>2. CASE r # item
        BY <1>2, <1>5, <2>1, <2>2 DEF Replies
    <2>3. CASE r = item
        <3>1. Replies(r) = {}
            BY <2>3 DEF IInv, MessageInv, OneReplyEach
        <3>2. QED BY <1>2, <1>5, <2>1, <2>3, <3>1 DEF Replies
    <2>4. QED BY <2>2, <2>3
<1>8. ByInv'
    <2> SUFFICES ASSUME NEW r \in Request
                 PROVE  /\ outcome'[r] # "unsent" => NoLater(derived', by'[r], by'[r])
                        /\ \A n \in Replies(r)' : NoLater(derived', by'[r], sent'[n].key)
        BY DEF ByInv
    <2>1. CASE r # item
        <3>1. by'[r] = by[r] /\ outcome'[r] = outcome[r] /\ Replies(r)' = Replies(r)
            BY <1>7, <2>1
        <3>2. \A n \in Replies(r) : n \in 1 .. Len(sent) /\ sent'[n] = sent[n]
            BY <1>2 DEF Replies
        <3>3. /\ outcome[r] # "unsent" => NoLater(derived, by[r], by[r])
              /\ \A n \in Replies(r) : NoLater(derived, by[r], sent[n].key)
            BY DEF IInv, MessageInv, ByInv
        <3>4. QED BY <1>3, <3>1, <3>2, <3>3
    <2>2. CASE r = item
        <3>1. NoLater(derived, by'[r], by'[r]) /\ NoLater(derived, by'[r], keys)
            BY <1>1, <1>4, <2>2
        <3>2. \A n \in Replies(r)' : sent'[n].key = keys
            BY <1>2, <1>7, <2>2
        <3>3. QED BY <1>3, <3>1, <3>2
    <2>3. QED BY <2>1, <2>2
<1>9. OneReplyEach'
    <2> SUFFICES ASSUME NEW r \in Request
                 PROVE  /\ \A m, n \in Replies(r)' : m = n
                        /\ outcome'[r] \in Unsettled => Replies(r)' = {}
                        /\ phase' # "exited" /\ outcome'[r] \notin Unsettled => Replies(r)' # {}
        BY DEF OneReplyEach, Unsettled
    <2>1. CASE r # item
        <3>1. outcome'[r] = outcome[r] /\ Replies(r)' = Replies(r)
            BY <1>7, <2>1
        <3>2. QED BY <3>1 DEF IInv, MessageInv, OneReplyEach, Unsettled
    <2>2. CASE r = item
        BY <1>7, <2>2 DEF Unsettled
    <2>3. QED BY <2>1, <2>2
<1>10. QED BY <1>6, <1>8, <1>9 DEF MessageInv

\* Steps that give the relay client nothing and leave requests as they are.
LEMMA NothingGivenKeeps ==
    ASSUME TypeOK, MessageInv, UNCHANGED <<sent, outcome, by>>,
           phase' = phase \/ phase' = "exited" \/ phase # "exited",
           derived' = derived \/ \E x \in Pairing : derived' = Append(derived, x)
    PROVE  MessageInv'
<1>1. \A p, q : NoLater(derived, p, q) => NoLater(derived', p, q)
    BY NoLaterKeeps
<1>2. \A r : Replies(r)' = Replies(r)
    BY DEF Replies
<1>3. SentInv'
    BY <1>1 DEF MessageInv, SentInv
<1>4. ByInv'
    BY <1>1, <1>2 DEF MessageInv, ByInv
<1>5. OneReplyEach'
    BY <1>2 DEF MessageInv, OneReplyEach
<1>6. QED BY <1>3, <1>4, <1>5 DEF MessageInv

-----------------------------------------------------------------------------
(* The invariant.                                                          *)

LEMMA RouterInit == Init => IInv
<1> SUFFICES ASSUME Init PROVE IInv
    OBVIOUS
<1> USE EmptySeq
<1>1. TypeOK
    <2>1. /\ <<>> \in Seq(Pairing) /\ <<>> \in Seq(Message)
          /\ <<>> \in Seq(1 .. Len(sent))
        OBVIOUS
    <2>2. 0 \in 0 .. MaxEvents
        BY RouterAssumption
    <2>3. QED BY <2>1, <2>2 DEF Init, TypeOK, Phase, Link, Agent!Outcome
<1>2. QueueInv
    BY DEF Init, QueueInv, QueueOrder, BufferInv
<1>3. KeysInv
    BY DEF Init, KeysInv
<1>4. Len(sent) = 0
    BY DEF Init
<1>5. MessageInv
    BY <1>4 DEF Init, MessageInv, SentInv, ByInv, OneReplyEach, Replies, Unsettled
<1>6. QED BY <1>1, <1>2, <1>3, <1>5 DEF IInv

LEMMA FlushKeeps ==
    ASSUME TypeOK, QueueInv, Queue!Flush, UNCHANGED sent
    PROVE  /\ written' \in Seq(1 .. Len(sent')) /\ waiting' \in Seq(1 .. Len(sent'))
           /\ QueueOrder' /\ waiting' = <<>>
<1>1. written' = written \o waiting /\ waiting' = <<>>
    BY DEF Queue!Flush
<1>2. /\ written' \in Seq(1 .. Len(sent))
      /\ Len(written') = Len(written) + Len(waiting)
      /\ \A i \in 1 .. Len(written) + Len(waiting) :
            written'[i] = IF i <= Len(written) THEN written[i] ELSE waiting[i - Len(written)]
    BY <1>1, ConcatProperties DEF TypeOK
<1>3. Len(written) \in Nat /\ Len(waiting) \in Nat
    BY LenProperties DEF TypeOK
<1>4. waiting' \in Seq(1 .. Len(sent')) /\ Len(waiting') = 0
    BY <1>1, EmptySeq
<1>5. \A i, j \in 1 .. Len(written') : i < j => written'[i] < written'[j]
    <2> SUFFICES ASSUME NEW i \in 1 .. Len(written'), NEW j \in 1 .. Len(written'), i < j
                 PROVE  written'[i] < written'[j]
        OBVIOUS
    <2>1. CASE j <= Len(written)
        <3>1. i \in 1 .. Len(written) /\ j \in 1 .. Len(written)
            BY <1>3, <2>1
        <3>2. written'[i] = written[i] /\ written'[j] = written[j]
            BY <1>2, <1>3, <3>1
        <3>3. QED BY <3>1, <3>2 DEF QueueInv, QueueOrder
    <2>2. CASE i <= Len(written) /\ ~(j <= Len(written))
        <3>1. i \in 1 .. Len(written) /\ j - Len(written) \in 1 .. Len(waiting)
            BY <1>2, <1>3, <2>2
        <3>2. written'[i] = written[i] /\ written'[j] = waiting[j - Len(written)]
            BY <1>2, <2>2
        <3>3. QED BY <3>1, <3>2 DEF QueueInv, QueueOrder
    <2>3. CASE ~(i <= Len(written)) /\ ~(j <= Len(written))
        <3>1. /\ i - Len(written) \in 1 .. Len(waiting) /\ j - Len(written) \in 1 .. Len(waiting)
              /\ i - Len(written) < j - Len(written)
            BY <1>2, <1>3, <2>3
        <3>2. written'[i] = waiting[i - Len(written)] /\ written'[j] = waiting[j - Len(written)]
            BY <1>2, <2>3
        <3>3. QED BY <3>1, <3>2 DEF QueueInv, QueueOrder
    <2>4. QED BY <1>2, <1>3, <2>1, <2>2, <2>3
<1>6. QueueOrder'
    BY <1>4, <1>5 DEF QueueOrder
<1>7. QED BY <1>1, <1>2, <1>4, <1>6

\* Every message: a request that is refused or settled, a notification.
LEMMA SendKeeps ==
    ASSUME IInv, phase # "exited", NEW item \in Request \cup {Event}, SendToMobile(item),
           UNCHANGED <<phase, link, keyVars>>,
           outcome' \in [Request -> Agent!Outcome], events' \in 0 .. MaxEvents,
           by' \in [Request -> Pairing \cup {None}],
           \A r \in Request : outcome'[r] = outcome[r] \/ r = item,
           \A r \in Request : by'[r] = by[r] \/ (r = item /\ by'[r] = keys),
           item \in Request => /\ keys # None
                                /\ outcome[item] \in Unsettled /\ outcome'[item] \notin Unsettled,
           item \in Request /\ by'[item] = by[item] => NoLater(derived, by[item], by[item]),
           item = Event => UNCHANGED <<outcome, by>>
    PROVE  IInv'
<1>1. KeysInv'
    BY DEF keyVars, IInv, KeysInv
<1>2. CASE keys = None
    <2>1. item = Event /\ UNCHANGED queueVars
        BY <1>2 DEF SendToMobile
    <2>2. UNCHANGED <<sent, written, waiting, outcome, by>>
        BY <2>1 DEF queueVars
    <2>3. TypeOK'
        BY <2>2 DEF IInv, TypeOK, keyVars
    <2>4. QueueInv'
        BY <2>2 DEF IInv, QueueInv, QueueOrder, BufferInv
    <2>5. MessageInv'
        BY <2>2, NothingGivenKeeps DEF IInv, keyVars
    <2>6. QED BY <1>1, <2>3, <2>4, <2>5 DEF IInv
<1>3. CASE keys # None
    <2>1. Give(keys, item) /\ keys \in Pairing
        BY <1>3, KeysAreStored DEF SendToMobile, IInv
    <2>2. /\ sent' \in Seq(Message)
          /\ written' \in Seq(1 .. Len(sent')) /\ waiting' \in Seq(1 .. Len(sent'))
          /\ QueueOrder' /\ (link = "on" => waiting' = <<>>)
        BY <2>1, GiveEffect DEF IInv
    <2>3. TypeOK'
        BY <2>2 DEF IInv, TypeOK, keyVars
    <2>4. QueueInv'
        BY <2>2 DEF QueueInv, BufferInv
    <2>5. MessageInv'
        BY <1>3, <2>1, GiveKeeps DEF keyVars
    <2>6. QED BY <1>1, <2>3, <2>4, <2>5 DEF IInv
<1>4. QED BY <1>2, <1>3

\* Steps that concern the connection, start() and pairing.
LEMMA LinkStep ==
    ASSUME IInv,
           \/ RelayOpens \/ RelayLost \/ RelayCloses
           \/ Start \/ AgentStarted \/ Killed \/ Stop
    PROVE  IInv'
<1>1. /\ UNCHANGED <<keys, heard, deriving, derived, outcome, sent, events, by>>
      /\ phase' \in Phase /\ link' \in Link
      /\ phase' = phase \/ phase' = "exited" \/ phase # "exited"
    BY DEF RelayOpens, RelayLost, RelayCloses, Start, AgentStarted, Killed, Stop, Disconnect,
           keyVars, queueVars, Phase, Link, IInv, TypeOK
<1>2. MessageInv'
    BY <1>1, NothingGivenKeeps DEF IInv
<1>3. KeysInv'
    BY <1>1 DEF RelayOpens, RelayLost, RelayCloses, Start, AgentStarted, Killed, Stop, IInv, KeysInv
<1>4. /\ written' \in Seq(1 .. Len(sent')) /\ waiting' \in Seq(1 .. Len(sent'))
      /\ QueueInv'
    <2>1. CASE RelayOpens
        BY <2>1, FlushKeeps DEF RelayOpens, IInv, QueueInv, BufferInv
    <2>2. CASE Stop
        <3>1. UNCHANGED written /\ waiting' = <<>>
            BY <2>2 DEF Stop, Disconnect, Queue!Discard
        <3>2. waiting' \in Seq(1 .. Len(sent')) /\ Len(waiting') = 0
            BY <3>1, EmptySeq
        <3>3. QueueInv'
            BY <3>1, <3>2 DEF IInv, QueueInv, QueueOrder, BufferInv
        <3>4. QED BY <1>1, <3>1, <3>2, <3>3 DEF IInv, TypeOK
    <2>3. CASE RelayLost \/ RelayCloses \/ Start \/ AgentStarted \/ Killed
        <3>1. UNCHANGED <<written, waiting>> /\ (link' = "on" => link = "on")
            BY <2>3 DEF RelayLost, RelayCloses, Start, AgentStarted, Killed, queueVars
        <3>2. QueueInv'
            BY <3>1 DEF IInv, QueueInv, QueueOrder, BufferInv
        <3>3. QED BY <1>1, <3>1, <3>2 DEF IInv, TypeOK
    <2>4. QED BY <2>1, <2>2, <2>3
<1>5. TypeOK'
    BY <1>1, <1>4 DEF IInv, TypeOK
<1>6. QED BY <1>2, <1>3, <1>4, <1>5 DEF IInv

LEMMA PairingStep ==
    ASSUME IInv, NEW p \in Pairing, HearsConfirm(p) \/ Derived(p)
    PROVE  IInv'
<1>1. /\ UNCHANGED <<phase, outcome, sent, written, waiting, events, by>>
      /\ link' = link \/ link' = "reviving"
      /\ derived' = derived \/ derived' = Append(derived, p)
    BY DEF HearsConfirm, Derived, queueVars
<1>2. MessageInv'
    BY <1>1, NothingGivenKeeps DEF IInv
<1>3. QueueInv'
    BY <1>1 DEF IInv, QueueInv, QueueOrder, BufferInv
<1>4. CASE HearsConfirm(p)
    <2>1. TypeOK'
        BY <1>4 DEF HearsConfirm, IInv, TypeOK, queueVars, Link
    <2>2. KeysInv'
        BY <1>4 DEF HearsConfirm, IInv, KeysInv
    <2>3. QED BY <1>2, <1>3, <2>1, <2>2 DEF IInv
<1>5. CASE Derived(p)
    <2>1. /\ derived' = Append(derived, p) /\ derived' \in Seq(Pairing)
          /\ derived' # <<>> /\ derived'[Len(derived')] = p
        <3>1. derived \in Seq(Pairing) /\ derived' = Append(derived, p)
            BY <1>5 DEF Derived, IInv, TypeOK
        <3>2. /\ derived' \in Seq(Pairing) /\ derived' # <<>>
              /\ Len(derived') = Len(derived) + 1 /\ derived'[Len(derived) + 1] = p
            BY <3>1, AppendFacts
        <3>3. QED BY <3>1, <3>2
    <2>2. TypeOK'
        BY <1>5, <2>1 DEF Derived, IInv, TypeOK, queueVars
    <2>3. KeysInv'
        BY <1>5, <2>1, RouterAssumption DEF Derived, KeysInv
    <2>4. QED BY <1>2, <1>3, <2>2, <2>3 DEF IInv
<1>6. QED BY <1>4, <1>5

\* The end of stop(): what waits is rejected, and nothing is sent any more.
LEMMA AgentStoppedStep ==
    ASSUME IInv, AgentStopped
    PROVE  IInv'
<1>1. /\ phase' = "exited" /\ keys' = None
      /\ UNCHANGED <<link, heard, deriving, derived, sent, written, waiting, events, by>>
      /\ outcome' = [r \in Request |-> IF outcome[r] = "waiting" THEN "stopped" ELSE outcome[r]]
    BY DEF AgentStopped, queueVars, Agent!Settle
<1>2. TypeOK'
    <2>1. outcome' \in [Request -> Agent!Outcome]
        BY <1>1 DEF IInv, TypeOK, Agent!Outcome
    <2>2. QED BY <1>1, <2>1 DEF IInv, TypeOK, Phase
<1>3. QueueInv' /\ KeysInv'
    BY <1>1 DEF IInv, QueueInv, QueueOrder, BufferInv, KeysInv
<1>4. SentInv'
    BY <1>1 DEF IInv, MessageInv, SentInv
<1>5. \A r : Replies(r)' = Replies(r)
    BY <1>1 DEF Replies
<1>6. ByInv'
    BY <1>1, <1>5 DEF IInv, MessageInv, ByInv
<1>7. OneReplyEach'
    BY <1>1, <1>5 DEF IInv, MessageInv, OneReplyEach, Unsettled
<1>8. QED BY <1>2, <1>3, <1>4, <1>6, <1>7 DEF IInv, MessageInv

LEMMA AskStep ==
    ASSUME IInv, NEW r \in Request, keys # None, by' = [by EXCEPT ![r] = keys],
           Agent!Ask(r), UNCHANGED <<queueVars, phase, link, keyVars, events>>
    PROVE  IInv'
<1>1. /\ outcome[r] = "unsent" /\ outcome' = [outcome EXCEPT ![r] = "waiting"]
      /\ UNCHANGED <<phase, link, keys, heard, deriving, derived, sent, written, waiting, events>>
    BY DEF Agent!Ask, queueVars, keyVars
<1>2. keys \in Pairing /\ NoLater(derived, keys, keys)
    BY KeysAreStored DEF IInv
<1>3. TypeOK'
    BY <1>1, <1>2 DEF IInv, TypeOK, Agent!Outcome
<1>4. QueueInv' /\ KeysInv' /\ SentInv'
    BY <1>1 DEF IInv, QueueInv, QueueOrder, BufferInv, KeysInv, MessageInv, SentInv
<1>5. (\A q : Replies(q)' = Replies(q)) /\ Replies(r) = {}
    BY <1>1 DEF Replies, IInv, MessageInv, OneReplyEach, Unsettled
<1>6. ByInv'
    <2> SUFFICES ASSUME NEW q \in Request
                 PROVE  /\ outcome'[q] # "unsent" => NoLater(derived, by'[q], by'[q])
                        /\ \A n \in Replies(q) : NoLater(derived, by'[q], sent[n].key)
        BY <1>1, <1>5 DEF ByInv
    <2>1. CASE q = r
        BY <1>2, <1>5, <2>1 DEF IInv, TypeOK
    <2>2. CASE q # r
        BY <1>1, <2>2 DEF IInv, TypeOK, MessageInv, ByInv
    <2>3. QED BY <2>1, <2>2
<1>7. OneReplyEach'
    BY <1>1, <1>5 DEF IInv, TypeOK, MessageInv, OneReplyEach, Unsettled
<1>8. QED BY <1>3, <1>4, <1>6, <1>7 DEF IInv, MessageInv

LEMMA RequestStep ==
    ASSUME IInv, NEW r \in Request, HearsRequest(r) \/ Settled(r)
    PROVE  IInv'
<1>0. r # Event
    BY RouterAssumption
<1>1. CASE HearsRequest(r) /\ Agent!Ask(r) /\ UNCHANGED queueVars
    BY <1>1, AskStep DEF HearsRequest
<1>2. CASE HearsRequest(r) /\ Agent!Refuse(r) /\ SendToMobile(r)
    <2>1. /\ phase # "exited" /\ keys # None /\ keys \in Pairing
          /\ by' = [by EXCEPT ![r] = keys]
          /\ outcome[r] = "unsent" /\ outcome' = [outcome EXCEPT ![r] = "refused"]
          /\ UNCHANGED <<phase, link, keyVars>> /\ events' \in 0 .. MaxEvents
        BY <1>2, KeysAreStored DEF HearsRequest, Hearing, Agent!Refuse, IInv, TypeOK
    <2>2. /\ by' \in [Request -> Pairing \cup {None}] /\ by'[r] = keys
          /\ \A q \in Request : q # r => by'[q] = by[q] /\ outcome'[q] = outcome[q]
          /\ outcome' \in [Request -> Agent!Outcome] /\ outcome'[r] = "refused"
        BY <2>1 DEF IInv, TypeOK, Agent!Outcome
    <2>3. NoLater(derived, keys, keys)
        BY <2>1, KeysAreStored DEF IInv
    <2>4. QED BY <1>0, <1>2, <2>1, <2>2, <2>3, SendKeeps DEF Unsettled
<1>3. CASE Settled(r)
    <2>1. /\ phase # "exited" /\ outcome[r] = "waiting"
          /\ outcome' \in [Request -> Agent!Outcome]
          /\ outcome'[r] \in {"answered", "timeout", "closed"}
          /\ \A q \in Request : q # r => outcome'[q] = outcome[q]
        <3>1. PICK reason \in {"answered", "timeout", "closed"} : Agent!Settle({r}, reason)
            BY <1>3 DEF Settled
        <3>2. /\ outcome[r] = "waiting"
              /\ outcome' = [q \in Request |-> IF q \in {r} THEN reason ELSE outcome[q]]
            BY <3>1 DEF Agent!Settle
        <3>3. QED BY <1>3, <3>2 DEF Settled, IInv, TypeOK, Agent!Outcome
    <2>2. /\ SendToMobile(r) /\ UNCHANGED <<phase, link, keyVars, by>>
          /\ by' \in [Request -> Pairing \cup {None}] /\ events' \in 0 .. MaxEvents
        BY <1>3 DEF Settled, IInv, TypeOK
    <2>3. NoLater(derived, by[r], by[r])
        BY <2>1 DEF IInv, MessageInv, ByInv
    <2>4. keys # None
        <3>1. derived # <<>>
            BY <2>3, EmptySeq DEF NoLater
        <3>2. QED BY <2>1, <3>1 DEF IInv, KeysInv
    <2>5. QED BY <1>0, <2>1, <2>2, <2>3, <2>4, SendKeeps DEF Unsettled
<1>4. QED BY <1>1, <1>2, <1>3 DEF HearsRequest

LEMMA EventStep ==
    ASSUME IInv, AgentEvent
    PROVE  IInv'
<1>1. /\ phase # "exited" /\ SendToMobile(Event)
      /\ UNCHANGED <<phase, link, keyVars, outcome, by>> /\ events' \in 0 .. MaxEvents
    BY RouterAssumption DEF AgentEvent, IInv, TypeOK
<1>2. /\ outcome' \in [Request -> Agent!Outcome]
      /\ by' \in [Request -> Pairing \cup {None}]
    BY <1>1 DEF IInv, TypeOK
<1>3. Event \notin Request
    BY RouterAssumption
<1>4. QED BY <1>1, <1>2, <1>3, SendKeeps

LEMMA RouterStep == IInv /\ [Next]_vars => IInv'
<1> SUFFICES ASSUME IInv, [Next]_vars PROVE IInv'
    OBVIOUS
<1>1. CASE UNCHANGED vars
    <2>1. UNCHANGED <<phase, link, keys, heard, deriving, derived, outcome, sent, written, waiting, events, by>>
        BY <1>1 DEF vars, keyVars, queueVars
    <2>2. TypeOK' /\ QueueInv' /\ KeysInv'
        BY <2>1 DEF IInv, TypeOK, QueueInv, QueueOrder, BufferInv, KeysInv
    <2>3. MessageInv'
        BY <2>1, NothingGivenKeeps DEF IInv
    <2>4. QED BY <2>2, <2>3 DEF IInv
<1>2. CASE Next
    BY <1>2, LinkStep, PairingStep, AgentStoppedStep, RequestStep, EventStep DEF Next
<1>3. QED BY <1>1, <1>2

LEMMA RouterInvariant == Spec => []IInv
BY RouterInit, RouterStep, PTL DEF Spec

LEMMA InvariantOrdersKeys == IInv => KeysOnlyMoveOn
<1> SUFFICES ASSUME IInv PROVE KeysOnlyMoveOn
    OBVIOUS
<1>1. ASSUME NEW i \in 1 .. Len(written), NEW j \in 1 .. Len(written), i < j
      PROVE  NoLater(derived, sent[written[i]].key, sent[written[j]].key)
    <2>1. written[i] \in 1 .. Len(sent) /\ written[j] \in 1 .. Len(sent)
        BY ElementOfSeq DEF IInv, TypeOK
    <2>2. written[i] < written[j]
        BY <1>1 DEF IInv, QueueInv, QueueOrder
    <2>3. QED BY <2>1, <2>2 DEF IInv, MessageInv, SentInv
<1>2. QED BY <1>1 DEF KeysOnlyMoveOn, IInv, MessageInv, ByInv

\* Every variable keeps its type; in particular nothing is ever encrypted
\* without keys (message-router.ts:220).
THEOREM RouterTypeCorrect == Spec => []TypeOK
BY RouterInvariant, PTL DEF IInv

\* Every request the agent has settled is replied to, once.
THEOREM RouterRepliesOnce == Spec => []OneReplyEach
BY RouterInvariant, PTL DEF IInv, MessageInv

\* On the wire the keys only move on, whatever was lost, held back or replaced.
THEOREM RouterKeysMoveOn == Spec => []KeysOnlyMoveOn
BY RouterInvariant, InvariantOrdersKeys, PTL

-----------------------------------------------------------------------------
(* The router and what its parts promise.                                  *)

\* Whatever the router does, the relay client does no more than OutboundQueue
\* lets it, so that RelayClient, which implements the queue, may stand in its
\* place (message-router.ts:87, 219-229, relay-client.ts:165-172).
THEOREM RouterUsesQueue == Spec => Queue!Spec
<1>1. Init => Queue!Init
    BY EmptySeq DEF Init, Queue!Init
<1>2. IInv /\ [Next]_vars => [Queue!Next]_<<Len(sent), written, waiting>>
    <2> SUFFICES ASSUME IInv, [Next]_vars
                 PROVE  Queue!Next \/ UNCHANGED <<Len(sent), written, waiting>>
        OBVIOUS
    <2>0. sent \in Seq(Message)
        BY DEF IInv, TypeOK
    <2>1. ASSUME UNCHANGED queueVars
          PROVE  UNCHANGED <<Len(sent), written, waiting>>
        BY <2>1 DEF queueVars
    <2>2. ASSUME NEW item, SendToMobile(item)
          PROVE  Queue!Next \/ UNCHANGED <<Len(sent), written, waiting>>
        BY <2>1, <2>2 DEF SendToMobile, Give, Queue!Next
    <2>3. CASE RelayOpens
        BY <2>3 DEF RelayOpens, Queue!Next
    <2>4. CASE Stop
        BY <2>4 DEF Stop, Disconnect, Queue!Next
    <2>5. CASE RelayLost \/ RelayCloses \/ Start \/ AgentStarted \/ AgentStopped \/ Killed
        BY <2>1, <2>5 DEF RelayLost, RelayCloses, Start, AgentStarted, AgentStopped, Killed
    <2>6. ASSUME NEW p \in Pairing, HearsConfirm(p) \/ Derived(p)
          PROVE  UNCHANGED <<Len(sent), written, waiting>>
        BY <2>1, <2>6 DEF HearsConfirm, Derived
    <2>7. ASSUME NEW r \in Request, HearsRequest(r) \/ Settled(r)
          PROVE  Queue!Next \/ UNCHANGED <<Len(sent), written, waiting>>
        BY <2>1, <2>2, <2>7 DEF HearsRequest, Settled
    <2>8. CASE AgentEvent
        BY <2>2, <2>8 DEF AgentEvent
    <2>9. CASE UNCHANGED vars
        BY <2>1, <2>9 DEF vars
    <2> QED
        BY <2>3, <2>4, <2>5, <2>6, <2>7, <2>8, <2>9 DEF Next
<1> QED
    BY <1>1, <1>2, RouterInvariant, PTL DEF Spec, Queue!Spec

\* And it asks no more of the agent adapter than AgentRequests allows, which
\* CodexAdapter implements: no request is put twice, or settled before it was
\* put (message-router.ts:197-208).
THEOREM RouterUsesAgent == Spec => Agent!Spec
<1>1. Init => Agent!Init
    BY DEF Init, Agent!Init
<1>2. IInv /\ [Next]_vars => [Agent!Next]_outcome
    <2> SUFFICES ASSUME IInv, [Next]_vars PROVE Agent!Next \/ UNCHANGED outcome
        OBVIOUS
    <2>1. CASE AgentStopped
        <3>1. {r \in Request : outcome[r] = "waiting"} \in SUBSET Request
              /\ "stopped" \in Agent!Reason
            BY DEF Agent!Reason
        <3> QED
            BY <2>1, <3>1 DEF AgentStopped, Agent!Next
    <2>2. ASSUME NEW r \in Request, HearsRequest(r) PROVE Agent!Next
        BY <2>2 DEF HearsRequest, Agent!Next
    <2>3. ASSUME NEW r \in Request, Settled(r) PROVE Agent!Next
        <3>1. PICK reason \in {"answered", "timeout", "closed"} : Agent!Settle({r}, reason)
            BY <2>3 DEF Settled
        <3>2. {r} \in SUBSET Request /\ reason \in Agent!Reason
            BY DEF Agent!Reason
        <3> QED
            BY <3>1, <3>2 DEF Agent!Next
    <2>4. ASSUME NEW p \in Pairing, HearsConfirm(p) \/ Derived(p) PROVE UNCHANGED outcome
        BY <2>4 DEF HearsConfirm, Derived
    <2>5. CASE RelayOpens \/ RelayLost \/ RelayCloses \/ Start \/ AgentStarted \/ Stop \/ Killed
               \/ AgentEvent \/ UNCHANGED vars
        BY <2>5 DEF RelayOpens, RelayLost, RelayCloses, Start, AgentStarted, Stop, Killed,
           AgentEvent, vars
    <2> QED
        BY <2>1, <2>2, <2>3, <2>4, <2>5 DEF Next
<1> QED
    BY <1>1, <1>2, RouterInvariant, PTL DEF Spec, Agent!Spec
===============================================================================
