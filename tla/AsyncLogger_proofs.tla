------------------------ MODULE AsyncLogger_proofs -------------------------
(***************************************************************************)
(* What TLAPS proves of AsyncLogger, for any writers, capacity, levels and *)
(* number of records.                                                      *)
(*                                                                         *)
(* A record goes from spawned to the queue of the channel, from there to   *)
(* the hand of the consumer and from there to the writers, one after the   *)
(* other.  The invariant compares every two places on this way by the      *)
(* order of sending: what is written is not after what is in hand, what is *)
(* in hand is before what is in the queue, and the queue is in order.      *)
(***************************************************************************)
EXTENDS AsyncLogger, TLAPS

Arrived(q, r) == \E k \in DOMAIN q : q[k] = r
Earlier(q, r, s) == \E k, l \in DOMAIN q : k < l /\ q[k] = r /\ q[l] = s
InOrder(q, s) == \A i, j \in DOMAIN s : i < j => Earlier(q, s[i], s[j])

\* What the channel still has to give.
Queue == buffer \o sending

\* No record is sent twice, or sent before its coroutine has run.
SentOnce ==
  /\ \A k, l \in DOMAIN sent : sent[k] = sent[l] => k = l
  /\ \A r \in spawned : ~ Arrived(sent, r)

\* Only records the filter lets pass have a coroutine.
OnlyAllowed ==
  /\ filter = AtLeast(least)
  /\ \A r \in spawned : IsAllowed(levels[r])
  /\ \A k \in DOMAIN sent : IsAllowed(levels[sent[k]])

\* The queue holds what was sent in the order of sending; a send waits only
\* behind a full buffer, and the consumer only in front of an empty one.
QueueInOrder ==
  /\ \A i \in DOMAIN Queue : Arrived(sent, Queue[i])
  /\ InOrder(sent, Queue)
  /\ Len(buffer) < Capacity => sending = << >>
  /\ consumer = "waiting" => Queue = << >>

\* The record in hand was sent before every one in the queue.
HandInOrder ==
  /\ hand # 0 => Arrived(sent, hand)
  /\ hand # 0 => \A i \in DOMAIN Queue : Earlier(sent, hand, Queue[i])
  /\ consumer \in {"resumed", "writing"} => hand # 0

\* What a writer got is in the order of sending and not after the one in hand.
WrittenInOrder ==
  \A w \in Writers :
    /\ \A i \in DOMAIN written[w] : Arrived(sent, written[w][i])
    /\ \A i \in DOMAIN written[w] :
         written[w][i] # hand => hand # 0 /\ Earlier(sent, written[w][i], hand)
    /\ InOrder(sent, written[w])
    /\ ~ Arrived(writers, w) => written[w] = << >>

\* The writers before the turn have the record in hand, those from it on do not,
\* and the loop reaches every writer there was when the record was logged.
TurnInOrder ==
  /\ \A i, j \in DOMAIN writers : writers[i] = writers[j] => i = j
  /\ consumer = "resumed" => \A w \in Writers : ~ Arrived(written[w], hand)
  /\ consumer = "writing" =>
       /\ audience[hand] <= upto
       /\ \A n \in 1..Len(writers) :
            n < turn <=> Arrived(written[writers[n]], hand)

LoggerInv ==
  /\ TypeOK /\ SentOnce /\ OnlyAllowed /\ QueueInOrder /\ HandInOrder
  /\ WrittenInOrder /\ TurnInOrder /\ NothingLost
-----------------------------------------------------------------------------
(* Sequences and the order of sending.                                     *)

\* Appending keeps what has arrived and its order, and what is appended comes last.
LEMMA AppendKeepsOrder ==
  ASSUME NEW S, NEW q \in Seq(S), NEW r \in S
  PROVE  /\ Append(q, r) \in Seq(S)
         /\ \A x : Arrived(Append(q, r), x) <=> (Arrived(q, x) \/ x = r)
         /\ \A x, y : Earlier(q, x, y) => Earlier(Append(q, r), x, y)
         /\ \A x : Arrived(q, x) => Earlier(Append(q, r), x, r)
<1> DEFINE p == Append(q, r)
<1>1. /\ p \in Seq(S) /\ Len(q) \in Nat /\ Len(p) = Len(q) + 1 /\ p[Len(p)] = r
      /\ \A i \in 1..Len(q) : p[i] = q[i]
      /\ DOMAIN p = 1..Len(p) /\ DOMAIN q = 1..Len(q)
  OBVIOUS
<1> HIDE DEF p
<1>2. \A x : Arrived(p, x) <=> (Arrived(q, x) \/ x = r)
  BY <1>1 DEF Arrived
<1>3. \A x, y : Earlier(q, x, y) => Earlier(p, x, y)
  BY <1>1 DEF Earlier
<1>4. \A x : Arrived(q, x) => Earlier(p, x, r)
  BY <1>1 DEF Arrived, Earlier
<1> QED BY <1>1, <1>2, <1>3, <1>4 DEF p

\* A sequence in order stays so when something later than all of it is appended.
LEMMA AppendInOrder ==
  ASSUME NEW S, NEW s \in Seq(S), NEW r \in S, NEW q, InOrder(q, s),
         \A i \in DOMAIN s : Earlier(q, s[i], r)
  PROVE  InOrder(q, Append(s, r))
<1> DEFINE p == Append(s, r)
<1>1. /\ Len(s) \in Nat /\ Len(p) = Len(s) + 1 /\ p[Len(p)] = r
      /\ \A i \in 1..Len(s) : p[i] = s[i]
      /\ DOMAIN p = 1..Len(p) /\ DOMAIN s = 1..Len(s)
  OBVIOUS
<1> HIDE DEF p
<1> SUFFICES ASSUME NEW i \in DOMAIN p, NEW j \in DOMAIN p, i < j
             PROVE  Earlier(q, p[i], p[j])
  BY DEF InOrder, p
<1>2. CASE j = Len(p)
  BY <1>1, <1>2
<1>3. CASE j # Len(p)
  BY <1>1, <1>3 DEF InOrder
<1> QED BY <1>2, <1>3

\* A longer history keeps the order of a sequence.
LEMMA HistoryKeepsOrder ==
  ASSUME NEW S, NEW q \in Seq(S), NEW r \in S, NEW s, InOrder(q, s)
  PROVE  InOrder(Append(q, r), s)
BY AppendKeepsOrder DEF InOrder

\* Without repetitions the order is transitive and says where records are.
LEMMA EarlierIsOrder ==
  ASSUME NEW S, NEW q \in Seq(S), \A k, l \in DOMAIN q : q[k] = q[l] => k = l
  PROVE  /\ \A x, y, z : Earlier(q, x, y) /\ Earlier(q, y, z) => Earlier(q, x, z)
         /\ \A x, y : Earlier(q, x, y) => x # y
         /\ \A x, y : Earlier(q, x, y) =>
              \A k, l \in DOMAIN q : q[k] = x /\ q[l] = y => k < l
<1>1. DOMAIN q = 1..Len(q) /\ Len(q) \in Nat
  OBVIOUS
<1>2. \A x, y, z : Earlier(q, x, y) /\ Earlier(q, y, z) => Earlier(q, x, z)
  <2> TAKE x, y, z
  <2> HAVE Earlier(q, x, y) /\ Earlier(q, y, z)
  <2>1. PICK k, l \in DOMAIN q : k < l /\ q[k] = x /\ q[l] = y
    BY DEF Earlier
  <2>2. PICK m, n \in DOMAIN q : m < n /\ q[m] = y /\ q[n] = z
    BY DEF Earlier
  <2>3. l = m
    BY <2>1, <2>2
  <2>4. k < n
    BY <1>1, <2>1, <2>2, <2>3
  <2> QED BY <2>1, <2>2, <2>4 DEF Earlier
<1>3. \A x, y : Earlier(q, x, y) => \A k, l \in DOMAIN q : q[k] = x /\ q[l] = y => k < l
  BY DEF Earlier
<1>4. \A x, y : Earlier(q, x, y) => x # y
  BY <1>1 DEF Earlier
<1> QED BY <1>2, <1>3, <1>4

-----------------------------------------------------------------------------
(* The queue of the channel.                                               *)

\* A concatenation holds what is in its two parts.
LEMMA ConcatParts ==
  ASSUME NEW S, NEW p \in Seq(S), NEW q \in Seq(S)
  PROVE  \A r : Arrived(p \o q, r) <=> (Arrived(p, r) \/ Arrived(q, r))
<1> DEFINE m == Len(p)  n == Len(q)  s == p \o q
<1>1. m \in Nat /\ n \in Nat /\ DOMAIN p = 1..m /\ DOMAIN q = 1..n
  OBVIOUS
<1>2. /\ DOMAIN s = 1..(m + n)
      /\ \A i \in 1..(m + n) : s[i] = IF i <= m THEN p[i] ELSE q[i - m]
  BY <1>1
<1> HIDE DEF m, n, s
<1>3. \A i \in 1..m : i \in 1..(m + n) /\ s[i] = p[i]
  BY <1>1, <1>2
<1>4. \A i \in 1..n : m + i \in 1..(m + n) /\ s[m + i] = q[i]
  BY <1>1, <1>2
<1>5. \A i \in 1..(m + n) : i \in 1..m \/ (i - m \in 1..n /\ ~ i <= m)
  BY <1>1
<1>6. \A r : Arrived(s, r) => Arrived(p, r) \/ Arrived(q, r)
  BY <1>1, <1>2, <1>5, <1>3 DEF Arrived
<1>7. \A r : Arrived(p, r) => Arrived(s, r)
  BY <1>1, <1>2, <1>3 DEF Arrived
<1>8. \A r : Arrived(q, r) => Arrived(s, r)
  BY <1>1, <1>2, <1>4 DEF Arrived
<1> QED BY <1>6, <1>7, <1>8 DEF s

\* The queue is a sequence of records.
LEMMA QueueParts ==
  ASSUME TypeOK
  PROVE  /\ Queue \in Seq(Records) /\ Len(Queue) \in Nat
         /\ DOMAIN Queue = 1..Len(Queue)
         /\ \A r : Arrived(Queue, r) <=> (Arrived(buffer, r) \/ Arrived(sending, r))
<1>1. buffer \in Seq(Records) /\ sending \in Seq(Records)
  BY DEF TypeOK
<1>2. \A r : Arrived(Queue, r) <=> (Arrived(buffer, r) \/ Arrived(sending, r))
  BY <1>1, ConcatParts DEF Queue
<1>3. Queue \in Seq(Records)
  BY <1>1 DEF Queue
<1> QED BY <1>2, <1>3

\* A record that does not meet the consumer goes to the end of the queue.
LEMMA EnqueueAppends ==
  ASSUME TypeOK, QueueInOrder, NEW r \in Records,
         \/ Len(buffer) < Capacity /\ buffer' = Append(buffer, r) /\ sending' = sending
         \/ ~ Len(buffer) < Capacity /\ sending' = Append(sending, r) /\ buffer' = buffer
  PROVE  /\ Queue' = Append(Queue, r)
         /\ Len(buffer)' < Capacity => sending' = << >>
         /\ Len(buffer)' <= Capacity
<1>0. /\ buffer \in Seq(Records) /\ sending \in Seq(Records)
      /\ Len(buffer) \in Nat /\ Len(buffer) <= Capacity /\ Capacity \in Nat
  BY ConstantsAssumption DEF TypeOK
<1>1. CASE /\ Len(buffer) < Capacity /\ buffer' = Append(buffer, r)
           /\ sending' = sending
  <2>1. sending = << >>
    BY <1>1 DEF QueueInOrder
  <2>2. Queue = buffer /\ Queue' = Append(buffer, r)
    BY <1>0, <1>1, <2>1 DEF Queue
  <2>3. Len(buffer)' = Len(buffer) + 1
    BY <1>0, <1>1
  <2> QED BY <1>0, <1>1, <2>1, <2>2, <2>3
<1>2. CASE /\ ~ Len(buffer) < Capacity /\ sending' = Append(sending, r)
           /\ buffer' = buffer
  <2>1. buffer \o Append(sending, r) = Append(buffer \o sending, r)
    BY <1>0
  <2> QED BY <1>0, <1>2, <2>1 DEF Queue
<1> QED BY <1>1, <1>2

\* The consumer takes the head and leaves the tail, the buffer filled first.
LEMMA ReceiveTakesHead ==
  ASSUME TypeOK, Receive
  PROVE  \/ /\ Queue = << >> /\ consumer' = "waiting"
            /\ UNCHANGED <<hand, buffer, sending>>
         \/ /\ Queue # << >> /\ consumer' = "resumed"
            /\ hand' = Head(Queue) /\ Queue' = Tail(Queue)
            /\ buffer' \in Seq(Records) /\ sending' \in Seq(Records)
            /\ Len(buffer)' < Capacity => sending' = << >>
            /\ Len(buffer)' <= Capacity
<1> DEFINE held == IF Len(Queue) - 1 < Capacity THEN Len(Queue) - 1 ELSE Capacity
<1>1. CASE Queue = << >>
  BY <1>1 DEF Receive, Queue
<1>2. CASE Queue # << >>
  <2>1. /\ consumer' = "resumed" /\ hand' = Head(Queue)
        /\ buffer' = SubSeq(Queue, 2, held + 1)
        /\ sending' = SubSeq(Queue, held + 2, Len(Queue))
    BY <1>2 DEF Receive, Queue
  <2>2. Queue \in Seq(Records) /\ Len(Queue) \in Nat /\ Len(Queue) # 0
    BY <1>2, QueueParts
  <2>3. held \in Nat /\ held <= Len(Queue) - 1 /\ held <= Capacity
        /\ (held < Capacity => held = Len(Queue) - 1)
    BY <2>2, ConstantsAssumption
  <2> HIDE DEF held
  <2>4. /\ buffer' \in Seq(Records) /\ Len(buffer') = held
        /\ \A i \in 1..held : buffer'[i] = Queue[i + 1]
    BY <2>1, <2>2, <2>3
  <2>5. /\ sending' \in Seq(Records) /\ Len(sending') = Len(Queue) - 1 - held
        /\ \A i \in 1..(Len(Queue) - 1 - held) : sending'[i] = Queue[held + 1 + i]
    BY <2>1, <2>2, <2>3
  <2>6. held < Capacity => sending' = << >>
    BY <2>2, <2>3, <2>5
  <2>7. Queue' = Tail(Queue)
    <3>1. Queue' = buffer' \o sending'
      BY DEF Queue
    <3>2. Queue' \in Seq(Records) /\ Len(Queue') = Len(Queue) - 1
      BY <3>1, <2>2, <2>3, <2>4, <2>5
    <3>3. \A i \in 1..(Len(Queue) - 1) : Queue'[i] = Queue[i + 1]
      BY <3>1, <2>2, <2>3, <2>4, <2>5
    <3>4. /\ Tail(Queue) \in Seq(Records) /\ Len(Tail(Queue)) = Len(Queue) - 1
          /\ \A i \in 1..(Len(Queue) - 1) : Tail(Queue)[i] = Queue[i + 1]
      BY <2>2
    <3> QED BY <2>2, <3>2, <3>3, <3>4
  <2> QED BY <1>2, <2>1, <2>3, <2>4, <2>5, <2>6, <2>7
<1> QED BY <1>1, <1>2

\* What is left when the sends that wait are cancelled is the front of the queue.
LEMMA CancelKeepsFront ==
  ASSUME TypeOK, sending' = << >>, buffer' = buffer
  PROVE  /\ Queue' = buffer
         /\ \A i \in DOMAIN buffer : i \in DOMAIN Queue /\ Queue[i] = buffer[i]
<1>1. buffer \in Seq(Records) /\ sending \in Seq(Records)
  BY DEF TypeOK
<1> QED BY <1>1 DEF Queue

-----------------------------------------------------------------------------
(* The invariant holds at the start.                                       *)

\* A new logger has nothing on its way.
LEMMA InitInv == Init => LoggerInv
<1> SUFFICES ASSUME Init PROVE LoggerInv
  OBVIOUS
<1> USE DEF Init
<1>1. /\ levels = << >> /\ audience = << >> /\ writers = << >> /\ spawned = {}
      /\ buffer = << >> /\ sending = << >> /\ sent = << >> /\ hand = 0
      /\ consumer = "ready" /\ written = [w \in Writers |-> << >>]
  OBVIOUS
<1>2. Records = {} /\ Len(levels) = 0 /\ Len(buffer) = 0
  BY DEF Records
<1>3. TypeOK
  <2>1. least \in 0..Off /\ filter \subseteq 0..Off
    BY ConstantsAssumption DEF AtLeast, Off
  <2>2. /\ levels \in Seq(0..Off) /\ Len(levels) <= MaxRecords /\ Len(buffer) <= Capacity
        /\ writers \in Seq(Writers) /\ buffer \in Seq(Records)
        /\ sending \in Seq(Records) /\ sent \in Seq(Records)
        /\ written \in [Writers -> Seq(Records)]
    BY <1>1, <1>2, ConstantsAssumption
  <2>3. audience \in [Records -> 0..Len(writers)]
    BY <1>1, <1>2
  <2> QED BY <2>1, <2>2, <2>3 DEF TypeOK
<1>4. Queue = << >>
  BY <1>1 DEF Queue
<1>5. SentOnce /\ OnlyAllowed /\ QueueInOrder /\ HandInOrder
  BY <1>1, <1>4 DEF SentOnce, OnlyAllowed, QueueInOrder, HandInOrder, InOrder
<1>6. WrittenInOrder /\ TurnInOrder /\ NothingLost
  BY <1>1, <1>2 DEF WrittenInOrder, TurnInOrder, NothingLost, InOrder
<1> QED BY <1>3, <1>5, <1>6 DEF LoggerInv

-----------------------------------------------------------------------------
(* Attaching a writer and logging: the records on their way stay there.    *)

\* The parts of the invariant the queue, the hand and the history are in.
LEMMA SameChannel ==
  ASSUME QueueInOrder, HandInOrder,
         UNCHANGED <<buffer, sending, sent, consumer, hand>>
  PROVE  QueueInOrder' /\ HandInOrder'
<1>1. Queue' = Queue
  BY DEF Queue
<1> QED BY <1>1 DEF QueueInOrder, HandInOrder

\* A writer attached meanwhile has got nothing, and the loop does not reach it.
LEMMA AddWriterInv ==
  ASSUME LoggerInv, NEW w \in Writers, AddWriter(w)
  PROVE  LoggerInv'
<1>0. /\ writers' = Append(writers, w) /\ ~ Arrived(writers, w)
      /\ UNCHANGED <<least, filter, levels, audience, spawned, buffer, sending, sent,
                     consumer, hand, turn, upto, written>>
      /\ life = "alive" /\ life' \in {"alive", "undefined"}
      /\ life' # "alive" => consumer = "writing"
  BY DEF AddWriter, logged, channel, loop, Arrived
<1>1. /\ writers \in Seq(Writers) /\ Len(writers) \in Nat
      /\ written \in [Writers -> Seq(Records)] /\ 0 \notin Records
      /\ hand \in Nat /\ turn \in Nat /\ upto \in Nat
      /\ consumer = "writing" => turn \in 1..upto /\ upto <= Len(writers)
      /\ audience \in [Records -> 0..Len(writers)]
  BY DEF LoggerInv, TypeOK, Records
<1>2. /\ writers' \in Seq(Writers) /\ Len(writers') = Len(writers) + 1
      /\ writers'[Len(writers')] = w
      /\ \A i \in 1..Len(writers) : writers'[i] = writers[i]
      /\ DOMAIN writers' = 1..Len(writers') /\ DOMAIN writers = 1..Len(writers)
      /\ \A x : Arrived(writers', x) <=> Arrived(writers, x) \/ x = w
  BY <1>0, <1>1, AppendKeepsOrder
<1>3. TypeOK'
  <2>1. Records' = Records
    BY <1>0 DEF Records
  <2>2. audience \in [Records -> 0..Len(writers')]
    BY <1>1, <1>2
  <2>3. consumer = "writing" => upto <= Len(writers')
    BY <1>1, <1>2
  <2> QED BY <1>0, <1>2, <2>1, <2>2, <2>3 DEF LoggerInv, TypeOK
<1>4. SentOnce' /\ OnlyAllowed'
  BY <1>0 DEF LoggerInv, SentOnce, OnlyAllowed, IsAllowed
<1>5. QueueInOrder' /\ HandInOrder'
  BY <1>0, SameChannel DEF LoggerInv
<1>6. WrittenInOrder'
  BY <1>0, <1>2 DEF LoggerInv, WrittenInOrder
<1>7. TurnInOrder'
  <2>1. \A i, j \in DOMAIN writers' : writers'[i] = writers'[j] => i = j
    <3>1. \A i \in 1..Len(writers) : writers[i] # w
      BY <1>0, <1>2 DEF Arrived
    <3>2. \A i, j \in 1..Len(writers) : writers[i] = writers[j] => i = j
      BY <1>2 DEF LoggerInv, TurnInOrder
    <3>3. \A i \in DOMAIN writers' : i \in 1..Len(writers) \/ i = Len(writers')
      BY <1>1, <1>2
    <3> QED BY <1>2, <3>1, <3>2, <3>3
  <2>2. written[w] = << >>
    BY <1>0 DEF LoggerInv, WrittenInOrder
  <2>3. ~ Arrived(written[w], hand)
    BY <2>2 DEF Arrived
  <2>4. ASSUME consumer = "writing", NEW n \in 1..Len(writers')
        PROVE  n < turn <=> Arrived(written[writers'[n]], hand)
    <3>1. CASE n \in 1..Len(writers)
      <4>1. n < turn <=> Arrived(written[writers[n]], hand)
        BY <2>4, <3>1 DEF LoggerInv, TurnInOrder
      <4> QED BY <1>2, <3>1, <4>1
    <3>2. CASE n = Len(writers')
      <4>1. ~ n < turn
        BY <1>1, <1>2, <2>4, <3>2
      <4> QED BY <1>2, <2>3, <3>2, <4>1
    <3> QED BY <1>1, <1>2, <3>1, <3>2
  <2> QED BY <1>0, <2>1, <2>4 DEF LoggerInv, TurnInOrder
<1>8. NothingLost'
  <2>1. Records' = Records /\ \A r : Underway(r)' = Underway(r)
    BY <1>0 DEF Records, Underway
  <2>2. \A r \in Records : WrittenByAll(r) => WrittenByAll(r)'
    BY <1>0, <1>1, <1>2 DEF WrittenByAll
  <2> QED BY <1>0, <2>1, <2>2 DEF LoggerInv, NothingLost, IsAllowed
<1> QED BY <1>3, <1>4, <1>5, <1>6, <1>7, <1>8 DEF LoggerInv

\* A new record has its coroutine if it is allowed.
LEMMA LogInv ==
  ASSUME LoggerInv, NEW lv \in LogLevels, Log(lv)
  PROVE  LoggerInv'
<1> DEFINE r == Len(levels) + 1
<1>0. /\ levels' = Append(levels, lv) /\ audience' = Append(audience, Len(writers))
      /\ spawned' = IF IsAllowed(lv) THEN spawned \cup {Len(levels')} ELSE spawned
      /\ UNCHANGED <<least, filter, writers, buffer, sending, sent,
                     consumer, hand, turn, upto, written, life>>
      /\ Len(levels) < MaxRecords
  BY DEF Log, channel, loop
<1>1. /\ levels \in Seq(0..Off) /\ Len(levels) \in Nat
      /\ Records = 1..Len(levels) /\ audience \in [Records -> 0..Len(writers)]
      /\ writers \in Seq(Writers) /\ Len(writers) \in Nat
      /\ sent \in Seq(Records) /\ spawned \subseteq Records
      /\ hand \in {0} \cup Records /\ lv \in 0..Off
  BY ConstantsAssumption DEF LoggerInv, TypeOK, Records, Off
<1>2. /\ levels' \in Seq(0..Off) /\ Len(levels') = r
      /\ \A x \in Records : levels'[x] = levels[x]
      /\ levels'[r] = lv
  BY <1>0, <1>1
<1>3. Records' = Records \cup {r} /\ r \notin Records /\ r # 0
  BY <1>1, <1>2 DEF Records
<1>4. /\ audience' \in [Records' -> 0..Len(writers)]
      /\ \A x \in Records : audience'[x] = audience[x]
  <2>1. audience \in Seq(0..Len(writers)) /\ Len(audience) = Len(levels)
    BY <1>1
  <2>2. /\ audience' \in Seq(0..Len(writers)) /\ Len(audience') = r
        /\ \A x \in Records : audience'[x] = audience[x]
    BY <1>0, <1>1, <2>1
  <2>3. Records' = 1..r
    BY <1>2 DEF Records
  <2> QED BY <2>2, <2>3
<1> HIDE DEF r
<1>5. TypeOK'
  <2>1. Len(levels') <= MaxRecords
    BY <1>0, <1>1, <1>2, ConstantsAssumption DEF r
  <2>2. Seq(Records) \subseteq Seq(Records')
    BY <1>3
  <2>3. spawned' \subseteq Records'
    BY <1>0, <1>1, <1>2, <1>3
  <2>4. written' \in [Writers -> Seq(Records')]
    BY <1>0, <2>2 DEF LoggerInv, TypeOK
  <2> QED BY <1>0, <1>2, <1>3, <1>4, <2>1, <2>2, <2>3, <2>4 DEF LoggerInv, TypeOK
<1>6. SentOnce'
  <2>1. ~ Arrived(sent, r)
    BY <1>1, <1>3 DEF Arrived
  <2> QED BY <1>0, <1>2, <2>1 DEF LoggerInv, SentOnce
<1>7. OnlyAllowed'
  <2>1. \A k \in DOMAIN sent : sent[k] \in Records
    BY <1>1
  <2> QED BY <1>0, <1>1, <1>2, <2>1 DEF LoggerInv, OnlyAllowed, IsAllowed
<1>8. QueueInOrder' /\ HandInOrder'
  BY <1>0, SameChannel DEF LoggerInv
<1>9. WrittenInOrder'
  BY <1>0 DEF LoggerInv, WrittenInOrder
<1>10. TurnInOrder'
  <2>1. consumer = "writing" => hand \in Records
    BY <1>1 DEF LoggerInv, HandInOrder
  <2>2. consumer = "writing" => audience'[hand] <= upto
    BY <1>4, <2>1 DEF LoggerInv, TurnInOrder
  <2> QED BY <1>0, <2>2 DEF LoggerInv, TurnInOrder
<1>11. NothingLost'
  <2> SUFFICES ASSUME life = "alive", consumer # "threw", NEW x \in Records',
                      IsAllowed(levels[x])'
               PROVE  Underway(x)' \/ WrittenByAll(x)'
    BY <1>0 DEF NothingLost
  <2>1. CASE x = r
    BY <1>0, <1>2, <2>1 DEF Underway, IsAllowed
  <2>2. CASE x \in Records
    <3>1. Underway(x) \/ WrittenByAll(x)
      BY <1>0, <1>2, <2>2 DEF LoggerInv, NothingLost, IsAllowed
    <3>2. Underway(x) => Underway(x)'
      BY <1>0 DEF Underway
    <3>3. WrittenByAll(x) => WrittenByAll(x)'
      BY <1>0, <1>4, <2>2 DEF WrittenByAll
    <3> QED BY <3>1, <3>2, <3>3
  <2> QED BY <1>3, <2>1, <2>2
<1> QED BY <1>5, <1>6, <1>7, <1>8, <1>9, <1>10, <1>11 DEF LoggerInv

-----------------------------------------------------------------------------
(* Sending and receiving.                                                  *)

\* What is sent is later than everything sent before it, so it may go to the
\* end of the queue, or into the hand of a consumer in front of an empty queue.
LEMMA EnqueueInv ==
  ASSUME LoggerInv, NEW r \in spawned, Enqueue(r)
  PROVE  LoggerInv'
<1>0. /\ spawned' = spawned \ {r} /\ sent' = Append(sent, r)
      /\ UNCHANGED <<least, filter, levels, audience, writers, turn, upto, written, life>>
  BY DEF Enqueue, logged
<1>1. /\ spawned \subseteq Records /\ r \in Records /\ sent \in Seq(Records)
      /\ hand \in {0} \cup Records /\ written \in [Writers -> Seq(Records)]
      /\ 0 \notin Records
  BY DEF LoggerInv, TypeOK, Records
<1>2. /\ sent' \in Seq(Records)
      /\ \A x : Arrived(sent', x) <=> Arrived(sent, x) \/ x = r
      /\ \A x, y : Earlier(sent, x, y) => Earlier(sent', x, y)
      /\ \A x : Arrived(sent, x) => Earlier(sent', x, r)
  BY <1>0, <1>1, AppendKeepsOrder
<1>3. /\ Queue \in Seq(Records) /\ DOMAIN Queue = 1..Len(Queue) /\ Len(Queue) \in Nat
  BY QueueParts DEF LoggerInv
<1>4. \/ /\ consumer = "waiting" /\ Queue = << >> /\ Queue' = << >>
         /\ consumer' = "resumed" /\ hand' = r
         /\ UNCHANGED <<buffer, sending>>
      \/ /\ consumer # "waiting" /\ Queue' = Append(Queue, r)
         /\ Len(buffer)' < Capacity => sending' = << >>
         /\ Len(buffer)' <= Capacity
         /\ UNCHANGED <<consumer, hand>>
  <2>1. CASE consumer = "waiting"
    BY <2>1 DEF LoggerInv, QueueInOrder, Enqueue, Queue
  <2>2. CASE consumer # "waiting"
    <3>1. \/ /\ Len(buffer) < Capacity /\ buffer' = Append(buffer, r)
             /\ sending' = sending
          \/ /\ ~ Len(buffer) < Capacity /\ sending' = Append(sending, r)
             /\ buffer' = buffer
      <4>1. Len(buffer) \in Nat /\ Capacity \in Nat
        BY ConstantsAssumption DEF LoggerInv, TypeOK
      <4> QED BY <2>2, <4>1 DEF Enqueue
    <3>2. UNCHANGED <<consumer, hand>>
      BY <2>2 DEF Enqueue
    <3> QED BY <2>2, <3>1, <3>2, <1>1, EnqueueAppends DEF LoggerInv
  <2> QED BY <2>1, <2>2
<1>5. TypeOK'
  <2>1. Records' = Records
    BY <1>0 DEF Records
  <2>2. /\ buffer' \in Seq(Records) /\ sending' \in Seq(Records)
        /\ Len(buffer') <= Capacity
    <3>1. /\ buffer \in Seq(Records) /\ sending \in Seq(Records)
          /\ Len(buffer) <= Capacity
      BY DEF LoggerInv, TypeOK
    <3>2. /\ buffer' = buffer \/ buffer' = Append(buffer, r)
          /\ sending' = sending \/ sending' = Append(sending, r)
      BY DEF Enqueue
    <3>3. buffer' \in Seq(Records) /\ sending' \in Seq(Records)
      <4>1. /\ Append(buffer, r) \in Seq(Records)
            /\ Append(sending, r) \in Seq(Records)
        BY <1>1, <3>1
      <4> QED BY <3>1, <3>2, <4>1
    <3> QED BY <1>4, <3>1, <3>3
  <2>3. /\ consumer' \in {"ready", "waiting", "resumed", "writing", "threw", "aborted", "done"}
        /\ hand' \in {0} \cup Records
        /\ consumer' = "writing" => turn \in 1..upto /\ upto <= Len(writers)
    BY <1>1, <1>4 DEF LoggerInv, TypeOK
  <2> QED BY <1>0, <1>1, <1>2, <2>1, <2>2, <2>3 DEF LoggerInv, TypeOK
<1>6. SentOnce'
  <2>1. ~ Arrived(sent, r)
    BY DEF LoggerInv, SentOnce
  <2>2. /\ Len(sent) \in Nat /\ DOMAIN sent = 1..Len(sent)
        /\ DOMAIN sent' = 1..(Len(sent) + 1)
        /\ sent'[Len(sent) + 1] = r /\ \A k \in 1..Len(sent) : sent'[k] = sent[k]
    BY <1>0, <1>1
  <2>3. \A k \in DOMAIN sent' : k \in DOMAIN sent \/ k = Len(sent) + 1
    BY <2>2
  <2>4. \A k \in DOMAIN sent : sent[k] # r
    BY <2>1 DEF Arrived
  <2>5. \A k, l \in DOMAIN sent' : sent'[k] = sent'[l] => k = l
    BY <2>2, <2>3, <2>4 DEF LoggerInv, SentOnce
  <2> QED BY <1>0, <1>2, <2>5 DEF LoggerInv, SentOnce
<1>7. OnlyAllowed'
  <2>1. \A k \in DOMAIN sent' : sent'[k] = r \/ \E l \in DOMAIN sent : sent'[k] = sent[l]
    BY <1>2 DEF Arrived
  <2> QED BY <1>0, <2>1 DEF LoggerInv, OnlyAllowed, IsAllowed
<1>8. QueueInOrder'
  <2>1. CASE consumer = "waiting"
    BY <1>4, <2>1 DEF LoggerInv, QueueInOrder, InOrder
  <2>2. CASE consumer # "waiting"
    <3>1. /\ Queue' \in Seq(Records) /\ DOMAIN Queue' = 1..(Len(Queue) + 1)
          /\ Queue'[Len(Queue) + 1] = r
          /\ \A i \in 1..Len(Queue) : Queue'[i] = Queue[i]
      <4> DEFINE q == Queue
      <4>1. q \in Seq(Records) /\ Len(q) \in Nat /\ Queue' = Append(q, r)
        BY <1>3, <1>4, <2>2
      <4> HIDE DEF q
      <4>2. /\ Queue' \in Seq(Records) /\ DOMAIN Queue' = 1..(Len(q) + 1)
            /\ Queue'[Len(q) + 1] = r /\ \A i \in 1..Len(q) : Queue'[i] = q[i]
        BY <1>1, <4>1
      <4> QED BY <4>2 DEF q
    <3>2. \A i \in DOMAIN Queue' : Arrived(sent', Queue'[i])
      <4>1. \A i \in DOMAIN Queue' : i \in DOMAIN Queue \/ i = Len(Queue) + 1
        BY <1>3, <3>1
      <4> QED BY <1>2, <1>3, <3>1, <4>1 DEF LoggerInv, QueueInOrder
    <3>3. InOrder(sent', Queue)
      BY <1>0, <1>1, HistoryKeepsOrder DEF LoggerInv, QueueInOrder
    <3>4. \A i \in DOMAIN Queue : Earlier(sent', Queue[i], r)
      BY <1>2 DEF LoggerInv, QueueInOrder
    <3>5. InOrder(sent', Queue')
      BY <1>1, <1>3, <1>4, <2>2, <3>3, <3>4, AppendInOrder
    <3> QED BY <1>4, <2>2, <3>2, <3>5 DEF QueueInOrder
  <2> QED BY <2>1, <2>2
<1>9. HandInOrder'
  <2>1. CASE consumer = "waiting"
    BY <1>1, <1>2, <1>4, <2>1 DEF HandInOrder
  <2>2. CASE consumer # "waiting"
    <3> DEFINE q == Queue
    <3>0. q \in Seq(Records) /\ Queue' = Append(q, r)
      BY <1>3, <1>4, <2>2
    <3> HIDE DEF q
    <3>1. \A i \in DOMAIN Queue' : Queue'[i] = r \/ \E j \in DOMAIN q : Queue'[i] = q[j]
      <4>1. \A y : Arrived(Append(q, r), y) => Arrived(q, y) \/ y = r
        BY <1>1, <3>0, AppendKeepsOrder
      <4> QED BY <3>0, <4>1 DEF Arrived
    <3> USE DEF q
    <3> QED BY <1>2, <1>4, <2>2, <3>1 DEF LoggerInv, HandInOrder
  <2> QED BY <2>1, <2>2
<1>10. WrittenInOrder'
  <2> SUFFICES ASSUME NEW w \in Writers
               PROVE  /\ \A i \in DOMAIN written[w] : Arrived(sent', written[w][i])
                      /\ \A i \in DOMAIN written[w] :
                           written[w][i] # hand' =>
                             hand' # 0 /\ Earlier(sent', written[w][i], hand')
                      /\ InOrder(sent', written[w])
                      /\ ~ Arrived(writers, w) => written[w] = << >>
    BY <1>0 DEF WrittenInOrder
  <2>1. /\ \A i \in DOMAIN written[w] : Arrived(sent, written[w][i])
        /\ \A i \in DOMAIN written[w] :
             written[w][i] # hand => hand # 0 /\ Earlier(sent, written[w][i], hand)
        /\ InOrder(sent, written[w])
        /\ ~ Arrived(writers, w) => written[w] = << >>
    BY DEF LoggerInv, WrittenInOrder
  <2>2. InOrder(sent', written[w])
    BY <1>0, <1>1, <2>1, HistoryKeepsOrder
  <2>3. \A i \in DOMAIN written[w] :
          written[w][i] # hand' => hand' # 0 /\ Earlier(sent', written[w][i], hand')
    BY <1>1, <1>2, <1>4, <2>1
  <2> QED BY <1>2, <2>1, <2>2, <2>3
<1>11. TurnInOrder'
  <2>1. CASE consumer = "waiting"
    <3>1. \A w \in Writers : ~ Arrived(written[w], r)
      <4>1. ~ Arrived(sent, r)
        BY DEF LoggerInv, SentOnce
      <4> QED BY <4>1 DEF LoggerInv, WrittenInOrder, Arrived
    <3> QED BY <1>0, <1>4, <2>1, <3>1 DEF LoggerInv, TurnInOrder
  <2>2. CASE consumer # "waiting"
    BY <1>0, <1>4, <2>2 DEF LoggerInv, TurnInOrder
  <2> QED BY <2>1, <2>2
<1>12. NothingLost'
  <2> SUFFICES ASSUME life = "alive", consumer # "threw", NEW x \in Records,
                      IsAllowed(levels[x])
               PROVE  Underway(x)' \/ WrittenByAll(x)'
    BY <1>0, <1>4 DEF NothingLost, IsAllowed, Records
  <2>1. Underway(x) \/ WrittenByAll(x)
    BY DEF LoggerInv, NothingLost
  <2>2. WrittenByAll(x) => WrittenByAll(x)'
    BY <1>0 DEF WrittenByAll
  <2>3. \A y : /\ Underway(y) <=> \/ y \in spawned \/ Arrived(Queue, y)
                                  \/ y = hand /\ consumer \in {"resumed", "writing"}
               /\ Underway(y)' <=> \/ y \in spawned' \/ Arrived(Queue', y)
                                   \/ y = hand' /\ consumer' \in {"resumed", "writing"}
    <3>1. TypeOK /\ TypeOK'
      BY <1>5 DEF LoggerInv
    <3>2. \A y : Arrived(Queue, y) <=> (Arrived(buffer, y) \/ Arrived(sending, y))
      BY <3>1, QueueParts
    <3>3. \A y : Arrived(Queue', y) <=> (Arrived(buffer', y) \/ Arrived(sending', y))
      <4>1. buffer' \in Seq(Records') /\ sending' \in Seq(Records')
        BY <3>1 DEF TypeOK
      <4>2. Queue' = buffer' \o sending'
        BY DEF Queue
      <4> QED BY <4>1, <4>2, ConcatParts
    <3> QED BY <3>2, <3>3 DEF Underway, Arrived
  <2>4. Underway(x) => Underway(x)'
    <3>1. CASE consumer = "waiting"
      BY <1>0, <1>4, <2>3, <3>1 DEF Arrived
    <3>2. CASE consumer # "waiting"
      <4>1. \A y : Arrived(Queue', y) <=> Arrived(Queue, y) \/ y = r
        <5>1. \A y : Arrived(Append(Queue, r), y) <=> (Arrived(Queue, y) \/ y = r)
          BY <1>1, <1>3, AppendKeepsOrder
        <5> QED BY <1>4, <3>2, <5>1
      <4> QED BY <1>0, <1>4, <2>3, <3>2, <4>1
    <3> QED BY <3>1, <3>2
  <2> QED BY <2>1, <2>2, <2>4
<1> QED BY <1>5, <1>6, <1>7, <1>8, <1>9, <1>10, <1>11, <1>12 DEF LoggerInv

\* What the consumer takes is later than all that is written and before all that
\* stays in the queue.
LEMMA ReceiveInv ==
  ASSUME LoggerInv, Receive
  PROVE  LoggerInv'
<1>0. /\ UNCHANGED <<least, filter, levels, audience, writers, spawned, sent,
                     turn, upto, written, life>>
      /\ consumer = "ready"
  BY DEF Receive, logged
<1>1. /\ Queue \in Seq(Records) /\ Len(Queue) \in Nat
      /\ DOMAIN Queue = 1..Len(Queue)
      /\ written \in [Writers -> Seq(Records)] /\ 0 \notin Records
      /\ sent \in Seq(Records) /\ Records' = Records
  BY <1>0, QueueParts DEF LoggerInv, TypeOK, Records
<1>2. \A x, y, z : Earlier(sent, x, y) /\ Earlier(sent, y, z) => Earlier(sent, x, z)
  BY <1>1, EarlierIsOrder DEF LoggerInv, SentOnce
<1>3. \A x, y : Earlier(sent, x, y) => x # y
  BY <1>1, EarlierIsOrder DEF LoggerInv, SentOnce
<1>4. SentOnce' /\ OnlyAllowed'
  BY <1>0 DEF LoggerInv, SentOnce, OnlyAllowed, IsAllowed
<1>5. CASE Queue = << >> /\ consumer' = "waiting" /\ UNCHANGED <<hand, buffer, sending>>
  <2>1. Queue' = Queue
    BY <1>5 DEF Queue
  <2>2. TypeOK'
    BY <1>0, <1>1, <1>5 DEF LoggerInv, TypeOK
  <2>3. QueueInOrder' /\ HandInOrder'
    BY <1>0, <1>5, <2>1 DEF LoggerInv, QueueInOrder, HandInOrder
  <2>4. WrittenInOrder' /\ TurnInOrder'
    BY <1>0, <1>5 DEF LoggerInv, WrittenInOrder, TurnInOrder
  <2>5. NothingLost'
    <3>1. \A x : (Underway(x) => Underway(x)') /\ (WrittenByAll(x) => WrittenByAll(x)')
      BY <1>0, <1>5 DEF Underway, WrittenByAll
    <3> QED BY <1>0, <1>1, <3>1 DEF LoggerInv, NothingLost, IsAllowed
  <2> QED BY <1>4, <2>2, <2>3, <2>4, <2>5 DEF LoggerInv
<1>6. CASE /\ Queue # << >> /\ consumer' = "resumed"
           /\ hand' = Head(Queue) /\ Queue' = Tail(Queue)
           /\ buffer' \in Seq(Records) /\ sending' \in Seq(Records)
           /\ Len(buffer)' < Capacity => sending' = << >>
           /\ Len(buffer)' <= Capacity
  <2> DEFINE q == Queue
  <2>1. /\ q \in Seq(Records) /\ Len(q) \in Nat /\ Len(q) # 0 /\ DOMAIN q = 1..Len(q)
        /\ hand' = q[1] /\ 1 \in DOMAIN q
        /\ \A i \in DOMAIN q : Arrived(sent, q[i])
        /\ InOrder(sent, q)
        /\ \A i \in DOMAIN q : hand # 0 => Earlier(sent, hand, q[i])
    BY <1>1, <1>6 DEF LoggerInv, QueueInOrder, HandInOrder
  <2>2. Queue' = Tail(q)
    BY <1>6
  <2> HIDE DEF q
  <2>3. /\ Queue' \in Seq(Records) /\ DOMAIN Queue' = 1..(Len(q) - 1)
        /\ \A i \in 1..(Len(q) - 1) : Queue'[i] = q[i + 1] /\ i + 1 \in DOMAIN q
    BY <2>1, <2>2
  <2>4. \A i \in DOMAIN q : i = 1 \/ (i - 1 \in DOMAIN Queue' /\ q[i] = Queue'[i - 1])
    BY <2>1, <2>3
  <2>5. hand' \in Records
    BY <2>1
  <2>6. TypeOK'
    BY <1>0, <1>1, <1>6, <2>5 DEF LoggerInv, TypeOK
  <2>7. QueueInOrder'
    <3>1. \A i \in DOMAIN Queue' : Arrived(sent, Queue'[i])
      BY <2>1, <2>3
    <3>2. InOrder(sent, Queue')
      <4> SUFFICES ASSUME NEW i \in DOMAIN Queue', NEW j \in DOMAIN Queue', i < j
                   PROVE  Earlier(sent, Queue'[i], Queue'[j])
        BY DEF InOrder
      <4>1. i + 1 \in DOMAIN q /\ j + 1 \in DOMAIN q /\ i + 1 < j + 1
        BY <2>1, <2>3
      <4> QED BY <2>1, <2>3, <4>1 DEF InOrder
    <3> QED BY <1>0, <1>6, <3>1, <3>2 DEF QueueInOrder
  <2>8. HandInOrder'
    <3>1. \A i \in DOMAIN Queue' : Earlier(sent, q[1], Queue'[i])
      <4> SUFFICES ASSUME NEW i \in DOMAIN Queue'
                   PROVE  Earlier(sent, q[1], Queue'[i])
        OBVIOUS
      <4>1. i + 1 \in DOMAIN q /\ 1 < i + 1 /\ Queue'[i] = q[i + 1]
        BY <2>1, <2>3
      <4> QED BY <2>1, <4>1 DEF InOrder
    <3> QED BY <1>0, <1>1, <2>1, <2>5, <3>1 DEF HandInOrder
  <2>9. \A w \in Writers : \A i \in DOMAIN written[w] :
          Earlier(sent, written[w][i], hand')
    <3> SUFFICES ASSUME NEW w \in Writers, NEW i \in DOMAIN written[w]
                 PROVE  Earlier(sent, written[w][i], hand')
      OBVIOUS
    <3>1. written[w][i] \in Records
      BY <1>1
    <3>2. written[w][i] # hand => hand # 0 /\ Earlier(sent, written[w][i], hand)
      BY DEF LoggerInv, WrittenInOrder
    <3>3. hand # 0 /\ Earlier(sent, hand, hand')
      BY <1>1, <2>1, <3>1, <3>2
    <3> QED BY <1>2, <3>2, <3>3
  <2>10. WrittenInOrder'
    BY <1>0, <1>1, <2>5, <2>9 DEF LoggerInv, WrittenInOrder
  <2>11. TurnInOrder'
    <3>1. \A w \in Writers : ~ Arrived(written[w], hand')
      BY <1>3, <2>9 DEF Arrived
    <3> QED BY <1>0, <1>6, <3>1 DEF LoggerInv, TurnInOrder
  <2>12. NothingLost'
    <3>1. \A x : Underway(x) => Underway(x)'
      <4>1. \A x : Underway(x) => x \in spawned \/ Arrived(q, x)
        <5>1. \A x : Arrived(q, x) <=> (Arrived(buffer, x) \/ Arrived(sending, x))
          BY QueueParts DEF q, LoggerInv
        <5> QED BY <1>0, <5>1 DEF Underway, Arrived
      <4>2. \A x : Arrived(q, x) => x = hand' \/ Arrived(Queue', x)
        BY <2>1, <2>4 DEF Arrived
      <4>3. \A x : Arrived(Queue', x) <=> (Arrived(buffer', x) \/ Arrived(sending', x))
        <5>1. Queue' = buffer' \o sending'
          BY DEF Queue
        <5>2. buffer' \in Seq(Records) /\ sending' \in Seq(Records)
          BY <1>6
        <5> QED BY <5>1, <5>2, ConcatParts
      <4> QED BY <1>0, <1>6, <4>1, <4>2, <4>3 DEF Underway, Arrived
    <3>2. \A x : WrittenByAll(x) => WrittenByAll(x)'
      BY <1>0 DEF WrittenByAll
    <3> QED BY <1>0, <1>1, <3>1, <3>2 DEF LoggerInv, NothingLost, IsAllowed
  <2> QED BY <1>4, <2>6, <2>7, <2>8, <2>10, <2>11, <2>12 DEF LoggerInv
<1> QED BY <1>5, <1>6, ReceiveTakesHead DEF LoggerInv

-----------------------------------------------------------------------------
(* The loop over the writers.                                              *)

\* The loop starts with a record no writer has, and reaches all writers there are.
LEMMA ReceivedInv ==
  ASSUME LoggerInv, Received
  PROVE  LoggerInv'
<1>0. /\ UNCHANGED <<least, filter, levels, audience, writers, spawned, buffer, sending,
                     sent, hand, written, life>>
      /\ consumer = "resumed" /\ turn' = 1 /\ upto' = Len(writers)
      /\ consumer' = IF writers = << >> THEN "ready" ELSE "writing"
  BY DEF Received, logged, channel
<1>1. /\ writers \in Seq(Writers) /\ Len(writers) \in Nat
      /\ audience \in [Records -> 0..Len(writers)] /\ Records' = Records
      /\ hand \in Records
  BY <1>0 DEF LoggerInv, TypeOK, HandInOrder, Records
<1>2. Len(writers) = 0 <=> writers = << >>
  BY <1>1
<1>3. TypeOK'
  BY <1>0, <1>1, <1>2 DEF LoggerInv, TypeOK
<1>4. SentOnce' /\ OnlyAllowed'
  BY <1>0 DEF LoggerInv, SentOnce, OnlyAllowed, IsAllowed
<1>5. QueueInOrder' /\ HandInOrder'
  <2>1. Queue' = Queue
    BY <1>0 DEF Queue
  <2> QED BY <1>0, <2>1 DEF LoggerInv, QueueInOrder, HandInOrder
<1>6. WrittenInOrder'
  BY <1>0 DEF LoggerInv, WrittenInOrder
<1>7. TurnInOrder'
  <2>1. \A n \in 1..Len(writers) : ~ Arrived(written[writers[n]], hand)
    BY <1>0, <1>1 DEF LoggerInv, TurnInOrder
  <2>2. audience[hand] <= Len(writers)
    BY <1>1
  <2> QED BY <1>0, <1>1, <2>1, <2>2 DEF LoggerInv, TurnInOrder
<1>8. NothingLost'
  <2>1. \A x : WrittenByAll(x) => WrittenByAll(x)'
    BY <1>0 DEF WrittenByAll
  <2>2. \A x : x # hand /\ Underway(x) => Underway(x)'
    BY <1>0 DEF Underway
  <2>3. Underway(hand)' \/ WrittenByAll(hand)
    <3>1. writers = << >> => 1..audience[hand] = {}
      BY <1>1, <1>2
    <3> QED BY <1>0, <3>1 DEF Underway, WrittenByAll
  <2>4. \A x : Underway(x) \/ WrittenByAll(x) => Underway(x)' \/ WrittenByAll(x)'
    BY <1>0, <2>1, <2>2, <2>3
  <2> QED BY <1>0, <1>1, <2>4 DEF LoggerInv, NothingLost, IsAllowed
<1> QED BY <1>3, <1>4, <1>5, <1>6, <1>7, <1>8 DEF LoggerInv

\* The writer whose turn it is does not have the record yet, and gets it behind
\* what it has; the last turn leaves a record all those before it have.
LEMMA WriteInv ==
  ASSUME LoggerInv, Write
  PROVE  LoggerInv'
<1> DEFINE w == writers[turn]
<1>0. /\ UNCHANGED <<least, filter, levels, audience, writers, spawned, buffer, sending,
                     sent, hand, upto, life>>
      /\ consumer = "writing" /\ turn' = turn + 1
      /\ written' = [written EXCEPT ![w] = Append(@, hand)]
      /\ consumer' = IF turn = upto THEN "ready" ELSE "writing"
  BY DEF Write, logged, channel
<1>1. /\ writers \in Seq(Writers) /\ Len(writers) \in Nat /\ DOMAIN writers = 1..Len(writers)
      /\ written \in [Writers -> Seq(Records)]
      /\ turn \in 1..upto /\ upto <= Len(writers) /\ upto \in Nat
      /\ audience \in [Records -> 0..Len(writers)] /\ Records' = Records
      /\ hand \in Records /\ hand # 0
  BY <1>0 DEF LoggerInv, TypeOK, HandInOrder, Records
<1>2. turn \in 1..Len(writers) /\ w \in Writers
  BY <1>1
<1> HIDE DEF w
<1>3. written' \in [Writers -> Seq(Records)]
  <2>1. Append(written[w], hand) \in Seq(Records)
    BY <1>1, <1>2
  <2> QED BY <1>0, <1>1, <1>2, <2>1
<1>4. /\ written'[w] = Append(written[w], hand)
      /\ \A v \in Writers : v # w => written'[v] = written[v]
      /\ \A x : Arrived(written'[w], x) <=> (Arrived(written[w], x) \/ x = hand)
  <2>1. written'[w] = Append(written[w], hand)
    BY <1>0, <1>1, <1>2
  <2>2. \A v \in Writers : v # w => written'[v] = written[v]
    BY <1>0, <1>1
  <2>3. written[w] \in Seq(Records)
    BY <1>1, <1>2
  <2> QED BY <1>1, <2>1, <2>2, <2>3, AppendKeepsOrder
<1>5. \A v \in Writers : \A x : Arrived(written[v], x) => Arrived(written'[v], x)
  BY <1>4
<1>6. \A n \in 1..Len(writers) : n # turn => writers[n] # w /\ writers[n] \in Writers
  <2>1. \A i, j \in 1..Len(writers) : writers[i] = writers[j] => i = j
    BY <1>1 DEF LoggerInv, TurnInOrder
  <2>2. \A n \in 1..Len(writers) : writers[n] \in Writers
    BY <1>1
  <2> QED BY <1>2, <2>1, <2>2 DEF w
<1>7. ~ Arrived(written[w], hand)
  BY <1>0, <1>1, <1>2 DEF LoggerInv, TurnInOrder, w
<1>8. TypeOK'
  <2>1. consumer' = "writing" => turn' \in 1..upto
    BY <1>0, <1>1
  <2>2. turn' \in Nat
    BY <1>0, <1>1
  <2> QED BY <1>0, <1>1, <1>3, <2>1, <2>2 DEF LoggerInv, TypeOK
<1>9. SentOnce' /\ OnlyAllowed'
  BY <1>0 DEF LoggerInv, SentOnce, OnlyAllowed, IsAllowed
<1>10. QueueInOrder' /\ HandInOrder'
  <2>1. Queue' = Queue
    BY <1>0 DEF Queue
  <2> QED BY <1>0, <1>1, <2>1 DEF LoggerInv, QueueInOrder, HandInOrder
<1>11. WrittenInOrder'
  <2>1. \A v \in Writers : v # w =>
          /\ \A i \in DOMAIN written'[v] : Arrived(sent, written'[v][i])
          /\ \A i \in DOMAIN written'[v] :
               written'[v][i] # hand => hand # 0 /\ Earlier(sent, written'[v][i], hand)
          /\ InOrder(sent, written'[v])
          /\ ~ Arrived(writers, v) => written'[v] = << >>
    BY <1>4 DEF LoggerInv, WrittenInOrder
  <2>2. /\ \A i \in DOMAIN written[w] : Arrived(sent, written[w][i])
        /\ \A i \in DOMAIN written[w] : Earlier(sent, written[w][i], hand)
        /\ InOrder(sent, written[w])
    BY <1>2, <1>7 DEF LoggerInv, WrittenInOrder, Arrived
  <2>3. Arrived(sent, hand)
    BY <1>1 DEF LoggerInv, HandInOrder
  <2>4. \A i \in DOMAIN written'[w] :
          written'[w][i] = hand \/ \E j \in DOMAIN written[w] : written'[w][i] = written[w][j]
    BY <1>4 DEF Arrived
  <2>5. InOrder(sent, written'[w])
    <3>1. written[w] \in Seq(Records)
      BY <1>1, <1>2
    <3> QED BY <1>1, <1>4, <2>2, <3>1, AppendInOrder
  <2>6. Arrived(writers, w)
    BY <1>1, <1>2 DEF Arrived, w
  <2>7. /\ \A i \in DOMAIN written'[w] : Arrived(sent, written'[w][i])
        /\ \A i \in DOMAIN written'[w] :
             written'[w][i] # hand => Earlier(sent, written'[w][i], hand)
    BY <2>2, <2>3, <2>4
  <2> QED BY <1>0, <1>1, <2>1, <2>5, <2>6, <2>7 DEF WrittenInOrder
<1>12. TurnInOrder'
  <2> SUFFICES ASSUME consumer' = "writing", NEW n \in 1..Len(writers)
               PROVE  n < turn + 1 <=> Arrived(written'[writers[n]], hand)
    BY <1>0 DEF LoggerInv, TurnInOrder
  <2>1. CASE n = turn
    <3>1. Arrived(written'[w], hand)
      BY <1>4
    <3> QED BY <1>1, <2>1, <3>1 DEF w
  <2>2. CASE n # turn
    <3>1. n < turn <=> Arrived(written[writers[n]], hand)
      BY <1>0 DEF LoggerInv, TurnInOrder
    <3>2. written'[writers[n]] = written[writers[n]]
      BY <1>4, <1>6, <2>2
    <3> QED BY <1>1, <2>2, <3>1, <3>2
  <2> QED BY <2>1, <2>2
<1>13. NothingLost'
  <2>1. \A x \in Records : WrittenByAll(x) => WrittenByAll(x)'
    <3> SUFFICES ASSUME NEW x \in Records, WrittenByAll(x), NEW i \in 1..audience[x]
                 PROVE  Arrived(written'[writers[i]], x)
      BY <1>0 DEF WrittenByAll, Arrived
    <3>1. i \in 1..Len(writers) /\ writers[i] \in Writers
      BY <1>1
    <3> QED BY <1>5, <3>1 DEF WrittenByAll, Arrived
  <2>2. \A x : x # hand /\ Underway(x) => Underway(x)'
    BY <1>0 DEF Underway
  <2>3. Underway(hand)' \/ WrittenByAll(hand)'
    <3>1. CASE turn = upto
      <4> SUFFICES ASSUME NEW i \in 1..audience[hand]
                   PROVE  Arrived(written'[writers[i]], hand)
        BY <1>0 DEF WrittenByAll, Arrived
      <4>0. audience[hand] <= upto /\ audience[hand] \in 0..Len(writers)
        BY <1>0, <1>1 DEF LoggerInv, TurnInOrder
      <4>1. i \in 1..Len(writers) /\ i <= turn /\ writers[i] \in Writers
        BY <1>1, <3>1, <4>0
      <4>2. CASE i = turn
        BY <1>4, <4>2 DEF w
      <4>3. CASE i # turn
        <5>1. i < turn
          BY <1>1, <4>1, <4>3
        <5>2. Arrived(written[writers[i]], hand)
          BY <1>0, <4>1, <5>1 DEF LoggerInv, TurnInOrder
        <5> QED BY <1>5, <4>1, <5>2
      <4> QED BY <4>2, <4>3
    <3>2. CASE turn # upto
      BY <1>0, <3>2 DEF Underway
    <3> QED BY <3>1, <3>2
  <2>4. \A x \in Records : Underway(x) \/ WrittenByAll(x) => Underway(x)' \/ WrittenByAll(x)'
    BY <1>0, <2>1, <2>2, <2>3
  <2> QED BY <1>0, <1>1, <2>4 DEF LoggerInv, NothingLost, IsAllowed
<1> QED BY <1>8, <1>9, <1>10, <1>11, <1>12, <1>13 DEF LoggerInv

\* The coroutine ends, by an exception or because its receive was cancelled.
LEMMA EndInv ==
  ASSUME LoggerInv, Throws \/ Aborted
  PROVE  LoggerInv'
<1>0. /\ UNCHANGED <<least, filter, levels, audience, writers, spawned, buffer, sending,
                     sent, hand, turn, upto, written, life>>
      /\ \/ consumer = "writing" /\ consumer' = "threw"
         \/ consumer = "aborted" /\ consumer' = "done"
  BY DEF Throws, Aborted, logged, channel
<1>1. Queue' = Queue /\ Records' = Records
  BY <1>0 DEF Queue, Records
<1>2. TypeOK'
  BY <1>0, <1>1 DEF LoggerInv, TypeOK
<1>3. SentOnce' /\ OnlyAllowed'
  BY <1>0 DEF LoggerInv, SentOnce, OnlyAllowed, IsAllowed
<1>4. QueueInOrder' /\ HandInOrder'
  BY <1>0, <1>1 DEF LoggerInv, QueueInOrder, HandInOrder
<1>5. WrittenInOrder' /\ TurnInOrder'
  BY <1>0 DEF LoggerInv, WrittenInOrder, TurnInOrder
<1>6. NothingLost'
  <2>1. CASE consumer' = "threw"
    BY <2>1 DEF NothingLost
  <2>2. CASE consumer = "aborted" /\ consumer' = "done"
    <3>1. \A x : (Underway(x) => Underway(x)') /\ (WrittenByAll(x) => WrittenByAll(x)')
      BY <1>0, <2>2 DEF Underway, WrittenByAll
    <3> QED BY <1>0, <1>1, <2>2, <3>1 DEF LoggerInv, NothingLost, IsAllowed
  <2> QED BY <1>0, <2>1, <2>2
<1> QED BY <1>2, <1>3, <1>4, <1>5, <1>6 DEF LoggerInv

-----------------------------------------------------------------------------
(* The end of the logger.                                                  *)

\* What waits in the channel goes; what stays of the queue is still in order.
LEMMA CancelInv ==
  ASSUME LoggerInv, Destroy \/ DestroyTimesOut
  PROVE  LoggerInv'
<1>0. /\ UNCHANGED <<least, filter, levels, audience, writers, spawned, buffer,
                     sent, hand, turn, upto, written>>
      /\ sending' = << >> /\ life' \in {"closing", "gone", "undefined"}
      /\ consumer' = IF consumer = "waiting" THEN "aborted" ELSE consumer
  BY DEF Destroy, DestroyTimesOut, Cancel, logged
<1>1. /\ Queue' = buffer /\ Records' = Records
      /\ \A i \in DOMAIN buffer : i \in DOMAIN Queue /\ Queue[i] = buffer[i]
  BY <1>0, CancelKeepsFront DEF LoggerInv, Records
<1>2. TypeOK'
  <2>1. sending' \in Seq(Records)
    BY <1>0
  <2> QED BY <1>0, <1>1, <2>1 DEF LoggerInv, TypeOK
<1>3. SentOnce' /\ OnlyAllowed'
  BY <1>0 DEF LoggerInv, SentOnce, OnlyAllowed, IsAllowed
<1>4. QueueInOrder'
  <2>1. InOrder(sent, buffer)
    BY <1>1 DEF LoggerInv, QueueInOrder, InOrder
  <2> QED BY <1>0, <1>1, <2>1 DEF LoggerInv, QueueInOrder
<1>5. HandInOrder'
  BY <1>0, <1>1 DEF LoggerInv, HandInOrder
<1>6. WrittenInOrder' /\ TurnInOrder'
  BY <1>0 DEF LoggerInv, WrittenInOrder, TurnInOrder
<1>7. NothingLost'
  BY <1>0 DEF NothingLost
<1> QED BY <1>2, <1>3, <1>4, <1>5, <1>6, <1>7 DEF LoggerInv

\* The logger is gone; a coroutine that runs later does not reach the channel.
LEMMA GoneInv ==
  ASSUME LoggerInv, Destroyed \/ \E r \in spawned : EnqueueStray(r)
  PROVE  LoggerInv'
<1>0. /\ UNCHANGED <<least, filter, levels, audience, writers, buffer, sending, sent,
                     consumer, hand, turn, upto, written>>
      /\ spawned' \subseteq spawned /\ life' \in {"gone", "terminated", "undefined"}
  BY DEF Destroyed, EnqueueStray, logged, channel, loop
<1>1. Queue' = Queue /\ Records' = Records
  BY <1>0 DEF Queue, Records
<1>2. TypeOK'
  BY <1>0, <1>1 DEF LoggerInv, TypeOK
<1>3. SentOnce' /\ OnlyAllowed'
  BY <1>0 DEF LoggerInv, SentOnce, OnlyAllowed, IsAllowed
<1>4. QueueInOrder' /\ HandInOrder'
  BY <1>0, SameChannel DEF LoggerInv
<1>5. WrittenInOrder' /\ TurnInOrder'
  BY <1>0 DEF LoggerInv, WrittenInOrder, TurnInOrder
<1>6. NothingLost'
  BY <1>0 DEF NothingLost
<1> QED BY <1>2, <1>3, <1>4, <1>5, <1>6 DEF LoggerInv

-----------------------------------------------------------------------------
(* The theorems.                                                           *)

\* No step leaves the invariant.
LEMMA StepInv == LoggerInv /\ [Next]_vars => LoggerInv'
<1> SUFFICES ASSUME LoggerInv, [Next]_vars PROVE LoggerInv'
  OBVIOUS
<1>1. CASE \E w \in Writers : AddWriter(w)
  BY <1>1, AddWriterInv
<1>2. CASE \E lv \in LogLevels : Log(lv)
  BY <1>2, LogInv
<1>3. CASE \E r \in spawned : Enqueue(r)
  BY <1>3, EnqueueInv
<1>4. CASE Receive
  BY <1>4, ReceiveInv
<1>5. CASE Received
  BY <1>5, ReceivedInv
<1>6. CASE Write
  BY <1>6, WriteInv
<1>7. CASE Throws \/ Aborted
  BY <1>7, EndInv
<1>8. CASE Destroy \/ DestroyTimesOut
  BY <1>8, CancelInv
<1>9. CASE Destroyed \/ \E r \in spawned : EnqueueStray(r)
  BY <1>9, GoneInv
<1>10. CASE UNCHANGED vars
  <2>1. /\ UNCHANGED <<least, filter, levels, audience, writers, spawned, buffer, sending,
                       sent, consumer, hand, turn, upto, written, life>>
    BY <1>10 DEF vars, logged, channel, loop
  <2>2. Queue' = Queue /\ Records' = Records
    BY <2>1 DEF Queue, Records
  <2>3. TypeOK' /\ SentOnce' /\ OnlyAllowed'
    BY <2>1, <2>2 DEF LoggerInv, TypeOK, SentOnce, OnlyAllowed, IsAllowed
  <2>4. QueueInOrder' /\ HandInOrder' /\ WrittenInOrder' /\ TurnInOrder'
    BY <2>1, <2>2 DEF LoggerInv, QueueInOrder, HandInOrder, WrittenInOrder, TurnInOrder
  <2>5. NothingLost'
    <3>1. \A x : (Underway(x) => Underway(x)') /\ (WrittenByAll(x) => WrittenByAll(x)')
      BY <2>1 DEF Underway, WrittenByAll
    <3> QED BY <2>1, <2>2, <3>1 DEF LoggerInv, NothingLost, IsAllowed
  <2> QED BY <2>3, <2>4, <2>5 DEF LoggerInv
<1> QED BY <1>1, <1>2, <1>3, <1>4, <1>5, <1>6, <1>7, <1>8, <1>9, <1>10 DEF Next, Run

\* Every state of a logger satisfies the invariant.
LEMMA Always == Spec => []LoggerInv
BY InitInv, StepInv, PTL DEF Spec

\* The consumer is inside the writers it started with, the buffer within its limit,
\* and every record a writer or the channel holds is one that was logged.
THEOREM LoggerTypes == Spec => []TypeOK
<1>1. LoggerInv => TypeOK
  BY DEF LoggerInv
<1> QED BY <1>1, Always, PTL

\* A writer gets only records at the level asked for, in the order of the channel and
\* each once; and until the end of the logger or an exception every record allowed
\* is on its way or written by all writers attached before it was logged.
THEOREM LoggerDelivers == Spec => []RecordsArrive
<1>1. LoggerInv => RecordsArrive
  <2> SUFFICES ASSUME LoggerInv PROVE InSendOrder
    BY DEF LoggerInv, RecordsArrive
  <2> SUFFICES ASSUME NEW w \in Writers
               PROVE  /\ \A i \in DOMAIN written[w] :
                           /\ levels[written[w][i]] >= least
                           /\ \E k \in DOMAIN sent : sent[k] = written[w][i]
                      /\ \A i, j \in DOMAIN written[w] : \A k, l \in DOMAIN sent :
                           i < j /\ sent[k] = written[w][i] /\ sent[l] = written[w][j] => k < l
    BY DEF InSendOrder
  <2>1. /\ \A i \in DOMAIN written[w] : Arrived(sent, written[w][i])
        /\ InOrder(sent, written[w])
    BY DEF LoggerInv, WrittenInOrder
  <2>2. sent \in Seq(Records) /\ least \in 0..Off
    BY DEF LoggerInv, TypeOK
  <2>3. \A k \in DOMAIN sent : levels[sent[k]] >= least
    BY <2>2 DEF LoggerInv, OnlyAllowed, IsAllowed, AtLeast, Off
  <2>4. \A x, y : Earlier(sent, x, y) =>
          \A k, l \in DOMAIN sent : sent[k] = x /\ sent[l] = y => k < l
    BY <2>2, EarlierIsOrder DEF LoggerInv, SentOnce
  <2> QED BY <2>1, <2>3, <2>4 DEF Arrived, InOrder
<1> QED BY <1>1, Always, PTL
=============================================================================
