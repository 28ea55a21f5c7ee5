----------------------------- MODULE AsyncLogger ----------------------------
(***************************************************************************)
(* async_logger: log() spawns a coroutine that sends the record into a     *)
(* channel; one coroutine of the logger receives the records and has every *)
(* writer write them; the destructor cancels the channel and waits for it. *)
(*                                                                         *)
(* A record is its number, in the order of the calls of log().             *)
(***************************************************************************)
EXTENDS Naturals, Sequences, FiniteSets

CONSTANTS Writers,    \* the async_writers that may be attached
          Throwing,   \* those whose async_write may throw
          Capacity,   \* max_buffer_size
          Leasts,     \* the levels loggers are built with (filter::at_least)
          LogLevels,  \* the levels of what is logged
          MaxRecords  \* bound: calls of log()

ASSUME ConstantsAssumption ==
  /\ Throwing \subseteq Writers
  /\ Capacity \in Nat /\ MaxRecords \in Nat
  /\ Leasts \subseteq 0..6 /\ LogLevels \subseteq 0..6

VARIABLES least, filter,  \* the level asked for, filter_
          levels,         \* the level of each record logged
          audience,       \* history: how many writers there were when it was logged
          writers,        \* writers_
          spawned,        \* records whose async_enqueue has not run yet
          buffer, sending,\* channel_: what it holds, the sends that wait
          sent,           \* the records in the order in which they were sent
          consumer,       \* async_dequeue_and_write
          hand,           \* the record it has received
          turn, upto,     \* its position in writers_, and where it will stop
          written,        \* what each writer was given
          life            \* the logger

logged == <<levels, audience>>
channel == <<buffer, sending, sent>>
loop == <<consumer, hand, turn, upto, written>>
vars == <<least, filter, logged, writers, spawned, channel, loop, life>>

Off == 6
Records == 1..Len(levels)

\* Mutant of AtLeast: the level itself is left out.
AtLeastAbove(lv) == {l \in 0..Off : lv < l /\ l < Off}
AtLeast(lv) == {l \in 0..Off : lv <= l /\ l < Off}
IsAllowed(lv) == lv # Off /\ lv \in filter

Init ==
  /\ least \in Leasts /\ filter = AtLeast(least)
  /\ levels = << >> /\ audience = << >> /\ writers = << >> /\ spawned = {}
  /\ buffer = << >> /\ sending = << >> /\ sent = << >>
  /\ consumer = "ready" /\ hand = 0 /\ turn = 0 /\ upto = 0
  /\ written = [w \in Writers |-> << >>]
  /\ life = "alive"

\* The vector may move its elements while the consumer is iterating them.
AddWriter(w) ==
  /\ life = "alive" /\ \A i \in DOMAIN writers : writers[i] # w
  /\ writers' = Append(writers, w)
  /\ life' \in {"alive"} \cup (IF consumer = "writing" THEN {"undefined"} ELSE {})
  /\ UNCHANGED <<least, filter, logged, spawned, channel, loop>>

Log(lv) ==
  /\ life = "alive" /\ Len(levels) < MaxRecords
  /\ levels' = Append(levels, lv) /\ audience' = Append(audience, Len(writers))
  /\ spawned' = IF IsAllowed(lv) THEN spawned \cup {Len(levels')} ELSE spawned
  /\ UNCHANGED <<least, filter, writers, channel, loop, life>>

\* async_enqueue runs on any thread of the executor: the record goes to the
\* consumer if that waits, else into the buffer, else it waits.
Enqueue(r) ==
  /\ life \in {"alive", "closing"} /\ r \in spawned
  /\ spawned' = spawned \ {r} /\ sent' = Append(sent, r)
  /\ \/ /\ consumer = "waiting"
        /\ consumer' = "resumed" /\ hand' = r
        /\ UNCHANGED <<buffer, sending>>
     \/ /\ consumer # "waiting" /\ Len(buffer) < Capacity
        /\ buffer' = Append(buffer, r)
        /\ UNCHANGED <<sending, consumer, hand>>
     \/ /\ consumer # "waiting" /\ Len(buffer) >= Capacity
        /\ sending' = Append(sending, r)
        /\ UNCHANGED <<buffer, consumer, hand>>
  /\ UNCHANGED <<least, filter, logged, writers, turn, upto, written, life>>

\* It runs when the logger is gone.
EnqueueStray(r) ==
  /\ life = "gone" /\ r \in spawned
  /\ spawned' = spawned \ {r}
  /\ life' \in {"gone", "undefined"}
  /\ UNCHANGED <<least, filter, logged, writers, channel, loop>>

\* Mutant of Receive: what waits goes before what the buffer holds.
ReceiveWaitingFirst ==
  /\ life \in {"alive", "closing"} /\ consumer = "ready"
  /\ LET queue == sending \o buffer
         held == IF Len(queue) - 1 < Capacity THEN Len(queue) - 1 ELSE Capacity
     IN IF queue = << >>
          THEN consumer' = "waiting" /\ UNCHANGED <<hand, buffer, sending>>
          ELSE /\ consumer' = "resumed" /\ hand' = Head(queue)
               /\ buffer' = SubSeq(queue, 2, held + 1)
               /\ sending' = SubSeq(queue, held + 2, Len(queue))
  /\ UNCHANGED <<least, filter, logged, writers, spawned, sent, turn, upto, written, life>>

\* The consumer asks the channel for a record: the first of what the channel
\* holds and of what waits to be sent.
Receive ==
  /\ life \in {"alive", "closing"} /\ consumer = "ready"
  /\ LET queue == buffer \o sending
         held == IF Len(queue) - 1 < Capacity THEN Len(queue) - 1 ELSE Capacity
     IN IF queue = << >>
          THEN consumer' = "waiting" /\ UNCHANGED <<hand, buffer, sending>>
          ELSE /\ consumer' = "resumed" /\ hand' = Head(queue)
               /\ buffer' = SubSeq(queue, 2, held + 1)
               /\ sending' = SubSeq(queue, held + 2, Len(queue))
  /\ UNCHANGED <<least, filter, logged, writers, spawned, sent, turn, upto, written, life>>

\* The loop over writers_ starts: its end is that of now.
Received ==
  /\ life \in {"alive", "closing"} /\ consumer = "resumed"
  /\ consumer' = IF writers = << >> THEN "ready" ELSE "writing"
  /\ turn' = 1 /\ upto' = Len(writers)
  /\ UNCHANGED <<least, filter, logged, writers, spawned, channel, hand, written, life>>

\* Mutant of Write: the loop ends one writer too late.
WritePast ==
  /\ life \in {"alive", "closing"} /\ consumer = "writing"
  /\ written' = [written EXCEPT ![writers[turn]] = Append(@, hand)]
  /\ turn' = turn + 1
  /\ consumer' = IF turn > upto THEN "ready" ELSE "writing"
  /\ UNCHANGED <<least, filter, logged, writers, spawned, channel, hand, upto, life>>

\* A writer ends its write, and the next one is asked.
Write ==
  /\ life \in {"alive", "closing"} /\ consumer = "writing"
  /\ written' = [written EXCEPT ![writers[turn]] = Append(@, hand)]
  /\ turn' = turn + 1
  /\ consumer' = IF turn = upto THEN "ready" ELSE "writing"
  /\ UNCHANGED <<least, filter, logged, writers, spawned, channel, hand, upto, life>>

\* Mutant of Throws: the exception ends the loop over the writers only.
ThrowsOn ==
  /\ life \in {"alive", "closing"} /\ consumer = "writing" /\ writers[turn] \in Throwing
  /\ consumer' = "ready"
  /\ UNCHANGED <<least, filter, logged, writers, spawned, channel, hand, turn, upto, written, life>>

\* The exception of a writer ends the coroutine and is kept in fut_.
Throws ==
  /\ life \in {"alive", "closing"} /\ consumer = "writing" /\ writers[turn] \in Throwing
  /\ consumer' = "threw"
  /\ UNCHANGED <<least, filter, logged, writers, spawned, channel, hand, turn, upto, written, life>>

\* The receive was cancelled.
Aborted ==
  /\ consumer = "aborted" /\ life # "undefined"
  /\ consumer' = "done"
  /\ UNCHANGED <<least, filter, logged, writers, spawned, channel, hand, turn, upto, written, life>>

\* What cancels the operations that wait; what the buffer holds stays.
Cancel ==
  /\ sending' = << >>
  /\ consumer' = IF consumer = "waiting" THEN "aborted" ELSE consumer
  /\ UNCHANGED <<buffer, sent, hand, turn, upto, written>>

\* ~async_logger.
Destroy ==
  /\ life = "alive" /\ life' = "closing"
  /\ Cancel
  /\ UNCHANGED <<least, filter, logged, writers, spawned>>

\* fut_.get() rethrows in the destructor.
Destroyed ==
  /\ life = "closing"
  /\ \/ consumer = "done" /\ life' = "gone"
     \/ consumer = "threw" /\ life' = "terminated"
  /\ UNCHANGED <<least, filter, logged, writers, spawned, channel, loop>>

\* Mutant of DestroyTimesOut: the destructor waits for a write only.
DestroyWaits ==
  /\ life = "closing" /\ consumer = "writing"
  /\ life' \in {"gone", "undefined"}
  /\ Cancel
  /\ UNCHANGED <<least, filter, logged, writers, spawned>>

\* 30 s have passed.  The channel goes, and with it what waits; a loop that is
\* still writing goes on with the members of a logger that is gone.
DestroyTimesOut ==
  /\ life = "closing" /\ consumer \in {"waiting", "writing"}
  /\ life' \in {"gone"} \cup (IF consumer = "writing" THEN {"undefined"} ELSE {})
  /\ Cancel
  /\ UNCHANGED <<least, filter, logged, writers, spawned>>

\* The steps of the coroutines.
Run == \/ \E r \in spawned : Enqueue(r) \/ EnqueueStray(r)
       \/ Receive \/ Received \/ Write \/ Throws \/ Aborted

Next ==
  \/ \E w \in Writers : AddWriter(w)
  \/ \E lv \in LogLevels : Log(lv)
  \/ Run
  \/ Destroy \/ Destroyed \/ DestroyTimesOut

\* A thread of the executor runs whatever is ready to run, and a write ends.
Fairness ==
  /\ \A r \in 1..MaxRecords : WF_vars(Enqueue(r) \/ EnqueueStray(r))
  /\ WF_vars(Receive \/ Received \/ Write \/ Throws \/ Aborted)
  /\ WF_vars(Destroyed \/ DestroyTimesOut)

Spec == Init /\ [][Next]_vars /\ Fairness
-----------------------------------------------------------------------------
(* Properties.                                                             *)

TypeOK ==
  /\ least \in 0..Off /\ filter \subseteq 0..Off
  /\ levels \in Seq(0..Off) /\ Len(levels) <= MaxRecords
  /\ audience \in [Records -> 0..Len(writers)]
  /\ writers \in Seq(Writers) /\ spawned \subseteq Records
  /\ buffer \in Seq(Records) /\ Len(buffer) <= Capacity
  /\ sending \in Seq(Records) /\ sent \in Seq(Records)
  /\ consumer \in {"ready", "waiting", "resumed", "writing", "threw", "aborted", "done"}
  /\ hand \in {0} \cup Records
  /\ turn \in Nat /\ upto \in Nat
  /\ consumer = "writing" => turn \in 1..upto /\ upto <= Len(writers)
  /\ written \in [Writers -> Seq(Records)]
  /\ life \in {"alive", "closing", "gone", "terminated", "undefined"}

\* What a writer is given are records at the level asked for or above, none
\* twice, and in the order in which they were sent.
InSendOrder ==
  \A w \in Writers :
    /\ \A i \in DOMAIN written[w] :
         /\ levels[written[w][i]] >= least
         /\ \E k \in DOMAIN sent : sent[k] = written[w][i]
    /\ \A i, j \in DOMAIN written[w] : \A k, l \in DOMAIN sent :
         i < j /\ sent[k] = written[w][i] /\ sent[l] = written[w][j] => k < l

Underway(r) ==
  \/ r \in spawned
  \/ \E i \in DOMAIN buffer : buffer[i] = r
  \/ \E i \in DOMAIN sending : sending[i] = r
  \/ r = hand /\ consumer \in {"resumed", "writing"}
WrittenByAll(r) ==
  \A i \in 1..audience[r] : \E k \in DOMAIN written[writers[i]] : written[writers[i]][k] = r

\* Until the logger is destroyed or a writer throws, every record allowed is
\* somewhere on its way, or every writer attached before it was logged has
\* written it, also if more were attached behind it.
NothingLost ==
  life = "alive" /\ consumer # "threw" =>
    \A r \in Records : IsAllowed(levels[r]) => Underway(r) \/ WrittenByAll(r)

\* A writer gets the records it should, each once and in the order of the channel,
\* and no record gets lost on its way to the writers (async_logger.hpp:38-75).
RecordsArrive == InSendOrder /\ NothingLost

\* Every record at the level asked for gets written by every writer attached
\* before it, unless the logger is destroyed first or a writer throws.
Written(r) ==
  \/ r \in Records /\ WrittenByAll(r)
  \/ life # "alive" \/ consumer = "threw"
EveryRecordIsWritten ==
  \A r \in 1..MaxRecords :
    (r \in Records /\ levels[r] >= least /\ levels[r] # Off) ~> Written(r)

\* The destructor ends, whatever the consumer is doing when it cancels the
\* channel, and whatever is still to be sent.
DestructorEnds == life = "closing" ~> life # "closing"
=============================================================================
