--------------------------- MODULE DynamicBuffer ----------------------------
(***************************************************************************)
(* dynamic_buffer: two offsets into a contiguous container.                *)
(*                                                                         *)
(* The n-th byte that anybody writes is the number n; 0 is the value of a  *)
(* byte the container made itself.  A caller prepares a region, writes     *)
(* some of it from its start, and commits what it wrote.                   *)
(***************************************************************************)
EXTENDS Naturals, Sequences

CONSTANTS MaxSize,   \* Container::max_size()
          Limits,    \* the limits buffers are constructed with
          Initials,  \* the sizes of containers they are constructed with
          MaxOp,     \* bound: bytes asked for in one call
          MaxBytes   \* bound: bytes written in all

ASSUME ConstantsAssumption ==
  /\ MaxSize \in Nat /\ MaxOp \in Nat /\ MaxBytes \in Nat
  /\ Limits \subseteq 0..MaxSize
  /\ Initials \subseteq 0..MaxSize

VARIABLES cells,    \* container_
          roffset, woffset,
          limit,
          region,   \* bytes of the region last prepared, at woffset
          next,     \* bytes written so far
          output,   \* what release returned
          released

vars == <<cells, roffset, woffset, limit, region, next, output, released>>

ReadableSize == woffset - roffset

\* data(): the readable bytes; none once the container has been moved from.
Readable == IF released THEN << >>
            ELSE [i \in 1..ReadableSize |-> cells[roffset + i]]

Upto(n) == [i \in 1..n |-> i]
Resized(c, n) == [i \in 1..n |-> IF i \in 1..Len(c) THEN c[i] ELSE 0]

\* compress: the readable bytes are moved to the front, those behind stay.
Compressed ==
  IF roffset = 0 THEN cells
  ELSE [i \in 1..Len(cells) |-> IF i \in 1..ReadableSize THEN cells[roffset + i] ELSE cells[i]]

\* Constructed with a limit, or with a container.
Init ==
  /\ \/ limit \in Limits /\ next = 0
     \/ limit = MaxSize /\ next \in Initials
  /\ cells = Upto(next) /\ woffset = next
  /\ roffset = 0 /\ region = 0
  /\ output = << >> /\ released = FALSE

\* Mutant of PrepareBehind: room is made for the region only.
PrepareBehindShort(n) ==
  /\ ~released
  /\ n <= limit - woffset
  /\ cells' = Resized(cells, IF n < woffset THEN woffset ELSE n)
  /\ region' = n
  /\ UNCHANGED <<roffset, woffset, limit, next, output, released>>

\* There is room behind the readable bytes.
PrepareBehind(n) ==
  /\ ~released
  /\ n <= limit - woffset
  /\ cells' = Resized(cells, woffset + n)
  /\ region' = n
  /\ UNCHANGED <<roffset, woffset, limit, next, output, released>>

\* Mutant of PrepareMoving: compress forgets the write offset.
PrepareMovingOnly(n) ==
  /\ ~released
  /\ n > limit - woffset /\ n <= limit - ReadableSize
  /\ cells' = Compressed
  /\ roffset' = 0
  /\ region' = n
  /\ UNCHANGED <<woffset, limit, next, output, released>>

\* Mutant of PrepareMoving: the bytes are not moved.
PrepareNotMoving(n) ==
  /\ ~released
  /\ n > limit - woffset /\ n <= limit - ReadableSize
  /\ roffset' = 0 /\ woffset' = ReadableSize
  /\ region' = n
  /\ UNCHANGED <<cells, limit, next, output, released>>

\* There is room if the bytes are moved; the container keeps its size.
PrepareMoving(n) ==
  /\ ~released
  /\ n > limit - woffset /\ n <= limit - ReadableSize
  /\ cells' = Compressed
  /\ roffset' = 0 /\ woffset' = ReadableSize
  /\ region' = n
  /\ UNCHANGED <<limit, next, output, released>>

\* std::length_error.
PrepareThrows(n) ==
  /\ ~released
  /\ n > limit - ReadableSize
  /\ UNCHANGED vars

\* Mutant of Commit: the container's size is not minded.
CommitAll(k) ==
  /\ ~released /\ k <= region
  /\ next + k <= MaxBytes
  /\ cells' = [i \in DOMAIN cells |-> IF i \in (woffset + 1)..(woffset + k)
                                        THEN next + (i - woffset) ELSE cells[i]]
  /\ woffset' = woffset + k
  /\ next' = next + k /\ region' = 0
  /\ UNCHANGED <<roffset, limit, output, released>>

\* The caller writes k bytes into the region and commits them.  What it writes
\* beyond the container's size is not a part of the container.
Commit(k) ==
  /\ ~released /\ k <= region
  /\ next + k <= MaxBytes
  /\ cells' = [i \in DOMAIN cells |-> IF i \in (woffset + 1)..(woffset + k)
                                        THEN next + (i - woffset) ELSE cells[i]]
  /\ woffset' = IF woffset + k < Len(cells) THEN woffset + k ELSE Len(cells)
  /\ next' = next + k /\ region' = 0
  /\ UNCHANGED <<roffset, limit, output, released>>

\* It invalidates the region.
Consume(n) ==
  /\ ~released
  /\ IF roffset + n >= woffset
       THEN roffset' = 0 /\ woffset' = 0
       ELSE roffset' = roffset + n /\ UNCHANGED woffset
  /\ region' = 0
  /\ UNCHANGED <<cells, limit, next, output, released>>

\* Callers of release let the buffer go.
Release ==
  /\ ~released
  /\ output' = Resized(Compressed, ReadableSize)
  /\ cells' = << >> /\ released' = TRUE /\ region' = 0
  /\ roffset' = 0 /\ woffset' = ReadableSize
  /\ UNCHANGED <<limit, next>>

Next ==
  \/ \E n \in 0..MaxOp : \/ PrepareBehind(n) \/ PrepareMoving(n) \/ PrepareThrows(n)
                         \/ Commit(n) \/ Consume(n)
  \/ Release

Spec == Init /\ [][Next]_vars
-----------------------------------------------------------------------------
(* Properties.                                                             *)

\* The offsets are ordered and lie within the container, and the readable
\* bytes within the limit.
TypeOK ==
  /\ cells \in Seq(0..next)
  /\ roffset \in Nat /\ woffset \in Nat /\ limit \in 0..MaxSize
  /\ region \in Nat /\ next \in Nat
  /\ output \in Seq(0..next) /\ released \in BOOLEAN
  /\ roffset <= woffset
  /\ ~released => woffset <= Len(cells) /\ Len(cells) <= limit

\* What is readable, or was released, was written, in this order and once: no
\* byte of the container that nobody wrote and none that was moved away shows.
OnlyWritten ==
  \A s \in {Readable, output} :
    /\ \A i \in DOMAIN s : s[i] > 0
    /\ \A i, j \in DOMAIN s : i < j => s[i] < s[j]

\* Every byte committed gets readable, behind those that are, as long as all
\* that has been written and is asked for fits the limit (as in every buffer of
\* the server: their limit is the container's).
CommitIsLossless ==
  [][\A k \in 0..MaxOp :
       Commit(k) /\ next + region <= limit =>
         Readable' = Readable \o [i \in 1..k |-> next + i]]_vars

\* A commit that reaches beyond the container: prepare has moved the bytes, and
\* left the container as it was (dynamic_buffer.hpp:133-134).  What was written
\* behind its end is lost, though commit is to "Convert writable bytes into readable
\* bytes" (145).
Overrun == \E k \in 0..MaxOp : Commit(k) /\ woffset + k > Len(cells)

\* The buffer is a byte queue at every step but a commit that overruns: what is put
\* in gets readable as a whole, and comes out in order and once.
Queue == INSTANCE ByteQueue WITH readable <- Readable
QueueSpec == Queue!Init /\ [][~Overrun => Queue!Next]_(Queue!vars)
=============================================================================
