----------------------------- MODULE ByteSource -----------------------------
(***************************************************************************)
(* What a reader may rely on when it reads an async_readable_stream: the   *)
(* bytes come in order and none is left out, and the end is announced      *)
(* after the last one.  A source that was cut (what it reads from was      *)
(* changed under it, or the stream itself had to drop something) promises  *)
(* only that the reads end.                                                *)
(***************************************************************************)
EXTENDS Naturals, Sequences

VARIABLES whole,   \* the bytes the source stands for
          cut,     \* the source lost some of them
          got,     \* the bytes its reader has
          verdict  \* "open", then "eof" (nullopt) or "error"

vars == <<whole, cut, got, verdict>>

Init == /\ cut = FALSE
        /\ got = << >>
        /\ verdict = "open"

Deliver ==
  /\ verdict = "open"
  /\ IF cut THEN \E n \in 0..Len(got') : got = SubSeq(got', 1, n)
     ELSE \E n \in Len(got)..Len(whole) : got' = SubSeq(whole, 1, n)
  /\ UNCHANGED <<whole, cut, verdict>>

Cut == /\ cut' = TRUE
       /\ \E n \in 0..Len(got') : got = SubSeq(got', 1, n)
       /\ UNCHANGED <<whole, verdict>>

End == /\ verdict = "open"
       /\ cut \/ got = whole
       /\ verdict' = "eof"
       /\ UNCHANGED <<whole, cut, got>>

Fail == /\ verdict = "open"
        /\ verdict' = "error"
        /\ UNCHANGED <<whole, cut, got>>

\* The source is made when the first byte of it is asked for.
Open == /\ verdict = "open" /\ got = << >> /\ ~cut
        /\ UNCHANGED <<cut, got, verdict>>

Next == Open \/ Deliver \/ Cut \/ End \/ Fail

Spec == Init /\ [][Next]_vars
=============================================================================
