------------------------------- MODULE Base64 -------------------------------
(***************************************************************************)
(* encoding::base64: the encoder and the decoder as machines that take a   *)
(* byte or a character at a time.  A character is its value in the         *)
(* alphabet, 0 to 63, or the padding, or not of the alphabet.              *)
(***************************************************************************)
EXTENDS Naturals, Sequences, SequencesExt

Pad == 64
Foreign == 65

(* A decoder: its state, rest_, and what it has put out.                   *)
Fresh == [state |-> "s0", rest |-> 0, out |-> << >>]
To(d, state) == [d EXCEPT !.state = state]
Keep(d, state, c) == [d EXCEPT !.state = state, !.rest = c]
Put(d, byte) == [d EXCEPT !.out = Append(@, byte)]

\* Mutant of DecodeS2: one padding character is enough.
DecodeS2Short(d, c) ==
  IF c = Pad THEN To(d, "end0")
             ELSE Keep(Put(d, (d.rest % 16) * 16 + c \div 4), "s3", c)
DecodeS2(d, c) ==
  IF c = Pad THEN To(d, "end1")
             ELSE Keep(Put(d, (d.rest % 16) * 16 + c \div 4), "s3", c)

\* decode_next of one character.
DecodeNext(d, c) ==
  CASE c = Foreign -> To(d, "error")
    [] d.state = "s0" /\ c < Pad -> Keep(d, "s1", c)
    [] d.state = "s1" /\ c < Pad -> Keep(Put(d, d.rest * 4 + c \div 16), "s2", c)
    [] d.state = "s2" /\ c <= Pad -> DecodeS2(d, c)
    [] d.state = "s3" /\ c < Pad -> To(Put(d, (d.rest % 4) * 64 + c), "s0")
    [] d.state \in {"s3", "end1"} /\ c = Pad -> To(d, "end0")
    [] OTHER -> To(d, "error")

IsError(d) == d.state = "error"
IsDone(d) == d.state \notin {"error", "s1"}

(* An encoder, with what it has put out.                                   *)
EncodeNext(e, byte) ==
  CASE e.state = "s0" -> Keep(Put(e, byte \div 4), "s1", byte)
    [] e.state = "s1" -> Keep(Put(e, (e.rest % 4) * 16 + byte \div 16), "s2", byte)
    [] e.state = "s2" -> To(Put(Put(e, (e.rest % 16) * 4 + byte \div 64), byte % 64), "s0")

EncodeRest(e, padding) ==
  LET pads(n) == IF padding THEN [k \in 1..n |-> Pad] ELSE << >>
  IN CASE e.state = "s0" -> e
       [] e.state = "s1" -> [e EXCEPT !.out = @ \o <<(e.rest % 4) * 16>> \o pads(2), !.state = "s0"]
       [] e.state = "s2" -> [e EXCEPT !.out = @ \o <<(e.rest % 16) * 4>> \o pads(1), !.state = "s0"]

Encode(bytes, padding) == EncodeRest(FoldLeft(EncodeNext, Fresh, bytes), padding).out
=============================================================================
