---------------------------- MODULE CodecStream -----------------------------
(***************************************************************************)
(* The streams that decompress and compress a body piece by piece:         *)
(* async_inflate_stream, async_gzip_inflate_stream and                     *)
(* async_brotli_inflate_stream, which the decompress middleware wraps      *)
(* around the body of a request, and their three counterparts.             *)
(*                                                                         *)
(* A plain byte is its position.  Compressed data is a sequence of         *)
(* symbols: one stands for the bytes it expands to, ends the data or is    *)
(* one no encoder makes.  The libraries are zlib (that of Beast or the     *)
(* original) and brotli; what they hold between two calls is `pend`.       *)
(***************************************************************************)
EXTENDS Body

CONSTANTS Codings,   \* what is read through which stream: [kind, wire, fault]
          Room,      \* the room of an output buffer (65536)
          Backlog    \* bytes an encoder may hold back

Data(out) == [out |-> out, mark |-> "data"]
EndMark == [out |-> << >>, mark |-> "end"]
Bad == [out |-> << >>, mark |-> "bad"]
Decoders == {"zlib", "brotli"}
Encoders == {"zlib encoder", "brotli encoder"}
Symbols == [out : Seq(Nat), mark : {"data", "end", "bad"}]

\* A buffer has room for something; what is read is a sequence of symbols.
ASSUME CodingsAssumption ==
  /\ Room \in Nat \ {0}
  /\ Codings \subseteq [kind : Decoders \cup Encoders, wire : Seq(Symbols), fault : BOOLEAN]

VARIABLES coding,    \* the stream: [kind, wire, fault]
          rest,      \* what the next layer still has
          codec,     \* the library: [pend, ended], and finish_
          readable,  \* the piece that is being decoded
          filled     \* buffer: what has been made of it

codecVars == <<coding, rest, codec, readable, filled>>

Least(m, n) == IF m < n THEN m ELSE n
Drop(s, n) == SubSeq(s, n + 1, Len(s))
Take(s, n) == SubSeq(s, 1, n)
Plain(symbols) == FlattenSeq([k \in DOMAIN symbols |-> symbols[k].out])

\* The symbols up to the first that is not data, that one included.
Live(symbols) ==
  LET stop == SelectInSeq(symbols, LAMBDA s : s.mark # "data")
  IN IF stop = 0 THEN symbols ELSE Take(symbols, stop)
-----------------------------------------------------------------------------
(* One call of a decoder: input is taken as long as there is room for what *)
(* it expands to, of the last symbol perhaps only the beginning.           *)
Write(c, in, room) ==
  LET ahead == IF c.ended THEN << >> ELSE Live(in)
      used == Cardinality({k \in DOMAIN ahead :
                             Len(c.pend) + Len(Plain(Take(ahead, k - 1))) < room})
      made == c.pend \o Plain(Take(ahead, used))
      n == Least(Len(made), room)
      last == IF used = 0 THEN Data(<< >>) ELSE ahead[used]
  IN [codec |-> [c EXCEPT !.pend = Drop(made, n),
                          !.ended = c.ended \/ last.mark = "end"],
      rest |-> Drop(in, used), out |-> Take(made, n),
      ec |-> CASE last.mark = "bad" -> "general"
               [] last.mark # "bad" /\ (c.ended \/ last.mark = "end") -> "end_of_stream"
               [] last.mark = "data" /\ ~c.ended /\ used = 0 /\ n = 0 -> "need_buffers"
               [] OTHER -> "none"]

\* Mutant: the end of the compressed data is an error like another.
ErrorAlsoAtEnd(ec) == ec \in {"general", "end_of_stream"}

\* end_of_stream is none; of brotli neither is that it needs more of anything,
\* while zlib calls it an error when there was nothing to do.
IsError(ec) ==
  CASE coding.kind = "zlib" -> ec \in {"general", "need_buffers"}
    [] coding.kind = "brotli" -> ec = "general"

OutputRoom(in) == IF Len(in) > Room THEN Len(in) ELSE Room

\* The next layer has no more: nullopt, or its error.
SourceStops ==
  /\ rest = << >>
  /\ Stop(IF coding.fault THEN "error" ELSE "eof")
  /\ UNCHANGED codecVars
  /\ UNCHANGED <<whole, cut>>

\* async_read_some of a decoder: the next piece, which may be empty (bound: one
\* that is).
ReadPiece ==
  /\ coding.kind \in Decoders /\ Reading /\ readable = << >> /\ filled = << >>
  /\ \/ SourceStops
     \/ /\ ~hollow /\ rest # << >>
        /\ Deliver(<< >>)
        /\ UNCHANGED codecVars
     \/ \E n \in 1..Len(rest) :
          /\ readable' = Take(rest, n)
          /\ rest' = Drop(rest, n)
          /\ UNCHANGED <<coding, codec, filled, got, hollow, verdict>>
  /\ UNCHANGED <<whole, cut>>

\* Mutant: the loop ends when the input is used up.
ExhaustedInput(w, room) == w.rest = << >>
\* ... which leaves behind what did not fit.
PieceDone(w, room) == w.rest = << >> /\ Len(w.out) < room

\* One turn of the loop.  Behind the end of the data a turn changes nothing.
Decode ==
  /\ coding.kind \in Decoders /\ Reading
  /\ readable # << >> \/ filled # << >>
  /\ LET room == OutputRoom(readable)
         w == Write(codec, readable, room)
     IN CASE IsError(w.ec) -> /\ Stop("error")
                              /\ UNCHANGED <<codec, readable, filled>>
          [] ~IsError(w.ec) /\ PieceDone(w, room) ->
               /\ Deliver(filled \o w.out)
               /\ codec' = w.codec /\ readable' = << >> /\ filled' = << >>
          [] OTHER -> /\ codec' = w.codec /\ readable' = w.rest
                      /\ filled' = filled \o w.out
                      /\ UNCHANGED <<got, hollow, verdict>>
  /\ UNCHANGED <<coding, rest, whole, cut>>
-----------------------------------------------------------------------------
(* One call of an encoder per piece.  It may hold back what it was given   *)
(* and may make room for it by output of its choice; a byte that does not  *)
(* compress is a symbol.  0 ends what is made.                             *)

\* Mutant: the input that was not taken is not missed.
MissingNothing(piece, taken) == FALSE
Missing(piece, taken) == taken < Len(piece)

EncodePiece ==
  /\ coding.kind \in Encoders /\ Reading
  /\ \E n \in 1..Len(rest) :
       LET piece == Plain(Take(rest, n))
           room == OutputRoom(piece)
       IN \E taken \in 0..Len(piece) :
            LET made == codec.pend \o Take(piece, taken)
            IN \E out \in 0..Least(Len(made), room) :
                 /\ Len(made) - out <= Backlog
                 /\ taken < Len(piece) => out = room
                 /\ Deliver(Take(made, out))
                 /\ codec' = [codec EXCEPT !.pend = Drop(made, out)]
                 /\ cut' = (cut \/ Missing(piece, taken))
                 /\ rest' = Drop(rest, n)
  /\ UNCHANGED <<coding, readable, filled, whole>>

\* The next layer has no more: one call finishes, the read after it ends.  What
\* is pending then and does not fit stays in the encoder.
Finish ==
  /\ coding.kind \in Encoders /\ Reading /\ rest = << >>
  /\ IF coding.fault \/ codec.ended
       THEN /\ Stop(IF coding.fault THEN "error" ELSE "eof")
            /\ UNCHANGED <<codec, cut>>
       ELSE LET made == codec.pend \o <<0>>
                n == Least(Len(made), Room)
            IN /\ Deliver(Take(made, n))
               /\ codec' = [pend |-> Drop(made, n), ended |-> TRUE]
               /\ cut' = (cut \/ n < Len(made))
  /\ UNCHANGED <<coding, rest, readable, filled, whole>>
-----------------------------------------------------------------------------
CodecInit ==
  /\ coding \in Codings
  /\ rest = coding.wire
  /\ codec = [pend |-> << >>, ended |-> FALSE]
  /\ readable = << >> /\ filled = << >>
  /\ whole = IF coding.kind \in Encoders THEN Plain(coding.wire) \o <<0>>
                                         ELSE Plain(Live(coding.wire))
  /\ BodyInit

CodecNext == ReadPiece \/ Decode \/ EncodePiece \/ Finish
=============================================================================
