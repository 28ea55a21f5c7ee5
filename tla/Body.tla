-------------------------------- MODULE Body --------------------------------
(***************************************************************************)
(* The body of a request or a response and the loop that reads it: the     *)
(* extractors collect the pieces (async_read_until_eof), the session       *)
(* writes each as a chunk (async_write_chunks) and a handler may store     *)
(* them in a file (async_read_into_stream_file).  Every loop asks the      *)
(* stream for the next piece until there is none or one failed.            *)
(***************************************************************************)
EXTENDS Integers, Sequences, SequencesExt, FiniteSetsExt

VARIABLES whole,    \* the bytes the stream stands for
          cut,      \* it lost some of them
          got,      \* what the reader has
          hollow,   \* a piece without bytes was among them
          verdict   \* "open", then "eof" (nullopt) or "error"

bodyVars == <<whole, cut, got, hollow, verdict>>

BodyInit == got = << >> /\ hollow = FALSE /\ verdict = "open" /\ cut = FALSE

Reading == verdict = "open"

\* A piece: it is appended, and the loop asks for the next one.
Deliver(piece) == /\ got' = got \o piece
                  /\ hollow' = (hollow \/ piece = << >>)
                  /\ UNCHANGED verdict

\* nullopt ends the loop, an error ends it with the error.
Stop(how) == verdict' = how /\ UNCHANGED <<got, hollow>>
=============================================================================
