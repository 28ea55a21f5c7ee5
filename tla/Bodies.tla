------------------------------- MODULE Bodies -------------------------------
(***************************************************************************)
(* The sources a body is read from, each with the reader of Body: the file *)
(* of a static_file (StaticFile) or a stream that decompresses or          *)
(* compresses another (CodecStream).  A behaviour has one body.            *)
(***************************************************************************)
EXTENDS StaticFile, CodecStream

vars == <<bodyVars, fileVars, codecVars>>

NoCoding == [kind |-> None, wire |-> << >>, fault |-> FALSE]

\* The other source is not there.
NoCodec == /\ coding = NoCoding /\ rest = << >> /\ readable = << >> /\ filled = << >>
           /\ codec = [pend |-> << >>, ended |-> FALSE]
NoStaticFile ==
  /\ inodes = << >> /\ path = 0 /\ handle = NoFile /\ step = None /\ state = None
  /\ known = [size |-> 0, time |-> 0, change |-> 0]
  /\ asks = [aware |-> FALSE]
  /\ lmd = 0 /\ etag = Tag(0, 0) /\ seen = {}
  /\ stream = [offset |-> 0, remaining |-> 0, at |-> 0]

Init == \/ FileInit /\ NoCodec
        \/ CodecInit /\ NoStaticFile

Server == \/ OpenFile \/ LastModified \/ Validate \/ ParseRange \/ CheckRange
          \/ ToResponse \/ ReadFile
Coder == CodecNext
Others == ReadFails \/ Replace \/ Rewrite \/ RemoveFile

Done == verdict # "open" /\ UNCHANGED vars

Next == \/ step # None /\ (Server \/ Others) /\ UNCHANGED codecVars
        \/ Coder /\ UNCHANGED fileVars
        \/ Done

Spec == Init /\ [][Next]_vars

\* The executor resumes a coroutine that can go on; nobody has to touch a file.
Fairness == /\ WF_vars(Server /\ UNCHANGED codecVars)
            /\ WF_vars(Coder /\ UNCHANGED fileVars)
FairSpec == Spec /\ Fairness
-----------------------------------------------------------------------------
SomeBytes(s) == \A k \in DOMAIN s : s[k] \in Nat

\* The types of the variables, and that a body is read after its response was
\* made, from one of the two sources.
TypeOK ==
  /\ SomeBytes(whole) /\ SomeBytes(got)
  /\ cut \in BOOLEAN /\ hollow \in BOOLEAN
  /\ verdict \in {"open", "eof", "error"}
  /\ step \in {None, "open", "time", "validate", "range", "compare", "respond", "read",
              "failed"}
  /\ state \in {None} \cup Streams \cup {"bad_request", "not_modified", "range_not_satisfiable"}
  /\ \A k \in DOMAIN inodes : inodes[k].size \in Sizes /\ inodes[k].time \in Times
  /\ path \in 0..Len(inodes)
  /\ stream.offset \in 0..(W - 1) /\ stream.remaining \in 0..(W - 1) /\ stream.at \in Nat
  /\ codec.ended \in BOOLEAN /\ SomeBytes(codec.pend) /\ SomeBytes(filled)
  /\ step # None => coding = NoCoding
  /\ got # << >> /\ step # None => step = "read" /\ state \in Streams

\* What a response says of a file is so: its tag and its time are that file's, a
\* client that sends tags is told 304 if one of them is that file's and only then,
\* and a body without a range is as long as the file.
TellsOf(file) ==
  /\ etag = Tag(file.size, file.time) /\ lmd = file.time
  /\ asks.aware /\ asks.inm.kind = "tags" =>
       (state = "not_modified" <=> "known" \in asks.inm.tags /\ KnownTag = etag)
  /\ step = "read" /\ state \in Streams \ {"subrange"} => Len(whole) = file.size

\* The handle is asked for the size up to four times and the path for the time
\* (static_file.hpp:180, 185, 209, 211 and async_readable_file_stream.hpp:33).  If
\* all of these saw one state of one file, the response is of that file, whatever
\* changed before, after and in between; if they saw several it need not be of any.
ResponseIsOfOneFile ==
  step \in {"respond", "read"} => \A file \in seen : seen = {file} => TellsOf(file)

\* A range that is answered 206 (static_file.hpp:208-217) is inside the file as
\* it was when it was compared; test/web/test_web_static_file.cpp:271-279
\* expects 416 for one that is not.
PartialIsInFile ==
  state = "subrange" /\ step = "respond" => stream.offset + stream.remaining <= handle.size

\* The body whose end a reader is told (async_readable_file_stream.hpp:56-87,
\* async_inflate_stream.hpp:35-86, async_deflate_stream.hpp:35-100) is all of
\* what the source stands for and in its order, unless the file was rewritten
\* while it was read or an encoder's output filled a whole buffer.
Source == INSTANCE ByteSource
SourceSpec == Source!Spec

\* A decoder fails (async_inflate_stream.hpp:70-75) only when the next layer
\* does, when the data is bad, or when a piece of zlib data fills the output
\* exactly and the loop asks for more of nothing.
DecodingFailsForCause ==
  verdict = "error" /\ coding.kind \in Decoders =>
    \/ coding.fault
    \/ \E k \in DOMAIN coding.wire : coding.wire[k].mark = "bad"
    \/ coding.kind = "zlib" /\ readable = << >> /\ Len(filled) >= Room

\* A file never yields a piece without bytes, which async_write_chunks would
\* write as the last chunk of the response (async_write_chunks.hpp:32-40).
FileFillsItsChunks == step # None => ~hollow

\* Bytes behind the end of the compressed data: the loop takes none of them.
Stuck == codec.ended /\ readable # << >>

\* A body ends, or the decoder turns for ever behind the end of its data
\* (async_inflate_stream.hpp:57-83).
BodyEnds == <>(verdict # "open" \/ Stuck)
=============================================================================
