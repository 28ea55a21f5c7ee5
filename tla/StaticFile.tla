----------------------------- MODULE StaticFile -----------------------------
(***************************************************************************)
(* web::static_file: a file is opened for a request, its validators and    *)
(* the request's conditions decide the response, and the body is read from *)
(* the file while the response is written.  The file may be rewritten in   *)
(* place or replaced by another at any moment: the size comes from the     *)
(* handle, the time from the path, and each is asked for again whenever it *)
(* is needed.                                                              *)
(*                                                                         *)
(* A file is its size, the time of its last change in half seconds (the    *)
(* headers have whole ones) and the number of that change.  A byte is the  *)
(* change that wrote it and its position.  Sizes and offsets are unsigned  *)
(* with W values (2^64).                                                   *)
(***************************************************************************)
EXTENDS Body

CONSTANTS W,           \* values of a std::uint64_t
          SeekLimit,   \* INT64_MAX
          Window,      \* bytes read at once (65536)
          Sizes,       \* sizes of files
          Times,       \* times of changes
          Conditions,  \* the headers of requests: [aware, inm, ims, range]
          MaxChanges   \* bound: changes of the file

None == "none"
Malformed == "malformed"
Seconds(t) == t \div 2

VARIABLES inodes,  \* the files that have been at the path: [size, time, change]
          path,    \* the one that is there now, 0 when it was removed
          known,   \* what the client knows: the file as it was when it last asked
          asks,    \* the conditions of its request
          handle,  \* the open file: [inode, size (as last asked for)]
          lmd,     \* last_modified_time_
          etag,    \* etag_
          state,   \* state_
          stream,  \* async_readable_file_stream: [offset, remaining, at]; before, the range
          seen,    \* the files that were looked at for the response
          step     \* where open(), to_response and the reader are

fileVars == <<inodes, path, known, asks, handle, lmd, etag, state, stream, seen,
              step>>

-----------------------------------------------------------------------------
(* Ranges.  A Range header is malformed or has a unit and, behind "=", a   *)
(* suffix "-n" or a list of "start-end"; an end may be absent, a number    *)
(* may not be one (a bad one, or one that needs more than 64 bits).        *)
NotANumber == -1
Absent == -2
RangeHeaders ==
  [unit : {None, Malformed}]
    \cup [unit : STRING, suffix : {NotANumber} \cup 0..(W - 1)]
    \cup [unit : STRING, list : Seq([start : {NotANumber} \cup 0..(W - 1),
                                    end : {NotANumber, Absent} \cup 0..(W - 1)])]

\* No file is longer than a seek can reach (std::int64_t has half the values of
\* std::uint64_t), a read has a buffer, and a request that open() is aware of has
\* a Range header of this form, perhaps none.
ASSUME FilesAssumption ==
  /\ W \in Nat /\ SeekLimit \in 0..(W - 1)
  /\ Window \in Nat \ {0}
  /\ Sizes \subseteq 0..SeekLimit /\ Times \subseteq Nat
  /\ \A asked \in Conditions : asked.aware => asked.range \in RangeHeaders

\* Mutant: unsigned numbers have no end.
Unbounded(n) == n
Wrap(n) == n % W
Subrange(offset, length) == [offset |-> offset, length |-> length]

SuffixOf(n, total) == Subrange(Wrap(total - n), n)

SubrangeParses(s) == /\ s.start >= 0
                     /\ s.end = Absent \/ s.end >= s.start
SubrangeOf(s, total) ==
  IF s.end = Absent THEN Subrange(s.start, Wrap(total - s.start))
                    ELSE Subrange(s.start, Wrap(s.end - s.start + 1))

\* range::parse: the subranges, none for nullopt.
Parse(range, total) ==
  CASE range = [unit |-> Malformed] -> << >>
    [] "suffix" \in DOMAIN range ->
         IF range.suffix = NotANumber THEN << >> ELSE <<SuffixOf(range.suffix, total)>>
    [] "list" \in DOMAIN range ->
         IF \A k \in DOMAIN range.list : SubrangeParses(range.list[k])
           THEN [k \in DOMAIN range.list |-> SubrangeOf(range.list[k], total)]
           ELSE << >>

\* The sum of two unsigned numbers wraps.
Satisfiable(offset, length, size) == Wrap(offset + length) <= size
-----------------------------------------------------------------------------
(* Conditions.  entity_tag: the size and the second of the last change; a  *)
(* client sends the tag it was given, another one, both, "*" or something  *)
(* that is no list of tags (if_none_match::parse).  Strength plays no part *)
(* in weakly_equal_to and is left out.                                     *)
Tag(size, time) == <<size, Seconds(time)>>
KnownTag == Tag(known.size, known.time)

\* if_none_match: "*" matches, and a tag with the value of the file's.
TagsMatch(tag) == \/ asks.inm.kind = "any"
                  \/ asks.inm.kind = "tags" /\ "known" \in asks.inm.tags /\ tag = KnownTag

\* A date of the request, in whole seconds: that of the client's copy or later.
DateAsked == Seconds(known.time) + IF asks.ims = "later" THEN 1 ELSE 0

\* The time of the file is compared as it is, with its half seconds.
NotAfter(second) == lmd <= 2 * second

Answer(yes) == IF yes THEN "same" ELSE "changed"
HasTags == asks.inm.kind # None
HasDate == asks.ims # None

\* Mutant: a date is looked at before the tags.
NotModifiedByDateFirst(tag) ==
  CASE HasDate -> Answer(NotAfter(DateAsked))
    [] ~HasDate /\ HasTags -> Answer(TagsMatch(tag))
    [] OTHER -> "changed"

\* check_if_not_modified: "same", "changed" or nullopt, "unreadable".
NotModified(tag) ==
  CASE HasTags /\ asks.inm.kind = Malformed -> "unreadable"
    [] HasTags /\ asks.inm.kind # Malformed -> Answer(TagsMatch(tag))
    [] ~HasTags /\ HasDate /\ asks.ims = Malformed -> "unreadable"
    [] ~HasTags /\ HasDate /\ asks.ims # Malformed -> Answer(NotAfter(DateAsked))
    [] ~HasTags /\ ~HasDate -> "changed"
-----------------------------------------------------------------------------
(* static_file::open(ex, path, req).                                       *)
File == inodes[handle.inode]

\* The size of the open file, which is asked for again whenever it is needed.
AskSize == /\ handle' = [handle EXCEPT !.size = File.size]
           /\ seen' = seen \cup {File}

GiveUp == /\ step' = "failed" /\ Stop("error")
          /\ UNCHANGED <<handle, lmd, etag, state, stream, seen, whole, cut>>

\* open_file, or its error.
OpenFile ==
  /\ step = "open"
  /\ \/ path # 0
        /\ handle' = [inode |-> path, size |-> 0]
        /\ step' = "time"
        /\ UNCHANGED <<lmd, etag, state, stream, seen>>
        /\ UNCHANGED bodyVars
     \/ GiveUp
  /\ UNCHANGED <<inodes, path, known, asks>>

\* get_last_modified_time asks the path, not the handle.
LastModified ==
  /\ step = "time"
  /\ \/ path # 0
        /\ lmd' = inodes[path].time
        /\ seen' = seen \cup {inodes[path]}
        /\ step' = "validate"
        /\ UNCHANGED <<handle, etag, state, stream>>
        /\ UNCHANGED bodyVars
     \/ GiveUp
  /\ UNCHANGED <<inodes, path, known, asks>>

\* get_etag and check_if_not_modified; open(ex, path), which is not aware of the
\* request, has no conditions and serves the whole file.
Validate ==
  /\ step = "validate"
  /\ AskSize
  /\ etag' = Tag(File.size, lmd)
  /\ CASE ~asks.aware -> step' = "respond" /\ state' = "full_range_only"
       [] asks.aware /\ NotModified(etag') = "unreadable" ->
            step' = "respond" /\ state' = "bad_request"
       [] asks.aware /\ NotModified(etag') = "same" ->
            step' = "respond" /\ state' = "not_modified"
       [] asks.aware /\ NotModified(etag') = "changed" ->
            IF asks.range.unit = None
              THEN step' = "respond" /\ state' = "full_range"
              ELSE step' = "range" /\ UNCHANGED state
  /\ UNCHANGED <<inodes, path, known, asks, lmd, stream>>
  /\ UNCHANGED bodyVars

\* The Range header is read for the size of now, and the first subrange is compared
\* with the size of then.
ParseRange ==
  /\ step = "range"
  /\ AskSize
  /\ LET ranges == Parse(asks.range, File.size)
         usable == ranges # << >> /\ asks.range.unit = "bytes"
     IN \/ /\ usable
           /\ stream' = [stream EXCEPT !.offset = ranges[1].offset,
                                       !.remaining = ranges[1].length]
           /\ step' = "compare"
           /\ UNCHANGED state
        \/ /\ ~usable
           /\ state' = "range_not_satisfiable" /\ step' = "respond"
           /\ UNCHANGED stream
  /\ UNCHANGED <<inodes, path, known, asks, lmd, etag>>
  /\ UNCHANGED bodyVars

CheckRange ==
  /\ step = "compare"
  /\ AskSize
  /\ state' = IF Satisfiable(stream.offset, stream.remaining, File.size)
                THEN "subrange" ELSE "range_not_satisfiable"
  /\ step' = "respond"
  /\ UNCHANGED <<inodes, path, known, asks, lmd, etag, stream>>
  /\ UNCHANGED bodyVars

\* The positions of the file that are asked for.
Region(offset, length, size) ==
  LET last == IF offset + length < size THEN offset + length ELSE size
  IN IF last <= offset THEN << >> ELSE [k \in 1..(last - offset) |-> offset + k]

Streams == {"full_range_only", "full_range", "subrange"}

\* to_response: the stream takes the file, and its size if there is no range.
ToResponse ==
  /\ step = "respond"
  /\ stream' = CASE state = "subrange" -> stream
                 [] state \in Streams \ {"subrange"} ->
                      [stream EXCEPT !.remaining = File.size]
                 [] OTHER -> [stream EXCEPT !.remaining = 0]
  /\ whole' = Region(stream'.offset, stream'.remaining, File.size)
  /\ seen' = IF state \in {"subrange", "not_modified"} THEN seen ELSE seen \cup {File}
  /\ step' = "read"
  /\ UNCHANGED <<inodes, path, known, asks, handle, lmd, etag, state, cut, got,
                 hollow, verdict>>

\* The status of the response.
Status == CASE state \in {"full_range_only", "full_range"} -> 200
            [] state = "subrange" -> 206
            [] state = "not_modified" -> 304
            [] state = "bad_request" -> 400
            [] state = "range_not_satisfiable" -> 416
-----------------------------------------------------------------------------
(* async_readable_file_stream::async_read_some.                            *)
\* Mutant: the offset is not forgotten, so that every read seeks.
SoughtAgain == [stream EXCEPT !.at = IF stream.offset > 0 THEN stream.offset ELSE @]

\* The seek that precedes the first read.
Sought ==
  IF stream.offset = 0 THEN stream
  ELSE [stream EXCEPT !.at = IF stream.offset >= SeekLimit THEN SeekLimit ELSE stream.offset,
                      !.offset = 0]

\* Mutant: what was read is not taken off.
TakenNothing(n) == [Sought EXCEPT !.at = @ + n]
Taken(n) == [Sought EXCEPT !.at = @ + n, !.remaining = @ - n]

\* Mutant: the end of the file is a piece without bytes.
EndOfFileAsPiece == Deliver(<< >>)
EndOfFile == Stop("eof")

ReadFile ==
  /\ step = "read" /\ Reading
  /\ LET limit == IF stream.remaining < Window THEN stream.remaining ELSE Window
         there == File.size - Sought.at
     IN \/ /\ stream.remaining = 0
           /\ Stop("eof")
           /\ UNCHANGED stream
        \/ /\ stream.remaining > 0 /\ there <= 0
           /\ EndOfFile
           /\ stream' = Sought
        \/ /\ stream.remaining > 0
           /\ \E n \in 1..(IF there < limit THEN there ELSE limit) :
                /\ Deliver([k \in 1..n |-> Sought.at + k])
                /\ stream' = Taken(n)
  /\ UNCHANGED <<inodes, path, known, asks, handle, lmd, etag, state, seen, step,
                 whole, cut>>

\* The seek or the read fails.
ReadFails ==
  /\ step = "read" /\ Reading /\ stream.remaining > 0
  /\ Stop("error")
  /\ UNCHANGED <<fileVars, whole, cut>>
-----------------------------------------------------------------------------
(* Others change the file.                                                 *)
Changes == Max({inodes[k].change : k \in DOMAIN inodes})
Changed(size, time) == [size |-> size, time |-> time, change |-> Changes + 1]

Replace ==
  /\ Changes < MaxChanges
  /\ \E size \in Sizes, time \in Times : inodes' = Append(inodes, Changed(size, time))
  /\ path' = Len(inodes) + 1
  /\ UNCHANGED <<known, asks, handle, lmd, etag, state, stream, seen, step>>
  /\ UNCHANGED bodyVars

\* In place: what an open stream reads is cut.
Rewrite ==
  /\ Changes < MaxChanges /\ path # 0
  /\ \E size \in Sizes, time \in Times : inodes' = [inodes EXCEPT ![path] = Changed(size, time)]
  /\ cut' = (cut \/ (step = "read" /\ path = handle.inode))
  /\ UNCHANGED <<path, known, asks, handle, lmd, etag, state, stream, seen, step,
                 whole, got, hollow, verdict>>

RemoveFile ==
  /\ path # 0
  /\ path' = 0
  /\ UNCHANGED <<inodes, known, asks, handle, lmd, etag, state, stream, seen, step>>
  /\ UNCHANGED bodyVars
-----------------------------------------------------------------------------
NoFile == [inode |-> 1, size |-> 0]

FileInit ==
  /\ \E size \in Sizes, time \in Times :
       inodes = <<[size |-> size, time |-> time, change |-> 0]>>
  /\ path = 1
  /\ known = inodes[1]
  /\ asks \in Conditions
  /\ handle = NoFile
  /\ lmd = 0 /\ etag = Tag(0, 0) /\ state = None
  /\ stream = [offset |-> 0, remaining |-> 0, at |-> 0]
  /\ seen = {}
  /\ step = "open"
  /\ whole = << >>
  /\ BodyInit
=============================================================================
