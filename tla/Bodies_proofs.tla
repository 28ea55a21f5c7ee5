--------------------------- MODULE Bodies_proofs ----------------------------
(***************************************************************************)
(* Proofs about Bodies, for every file, every change of it, every request  *)
(* and every coded stream.                                                 *)
(***************************************************************************)
EXTENDS Bodies, FoldLemmas, FiniteSetTheorems

Files == [size : Sizes, time : Times, change : Nat]
Steps == {None, "open", "time", "validate", "range", "compare", "respond", "read",
          "failed"}
States == {None} \cup Streams \cup {"bad_request", "not_modified", "range_not_satisfiable"}

\* The symbols the next layer of a codec has or had.
Sent == {coding.wire[k] : k \in DOMAIN coding.wire}

BodyTypes ==
  /\ whole \in Seq(Nat) /\ got \in Seq(Nat)
  /\ cut \in BOOLEAN /\ hollow \in BOOLEAN
  /\ verdict \in {"open", "eof", "error"}

FileTypes ==
  /\ inodes \in Seq(Files)
  /\ path \in 0..Len(inodes)
  /\ lmd \in Nat
  /\ handle \in [inode : Nat, size : Nat]
  /\ stream \in [offset : 0..(W - 1), remaining : 0..(W - 1), at : Nat]
  /\ step \in Steps /\ state \in States
  /\ step # None => handle.inode \in 1..Len(inodes) /\ asks \in Conditions

CodecTypes ==
  /\ rest \in Seq(Sent) /\ readable \in Seq(Sent)
  /\ codec \in [pend : Seq(Nat), ended : BOOLEAN]
  /\ filled \in Seq(Nat)

\* A body has one source.
OneSource == IF step = None THEN coding \in Codings ELSE coding = NoCoding

\* Nothing of a file is read before its response is made, and nothing of one
\* whose response has no file.
BeforeReading ==
  /\ step \notin {None, "read"} =>
       /\ got = << >>
       /\ ~cut
       /\ stream.at = 0
  /\ step \notin {None, "read", "failed"} => verdict = "open"
  /\ step \in {"open", "time", "validate", "range", "compare"} => state = None
  /\ step \in {"open", "time", "validate"} => stream.offset = 0
  /\ step = "respond" /\ state \in Streams \ {"subrange"} => stream.offset = 0
  /\ step = "range" => asks.aware
  /\ step = "failed" => state = None
  /\ step = "read" /\ state \notin Streams => got = << >> /\ stream.remaining = 0

\* What is still to be read of a file that was not cut is what the stream will
\* find in it from where it stands.
FileIsAhead ==
  step = "read" /\ ~cut =>
    whole = got \o Region(Sought.at, stream.remaining, File.size)

\* What was found out about the file so far is so, if it was found in one state.
Telling == {"range", "compare", "respond", "read"}
SeenIsTold ==
  /\ step \in {"open", "time"} => seen = {}
  /\ step \in {"validate"} \cup Telling => seen # {}
  /\ step = "validate" => \A file \in seen : seen = {file} => lmd = file.time
  /\ step \in Telling => \A file \in seen : seen = {file} => TellsOf(file)

FileInv == /\ BodyTypes
           /\ FileTypes
           /\ OneSource
           /\ BeforeReading
           /\ SeenIsTold
           /\ FileFillsItsChunks
           /\ FileIsAhead

\* What a decoder will still make of its input.
Ahead(c, in) == IF c.ended THEN << >> ELSE Plain(Live(in))
Coming == Ahead(codec, readable \o rest)

\* A decoder holds the rest of what its source stands for, and nothing of it
\* between two pieces.
DecoderIsAhead ==
  coding.kind \in Decoders =>
    /\ ~cut
    /\ whole = got \o (filled \o (codec.pend \o Coming))
    /\ readable = << >> /\ filled = << >> => codec.pend = << >>
    /\ readable = << >> /\ filled # << >> => Len(filled) >= Room

\* So does an encoder, unless it had to drop something.
EncoderIsAhead ==
  coding.kind \in Encoders =>
    /\ codec.ended => rest = << >>
    /\ ~cut => IF codec.ended THEN whole = got
                              ELSE whole = got \o (codec.pend \o (Plain(rest) \o <<0>>))

CodecInv == /\ CodecTypes
            /\ DecodingFailsForCause
            /\ DecoderIsAhead
            /\ EncoderIsAhead

BodiesInv == FileInv /\ CodecInv
-----------------------------------------------------------------------------
(* Sequences of bytes.                                                     *)

\* Two sequences in a row are a sequence.
LEMMA JoinType ==
  ASSUME NEW S, NEW a \in Seq(S), NEW b \in Seq(S)
  PROVE  a \o b \in Seq(S)
BY ConcatProperties

\* Bytes in a row, whichever are joined first.
LEMMA BytesRegroup ==
  ASSUME NEW a \in Seq(Nat), NEW b \in Seq(Nat), NEW c \in Seq(Nat)
  PROVE  a \o (b \o c) = (a \o b) \o c
<1>1. (a \o b) \o c = a \o (b \o c)
  BY Regroup, SMTT(40)
<1> QED BY <1>1

\* Bytes before or behind others are bytes, and before or behind nothing they are
\* what they were.
LEMMA BytesJoin ==
  ASSUME NEW a \in Seq(Nat), NEW b \in Seq(Nat)
  PROVE  a \o b \in Seq(Nat) /\ a \o << >> = a /\ << >> \o a = a
BY JoinType

\* Of numbers there is a largest one.
LEMMA MaxOfMany ==
  ASSUME NEW n \in Nat \ {0}, NEW f, \A k \in 1..n : f[k] \in Nat
  PROVE  Max({f[k] : k \in 1..n}) \in Nat
<1> DEFINE P == {m \in Nat : m = 0 \/ \E j \in 1..m : \A k \in 1..m : f[j] >= f[k]}
<1>1. 0 \in P
  OBVIOUS
<1>2. ASSUME NEW m \in 0..(n - 1), m \in P PROVE m + 1 \in P
  <2> DEFINE i == m + 1
  <2>1. i \in 1..n /\ i \in Nat /\ \A k \in 1..i : k \in 1..m \/ k = i
    OBVIOUS
  <2>2. \A k \in 1..m : k \in 1..i /\ k \in 1..n
    OBVIOUS
  <2>3. m = 0 \/ \E j \in 1..m : \A k \in 1..m : f[j] >= f[k]
    BY <1>2
  <2>4. i \in 1..i
    BY <2>1
  <2> HIDE DEF i, P
  <2>5. \E j \in 1..i : \A k \in 1..i : f[j] >= f[k]
    <3>1. CASE m = 0
      <4>1. \A k \in 1..i : k = i
        BY <2>1, <3>1
      <4>2. f[i] >= f[i]
        BY <2>1
      <4> QED BY <2>4, <4>1, <4>2
    <3>2. CASE m # 0
      <4>1. PICK j \in 1..m : \A k \in 1..m : f[j] >= f[k]
        BY <2>3, <3>2
      <4>2. f[i] \in Nat /\ f[j] \in Nat /\ \A k \in 1..m : f[k] \in Nat
        BY <2>1, <2>2
      <4>3. CASE f[j] >= f[i]
        BY <2>1, <2>2, <4>1, <4>3
      <4>4. CASE ~ f[j] >= f[i]
        <5>1. \A k \in 1..i : f[i] >= f[k]
          BY <2>1, <4>1, <4>2, <4>4
        <5> QED BY <2>4, <5>1
      <4> QED BY <4>3, <4>4
    <3> QED BY <3>1, <3>2
  <2> USE DEF P
  <2>6. i \in P
    BY <2>1, <2>5
  <2> QED BY <2>6 DEF i
<1>3. n \in P
  <2> HIDE DEF P
  <2>1. \A k \in 0..n : k \in P
    BY <1>1, <1>2, SetInduction
  <2> QED BY <2>1
<1> DEFINE T == {f[k] : k \in 1..n}
<1>4. \E x \in T : \A y \in T : x >= y
  BY <1>3
<1>5. Max(T) \in T
  <2> HIDE DEF T
  <2> QED BY <1>4 DEF Max
<1> QED BY <1>5

\* A region of a file is a sequence of positions.
LEMMA RegionType ==
  ASSUME NEW offset \in Nat, NEW length \in Nat, NEW size \in Nat
  PROVE  Region(offset, length, size) \in Seq(Nat)
BY DEF Region

\* All of a file is as long as the file.
LEMMA RegionLength ==
  ASSUME NEW size \in Nat
  PROVE  Len(Region(0, size, size)) = size
<1>1. CASE size = 0
  BY <1>1 DEF Region
<1>2. CASE size # 0
  <2>1. Region(0, size, size) = [k \in 1..size |-> k]
    BY <1>2 DEF Region
  <2> QED BY <2>1
<1> QED BY <1>1, <1>2

\* Nothing is at the end of a file, and nothing is what is not asked for.
LEMMA RegionEmpty ==
  ASSUME NEW offset \in Nat, NEW length \in Nat, NEW size \in Nat,
         length = 0 \/ size <= offset
  PROVE  Region(offset, length, size) = << >>
BY DEF Region

\* A region is its first bytes and the region behind them.
LEMMA RegionSplit ==
  ASSUME NEW offset \in Nat, NEW length \in Nat, NEW size \in Nat,
         NEW n \in 1..length, offset + n <= size
  PROVE  Region(offset, length, size)
           = [k \in 1..n |-> offset + k] \o Region(offset + n, length - n, size)
<1> DEFINE last == IF offset + length < size THEN offset + length ELSE size
           a == [k \in 1..(last - offset) |-> offset + k]
           b == [k \in 1..n |-> offset + k]
           c == [k \in 1..(last - (offset + n)) |-> offset + n + k]
<1>1. last \in Nat /\ last >= offset + n /\ n \in Nat /\ n > 0
  OBVIOUS
<1>2. Region(offset, length, size) = a
  BY <1>1 DEF Region
<1>3. Region(offset + n, length - n, size) = c
  <2>1. offset + n + (length - n) = offset + length
    BY <1>1
  <2>2. last <= offset + n => last = offset + n
    BY <1>1
  <2>3. CASE last = offset + n
    <3>1. c = << >>
      BY <1>1, <2>3
    <3> QED BY <2>1, <2>3, <3>1 DEF Region
  <2>4. CASE last # offset + n
    BY <1>1, <2>1, <2>4 DEF Region
  <2> QED BY <2>3, <2>4
<1>4. a = b \o c
  <2>1. a \in Seq(Nat) /\ b \in Seq(Nat) /\ c \in Seq(Nat)
    BY <1>1
  <2>2. Len(a) = last - offset /\ Len(b) = n /\ Len(c) = last - (offset + n)
    BY <1>1
  <2>3. /\ \A k \in 1..(last - offset) : a[k] = offset + k
        /\ \A k \in 1..n : b[k] = offset + k
        /\ \A k \in 1..(last - (offset + n)) : c[k] = offset + n + k
    BY <1>1
  <2> DEFINE m == last - offset
  <2>4. m \in Nat /\ m = Len(b) + Len(c)
    BY <1>1, <2>2
  <2> HIDE DEF a, b, c, last
  <2>5. b \o c \in Seq(Nat) /\ Len(b \o c) = Len(a)
    BY <2>1, <2>2, <2>4, ConcatProperties
  <2>6. ASSUME NEW k \in 1..Len(a) PROVE (b \o c)[k] = a[k]
    <3>1. k \in 1..(Len(b) + Len(c)) /\ a[k] = offset + k
      BY <1>1, <2>2, <2>3, <2>4
    <3>2. (b \o c)[k] = IF k <= Len(b) THEN b[k] ELSE c[k - Len(b)]
      BY <2>1, <3>1, ConcatProperties
    <3>3. CASE k <= n
      BY <1>1, <2>2, <2>3, <3>1, <3>2, <3>3
    <3>4. CASE ~ k <= n
      <4>1. k - n \in 1..(last - (offset + n)) /\ offset + n + (k - n) = offset + k
        BY <1>1, <2>2, <3>1, <3>4
      <4> QED BY <2>2, <2>3, <3>1, <3>2, <3>4, <4>1
    <3> QED BY <1>1, <3>3, <3>4
  <2> QED BY <2>1, <2>5, <2>6, SeqEqual
<1> QED BY <1>2, <1>3, <1>4
-----------------------------------------------------------------------------
(* Files.                                                                  *)

\* A file has a size that a seek can reach.
LEMMA FileNumbers ==
  ASSUME NEW file \in Files
  PROVE  /\ file.size \in Nat /\ file.size <= SeekLimit /\ file.size \in 0..(W - 1)
         /\ file.time \in Nat /\ file.change \in Nat
<1>1. file.size \in 0..SeekLimit /\ file.time \in Nat /\ file.change \in Nat
  BY FilesAssumption DEF Files
<1> QED BY <1>1, FilesAssumption

\* The open file is one of the files that were at the path.
LEMMA OpenFileIsAFile ==
  ASSUME FileTypes, step # None
  PROVE  File \in Files
BY DEF FileTypes, File

\* A range that fits has an offset and a length that are unsigned numbers.
LEMMA RangeType ==
  ASSUME NEW range \in RangeHeaders, NEW total \in Nat,
         range.unit = "bytes", Parse(range, total) # << >>
  PROVE  /\ Parse(range, total)[1].offset \in 0..(W - 1)
         /\ Parse(range, total)[1].length \in 0..(W - 1)
<1>0. W \in Nat \ {0}
  BY FilesAssumption
<1>1. \A x \in Int : Wrap(x) \in 0..(W - 1)
  BY <1>0 DEF Wrap
<1>2. range # [unit |-> Malformed]
  BY DEF Malformed
<1>3. CASE range \in [unit : {None, Malformed}]
  BY <1>3 DEF None, Malformed
<1>4. CASE range \in [unit : STRING, suffix : {NotANumber} \cup 0..(W - 1)]
  <2>1. "suffix" \in DOMAIN range
    BY <1>4
  <2>2. Parse(range, total) = IF range.suffix = NotANumber THEN << >>
                              ELSE <<SuffixOf(range.suffix, total)>>
    BY <1>2, <1>4, <2>1 DEF Parse
  <2>3. range.suffix \in 0..(W - 1) /\ Parse(range, total) = <<SuffixOf(range.suffix, total)>>
    BY <1>4, <2>2
  <2> QED BY <1>0, <1>1, <2>3 DEF SuffixOf, Subrange
<1>5. CASE range \in [unit : STRING,
                      list : Seq([start : {NotANumber} \cup 0..(W - 1),
                                  end : {NotANumber, Absent} \cup 0..(W - 1)])]
  <2>1. "list" \in DOMAIN range /\ "suffix" \notin DOMAIN range
    BY <1>5
  <2>2. Parse(range, total) = IF \A k \in DOMAIN range.list : SubrangeParses(range.list[k])
                                THEN [k \in DOMAIN range.list |-> SubrangeOf(range.list[k], total)]
                                ELSE << >>
    BY <1>2, <2>1 DEF Parse
  <2> DEFINE list == range.list
  <2>3. list \in Seq([start : {NotANumber} \cup 0..(W - 1),
                      end : {NotANumber, Absent} \cup 0..(W - 1)])
    BY <1>5
  <2>4. /\ \A k \in DOMAIN list : SubrangeParses(list[k])
        /\ Parse(range, total) = [k \in DOMAIN list |-> SubrangeOf(list[k], total)]
    BY <2>2
  <2> HIDE DEF list
  <2>5. 1 \in DOMAIN list
    BY <2>3, <2>4
  <2> DEFINE s == list[1]
  <2>6. SubrangeParses(s) /\ Parse(range, total)[1] = SubrangeOf(s, total)
    BY <2>4, <2>5
  <2>7. s \in [start : {NotANumber} \cup 0..(W - 1), end : {NotANumber, Absent} \cup 0..(W - 1)]
    <3> DEFINE T == [start : {NotANumber} \cup 0..(W - 1),
                     end : {NotANumber, Absent} \cup 0..(W - 1)]
    <3>1. list \in Seq(T)
      BY <2>3
    <3> HIDE DEF T
    <3>2. s \in T
      BY <3>1, <2>5
    <3> QED BY <3>2 DEF T
  <2>8. s.start \in {NotANumber} \cup 0..(W - 1) /\ s.end \in {NotANumber, Absent} \cup 0..(W - 1)
    BY <2>7
  <2> HIDE DEF s
  <2>9. s.start \in 0..(W - 1)
    BY <2>6, <2>8 DEF SubrangeParses, NotANumber
  <2>10. CASE s.end = Absent
    <3>1. SubrangeOf(s, total) = Subrange(s.start, Wrap(total - s.start))
      BY <2>10 DEF SubrangeOf
    <3>2. total - s.start \in Int
      BY <1>0, <2>9
    <3> QED BY <1>1, <2>6, <2>9, <3>1, <3>2, SMTT(40) DEF Subrange
  <2>11. CASE s.end # Absent
    <3>1. SubrangeOf(s, total) = Subrange(s.start, Wrap(s.end - s.start + 1))
      BY <2>11 DEF SubrangeOf
    <3>2. s.end - s.start + 1 \in Int
      BY <1>0, <2>8, <2>9 DEF NotANumber, Absent
    <3> QED BY <1>1, <2>6, <2>9, <3>1, <3>2 DEF Subrange
  <2> QED BY <2>10, <2>11
<1> QED BY <1>3, <1>4, <1>5 DEF RangeHeaders

\* If there is one file with the next one, there was only that one before.
LEMMA OneWithTheNext ==
  ASSUME NEW old, old # {}, NEW next, NEW file, old \cup {next} = {file}
  PROVE  old = {file} /\ next = file
OBVIOUS

\* What a response says of a file it says as long as its conditions and its tag are
\* what they were.
LEMMA StillTells ==
  ASSUME NEW file, TellsOf(file), UNCHANGED <<asks, known, lmd, etag>>,
         state' = "not_modified" <=> state = "not_modified",
         step' = "read" /\ state' \in Streams \ {"subrange"} => Len(whole') = file.size
  PROVE  TellsOf(file)'
BY DEF TellsOf, KnownTag, Tag, Seconds

\* What was found out stays so while nobody looks.
LEMMA TellingStays ==
  ASSUME SeenIsTold, UNCHANGED <<asks, known, lmd, etag, state, step, seen, whole>>
  PROVE  SeenIsTold'
<1>1. step \in Telling => \A file \in seen : seen = {file} => TellsOf(file)'
  <2> SUFFICES ASSUME step \in Telling, NEW file \in seen, seen = {file}
               PROVE  TellsOf(file)'
    OBVIOUS
  <2>1. TellsOf(file)
    BY DEF SeenIsTold
  <2>2. step' = "read" /\ state' \in Streams \ {"subrange"} => Len(whole') = file.size
    BY <2>1 DEF TellsOf
  <2> QED BY <2>1, <2>2, StillTells
<1> QED BY <1>1 DEF SeenIsTold

\* Nothing changes of a file and of what is read of it but what an early step of
\* open() may decide.
LEMMA GivesUp ==
  ASSUME FileInv, step \in {"open", "time"}, GiveUp,
         UNCHANGED <<inodes, path, known, asks>>, UNCHANGED codecVars
  PROVE  FileInv'
<1>1. /\ step' = "failed" /\ verdict' = "error" /\ got' = got /\ hollow' = hollow
      /\ UNCHANGED <<handle, lmd, etag, state, stream, seen, whole, cut, inodes, path,
                     known, asks, coding>>
  BY DEF GiveUp, Stop, codecVars
<1>2. BodyTypes' /\ OneSource' /\ FileIsAhead'
  BY <1>1 DEF FileInv, BodyTypes, OneSource, FileIsAhead, None
<1>3. FileTypes'
  BY <1>1 DEF FileInv, FileTypes, Steps, None
<1>4. BeforeReading'
  BY <1>1 DEF FileInv, BeforeReading, None
<1>5. SeenIsTold' /\ FileFillsItsChunks'
  BY <1>1 DEF FileInv, SeenIsTold, Telling, FileFillsItsChunks, None
<1> QED BY <1>2, <1>3, <1>4, <1>5 DEF FileInv

LEMMA OpenFileInv ==
  ASSUME FileInv, OpenFile, UNCHANGED codecVars
  PROVE  FileInv'
<1>1. CASE path # 0 /\ handle' = [inode |-> path, size |-> 0] /\ step' = "time"
           /\ UNCHANGED <<lmd, etag, state, stream, seen>> /\ UNCHANGED bodyVars
  <2>1. UNCHANGED <<inodes, path, known, asks, coding>> /\ step = "open"
    BY DEF OpenFile, codecVars
  <2>2. BodyTypes' /\ OneSource' /\ FileIsAhead' /\ FileFillsItsChunks'
    BY <1>1, <2>1 DEF FileInv, BodyTypes, OneSource, FileIsAhead, FileFillsItsChunks, None, bodyVars
  <2>3. FileTypes'
    BY <1>1, <2>1 DEF FileInv, FileTypes, Steps, None
  <2>4. BeforeReading'
    BY <1>1, <2>1 DEF FileInv, BeforeReading, None, bodyVars
  <2>5. SeenIsTold'
    BY <1>1, <2>1 DEF FileInv, SeenIsTold, Telling
  <2> QED BY <2>2, <2>3, <2>4, <2>5 DEF FileInv
<1>2. CASE GiveUp
  BY <1>2, GivesUp DEF OpenFile
<1> QED BY <1>1, <1>2 DEF OpenFile

LEMMA LastModifiedInv ==
  ASSUME FileInv, LastModified, UNCHANGED codecVars
  PROVE  FileInv'
<1>1. CASE /\ path # 0 /\ lmd' = inodes[path].time /\ step' = "validate"
           /\ seen' = seen \cup {inodes[path]}
           /\ UNCHANGED <<handle, etag, state, stream>> /\ UNCHANGED bodyVars
  <2>1. UNCHANGED <<inodes, path, known, asks, coding>> /\ step = "time"
    BY DEF LastModified, codecVars
  <2>2. BodyTypes' /\ OneSource' /\ FileIsAhead' /\ FileFillsItsChunks'
    BY <1>1, <2>1 DEF FileInv, BodyTypes, OneSource, FileIsAhead, FileFillsItsChunks, None, bodyVars
  <2>3. inodes[path].time \in Nat
    <3>1. inodes[path] \in Files
      BY <1>1 DEF FileInv, FileTypes
    <3> QED BY <3>1, FileNumbers
  <2>4. FileTypes'
    BY <1>1, <2>1, <2>3 DEF FileInv, FileTypes, Steps, None
  <2>5. BeforeReading'
    BY <1>1, <2>1 DEF FileInv, BeforeReading, None, bodyVars
  <2>6. SeenIsTold'
    BY <1>1, <2>1 DEF FileInv, SeenIsTold, Telling
  <2> QED BY <2>2, <2>4, <2>5, <2>6 DEF FileInv
<1>2. CASE GiveUp
  BY <1>2, GivesUp DEF LastModified
<1> QED BY <1>1, <1>2 DEF LastModified

\* The conditions are unreadable, or the client's copy is good or is not.
LEMMA ConditionsAnswered ==
  ASSUME NEW tag
  PROVE  NotModified(tag) \in {"unreadable", "same", "changed"}
BY DEF NotModified, Answer

\* The tag decides when there is one.
LEMMA SameByTag ==
  ASSUME NEW tag, asks.inm.kind = "tags"
  PROVE  NotModified(tag) = "same" <=> "known" \in asks.inm.tags /\ KnownTag = tag
<1>1. HasTags /\ asks.inm.kind # Malformed
  BY DEF HasTags, None, Malformed
<1>2. NotModified(tag) = Answer(TagsMatch(tag))
  BY <1>1 DEF NotModified
<1>3. NotModified(tag) = "same" <=> TagsMatch(tag)
  BY <1>2 DEF Answer
<1> QED BY <1>3 DEF TagsMatch

LEMMA ValidateInv ==
  ASSUME FileInv, Validate, UNCHANGED codecVars
  PROVE  FileInv'
<1>1. /\ step = "validate" /\ step' \in {"respond", "range"}
      /\ state' \in States
      /\ handle' = [handle EXCEPT !.size = File.size] /\ etag' = Tag(File.size, lmd)
      /\ seen' = seen \cup {File}
      /\ UNCHANGED <<inodes, path, known, asks, lmd, stream, coding>>
      /\ UNCHANGED bodyVars
      /\ step' = "range" => state' = state /\ asks.aware
  <2>1. NotModified(etag') \in {"unreadable", "same", "changed"}
    BY ConditionsAnswered
  <2> QED BY <2>1 DEF Validate, AskSize, States, Streams, codecVars, FileInv, FileTypes
<1>2. state = None
  BY <1>1 DEF FileInv, BeforeReading
<1>3. File \in Files
  BY <1>1, OpenFileIsAFile DEF FileInv, None
<1>4. handle'.inode = handle.inode /\ handle'.size = File.size /\ File.size \in Nat
      /\ handle' \in [inode : Nat, size : Nat]
  BY <1>1, <1>3, FileNumbers DEF FileInv, FileTypes
<1>5. BodyTypes' /\ OneSource' /\ FileIsAhead' /\ FileFillsItsChunks'
  BY <1>1 DEF FileInv, BodyTypes, OneSource, FileIsAhead, FileFillsItsChunks, None, bodyVars
<1>6. FileTypes'
  BY <1>1, <1>4 DEF FileInv, FileTypes, Steps, None
<1>7. BeforeReading'
  BY <1>1, <1>2 DEF FileInv, BeforeReading, None, bodyVars
<1>8. asks.aware => (state' = "not_modified" <=> NotModified(etag') = "same")
  <2>1. NotModified(etag') \in {"unreadable", "same", "changed"}
    BY ConditionsAnswered
  <2> QED BY <1>2, <2>1 DEF Validate, None
<1>9. SeenIsTold'
  <2> SUFFICES ASSUME NEW file \in seen', seen' = {file}
               PROVE  TellsOf(file)'
    BY <1>1 DEF SeenIsTold, Telling
  <2>1. seen # {} /\ \A old \in seen : seen = {old} => lmd = old.time
    BY <1>1 DEF FileInv, SeenIsTold
  <2>2. seen = {file} /\ File = file
    BY <1>1, <2>1, OneWithTheNext
  <2>3. etag' = Tag(file.size, file.time) /\ lmd' = file.time
    BY <1>1, <2>1, <2>2
  <2>4. asks.aware /\ asks.inm.kind = "tags" =>
          (state' = "not_modified" <=> "known" \in asks.inm.tags /\ KnownTag = etag')
    BY <1>8, SameByTag
  <2>5. Tag(file.size, file.time)' = Tag(file.size, file.time) /\ KnownTag' = KnownTag
    BY <1>1 DEF KnownTag, Tag, Seconds
  <2> QED BY <1>1, <2>3, <2>4, <2>5 DEF TellsOf
<1> QED BY <1>5, <1>6, <1>7, <1>9 DEF FileInv

\* The size is asked for again: what was found out is so if the file was the same.
LEMMA LookedAgain ==
  ASSUME SeenIsTold, step \in {"range", "compare"}, step' \in {"compare", "respond"},
         seen' = seen \cup {File}, UNCHANGED <<asks, known, lmd, etag>>,
         state # "not_modified", state' # "not_modified"
  PROVE  SeenIsTold'
<1> SUFFICES ASSUME NEW file \in seen', seen' = {file}
             PROVE  TellsOf(file)'
  BY DEF SeenIsTold, Telling
<1>1. seen # {} /\ \A old \in seen : seen = {old} => TellsOf(old)
  BY DEF SeenIsTold, Telling
<1>2. seen = {file}
  BY <1>1, OneWithTheNext
<1>3. TellsOf(file)
  BY <1>1, <1>2
<1> QED BY <1>3, StillTells

LEMMA ParseRangeInv ==
  ASSUME FileInv, ParseRange, UNCHANGED codecVars
  PROVE  FileInv'
<1> DEFINE ranges == Parse(asks.range, File.size)
           usable == ranges # << >> /\ asks.range.unit = "bytes"
<1>1. /\ step = "range"
      /\ handle' = [handle EXCEPT !.size = File.size] /\ seen' = seen \cup {File}
      /\ UNCHANGED <<inodes, path, known, asks, lmd, etag, coding>>
      /\ UNCHANGED bodyVars
  BY DEF ParseRange, AskSize, codecVars
<1>2. IF usable THEN /\ state' = state /\ step' = "compare"
                     /\ stream' = [stream EXCEPT !.offset = ranges[1].offset,
                                                 !.remaining = ranges[1].length]
                ELSE /\ state' = "range_not_satisfiable" /\ step' = "respond"
                     /\ UNCHANGED stream
  BY DEF ParseRange
<1>3. File \in Files
  BY <1>1, OpenFileIsAFile DEF FileInv, None
<1>4. handle'.inode = handle.inode /\ File.size \in Nat
      /\ handle' \in [inode : Nat, size : Nat]
  BY <1>1, <1>3, FileNumbers DEF FileInv, FileTypes
<1>5. stream' \in [offset : 0..(W - 1), remaining : 0..(W - 1), at : Nat] /\ stream'.at = stream.at
  <2>1. CASE usable
    <3>1. ranges # << >> /\ asks.range.unit = "bytes"
      BY <2>1
    <3>2. asks.range \in RangeHeaders
      <4>1. asks \in Conditions /\ asks.aware
        BY <1>1 DEF FileInv, FileTypes, BeforeReading, None
      <4> QED BY <4>1, FilesAssumption
    <3>3. ranges[1].offset \in 0..(W - 1) /\ ranges[1].length \in 0..(W - 1)
      BY <1>4, <3>1, <3>2, RangeType
    <3> HIDE DEF ranges
    <3> QED BY <1>2, <2>1, <3>3 DEF FileInv, FileTypes
  <2>2. CASE ~usable
    BY <1>2, <2>2 DEF FileInv, FileTypes
  <2> QED BY <2>1, <2>2
<1>6. /\ state = None /\ asks.aware
      /\ \/ state' = state /\ step' = "compare"
         \/ state' = "range_not_satisfiable" /\ step' = "respond"
  <2>1. state = None /\ asks.aware
    BY <1>1 DEF FileInv, BeforeReading
  <2> HIDE DEF usable, ranges
  <2>2. \/ state' = state /\ step' = "compare"
        \/ state' = "range_not_satisfiable" /\ step' = "respond"
    BY <1>2
  <2> QED BY <2>1, <2>2
<1> HIDE DEF usable, ranges
<1>7. BodyTypes' /\ OneSource' /\ FileIsAhead' /\ FileFillsItsChunks'
  BY <1>1, <1>6 DEF FileInv, BodyTypes, OneSource, FileIsAhead, FileFillsItsChunks, None, bodyVars
<1>8. FileTypes'
  BY <1>1, <1>4, <1>5, <1>6 DEF FileInv, FileTypes, Steps, States, Streams, None
<1>9. BeforeReading'
  BY <1>1, <1>5, <1>6 DEF FileInv, BeforeReading, Streams, None, bodyVars
<1>10. SeenIsTold'
  BY <1>1, <1>6, LookedAgain DEF FileInv, None
<1> QED BY <1>7, <1>8, <1>9, <1>10 DEF FileInv

LEMMA CheckRangeInv ==
  ASSUME FileInv, CheckRange, UNCHANGED codecVars
  PROVE  FileInv'
<1>1. /\ step = "compare" /\ step' = "respond"
      /\ handle' = [handle EXCEPT !.size = File.size] /\ seen' = seen \cup {File}
      /\ state' \in {"subrange", "range_not_satisfiable"}
      /\ UNCHANGED <<inodes, path, known, asks, lmd, etag, stream, coding>>
      /\ UNCHANGED bodyVars
  BY DEF CheckRange, AskSize, codecVars
<1>2. File \in Files
  BY <1>1, OpenFileIsAFile DEF FileInv, None
<1>3. handle'.inode = handle.inode /\ handle' \in [inode : Nat, size : Nat]
  BY <1>1, <1>2, FileNumbers DEF FileInv, FileTypes
<1>4. BodyTypes' /\ OneSource' /\ FileIsAhead' /\ FileFillsItsChunks'
  BY <1>1 DEF FileInv, BodyTypes, OneSource, FileIsAhead, FileFillsItsChunks, None, bodyVars
<1>5. FileTypes'
  BY <1>1, <1>3 DEF FileInv, FileTypes, Steps, States, Streams, None
<1>6. BeforeReading'
  BY <1>1 DEF FileInv, BeforeReading, Streams, None, bodyVars
<1>7. SeenIsTold'
  <2>1. state = None
    BY <1>1 DEF FileInv, BeforeReading
  <2> QED BY <1>1, <2>1, LookedAgain DEF FileInv, None
<1> QED BY <1>4, <1>5, <1>6, <1>7 DEF FileInv

\* A seek is to where the stream is to begin, or to the end of every file.
LEMMA SoughtType ==
  ASSUME FileTypes
  PROVE  /\ Sought \in [offset : 0..(W - 1), remaining : 0..(W - 1), at : Nat]
         /\ Sought.offset = 0 /\ Sought.remaining = stream.remaining
         /\ stream.offset = 0 => Sought = stream
         /\ stream.offset # 0 /\ stream.offset < SeekLimit => Sought.at = stream.offset
         /\ stream.offset # 0 /\ stream.offset >= SeekLimit => Sought.at = SeekLimit
<1>1. W \in Nat \ {0} /\ SeekLimit \in Nat
  BY FilesAssumption
<1>2. stream \in [offset : 0..(W - 1), remaining : 0..(W - 1), at : Nat]
  BY DEF FileTypes
<1>3. CASE stream.offset = 0
  BY <1>2, <1>3 DEF Sought
<1>4. CASE stream.offset # 0
  <2> DEFINE a == IF stream.offset >= SeekLimit THEN SeekLimit ELSE stream.offset
  <2>1. a \in Nat
    BY <1>1, <1>2
  <2>2. Sought = [stream EXCEPT !.at = a, !.offset = 0]
    BY <1>4 DEF Sought
  <2>3. stream.offset < SeekLimit => a = stream.offset
    BY <1>1, <1>2
  <2>4. stream.offset >= SeekLimit => a = SeekLimit
    OBVIOUS
  <2> HIDE DEF a
  <2> DEFINE b == [stream EXCEPT !.at = a]
  <2>5. Sought \in [offset : 0..(W - 1), remaining : 0..(W - 1), at : Nat]
    <3>1. 0 \in 0..(W - 1)
      BY <1>1
    <3>2. b \in [offset : 0..(W - 1), remaining : 0..(W - 1), at : Nat]
      BY <1>2, <2>1
    <3>3. Sought = [b EXCEPT !.offset = 0]
      BY <2>2
    <3> HIDE DEF b
    <3> QED BY <3>1, <3>2, <3>3
  <2>6. Sought.at = a /\ Sought.offset = 0 /\ Sought.remaining = stream.remaining
    BY <1>2, <2>2
  <2> QED BY <1>4, <2>3, <2>4, <2>5, <2>6
<1> QED BY <1>3, <1>4

LEMMA ToResponseInv ==
  ASSUME FileInv, ToResponse, UNCHANGED codecVars
  PROVE  FileInv'
<1>1. /\ step = "respond" /\ step' = "read"
      /\ whole' = Region(stream'.offset, stream'.remaining, File.size)
      /\ seen' = IF state \in {"subrange", "not_modified"} THEN seen ELSE seen \cup {File}
      /\ UNCHANGED <<inodes, path, known, asks, handle, lmd, etag, state, cut, got, hollow,
                     verdict, coding>>
  BY DEF ToResponse, codecVars
<1>2. File \in Files /\ File' = File
  BY <1>1, OpenFileIsAFile DEF FileInv, None, File
<1> DEFINE size == File.size
<1>3. size \in Nat /\ size <= SeekLimit /\ size \in 0..(W - 1) /\ W \in Nat \ {0} /\ SeekLimit \in Nat
  BY <1>2, FileNumbers, FilesAssumption
<1>4. /\ stream' \in [offset : 0..(W - 1), remaining : 0..(W - 1), at : Nat]
      /\ stream'.offset = stream.offset /\ stream'.at = stream.at
      /\ state \notin Streams => stream'.remaining = 0
      /\ state \in Streams \ {"subrange"} => stream'.remaining = size
  <2> HIDE DEF size
  <2>1. stream' = CASE state = "subrange" -> stream
                    [] state \in Streams \ {"subrange"} -> [stream EXCEPT !.remaining = size]
                    [] OTHER -> [stream EXCEPT !.remaining = 0]
    BY DEF ToResponse, size
  <2>2. stream' \in {stream, [stream EXCEPT !.remaining = size], [stream EXCEPT !.remaining = 0]}
        /\ (state \notin Streams => stream' = [stream EXCEPT !.remaining = 0])
        /\ (state \in Streams \ {"subrange"} => stream' = [stream EXCEPT !.remaining = size])
    BY <2>1 DEF Streams
  <2>3. stream \in [offset : 0..(W - 1), remaining : 0..(W - 1), at : Nat]
    BY DEF FileInv, FileTypes
  <2> QED BY <1>3, <2>2, <2>3
<1> DEFINE o == stream'.offset
           r == stream'.remaining
<1>5. o \in Nat /\ r \in Nat
  BY <1>3, <1>4
<1>6. whole' = Region(o, r, size)
  BY <1>1
<1> HIDE DEF size, o, r
<1>7. whole' \in Seq(Nat)
  BY <1>3, <1>5, <1>6, RegionType
<1>8. BodyTypes' /\ OneSource' /\ FileFillsItsChunks'
  BY <1>1, <1>7 DEF FileInv, BodyTypes, OneSource, FileFillsItsChunks, None
<1>9. FileTypes'
  BY <1>1, <1>4 DEF FileInv, FileTypes, Steps, None
<1>10. BeforeReading'
  BY <1>1, <1>4 DEF FileInv, BeforeReading, None
<1>11. SeenIsTold'
  <2> SUFFICES ASSUME NEW file \in seen', seen' = {file}
               PROVE  TellsOf(file)'
    BY <1>1 DEF FileInv, SeenIsTold, Telling
  <2>1. seen # {} /\ \A old \in seen : seen = {old} => TellsOf(old)
    BY <1>1 DEF FileInv, SeenIsTold, Telling
  <2>2. seen = {file} /\ (state \notin {"subrange", "not_modified"} => File = file)
    <3>1. CASE state \in {"subrange", "not_modified"}
      BY <1>1, <3>1
    <3>2. CASE state \notin {"subrange", "not_modified"}
      <4>1. seen \cup {File} = {file}
        BY <1>1, <3>2
      <4> QED BY <2>1, <4>1, OneWithTheNext
    <3> QED BY <3>1, <3>2
  <2>3. TellsOf(file)
    BY <2>1, <2>2
  <2>4. state' \in Streams \ {"subrange"} => Len(whole') = file.size
    <3> SUFFICES ASSUME state \in Streams \ {"subrange"} PROVE Len(whole') = file.size
      BY <1>1
    <3>1. File = file /\ o = 0 /\ r = size
      <4>1. stream.offset = 0
        BY <1>1 DEF FileInv, BeforeReading
      <4> QED BY <1>4, <2>2, <4>1 DEF o, r, Streams
    <3>2. whole' = Region(0, size, size)
      BY <1>6, <3>1
    <3>3. Len(whole') = size
      BY <1>3, <3>2, RegionLength
    <3> QED BY <3>1, <3>3 DEF size
  <2> QED BY <1>1, <2>3, <2>4, StillTells
<1>12. FileIsAhead'
  <2>1. got' = << >> /\ stream'.at = 0
    BY <1>1, <1>4 DEF FileInv, BeforeReading, None
  <2>2. /\ o = 0 => Sought'.at = 0
        /\ o # 0 /\ o < SeekLimit => Sought'.at = o
        /\ o # 0 /\ o >= SeekLimit => Sought'.at = SeekLimit
    BY <1>3, <1>4, <2>1 DEF Sought, o
  <2> DEFINE at == Sought'.at
  <2>3. Region(o, r, size) = Region(at, r, size)
    <3>1. CASE o < SeekLimit
      BY <1>3, <1>5, <2>2, <3>1
    <3>2. CASE ~ o < SeekLimit
      <4>1. at = SeekLimit /\ at \in Nat /\ size <= o /\ size <= at
        BY <1>3, <1>5, <2>2, <3>2
      <4> HIDE DEF at
      <4>2. Region(o, r, size) = << >>
        BY <1>3, <1>5, <4>1, RegionEmpty
      <4>3. Region(at, r, size) = << >>
        BY <1>3, <1>5, <4>1, RegionEmpty
      <4> QED BY <4>2, <4>3
    <3> QED BY <3>1, <3>2
  <2>4. File'.size = size
    BY <1>2 DEF size
  <2>5. whole' = got' \o Region(at, r, size)
    BY <1>6, <1>7, <2>1, <2>3
  <2> QED BY <2>4, <2>5 DEF FileIsAhead, r
<1> QED BY <1>8, <1>9, <1>10, <1>11, <1>12 DEF FileInv

LEMMA ReadFileInv ==
  ASSUME FileInv, ReadFile, UNCHANGED codecVars
  PROVE  FileInv'
<1> DEFINE limit == IF stream.remaining < Window THEN stream.remaining ELSE Window
           there == File.size - Sought.at
           size == File.size
           at == Sought.at
           r == stream.remaining
<1>1. /\ step = "read" /\ verdict = "open"
      /\ UNCHANGED <<inodes, path, known, asks, handle, lmd, etag, state, seen, step, whole, cut,
                     coding>>
  BY DEF ReadFile, Reading, codecVars
<1>2. File \in Files /\ File' = File
  BY <1>1, OpenFileIsAFile DEF FileInv, None, File
<1>3. /\ size \in Nat /\ at \in Nat /\ r \in Nat /\ Window \in Nat \ {0} /\ W \in Nat \ {0}
      /\ Sought \in [offset : 0..(W - 1), remaining : 0..(W - 1), at : Nat]
      /\ Sought.offset = 0 /\ Sought.remaining = r /\ r <= W - 1
  BY <1>2, FileNumbers, FilesAssumption, SoughtType DEF FileInv, FileTypes
<1>4. SeenIsTold'
  BY <1>1, TellingStays DEF FileInv
<1>5. CASE got' = got /\ hollow' = hollow /\ verdict' = "eof" /\ stream' \in {stream, Sought}
  <2>1. /\ stream' \in [offset : 0..(W - 1), remaining : 0..(W - 1), at : Nat]
        /\ stream'.remaining = r
    BY <1>3, <1>5 DEF FileInv, FileTypes
  <2>2. Sought'.at = at
    BY <1>3, <1>5 DEF Sought
  <2>3. BodyTypes' /\ OneSource' /\ FileFillsItsChunks'
    BY <1>1, <1>5 DEF FileInv, BodyTypes, OneSource, FileFillsItsChunks, None
  <2>4. FileTypes'
    BY <1>1, <2>1 DEF FileInv, FileTypes
  <2>5. BeforeReading'
    BY <1>1, <1>5, <2>1 DEF FileInv, BeforeReading, None
  <2>6. FileIsAhead'
    BY <1>1, <1>2, <1>5, <2>1, <2>2 DEF FileInv, FileIsAhead
  <2> QED BY <1>4, <2>3, <2>4, <2>5, <2>6 DEF FileInv
<1>6. CASE r > 0 /\ \E n \in 1..(IF there < limit THEN there ELSE limit) :
             /\ Deliver([k \in 1..n |-> Sought.at + k])
             /\ stream' = Taken(n)
  <2>1. PICK n \in 1..(IF there < limit THEN there ELSE limit) :
              Deliver([k \in 1..n |-> Sought.at + k]) /\ stream' = Taken(n)
    BY <1>6
  <2>2. n \in Nat /\ n > 0 /\ n \in 1..r /\ at + n <= size
    BY <1>3
  <2> DEFINE piece == [k \in 1..n |-> at + k]
             behind == Region(at + n, r - n, size)
  <2>3. piece \in Seq(Nat) /\ piece # << >>
    BY <1>3, <2>2, SMTT(40)
  <2>4. got' = got \o piece /\ hollow' = hollow /\ verdict' = verdict
    <3>1. got' = got \o piece /\ hollow' = (hollow \/ piece = << >>) /\ verdict' = verdict
      BY <2>1 DEF Deliver
    <3> HIDE DEF piece
    <3> QED BY <2>3, <3>1 DEF FileInv, BodyTypes
  <2>5. stream' = [Sought EXCEPT !.at = @ + n, !.remaining = @ - n]
    BY <2>1 DEF Taken
  <2>6. /\ stream' \in [offset : 0..(W - 1), remaining : 0..(W - 1), at : Nat]
        /\ stream'.remaining = r - n /\ stream'.offset = 0 /\ stream'.at = at + n
    <3> DEFINE q == Sought
    <3> HIDE DEF q
    <3>1. stream' = [q EXCEPT !.at = q.at + n, !.remaining = q.remaining - n]
      BY <2>5 DEF q
    <3>2. q \in [offset : 0..(W - 1), remaining : 0..(W - 1), at : Nat]
          /\ q.offset = 0 /\ q.remaining = r /\ q.at = at
      BY <1>3 DEF q
    <3> HIDE DEF at, r
    <3>3. r - n \in 0..(W - 1) /\ at + n \in Nat
      BY <1>3, <2>2
    <3> QED BY <3>1, <3>2, <3>3
  <2> HIDE DEF limit, there
  <2>7. got' \in Seq(Nat)
    <3> HIDE DEF piece
    <3> QED BY <2>3, <2>4, JoinType DEF FileInv, BodyTypes
  <2>8. BodyTypes' /\ OneSource' /\ FileFillsItsChunks'
    BY <1>1, <2>4, <2>7 DEF FileInv, BodyTypes, OneSource, FileFillsItsChunks, None
  <2>9. FileTypes'
    BY <1>1, <2>6 DEF FileInv, FileTypes
  <2>10. BeforeReading'
    <3>1. state \in Streams
      BY <1>1, <1>6 DEF FileInv, BeforeReading, None
    <3> QED BY <1>1, <3>1 DEF BeforeReading, None
  <2>11. FileIsAhead'
    <3> SUFFICES ASSUME ~cut
                 PROVE  whole' = got' \o Region(Sought'.at, stream'.remaining, File'.size)
      BY <1>1 DEF FileIsAhead
    <3>1. Sought'.at = at + n
      BY <2>6 DEF Sought
    <3>2. whole = got \o Region(at, r, size)
      BY <1>1 DEF FileInv, FileIsAhead
    <3> HIDE DEF at, r, size
    <3>3. Region(at, r, size) = piece \o behind
      <4>1. at \in Nat /\ r \in Nat /\ size \in Nat
        BY <1>3
      <4>2. n \in 1..r /\ at + n <= size
        BY <2>2
      <4> QED BY <4>1, <4>2, RegionSplit
    <3>4. behind \in Seq(Nat)
      <4>1. at + n \in Nat /\ r - n \in Nat /\ size \in Nat
        BY <1>3, <2>2
      <4> QED BY <4>1, RegionType
    <3>5. got \in Seq(Nat)
      BY DEF FileInv, BodyTypes
    <3>6. piece \in Seq(Nat)
      BY <2>3
    <3> HIDE DEF piece, behind
    <3>8. got \o (piece \o behind) = (got \o piece) \o behind
      BY <3>4, <3>5, <3>6, BytesRegroup
    <3>7. whole' = got' \o behind
      BY <1>1, <2>4, <3>2, <3>3, <3>8
    <3> QED BY <1>2, <2>6, <3>1, <3>7 DEF behind, size
  <2> QED BY <1>4, <2>8, <2>9, <2>10, <2>11 DEF FileInv
<1> HIDE DEF limit, there, size, at, r
<1> QED BY <1>5, <1>6 DEF ReadFile, EndOfFile, Stop, limit, there, r

LEMMA ReadFailsInv ==
  ASSUME FileInv, ReadFails, UNCHANGED codecVars
  PROVE  FileInv'
<1>1. /\ verdict' = "error" /\ got' = got /\ hollow' = hollow /\ step = "read"
      /\ UNCHANGED <<fileVars, whole, cut, coding>>
  BY DEF ReadFails, Stop, codecVars
<1>2. BodyTypes' /\ OneSource' /\ FileFillsItsChunks'
  BY <1>1 DEF FileInv, BodyTypes, OneSource, FileFillsItsChunks, fileVars
<1>3. FileTypes'
  BY <1>1 DEF FileInv, FileTypes, fileVars
<1>6. SeenIsTold'
  BY <1>1, TellingStays DEF FileInv, fileVars
<1>4. BeforeReading'
  BY <1>1 DEF FileInv, BeforeReading, fileVars, None
<1>5. FileIsAhead'
  BY <1>1 DEF FileInv, FileIsAhead, Sought, File, fileVars
<1> QED BY <1>2, <1>3, <1>4, <1>5, <1>6 DEF FileInv

\* A change of the file gets the next number.
LEMMA ChangedType ==
  ASSUME FileTypes, Len(inodes) # 0, NEW size \in Sizes, NEW time \in Times
  PROVE  Changed(size, time) \in Files
<1> DEFINE n == Len(inodes)
           f == [k \in 1..n |-> inodes[k].change]
<1>1. n \in Nat \ {0} /\ DOMAIN inodes = 1..n /\ \A k \in 1..n : inodes[k] \in Files
  BY DEF FileTypes
<1>2. \A k \in 1..n : f[k] = inodes[k].change /\ f[k] \in Nat
  BY <1>1, FileNumbers
<1>3. Changes = Max({f[k] : k \in 1..n})
  BY <1>1, <1>2 DEF Changes
<1>4. Changes \in Nat
  <2> HIDE DEF f, n
  <2>1. \A k \in 1..n : f[k] \in Nat
    BY <1>2
  <2> QED BY <1>1, <1>3, <2>1, MaxOfMany
<1> QED BY <1>4 DEF Changed, Files

\* Somebody changes the files and the path; the open file is as it was or is cut.
LEMMA ChangedUnder ==
  ASSUME FileInv, step # None,
         UNCHANGED <<known, asks, handle, lmd, etag, state, stream, seen, step>>,
         UNCHANGED <<whole, got, hollow, verdict, coding>>,
         inodes' \in Seq(Files), path' \in 0..Len(inodes'), Len(inodes) <= Len(inodes'),
         cut' \in BOOLEAN, cut => cut', (cut' = cut) \/ step = "read",
         File' = File \/ cut' \/ step # "read"
  PROVE  FileInv'
<1>1. BodyTypes' /\ OneSource' /\ FileFillsItsChunks'
  BY DEF FileInv, BodyTypes, OneSource, FileFillsItsChunks
<1>2. FileTypes'
  <2>1. Len(inodes) \in Nat /\ Len(inodes') \in Nat
    BY DEF FileInv, FileTypes
  <2>2. handle.inode \in 1..Len(inodes')
    BY <2>1 DEF FileInv, FileTypes
  <2> QED BY <2>2 DEF FileInv, FileTypes
<1>3. BeforeReading'
  BY DEF FileInv, BeforeReading, None
<1>4. SeenIsTold'
  BY TellingStays DEF FileInv
<1>5. FileIsAhead'
  <2> SUFFICES ASSUME step = "read", ~cut'
               PROVE  whole = got \o Region(Sought'.at, stream.remaining, File'.size)
    BY DEF FileIsAhead
  <2>1. ~cut
    BY DEF FileInv, BodyTypes
  <2>2. File' = File /\ Sought' = Sought
    BY DEF Sought
  <2> QED BY <2>1, <2>2 DEF FileInv, FileIsAhead
<1> QED BY <1>1, <1>2, <1>3, <1>4, <1>5 DEF FileInv

LEMMA ReplaceInv ==
  ASSUME FileInv, step # None, Replace, UNCHANGED codecVars
  PROVE  FileInv'
<1>1. /\ UNCHANGED <<known, asks, handle, lmd, etag, state, stream, seen, step>>
      /\ UNCHANGED <<whole, got, hollow, verdict, coding>>
      /\ cut' = cut /\ path' = Len(inodes) + 1
  BY DEF Replace, bodyVars, codecVars
<1>2. PICK size \in Sizes, time \in Times : inodes' = Append(inodes, Changed(size, time))
  BY DEF Replace
<1>3. /\ inodes \in Seq(Files) /\ Len(inodes) \in Nat /\ handle.inode \in 1..Len(inodes)
      /\ Len(inodes) # 0
  BY DEF FileInv, FileTypes
<1>4. Changed(size, time) \in Files
  BY <1>3, ChangedType DEF FileInv
<1> DEFINE new == Changed(size, time)
<1> HIDE DEF new
<1>5. /\ inodes' \in Seq(Files) /\ Len(inodes') = Len(inodes) + 1
      /\ \A k \in 1..Len(inodes) : inodes'[k] = inodes[k]
  BY <1>2, <1>3, <1>4, AppendProperties DEF new
<1>6. File' = File
  BY <1>1, <1>3, <1>5 DEF File
<1>7. path' \in 0..Len(inodes') /\ Len(inodes) <= Len(inodes')
  BY <1>1, <1>3, <1>5
<1>8. cut' \in BOOLEAN /\ (cut' = cut)
  BY <1>1 DEF FileInv, BodyTypes
<1> QED BY <1>1, <1>5, <1>6, <1>7, <1>8, ChangedUnder

LEMMA RewriteInv ==
  ASSUME FileInv, step # None, Rewrite, UNCHANGED codecVars
  PROVE  FileInv'
<1>1. /\ UNCHANGED <<known, asks, handle, lmd, etag, state, stream, seen, step>>
      /\ UNCHANGED <<whole, got, hollow, verdict, coding>>
      /\ cut' = (cut \/ (step = "read" /\ path = handle.inode))
      /\ path' = path /\ path # 0
  BY DEF Rewrite, codecVars
<1>2. PICK size \in Sizes, time \in Times :
            inodes' = [inodes EXCEPT ![path] = Changed(size, time)]
  BY DEF Rewrite
<1>3. /\ inodes \in Seq(Files) /\ Len(inodes) \in Nat /\ handle.inode \in 1..Len(inodes)
      /\ Len(inodes) # 0 /\ path \in 0..Len(inodes)
  BY DEF FileInv, FileTypes
<1>4. Changed(size, time) \in Files
  BY <1>3, ChangedType DEF FileInv
<1> DEFINE new == Changed(size, time)
<1>5. /\ inodes' \in Seq(Files) /\ Len(inodes') = Len(inodes)
      /\ handle.inode # path => inodes'[handle.inode] = inodes[handle.inode]
  <2>1. new \in Files /\ inodes' = [inodes EXCEPT ![path] = new]
    BY <1>2, <1>4
  <2>2. path \in 1..Len(inodes)
    BY <1>1, <1>3
  <2> HIDE DEF new
  <2> QED BY <1>3, <2>1, <2>2, ExceptSeq
<1>6. File' = File \/ path = handle.inode
  BY <1>1, <1>5 DEF File
<1>7. path' \in 0..Len(inodes') /\ Len(inodes) <= Len(inodes')
  BY <1>1, <1>3, <1>5
<1>8. cut' \in BOOLEAN /\ (File' = File \/ cut' \/ step # "read")
  BY <1>1, <1>6 DEF FileInv, BodyTypes
<1>9. ((cut' = cut) \/ step = "read") /\ (cut => cut')
  BY <1>1 DEF FileInv, BodyTypes
<1> QED BY <1>1, <1>5, <1>7, <1>8, <1>9, ChangedUnder

LEMMA RemoveFileInv ==
  ASSUME FileInv, step # None, RemoveFile, UNCHANGED codecVars
  PROVE  FileInv'
<1>1. /\ UNCHANGED <<inodes, known, asks, handle, lmd, etag, state, stream, seen, step>>
      /\ UNCHANGED <<whole, got, hollow, verdict, coding, cut>>
      /\ path' = 0
  BY DEF RemoveFile, bodyVars, codecVars
<1>2. inodes' \in Seq(Files) /\ Len(inodes') \in Nat /\ Len(inodes') = Len(inodes)
  BY <1>1 DEF FileInv, FileTypes
<1>3. path' \in 0..Len(inodes') /\ Len(inodes) <= Len(inodes')
  BY <1>1, <1>2
<1>4. cut' \in BOOLEAN /\ (cut' = cut)
  BY <1>1 DEF FileInv, BodyTypes
<1>5. File' = File
  BY <1>1 DEF File
<1> QED BY <1>1, <1>2, <1>3, <1>4, <1>5, ChangedUnder
-----------------------------------------------------------------------------
(* Symbols.                                                                *)

\* A set of numbers that has one has a least one.
LEMMA MinOfSome ==
  ASSUME NEW T, T \subseteq Nat, T # {}
  PROVE  Min(T) \in T /\ \A y \in T : Min(T) <= y
<1> DEFINE Below == {p \in Nat \X Nat : p[1] < p[2]}
<1>1. IsWellFoundedOn(Below, Nat)
  BY NatLessThanWellFounded, Zenon DEF OpToRel
<1>2. PICK x \in T : \A y \in T : <<y, x>> \notin Below
  <2> HIDE DEF Below
  <2> QED BY <1>1, WFMin
<1>3. \A y \in T : x <= y
  <2>1. \A j, i \in Nat : j < i => <<j, i>> \in Below
    OBVIOUS
  <2> HIDE DEF Below
  <2> SUFFICES ASSUME NEW y \in T PROVE x <= y
    OBVIOUS
  <2>2. x \in Nat /\ y \in Nat
    OBVIOUS
  <2>3. ~ y < x
    BY <1>2, <2>1, <2>2
  <2> QED BY <2>2, <2>3
<1>4. \E z \in T : \A y \in T : z =< y
  BY <1>3
<1> QED BY <1>4 DEF Min

\* A sequence is what is taken of it and what is left when that is dropped.
LEMMA TakeAndDrop ==
  ASSUME NEW S, NEW s \in Seq(S), NEW n \in 0..Len(s)
  PROVE  /\ Take(s, n) \in Seq(S) /\ Len(Take(s, n)) = n
         /\ \A k \in 1..n : Take(s, n)[k] = s[k]
         /\ Drop(s, n) \in Seq(S) /\ Len(Drop(s, n)) = Len(s) - n
         /\ \A k \in 1..(Len(s) - n) : Drop(s, n)[k] = s[n + k]
         /\ s = Take(s, n) \o Drop(s, n)
<1> DEFINE a == Take(s, n)
           b == Drop(s, n)
<1>1. Len(s) \in Nat /\ n \in Nat /\ n <= Len(s)
  OBVIOUS
<1>2. a \in Seq(S) /\ Len(a) = n /\ \A k \in 1..n : a[k] = s[k]
  BY <1>1 DEF Take
<1>3. b \in Seq(S) /\ Len(b) = Len(s) - n /\ \A k \in 1..(Len(s) - n) : b[k] = s[n + k]
  BY <1>1 DEF Drop
<1> HIDE DEF a, b
<1>4. a \o b \in Seq(S) /\ Len(a \o b) = Len(s)
  <2>1. a \o b \in Seq(S) /\ Len(a \o b) = Len(a) + Len(b)
    BY <1>2, <1>3, ConcatProperties
  <2> QED BY <1>1, <1>2, <1>3, <2>1
<1>5. ASSUME NEW k \in 1..Len(s) PROVE (a \o b)[k] = s[k]
  <2>1. (a \o b)[k] = IF k <= Len(a) THEN a[k] ELSE b[k - Len(a)]
    BY <1>1, <1>2, <1>3, ConcatProperties
  <2>2. CASE k <= n
    BY <1>2, <2>1, <2>2
  <2>3. CASE ~ k <= n
    <3>1. k - n \in 1..(Len(s) - n) /\ n + (k - n) = k
      BY <1>1, <2>3
    <3> QED BY <1>2, <1>3, <2>1, <2>3, <3>1
  <2> QED BY <2>2, <2>3
<1>6. s = a \o b
  BY <1>4, <1>5, SeqEqual
<1> QED BY <1>2, <1>3, <1>6 DEF a, b

\* What is taken or dropped of two sequences in a row when the first is enough.
LEMMA TakeOfTwo ==
  ASSUME NEW S, NEW s \in Seq(S), NEW t \in Seq(S), NEW n \in 0..Len(s)
  PROVE  Take(s \o t, n) = Take(s, n) /\ Drop(s \o t, n) = Drop(s, n) \o t
<1> DEFINE a == Take(s, n)
           b == Drop(s, n)
           u == s \o t
<1>1. Len(s) \in Nat /\ Len(t) \in Nat /\ n \in Nat /\ n <= Len(s)
  OBVIOUS
<1>2. u \in Seq(S) /\ Len(u) = Len(s) + Len(t)
  BY ConcatProperties
<1>3. /\ \A k \in 1..Len(s) : u[k] = s[k]
      /\ \A k \in 1..Len(t) : u[Len(s) + k] = t[k]
  OBVIOUS
<1>4. /\ a \in Seq(S) /\ Len(a) = n /\ \A k \in 1..n : a[k] = s[k]
      /\ b \in Seq(S) /\ Len(b) = Len(s) - n /\ \A k \in 1..(Len(s) - n) : b[k] = s[n + k]
  BY TakeAndDrop
<1> HIDE DEF u
<1>5. n \in 0..Len(u)
  BY <1>1, <1>2
<1>6. /\ Take(u, n) \in Seq(S) /\ Len(Take(u, n)) = n
      /\ \A k \in 1..n : Take(u, n)[k] = u[k]
      /\ Drop(u, n) \in Seq(S) /\ Len(Drop(u, n)) = Len(u) - n
      /\ \A k \in 1..(Len(u) - n) : Drop(u, n)[k] = u[n + k]
  BY <1>2, <1>5, TakeAndDrop
<1> HIDE DEF a, b
<1>7. Take(u, n) = a
  <2>1. ASSUME NEW k \in 1..n PROVE Take(u, n)[k] = a[k]
    <3>1. k \in 1..Len(s)
      BY <1>1
    <3>2. u[k] = s[k]
      BY <1>3, <3>1
    <3>3. a[k] = s[k] /\ Take(u, n)[k] = u[k]
      BY <1>4, <1>6
    <3> QED BY <3>2, <3>3
  <2> QED BY <1>4, <1>6, <2>1, SeqEqual
<1>8. Drop(u, n) = b \o t
  <2> DEFINE d == Drop(u, n)
             e == b \o t
             m == Len(u) - n
  <2>2. m \in Nat /\ m = Len(b) + Len(t)
    BY <1>1, <1>2, <1>4
  <2>1. e \in Seq(S) /\ Len(e) = m
    <3>1. e \in Seq(S) /\ Len(e) = Len(b) + Len(t)
      BY <1>4, ConcatProperties
    <3> QED BY <2>2, <3>1
  <2>3. d \in Seq(S) /\ Len(d) = m /\ \A k \in 1..m : d[k] = u[n + k]
    BY <1>6
  <2> HIDE DEF d, m
  <2>4. ASSUME NEW k \in 1..m PROVE d[k] = e[k]
    <3>1. e[k] = IF k <= Len(b) THEN b[k] ELSE t[k - Len(b)]
      BY <1>4, <2>2, ConcatProperties
    <3>2. CASE k <= Len(b)
      <4>1. n + k \in 1..Len(s) /\ k \in 1..(Len(s) - n)
        BY <1>1, <1>4, <2>2, <3>2
      <4> QED BY <1>3, <1>4, <2>3, <3>1, <3>2, <4>1
    <3>3. CASE ~ k <= Len(b)
      <4>1. k - Len(b) \in 1..Len(t) /\ Len(s) + (k - Len(b)) = n + k
        BY <1>1, <1>4, <2>2, <3>3
      <4> QED BY <1>3, <2>3, <3>1, <3>3, <4>1
    <3> QED BY <3>2, <3>3
  <2> HIDE DEF e
  <2>5. d = e
    BY <2>1, <2>3, <2>4, SeqEqual
  <2> QED BY <2>5 DEF d, e
<1> QED BY <1>7, <1>8 DEF a, b, u

\* Symbols in a row, whichever are joined first.
LEMMA SymbolsRegroup ==
  ASSUME NEW a \in Seq(Symbols), NEW b \in Seq(Symbols), NEW c \in Seq(Symbols)
  PROVE  (a \o b) \o c = a \o (b \o c)
BY Regroup

\* The bytes of symbols are bytes, of none they are none, and of two sequences in
\* a row they are those of the first and those of the second.
LEMMA PlainType ==
  ASSUME NEW s \in Seq(Symbols)
  PROVE  Plain(s) \in Seq(Nat)
<1> DEFINE f == [k \in DOMAIN s |-> s[k].out]
<1>1. Len(s) \in Nat /\ DOMAIN s = 1..Len(s)
  OBVIOUS
<1>2. ASSUME NEW k \in 1..Len(s) PROVE s[k].out \in Seq(Nat)
  <2>1. s[k] \in Symbols
    OBVIOUS
  <2> QED BY <2>1 DEF Symbols
<1>3. f \in Seq(Seq(Nat))
  BY <1>1, <1>2
<1> HIDE DEF f
<1>4. FlattenSeq(f) \in Seq(Nat)
  BY <1>3, FlattenType
<1> QED BY <1>4 DEF Plain, f

LEMMA PlainEmpty == Plain(<< >>) = << >>
<1>1. [k \in DOMAIN << >> |-> << >>[k].out] = << >>
  OBVIOUS
<1> QED BY <1>1, FlattenEmpty DEF Plain

LEMMA PlainJoin ==
  ASSUME NEW s \in Seq(Symbols), NEW t \in Seq(Symbols)
  PROVE  Plain(s \o t) = Plain(s) \o Plain(t)
<1> DEFINE u == s \o t
           f == [k \in DOMAIN s |-> s[k].out]
           g == [k \in DOMAIN t |-> t[k].out]
           h == [k \in DOMAIN u |-> u[k].out]
<1>1. Len(s) \in Nat /\ Len(t) \in Nat /\ DOMAIN s = 1..Len(s) /\ DOMAIN t = 1..Len(t)
  OBVIOUS
<1>2. /\ u \in Seq(Symbols) /\ DOMAIN u = 1..(Len(s) + Len(t))
      /\ \A k \in 1..Len(s) : u[k] = s[k]
      /\ \A k \in 1..Len(t) : u[Len(s) + k] = t[k]
  OBVIOUS
<1>3. \A x \in Symbols : x.out \in Seq(Nat)
  BY DEF Symbols
<1> HIDE DEF u
<1>4. f \in Seq(Seq(Nat)) /\ Len(f) = Len(s) /\ \A k \in 1..Len(s) : f[k] = s[k].out
  BY <1>1, <1>3
<1>5. g \in Seq(Seq(Nat)) /\ Len(g) = Len(t) /\ \A k \in 1..Len(t) : g[k] = t[k].out
  BY <1>1, <1>3
<1>6. /\ h \in Seq(Seq(Nat)) /\ Len(h) = Len(s) + Len(t)
      /\ \A k \in 1..(Len(s) + Len(t)) : h[k] = u[k].out
  BY <1>1, <1>2, <1>3
<1> HIDE DEF f, g, h
<1>7. h = f \o g
  <2> DEFINE e == f \o g
  <2> DEFINE T == Seq(Nat)
  <2>0. f \in Seq(T) /\ g \in Seq(T) /\ h \in Seq(T)
    BY <1>4, <1>5, <1>6
  <2> HIDE DEF T
  <2>1. e \in Seq(T) /\ Len(e) = Len(s) + Len(t)
    <3>1. e \in Seq(T) /\ Len(e) = Len(f) + Len(g)
      BY <2>0, ConcatProperties
    <3> QED BY <1>4, <1>5, <3>1
  <2>2. ASSUME NEW k \in 1..(Len(s) + Len(t)) PROVE h[k] = e[k]
    <3>0. k \in 1..(Len(f) + Len(g))
      BY <1>4, <1>5
    <3>1. e[k] = IF k <= Len(f) THEN f[k] ELSE g[k - Len(f)]
      BY <2>0, <3>0, ConcatProperties
    <3>2. CASE k <= Len(s)
      <4>1. k \in 1..Len(s)
        BY <1>1, <3>2
      <4>2. u[k] = s[k] /\ f[k] = s[k].out /\ h[k] = u[k].out
        BY <1>2, <1>4, <1>6, <4>1
      <4>3. e[k] = f[k]
        BY <1>4, <3>1, <3>2
      <4> QED BY <4>2, <4>3
    <3>3. CASE ~ k <= Len(s)
      <4> DEFINE j == k - Len(s)
      <4>1. j \in 1..Len(t) /\ Len(s) + j = k
        BY <1>1, <3>3
      <4>2. e[k] = g[j]
        BY <1>4, <3>1, <3>3
      <4> HIDE DEF j
      <4>3. u[Len(s) + j] = t[j] /\ g[j] = t[j].out /\ h[k] = u[k].out
        BY <1>2, <1>5, <1>6, <4>1
      <4> QED BY <4>1, <4>2, <4>3
    <3> QED BY <3>2, <3>3
  <2> HIDE DEF e
  <2>3. h = e
    BY <1>6, <2>0, <2>1, <2>2, SeqEqual
  <2> QED BY <2>3 DEF e
<1>8. FlattenSeq(f \o g) = FlattenSeq(f) \o FlattenSeq(g)
  BY <1>4, <1>5, FlattenConcat
<1> QED BY <1>7, <1>8 DEF Plain, f, g, h, u

\* The first symbol that is not data, 0 for none.
FirstMark(s) == SelectInSeq(s, LAMBDA x : x.mark # "data")

LEMMA FirstMarkIs ==
  ASSUME NEW s \in Seq(Symbols)
  PROVE  LET n == FirstMark(s)
         IN  \/ n = 0 /\ \A k \in 1..Len(s) : s[k].mark = "data"
             \/ /\ n \in 1..Len(s) /\ s[n].mark # "data"
                /\ \A k \in 1..(n - 1) : s[k].mark = "data"
<1> DEFINE T == {i \in 1..Len(s) : s[i].mark # "data"}
           n == FirstMark(s)
<1>1. Len(s) \in Nat /\ T \subseteq Nat
  OBVIOUS
<1>2. n = IF T # {} THEN Min(T) ELSE 0
  BY DEF FirstMark, SelectInSeq
<1>3. CASE T = {}
  BY <1>2, <1>3
<1>4. CASE T # {}
  <2>1. n \in T /\ \A y \in T : n <= y
    <3> HIDE DEF T
    <3> QED BY <1>1, <1>2, <1>4, MinOfSome
  <2>2. n \in 1..Len(s) /\ s[n].mark # "data"
    BY <2>1
  <2>3. ASSUME NEW k \in 1..(n - 1) PROVE s[k].mark = "data"
    <3>1. k \in 1..Len(s) /\ ~ n <= k
      BY <1>1, <2>2
    <3> QED BY <2>1, <3>1
  <2> QED BY <2>2, <2>3
<1> QED BY <1>3, <1>4

\* What is live ends with the first symbol that is not data.
LEMMA LiveStops ==
  ASSUME NEW s \in Seq(Symbols), NEW n \in 1..Len(s), s[n].mark # "data",
         \A k \in 1..(n - 1) : s[k].mark = "data"
  PROVE  Live(s) = Take(s, n)
<1> DEFINE m == FirstMark(s)
<1>1. \/ m = 0 /\ \A k \in 1..Len(s) : s[k].mark = "data"
      \/ /\ m \in 1..Len(s) /\ s[m].mark # "data"
         /\ \A k \in 1..(m - 1) : s[k].mark = "data"
  BY FirstMarkIs
<1>2. Live(s) = IF m = 0 THEN s ELSE Take(s, m)
  BY DEF Live, FirstMark
<1> HIDE DEF m
<1>3. m = n
  BY <1>1
<1> QED BY <1>2, <1>3

\* Data is live as far as it goes.
LEMMA LiveData ==
  ASSUME NEW s \in Seq(Symbols), \A k \in 1..Len(s) : s[k].mark = "data"
  PROVE  Live(s) = s
<1> DEFINE m == FirstMark(s)
<1>1. \/ m = 0 /\ \A k \in 1..Len(s) : s[k].mark = "data"
      \/ /\ m \in 1..Len(s) /\ s[m].mark # "data"
         /\ \A k \in 1..(m - 1) : s[k].mark = "data"
  BY FirstMarkIs
<1>2. Live(s) = IF m = 0 THEN s ELSE Take(s, m)
  BY DEF Live, FirstMark
<1> HIDE DEF m
<1> QED BY <1>1, <1>2

\* What is live are first symbols, all but the last one data, and some if there
\* are any.
LEMMA LiveType ==
  ASSUME NEW s \in Seq(Symbols)
  PROVE  /\ Live(s) \in Seq(Symbols) /\ Len(Live(s)) \in 0..Len(s)
         /\ \A k \in 1..Len(Live(s)) : Live(s)[k] = s[k]
         /\ \A k \in 1..(Len(Live(s)) - 1) : s[k].mark = "data"
         /\ Live(s) = << >> => s = << >>
<1> DEFINE m == FirstMark(s)
<1>0. Len(s) \in Nat
  OBVIOUS
<1>1. \/ m = 0 /\ \A k \in 1..Len(s) : s[k].mark = "data"
      \/ /\ m \in 1..Len(s) /\ s[m].mark # "data"
         /\ \A k \in 1..(m - 1) : s[k].mark = "data"
  BY FirstMarkIs
<1>2. Live(s) = IF m = 0 THEN s ELSE Take(s, m)
  BY DEF Live, FirstMark
<1> HIDE DEF m
<1>3. CASE m = 0
  BY <1>0, <1>1, <1>2, <1>3
<1>4. CASE m # 0
  <2>1. m \in 0..Len(s) /\ m \in Nat /\ m > 0
    BY <1>0, <1>1, <1>4
  <2> DEFINE l == Take(s, m)
  <2>2. l \in Seq(Symbols) /\ Len(l) = m /\ \A k \in 1..m : l[k] = s[k]
    BY <2>1, TakeAndDrop
  <2> HIDE DEF l
  <2>3. Live(s) = l
    BY <1>2, <1>4 DEF l
  <2>4. l # << >>
    BY <2>1, <2>2
  <2> QED BY <1>1, <1>4, <2>1, <2>2, <2>3, <2>4
<1> QED BY <1>3, <1>4

\* Behind data what is live goes on with what is live of the rest.
LEMMA LiveBehind ==
  ASSUME NEW s \in Seq(Symbols), NEW u \in 0..Len(s), \A k \in 1..u : s[k].mark = "data"
  PROVE  Live(s) = Take(s, u) \o Live(Drop(s, u))
<1> DEFINE a == Take(s, u)
           b == Drop(s, u)
           m == FirstMark(s)
<1>0. Len(s) \in Nat /\ u \in Nat /\ u <= Len(s)
  OBVIOUS
<1>1. \/ m = 0 /\ \A k \in 1..Len(s) : s[k].mark = "data"
      \/ /\ m \in 1..Len(s) /\ s[m].mark # "data"
         /\ \A k \in 1..(m - 1) : s[k].mark = "data"
  BY FirstMarkIs
<1>2. /\ a \in Seq(Symbols) /\ Len(a) = u
      /\ b \in Seq(Symbols) /\ Len(b) = Len(s) - u
      /\ \A k \in 1..(Len(s) - u) : b[k] = s[u + k]
      /\ s = a \o b
  BY TakeAndDrop
<1> HIDE DEF a, b, m
<1>3. CASE m = 0
  <2>1. Live(s) = s
    BY <1>1, <1>3, LiveData
  <2>2. ASSUME NEW k \in 1..Len(b) PROVE b[k].mark = "data"
    <3>1. k \in 1..(Len(s) - u) /\ u + k \in 1..Len(s)
      BY <1>0, <1>2
    <3> QED BY <1>0, <1>1, <1>2, <1>3, <3>1
  <2>3. Live(b) = b
    BY <1>2, <2>2, LiveData
  <2> QED BY <1>2, <2>1, <2>3 DEF a, b
<1>4. CASE m # 0
  <2>1. m \in 1..Len(s) /\ s[m].mark # "data" /\ \A k \in 1..(m - 1) : s[k].mark = "data"
    BY <1>1, <1>4
  <2>2. Live(s) = Take(s, m)
    BY <2>1, LiveStops
  <2>3. m > u
    BY <1>0, <2>1
  <2> DEFINE n == m - u
  <2>4. n \in 1..Len(b) /\ n \in 0..Len(b) /\ n \in 1..(Len(s) - u) /\ u + n = m
    BY <1>0, <1>2, <2>1, <2>3
  <2>5. b[n].mark # "data"
    BY <1>2, <2>1, <2>4
  <2>6. ASSUME NEW k \in 1..(n - 1) PROVE b[k].mark = "data"
    <3>1. k \in 1..(Len(s) - u) /\ u + k \in 1..(m - 1)
      BY <1>0, <1>2, <2>1, <2>3
    <3> QED BY <1>2, <2>1, <3>1
  <2> HIDE DEF n
  <2>7. Live(b) = Take(b, n)
    BY <1>2, <2>4, <2>5, <2>6, LiveStops
  <2>8. Take(s, m) = a \o Take(b, n)
    <3> DEFINE c == Take(b, n)
               d == Drop(b, n)
    <3>1. c \in Seq(Symbols) /\ Len(c) = n /\ d \in Seq(Symbols) /\ b = c \o d
      BY <1>2, <2>4, TakeAndDrop
    <3> HIDE DEF c, d
    <3> DEFINE e == a \o c
    <3>2. e \in Seq(Symbols) /\ Len(e) = Len(a) + Len(c)
      BY <1>2, <3>1, ConcatProperties
    <3>3. s = e \o d
      <4>1. a \in Seq(Symbols) /\ c \in Seq(Symbols) /\ d \in Seq(Symbols)
        BY <1>2, <3>1
      <4>2. (a \o c) \o d = a \o (c \o d)
        BY <4>1, SymbolsRegroup
      <4> QED BY <1>2, <3>1, <4>2
    <3>4. Len(e) = m
      BY <1>0, <1>2, <2>1, <2>4, <3>1, <3>2
    <3> HIDE DEF e
    <3>5. Take(e \o d, m) = Take(e, m)
      <4>1. m \in 0..Len(e)
        BY <2>1, <3>4
      <4> QED BY <3>1, <3>2, <4>1, TakeOfTwo
    <3>6. Take(e, m) = e
      BY <3>2, <3>4 DEF Take
    <3> QED BY <3>3, <3>5, <3>6 DEF c, e
  <2> QED BY <2>2, <2>7, <2>8 DEF a, b
<1> QED BY <1>3, <1>4
-----------------------------------------------------------------------------
(* Decoders.                                                               *)
Libraries == [pend : Seq(Nat), ended : BOOLEAN]

\* How many of so many places satisfy something.
LEMMA CountOf ==
  ASSUME NEW n \in Nat, NEW T, T \subseteq 1..n
  PROVE  Cardinality(T) \in 0..n /\ (Cardinality(T) = 0 <=> T = {})
<1>1. IsFiniteSet(1..n) /\ Cardinality(1..n) = n
  BY FS_Interval
<1>2. IsFiniteSet(T) /\ Cardinality(T) <= n
  BY <1>1, FS_Subset
<1>3. Cardinality(T) \in Nat
  BY <1>2, FS_CardinalityType
<1>4. Cardinality(T) = 0 <=> T = {}
  BY <1>2, FS_EmptySet
<1> QED BY <1>2, <1>3, <1>4

\* One call of a decoder takes input and gives output, and what it gave, what it
\* holds and what it is still to make are together what it held and was to make.
\* It reports an error where it meets a bad symbol, and that there is nothing to
\* do where there is no input; it holds nothing when the output has room.
WritesWell(c, in, t, room, w) ==
  /\ w.codec \in Libraries /\ w.out \in Seq(Nat)
  /\ \E u \in 0..Len(in) : w.rest = Drop(in, u)
  /\ w.ec = "general" => \E k \in 1..Len(in) : in[k].mark = "bad"
  /\ w.ec = "need_buffers" => in = << >>
  /\ Len(w.out) < room => w.codec.pend = << >>
  /\ w.ec # "general" =>
       c.pend \o Ahead(c, in \o t) = w.out \o (w.codec.pend \o Ahead(w.codec, w.rest \o t))

\* Every call does, whatever the next layer has behind the input.
LEMMA Written ==
  ASSUME NEW c \in Libraries, NEW in \in Seq(Symbols), NEW t \in Seq(Symbols),
         NEW room \in Nat \ {0}, NEW w, w = Write(c, in, room)
  PROVE  WritesWell(c, in, t, room, w)
<1> DEFINE ahead == IF c.ended THEN << >> ELSE Live(in)
           Fits == {k \in DOMAIN ahead : Len(c.pend) + Len(Plain(Take(ahead, k - 1))) < room}
           used == Cardinality(Fits)
           taken == Take(ahead, used)
           made == c.pend \o Plain(taken)
           n == Least(Len(made), room)
           last == IF used = 0 THEN Data(<< >>) ELSE ahead[used]
           d == [c EXCEPT !.pend = Drop(made, n), !.ended = c.ended \/ last.mark = "end"]
           ec == CASE last.mark = "bad" -> "general"
                   [] last.mark # "bad" /\ (c.ended \/ last.mark = "end") -> "end_of_stream"
                   [] last.mark = "data" /\ ~c.ended /\ used = 0 /\ n = 0 -> "need_buffers"
                   [] OTHER -> "none"
<1>1. w = [codec |-> d, rest |-> Drop(in, used), out |-> Take(made, n), ec |-> ec]
  BY DEF Write
<1>2. w.codec = d /\ w.rest = Drop(in, used) /\ w.out = Take(made, n) /\ w.ec = ec
  <2> HIDE DEF d, ec, made, n, used
  <2> QED BY <1>1
<1>3. /\ c.pend \in Seq(Nat) /\ c.ended \in BOOLEAN /\ Len(in) \in Nat
      /\ << >> \in Seq(Symbols) /\ << >> \in Seq(Nat)
  BY EmptySeq DEF Libraries
<1>4. /\ ahead \in Seq(Symbols) /\ Len(ahead) \in 0..Len(in)
      /\ \A k \in 1..Len(ahead) : ahead[k] = in[k]
      /\ \A k \in 1..(Len(ahead) - 1) : in[k].mark = "data"
  <2>1. CASE c.ended
    BY <1>3, <2>1
  <2>2. CASE ~c.ended
    BY <2>2, LiveType
  <2> QED BY <2>1, <2>2
<1>5. (c.ended => ahead = << >>) /\ (~c.ended => ahead = Live(in))
  OBVIOUS
<1> HIDE DEF ahead
<1>6. Len(ahead) \in Nat /\ DOMAIN ahead = 1..Len(ahead)
  BY <1>4
<1>7. used \in 0..Len(ahead) /\ (used = 0 <=> Fits = {})
  <2>1. Fits \subseteq 1..Len(ahead)
    BY <1>6
  <2> HIDE DEF Fits
  <2> QED BY <1>6, <2>1, CountOf
<1>8. used = 0 => taken = << >>
  <2>1. Take(ahead, 0) = << >>
    BY <1>4 DEF Take
  <2> HIDE DEF used
  <2> QED BY <2>1
<1>9. used = 0 /\ ahead # << >> => room <= Len(c.pend)
  <2> SUFFICES ASSUME used = 0, ahead # << >> PROVE room <= Len(c.pend)
    OBVIOUS
  <2>1. 1 \in DOMAIN ahead /\ 1 \notin Fits
    <3>1. Len(ahead) # 0
      BY <1>4
    <3>2. Fits = {}
      BY <1>7
    <3> HIDE DEF Fits
    <3> QED BY <1>6, <3>1, <3>2
  <2>2. Take(ahead, 1 - 1) = << >>
    BY <1>4 DEF Take
  <2>3. Len(Plain(Take(ahead, 1 - 1))) = 0
    BY <2>2, PlainEmpty
  <2>4. ~ Len(c.pend) + Len(Plain(Take(ahead, 1 - 1))) < room
    BY <2>1
  <2> QED BY <1>3, <2>3, <2>4
<1> HIDE DEF used
<1>10. used \in Nat /\ used \in 0..Len(in) /\ used <= Len(ahead) /\ Len(in) \in Nat
  BY <1>3, <1>4, <1>7
<1>11. taken \in Seq(Symbols) /\ Len(taken) = used /\ \A k \in 1..used : taken[k] = in[k]
  <2>1. \A k \in 1..used : taken[k] = ahead[k]
    BY <1>4, <1>7, TakeAndDrop
  <2>2. \A k \in 1..used : k \in 1..Len(ahead)
    BY <1>6, <1>10
  <2> QED BY <1>4, <1>7, <2>1, <2>2, TakeAndDrop
<1>12. taken = Take(in, used)
  <2> DEFINE e == Take(in, used)
  <2>1. e \in Seq(Symbols) /\ Len(e) = used /\ \A k \in 1..used : e[k] = in[k]
    BY <1>10, TakeAndDrop
  <2> HIDE DEF e, taken
  <2>2. taken = e
    BY <1>11, <2>1, SeqEqual
  <2> QED BY <2>2 DEF e
<1>13. /\ last.mark \in {"data", "end", "bad"}
       /\ used = 0 => last.mark = "data"
       /\ used # 0 => used \in 1..Len(in) /\ last.mark = in[used].mark
       /\ \A k \in 1..(used - 1) : in[k].mark = "data"
       /\ last.mark # "data" => used # 0
  <2>1. CASE used = 0
    BY <2>1 DEF Data
  <2>2. CASE used # 0
    <3>1. used \in 1..Len(ahead) /\ used \in 1..Len(in)
      BY <1>6, <1>10, <2>2
    <3>2. last = in[used]
      BY <1>4, <2>2, <3>1
    <3>3. in[used] \in Symbols
      BY <3>1
    <3>4. in[used].mark \in {"data", "end", "bad"}
      BY <3>3 DEF Symbols
    <3>5. \A k \in 1..(used - 1) : k \in 1..(Len(ahead) - 1)
      BY <1>6, <1>10
    <3> QED BY <1>4, <2>2, <3>1, <3>2, <3>4, <3>5
  <2> QED BY <2>1, <2>2
<1> HIDE DEF taken, last
<1>14. made \in Seq(Nat) /\ Len(made) \in Nat /\ (used = 0 => made = c.pend)
  <2> DEFINE p == Plain(taken)
  <2>1. p \in Seq(Nat) /\ (used = 0 => p = << >>)
    BY <1>8, <1>11, PlainType, PlainEmpty
  <2> HIDE DEF p
  <2>2. c.pend \o p \in Seq(Nat) /\ c.pend \o << >> = c.pend
    BY <1>3, <2>1, BytesJoin
  <2>3. made = c.pend \o p
    BY DEF p
  <2> HIDE DEF made
  <2> QED BY <2>1, <2>2, <2>3
<1> HIDE DEF made
<1>15. n \in 0..Len(made) /\ n <= room /\ (n < room => n = Len(made)) /\ n \in Nat
  BY <1>14 DEF Least
<1> HIDE DEF n
<1>16. /\ w.out \in Seq(Nat) /\ Len(w.out) = n
       /\ Drop(made, n) \in Seq(Nat) /\ Len(Drop(made, n)) = Len(made) - n
       /\ made = w.out \o Drop(made, n)
  <2> DEFINE a == Take(made, n)
             b == Drop(made, n)
  <2>0. made \in Seq(Nat) /\ n \in 0..Len(made)
    BY <1>14, <1>15
  <2>1. a \in Seq(Nat) /\ Len(a) = n /\ b \in Seq(Nat) /\ Len(b) = Len(made) - n /\ made = a \o b
    BY <2>0, TakeAndDrop
  <2>2. w.out = a
    BY <1>2
  <2> HIDE DEF a
  <2> QED BY <2>1, <2>2
<1>17. /\ w.codec.pend = Drop(made, n)
       /\ w.codec.ended = (c.ended \/ last.mark = "end")
       /\ w.codec \in Libraries
  <2> DEFINE left == Drop(made, n)
             ended == c.ended \/ last.mark = "end"
  <2>1. w.codec = [c EXCEPT !.pend = left, !.ended = ended]
    BY <1>2
  <2>2. left \in Seq(Nat) /\ ended \in BOOLEAN
    BY <1>16
  <2> HIDE DEF left, ended
  <2>3. w.codec.pend = left /\ w.codec.ended = ended /\ w.codec \in Libraries
    BY <2>1, <2>2 DEF Libraries
  <2> QED BY <2>3 DEF left, ended
<1>18. Len(w.out) < room => w.codec.pend = << >>
  BY <1>14, <1>15, <1>16, <1>17
<1>19. w.ec = "general" => \E k \in 1..Len(in) : in[k].mark = "bad"
  BY <1>2, <1>13
<1>20. w.ec = "need_buffers" => in = << >>
  <2> SUFFICES ASSUME w.ec = "need_buffers" PROVE in = << >>
    OBVIOUS
  <2>1. used = 0 /\ n = 0 /\ ~c.ended
    BY <1>2
  <2>2. Len(c.pend) = 0
    BY <1>14, <1>15, <2>1
  <2>3. Live(in) = << >>
    BY <1>5, <1>9, <2>1, <2>2
  <2> QED BY <2>3, LiveType
<1>21. w.ec # "general" => last.mark # "bad"
  BY <1>2
<1> HIDE DEF d, ec
<1>22. ASSUME last.mark # "bad"
       PROVE  c.pend \o Ahead(c, in \o t)
                = w.out \o (w.codec.pend \o Ahead(w.codec, w.rest \o t))
  <2> DEFINE next == Ahead(w.codec, w.rest \o t)
  <2>1. /\ in \o t \in Seq(Symbols) /\ Take(in \o t, used) = taken
        /\ Drop(in \o t, used) = w.rest \o t
        /\ used \in 0..Len(in \o t)
        /\ \A k \in 1..Len(in) : (in \o t)[k] = in[k]
    <3>1. in \o t \in Seq(Symbols) /\ Len(in \o t) = Len(in) + Len(t) /\ Len(t) \in Nat
      BY ConcatProperties
    <3>2. Take(in \o t, used) = Take(in, used) /\ Drop(in \o t, used) = Drop(in, used) \o t
      BY <1>10, TakeOfTwo
    <3>3. used \in 0..Len(in \o t)
      BY <1>10, <3>1
    <3> QED BY <1>2, <1>12, <3>1, <3>2, <3>3
  <2> DEFINE all == in \o t
             left == w.rest \o t
  <2>2. left \in Seq(Symbols)
    <3>1. Drop(all, used) \in Seq(Symbols)
      BY <2>1, TakeAndDrop
    <3> QED BY <2>1, <3>1
  <2>3. made = c.pend \o Plain(taken)
    BY DEF made
  <2>4. next \in Seq(Nat) /\ c.pend \o Ahead(c, all) = made \o next
    <3>1. CASE c.ended
      <4>1. Ahead(c, all) = << >> /\ next = << >>
        BY <1>17, <3>1 DEF Ahead
      <4>2. made = c.pend
        BY <1>5, <1>6, <1>10, <1>14, <3>1
      <4> QED BY <1>3, <4>1, <4>2
    <3>2. CASE ~c.ended /\ last.mark = "end"
      <4>1. next = << >>
        BY <1>17, <3>2 DEF Ahead
      <4>2. used \in 1..Len(in) /\ in[used].mark = "end"
        BY <1>13, <3>2
      <4>3. used \in 1..Len(all) /\ all[used].mark # "data"
            /\ \A k \in 1..(used - 1) : all[k].mark = "data"
        <5>1. \A k \in 1..(used - 1) : k \in 1..Len(in)
          BY <1>10
        <5> QED BY <1>10, <1>13, <2>1, <4>2, <5>1
      <4>4. Live(all) = taken
        <5> HIDE DEF all
        <5>1. Live(all) = Take(all, used)
          BY <2>1, <4>3, LiveStops DEF all
        <5> QED BY <2>1, <5>1 DEF all
      <4>5. Ahead(c, all) = Plain(taken)
        BY <3>2, <4>4 DEF Ahead
      <4> QED BY <1>3, <1>14, <2>3, <4>1, <4>5, BytesJoin
    <3>3. CASE ~c.ended /\ last.mark = "data"
      <4>1. \A k \in 1..used : all[k].mark = "data"
        <5>1. ASSUME NEW k \in 1..used PROVE all[k].mark = "data"
          <6>1. k \in 1..Len(in) /\ (k = used \/ k \in 1..(used - 1))
            BY <1>10
          <6>2. in[k].mark = "data"
            BY <1>13, <3>3, <6>1
          <6> QED BY <2>1, <6>1, <6>2
        <5> QED BY <5>1
      <4>2. Live(all) = taken \o Live(left)
        <5>1. Live(all) = Take(all, used) \o Live(Drop(all, used))
          <6> HIDE DEF all
          <6> QED BY <2>1, <4>1, LiveBehind DEF all
        <5> QED BY <2>1, <5>1
      <4>3. Live(left) \in Seq(Symbols)
        <5> HIDE DEF left
        <5> QED BY <2>2, LiveType
      <4>4. Ahead(c, all) = Plain(taken \o Live(left)) /\ next = Plain(Live(left))
        BY <1>17, <3>3, <4>2 DEF Ahead
      <4>5. Plain(taken \o Live(left)) = Plain(taken) \o Plain(Live(left))
        <5> HIDE DEF left
        <5> QED BY <1>11, <4>3, PlainJoin
      <4>6. Plain(taken) \in Seq(Nat) /\ Plain(Live(left)) \in Seq(Nat)
        <5> HIDE DEF left
        <5> QED BY <1>11, <4>3, PlainType
      <4> DEFINE p == Plain(taken)
                 q == Plain(Live(left))
      <4>7. c.pend \o (p \o q) = (c.pend \o p) \o q
        <5>1. p \in Seq(Nat) /\ q \in Seq(Nat) /\ c.pend \in Seq(Nat)
          BY <1>3, <4>6
        <5> HIDE DEF p, q
        <5> QED BY <5>1, BytesRegroup
      <4> QED BY <2>3, <4>4, <4>5, <4>6, <4>7
    <3> QED BY <1>3, <1>13, <1>22, <3>1, <3>2, <3>3
  <2> HIDE DEF next, all
  <2>5. made \o next = w.out \o (w.codec.pend \o next)
    <3> DEFINE x == w.out
               y == Drop(made, n)
    <3>1. x \in Seq(Nat) /\ y \in Seq(Nat) /\ made = x \o y /\ w.codec.pend = y
      BY <1>16, <1>17
    <3> HIDE DEF x, y
    <3>2. (x \o y) \o next = x \o (y \o next)
      <4>1. x \in Seq(Nat) /\ y \in Seq(Nat) /\ next \in Seq(Nat)
        BY <2>4, <3>1
      <4> QED BY <4>1, BytesRegroup
    <3> QED BY <3>1, <3>2 DEF x
  <2> QED BY <2>4, <2>5 DEF next, all
<1>23. \E u \in 0..Len(in) : w.rest = Drop(in, u)
  BY <1>2, <1>10
<1> QED BY <1>16, <1>17, <1>18, <1>19, <1>20, <1>21, <1>22, <1>23 DEF WritesWell

\* What is not there is no codec.
LEMMA NoCodingIsNone == NoCoding.kind \notin Decoders \cup Encoders
<1>1. NoCoding.kind = None
  BY DEF NoCoding
<1> QED BY <1>1 DEF None, Decoders, Encoders

\* What is sent are symbols.
LEMMA SentAreSymbols ==
  ASSUME coding \in Codings
  PROVE  /\ Sent \subseteq Symbols /\ coding.wire \in Seq(Symbols) /\ coding.fault \in BOOLEAN
         /\ coding.kind \in Decoders \cup Encoders
         /\ coding # NoCoding
<1>1. coding \in [kind : Decoders \cup Encoders, wire : Seq(Symbols), fault : BOOLEAN]
  BY CodingsAssumption
<1>2. coding.wire \in Seq(Symbols)
  BY <1>1
<1> DEFINE wire == coding.wire
<1>3. \A k \in DOMAIN wire : wire[k] \in Symbols
  <2> HIDE DEF wire
  <2>1. wire \in Seq(Symbols)
    BY <1>2 DEF wire
  <2> QED BY <2>1
<1>4. coding # NoCoding
  BY <1>1, NoCodingIsNone
<1> QED BY <1>1, <1>2, <1>3, <1>4 DEF Sent

\* A sequence of some of a set is a sequence of it.
LEMMA SeqOfMore ==
  ASSUME NEW S, NEW T, S \subseteq T, NEW s \in Seq(S)
  PROVE  s \in Seq(T)
OBVIOUS

\* Only a codec has a coding.
LEMMA CoderHasNoFile ==
  ASSUME FileInv, coding.kind \in Decoders \cup Encoders
  PROVE  step = None /\ coding \in Codings
BY NoCodingIsNone DEF FileInv, OneSource

\* A step of a codec leaves what is said of files.
LEMMA FilesUntouched ==
  ASSUME FileInv, step = None, coding \in Codings, coding' = coding, UNCHANGED fileVars, BodyTypes'
  PROVE  FileInv'
<1>1. FileTypes'
  BY DEF FileInv, FileTypes, fileVars
<1>2. OneSource'
  BY DEF OneSource, fileVars
<1>3. BeforeReading'
  BY DEF BeforeReading, fileVars, None
<1>4. SeenIsTold'
  BY DEF SeenIsTold, Telling, fileVars, None
<1>5. FileFillsItsChunks' /\ FileIsAhead'
  BY DEF FileFillsItsChunks, FileIsAhead, fileVars, None
<1> QED BY <1>1, <1>2, <1>3, <1>4, <1>5 DEF FileInv

\* The end of what a codec reads: nothing else changes.
LEMMA CodecStops ==
  ASSUME BodiesInv, coding \in Codings, UNCHANGED <<coding, rest, codec, readable, filled>>,
         UNCHANGED <<whole, cut, got, hollow>>, verdict' \in {"eof", "error"},
         verdict' = "error" /\ coding.kind \in Decoders =>
           \/ coding.fault
           \/ \E k \in DOMAIN coding.wire : coding.wire[k].mark = "bad"
           \/ coding.kind = "zlib" /\ readable = << >> /\ Len(filled) >= Room
  PROVE  BodyTypes' /\ CodecInv'
<1>1. BodyTypes'
  BY DEF BodiesInv, FileInv, BodyTypes
<1>2. CodecTypes' /\ DecodingFailsForCause'
  BY DEF BodiesInv, CodecInv, CodecTypes, Sent, DecodingFailsForCause
<1>3. DecoderIsAhead' /\ EncoderIsAhead'
  BY DEF BodiesInv, CodecInv, DecoderIsAhead, EncoderIsAhead, Coming, Ahead
<1> QED BY <1>1, <1>2, <1>3 DEF CodecInv

LEMMA ReadPieceInv ==
  ASSUME BodiesInv, ReadPiece, UNCHANGED fileVars
  PROVE  BodiesInv'
<1>1. /\ coding.kind \in Decoders /\ verdict = "open" /\ readable = << >> /\ filled = << >>
      /\ UNCHANGED <<coding, whole, cut>>
  BY DEF ReadPiece, SourceStops, Reading, codecVars
<1>2. step = None /\ coding \in Codings
  BY <1>1, CoderHasNoFile DEF BodiesInv
<1>3. CASE SourceStops
  <2>1. UNCHANGED <<coding, rest, codec, readable, filled>> /\ UNCHANGED <<whole, cut, got, hollow>>
        /\ verdict' = IF coding.fault THEN "error" ELSE "eof"
    BY <1>3 DEF SourceStops, Stop, codecVars
  <2>2. BodyTypes' /\ CodecInv'
    BY <1>2, <2>1, CodecStops
  <2> QED BY <1>1, <1>2, <2>2, FilesUntouched DEF BodiesInv
<1>4. CASE Deliver(<< >>) /\ UNCHANGED codecVars
  <2>1. got' = got /\ hollow' = TRUE /\ verdict' = verdict
        /\ UNCHANGED <<coding, rest, codec, readable, filled>>
    BY <1>4, BytesJoin DEF Deliver, codecVars, BodiesInv, FileInv, BodyTypes
  <2>2. BodyTypes'
    BY <1>1, <2>1 DEF BodiesInv, FileInv, BodyTypes
  <2>3. CodecTypes' /\ DecodingFailsForCause'
    BY <2>1 DEF BodiesInv, CodecInv, CodecTypes, Sent, DecodingFailsForCause
  <2>4. DecoderIsAhead' /\ EncoderIsAhead'
    BY <1>1, <2>1 DEF BodiesInv, CodecInv, DecoderIsAhead, EncoderIsAhead, Coming, Ahead
  <2> QED BY <1>1, <1>2, <2>2, <2>3, <2>4, FilesUntouched DEF BodiesInv, CodecInv
<1>5. CASE \E n \in 1..Len(rest) :
             /\ readable' = Take(rest, n)
             /\ rest' = Drop(rest, n)
             /\ UNCHANGED <<coding, codec, filled, got, hollow, verdict>>
  <2>1. PICK n \in 1..Len(rest) :
              /\ readable' = Take(rest, n)
              /\ rest' = Drop(rest, n)
              /\ UNCHANGED <<coding, codec, filled, got, hollow, verdict>>
    BY <1>5
  <2>2. rest \in Seq(Sent) /\ n \in 0..Len(rest) /\ n > 0
    BY DEF BodiesInv, CodecInv, CodecTypes
  <2>3. /\ readable' \in Seq(Sent) /\ rest' \in Seq(Sent) /\ Len(readable') = n
        /\ rest = readable' \o rest'
    BY <2>1, <2>2, TakeAndDrop, ZenonT(40)
  <2>4. readable' # << >> /\ Sent' = Sent
    BY <2>1, <2>2, <2>3 DEF Sent
  <2>5. readable \o rest = readable' \o rest'
    BY <1>1, <2>2, <2>3
  <2>6. Coming' = Coming
    BY <2>1, <2>5 DEF Coming, Ahead
  <2>7. BodyTypes'
    BY <1>1, <2>1 DEF BodiesInv, FileInv, BodyTypes
  <2>8. CodecTypes' /\ DecodingFailsForCause'
    BY <1>1, <2>1, <2>3, <2>4 DEF BodiesInv, CodecInv, CodecTypes, DecodingFailsForCause
  <2>9. DecoderIsAhead' /\ EncoderIsAhead'
    BY <1>1, <2>1, <2>4, <2>6 DEF BodiesInv, CodecInv, DecoderIsAhead, EncoderIsAhead,
                                  Decoders, Encoders
  <2> QED BY <1>1, <1>2, <2>1, <2>7, <2>8, <2>9, FilesUntouched DEF BodiesInv, CodecInv
<1> QED BY <1>3, <1>4, <1>5 DEF ReadPiece

\* What is to come is bytes.
LEMMA AheadType ==
  ASSUME NEW c \in Libraries, NEW in \in Seq(Symbols)
  PROVE  Ahead(c, in) \in Seq(Nat)
<1>1. << >> \in Seq(Nat)
  BY EmptySeq
<1>2. Live(in) \in Seq(Symbols)
  BY LiveType
<1>3. Plain(Live(in)) \in Seq(Nat)
  BY <1>2, PlainType
<1> QED BY <1>1, <1>3 DEF Ahead

\* What was got, filled and put out and what is to come, in two other groupings.
IsMoved(g, f, o, r) ==
  /\ g \o (f \o (o \o r)) = g \o ((f \o o) \o r)
  /\ g \o (f \o (o \o r)) = (g \o (f \o o)) \o (<< >> \o r)

\* Output that is put behind what was filled, or given to the reader with it, is
\* still in its place.
LEMMA Moved ==
  ASSUME NEW g \in Seq(Nat), NEW f \in Seq(Nat), NEW o \in Seq(Nat), NEW r \in Seq(Nat)
  PROVE  IsMoved(g, f, o, r)
<1>1. f \o (o \o r) = (f \o o) \o r
  BY BytesRegroup
<1>2. f \o o \in Seq(Nat) /\ << >> \o r = r
  BY BytesJoin
<1>3. g \o ((f \o o) \o r) = (g \o (f \o o)) \o r
  BY <1>2, BytesRegroup, ZenonT(40)
<1> QED BY <1>1, <1>2, <1>3 DEF IsMoved

\* The two in the middle of four are joined last or first.
InnerJoined(g, a, b, r) == (g \o a) \o (b \o r) = g \o ((a \o b) \o r)

\* What is given of what was held, and what is held of it then.
LEMMA Shifted ==
  ASSUME NEW g \in Seq(Nat), NEW a \in Seq(Nat), NEW b \in Seq(Nat), NEW r \in Seq(Nat)
  PROVE  InnerJoined(g, a, b, r)
<1> DEFINE x == b \o r
<1>1. x \in Seq(Nat)
  BY BytesJoin
<1> HIDE DEF x
<1>2. g \o (a \o x) = (g \o a) \o x
  BY <1>1, BytesRegroup, ZenonT(40)
<1>3. a \o (b \o r) = (a \o b) \o r
  BY BytesRegroup
<1> QED BY <1>2, <1>3 DEF x, InnerJoined

LEMMA DecodeInv ==
  ASSUME BodiesInv, Decode, UNCHANGED fileVars
  PROVE  BodiesInv'
<1> DEFINE room == OutputRoom(readable)
           w == Write(codec, readable, room)
<1>1. /\ coding.kind \in Decoders /\ verdict = "open"
      /\ readable # << >> \/ filled # << >>
      /\ UNCHANGED <<coding, rest, whole, cut>>
  BY DEF Decode, Reading
<1>2. \/ /\ IsError(w.ec) /\ Stop("error") /\ UNCHANGED <<codec, readable, filled>>
      \/ /\ ~IsError(w.ec) /\ PieceDone(w, room)
         /\ Deliver(filled \o w.out)
         /\ codec' = w.codec /\ readable' = << >> /\ filled' = << >>
      \/ /\ ~IsError(w.ec) /\ ~PieceDone(w, room)
         /\ codec' = w.codec /\ readable' = w.rest /\ filled' = filled \o w.out
         /\ UNCHANGED <<got, hollow, verdict>>
  <2> HIDE DEF w, room
  <2> QED BY DEF Decode, w, room
<1>3. step = None /\ coding \in Codings
  BY <1>1, CoderHasNoFile DEF BodiesInv
<1>4. Sent \subseteq Symbols /\ Sent' = Sent
  BY <1>1, <1>3, SentAreSymbols DEF Sent
<1>5. /\ rest \in Seq(Sent) /\ readable \in Seq(Sent) /\ filled \in Seq(Nat)
      /\ codec \in Libraries /\ got \in Seq(Nat) /\ hollow \in BOOLEAN /\ cut \in BOOLEAN
      /\ whole \in Seq(Nat)
  BY DEF BodiesInv, CodecInv, CodecTypes, FileInv, BodyTypes, Libraries
<1>6. rest \in Seq(Symbols) /\ readable \in Seq(Symbols)
  BY <1>4, <1>5, SeqOfMore
<1>7. room \in Nat \ {0} /\ room >= Room /\ Room \in Nat \ {0}
  BY <1>6, CodingsAssumption DEF OutputRoom
<1> HIDE DEF w, room
<1>8. w = Write(codec, readable, room)
  BY DEF w
<1>9. /\ w.codec \in Libraries /\ w.out \in Seq(Nat)
      /\ \E u \in 0..Len(readable) : w.rest = Drop(readable, u)
      /\ w.ec = "general" => \E k \in 1..Len(readable) : readable[k].mark = "bad"
      /\ w.ec = "need_buffers" => readable = << >>
      /\ Len(w.out) < room => w.codec.pend = << >>
      /\ w.ec # "general" =>
           codec.pend \o Ahead(codec, readable \o rest)
             = w.out \o (w.codec.pend \o Ahead(w.codec, w.rest \o rest))
  <2>1. codec \in Libraries
    BY <1>5
  <2>2. readable \in Seq(Symbols)
    BY <1>6
  <2>3. rest \in Seq(Symbols)
    BY <1>6
  <2>4. room \in Nat \ {0}
    BY <1>7
  <2>5. WritesWell(codec, readable, rest, room, w)
    BY <1>8, <2>1, <2>2, <2>3, <2>4, Written
  <2> QED BY <2>5 DEF WritesWell
<1>10. w.rest \in Seq(Sent) /\ w.rest \in Seq(Symbols)
  <2>1. w.rest \in Seq(Sent)
    BY <1>5, <1>9, TakeAndDrop
  <2> QED BY <1>4, <2>1, SeqOfMore
<1>11. /\ ~cut
       /\ whole = got \o (filled \o (codec.pend \o Coming))
       /\ readable = << >> /\ filled = << >> => codec.pend = << >>
       /\ readable = << >> /\ filled # << >> => Len(filled) >= Room
  BY <1>1 DEF BodiesInv, CodecInv, DecoderIsAhead
<1>12. CASE IsError(w.ec) /\ Stop("error") /\ UNCHANGED <<codec, readable, filled>>
  <2>1. UNCHANGED <<coding, rest, codec, readable, filled>> /\ UNCHANGED <<whole, cut, got, hollow>>
        /\ verdict' = "error"
    BY <1>1, <1>12 DEF Stop
  <2>2. \/ \E k \in DOMAIN coding.wire : coding.wire[k].mark = "bad"
        \/ coding.kind = "zlib" /\ readable = << >> /\ Len(filled) >= Room
    <3>1. w.ec = "general" \/ (coding.kind = "zlib" /\ w.ec = "need_buffers")
      BY <1>1, <1>12 DEF IsError, Decoders
    <3>2. CASE w.ec = "general"
      <4>1. PICK k \in 1..Len(readable) : readable[k].mark = "bad"
        BY <1>9, <3>2
      <4>2. readable[k] \in Sent
        BY <1>5
      <4> QED BY <4>1, <4>2 DEF Sent
    <3>3. CASE coding.kind = "zlib" /\ w.ec = "need_buffers"
      BY <1>1, <1>9, <1>11, <3>3
    <3> QED BY <3>1, <3>2, <3>3
  <2>3. BodyTypes' /\ CodecInv'
    BY <1>3, <2>1, <2>2, CodecStops
  <2> QED BY <1>1, <1>3, <2>3, FilesUntouched DEF BodiesInv
<1> DEFINE behind == w.codec.pend \o Ahead(w.codec, w.rest \o rest)
<1>13. w.codec.pend \in Seq(Nat) /\ behind \in Seq(Nat)
  <2>1. w.rest \o rest \in Seq(Symbols)
    BY <1>6, <1>10, JoinType
  <2>2. w.codec.pend \in Seq(Nat)
    BY <1>9 DEF Libraries
  <2> DEFINE a == Ahead(w.codec, w.rest \o rest)
  <2>3. a \in Seq(Nat)
    BY <1>9, <2>1, AheadType
  <2> HIDE DEF a
  <2>4. w.codec.pend \o a \in Seq(Nat)
    BY <2>2, <2>3, BytesJoin
  <2> QED BY <2>2, <2>4 DEF a
<1> DEFINE o == w.out
<1>14. ~IsError(w.ec) =>
         /\ whole = got \o ((filled \o o) \o behind)
         /\ whole = (got \o (filled \o o)) \o (<< >> \o behind)
  <2> SUFFICES ASSUME ~IsError(w.ec)
               PROVE  /\ whole = got \o ((filled \o o) \o behind)
                      /\ whole = (got \o (filled \o o)) \o (<< >> \o behind)
    OBVIOUS
  <2>1. w.ec # "general"
    BY <1>1 DEF IsError, Decoders
  <2>2. whole = got \o (filled \o (o \o behind))
    BY <1>9, <1>11, <2>1 DEF Coming
  <2>3. got \in Seq(Nat)
    BY <1>5
  <2>4. filled \in Seq(Nat)
    BY <1>5
  <2>5. o \in Seq(Nat)
    BY <1>9
  <2>6. behind \in Seq(Nat)
    BY <1>13
  <2> HIDE DEF o, behind
  <2>7. /\ got \o (filled \o (o \o behind)) = got \o ((filled \o o) \o behind)
        /\ got \o (filled \o (o \o behind)) = (got \o (filled \o o)) \o (<< >> \o behind)
    <3>1. IsMoved(got, filled, o, behind)
      BY <2>3, <2>4, <2>5, <2>6, Moved
    <3> QED BY <3>1, Zenon DEF IsMoved
  <2> QED BY <2>2, <2>7
<1>15. filled \o o \in Seq(Nat)
  BY <1>5, <1>9, BytesJoin
<1>16. CASE /\ ~IsError(w.ec) /\ PieceDone(w, room)
            /\ Deliver(filled \o w.out)
            /\ codec' = w.codec /\ readable' = << >> /\ filled' = << >>
  <2> DEFINE piece == filled \o o
  <2>1. w.rest = << >> /\ w.codec.pend = << >>
    BY <1>9, <1>16 DEF PieceDone
  <2>2. /\ got' = got \o piece /\ verdict' = "open"
        /\ hollow' = (hollow \/ piece = << >>)
    BY <1>1, <1>16 DEF Deliver
  <2>3. piece \in Seq(Nat)
    BY <1>15
  <2>4. whole = (got \o piece) \o (<< >> \o behind)
    BY <1>14, <1>16
  <2> HIDE DEF piece
  <2>5. got' \in Seq(Nat) /\ hollow' \in BOOLEAN
    BY <1>5, <2>2, <2>3, BytesJoin
  <2>6. BodyTypes'
    BY <1>1, <1>5, <2>2, <2>5 DEF BodyTypes
  <2>7. << >> \in Seq(Sent) /\ << >> \in Seq(Nat)
    BY EmptySeq
  <2>8. CodecTypes' /\ DecodingFailsForCause'
    BY <1>1, <1>4, <1>5, <1>9, <1>16, <2>2, <2>7
       DEF CodecTypes, DecodingFailsForCause, Libraries
  <2>9. codec'.pend \o Coming' = behind
    BY <1>1, <1>16, <2>1 DEF Coming
  <2>10. whole' = got' \o (filled' \o (codec'.pend \o Coming'))
    BY <1>1, <1>16, <2>2, <2>4, <2>9
  <2>11. DecoderIsAhead' /\ EncoderIsAhead'
    BY <1>1, <1>11, <1>16, <2>1, <2>10 DEF DecoderIsAhead, EncoderIsAhead, Decoders, Encoders
  <2> QED BY <1>1, <1>3, <2>6, <2>8, <2>11, FilesUntouched DEF BodiesInv, CodecInv
<1>17. CASE /\ ~IsError(w.ec) /\ ~PieceDone(w, room)
            /\ codec' = w.codec /\ readable' = w.rest /\ filled' = filled \o w.out
            /\ UNCHANGED <<got, hollow, verdict>>
  <2>1. BodyTypes'
    BY <1>1, <1>5, <1>17 DEF BodyTypes
  <2>2. CodecTypes' /\ DecodingFailsForCause'
    BY <1>1, <1>4, <1>5, <1>9, <1>10, <1>15, <1>17
       DEF CodecTypes, DecodingFailsForCause, Libraries
  <2>3. codec'.pend \o Coming' = behind
    BY <1>1, <1>17 DEF Coming
  <2>4. whole' = got' \o (filled' \o (codec'.pend \o Coming'))
    BY <1>1, <1>14, <1>17, <2>3
  <2>5. w.rest = << >> => Len(filled \o w.out) >= Room
    <3>1. w.rest = << >> => Len(w.out) >= room
      BY <1>7, <1>9, <1>17 DEF PieceDone
    <3>2. Len(filled \o w.out) = Len(filled) + Len(w.out) /\ Len(filled) \in Nat /\ Len(w.out) \in Nat
      BY <1>5, <1>9, ConcatProperties
    <3> QED BY <1>7, <3>1, <3>2
  <2>6. readable' = << >> => filled' # << >> /\ Len(filled') >= Room
    BY <1>7, <1>17, <2>5
  <2>7. DecoderIsAhead' /\ EncoderIsAhead'
    BY <1>1, <1>11, <2>4, <2>6 DEF DecoderIsAhead, EncoderIsAhead, Decoders, Encoders
  <2> QED BY <1>1, <1>3, <2>1, <2>2, <2>7, FilesUntouched DEF BodiesInv, CodecInv
<1> QED BY <1>2, <1>12, <1>16, <1>17
-----------------------------------------------------------------------------
(* Encoders.                                                               *)

\* What an encoder gives and what it holds then are what it held and took.
LEMMA Divided ==
  ASSUME NEW made \in Seq(Nat), NEW n \in 0..Len(made)
  PROVE  /\ Take(made, n) \in Seq(Nat) /\ Drop(made, n) \in Seq(Nat)
         /\ made = Take(made, n) \o Drop(made, n)
         /\ n = Len(made) => Take(made, n) = made /\ Drop(made, n) = << >>
<1> DEFINE a == Take(made, n)
           b == Drop(made, n)
<1>1. a \in Seq(Nat) /\ b \in Seq(Nat) /\ made = a \o b /\ Len(b) = Len(made) - n
  BY TakeAndDrop
<1> HIDE DEF a, b
<1>2. n = Len(made) => b = << >>
  BY <1>1
<1>3. a \o << >> = a
  BY <1>1, BytesJoin
<1> QED BY <1>1, <1>2, <1>3 DEF a, b

\* A piece of what is to be encoded.
LEMMA PieceOfRest ==
  ASSUME BodiesInv, coding.kind \in Encoders, NEW n \in 1..Len(rest)
  PROVE  /\ Plain(Take(rest, n)) \in Seq(Nat) /\ Plain(Drop(rest, n)) \in Seq(Nat)
         /\ Plain(rest) = Plain(Take(rest, n)) \o Plain(Drop(rest, n))
         /\ Drop(rest, n) \in Seq(Sent)
         /\ rest # << >>
<1> DEFINE a == Take(rest, n)
           b == Drop(rest, n)
<1>1. coding \in Codings /\ rest \in Seq(Sent)
  BY CoderHasNoFile DEF BodiesInv, CodecInv, CodecTypes
<1>2. rest \in Seq(Symbols)
  BY <1>1, SentAreSymbols, SeqOfMore
<1>3. n \in 0..Len(rest) /\ rest # << >>
  BY <1>2
<1>4. a \in Seq(Symbols) /\ b \in Seq(Symbols) /\ rest = a \o b
  BY <1>2, <1>3, TakeAndDrop
<1>5. b \in Seq(Sent)
  BY <1>1, <1>3, TakeAndDrop
<1> HIDE DEF a, b
<1>6. Plain(a) \in Seq(Nat) /\ Plain(b) \in Seq(Nat)
  BY <1>4, PlainType
<1>7. Plain(a \o b) = Plain(a) \o Plain(b)
  BY <1>4, PlainJoin
<1> QED BY <1>3, <1>4, <1>5, <1>6, <1>7 DEF a, b

LEMMA EncodePieceInv ==
  ASSUME BodiesInv, EncodePiece, UNCHANGED fileVars
  PROVE  BodiesInv'
<1>1. /\ coding.kind \in Encoders /\ verdict = "open"
      /\ UNCHANGED <<coding, readable, filled, whole>>
  BY DEF EncodePiece, Reading
<1>2. step = None /\ coding \in Codings
  BY <1>1, CoderHasNoFile DEF BodiesInv
<1>3. PICK n \in 1..Len(rest) :
        LET piece == Plain(Take(rest, n))
            room == OutputRoom(piece)
        IN \E taken \in 0..Len(piece) :
             LET made == codec.pend \o Take(piece, taken)
             IN \E out \in 0..Least(Len(made), room) :
                  /\ Len(made) - out <= Backlog
                  /\ taken < Len(piece) => out = room
                  /\ Deliver(Take(made, out))
                  /\ codec' = [codec EXCEPT !.pend = Drop(made, out)]
                  /\ cut' = (cut \/ Missing(piece, taken))
                  /\ rest' = Drop(rest, n)
  BY DEF EncodePiece
<1> DEFINE piece == Plain(Take(rest, n))
           room == OutputRoom(piece)
<1>4. PICK taken \in 0..Len(piece) :
        LET made == codec.pend \o Take(piece, taken)
        IN \E out \in 0..Least(Len(made), room) :
             /\ Deliver(Take(made, out))
             /\ codec' = [codec EXCEPT !.pend = Drop(made, out)]
             /\ cut' = (cut \/ Missing(piece, taken))
             /\ rest' = Drop(rest, n)
  BY <1>3
<1> DEFINE made == codec.pend \o Take(piece, taken)
<1>5. PICK out \in 0..Least(Len(made), room) :
        /\ Deliver(Take(made, out))
        /\ codec' = [codec EXCEPT !.pend = Drop(made, out)]
        /\ cut' = (cut \/ Missing(piece, taken))
        /\ rest' = Drop(rest, n)
  BY <1>4
<1>6. /\ piece \in Seq(Nat) /\ Plain(rest') \in Seq(Nat)
      /\ Plain(rest) = piece \o Plain(rest')
      /\ rest' \in Seq(Sent) /\ rest # << >>
  BY <1>1, <1>5, PieceOfRest
<1> HIDE DEF piece, room
<1>7. /\ codec.pend \in Seq(Nat) /\ codec \in Libraries /\ got \in Seq(Nat)
      /\ hollow \in BOOLEAN /\ cut \in BOOLEAN /\ whole \in Seq(Nat)
      /\ readable \in Seq(Sent) /\ filled \in Seq(Nat)
  BY DEF BodiesInv, CodecInv, CodecTypes, FileInv, BodyTypes, Libraries
<1>8. Take(piece, taken) \in Seq(Nat) /\ (taken = Len(piece) => Take(piece, taken) = piece)
  BY <1>6, Divided
<1>9. made \in Seq(Nat)
  <2> DEFINE p == Take(piece, taken)
             q == codec.pend
  <2>1. p \in Seq(Nat) /\ q \in Seq(Nat)
    BY <1>7, <1>8
  <2> HIDE DEF p, q
  <2>2. q \o p \in Seq(Nat)
    BY <2>1, BytesJoin
  <2> QED BY <2>2 DEF p, q
<1>10. ~Missing(piece, taken) => made = codec.pend \o piece
  <2>1. Len(piece) \in Nat
    BY <1>6
  <2>2. ~Missing(piece, taken) => taken = Len(piece)
    BY <2>1 DEF Missing
  <2> QED BY <1>8, <2>2
<1> HIDE DEF made
<1>11. out \in 0..Len(made)
  <2>1. Len(made) \in Nat /\ Len(piece) \in Nat
    BY <1>6, <1>9
  <2>2. room \in Nat
    BY <2>1, CodingsAssumption DEF room, OutputRoom
  <2>3. Least(Len(made), room) \in 0..Len(made)
    BY <2>1, <2>2 DEF Least
  <2> QED BY <2>1, <2>3
<1> DEFINE a == Take(made, out)
           b == Drop(made, out)
<1>12. a \in Seq(Nat) /\ b \in Seq(Nat) /\ made = a \o b
  BY <1>9, <1>11, Divided
<1>13. /\ got' = got \o a /\ hollow' = (hollow \/ a = << >>) /\ verdict' = verdict
       /\ codec' = [codec EXCEPT !.pend = b]
  BY <1>5 DEF Deliver
<1> HIDE DEF a, b
<1>14. got' \in Seq(Nat) /\ hollow' \in BOOLEAN
  BY <1>7, <1>12, <1>13, BytesJoin
<1>15. codec' \in Libraries /\ codec'.pend = b /\ codec'.ended = codec.ended
  BY <1>7, <1>12, <1>13 DEF Libraries
<1>16. cut' \in BOOLEAN /\ (~cut' => ~cut /\ ~Missing(piece, taken))
  BY <1>5, <1>7 DEF Missing
<1>17. BodyTypes'
  BY <1>1, <1>7, <1>13, <1>14, <1>16 DEF BodyTypes
<1>18. CodecTypes' /\ DecodingFailsForCause'
  BY <1>1, <1>6, <1>7, <1>13, <1>15 DEF CodecTypes, Sent, DecodingFailsForCause, Libraries
<1>19. ~codec.ended
  BY <1>1, <1>6 DEF BodiesInv, CodecInv, EncoderIsAhead
<1>20. ~cut' => whole' = got' \o (codec'.pend \o (Plain(rest') \o <<0>>))
  <2> SUFFICES ASSUME ~cut'
               PROVE  whole = (got \o a) \o (b \o (Plain(rest') \o <<0>>))
    BY <1>1, <1>13, <1>15
  <2>1. whole = got \o (codec.pend \o (Plain(rest) \o <<0>>))
    BY <1>1, <1>16, <1>19 DEF BodiesInv, CodecInv, EncoderIsAhead
  <2> DEFINE more == Plain(rest')
             last == more \o <<0>>
  <2>2. <<0>> \in Seq(Nat)
    OBVIOUS
  <2>3. more \in Seq(Nat)
    BY <1>6
  <2>4. last \in Seq(Nat)
    <3> DEFINE z == <<0>>
    <3>1. z \in Seq(Nat)
      BY <2>2
    <3> HIDE DEF more, z
    <3>2. more \o z \in Seq(Nat)
      BY <2>3, <3>1, BytesJoin
    <3> QED BY <3>2 DEF z
  <2>5. Plain(rest) \o <<0>> = piece \o last
    <3> DEFINE z == <<0>>
    <3>1. z \in Seq(Nat)
      BY <2>2
    <3> HIDE DEF more, z
    <3>2. piece \o (more \o z) = (piece \o more) \o z
      BY <1>6, <2>3, <3>1, BytesRegroup
    <3> QED BY <1>6, <3>2 DEF more, z
  <2>6. a \o b = codec.pend \o piece
    BY <1>10, <1>12, <1>16
  <2> HIDE DEF last, more
  <2> DEFINE p == codec.pend
  <2>7. /\ got \in Seq(Nat) /\ a \in Seq(Nat) /\ b \in Seq(Nat) /\ p \in Seq(Nat)
        /\ piece \in Seq(Nat) /\ last \in Seq(Nat) /\ a \o b = p \o piece
    BY <1>6, <1>7, <1>12, <2>4, <2>6
  <2> HIDE DEF p
  <2>8. (got \o a) \o (b \o last) = got \o (p \o (piece \o last))
    <3>1. (got \o a) \o (b \o last) = got \o ((a \o b) \o last)
      <4>1. got \in Seq(Nat)
        BY <2>7
      <4>2. a \in Seq(Nat)
        BY <2>7
      <4>3. b \in Seq(Nat)
        BY <2>7
      <4>4. last \in Seq(Nat)
        BY <2>7
      <4>5. InnerJoined(got, a, b, last)
        BY <4>1, <4>2, <4>3, <4>4, Shifted
      <4> QED BY <4>5 DEF InnerJoined
    <3>2. p \o (piece \o last) = (p \o piece) \o last
      BY <2>7, BytesRegroup
    <3> QED BY <2>7, <3>1, <3>2
  <2> QED BY <2>1, <2>5, <2>8 DEF last, more, p
<1>21. DecoderIsAhead' /\ EncoderIsAhead'
  BY <1>1, <1>15, <1>19, <1>20 DEF DecoderIsAhead, EncoderIsAhead, Decoders, Encoders
<1> QED BY <1>1, <1>2, <1>17, <1>18, <1>21, FilesUntouched DEF BodiesInv, CodecInv

LEMMA FinishInv ==
  ASSUME BodiesInv, Finish, UNCHANGED fileVars
  PROVE  BodiesInv'
<1>1. /\ coding.kind \in Encoders /\ verdict = "open" /\ rest = << >>
      /\ UNCHANGED <<coding, rest, readable, filled, whole>>
  BY DEF Finish, Reading
<1>2. step = None /\ coding \in Codings
  BY <1>1, CoderHasNoFile DEF BodiesInv
<1>3. CASE coding.fault \/ codec.ended
  <2>1. /\ verdict' \in {"eof", "error"} /\ got' = got /\ hollow' = hollow
        /\ UNCHANGED <<codec, cut>>
    BY <1>3 DEF Finish, Stop
  <2>2. coding.kind \notin Decoders
    BY <1>1 DEF Encoders, Decoders
  <2>3. BodyTypes' /\ CodecInv'
    BY <1>1, <1>2, <2>1, <2>2, CodecStops
  <2> QED BY <1>1, <1>2, <2>3, FilesUntouched DEF BodiesInv
<1>4. CASE ~(coding.fault \/ codec.ended)
  <2> DEFINE made == codec.pend \o <<0>>
             n == Least(Len(made), Room)
             a == Take(made, n)
             b == Drop(made, n)
  <2>1. /\ Deliver(a)
        /\ codec' = [pend |-> b, ended |-> TRUE]
        /\ cut' = (cut \/ n < Len(made))
    BY <1>4 DEF Finish
  <2>2. /\ codec.pend \in Seq(Nat) /\ codec \in Libraries /\ got \in Seq(Nat)
        /\ hollow \in BOOLEAN /\ cut \in BOOLEAN /\ whole \in Seq(Nat)
        /\ readable \in Seq(Sent) /\ filled \in Seq(Nat) /\ rest \in Seq(Sent)
    BY DEF BodiesInv, CodecInv, CodecTypes, FileInv, BodyTypes, Libraries
  <2>3. made \in Seq(Nat)
    <3> DEFINE z == <<0>>
    <3>1. z \in Seq(Nat)
      OBVIOUS
    <3> HIDE DEF z
    <3>2. codec.pend \o z \in Seq(Nat)
      BY <2>2, <3>1, BytesJoin
    <3> QED BY <3>2 DEF z
  <2> HIDE DEF made
  <2>4. n \in 0..Len(made)
    BY <2>3, CodingsAssumption DEF Least
  <2> HIDE DEF n
  <2>5. a \in Seq(Nat) /\ b \in Seq(Nat) /\ (n = Len(made) => a = made)
    BY <2>3, <2>4, Divided
  <2> HIDE DEF a, b
  <2>6. got' = got \o a /\ hollow' = (hollow \/ a = << >>) /\ verdict' = verdict
    BY <2>1 DEF Deliver
  <2>7. codec' \in Libraries /\ codec'.ended = TRUE
    BY <2>1, <2>5 DEF Libraries
  <2>8. cut' \in BOOLEAN /\ (~cut' => ~cut /\ n = Len(made))
    <3>1. n \in Nat /\ Len(made) \in Nat /\ n <= Len(made)
      BY <2>3, <2>4
    <3>2. ~(n < Len(made)) => n = Len(made)
      BY <3>1
    <3>3. cut' = (cut \/ n < Len(made))
      BY <2>1
    <3> QED BY <2>2, <3>2, <3>3
  <2>9. got' \in Seq(Nat) /\ hollow' \in BOOLEAN
    BY <2>2, <2>5, <2>6, BytesJoin
  <2>10. BodyTypes'
    BY <1>1, <2>2, <2>6, <2>8, <2>9 DEF BodyTypes
  <2>11. CodecTypes' /\ DecodingFailsForCause'
    BY <1>1, <2>2, <2>6, <2>7 DEF CodecTypes, Sent, DecodingFailsForCause, Libraries
  <2>12. ~cut' => whole' = got'
    <3> SUFFICES ASSUME ~cut' PROVE whole = got \o made
      BY <1>1, <2>5, <2>6, <2>8
    <3>1. whole = got \o (codec.pend \o (Plain(rest) \o <<0>>))
      BY <1>1, <1>4, <2>8 DEF BodiesInv, CodecInv, EncoderIsAhead
    <3>2. Plain(rest) \o <<0>> = <<0>>
      <4>1. << >> \o <<0>> = <<0>>
        OBVIOUS
      <4> QED BY <1>1, <4>1, PlainEmpty
    <3> QED BY <3>1, <3>2 DEF made
  <2>13. DecoderIsAhead' /\ EncoderIsAhead'
    BY <1>1, <2>7, <2>12 DEF DecoderIsAhead, EncoderIsAhead, Decoders, Encoders
  <2> QED BY <1>1, <1>2, <2>10, <2>11, <2>13, FilesUntouched DEF BodiesInv, CodecInv
<1> QED BY <1>3, <1>4
-----------------------------------------------------------------------------
(* Every behaviour.                                                        *)

\* A sequence is one of its own members.
LEMMA SeqOfItsOwn ==
  ASSUME NEW S, NEW s \in Seq(S)
  PROVE  s \in Seq({s[k] : k \in DOMAIN s})
<1> DEFINE T == {s[k] : k \in DOMAIN s}
<1>1. Len(s) \in Nat /\ DOMAIN s = 1..Len(s) /\ s = [k \in 1..Len(s) |-> s[k]]
  OBVIOUS
<1>2. \A k \in 1..Len(s) : s[k] \in T
  BY <1>1
<1> HIDE DEF T
<1>3. [k \in 1..Len(s) |-> s[k]] \in Seq(T)
  BY <1>1, <1>2
<1> QED BY <1>1, <1>3 DEF T

LEMMA FileStarts ==
  ASSUME FileInit, NoCodec
  PROVE  BodiesInv
<1>0. W \in Nat \ {0} /\ 0 \in 0..(W - 1)
  BY FilesAssumption
<1>1. /\ whole = << >> /\ got = << >> /\ hollow = FALSE /\ verdict = "open" /\ cut = FALSE
      /\ path = 1 /\ handle = NoFile /\ asks \in Conditions /\ lmd = 0 /\ state = None
      /\ stream = [offset |-> 0, remaining |-> 0, at |-> 0] /\ step = "open" /\ seen = {}
  BY DEF FileInit, BodyInit
<1>2. << >> \in Seq(Nat) /\ << >> \in Seq(Sent)
  BY EmptySeq
<1>3. inodes \in Seq(Files) /\ Len(inodes) = 1
  <2>1. PICK size \in Sizes, time \in Times :
              inodes = <<[size |-> size, time |-> time, change |-> 0]>>
    BY DEF FileInit
  <2> DEFINE new == [size |-> size, time |-> time, change |-> 0]
  <2>2. new \in Files
    BY DEF Files
  <2> HIDE DEF new
  <2>3. inodes = <<new>>
    BY <2>1 DEF new
  <2> QED BY <2>2, <2>3
<1>4. BodyTypes
  BY <1>1, <1>2 DEF BodyTypes
<1>5. FileTypes
  BY <1>0, <1>1, <1>3 DEF FileTypes, NoFile, Steps, States
<1>6. coding = NoCoding /\ rest = << >> /\ readable = << >> /\ filled = << >>
      /\ codec = [pend |-> << >>, ended |-> FALSE]
  BY DEF NoCodec
<1>7. OneSource /\ BeforeReading
  BY <1>1, <1>6 DEF OneSource, BeforeReading, None
<1>8. SeenIsTold /\ FileFillsItsChunks /\ FileIsAhead
  BY <1>1 DEF SeenIsTold, Telling, FileFillsItsChunks, FileIsAhead, None
<1>9. CodecTypes
  BY <1>2, <1>6 DEF CodecTypes
<1>10. DecodingFailsForCause /\ DecoderIsAhead /\ EncoderIsAhead
  BY <1>1, <1>6, NoCodingIsNone DEF DecodingFailsForCause, DecoderIsAhead, EncoderIsAhead
<1> QED BY <1>4, <1>5, <1>7, <1>8, <1>9, <1>10 DEF BodiesInv, FileInv, CodecInv

LEMMA CodecStarts ==
  ASSUME CodecInit, NoStaticFile
  PROVE  BodiesInv
<1>0. W \in Nat \ {0} /\ 0 \in 0..(W - 1)
  BY FilesAssumption
<1>1. /\ got = << >> /\ hollow = FALSE /\ verdict = "open" /\ cut = FALSE
      /\ coding \in Codings /\ rest = coding.wire /\ readable = << >> /\ filled = << >>
      /\ codec = [pend |-> << >>, ended |-> FALSE]
  BY DEF CodecInit, BodyInit
<1>2. << >> \in Seq(Nat) /\ << >> \in Seq(Sent) /\ << >> \in Seq(Files)
  BY EmptySeq
<1>3. rest \in Seq(Symbols) /\ Sent \subseteq Symbols /\ coding.kind \in Decoders \cup Encoders
  BY <1>1, SentAreSymbols
<1>4. rest \in Seq(Sent)
  BY <1>1, <1>3, SeqOfItsOwn DEF Sent
<1>5. Plain(rest) \in Seq(Nat) /\ Plain(Live(rest)) \in Seq(Nat)
  <2>1. Live(rest) \in Seq(Symbols)
    BY <1>3, LiveType
  <2> QED BY <1>3, <2>1, PlainType
<1>6. Plain(rest) \o <<0>> \in Seq(Nat)
  <2> DEFINE z == <<0>>
             p == Plain(rest)
  <2>1. z \in Seq(Nat) /\ p \in Seq(Nat)
    BY <1>5
  <2> HIDE DEF z, p
  <2>2. p \o z \in Seq(Nat)
    BY <2>1, BytesJoin
  <2> QED BY <2>2 DEF z, p
<1>7. whole = IF coding.kind \in Encoders THEN Plain(rest) \o <<0>> ELSE Plain(Live(rest))
  BY <1>1 DEF CodecInit
<1>8. whole \in Seq(Nat)
  BY <1>5, <1>6, <1>7
<1>9. /\ inodes = << >> /\ path = 0 /\ handle = NoFile /\ step = None /\ state = None
      /\ lmd = 0 /\ stream = [offset |-> 0, remaining |-> 0, at |-> 0]
  BY DEF NoStaticFile
<1>10. BodyTypes
  BY <1>1, <1>2, <1>8 DEF BodyTypes
<1>11. FileTypes
  BY <1>0, <1>2, <1>9 DEF FileTypes, NoFile, Steps, States
<1>12. OneSource /\ BeforeReading
  BY <1>1, <1>9 DEF OneSource, BeforeReading, None
<1>13. SeenIsTold /\ FileFillsItsChunks /\ FileIsAhead
  BY <1>9 DEF SeenIsTold, Telling, FileFillsItsChunks, FileIsAhead, None
<1>14. CodecTypes /\ DecodingFailsForCause
  BY <1>1, <1>2, <1>4 DEF CodecTypes, DecodingFailsForCause
<1>15. \A x \in Seq(Nat) : << >> \o x = x
  BY BytesJoin
<1>16. DecoderIsAhead
  <2> SUFFICES ASSUME coding.kind \in Decoders PROVE DecoderIsAhead
    BY DEF DecoderIsAhead
  <2>1. whole = Plain(Live(rest))
    BY <1>7 DEF Decoders, Encoders
  <2>2. readable \o rest = rest
    BY <1>1, <1>3
  <2>3. Coming = whole
    BY <1>1, <2>1, <2>2 DEF Coming, Ahead
  <2>4. got \o (filled \o (codec.pend \o Coming)) = whole
    BY <1>1, <1>8, <1>15, <2>3
  <2> QED BY <1>1, <2>4 DEF DecoderIsAhead
<1>17. EncoderIsAhead
  <2> SUFFICES ASSUME coding.kind \in Encoders PROVE EncoderIsAhead
    BY DEF EncoderIsAhead
  <2>1. whole = Plain(rest) \o <<0>>
    BY <1>7
  <2>2. got \o (codec.pend \o (Plain(rest) \o <<0>>)) = whole
    BY <1>1, <1>8, <1>15, <2>1
  <2> QED BY <1>1, <2>2 DEF EncoderIsAhead
<1> QED BY <1>10, <1>11, <1>12, <1>13, <1>14, <1>16, <1>17 DEF BodiesInv, FileInv, CodecInv

LEMMA BodiesInit == Init => BodiesInv
BY FileStarts, CodecStarts DEF Init

\* A step of a file leaves what is said of codecs, of which there is none.
LEMMA FileStep ==
  ASSUME BodiesInv, step # None, Server \/ Others, UNCHANGED codecVars
  PROVE  BodiesInv'
<1>1. FileInv
  BY DEF BodiesInv
<1>2. FileInv'
  BY <1>1, OpenFileInv, LastModifiedInv, ValidateInv, ParseRangeInv, CheckRangeInv,
     ToResponseInv, ReadFileInv, ReadFailsInv, ReplaceInv, RewriteInv, RemoveFileInv DEF Server, Others
<1>3. coding = NoCoding /\ coding' = NoCoding
  BY <1>1 DEF FileInv, OneSource, codecVars
<1>4. CodecTypes'
  BY DEF BodiesInv, CodecInv, CodecTypes, Sent, codecVars
<1>5. DecodingFailsForCause' /\ DecoderIsAhead' /\ EncoderIsAhead'
  BY <1>3, NoCodingIsNone DEF DecodingFailsForCause, DecoderIsAhead, EncoderIsAhead
<1> QED BY <1>2, <1>4, <1>5 DEF BodiesInv, CodecInv

\* A step that changes nothing.
LEMMA NothingHappens ==
  ASSUME BodiesInv, UNCHANGED vars
  PROVE  BodiesInv'
<1>1. UNCHANGED bodyVars /\ UNCHANGED fileVars /\ UNCHANGED codecVars
  BY DEF vars
<1>2. BodyTypes' /\ FileTypes' /\ OneSource' /\ BeforeReading'
  BY <1>1 DEF BodiesInv, FileInv, BodyTypes, FileTypes, OneSource, BeforeReading,
              bodyVars, fileVars, codecVars
<1>6. SeenIsTold'
  BY <1>1, TellingStays DEF BodiesInv, FileInv, bodyVars, fileVars
<1>3. FileFillsItsChunks' /\ FileIsAhead'
  BY <1>1 DEF BodiesInv, FileInv, FileFillsItsChunks, FileIsAhead, Sought, File, bodyVars,
              fileVars
<1>4. CodecTypes' /\ DecodingFailsForCause'
  BY <1>1 DEF BodiesInv, CodecInv, CodecTypes, Sent, DecodingFailsForCause,
              bodyVars, codecVars
<1>5. DecoderIsAhead' /\ EncoderIsAhead'
  BY <1>1 DEF BodiesInv, CodecInv, DecoderIsAhead, EncoderIsAhead, Coming, Ahead,
              bodyVars, codecVars
<1> QED BY <1>2, <1>3, <1>4, <1>5, <1>6 DEF BodiesInv, FileInv, CodecInv

LEMMA BodiesStep ==
  ASSUME BodiesInv, [Next]_vars
  PROVE  BodiesInv'
<1>1. CASE step # None /\ (Server \/ Others) /\ UNCHANGED codecVars
  BY <1>1, FileStep
<1>2. CASE Coder /\ UNCHANGED fileVars
  BY <1>2, ReadPieceInv, DecodeInv, EncodePieceInv, FinishInv DEF Coder, CodecNext
<1>3. CASE UNCHANGED vars
  BY <1>3, NothingHappens
<1> QED BY <1>1, <1>2, <1>3 DEF Next, Done

LEMMA Always == Spec => []BodiesInv
<1>1. BodiesInv /\ [Next]_vars => BodiesInv'
  BY BodiesStep
<1> QED BY <1>1, BodiesInit, PTL DEF Spec

\* What the types say follows from the invariant.
LEMMA TypesHold ==
  ASSUME BodiesInv
  PROVE  TypeOK
<1>1. BodyTypes /\ FileTypes /\ OneSource /\ BeforeReading /\ CodecTypes
  BY DEF BodiesInv, FileInv, CodecInv
<1>2. SomeBytes(whole) /\ SomeBytes(got) /\ SomeBytes(codec.pend) /\ SomeBytes(filled)
  <2>1. \A s \in Seq(Nat) : SomeBytes(s)
    BY DEF SomeBytes
  <2> QED BY <1>1, <2>1 DEF BodyTypes, CodecTypes
<1>3. \A k \in DOMAIN inodes : inodes[k].size \in Sizes /\ inodes[k].time \in Times
  <2>1. \A k \in DOMAIN inodes : inodes[k] \in Files
    BY <1>1 DEF FileTypes
  <2> QED BY <2>1 DEF Files
<1>4. codec.ended \in BOOLEAN /\ (step # None => coding = NoCoding)
  BY <1>1 DEF CodecTypes, OneSource
<1>5. got # << >> /\ step # None => step = "read" /\ state \in Streams
  BY <1>1 DEF BeforeReading
<1>6. stream.offset \in 0..(W - 1) /\ stream.remaining \in 0..(W - 1) /\ stream.at \in Nat
  BY <1>1 DEF FileTypes
<1> QED BY <1>1, <1>2, <1>3, <1>4, <1>5, <1>6 DEF TypeOK, BodyTypes, FileTypes, Steps, States

\* The variables keep their types, and a body is read after its response was made,
\* from one of the two sources.
THEOREM BodiesTypes == Spec => []TypeOK
BY Always, TypesHold, PTL

\* If everything that was found out about the file for a response was found in one
\* state of one file, the response tells of that file: its tag, its time, whether a
\* client's copy is good, and how long it is.
THEOREM ResponsesAreOfOneFile == Spec => []ResponseIsOfOneFile
<1>1. BodiesInv => ResponseIsOfOneFile
  BY DEF BodiesInv, FileInv, SeenIsTold, Telling, ResponseIsOfOneFile
<1> QED BY <1>1, Always, PTL

\* A file never yields a piece without bytes, which would end a chunked response.
THEOREM FilesFillTheirChunks == Spec => []FileFillsItsChunks
<1>1. BodiesInv => FileFillsItsChunks
  BY DEF BodiesInv, FileInv
<1> QED BY <1>1, Always, PTL

\* A decoder fails only when the next layer does, when the data is bad, or when a
\* piece of zlib data fills the output exactly.
THEOREM DecodersFailForCause == Spec => []DecodingFailsForCause
<1>1. BodiesInv => DecodingFailsForCause
  BY DEF BodiesInv, CodecInv
<1> QED BY <1>1, Always, PTL
-----------------------------------------------------------------------------
(* What a reader may rely on.  Every step of a source is one of ByteSource  *)
(* or changes nothing a reader sees.                                       *)
Serves == [Source!Next]_(Source!vars)

\* The reader sees no difference.
LEMMA NothingSeen ==
  ASSUME UNCHANGED <<whole, cut, got, verdict>>
  PROVE  Serves
BY DEF Serves, Source!vars

\* The first bytes of what was got and more are what was got.
LEMMA FirstOfMore ==
  ASSUME NEW a \in Seq(Nat), NEW b \in Seq(Nat)
  PROVE  /\ Len(a) \in Nat /\ Len(a \o b) = Len(a) + Len(b) /\ Len(b) \in Nat
         /\ SubSeq(a \o b, 1, Len(a)) = a
<1> DEFINE c == a \o b
           d == SubSeq(c, 1, Len(a))
<1>1. /\ Len(a) \in Nat /\ Len(b) \in Nat /\ c \in Seq(Nat) /\ Len(c) = Len(a) + Len(b)
      /\ \A k \in 1..Len(a) : c[k] = a[k]
  OBVIOUS
<1> HIDE DEF c
<1>2. d \in Seq(Nat) /\ Len(d) = Len(a) /\ \A k \in 1..Len(a) : d[k] = c[k]
  BY <1>1
<1> HIDE DEF d
<1>3. d = a
  BY <1>1, <1>2, SeqEqual
<1> QED BY <1>1, <1>3 DEF c, d

\* The reader is given a piece, of which the source may have lost some.
LEMMA PieceServed ==
  ASSUME verdict = "open", UNCHANGED <<whole, verdict>>,
         got \in Seq(Nat), NEW piece \in Seq(Nat), got' = got \o piece,
         cut \in BOOLEAN, cut' \in BOOLEAN, cut => cut',
         ~cut' => \E more \in Seq(Nat) : whole = got' \o more
  PROVE  Serves
<1>1. /\ Len(got) \in Nat /\ Len(got') = Len(got) + Len(piece) /\ Len(piece) \in Nat
      /\ SubSeq(got', 1, Len(got)) = got
  BY FirstOfMore
<1>2. got' \in Seq(Nat) /\ Len(got') \in Nat
  BY BytesJoin, <1>1
<1>3. Len(got) \in 0..Len(got')
  BY <1>1
<1>4. \E n \in 0..Len(got') : got = SubSeq(got', 1, n)
  BY <1>1, <1>3
<1>5. CASE cut'
  <2>1. CASE cut
    BY <1>4, <1>5, <2>1 DEF Serves, Source!Next, Source!Deliver
  <2>2. CASE ~cut
    BY <1>4, <1>5, <2>2 DEF Serves, Source!Next, Source!Cut
  <2> QED BY <2>1, <2>2
<1>6. CASE ~cut'
  <2>1. PICK more \in Seq(Nat) : whole = got' \o more
    BY <1>6
  <2>2. /\ Len(whole) = Len(got') + Len(more) /\ Len(more) \in Nat
        /\ SubSeq(whole, 1, Len(got')) = got'
    BY <1>2, <2>1, FirstOfMore
  <2>3. Len(got') \in Len(got)..Len(whole)
    BY <1>1, <1>2, <2>2
  <2>4. \E n \in Len(got)..Len(whole) : got' = SubSeq(whole, 1, n)
    BY <2>2, <2>3
  <2>5. ~cut /\ cut' = cut
    BY <1>6
  <2> QED BY <2>4, <2>5 DEF Serves, Source!Next, Source!Deliver
<1> QED BY <1>5, <1>6

\* The reader is told the end, when it has everything or something was lost.
LEMMA EndServed ==
  ASSUME verdict = "open", verdict' = "eof", UNCHANGED <<whole, cut, got>>, cut \/ got = whole
  PROVE  Serves
BY DEF Serves, Source!Next, Source!End

\* The reader is told of an error.
LEMMA FailureServed ==
  ASSUME verdict = "open", verdict' = "error", UNCHANGED <<whole, cut, got>>
  PROVE  Serves
BY DEF Serves, Source!Next, Source!Fail

\* The file that is read was changed.
LEMMA CutServed ==
  ASSUME UNCHANGED <<whole, got, verdict>>, got \in Seq(Nat), cut' = TRUE
  PROVE  Serves
<1>1. Len(got) \in 0..Len(got') /\ got = SubSeq(got', 1, Len(got))
  <2>1. Len(got) \in Nat /\ SubSeq(got, 1, Len(got)) = got
    OBVIOUS
  <2> QED BY <2>1
<1> QED BY <1>1 DEF Serves, Source!Next, Source!Cut

LEMMA ReadFileServes ==
  ASSUME BodiesInv, ReadFile, UNCHANGED codecVars
  PROVE  Serves
<1>1. /\ step = "read" /\ verdict = "open" /\ UNCHANGED <<whole, cut>> /\ step' = "read"
  BY DEF ReadFile, Reading
<1>2. FileInv /\ FileInv' /\ File \in Files
  BY <1>1, ReadFileInv, OpenFileIsAFile DEF BodiesInv, FileInv, None
<1>3. /\ whole \in Seq(Nat) /\ got \in Seq(Nat) /\ cut \in BOOLEAN
      /\ Sought.at \in Nat /\ stream.remaining \in Nat /\ File.size \in Nat
  <2>1. W \in Nat \ {0}
    BY FilesAssumption
  <2> QED BY <1>2, <2>1, FileNumbers, SoughtType DEF FileInv, FileTypes, BodyTypes
<1> DEFINE at == Sought.at
           r == stream.remaining
           size == File.size
<1>4. CASE got' = got /\ verdict' = "eof" /\ (r = 0 \/ size <= at)
  <2>1. ~cut => got = whole
    <3> SUFFICES ASSUME ~cut PROVE got = whole
      OBVIOUS
    <3>1. whole = got \o Region(at, r, size)
      BY <1>1, <1>2 DEF FileInv, FileIsAhead
    <3> HIDE DEF at, r, size
    <3>2. Region(at, r, size) = << >>
      <4>1. at \in Nat /\ r \in Nat /\ size \in Nat
        BY <1>3 DEF at, r, size
      <4> QED BY <1>4, <4>1, RegionEmpty
    <3>3. got \o << >> = got
      BY <1>3, BytesJoin
    <3> QED BY <3>1, <3>2, <3>3
  <2> QED BY <1>1, <1>4, <2>1, EndServed
<1>5. CASE \E n \in Nat : n > 0 /\ Deliver([k \in 1..n |-> at + k]) /\ stream' = Taken(n)
  <2>1. PICK n \in Nat : n > 0 /\ Deliver([k \in 1..n |-> at + k]) /\ stream' = Taken(n)
    BY <1>5
  <2> DEFINE piece == [k \in 1..n |-> at + k]
  <2>2. piece \in Seq(Nat)
    BY <1>3
  <2> HIDE DEF piece
  <2>3. got' = got \o piece /\ verdict' = verdict
    BY <2>1 DEF Deliver, piece
  <2>4. ~cut' => \E more \in Seq(Nat) : whole = got' \o more
    <3> SUFFICES ASSUME ~cut' PROVE \E more \in Seq(Nat) : whole = got' \o more
      OBVIOUS
    <3> DEFINE more == Region(Sought'.at, stream'.remaining, File'.size)
    <3>1. whole' = got' \o more
      BY <1>1, <1>2 DEF FileInv, FileIsAhead
    <3>2. more \in Seq(Nat)
      <4>1. File' \in Files /\ FileTypes'
        <5>1. File' = File
          BY DEF ReadFile, File
        <5> QED BY <1>2, <5>1 DEF FileInv
      <4>2. Sought' \in [offset : 0..(W - 1), remaining : 0..(W - 1), at : Nat]
            /\ stream' \in [offset : 0..(W - 1), remaining : 0..(W - 1), at : Nat]
        <5>1. stream' = [Sought EXCEPT !.at = @ + n, !.remaining = @ - n]
          BY <2>1 DEF Taken
        <5>2. Sought \in [offset : 0..(W - 1), remaining : 0..(W - 1), at : Nat]
              /\ Sought.offset = 0
          BY <1>2, SoughtType DEF FileInv
        <5> DEFINE q == Sought
        <5> HIDE DEF q
        <5>3. stream'.offset = 0
          <6>1. stream' = [q EXCEPT !.at = q.at + n, !.remaining = q.remaining - n]
            BY <5>1 DEF q
          <6>2. q \in [offset : 0..(W - 1), remaining : 0..(W - 1), at : Nat] /\ q.offset = 0
            BY <5>2 DEF q
          <6> QED BY <6>1, <6>2
        <5>4. Sought' = stream'
          BY <5>3 DEF Sought
        <5> QED BY <4>1, <5>4 DEF FileTypes
      <4>3. W \in Nat \ {0}
        BY FilesAssumption
      <4>4. Sought'.at \in Nat /\ stream'.remaining \in Nat /\ File'.size \in Nat
        BY <4>1, <4>2, <4>3, FileNumbers
      <4> QED BY <4>4, RegionType
    <3> HIDE DEF more
    <3> QED BY <1>1, <3>1, <3>2
  <2> QED BY <1>1, <1>3, <2>2, <2>3, <2>4, PieceServed
<1>6. \/ got' = got /\ verdict' = "eof" /\ (r = 0 \/ size <= at)
      \/ \E n \in Nat : n > 0 /\ Deliver([k \in 1..n |-> at + k]) /\ stream' = Taken(n)
  <2> DEFINE limit == IF r < Window THEN r ELSE Window
             there == size - at
  <2>1. Window \in Nat
    BY FilesAssumption
  <2>2. \/ r = 0 /\ Stop("eof")
        \/ r > 0 /\ there <= 0 /\ Stop("eof")
        \/ \E n \in 1..(IF there < limit THEN there ELSE limit) :
             Deliver([k \in 1..n |-> at + k]) /\ stream' = Taken(n)
    BY DEF ReadFile, EndOfFile
  <2>3. there <= 0 => size <= at
    BY <1>3
  <2>4. (IF there < limit THEN there ELSE limit) \in Int
    BY <1>3, <2>1
  <2>5. \A n \in 1..(IF there < limit THEN there ELSE limit) : n \in Nat /\ n > 0
    BY <2>4
  <2> HIDE DEF limit, there, r, size, at
  <2> QED BY <2>2, <2>3, <2>5 DEF Stop
<1> QED BY <1>4, <1>5, <1>6

\* So does every step about a file.
LEMMA FileServes ==
  ASSUME BodiesInv, step # None, Server \/ Others, UNCHANGED codecVars
  PROVE  Serves
<1>1. BodyTypes /\ BeforeReading
  BY DEF BodiesInv, FileInv
<1>2. got \in Seq(Nat)
  BY <1>1 DEF BodyTypes
<1>3. CASE OpenFile \/ LastModified
  <2>1. CASE UNCHANGED bodyVars
    BY <2>1, NothingSeen DEF bodyVars
  <2>2. CASE GiveUp
    <3>1. step \in {"open", "time"}
      BY <1>3 DEF OpenFile, LastModified
    <3>2. verdict = "open"
      BY <1>1, <3>1 DEF BeforeReading, None
    <3> QED BY <2>2, <3>2, FailureServed DEF GiveUp, Stop
  <2> QED BY <1>3, <2>1, <2>2 DEF OpenFile, LastModified
<1>4. CASE Validate \/ ParseRange \/ CheckRange \/ Replace \/ RemoveFile
  <2>1. UNCHANGED bodyVars
    BY <1>4 DEF Validate, ParseRange, CheckRange, Replace, RemoveFile
  <2> QED BY <2>1, NothingSeen DEF bodyVars
<1>5. CASE ToResponse
  <2>1. step = "respond" /\ UNCHANGED <<cut, got, verdict>>
    BY <1>5 DEF ToResponse
  <2>2. verdict = "open" /\ got = << >> /\ ~cut
    BY <1>1, <2>1 DEF BeforeReading, None
  <2> QED BY <2>1, <2>2 DEF Serves, Source!Next, Source!Open
<1>6. CASE ReadFile
  BY <1>6, ReadFileServes
<1>7. CASE ReadFails
  BY <1>7, FailureServed DEF ReadFails, Reading, Stop
<1>8. CASE Rewrite
  <2>1. /\ UNCHANGED <<whole, got, verdict>>
        /\ cut' = (cut \/ (step = "read" /\ path = handle.inode))
    BY <1>8 DEF Rewrite
  <2>2. CASE cut'
    <3>1. cut' = TRUE
      BY <1>1, <2>1, <2>2 DEF BodyTypes
    <3> QED BY <1>2, <2>1, <3>1, CutServed
  <2>3. CASE ~cut'
    <3>1. cut' = cut
      BY <1>1, <2>1, <2>3 DEF BodyTypes
    <3> QED BY <2>1, <3>1, NothingSeen
  <2> QED BY <2>2, <2>3
<1> QED BY <1>3, <1>4, <1>5, <1>6, <1>7, <1>8 DEF Server, Others

\* A decoder's next piece of input, or its end: when there is no more of it and
\* nothing is held, the reader has everything.
LEMMA ReadPieceServes ==
  ASSUME BodiesInv, ReadPiece, UNCHANGED fileVars
  PROVE  Serves
<1>1. /\ coding.kind \in Decoders /\ verdict = "open" /\ readable = << >> /\ filled = << >>
      /\ UNCHANGED <<coding, whole, cut>>
  BY DEF ReadPiece, SourceStops, Reading, codecVars
<1>2. got \in Seq(Nat)
  BY DEF BodiesInv, FileInv, BodyTypes
<1>3. CASE SourceStops
  <2>1. /\ rest = << >> /\ got' = got
        /\ verdict' = IF coding.fault THEN "error" ELSE "eof"
    BY <1>3 DEF SourceStops, Stop
  <2>2. codec.pend = << >> /\ whole = got \o (<< >> \o (<< >> \o Coming))
    BY <1>1 DEF BodiesInv, CodecInv, DecoderIsAhead
  <2>3. Coming = << >>
    <3>1. readable \o rest = << >>
      BY <1>1, <2>1
    <3>2. Live(<< >>) = << >>
      <4> DEFINE l == Live(<< >>)
      <4>1. << >> \in Seq(Symbols)
        BY EmptySeq
      <4>2. l \in Seq(Symbols) /\ Len(l) \in 0..Len(<< >>)
        BY <4>1, LiveType
      <4> HIDE DEF l
      <4>3. l = << >>
        BY <4>2
      <4> QED BY <4>3 DEF l
    <3> QED BY <3>1, <3>2, PlainEmpty DEF Coming, Ahead
  <2>4. << >> \o << >> = << >>
    OBVIOUS
  <2>5. got \o << >> = got
    BY <1>2, BytesJoin
  <2>6. whole = got
    BY <2>2, <2>3, <2>4, <2>5
  <2>7. CASE coding.fault
    BY <1>1, <2>1, <2>7, FailureServed
  <2>8. CASE ~coding.fault
    BY <1>1, <2>1, <2>6, <2>8, EndServed
  <2> QED BY <2>7, <2>8
<1>4. CASE Deliver(<< >>) /\ UNCHANGED codecVars
  <2>1. got' = got /\ verdict' = verdict
    BY <1>2, <1>4, BytesJoin DEF Deliver
  <2> QED BY <1>1, <2>1, NothingSeen
<1>5. CASE UNCHANGED <<got, verdict>>
  BY <1>1, <1>5, NothingSeen
<1> QED BY <1>3, <1>4, <1>5 DEF ReadPiece

\* What a decoder gives goes on with what it is still to make.
LEMMA DecodeServes ==
  ASSUME BodiesInv, Decode, UNCHANGED fileVars
  PROVE  Serves
<1> DEFINE room == OutputRoom(readable)
           w == Write(codec, readable, room)
           piece == filled \o w.out
<1>1. /\ coding.kind \in Decoders /\ verdict = "open"
      /\ UNCHANGED <<coding, rest, whole, cut>>
  BY DEF Decode, Reading
<1>2. \/ Stop("error")
      \/ Deliver(piece) /\ codec' = w.codec /\ readable' = << >> /\ filled' = << >>
      \/ UNCHANGED <<got, hollow, verdict>>
  <2> HIDE DEF w, room
  <2> QED BY DEF Decode, w, room
<1>3. CASE Stop("error")
  BY <1>1, <1>3, FailureServed DEF Stop
<1>4. CASE UNCHANGED <<got, hollow, verdict>>
  BY <1>1, <1>4, NothingSeen
<1>5. CASE Deliver(piece) /\ codec' = w.codec /\ readable' = << >> /\ filled' = << >>
  <2>1. BodiesInv'
    BY DecodeInv
  <2>2. got' = got \o piece /\ verdict' = verdict
    BY <1>5 DEF Deliver
  <2>3. step = None /\ coding \in Codings
    BY <1>1, CoderHasNoFile DEF BodiesInv
  <2>4. /\ filled \in Seq(Nat) /\ codec \in Libraries /\ got \in Seq(Nat) /\ cut \in BOOLEAN
        /\ readable \in Seq(Sent)
    BY DEF BodiesInv, CodecInv, CodecTypes, FileInv, BodyTypes, Libraries
  <2>5. Sent \subseteq Symbols
    BY <2>3, SentAreSymbols
  <2>6. readable \in Seq(Symbols)
    BY <2>4, <2>5, SeqOfMore
  <2>7. room \in Nat \ {0}
    BY <2>6, CodingsAssumption DEF OutputRoom
  <2>8. << >> \in Seq(Symbols)
    BY EmptySeq
  <2>9. w.out \in Seq(Nat)
    <3> HIDE DEF room
    <3>1. WritesWell(codec, readable, << >>, room, w)
      BY <2>4, <2>6, <2>7, <2>8, Written
    <3> HIDE DEF w
    <3> QED BY <3>1 DEF WritesWell
  <2>10. piece \in Seq(Nat)
    <3> DEFINE o == w.out
    <3>1. o \in Seq(Nat)
      BY <2>9
    <3> HIDE DEF o
    <3>2. filled \o o \in Seq(Nat)
      BY <2>4, <3>1, BytesJoin
    <3> QED BY <3>2 DEF o
  <2> HIDE DEF piece, w, room
  <2>11. \E more \in Seq(Nat) : whole = got' \o more
    <3> DEFINE more == filled' \o (codec'.pend \o Coming')
    <3>1. whole' = got' \o more
      BY <1>1, <2>1 DEF BodiesInv, CodecInv, DecoderIsAhead
    <3>2. more \in Seq(Nat)
      <4>1. filled' \in Seq(Nat) /\ codec' \in Libraries /\ codec'.pend \in Seq(Nat)
        BY <2>1 DEF BodiesInv, CodecInv, CodecTypes, Libraries
      <4>2. rest' \in Seq(Sent) /\ readable' \in Seq(Sent)
        BY <1>1, <2>1 DEF BodiesInv, CodecInv, CodecTypes, Sent
      <4>3. rest' \in Seq(Symbols) /\ readable' \in Seq(Symbols)
        BY <2>5, <4>2, SeqOfMore
      <4> DEFINE in == readable' \o rest'
                 coming == Ahead(codec', in)
      <4>4. in \in Seq(Symbols)
        BY <4>3, JoinType
      <4> HIDE DEF in
      <4>5. coming \in Seq(Nat)
        BY <4>1, <4>4, AheadType
      <4>6. Coming' = coming
        BY DEF Coming, in
      <4> HIDE DEF coming
      <4> DEFINE p == codec'.pend
      <4>7. p \in Seq(Nat)
        BY <4>1
      <4> HIDE DEF p
      <4> DEFINE b == p \o coming
      <4>8. b \in Seq(Nat)
        BY <4>5, <4>7, BytesJoin
      <4> HIDE DEF b
      <4>9. filled' \o b \in Seq(Nat)
        BY <4>1, <4>8, BytesJoin
      <4> QED BY <4>6, <4>9 DEF b, p
    <3> HIDE DEF more
    <3> QED BY <1>1, <3>1, <3>2
  <2> QED BY <1>1, <2>2, <2>4, <2>10, <2>11, PieceServed
<1> QED BY <1>2, <1>3, <1>4, <1>5

\* What an encoder gives goes on with what it holds and what it has still to read.
LEMMA EncodePieceServes ==
  ASSUME BodiesInv, EncodePiece, UNCHANGED fileVars
  PROVE  Serves
<1>1. /\ coding.kind \in Encoders /\ verdict = "open"
      /\ UNCHANGED <<coding, readable, filled, whole>>
  BY DEF EncodePiece, Reading
<1>2. step = None /\ coding \in Codings
  BY <1>1, CoderHasNoFile DEF BodiesInv
<1>3. BodiesInv'
  BY EncodePieceInv
<1>4. /\ got \in Seq(Nat) /\ cut \in BOOLEAN /\ cut' \in BOOLEAN
      /\ codec.pend \in Seq(Nat) /\ codec'.pend \in Seq(Nat)
  BY <1>3 DEF BodiesInv, FileInv, BodyTypes, CodecInv, CodecTypes
<1>5. PICK n \in 1..Len(rest) :
        LET piece == Plain(Take(rest, n))
            room == OutputRoom(piece)
        IN \E taken \in 0..Len(piece) :
             LET made == codec.pend \o Take(piece, taken)
             IN \E out \in 0..Least(Len(made), room) :
                  /\ Len(made) - out <= Backlog
                  /\ taken < Len(piece) => out = room
                  /\ Deliver(Take(made, out))
                  /\ codec' = [codec EXCEPT !.pend = Drop(made, out)]
                  /\ cut' = (cut \/ Missing(piece, taken))
                  /\ rest' = Drop(rest, n)
  BY DEF EncodePiece
<1> DEFINE piece == Plain(Take(rest, n))
           room == OutputRoom(piece)
<1>6. PICK taken \in 0..Len(piece) :
        LET made == codec.pend \o Take(piece, taken)
        IN \E out \in 0..Least(Len(made), room) :
             /\ Deliver(Take(made, out))
             /\ codec' = [codec EXCEPT !.pend = Drop(made, out)]
             /\ cut' = (cut \/ Missing(piece, taken))
             /\ rest' = Drop(rest, n)
  BY <1>5
<1> DEFINE made == codec.pend \o Take(piece, taken)
<1>7. PICK out \in 0..Least(Len(made), room) :
        /\ Deliver(Take(made, out))
        /\ codec' = [codec EXCEPT !.pend = Drop(made, out)]
        /\ cut' = (cut \/ Missing(piece, taken))
        /\ rest' = Drop(rest, n)
  BY <1>6
<1>8. piece \in Seq(Nat) /\ Plain(rest') \in Seq(Nat) /\ rest # << >>
  BY <1>1, <1>7, PieceOfRest
<1> HIDE DEF piece, room
<1>9. made \in Seq(Nat)
  <2> DEFINE p == Take(piece, taken)
             q == codec.pend
  <2>1. p \in Seq(Nat) /\ q \in Seq(Nat)
    BY <1>4, <1>8, Divided
  <2> HIDE DEF p, q
  <2>2. q \o p \in Seq(Nat)
    BY <2>1, BytesJoin
  <2> QED BY <2>2 DEF p, q
<1> HIDE DEF made
<1>10. out \in 0..Len(made)
  <2>1. Len(made) \in Nat /\ Len(piece) \in Nat
    BY <1>8, <1>9
  <2>2. room \in Nat
    BY <2>1, CodingsAssumption DEF room, OutputRoom
  <2> QED BY <2>1, <2>2 DEF Least
<1> DEFINE a == Take(made, out)
<1>11. a \in Seq(Nat)
  BY <1>9, <1>10, Divided
<1>12. got' = got \o a /\ verdict' = verdict
  BY <1>7 DEF Deliver
<1> HIDE DEF a
<1>13. cut => cut'
  BY <1>4, <1>7
<1>14. ~cut' => \E more \in Seq(Nat) : whole = got' \o more
  <2> SUFFICES ASSUME ~cut' PROVE \E more \in Seq(Nat) : whole = got' \o more
    OBVIOUS
  <2>1. ~codec.ended /\ codec'.ended = codec.ended
    BY <1>1, <1>7, <1>8 DEF BodiesInv, CodecInv, CodecTypes, EncoderIsAhead
  <2> DEFINE p == codec'.pend
             q == Plain(rest')
             z == <<0>>
             more == p \o (q \o z)
  <2>2. whole' = got' \o more
    BY <1>1, <1>3, <2>1 DEF BodiesInv, CodecInv, EncoderIsAhead
  <2>3. p \in Seq(Nat) /\ q \in Seq(Nat) /\ z \in Seq(Nat)
    BY <1>4, <1>8
  <2>4. more \in Seq(Nat)
    <3> HIDE DEF p, q, z
    <3> DEFINE y == q \o z
    <3>1. y \in Seq(Nat)
      BY <2>3, BytesJoin
    <3> HIDE DEF y
    <3>2. p \o y \in Seq(Nat)
      BY <2>3, <3>1, BytesJoin
    <3> QED BY <3>2 DEF y
  <2> HIDE DEF more
  <2> QED BY <1>1, <2>2, <2>4
<1> QED BY <1>1, <1>4, <1>11, <1>12, <1>13, <1>14, PieceServed

\* An encoder ends behind its last byte.
LEMMA FinishServes ==
  ASSUME BodiesInv, Finish, UNCHANGED fileVars
  PROVE  Serves
<1>1. /\ coding.kind \in Encoders /\ verdict = "open" /\ rest = << >>
      /\ UNCHANGED <<coding, rest, readable, filled, whole>>
  BY DEF Finish, Reading
<1>2. BodiesInv'
  BY FinishInv
<1>3. /\ got \in Seq(Nat) /\ cut \in BOOLEAN /\ cut' \in BOOLEAN /\ codec.pend \in Seq(Nat)
      /\ got' \in Seq(Nat)
  BY <1>2 DEF BodiesInv, FileInv, BodyTypes, CodecInv, CodecTypes
<1>4. CASE coding.fault \/ codec.ended
  <2>1. /\ verdict' = IF coding.fault THEN "error" ELSE "eof"
        /\ got' = got /\ cut' = cut
    BY <1>4 DEF Finish, Stop
  <2>2. CASE coding.fault
    BY <1>1, <2>1, <2>2, FailureServed
  <2>3. CASE ~coding.fault
    <3>1. cut \/ got = whole
      BY <1>1, <1>4, <2>3 DEF BodiesInv, CodecInv, EncoderIsAhead
    <3> QED BY <1>1, <2>1, <2>3, <3>1, EndServed
  <2> QED BY <2>2, <2>3
<1>5. CASE ~(coding.fault \/ codec.ended)
  <2> DEFINE made == codec.pend \o <<0>>
             n == Least(Len(made), Room)
             a == Take(made, n)
  <2>1. /\ Deliver(a) /\ codec'.ended
        /\ cut' = (cut \/ n < Len(made))
    BY <1>5 DEF Finish
  <2>2. made \in Seq(Nat)
    <3> DEFINE z == <<0>>
    <3>1. z \in Seq(Nat)
      OBVIOUS
    <3> HIDE DEF z
    <3>2. codec.pend \o z \in Seq(Nat)
      BY <1>3, <3>1, BytesJoin
    <3> QED BY <3>2 DEF z
  <2> HIDE DEF made
  <2>3. n \in 0..Len(made)
    BY <2>2, CodingsAssumption DEF Least
  <2> HIDE DEF n
  <2>4. a \in Seq(Nat)
    BY <2>2, <2>3, Divided
  <2> HIDE DEF a
  <2>5. got' = got \o a /\ verdict' = verdict
    BY <2>1 DEF Deliver
  <2>6. cut => cut'
    BY <1>3, <2>1
  <2>7. ~cut' => \E more \in Seq(Nat) : whole = got' \o more
    <3> SUFFICES ASSUME ~cut' PROVE \E more \in Seq(Nat) : whole = got' \o more
      OBVIOUS
    <3>1. whole' = got'
      BY <1>1, <1>2, <2>1 DEF BodiesInv, CodecInv, EncoderIsAhead
    <3>2. << >> \in Seq(Nat) /\ got' \o << >> = got'
      BY <1>3, BytesJoin, EmptySeq
    <3> QED BY <1>1, <3>1, <3>2
  <2> QED BY <1>1, <1>3, <2>4, <2>5, <2>6, <2>7, PieceServed
<1> QED BY <1>4, <1>5

\* Bodies implements ByteSource: from every file and every stream the bytes come in
\* order and none is left out, and the end is announced after the last one, unless
\* the file was rewritten while it was read or an encoder had to drop something.
THEOREM SourcesServe == Spec => SourceSpec
<1>1. Init => Source!Init
  BY DEF Init, FileInit, CodecInit, BodyInit, Source!Init
<1>2. BodiesInv /\ [Next]_vars => [Source!Next]_(Source!vars)
  <2> SUFFICES ASSUME BodiesInv, [Next]_vars
               PROVE  Serves
    BY DEF Serves
  <2>1. CASE step # None /\ (Server \/ Others) /\ UNCHANGED codecVars
    BY <2>1, FileServes
  <2>2. CASE Coder /\ UNCHANGED fileVars
    BY <2>2, ReadPieceServes, DecodeServes, EncodePieceServes, FinishServes
       DEF Coder, CodecNext
  <2>3. CASE UNCHANGED vars
    BY <2>3, NothingSeen DEF vars, bodyVars
  <2> QED BY <2>1, <2>2, <2>3 DEF Next, Done
<1> QED BY <1>1, <1>2, Always, PTL DEF Spec, SourceSpec, Source!Spec
=============================================================================
