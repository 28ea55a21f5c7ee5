------------------------------ MODULE MCBodies ------------------------------
(* Small instances of Bodies: files of up to four bytes read two at a time,  *)
(* numbers of sixteen values; streams of up to five bytes through buffers of *)
(* two.                                                                      *)
EXTENDS Bodies

Tags(kind, tags) == [kind |-> kind, tags |-> tags]
NoTags == Tags(None, {})
NoRange == [unit |-> None]
Suffix(n) == [unit |-> "bytes", suffix |-> n]
List(unit, list) == [unit |-> unit, list |-> list]
Sub(start, end) == [start |-> start, end |-> end]
Asks(inm, ims, range) == [aware |-> TRUE, inm |-> inm, ims |-> ims, range |-> range]

MCRanges ==
  {NoRange, [unit |-> Malformed], Suffix(NotANumber), Suffix(0), Suffix(1), Suffix(3),
   List("bytes", <<Sub(0, Absent)>>), List("bytes", <<Sub(1, 2)>>),
   List("bytes", <<Sub(2, 1)>>), List("bytes", <<Sub(3, Absent)>>),
   List("bytes", <<Sub(0, W - 1)>>), List("bytes", <<Sub(1, 1), Sub(NotANumber, 2)>>),
   List("bytes", <<Sub(1, 9)>>), List("bytes", <<Sub(0, 0), Sub(5, 9)>>),
   List("lines", <<Sub(0, 0)>>)}

MCConditions ==
  {[aware |-> FALSE]}
    \cup {Asks(NoTags, None, r) : r \in MCRanges}
    \cup {Asks(t, d, NoRange) :
            t \in {NoTags, Tags("any", {}), Tags(Malformed, {}), Tags("tags", {"known"}),
                   Tags("tags", {"other"}), Tags("tags", {"known", "other"})},
            d \in {None, Malformed, "known", "later"}}

MCSizes == {0, 3}
MCTimes == {3, 4}

MCWires ==
  {<<Data(<<1>>), Data(<<2, 3>>), EndMark>>,
   <<Data(<<1, 2, 3>>), Data(<< >>), Data(<<4>>), EndMark>>,
   <<Data(<<1, 2>>), Data(<<3, 4, 5>>)>>,
   <<Data(<<1, 2>>), Bad, EndMark>>,
   <<EndMark>>,
   <<Data(<<1, 2>>), EndMark, Data(<<3>>)>>}
Bytes5 == [k \in 1..5 |-> Data(<<k>>)]

MCCodings ==
  [kind : Decoders, wire : MCWires, fault : BOOLEAN]
    \cup [kind : Encoders, wire : {<< >>, Bytes5}, fault : BOOLEAN]
=============================================================================
