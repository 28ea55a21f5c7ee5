------------------------- MODULE HttpSession_proofs -------------------------
(***************************************************************************)
(* HttpSession is type correct and implements HttpExchange; what it writes *)
(* is well framed, ends with the response that says close, and is written  *)
(* under a deadline; pipelined requests are answered in the order sent,    *)
(* and what is read of a request's body is that body. All of it for any    *)
(* requests and responses, any number of them, with and without TLS and a  *)
(* request timeout.                                                        *)
(***************************************************************************)
EXTENDS HttpSession, FiniteSetTheorems, SequenceTheorems, TLAPS

USE DEF Part

\* A unit in flight belongs to a request the client has begun.
WireOK == \A i \in DOMAIN wire : wire[i][1] \in 1..Len(sent)

\* What is left to send belongs to the last request begun.
TodoOK == todo > 0 => Len(sent) > 0 /\ todo <= sent[Len(sent)].body

\* A body is unread as long as a part of it is left, and only such a body is
\* being read, or about to be streamed.
BodyOK ==
  /\ body = "unread" => left > 0
  /\ pc = "body" => body = "unread"
  /\ pc \in {"collect", "chunkhead", "chunks"} /\ res.from = "request" =>
       body = "unread"

\* Between requests every request taken has been answered; while one is
\* served, all but that one.
Idle == {"handshake", "header", "socket", "closing"}
Pending == /\ pc \in Idle => taken = Cardinality(FinalUnits)
           /\ ~Ended /\ pc \notin Idle => taken = Cardinality(FinalUnits) + 1

Shaped == TypeOK /\ WireOK /\ TodoOK /\ BodyOK
-----------------------------------------------------------------------------
(* Counting the final units of a sequence of units.                        *)
FinalsOf(o) == {i \in DOMAIN o : o[i].kind \in Final}

\* The final units of a sequence are finitely many.
LEMMA FinalsFinite ==
  ASSUME NEW o \in Seq(OutRecord)
  PROVE  IsFiniteSet(FinalsOf(o)) /\ Cardinality(FinalsOf(o)) \in Nat
<1>1. FinalsOf(o) \subseteq 1..Len(o)
  BY DEF FinalsOf
<1>2. IsFiniteSet(1..Len(o))
  BY FS_Interval
<1> QED
  BY <1>1, <1>2, FS_Subset, FS_CardinalityType

\* Appending a unit adds one to the count if it is final, and nothing else.
LEMMA FinalsAppend ==
  ASSUME NEW o \in Seq(OutRecord), NEW u \in OutRecord
  PROVE  Cardinality(FinalsOf(Append(o, u)))
           = Cardinality(FinalsOf(o)) + (IF u.kind \in Final THEN 1 ELSE 0)
<1>1. CASE u.kind \in Final
  <2>1. FinalsOf(Append(o, u)) = FinalsOf(o) \cup {Len(o) + 1}
    BY <1>1 DEF FinalsOf
  <2>2. Len(o) + 1 \notin FinalsOf(o)
    BY DEF FinalsOf
  <2> QED
    BY <1>1, <2>1, <2>2, FinalsFinite, FS_AddElement
<1>2. CASE u.kind \notin Final
  <2>1. FinalsOf(Append(o, u)) = FinalsOf(o)
    BY <1>2 DEF FinalsOf
  <2> QED
    BY <1>2, <2>1, FinalsFinite
<1> QED
  BY <1>1, <1>2
-----------------------------------------------------------------------------
(* Helpers of the type proof.                                              *)

\* The units the session writes are output units.
LEMMA OutUnitType ==
  ASSUME TypeOK, NEW k \in Final \cup Part
  PROVE  OutUnit(k) \in OutRecord /\ OutUnit(k).kind = k
BY DEF TypeOK, OutUnit, OutRecord, Serving

\* What the session has written stays a sequence of output units.
LEMMA OutAppend ==
  ASSUME TypeOK, NEW k \in Final \cup Part
  PROVE  Append(out, OutUnit(k)) \in Seq(OutRecord)
BY OutUnitType DEF TypeOK

\* The front of the wire is a unit, and names a request that was sent.
LEMMA WireHead ==
  ASSUME Shaped, wire # << >>
  PROVE  /\ wire[1] \in Nat \X Nat
         /\ wire[1][1] \in 1..Len(sent)
         /\ sent[wire[1][1]] \in Shape
         /\ Tail(wire) \in Seq(Nat \X Nat)
         /\ \A i \in DOMAIN Tail(wire) : Tail(wire)[i][1] \in 1..Len(sent)
<1>1. wire \in Seq(Nat \X Nat) /\ Len(wire) > 0 /\ sent \in Seq(Shapes)
  BY DEF Shaped, TypeOK
<1>2. wire[1] \in Nat \X Nat /\ wire[1][1] \in 1..Len(sent)
  BY <1>1 DEF Shaped, WireOK
<1>3. sent[wire[1][1]] \in Shape
  BY <1>1, <1>2, ConstantsAssumption
<1>4. Tail(wire) \in Seq(Nat \X Nat)
  BY <1>1
<1>5. \A i \in DOMAIN Tail(wire) : Tail(wire)[i] = wire[i + 1] /\ i + 1 \in DOMAIN wire
  BY <1>1
<1> QED
  BY <1>2, <1>3, <1>4, <1>5 DEF Shaped, WireOK

\* The requests and responses the session makes itself, and no unit.
LEMMA TextType == Text \in Answer /\ Text.from = "memory" /\ Text.size = "sized"
BY DEF Text, Answer

\* The response of an iteration that has not answered yet.
LEMMA NoAnswerType == NoAnswer \in Answer /\ NoAnswer.from = "memory"
BY DEF NoAnswer, Answer

\* What is kept of a request while there is none.
LEMMA NoRequestType == NoRequest \in Serving
BY DEF NoRequest, Serving

\* What is kept of a request that was parsed out of a body.
LEMMA StrayType ==
  ASSUME NEW k \in BOOLEAN, NEW t \in {"route", "none"}
  PROVE  Stray(k, t) \in Serving
BY DEF NoRequest, Stray, Serving

\* Nothing read is a sequence of units.
LEMMA NoUnits == << >> \in Seq(Nat \X Nat)
OBVIOUS

\* A response while it is written.
LEMMA AnswerCollected ==
  ASSUME NEW a \in Answer
  PROVE  /\ [a EXCEPT !.from = "memory", !.n = 1] \in Answer
         /\ [a EXCEPT !.from = "memory", !.n = 1].from = "memory"
BY DEF Answer

\* A response one of whose chunks has been written.
LEMMA AnswerChunk ==
  ASSUME NEW a \in Answer, a.n > 0
  PROVE  [a EXCEPT !.n = @ - 1] \in Answer /\ [a EXCEPT !.n = @ - 1].from = a.from
<1>1. [a EXCEPT !.n = @ - 1] \in Answer
  BY DEF Answer
<1>2. [a EXCEPT !.n = @ - 1].from = a.from
  BY DEF Answer
<1> QED
  BY <1>1, <1>2

\* A request parsed from a shape.
LEMMA RequestType ==
  ASSUME NEW r \in Nat, NEW s \in Shape
  PROVE  /\ Request(r, s) \in Serving
         /\ [Request(r, s) EXCEPT !.keep = FALSE] \in Serving
         /\ s.body \in Nat
BY DEF Request, Shape, Serving

\* A new connection is well shaped.
LEMMA ShapedInit == Init => Shaped
<1> SUFFICES ASSUME Init PROVE Shaped
  OBVIOUS
<1>1. /\ sent \in Seq(Shapes) /\ wire \in Seq(Nat \X Nat)
      /\ got \in Seq(Nat \X Nat) /\ out \in Seq(OutRecord)
  BY DEF Init
<1>2. WireOK /\ TodoOK /\ BodyOK
  BY NoAnswerType DEF Init, WireOK, TodoOK, BodyOK, ReadsBody
<1>3. pc \in {"handshake", "header"} /\ timer \in {"off", "armed"}
  BY DEF Init, Armed
<1> QED
  BY <1>1, <1>2, <1>3, NoAnswerType, NoRequestType DEF Init, Shaped, TypeOK

USE DEF Shaped
\* Whatever the client does keeps the connection well shaped.
LEMMA ClientShaped == Shaped /\ Client => Shaped'
<1> SUFFICES ASSUME Shaped, Client PROVE Shaped'
  OBVIOUS
<1>1. ASSUME NEW s \in Shapes, SendHead(s) PROVE Shaped'
  <2>1. s \in Shape
    BY ConstantsAssumption
  <2>2. /\ sent' \in Seq(Shapes) /\ Len(sent') = Len(sent) + 1
        /\ sent'[Len(sent')] = s
    BY <1>1 DEF SendHead, TypeOK
  <2>3. wire' \in Seq(Nat \X Nat) /\ WireOK'
    BY <1>1, <2>2, SMTT(40) DEF SendHead, TypeOK, WireOK
  <2>4. todo' \in Nat /\ TodoOK'
    BY <1>1, <2>1, <2>2 DEF SendHead, TodoOK, TypeOK, Shape
  <2> QED
    BY <1>1, <2>2, <2>3, <2>4 DEF SendHead, TypeOK, BodyOK, ReadsBody
<1>2. CASE SendPiece
  <2>0. Len(sent) \in Nat /\ Len(sent) > 0 /\ sent[Len(sent)] \in Shape
    BY <1>2, ConstantsAssumption DEF SendPiece, TypeOK, TodoOK
  <2>1. /\ todo' \in Nat /\ sent[Len(sent)].body \in Nat
        /\ sent[Len(sent)].body - todo + 1 \in Nat
    <3>1. sent[Len(sent)].body \in Nat
      BY <2>0 DEF Shape
    <3>2. todo > 0 /\ todo \in Nat /\ todo <= sent[Len(sent)].body
      BY <1>2 DEF SendPiece, TypeOK, TodoOK
    <3>3. todo' = todo - 1
      BY <1>2 DEF SendPiece
    <3> QED
      BY <3>1, <3>2, <3>3
  <2> DEFINE u == <<Len(sent), sent[Len(sent)].body - todo + 1>>
  <2>2. u \in Nat \X Nat /\ u[1] \in 1..Len(sent) /\ wire' = Append(wire, u)
    BY <1>2, <2>0, <2>1 DEF SendPiece, TypeOK
  <2> HIDE DEF u
  <2>3. wire' \in Seq(Nat \X Nat) /\ sent' = sent /\ WireOK'
    <3>1. \A i \in DOMAIN wire' :
            wire'[i] = u \/ (i \in DOMAIN wire /\ wire'[i] = wire[i])
      BY <2>2, SMTT(40) DEF TypeOK
    <3> QED
      <4>1. sent' = sent
        BY <1>2 DEF SendPiece
      <4>2. wire' \in Seq(Nat \X Nat)
        BY <2>2 DEF TypeOK
      <4> QED
        BY <2>2, <3>1, <4>1, <4>2 DEF WireOK
  <2>4. TodoOK' /\ BodyOK'
    BY <1>2, <2>0, <2>1 DEF SendPiece, TypeOK, TodoOK, BodyOK, ReadsBody
  <2> QED
    BY <1>2, <2>1, <2>3, <2>4 DEF SendPiece, TypeOK
<1>3. CASE Leave
  BY <1>3 DEF Leave, TypeOK, WireOK, TodoOK, BodyOK, ReadsBody
<1> QED
  BY <1>1, <1>2, <1>3 DEF Client

\* The session leaves the client's variables alone, and takes units from the
\* front of the wire or none.
LEMMA WireTaken ==
  ASSUME Shaped, sent' = sent, todo' = todo,
         wire' = wire \/ (wire # << >> /\ wire' = Tail(wire))
  PROVE  /\ sent' \in Seq(Shapes) /\ todo' \in Nat
         /\ wire' \in Seq(Nat \X Nat) /\ WireOK' /\ TodoOK'
<1>1. sent' \in Seq(Shapes) /\ todo' \in Nat /\ TodoOK'
  BY DEF TypeOK, TodoOK
<1>2. CASE wire' = wire
  BY <1>1, <1>2 DEF TypeOK, WireOK
<1>3. CASE wire # << >> /\ wire' = Tail(wire)
  BY <1>1, <1>3, WireHead DEF WireOK
<1> QED
  BY <1>1, <1>2, <1>3

\* A head is taken, and the session goes on to any await but the body's.
LEMMA TakeShaped ==
  ASSUME Shaped, NEW c \in Serving, NEW n \in Nat, wire # << >>, Take(c, n),
         timer' \in {"off", "armed", "expired", "fired"}, res' \in Answer,
         pc' \in {"continue", "handler", "collect", "accept", "failed"},
         pc' = "collect" => res'.from = "memory"
  PROVE  Shaped'
<1>1. /\ sent' = sent /\ todo' = todo /\ wire' = Tail(wire)
      /\ peer' = peer /\ got' = got /\ callback' = callback
      /\ out' = out /\ skipped' = skipped
      /\ cur' \in Serving /\ left' \in Nat
      /\ taken' = taken + 1
  BY DEF Take
<1>2. body' \in {"unread", "read"} /\ (body' = "unread" => left' > 0)
  BY DEF Take
<1> QED
  BY <1>1, <1>2, WireTaken DEF TypeOK, BodyOK

\* Routing leads to the handler, to an answer from memory, or out.
LEMMA RouteTypes ==
  ASSUME TypeOK, NEW c, Route(c)
  PROVE  /\ pc' \in {"handler", "collect", "accept", "failed"}
         /\ res' \in Answer
         /\ pc' = "collect" => res'.from = "memory"
BY TextType DEF TypeOK, Route, Respond

\* Every step keeps the connection well shaped: one step for each action.
LEMMA ShapedStep == Shaped /\ [Next]_vars => Shaped'
<1> SUFFICES ASSUME Shaped, [Next]_vars PROVE Shaped'
  OBVIOUS
<1> USE DEF TypeOK, BodyOK, ReadsBody
<1>1. CASE Client
  BY <1>1, ClientShaped
<1>2. CASE Expire
  BY <1>2, WireTaken DEF Expire
<1>3. CASE Handshake
  BY <1>3, WireTaken, ConstantsAssumption DEF Handshake, Armed
<1>4. CASE ReadHead
  <2> DEFINE s == sent[wire[1][1]]
             c == Request(wire[1][1], s)
             n == IF c.upgrade THEN 0 ELSE s.body
  <2>1. wire # << >> /\ wire[1][1] \in Nat /\ s \in Shape
    BY <1>4, WireHead DEF ReadHead
  <2>2. c \in Serving /\ n \in Nat
    BY <2>1, RequestType
  <2>3. /\ Take(c, n) /\ timer' \in {"off", timer}
        /\ (pc' = "continue" /\ res' = res) \/ Route(c)
    BY <1>4 DEF ReadHead
  <2> HIDE DEF s, c, n
  <2> QED
    BY <2>1, <2>2, <2>3, TakeShaped, RouteTypes
<1>5. CASE ReadBigHead
  <2> DEFINE s == sent[wire[1][1]]
             c == [Request(wire[1][1], s) EXCEPT !.keep = FALSE]
  <2>1. wire # << >> /\ wire[1][1] \in Nat /\ s \in Shape
    BY <1>5, WireHead DEF ReadBigHead
  <2>2. c \in Serving /\ s.body \in Nat
    BY <2>1, RequestType
  <2>3. Take(c, s.body) /\ timer' = timer /\ res' = Text /\ pc' = "collect"
    BY <1>5, TextType DEF ReadBigHead, Respond
  <2> HIDE DEF s, c
  <2> QED
    BY <2>1, <2>2, <2>3, TakeShaped, TextType
<1>6. CASE ReadStrayHead
  <2>1. PICK k \in BOOLEAN, t \in {"route", "none"} :
          Take(Stray(k, t), 0) /\ Route(Stray(k, t))
    BY <1>6 DEF ReadStrayHead
  <2>2. wire # << >> /\ timer' = timer
    BY <1>6 DEF ReadStrayHead
  <2> QED
    BY <2>1, <2>2, StrayType, TakeShaped, RouteTypes
<1>7. CASE ReadHeadFails
  BY <1>7, WireTaken DEF ReadHeadFails, Fail
<1>8. CASE WriteContinue
  BY <1>8, WireTaken, OutAppend, TextType DEF WriteContinue, Route, Respond
<1>9. CASE WriteFails
  <2>1. out' \in Seq(OutRecord)
    BY <1>9, WireTaken, OutAppend DEF WriteFails
  <2> QED
    BY <1>9, WireTaken, <2>1 DEF WriteFails, Fail
<1>10. CASE HandlerReads
  BY <1>10, WireTaken DEF HandlerReads
<1>11. CASE HandlerThrows
  BY <1>11, WireTaken DEF HandlerThrows, Fail
<1>12. ASSUME NEW a \in Answers, HandlerReturns(a) PROVE Shaped'
  BY <1>12, WireTaken, ConstantsAssumption DEF HandlerReturns, Respond
<1>13. CASE ReadPiece
  <2>1. got' \in Seq(Nat \X Nat)
    BY <1>13, WireHead DEF ReadPiece
  <2>2. /\ sent' = sent /\ todo' = todo /\ wire # << >> /\ wire' = Tail(wire)
        /\ peer' = peer /\ taken' = taken /\ cur' = cur /\ left' = left - 1
        /\ callback' = callback /\ timer' = timer /\ out' = out
        /\ skipped' = skipped /\ body = "unread"
    BY <1>13 DEF ReadPiece
  <2>3. CASE left > 1
    <3>1. pc' = pc /\ body' = body /\ res' = res
      BY <1>13, <2>3 DEF ReadPiece
    <3> QED
      BY <2>1, <2>2, <2>3, <3>1, WireTaken
  <2>4. CASE ~(left > 1)
    <3>1. body' = "read"
      BY <1>13, <2>4 DEF ReadPiece
    <3>2. \/ pc' = "handler" /\ res' = res
          \/ /\ pc' = pc /\ pc # "body"
             /\ res' = [res EXCEPT !.from = "memory", !.n = 1]
      BY <1>13, <2>4 DEF ReadPiece
    <3>3. res' \in Answer /\ (pc' = "handler" \/ res'.from = "memory")
      BY <3>2, AnswerCollected
    <3>4. left' \in Nat
      BY <2>2
    <3> QED
      BY <2>1, <2>2, <3>1, <3>2, <3>3, <3>4, WireTaken
  <2> QED
    BY <2>3, <2>4
<1>14. CASE ReadPieceFails
  <2>1. CASE pc = "body"
    BY <1>14, WireTaken, <2>1, NoUnits DEF ReadPieceFails
  <2>2. CASE pc # "body"
    BY <1>14, WireTaken, <2>2 DEF ReadPieceFails, Fail
  <2> QED
    BY <2>1, <2>2
<1>15. CASE Collect
  BY <1>15, WireTaken DEF Collect
<1>16. CASE StreamEndsBadly
  BY <1>16, WireTaken DEF StreamEndsBadly, Fail
<1>s. ASSUME Served PROVE
        /\ pc' \in {"header", "closing", "done"} /\ cur' \in Serving
        /\ left' \in Nat /\ body' \in {"unread", "read", "broken"}
        /\ body' = "unread" => left' > 0
        /\ got' \in Seq(Nat \X Nat) /\ res' \in Answer /\ callback' \in BOOLEAN
        /\ timer' \in {"off", "armed", "expired", "fired"}
        /\ skipped' \subseteq Nat
  <2>1. cur.req \in Nat
    BY DEF Serving
  <2>2. CASE cur.keep
    <3>1. /\ pc' = "header" /\ cur' = NoRequest /\ left' = 0 /\ body' = "read"
          /\ got' = << >> /\ res' = NoAnswer /\ callback' = FALSE
          /\ timer' \in {"armed", timer}
          /\ skipped' \in {skipped, skipped \cup {cur.req}}
      BY <1>s, <2>2 DEF Served, NextRequest
    <3> QED
      BY <2>1, <3>1, NoUnits, NoAnswerType, NoRequestType
  <2>3. CASE ~cur.keep
    BY <1>s, <2>3 DEF Served, Finish
  <2> QED
    BY <2>2, <2>3
<1>17. CASE WriteResponse
  BY <1>17, WireTaken, <1>s, OutAppend DEF WriteResponse, Write, Final
<1>18. CASE WriteChunkHead
  BY <1>18, WireTaken, OutAppend DEF WriteChunkHead, Write
<1>19. CASE WriteChunk
  BY <1>19, WireTaken, AnswerChunk, OutAppend DEF WriteChunk, Write
<1>20. CASE WriteLastChunk
  BY <1>20, WireTaken, <1>s, OutAppend DEF WriteLastChunk, Write, Final
<1>21. CASE Accept
  BY <1>21, WireTaken, OutAppend DEF Accept, Write, Final
<1>22. CASE AcceptFails
  <2>1. out' \in Seq(OutRecord)
    BY <1>22, WireTaken, OutAppend DEF AcceptFails, Final
  <2> QED
    BY <1>22, WireTaken, <2>1 DEF AcceptFails, Fail
<1>23. CASE ReadFrame
  BY <1>23, WireTaken, WireHead DEF ReadFrame
<1>24. CASE CallbackReturns
  BY <1>24, WireTaken, <1>s DEF CallbackReturns
<1>25. CASE CallbackThrows
  BY <1>25, WireTaken DEF CallbackThrows, Fail
<1>26. CASE Shutdown
  BY <1>26, WireTaken DEF Shutdown
<1>27. CASE UNCHANGED vars
  BY <1>27, WireTaken DEF vars
<1> QED
  BY <1>1, <1>2, <1>3, <1>4, <1>5, <1>6, <1>7, <1>8, <1>9, <1>10, <1>11,
     <1>12, <1>13, <1>14, <1>15, <1>16, <1>17, <1>18, <1>19, <1>20, <1>21,
     <1>22, <1>23, <1>24, <1>25, <1>26, <1>27 DEF Next, Session, Rest

\* The connection is always well shaped.
LEMMA ShapedAlways == Spec => []Shaped
BY ShapedInit, ShapedStep, PTL DEF Spec

\* Every reachable state of the session is type correct: no unit is consumed
\* that is not there, no request looked up that was not sent, no more of a body
\* read than there is left.
THEOREM TypeCorrect == Spec => []TypeOK
<1>1. Shaped => TypeOK
  OBVIOUS
<1> QED
  BY <1>1, ShapedAlways, PTL
-----------------------------------------------------------------------------
(* The session implements the exchange: first by the answers it has done    *)
(* with, then by the messages that have ended for the client.              *)
Replied == Cardinality(FinalUnits)
Counted == INSTANCE HttpExchange WITH replied <- Replied, open <- ~Ended
ExchangeStep == [Counted!Next]_(Counted!vars)

\* The answers can be counted.
LEMMA RepliedNat == TypeOK => Replied \in Nat
BY FinalsFinite DEF TypeOK, Replied, FinalUnits, FinalsOf

\* Writing a unit counts as an answer exactly if the unit is final.
LEMMA RepliedStep ==
  ASSUME TypeOK, NEW k \in Final \cup Part,
         out' = Append(out, OutUnit(k))
  PROVE  Replied' = Replied + (IF k \in Final THEN 1 ELSE 0)
<1>1. OutUnit(k) \in OutRecord /\ OutUnit(k).kind = k /\ out \in Seq(OutRecord)
  BY OutUnitType DEF TypeOK
<1>2. Replied = Cardinality(FinalsOf(out))
  BY DEF Replied, FinalUnits, FinalsOf
<1>3. Replied' = Cardinality(FinalsOf(out'))
  BY DEF Replied, FinalUnits, FinalsOf
<1> QED
  BY <1>1, <1>2, <1>3, FinalsAppend

\* A step that neither takes a request nor answers one.
LEMMA QuietStep ==
  ASSUME Shaped, Pending, taken' = taken, Replied' = Replied,
         \/ pc' = pc
         \/ ~Ended /\ (Ended' \/ (pc \in Idle <=> pc' \in Idle))
  PROVE  Pending' /\ ExchangeStep
<1>1. Pending'
  BY DEF Pending, Replied, Ended, Idle
<1>2. ExchangeStep
  BY DEF ExchangeStep, Counted!Next, Counted!Close, Counted!vars, Replied, Ended
<1> QED
  BY <1>1, <1>2

\* A step that takes a request.
LEMMA TakeStep ==
  ASSUME Shaped, Pending, pc = "header", taken' = taken + 1, out' = out,
         pc' \in {"continue", "handler", "collect", "accept", "failed"}
  PROVE  Pending' /\ ExchangeStep
<1>1. Replied' = Replied
  BY DEF Replied, FinalUnits
<1>2. Pending'
  BY <1>1 DEF Pending, Replied, Ended, Idle
<1>3. ExchangeStep
  BY <1>1 DEF ExchangeStep, Counted!Next, Counted!Take, Pending, Idle, Replied, Ended
<1> QED
  BY <1>2, <1>3

\* A step that answers the request being served.
LEMMA ReplyStep ==
  ASSUME Shaped, Pending, pc \notin Idle, ~Ended, taken' = taken,
         NEW k \in Final, out' = Append(out, OutUnit(k)), Ended' \/ pc' \in Idle
  PROVE  Pending' /\ ExchangeStep
<1>1. Replied' = Replied + 1 /\ Replied \in Nat
  BY RepliedNat, RepliedStep
<1>2. taken = Replied + 1
  BY DEF Pending, Replied
<1>3. Pending'
  BY <1>1, <1>2 DEF Pending, Replied, Ended, Idle
<1>4. ExchangeStep
  BY <1>1, <1>2 DEF ExchangeStep, Counted!Next, Counted!Reply, Replied, Ended
<1> QED
  BY <1>3, <1>4

\* The part of a message that is not its last.
LEMMA PartStep ==
  ASSUME Shaped, Pending, ~Ended, taken' = taken,
         NEW k \in Part,
         out' = Append(out, OutUnit(k)),
         Ended' \/ (pc \in Idle <=> pc' \in Idle)
  PROVE  Pending' /\ ExchangeStep
<1>1. k \notin Final
  BY DEF Final
<1>2. Replied' = Replied
  BY <1>1, RepliedStep, RepliedNat
<1> QED
  BY <1>2, QuietStep

\* On a new connection nothing is taken and nothing answered.
LEMMA PendingInit == Init => Pending /\ Counted!Init
<1> SUFFICES ASSUME Init PROVE Pending /\ Counted!Init
  OBVIOUS
<1>1. FinalUnits = {}
  BY DEF Init, FinalUnits
<1>2. Cardinality(FinalUnits) = 0
  BY <1>1, FS_EmptySet
<1> QED
  BY <1>2 DEF Init, Pending, Idle, Ended, Replied, Counted!Init

\* The end of an iteration lands between requests, or outside the loop.
LEMMA ServedIdle == Served => pc' \in {"header", "closing", "done"}
BY DEF Served, NextRequest, Finish

\* At each await the number of answers still owed is known, and each step takes one
\* request, answers one, closes the exchange, or leaves it as it is.
LEMMA PendingStep == Shaped /\ Pending /\ [Next]_vars => Pending' /\ ExchangeStep
<1> SUFFICES ASSUME Shaped, Pending, [Next]_vars PROVE Pending' /\ ExchangeStep
  OBVIOUS
<1>q. ASSUME taken' = taken, out' = out, pc' = pc
      PROVE  Pending' /\ ExchangeStep
  BY <1>q, QuietStep DEF Replied, FinalUnits
<1>f. ASSUME taken' = taken, out' = out, ~Ended, pc' = "failed"
      PROVE  Pending' /\ ExchangeStep
  BY <1>f, QuietStep DEF Replied, FinalUnits, Ended
<1>m. ASSUME taken' = taken, out' = out, ~Ended, pc \notin Idle, pc' \notin Idle
      PROVE  Pending' /\ ExchangeStep
  BY <1>m, QuietStep DEF Replied, FinalUnits
<1>i. ASSUME taken' = taken, out' = out, pc \in Idle, Ended' \/ pc' \in Idle
      PROVE  Pending' /\ ExchangeStep
  BY <1>i, QuietStep DEF Replied, FinalUnits, Ended, Idle
<1> USE DEF Ended, Idle
<1>1. CASE Client
  BY <1>1, <1>q DEF Client, SendHead, SendPiece, Leave
<1>2. CASE Expire
  BY <1>2, <1>q DEF Expire
<1>3. CASE Handshake
  BY <1>3, <1>i DEF Handshake
<1>4. CASE ReadHead
  <2>1. /\ pc = "header" /\ taken' = taken + 1 /\ out' = out
        /\ pc' = "continue" \/ \E c : Route(c)
    BY <1>4 DEF ReadHead, Take
  <2> QED
    BY <2>1, RouteTypes, TakeStep
<1>5. CASE ReadBigHead
  BY <1>5, TextType, TakeStep DEF ReadBigHead, Take, Respond
<1>6. CASE ReadStrayHead
  <2>1. /\ pc = "header" /\ taken' = taken + 1 /\ out' = out
        /\ \E c : Route(c)
    BY <1>6 DEF ReadStrayHead, Take
  <2> QED
    BY <2>1, RouteTypes, TakeStep
<1>7. CASE ReadHeadFails
  BY <1>7, <1>f DEF ReadHeadFails, Fail
<1>8. CASE WriteContinue
  <2>1. /\ pc = "continue" /\ taken' = taken
        /\ out' = Append(out, OutUnit("continue")) /\ Route(cur)
    BY <1>8 DEF WriteContinue
  <2> QED
    BY <2>1, RouteTypes, PartStep
<1>9. CASE WriteFails
  <2>1. /\ ~Ended /\ taken' = taken /\ pc' = "failed"
        /\ out' = out \/ out' = Append(out, OutUnit("torn"))
    BY <1>9 DEF WriteFails, Fail
  <2> QED
    BY <2>1, <1>f, PartStep
<1>10. CASE HandlerReads
  BY <1>10, <1>m DEF HandlerReads
<1>11. CASE HandlerThrows
  BY <1>11, <1>f DEF HandlerThrows, Fail
<1>12. ASSUME NEW a \in Answers, HandlerReturns(a) PROVE Pending' /\ ExchangeStep
  BY <1>12, <1>m DEF HandlerReturns, Respond
<1>13. CASE ReadPiece
  <2>1. /\ pc \in {"body", "collect", "chunks"} /\ pc' \in {pc, "handler"}
        /\ taken' = taken /\ out' = out
    BY <1>13 DEF ReadPiece, ReadsBody
  <2> QED
    BY <2>1, <1>m
<1>14. CASE ReadPieceFails
  <2>1. /\ pc \in {"body", "collect", "chunks"} /\ pc' \in {"handler", "failed"}
        /\ taken' = taken /\ out' = out
    BY <1>14 DEF ReadPieceFails, ReadsBody, Fail
  <2> QED
    BY <2>1, <1>m
<1>15. CASE Collect
  BY <1>15, <1>m DEF Collect
<1>16. CASE StreamEndsBadly
  BY <1>16, <1>f DEF StreamEndsBadly, Fail
<1>17. CASE WriteResponse
  BY <1>17, ServedIdle, ReplyStep DEF WriteResponse, Write, Final
<1>18. CASE WriteChunkHead
  BY <1>18, PartStep DEF WriteChunkHead, Write
<1>19. CASE WriteChunk
  <2>1. /\ pc = "chunks" /\ pc' = pc /\ taken' = taken
        /\ \/ out' = Append(out, OutUnit("chunk"))
           \/ out' = Append(out, OutUnit("empty"))
    BY <1>19 DEF WriteChunk, Write
  <2> QED
    BY <2>1, PartStep
<1>20. CASE WriteLastChunk
  BY <1>20, ServedIdle, ReplyStep DEF WriteLastChunk, Write, Final
<1>21. CASE Accept
  BY <1>21, ReplyStep DEF Accept, Write, Final
<1>22. CASE AcceptFails
  <2>1. /\ pc = "accept" /\ taken' = taken /\ pc' = "failed"
        /\ out' = out \/ out' = Append(out, OutUnit("refuse"))
    BY <1>22 DEF AcceptFails, Fail
  <2> QED
    BY <2>1, <1>f, ReplyStep DEF Final
<1>23. CASE ReadFrame
  BY <1>23, <1>q DEF ReadFrame
<1>24. CASE CallbackReturns
  BY <1>24, <1>i, ServedIdle DEF CallbackReturns
<1>25. CASE CallbackThrows
  BY <1>25, <1>f DEF CallbackThrows, Fail
<1>26. CASE Shutdown
  BY <1>26, <1>i DEF Shutdown
<1>27. CASE UNCHANGED vars
  BY <1>27, <1>q DEF vars
<1> QED
  BY <1>1, <1>2, <1>3, <1>4, <1>5, <1>6, <1>7, <1>8, <1>9, <1>10, <1>11,
     <1>12, <1>13, <1>14, <1>15, <1>16, <1>17, <1>18, <1>19, <1>20, <1>21,
     <1>22, <1>23, <1>24, <1>25, <1>26, <1>27 DEF Next, Session, Rest

\* What was written stays, and a step writes one unit or none.
LEMMA OutGrows ==
  ASSUME [Next]_vars
  PROVE  \/ out' = out
         \/ \E k \in Final \cup Part : out' = Append(out, OutUnit(k))
<1> DEFINE W(k) == out' = Append(out, OutUnit(k))
<1>1. ASSUME \E k \in Final \cup Part : Write(k)
      PROVE  \E k \in Final \cup Part : W(k)
  BY <1>1 DEF Write
<1>2. CASE \/ Client \/ Expire \/ Handshake \/ ReadHead \/ ReadBigHead
           \/ ReadStrayHead \/ ReadHeadFails \/ HandlerReads \/ HandlerThrows
           \/ (\E a \in Answers : HandlerReturns(a))
           \/ ReadPiece \/ ReadPieceFails \/ Collect \/ StreamEndsBadly
           \/ ReadFrame \/ CallbackReturns \/ CallbackThrows \/ Shutdown
           \/ UNCHANGED vars
  <2>1. out' = out
    BY <1>2 DEF Client, SendHead, SendPiece, Leave, Expire, Handshake, ReadHead,
       ReadBigHead, ReadStrayHead, Take, ReadHeadFails, HandlerReads,
       HandlerThrows, HandlerReturns, ReadPiece, ReadPieceFails, Collect,
       StreamEndsBadly, ReadFrame, CallbackReturns, CallbackThrows, Shutdown, vars
  <2> QED
    BY <2>1
<1>3. CASE WriteContinue \/ WriteFails \/ AcceptFails
  BY <1>3 DEF WriteContinue, WriteFails, AcceptFails, Final, Part
<1>4. CASE \/ WriteResponse \/ WriteChunkHead \/ WriteChunk
           \/ WriteLastChunk \/ Accept
  <2>1. \E k \in Final \cup Part : Write(k)
    BY <1>4 DEF WriteResponse, WriteChunkHead, WriteChunk, WriteLastChunk,
       Accept, Final, Part
  <2> QED
    BY <1>1, <2>1
<1> QED
  BY <1>2, <1>3, <1>4 DEF Next, Session, Rest

\* While no piece without bytes was written, messages end where answers do, and
\* none had been written before.
LEMMA SolidCounts ==
  /\ Solid => EndUnits = FinalUnits
  /\ Solid' => EndUnits' = FinalUnits'
  /\ TypeOK /\ [Next]_vars /\ Solid' => Solid
<1>1. /\ Solid => EndUnits = FinalUnits
      /\ Solid' => EndUnits' = FinalUnits'
  BY DEF Solid, EndUnits, FinalUnits
<1>2. ASSUME TypeOK, [Next]_vars, Solid' PROVE Solid
  <2>1. CASE out' = out
    BY <1>2, <2>1 DEF Solid
  <2>2. ASSUME NEW k \in Final \cup Part, out' = Append(out, OutUnit(k))
        PROVE  Solid
    <3>1. \A i \in DOMAIN out : i \in DOMAIN out' /\ out'[i] = out[i]
      BY <1>2, <2>2, OutUnitType DEF TypeOK
    <3> QED
      BY <1>2, <3>1 DEF Solid
  <2> QED
    BY <1>2, <2>1, <2>2, OutGrows
<1> QED
  BY <1>1, <1>2

\* Up to the first piece without bytes, counting the messages that have ended
\* for the client is counting the answers the session has done with.
LEMMA CountedSteps ==
  ASSUME TypeOK, [Next]_vars, ExchangeStep
  PROVE  [Solid' => Exchange!Next]_(Exchange!vars)
<1> SUFFICES ASSUME Solid' PROVE [Exchange!Next]_(Exchange!vars)
  OBVIOUS
<1>1. /\ Cardinality(EndUnits) = Replied
      /\ Cardinality(EndUnits)' = Replied'
  BY SolidCounts DEF Replied
<1>2. CASE UNCHANGED Counted!vars
  BY <1>1, <1>2 DEF Counted!vars, Exchange!vars
<1>3. CASE Counted!Next
  BY <1>1, <1>3 DEF Counted!Next, Counted!Take, Counted!Reply, Counted!Close,
     Exchange!Next, Exchange!Take, Exchange!Reply, Exchange!Close
<1> QED
  BY <1>2, <1>3 DEF ExchangeStep

\* Up to the first piece without bytes, the session serves one request at a
\* time, answers each at most once, and does nothing more once it has ended: it
\* implements HttpExchange.
THEOREM ImplementsExchange == Spec => ExchangeSpec
<1>1. Init => Pending /\ Exchange!Init
  <2>1. ASSUME Init PROVE Solid
    BY <2>1 DEF Init, Solid
  <2>2. ASSUME Init PROVE Cardinality(EndUnits) = Replied
    BY <2>1, <2>2, SolidCounts DEF Replied
  <2> QED
    BY <2>2, PendingInit DEF Counted!Init, Exchange!Init
<1>2. Shaped /\ Pending /\ [Next]_vars =>
        Pending' /\ [Solid' => Exchange!Next]_(Exchange!vars)
  BY PendingStep, CountedSteps DEF Shaped
<1> QED
  BY <1>1, <1>2, ShapedAlways, PTL DEF Spec, ExchangeSpec
-----------------------------------------------------------------------------
(* What is written and read.                                               *)

LastUnit == out[Len(out)]

\* Each unit follows the one before it as Framing says.
Follows(u, v) ==
  /\ u.kind # "torn"
  /\ IF u.kind \in Final THEN v.turn > u.turn ELSE v.turn = u.turn
  /\ u.kind \in {"head", "chunk", "empty"} => v.kind \in {"chunk", "empty", "last", "torn"}
Chained(o) == \A i \in 1..(Len(o) - 1) : Follows(o[i], o[i + 1])

\* What the last unit is, by where the session is: the end of an answer, of an
\* earlier request's if one is being served; its 100 (Continue); or a part of it.
Settled == out # << >> => LastUnit.kind \in Final
Unanswered == out # << >> => LastUnit.kind \in Final /\ LastUnit.turn < taken
Continued == out # << >> /\ LastUnit.kind = "continue" /\ LastUnit.turn = taken
Streaming == /\ out # << >> /\ LastUnit.kind \in {"head", "chunk", "empty"}
             /\ LastUnit.turn = taken

Framed ==
  /\ Chained(out)
  /\ \A i \in DOMAIN out : out[i].turn <= taken
  /\ pc \in Idle \cup {"done"} => Settled
  /\ pc = "continue" => Unanswered
  /\ pc \in {"handler", "body", "collect", "write", "chunkhead", "accept"} =>
       Unanswered \/ Continued
  /\ pc = "chunks" => Streaming
  /\ cur.expect /\ ~cur.upgrade /\ pc \in {"handler", "body"} => Continued

\* A response that says "close" was the last, and so the connection is closed.
Closes ==
  /\ \A i \in DOMAIN out :
       out[i].kind \in {"full", "last"} /\ out[i].close =>
         i = Len(out) /\ pc \in {"closing", "done", "failed"}
  /\ pc \in {"closing", "done"} => /\ out # << >>
                                   /\ LastUnit.kind \in Final /\ LastUnit.close
  /\ pc = "socket" => /\ out # << >>
                      /\ LastUnit.kind = "switch" /\ LastUnit.close = ~cur.keep

\* An upgrade turns the deadline off, and only an upgrade's handler runs without.
Timed ==
  /\ RequestTimeout /\ pc \in {"header", "continue", "body", "collect", "write",
                               "chunkhead", "chunks"} => timer # "off"
  /\ pc \in {"accept", "socket"} => timer = "off"
  /\ pc \in {"continue", "body"} => ~cur.upgrade
  /\ pc = "handler" /\ cur.upgrade => timer = "off" /\ body # "unread"
  /\ RequestTimeout /\ pc = "handler" /\ ~cur.upgrade => timer # "off"
-----------------------------------------------------------------------------
(* Framing.                                                                *)

\* A new connection has written nothing.
LEMMA FramedInit == Init => Framed
BY DEF Init, Framed, Chained, Settled, Unanswered, Continued, Streaming, Idle

\* A unit is appended that may follow the last one.
LEMMA AppendFollows ==
  ASSUME NEW o \in Seq(OutRecord), Chained(o), NEW v \in OutRecord,
         o # << >> => Follows(o[Len(o)], v)
  PROVE  Chained(Append(o, v))
<1>1. /\ Len(Append(o, v)) = Len(o) + 1 /\ Len(o) \in Nat
      /\ \A i \in 1..Len(o) : Append(o, v)[i] = o[i]
      /\ Append(o, v)[Len(o) + 1] = v
  OBVIOUS
<1>2. ASSUME NEW i \in 1..Len(o)
      PROVE  Follows(Append(o, v)[i], Append(o, v)[i + 1])
  <2>1. CASE i = Len(o)
    <3>1. o # << >>
      BY <1>1, <2>1
    <3> QED
      BY <1>1, <2>1, <3>1
  <2>2. CASE i # Len(o)
    <3>1. i \in 1..(Len(o) - 1) /\ i + 1 \in 1..Len(o)
      BY <1>1, <2>2
    <3> QED
      BY <1>1, <3>1 DEF Chained
  <2> QED
    BY <2>1, <2>2
<1> QED
  BY <1>1, <1>2 DEF Chained

\* A step that writes nothing for the request in hand keeps the last unit.
LEMMA QuietFramed ==
  ASSUME Framed, taken' = taken, out' = out
  PROVE  /\ Chained(out') /\ \A i \in DOMAIN out' : out'[i].turn <= taken'
         /\ Settled => Settled'
         /\ Unanswered => Unanswered'
         /\ Continued => Continued'
         /\ Streaming => Streaming'
BY DEF Framed, Settled, Unanswered, Continued, Streaming, LastUnit

\* The turn of a unit that was written is a number.
LEMMA TurnNat ==
  ASSUME TypeOK
  PROVE  /\ \A i \in DOMAIN out : out[i].turn \in Nat
         /\ out # << >> => Len(out) \in DOMAIN out
<1>1. out \in Seq(OutRecord)
  BY DEF TypeOK
<1>2. \A u \in OutRecord : u.turn \in Nat
  BY DEF OutRecord
<1> QED
  BY <1>1, <1>2

\* A request taken makes every answer an answer to an earlier one.
LEMMA TakeFramed ==
  ASSUME TypeOK, Framed, pc = "header", taken' = taken + 1, out' = out,
         pc' \in {"continue", "handler", "collect", "accept", "failed"},
         pc' = "handler" => ~(cur'.expect /\ ~cur'.upgrade)
  PROVE  Framed'
<1>1. \A i \in DOMAIN out : out[i].turn \in Nat
  BY TurnNat
<1>2. Settled /\ taken \in Nat
  BY DEF TypeOK, Framed, Idle
<1>3. \A i \in DOMAIN out : out[i].turn < taken'
  BY <1>1, <1>2 DEF Framed
<1>4. out # << >> => Len(out) \in DOMAIN out
  BY TurnNat
<1>5. Unanswered'
  BY <1>2, <1>3, <1>4 DEF Unanswered, Settled, LastUnit
<1>6. Chained(out') /\ \A i \in DOMAIN out' : out'[i].turn <= taken'
  BY <1>1, <1>2, <1>3 DEF Framed
<1> QED
  BY <1>5, <1>6 DEF Framed, Idle

\* What may be written while the request in hand is not answered yet.
Owing == Unanswered \/ Continued

\* A unit written for the request in hand becomes the last.
LEMMA WriteFramed ==
  ASSUME TypeOK, Framed, taken' = taken,
         NEW k \in Final \cup Part,
         out' = Append(out, OutUnit(k)),
         Owing \/ (Streaming /\ k \in {"chunk", "empty", "last", "torn"})
  PROVE  /\ Chained(out') /\ \A i \in DOMAIN out' : out'[i].turn <= taken'
         /\ out' # << >> /\ LastUnit'.kind = k /\ LastUnit'.turn = taken'
<1> DEFINE u == OutUnit(k)
<1>1. u \in OutRecord /\ u.kind = k /\ u.turn = taken
  BY OutUnitType DEF OutUnit
<1>2. out \in Seq(OutRecord) /\ Chained(out) /\ taken \in Nat
  BY DEF TypeOK, Framed
<1>3. out # << >> => Len(out) \in DOMAIN out /\ LastUnit.turn \in Nat
  BY TurnNat DEF LastUnit
<1>4. out' = Append(out, u)
  OBVIOUS
<1> HIDE DEF u
<1>5. out # << >> => Follows(LastUnit, u)
  BY <1>1, <1>2, <1>3 DEF Owing, Unanswered, Continued, Streaming, Follows, Final
<1>6. Chained(out')
  BY <1>1, <1>2, <1>4, <1>5, AppendFollows DEF LastUnit
<1>7. \A i \in DOMAIN out' : out'[i] = u \/ (i \in DOMAIN out /\ out'[i] = out[i])
  BY <1>2, <1>4
<1>8. out' # << >> /\ LastUnit' = u
  BY <1>2, <1>4 DEF LastUnit
<1> QED
  BY <1>1, <1>2, <1>6, <1>7, <1>8 DEF Framed

\* Routing goes on to an answer, or to a handler that no 100 (Continue) is due to.
LEMMA RouteFramed ==
  ASSUME TypeOK, Framed, pc = "continue", taken' = taken,
         out' = Append(out, OutUnit("continue")), cur' = cur,
         pc' \in {"handler", "collect", "accept", "failed"}
  PROVE  Framed'
<1>1. Owing
  BY DEF Framed, Owing
<1>2. /\ Chained(out') /\ \A i \in DOMAIN out' : out'[i].turn <= taken'
      /\ Continued'
  BY <1>1, WriteFramed DEF Continued
<1> QED
  BY <1>2 DEF Framed, Idle

\* Every step keeps what is written well framed: one step for each action.
LEMMA FramedStep == Shaped /\ Framed /\ [Next]_vars => Framed'
<1> SUFFICES ASSUME Shaped, Framed, [Next]_vars PROVE Framed'
  OBVIOUS
<1>a. TypeOK
  BY DEF Shaped
<1> DEFINE Q == /\ Chained(out') /\ \A i \in DOMAIN out' : out'[i].turn <= taken'
                /\ Settled => Settled'
                /\ Unanswered => Unanswered'
                /\ Continued => Continued'
                /\ Streaming => Streaming'
<1>q. ASSUME taken' = taken, out' = out, pc' = pc, cur' = cur PROVE Framed'
  <2>1. Q
    BY <1>q, QuietFramed
  <2> QED
    BY <1>q, <2>1 DEF Framed
<1>f. ASSUME taken' = taken, out' = out, pc' = "failed" PROVE Framed'
  BY <1>f, QuietFramed DEF Framed, Idle
<1>i. ASSUME taken' = taken, out' = out, pc \in Idle, pc' \in Idle \cup {"done", "failed"}
      PROVE  Framed'
  <2>1. Q
    BY <1>i, QuietFramed
  <2> QED
    BY <1>i, <2>1 DEF Framed, Idle
<1>o. ASSUME taken' = taken, out' = out, cur' = cur,
             pc \in {"handler", "body", "collect"},
             \/ pc' \in {"collect", "write", "chunkhead", "accept", "failed"}
             \/ pc \in {"handler", "body"} /\ pc' \in {"handler", "body"}
      PROVE  Framed'
  <2>1. Q
    BY <1>o, QuietFramed
  <2> QED
    BY <1>o, <2>1 DEF Framed, Idle
<1>w. ASSUME NEW k \in Final, taken' = taken, out' = Append(out, OutUnit(k)),
             Owing \/ (Streaming /\ k = "last"), pc' \in Idle \cup {"done", "failed"}
      PROVE  Framed'
  <2>1. Chained(out') /\ \A i \in DOMAIN out' : out'[i].turn <= taken'
    BY <1>a, <1>w, WriteFramed
  <2>2. Settled'
    BY <1>a, <1>w, WriteFramed DEF Settled
  <2> QED
    BY <2>1, <2>2, <1>w DEF Framed, Idle
<1>t. ASSUME taken' = taken, pc' = "failed",
             NEW k \in Final \cup {"torn"}, out' = Append(out, OutUnit(k)),
             Owing \/ (Streaming /\ k = "torn")
      PROVE  Framed'
  BY <1>a, <1>t, WriteFramed DEF Framed, Idle
<1>1. CASE Client
  BY <1>1, <1>q DEF Client, SendHead, SendPiece, Leave
<1>2. CASE Expire
  BY <1>2, <1>q DEF Expire
<1>3. CASE Handshake
  BY <1>3, <1>i DEF Handshake, Idle
<1>4. CASE ReadHead
  <2>1. /\ pc = "header" /\ taken' = taken + 1 /\ out' = out
        /\ \/ pc' = "continue"
           \/ (\E c : Route(c)) /\ ~(cur'.expect /\ ~cur'.upgrade)
    <3> DEFINE c == Request(wire[1][1], sent[wire[1][1]])
               n == IF c.upgrade THEN 0 ELSE sent[wire[1][1]].body
    <3>1. /\ Take(c, n)
          /\ IF c.expect /\ ~c.upgrade THEN pc' = "continue" ELSE Route(c)
      BY <1>4 DEF ReadHead
    <3> HIDE DEF c, n
    <3> QED
      BY <3>1 DEF Take
  <2> QED
    BY <1>a, <2>1, RouteTypes, TakeFramed
<1>5. CASE ReadBigHead
  BY <1>a, <1>5, TextType, TakeFramed DEF ReadBigHead, Take, Respond
<1>6. CASE ReadStrayHead
  <2>1. PICK k \in BOOLEAN, t \in {"route", "none"} :
          Take(Stray(k, t), 0) /\ Route(Stray(k, t))
    BY <1>6 DEF ReadStrayHead
  <2>2. /\ pc = "header" /\ taken' = taken + 1 /\ out' = out
        /\ cur' = Stray(k, t)
    BY <2>1 DEF Take
  <2>3. ~cur'.expect
    BY <2>2 DEF Stray, NoRequest
  <2> QED
    BY <1>a, <2>1, <2>2, <2>3, RouteTypes, TakeFramed
<1>7. CASE ReadHeadFails
  BY <1>7, <1>f DEF ReadHeadFails, Fail
<1>8. CASE WriteContinue
  <2>1. /\ pc = "continue" /\ taken' = taken /\ cur' = cur
        /\ out' = Append(out, OutUnit("continue")) /\ Route(cur)
    BY <1>8 DEF WriteContinue
  <2> QED
    BY <1>a, <2>1, RouteTypes, RouteFramed
<1>9. CASE WriteFails
  <2>1. /\ pc \in {"continue", "write", "chunkhead", "chunks"}
        /\ taken' = taken /\ pc' = "failed"
        /\ out' = out \/ out' = Append(out, OutUnit("torn"))
    BY <1>9 DEF WriteFails, Fail
  <2>2. Owing \/ Streaming
    BY <2>1 DEF Framed, Owing
  <2> QED
    BY <2>1, <2>2, <1>f, <1>t
<1>10. CASE HandlerReads
  BY <1>10, <1>o DEF HandlerReads
<1>11. CASE HandlerThrows
  BY <1>11, <1>f DEF HandlerThrows, Fail
<1>12. ASSUME NEW a \in Answers, HandlerReturns(a) PROVE Framed'
  <2>1. /\ pc = "handler" /\ taken' = taken /\ out' = out /\ cur' = cur
        /\ pc' \in {"accept", "write", "collect", "chunkhead"}
    BY <1>12 DEF HandlerReturns, Respond
  <2> QED
    BY <2>1, <1>o
<1>13. CASE ReadPiece
  <2>1. /\ pc \in {"body", "collect", "chunks"} /\ cur' = cur
        /\ pc' = pc \/ (pc = "body" /\ pc' = "handler")
        /\ taken' = taken /\ out' = out
    BY <1>13 DEF ReadPiece, ReadsBody
  <2> QED
    BY <2>1, <1>q, <1>o
<1>14. CASE ReadPieceFails
  <2>1. /\ (pc = "body" /\ pc' = "handler" /\ cur' = cur) \/ pc' = "failed"
        /\ taken' = taken /\ out' = out
    BY <1>14 DEF ReadPieceFails, ReadsBody, Fail
  <2> QED
    BY <2>1, <1>f, <1>o
<1>15. CASE Collect
  BY <1>15, <1>o DEF Collect
<1>16. CASE StreamEndsBadly
  BY <1>16, <1>f DEF StreamEndsBadly, Fail
<1>17. CASE WriteResponse
  <2>1. Owing
    BY <1>17 DEF WriteResponse, Framed, Owing
  <2> QED
    BY <1>17, <2>1, <1>w, ServedIdle DEF WriteResponse, Write, Final, Idle
<1>18. CASE WriteChunkHead
  <2>1. /\ pc = "chunkhead" /\ pc' = "chunks" /\ taken' = taken
        /\ out' = Append(out, OutUnit("head"))
    BY <1>18 DEF WriteChunkHead, Write
  <2>2. Owing
    BY <2>1 DEF Framed, Owing
  <2>3. Chained(out') /\ (\A i \in DOMAIN out' : out'[i].turn <= taken') /\ Streaming'
    BY <1>a, <2>1, <2>2, WriteFramed DEF Streaming
  <2> QED
    BY <2>1, <2>3 DEF Framed, Idle
<1>19. CASE WriteChunk
  <2>1. /\ pc = "chunks" /\ pc' = pc /\ taken' = taken
        /\ \/ out' = Append(out, OutUnit("chunk"))
           \/ out' = Append(out, OutUnit("empty"))
    BY <1>19 DEF WriteChunk, Write
  <2>2. Streaming
    BY <2>1 DEF Framed
  <2>3. Chained(out') /\ (\A i \in DOMAIN out' : out'[i].turn <= taken') /\ Streaming'
    BY <1>a, <2>1, <2>2, WriteFramed DEF Streaming
  <2> QED
    BY <2>1, <2>3 DEF Framed, Idle
<1>20. CASE WriteLastChunk
  <2>1. Streaming
    BY <1>20 DEF WriteLastChunk, Framed
  <2> QED
    BY <1>20, <2>1, <1>w, ServedIdle DEF WriteLastChunk, Write, Final, Idle
<1>21. CASE Accept
  <2>1. Owing
    BY <1>21 DEF Accept, Framed, Owing
  <2> QED
    BY <1>21, <2>1, <1>w DEF Accept, Write, Final, Idle
<1>22. CASE AcceptFails
  <2>1. /\ pc = "accept" /\ taken' = taken /\ pc' = "failed"
        /\ out' = out \/ out' = Append(out, OutUnit("refuse"))
    BY <1>22 DEF AcceptFails, Fail
  <2>2. Owing
    BY <2>1 DEF Framed, Owing
  <2> QED
    BY <2>1, <2>2, <1>f, <1>t DEF Final
<1>23. CASE ReadFrame
  BY <1>23, <1>q DEF ReadFrame
<1>24. CASE CallbackReturns
  BY <1>24, <1>i, ServedIdle DEF CallbackReturns, Idle
<1>25. CASE CallbackThrows
  BY <1>25, <1>f DEF CallbackThrows, Fail
<1>26. CASE Shutdown
  BY <1>26, <1>i DEF Shutdown, Idle
<1>27. CASE UNCHANGED vars
  BY <1>27, <1>q DEF vars
<1> QED
  BY <1>1, <1>2, <1>3, <1>4, <1>5, <1>6, <1>7, <1>8, <1>9, <1>10, <1>11,
     <1>12, <1>13, <1>14, <1>15, <1>16, <1>17, <1>18, <1>19, <1>20, <1>21,
     <1>22, <1>23, <1>24, <1>25, <1>26, <1>27 DEF Next, Session, Rest

\* The units are in the order of the requests, and behind the end of an answer
\* there are only units of later requests.
Rising(o) ==
  \A i, j \in DOMAIN o : i < j =>
    /\ o[i].turn <= o[j].turn
    /\ o[i].kind \in Final => o[i].turn < o[j].turn

\* A unit that may follow the last one keeps the order.
LEMMA AppendRising ==
  ASSUME NEW o \in Seq(OutRecord), Rising(o), NEW v \in OutRecord,
         o # << >> => Follows(o[Len(o)], v)
  PROVE  Rising(Append(o, v))
<1> DEFINE p == Append(o, v)
<1>t. \A u \in OutRecord : u.turn \in Nat
  BY DEF OutRecord
<1>p. /\ DOMAIN p = 1..(Len(o) + 1) /\ DOMAIN o = 1..Len(o) /\ Len(o) \in Nat
      /\ \A i \in 1..Len(o) : p[i] = o[i] /\ o[i] \in OutRecord
      /\ p[Len(o) + 1] = v
  OBVIOUS
<1>1. /\ DOMAIN p = 1..(Len(o) + 1) /\ DOMAIN o = 1..Len(o) /\ Len(o) \in Nat
      /\ \A i \in 1..Len(o) : p[i] = o[i] /\ o[i].turn \in Nat
      /\ p[Len(o) + 1] = v /\ v.turn \in Nat
  BY <1>t, <1>p
<1> HIDE DEF p
<1>2. ASSUME NEW i \in 1..Len(o)
      PROVE  /\ o[i].turn <= v.turn
             /\ o[i].kind \in Final => o[i].turn < v.turn
  <2>1. Follows(o[Len(o)], v) /\ Len(o) \in 1..Len(o)
    BY <1>1, <1>2
  <2>2. /\ o[Len(o)].turn <= v.turn
        /\ o[Len(o)].kind \in Final => o[Len(o)].turn < v.turn
    BY <1>1, <2>1 DEF Follows
  <2>3. CASE i = Len(o)
    BY <2>2, <2>3
  <2>4. CASE i < Len(o)
    BY <1>1, <2>1, <2>2, <2>4 DEF Rising
  <2> QED
    BY <1>1, <2>3, <2>4
<1>3. ASSUME NEW i \in DOMAIN p, NEW j \in DOMAIN p, i < j
      PROVE  p[i].turn <= p[j].turn /\ (p[i].kind \in Final => p[i].turn < p[j].turn)
  <2>1. i \in 1..Len(o)
    BY <1>1, <1>3
  <2>2. CASE j = Len(o) + 1
    BY <1>1, <1>2, <2>1, <2>2
  <2>3. CASE j # Len(o) + 1
    <3>1. j \in 1..Len(o)
      BY <1>1, <2>3
    <3> QED
      BY <1>1, <1>3, <2>1, <3>1 DEF Rising
  <2> QED
    BY <2>2, <2>3
<1>4. Rising(p)
  BY <1>3 DEF Rising
<1> QED
  BY <1>4 DEF p

\* Every step keeps the order of the units.
LEMMA RisingStep == Shaped /\ Framed' /\ Rising(out) /\ [Next]_vars => Rising(out')
<1> SUFFICES ASSUME Shaped, Framed', Rising(out), [Next]_vars PROVE Rising(out')
  OBVIOUS
<1>1. CASE out' = out
  BY <1>1
<1>2. ASSUME NEW k \in Final \cup Part, out' = Append(out, OutUnit(k))
      PROVE  Rising(out')
  <2> DEFINE u == OutUnit(k)
  <2>1. u \in OutRecord /\ out \in Seq(OutRecord) /\ out' = Append(out, u)
    BY <1>2, OutUnitType DEF Shaped, TypeOK
  <2> HIDE DEF u
  <2>2. out # << >> => Follows(out[Len(out)], u)
    <3>1. /\ Len(out') = Len(out) + 1 /\ out'[Len(out) + 1] = u
          /\ \A i \in 1..Len(out) : out'[i] = out[i]
          /\ Len(out) \in Nat
      BY <2>1
    <3>2. out # << >> => Len(out) \in 1..(Len(out') - 1)
      BY <2>1, <3>1
    <3> QED
      BY <3>1, <3>2 DEF Framed, Chained
  <2> QED
    BY <2>1, <2>2, AppendRising
<1> QED
  BY <1>1, <1>2, OutGrows

\* What the session writes for one request is contiguous, and one unit ends the
\* answer; the message ends for the client only there as long as no piece
\* without bytes was written; and a client that waits for the 100 (Continue)
\* has it before its body is read.
THEOREM FramingHolds == Spec => []Framing
<1>1. Shaped /\ Framed /\ Rising(out) => Framing
  <2> SUFFICES ASSUME Shaped, Framed, Rising(out) PROVE Framing
    OBVIOUS
  <2>2. ASSUME Solid PROVE AnswersEndOnce
    <3>1. EndUnits = FinalUnits
      BY <2>2, SolidCounts
    <3>2. \A i \in DOMAIN out : out[i].turn \in Nat /\ i \in Nat
      BY TurnNat DEF Shaped, TypeOK
    <3> QED
      BY <3>1, <3>2 DEF Rising, AnswersEndOnce, FinalUnits
  <2>1. ASSUME Continued
        PROVE  \E i \in DOMAIN out : out[i].turn = taken /\ out[i].kind = "continue"
    BY <2>1, TurnNat DEF Shaped, Continued, LastUnit
  <2> QED
    BY <2>1, <2>2 DEF Framed, Framing, Chained, Follows
<1>2. Init => Rising(out)
  BY DEF Init, Rising
<1> DEFINE R == Rising(out)
<1>3. Shaped /\ Framed' /\ R /\ [Next]_vars => R'
  BY RisingStep
<1>4. (Shaped /\ Framed /\ R => Framing) /\ (Init => R)
  BY <1>1, <1>2
<1> HIDE DEF R
<1> QED
  BY <1>3, <1>4, FramedInit, FramedStep, ShapedAlways, PTL DEF Spec
-----------------------------------------------------------------------------
(* The response that says "close".                                         *)
Closing(u) == u.kind \in {"full", "last"} /\ u.close
Leaving == {"closing", "done", "failed"}

\* A new connection has neither been closed nor said so.
LEMMA ClosesInit == Init => Closes
BY DEF Init, Closes

\* Before the loop is left no response says "close"; one written then may.
LEMMA WriteCloses ==
  ASSUME TypeOK, Closes, pc \notin Leaving,
         NEW k \in Final \cup Part,
         out' = Append(out, OutUnit(k))
  PROVE  /\ out' # << >> /\ LastUnit'.kind = k /\ LastUnit'.close = ~cur.keep
         /\ \A i \in DOMAIN out' : Closing(out'[i]) =>
              i = Len(out') /\ k \in {"full", "last"} /\ ~cur.keep
<1> DEFINE u == OutUnit(k)
<1>1. u \in OutRecord /\ u.kind = k /\ u.close = ~cur.keep
  BY OutUnitType DEF OutUnit
<1>2. out \in Seq(OutRecord) /\ \A i \in DOMAIN out : ~Closing(out[i])
  BY DEF TypeOK, Closes, Closing, Leaving
<1>3. out' = Append(out, u)
  OBVIOUS
<1> HIDE DEF u
<1>4. \A i \in DOMAIN out' :
        \/ i = Len(out') /\ out'[i] = u
        \/ i \in DOMAIN out /\ out'[i] = out[i]
  BY <1>2, <1>3
<1>5. out' # << >> /\ LastUnit' = u
  BY <1>2, <1>3 DEF LastUnit
<1> QED
  BY <1>1, <1>2, <1>4, <1>5 DEF Closing

\* Every step keeps the close last: one step for each action.
LEMMA ClosesStep == Shaped /\ Closes /\ [Next]_vars => Closes'
<1> SUFFICES ASSUME Shaped, Closes, [Next]_vars PROVE Closes'
  OBVIOUS
<1>a. TypeOK
  BY DEF Shaped
<1>q. ASSUME out' = out, pc' = pc, cur' = cur PROVE Closes'
  BY <1>q DEF Closes, LastUnit
<1>o. ASSUME out' = out, pc \notin Leaving, pc' \notin {"socket", "closing", "done"}
      PROVE  Closes'
  BY <1>o DEF Closes, LastUnit, Leaving
<1>w. ASSUME pc \notin Leaving, NEW k \in Part \cup {"refuse"},
             out' = Append(out, OutUnit(k)), pc' \notin {"socket", "closing", "done"}
      PROVE  Closes'
  <2>1. \A i \in DOMAIN out' : ~Closing(out'[i])
    BY <1>a, <1>w, WriteCloses DEF Final
  <2> QED
    BY <2>1, <1>w DEF Closes, Closing
<1>r. ASSUME pc \notin Leaving, NEW k \in {"full", "last"},
             out' = Append(out, OutUnit(k)), Served
      PROVE  Closes'
  <2>1. /\ out' # << >> /\ LastUnit'.kind \in Final /\ LastUnit'.close = ~cur.keep
        /\ \A i \in DOMAIN out' : Closing(out'[i]) => i = Len(out') /\ ~cur.keep
    BY <1>a, <1>r, WriteCloses DEF Final
  <2>2. CASE cur.keep
    <3>1. pc' = "header"
      BY <1>r, <2>2 DEF Served, NextRequest
    <3> QED
      BY <2>1, <2>2, <3>1 DEF Closes, Closing
  <2>3. CASE ~cur.keep
    <3>1. pc' \in {"closing", "done"}
      BY <1>r, <2>3 DEF Served, Finish
    <3> QED
      BY <2>1, <2>3, <3>1 DEF Closes, Closing
  <2> QED
    BY <2>2, <2>3
<1> USE DEF Leaving
<1>1. CASE Client
  BY <1>1, <1>q DEF Client, SendHead, SendPiece, Leave
<1>2. CASE Expire
  BY <1>2, <1>q DEF Expire
<1>3. CASE Handshake
  BY <1>3, <1>o DEF Handshake
<1>4. CASE ReadHead
  <2>1. /\ pc = "header" /\ out' = out
        /\ pc' = "continue" \/ \E c : Route(c)
    BY <1>4 DEF ReadHead, Take
  <2> QED
    BY <1>a, <2>1, RouteTypes, <1>o
<1>5. CASE ReadBigHead
  BY <1>5, TextType, <1>o DEF ReadBigHead, Take, Respond
<1>6. CASE ReadStrayHead
  <2>1. pc = "header" /\ out' = out /\ \E c : Route(c)
    BY <1>6 DEF ReadStrayHead, Take
  <2> QED
    BY <1>a, <2>1, RouteTypes, <1>o
<1>7. CASE ReadHeadFails
  BY <1>7, <1>o DEF ReadHeadFails, Fail
<1>8. CASE WriteContinue
  <2>1. pc = "continue" /\ out' = Append(out, OutUnit("continue")) /\ Route(cur)
    BY <1>8 DEF WriteContinue
  <2> QED
    BY <1>a, <2>1, RouteTypes, <1>w
<1>9. CASE WriteFails
  <2>1. /\ pc \in {"continue", "write", "chunkhead", "chunks"} /\ pc' = "failed"
        /\ out' = out \/ out' = Append(out, OutUnit("torn"))
    BY <1>9 DEF WriteFails, Fail
  <2> QED
    BY <2>1, <1>o, <1>w
<1>10. CASE HandlerReads
  BY <1>10, <1>o DEF HandlerReads
<1>11. CASE HandlerThrows
  BY <1>11, <1>o DEF HandlerThrows, Fail
<1>12. ASSUME NEW a \in Answers, HandlerReturns(a) PROVE Closes'
  BY <1>12, <1>o DEF HandlerReturns, Respond
<1>13. CASE ReadPiece
  <2>1. /\ pc \in {"body", "collect", "chunks"} /\ pc' \in {pc, "handler"}
        /\ out' = out
    BY <1>13 DEF ReadPiece, ReadsBody
  <2> QED
    BY <2>1, <1>o
<1>14. CASE ReadPieceFails
  <2>1. /\ pc \in {"body", "collect", "chunks"} /\ pc' \in {"handler", "failed"}
        /\ out' = out
    BY <1>14 DEF ReadPieceFails, ReadsBody, Fail
  <2> QED
    BY <2>1, <1>o
<1>15. CASE Collect
  BY <1>15, <1>o DEF Collect
<1>16. CASE StreamEndsBadly
  BY <1>16, <1>o DEF StreamEndsBadly, Fail
<1>17. CASE WriteResponse
  BY <1>17, <1>r DEF WriteResponse, Write
<1>18. CASE WriteChunkHead
  BY <1>18, <1>w DEF WriteChunkHead, Write
<1>19. CASE WriteChunk
  BY <1>19, <1>w DEF WriteChunk, Write
<1>20. CASE WriteLastChunk
  BY <1>20, <1>r DEF WriteLastChunk, Write
<1>21. CASE Accept
  <2>1. /\ pc = "accept" /\ pc' = "socket" /\ cur' = cur
        /\ out' = Append(out, OutUnit("switch"))
    BY <1>21 DEF Accept, Write
  <2>2. /\ out' # << >> /\ LastUnit'.kind = "switch" /\ LastUnit'.close = ~cur.keep
        /\ \A i \in DOMAIN out' : ~Closing(out'[i])
    BY <1>a, <2>1, WriteCloses DEF Final
  <2> QED
    BY <2>1, <2>2 DEF Closes, Closing
<1>22. CASE AcceptFails
  <2>1. /\ pc = "accept" /\ pc' = "failed"
        /\ out' = out \/ out' = Append(out, OutUnit("refuse"))
    BY <1>22 DEF AcceptFails, Fail
  <2> QED
    BY <2>1, <1>o, <1>w
<1>23. CASE ReadFrame
  BY <1>23, <1>q DEF ReadFrame
<1>24. CASE CallbackReturns
  <2>1. pc = "socket" /\ out' = out /\ Served
    BY <1>24 DEF CallbackReturns
  <2>2. CASE cur.keep
    <3>1. pc' = "header"
      BY <2>1, <2>2 DEF Served, NextRequest
    <3> QED
      BY <2>1, <3>1, <1>o
  <2>3. CASE ~cur.keep
    <3>1. pc' \in {"closing", "done"}
      BY <2>1, <2>3 DEF Served, Finish
    <3> QED
      BY <2>1, <2>3, <3>1 DEF Closes, LastUnit, Final
  <2> QED
    BY <2>2, <2>3
<1>25. CASE CallbackThrows
  BY <1>25, <1>o DEF CallbackThrows, Fail
<1>26. CASE Shutdown
  <2>1. pc = "closing" /\ pc' \in {"done", "failed"} /\ out' = out
    BY <1>26 DEF Shutdown
  <2> QED
    BY <2>1 DEF Closes, LastUnit
<1>27. CASE UNCHANGED vars
  BY <1>27, <1>q DEF vars
<1> QED
  BY <1>1, <1>2, <1>3, <1>4, <1>5, <1>6, <1>7, <1>8, <1>9, <1>10, <1>11,
     <1>12, <1>13, <1>14, <1>15, <1>16, <1>17, <1>18, <1>19, <1>20, <1>21,
     <1>22, <1>23, <1>24, <1>25, <1>26, <1>27 DEF Next, Session, Rest

\* A response that says "close" is the last thing written, and a connection is
\* shut down cleanly only after one.
THEOREM CloseLast == Spec => []CloseIsLast
<1>1. Shaped /\ Closes => CloseIsLast
  BY DEF Closes, CloseIsLast, LastUnit
<1> QED
  BY <1>1, ClosesInit, ClosesStep, ShapedAlways, PTL DEF Spec
-----------------------------------------------------------------------------
(* The deadline.                                                           *)

\* The first wait of a connection has its deadline.
LEMMA TimedInit == Init => Timed
BY DEF Init, Timed, Armed

\* Every step keeps each wait under its deadline: one step for each action.
LEMMA TimedStep == Shaped /\ Timed /\ [Next]_vars => Timed'
<1> SUFFICES ASSUME Shaped, Timed, [Next]_vars PROVE Timed'
  OBVIOUS
<1> USE DEF Timed
<1>a. TypeOK
  BY DEF Shaped
<1>q. ASSUME pc' = pc, timer' = timer \/ (timer # "off" /\ timer' # "off"),
             cur' = cur, body' = body
      PROVE  Timed'
  BY <1>q
<1>e. ASSUME pc' \in {"failed", "closing", "done"} PROVE Timed'
  BY <1>e
<1>t. ASSUME timer' = timer, cur' = cur,
             \/ /\ pc \in {"body", "collect", "write", "chunkhead", "chunks"}
                /\ pc' \in {"collect", "write", "chunkhead", "chunks", "handler"}
                /\ pc' = "handler" => pc = "body"
             \/ pc \in {"continue", "handler"} /\ ~cur.upgrade
                /\ pc' \in {"handler", "body", "collect", "write", "chunkhead"}
      PROVE  Timed'
  BY <1>t
<1>1. CASE Client
  BY <1>1, <1>q DEF Client, SendHead, SendPiece, Leave
<1>2. CASE Expire
  BY <1>2, <1>q DEF Expire
<1>3. CASE Handshake
  BY <1>3 DEF Handshake, Armed
<1>4. CASE ReadHead
  <2> DEFINE c == Request(wire[1][1], sent[wire[1][1]])
             n == IF c.upgrade THEN 0 ELSE sent[wire[1][1]].body
  <2>1. /\ Take(c, n) /\ timer' = IF c.upgrade THEN "off" ELSE timer
        /\ IF c.expect /\ ~c.upgrade THEN pc' = "continue" ELSE Route(c)
    BY <1>4 DEF ReadHead
  <2>2. c.upgrade => n = 0
    OBVIOUS
  <2> HIDE DEF c, n
  <2>3. /\ pc = "header" /\ cur' = c
        /\ c.upgrade => body' = "read"
    BY <2>1, <2>2 DEF Take
  <2>4. /\ pc' \in {"continue", "handler", "collect", "accept", "failed"}
        /\ pc' = "continue" => ~c.upgrade
        /\ pc' = "accept" => c.upgrade
        /\ pc' = "collect" => ~c.upgrade
    BY <2>1, TextType DEF Route, Respond
  <2> QED
    BY <2>1, <2>3, <2>4
<1>5. CASE ReadBigHead
  BY <1>5, TextType DEF ReadBigHead, Take, Respond
<1>6. CASE ReadStrayHead
  <2>1. PICK k \in BOOLEAN, t \in {"route", "none"} :
          Take(Stray(k, t), 0) /\ Route(Stray(k, t))
    BY <1>6 DEF ReadStrayHead
  <2>2. /\ pc = "header" /\ cur' = Stray(k, t) /\ timer' = timer
        /\ ~Stray(k, t).upgrade
    BY <1>6, <2>1 DEF ReadStrayHead, Take, Stray, NoRequest
  <2>3. pc' \in {"handler", "collect", "failed"}
    BY <2>1, <2>2, TextType DEF Route, Respond
  <2> QED
    BY <2>2, <2>3
<1>7. CASE ReadHeadFails
  BY <1>7, <1>e DEF ReadHeadFails, Fail
<1>8. CASE WriteContinue
  <2>1. pc = "continue" /\ timer' = timer /\ cur' = cur /\ ~cur.upgrade /\ Route(cur)
    BY <1>8 DEF WriteContinue
  <2>2. pc' \in {"handler", "collect", "failed"}
    BY <2>1, TextType DEF Route, Respond
  <2> QED
    BY <2>1, <2>2, <1>t, <1>e
<1>9. CASE WriteFails
  BY <1>9, <1>e DEF WriteFails, Fail
<1>10. CASE HandlerReads
  BY <1>10, <1>t DEF HandlerReads
<1>11. CASE HandlerThrows
  BY <1>11, <1>e DEF HandlerThrows, Fail
<1>12. ASSUME NEW a \in Answers, HandlerReturns(a) PROVE Timed'
  <2>1. pc = "handler" /\ timer' = timer /\ cur' = cur
    BY <1>12 DEF HandlerReturns
  <2>2. CASE cur.upgrade
    BY <1>12, <2>1, <2>2 DEF HandlerReturns
  <2>3. CASE ~cur.upgrade
    BY <1>12, <2>1, <2>3, <1>t DEF HandlerReturns, Respond
  <2> QED
    BY <2>2, <2>3
<1>13. CASE ReadPiece
  <2>1. /\ pc \in {"body", "collect", "chunks"} /\ cur' = cur /\ timer' = timer
        /\ \/ pc' = pc /\ body' = body
           \/ pc = "body" /\ pc' = "handler"
           \/ pc \in {"collect", "chunks"} /\ pc' = pc
    BY <1>13 DEF ReadPiece, ReadsBody
  <2> QED
    BY <2>1, <1>q, <1>t
<1>14. CASE ReadPieceFails
  <2>1. /\ timer' = (IF timer = "expired" THEN "fired" ELSE timer) /\ cur' = cur
        /\ (pc = "body" /\ pc' = "handler") \/ pc' = "failed"
    BY <1>14 DEF ReadPieceFails, Fail
  <2> QED
    BY <2>1
<1>15. CASE Collect
  BY <1>15, <1>t DEF Collect
<1>16. CASE StreamEndsBadly
  BY <1>16, <1>e DEF StreamEndsBadly, Fail
<1>s. ASSUME Served, pc \in {"write", "chunks", "socket"} PROVE Timed'
  <2>1. CASE cur.keep
    <3>1. pc' = "header" /\ (RequestTimeout => timer' = "armed")
      BY <1>s, <2>1 DEF Served, NextRequest
    <3> QED
      BY <3>1
  <2>2. CASE ~cur.keep
    BY <1>s, <2>2, <1>e DEF Served, Finish
  <2> QED
    BY <2>1, <2>2
<1>17. CASE WriteResponse
  BY <1>17, <1>s DEF WriteResponse
<1>18. CASE WriteChunkHead
  BY <1>18, <1>t DEF WriteChunkHead
<1>19. CASE WriteChunk
  BY <1>19, <1>q DEF WriteChunk
<1>20. CASE WriteLastChunk
  BY <1>20, <1>s DEF WriteLastChunk
<1>21. CASE Accept
  BY <1>21 DEF Accept
<1>22. CASE AcceptFails
  BY <1>22, <1>e DEF AcceptFails, Fail
<1>23. CASE ReadFrame
  BY <1>23, <1>q DEF ReadFrame
<1>24. CASE CallbackReturns
  BY <1>24, <1>s DEF CallbackReturns
<1>25. CASE CallbackThrows
  BY <1>25, <1>e DEF CallbackThrows, Fail
<1>26. CASE Shutdown
  BY <1>26, <1>e DEF Shutdown
<1>27. CASE UNCHANGED vars
  BY <1>27, <1>q DEF vars
<1> QED
  BY <1>1, <1>2, <1>3, <1>4, <1>5, <1>6, <1>7, <1>8, <1>9, <1>10, <1>11,
     <1>12, <1>13, <1>14, <1>15, <1>16, <1>17, <1>18, <1>19, <1>20, <1>21,
     <1>22, <1>23, <1>24, <1>25, <1>26, <1>27 DEF Next, Session, Rest

\* With a request timeout every wait on the HTTP stream but the last has a deadline,
\* and a WebSocket has none.
THEOREM DeadlineHolds == Spec => []DeadlineCovers
<1>1. Timed => DeadlineCovers
  BY DEF Timed, DeadlineCovers, OnStream
<1> QED
  BY <1>1, TimedInit, TimedStep, ShapedAlways, PTL DEF Spec
-----------------------------------------------------------------------------
(* Order: what is read from the wire.                                     *)

\* The unit that comes after u if the requests are those of ss.
After(ss, u) == IF u[2] < ss[u[1]].body THEN <<u[1], u[2] + 1>> ELSE <<u[1] + 1, 0>>

\* The unit it sends next, and the units from the front of the wire to there.
Ahead == IF todo > 0 THEN <<Len(sent), sent[Len(sent)].body - todo + 1>>
                     ELSE <<Len(sent) + 1, 0>>
Line == Append(wire, Ahead)

\* On the wire no unit is missing and none out of place, and nothing follows
\* an upgrade but its frames.
Consecutive ==
  /\ \A i \in 1..Len(wire) : Line[i + 1] = After(sent, Line[i])
  /\ \A r \in DOMAIN sent : sent[r].upgrade => r = Len(sent)

\* The request in hand: what is read of it and what is left make up its body.
Held ==
  /\ cur.req \in 0..Len(sent)
  /\ pc \in {"handshake", "header"} => cur.req = 0
  /\ cur.req = 0 => left = 0 /\ got = << >> /\ ~cur.upgrade
  /\ pc \in {"accept", "socket"} => cur.upgrade
  /\ cur.upgrade => sent[cur.req].upgrade
  /\ cur.upgrade /\ body = "unread" =>
       /\ res.from = "memory"
       /\ pc \in {"collect", "write", "closing", "done", "failed"}
  /\ cur.req > 0 /\ ~cur.upgrade =>
       /\ left <= sent[cur.req].body
       /\ body # "broken" => Len(got) + left = sent[cur.req].body

\* The unit the session has to read next if it has left none behind.
Consumed == IF cur.upgrade THEN Len(got) ELSE sent[cur.req].body - left
Due == IF cur.req = 0 THEN <<taken + 1, 0>> ELSE After(sent, <<cur.req, Consumed>>)

Ordered ==
  skipped = {} =>
    /\ Line[1] = Due
    /\ pc \notin {"handshake", "header", "failed"} => cur.req = taken /\ taken > 0
    /\ \A i \in DOMAIN out : out[i].req = out[i].turn
    /\ \A i \in DOMAIN got : got[i] = <<cur.req, i>>
-----------------------------------------------------------------------------
(* The wire.                                                               *)

\* The line is the wire and the unit to come.
LEMMA LineIs ==
  ASSUME Shaped
  PROVE  /\ Len(wire) \in Nat /\ Len(Line) = Len(wire) + 1
         /\ \A i \in 1..Len(wire) : Line[i] = wire[i] /\ wire[i][1] \in 1..Len(sent)
         /\ Line[Len(wire) + 1] = Ahead
BY DEF Shaped, TypeOK, WireOK, Line

\* A unit that is sent leaves the front of the line where it is.
LEMMA SendLine ==
  ASSUME Shaped, Consecutive, wire' = Append(wire, Ahead),
         \A r \in 1..Len(sent) : sent'[r] = sent[r],
         Ahead' = After(sent', Ahead)
  PROVE  /\ \A i \in 1..Len(wire') : Line'[i + 1] = After(sent', Line'[i])
         /\ Line'[1] = Line[1]
<1>1. wire \in Seq(Nat \X Nat) /\ Len(wire) \in Nat
  BY DEF Shaped, TypeOK
<1>2. Len(wire') = Len(wire) + 1
  BY <1>1
<1>3. /\ \A i \in 1..Len(wire) : Line[i] = wire[i] /\ wire[i][1] \in 1..Len(sent)
      /\ Line[Len(wire) + 1] = Ahead
  BY LineIs
<1>4. /\ \A i \in 1..(Len(wire) + 1) : Line'[i] = Line[i]
      /\ Line'[Len(wire) + 2] = Ahead'
  <2> DEFINE a == Ahead
             b == Ahead'
  <2>1. wire' = Append(wire, a) /\ Line' = Append(Append(wire, a), b)
    BY DEF Line
  <2>2. Line[Len(wire) + 1] = a
    BY <1>3
  <2> HIDE DEF a, b
  <2>3. /\ \A i \in 1..Len(wire) : Line'[i] = wire[i]
        /\ Line'[Len(wire) + 1] = a /\ Line'[Len(wire) + 2] = b
    BY <1>1, <2>1
  <2>4. ASSUME NEW i \in 1..(Len(wire) + 1) PROVE Line'[i] = Line[i]
    <3>1. CASE i \in 1..Len(wire)
      BY <1>3, <2>3, <3>1
    <3>2. CASE i = Len(wire) + 1
      BY <2>2, <2>3, <3>2
    <3> QED
      BY <1>1, <3>1, <3>2
  <2>5. Line'[Len(wire) + 2] = Ahead'
    BY <2>3 DEF b
  <2> QED
    BY <2>4, <2>5
<1>5. ASSUME NEW i \in 1..Len(wire) PROVE Line'[i + 1] = After(sent', Line'[i])
  <2>1. Line'[i + 1] = Line[i + 1] /\ Line'[i] = Line[i]
    BY <1>1, <1>4
  <2>2. sent'[Line[i][1]] = sent[Line[i][1]]
    BY <1>3
  <2> QED
    BY <2>1, <2>2 DEF Consecutive, After
<1>6. Line'[Len(wire) + 2] = After(sent', Line'[Len(wire) + 1])
  BY <1>1, <1>3, <1>4, SMTT(40)
<1>7. ASSUME NEW i \in 1..Len(wire') PROVE Line'[i + 1] = After(sent', Line'[i])
  <2> DEFINE b == After(sent', Line'[i])
  <2> HIDE DEF b
  <2>1. CASE i \in 1..Len(wire)
    BY <1>5, <2>1
  <2>2. CASE i = Len(wire) + 1
    <3>1. i + 1 = Len(wire) + 2
      BY <1>1, <2>2
    <3> QED
      BY <1>6, <2>2, <3>1
  <2> QED
    BY <1>1, <1>2, <2>1, <2>2
<1>8. Line'[1] = Line[1]
  BY <1>1, <1>4
<1> QED
  BY <1>7, <1>8

\* A unit that is taken brings the one after it to the front.
LEMMA TakeLine ==
  ASSUME Shaped, Consecutive, wire # << >>, wire' = Tail(wire),
         sent' = sent, todo' = todo
  PROVE  Consecutive' /\ Line[1] = wire[1] /\ Line'[1] = After(sent, wire[1])
<1>1. wire \in Seq(Nat \X Nat) /\ Len(wire) \in Nat \ {0}
  BY DEF Shaped, TypeOK
<1>2. Ahead' = Ahead
  BY DEF Ahead
<1>3. Line' = Append(Tail(wire), Ahead)
  BY <1>2 DEF Line
<1> DEFINE a == Ahead
<1>4. Line = Append(wire, a) /\ Line' = Append(Tail(wire), a)
  BY <1>3 DEF Line
<1> HIDE DEF a
<1>5. Len(wire') = Len(wire) - 1 /\ \A i \in 1..Len(wire) : Line'[i] = Line[i + 1]
  BY <1>1, <1>4
<1>6. Line[1] = wire[1]
  BY <1>1, <1>4
<1>7. Line'[1] = After(sent, wire[1])
  BY <1>1, <1>5, <1>6 DEF Consecutive
<1>8. ASSUME NEW i \in 1..Len(wire') PROVE Line'[i + 1] = After(sent', Line'[i])
  <2>1. i + 1 \in 1..Len(wire) /\ i \in 1..Len(wire)
    BY <1>1, <1>5, SMTT(40)
  <2> QED
    BY <1>5, <2>1 DEF Consecutive
<1> QED
  BY <1>6, <1>7, <1>8 DEF Consecutive

\* A new connection has an empty wire.
LEMMA ConsecutiveInit == Init => Consecutive
BY DEF Init, Consecutive

\* What the client does to the wire: the line stays consecutive, its front stays.
LEMMA ClientLine ==
  ASSUME Shaped, Consecutive, Client
  PROVE  /\ Consecutive' /\ Line'[1] = Line[1]
         /\ Len(sent') \in Nat /\ Len(sent) <= Len(sent')
         /\ \A r \in 1..Len(sent) : sent'[r] = sent[r]
<1>1. ASSUME NEW s \in Shapes, SendHead(s)
      PROVE  /\ Consecutive' /\ Line'[1] = Line[1]
             /\ Len(sent') \in Nat /\ Len(sent) <= Len(sent')
             /\ \A r \in 1..Len(sent) : sent'[r] = sent[r]
  <2>1. /\ sent \in Seq(Shapes) /\ Len(sent) \in Nat /\ s.body \in Nat /\ todo = 0
        /\ sent' = Append(sent, s) /\ todo' = s.body
        /\ wire' = Append(wire, <<Len(sent) + 1, 0>>)
        /\ \A r \in DOMAIN sent : ~sent[r].upgrade
    BY <1>1, ConstantsAssumption DEF SendHead, Shaped, TypeOK, Shape
  <2>2. /\ Len(sent') = Len(sent) + 1 /\ sent'[Len(sent) + 1] = s
        /\ \A r \in 1..Len(sent) : sent'[r] = sent[r]
    BY <2>1
  <2>3. Ahead = <<Len(sent) + 1, 0>>
    BY <2>1 DEF Ahead
  <2>4. Ahead' = IF s.body > 0 THEN <<Len(sent) + 1, 1>> ELSE <<Len(sent) + 2, 0>>
    BY <2>1, <2>2 DEF Ahead
  <2>5. Ahead' = After(sent', Ahead)
    BY <2>1, <2>2, <2>3, <2>4 DEF After
  <2>6. \A r \in DOMAIN sent' : sent'[r].upgrade => r = Len(sent')
    BY <2>1, <2>2
  <2> QED
    BY <2>1, <2>2, <2>3, <2>5, <2>6, SendLine DEF Consecutive
<1>2. CASE SendPiece
  <2>1. /\ sent' = sent /\ todo > 0 /\ todo \in Nat /\ todo' = todo - 1
        /\ wire' = Append(wire, Ahead)
    BY <1>2 DEF SendPiece, Ahead, Shaped, TypeOK
  <2>2. /\ Len(sent) \in Nat /\ sent[Len(sent)].body \in Nat
        /\ todo <= sent[Len(sent)].body
    BY <2>1, ConstantsAssumption DEF Shaped, TypeOK, TodoOK, Shape
  <2>3. Ahead' = After(sent', Ahead)
    <3> DEFINE n == Len(sent)
               b == sent[n].body
    <3>1. Ahead = <<n, b - todo + 1>> /\ n \in Nat /\ b \in Nat /\ todo <= b
      BY <2>1, <2>2 DEF Ahead
    <3>2. Ahead' = IF todo - 1 > 0 THEN <<n, b - (todo - 1) + 1>> ELSE <<n + 1, 0>>
      BY <2>1 DEF Ahead
    <3>3. After(sent', Ahead) =
            IF b - todo + 1 < b THEN <<n, b - todo + 2>> ELSE <<n + 1, 0>>
      BY <2>1, <3>1, SMTT(40) DEF After
    <3> HIDE DEF n, b
    <3> QED
      BY <2>1, <3>1, <3>2, <3>3
  <2> QED
    BY <2>1, <2>2, <2>3, SendLine DEF Consecutive
<1>3. CASE Leave
  <2>1. sent' = sent /\ todo' = todo /\ wire' = wire /\ Len(sent) \in Nat
    BY <1>3 DEF Leave, Shaped, TypeOK
  <2>2. Line' = Line
    BY <2>1 DEF Line, Ahead
  <2> QED
    BY <2>1, <2>2 DEF Consecutive
<1> QED
  BY <1>1, <1>2, <1>3 DEF Client
-----------------------------------------------------------------------------
(* The requests.                                                           *)
Good == Consecutive /\ Held /\ Ordered
Between == {"handshake", "header"}
Unread == {"collect", "write", "closing", "done", "failed"}

\* What a step may write: nothing, or a unit for the request in hand.
Writes == \/ out' = out
          \/ /\ pc \notin Between \cup {"failed"}
             /\ \E k \in Final \cup Part :
                  out' = Append(out, OutUnit(k))

\* On a new connection nothing is taken and nothing skipped.
LEMMA GoodInit == Init => Good
<1> SUFFICES ASSUME Init PROVE Good
  OBVIOUS
<1>1. Len(Line) = 1 /\ Line[1] = <<1, 0>>
  BY DEF Init, Line, Ahead
<1> QED
  BY <1>1, ConsecutiveInit DEF Init, Good, Held, Ordered, Due, NoRequest, NoAnswer

\* As long as no body was left unread, what is written answers the request of
\* its turn.
LEMMA WriteOrdered ==
  ASSUME Shaped, Ordered, skipped = {}, Writes
  PROVE  \A i \in DOMAIN out' : out'[i].req = out'[i].turn
<1>1. CASE out' = out
  BY <1>1 DEF Ordered
<1>2. CASE out' # out
  <2>1. PICK k \in Final \cup Part :
          out' = Append(out, OutUnit(k))
    BY <1>2 DEF Writes
  <2> DEFINE u == OutUnit(k)
  <2>2. u.req = u.turn
    BY <1>2 DEF Writes, Ordered, OutUnit, Between
  <2>3. out \in Seq(OutRecord) /\ out' = Append(out, u)
    BY <2>1 DEF Shaped, TypeOK
  <2> HIDE DEF u
  <2>4. \A i \in DOMAIN out' : out'[i] = u \/ (i \in DOMAIN out /\ out'[i] = out[i])
    BY <2>3
  <2> QED
    BY <2>2, <2>4 DEF Ordered
<1> QED
  BY <1>1, <1>2

\* A step that stays with the request in hand and reads nothing.
LEMMA KeepGood ==
  ASSUME Shaped, Good, sent' = sent, todo' = todo, wire' = wire, cur' = cur,
         taken' = taken, left' = left, got' = got, body' = body,
         skipped' = skipped, Writes,
         pc' \in Between => pc \in Between,
         pc' \notin Between \cup {"failed"} => pc \notin Between \cup {"failed"},
         pc' \in {"accept", "socket"} => cur.upgrade,
         cur.upgrade /\ body = "unread" => res'.from = "memory" /\ pc' \in Unread
  PROVE  Good'
<1>1. Line' = Line /\ Due' = Due
  BY DEF Line, Ahead, Due, Consumed
<1>2. Consecutive'
  BY <1>1 DEF Good, Consecutive
<1>3. Held'
  BY DEF Good, Held, Between, Unread
<1>4. Ordered'
  BY <1>1, WriteOrdered DEF Good, Ordered, Between
<1> QED
  BY <1>2, <1>3, <1>4 DEF Good

\* The head of a request is taken.
LEMMA TakeGood ==
  ASSUME Shaped, Good, NEW c \in Serving, NEW n \in Nat, wire # << >>, Take(c, n),
         wire[1] = <<c.req, 0>>, n <= sent[c.req].body,
         ~c.upgrade => n = sent[c.req].body,
         c.upgrade => sent[c.req].upgrade,
         pc' \in {"continue", "handler", "collect", "accept", "failed"},
         pc' = "accept" => c.upgrade,
         c.upgrade /\ n > 0 => pc' = "collect" /\ res'.from = "memory"
  PROVE  Good'
<1>1. /\ sent' = sent /\ todo' = todo /\ wire' = Tail(wire) /\ cur' = c
      /\ taken' = taken + 1 /\ left' = n /\ got' = got /\ skipped' = skipped
      /\ out' = out /\ pc = "header"
      /\ body' = IF n = 0 THEN "read" ELSE "unread"
  BY DEF Take
<1>2. /\ c.req \in 1..Len(sent) /\ c.req \in Nat /\ Len(sent) \in Nat
      /\ sent[c.req].body \in Nat /\ taken \in Nat
  BY WireHead DEF Shaped, TypeOK, Shape
<1>3. got = << >> /\ cur.req = 0
  BY <1>1 DEF Good, Held
<1>4. Consecutive' /\ Line[1] = wire[1] /\ Line'[1] = After(sent, wire[1])
  BY <1>1, TakeLine DEF Good
<1>5. Held'
  BY <1>1, <1>2, <1>3 DEF Held, Unread
<1>6. ASSUME skipped = {} PROVE Line'[1] = Due' /\ c.req = taken + 1
  <2>1. c.req = taken + 1
    BY <1>2, <1>3, <1>4, <1>6 DEF Good, Ordered, Due
  <2>2. Consumed' = 0
    BY <1>1, <1>2, <1>3 DEF Consumed
  <2>3. Due' = After(sent', <<c.req, 0>>)
    BY <1>1, <1>2, <2>2 DEF Due
  <2> QED
    BY <1>1, <1>4, <2>1, <2>3
<1>7. Ordered'
  BY <1>1, <1>2, <1>3, <1>6 DEF Good, Ordered
<1> QED
  BY <1>4, <1>5, <1>7 DEF Good

\* Bytes of an unread body are taken for a request.
LEMMA StrayGood ==
  ASSUME Shaped, Good, wire # << >>, wire[1][2] > 0,
         NEW c \in Serving, Take(c, 0), c.req = 0, ~c.upgrade,
         pc' \in {"handler", "collect", "failed"}
  PROVE  Good'
<1>1. /\ sent' = sent /\ todo' = todo /\ wire' = Tail(wire) /\ cur' = c
      /\ taken' = taken + 1 /\ left' = 0 /\ got' = got /\ skipped' = skipped
      /\ out' = out /\ pc = "header" /\ body' = "read"
  BY DEF Take
<1>2. got = << >> /\ cur.req = 0 /\ Len(sent) \in Nat
  BY <1>1 DEF Good, Held, Shaped, TypeOK
<1>3. Consecutive' /\ Line[1] = wire[1]
  BY <1>1, TakeLine DEF Good
<1>4. skipped # {}
  BY <1>2, <1>3 DEF Good, Ordered, Due
<1> QED
  BY <1>1, <1>2, <1>3, <1>4 DEF Good, Held, Ordered

\* A piece of the body of the request in hand is read.
LEMMA ReadGood ==
  ASSUME Shaped, Good, ReadPiece
  PROVE  Good'
<1>1. /\ sent' = sent /\ todo' = todo /\ wire # << >> /\ wire' = Tail(wire)
      /\ cur' = cur /\ taken' = taken /\ left' = left - 1 /\ skipped' = skipped
      /\ got' = Append(got, wire[1]) /\ out' = out
      /\ body = "unread" /\ body' \in {"unread", "read"}
      /\ pc \in {"body", "collect", "chunks"} /\ pc' \in {pc, "handler"}
      /\ pc = "body" \/ res.from = "request"
  BY DEF ReadPiece, ReadsBody, Shaped, BodyOK
<1>2. left \in Nat \ {0} /\ got \in Seq(Nat \X Nat) /\ Len(got) \in Nat
  BY <1>1 DEF Shaped, BodyOK, TypeOK
<1>3. ~cur.upgrade /\ cur.req \in 1..Len(sent)
  BY <1>1, <1>2 DEF Good, Held
<1>4. sent[cur.req].body \in Nat /\ Len(sent) \in Nat
  BY <1>3, ConstantsAssumption DEF Shaped, TypeOK, Shape
<1>5. Len(got) + left = sent[cur.req].body
  BY <1>1, <1>3 DEF Good, Held
<1>6. Len(got') = Len(got) + 1
  BY <1>1, <1>2, WireHead
<1>7. Consecutive' /\ Line[1] = wire[1] /\ Line'[1] = After(sent, wire[1])
  BY <1>1, TakeLine DEF Good
<1>8. Held'
  BY <1>1, <1>2, <1>3, <1>4, <1>5, <1>6 DEF Good, Held
<1>9. ASSUME skipped = {}
      PROVE  wire[1] = <<cur.req, Len(got) + 1>> /\ Line'[1] = Due'
  <2>1. Consumed = Len(got) /\ Consumed' = Len(got) + 1
    BY <1>1, <1>2, <1>3, <1>4, <1>5, SMTT(40) DEF Consumed
  <2>2. Due = <<cur.req, Len(got) + 1>>
    BY <1>2, <1>3, <1>4, <1>5, <2>1 DEF Due, After
  <2>3. Due' = After(sent, <<cur.req, Len(got) + 1>>)
    BY <1>1, <1>3, <2>1 DEF Due
  <2> QED
    BY <1>7, <1>9, <2>2, <2>3 DEF Good, Ordered
<1>10. ASSUME skipped = {}
       PROVE  \A i \in DOMAIN got' : got'[i] = <<cur'.req, i>>
  <2>1. \A i \in DOMAIN got : got[i] = <<cur.req, i>>
    BY <1>10 DEF Good, Ordered
  <2> DEFINE w == wire[1]
  <2>2. /\ got \in Seq(Nat \X Nat) /\ Len(got) \in Nat
        /\ got' = Append(got, w) /\ Len(got') = Len(got) + 1
    BY <1>1, <1>2, <1>6
  <2>0. w = <<cur.req, Len(got) + 1>>
    BY <1>9, <1>10
  <2> HIDE DEF w
  <2>3. got'[Len(got) + 1] = <<cur.req, Len(got) + 1>>
    BY <2>2, <2>0
  <2>4. \A i \in 1..Len(got) : got'[i] = got[i]
    BY <2>2
  <2> SUFFICES ASSUME NEW i \in DOMAIN got' PROVE got'[i] = <<cur'.req, i>>
    OBVIOUS
  <2>5. i \in 1..Len(got) \/ i = Len(got) + 1
    BY <2>2
  <2>6. cur' = cur
    BY <1>1
  <2>7. CASE i \in 1..Len(got)
    BY <2>1, <2>2, <2>4, <2>6, <2>7
  <2>8. CASE i = Len(got) + 1
    BY <2>3, <2>6, <2>8
  <2> QED
    BY <2>5, <2>7, <2>8
<1>11. Ordered'
  BY <1>1, <1>9, <1>10 DEF Good, Ordered
<1> QED
  BY <1>7, <1>8, <1>11 DEF Good

\* A frame of an upgraded connection is read.
LEMMA FrameGood ==
  ASSUME Shaped, Good, ReadFrame
  PROVE  Good'
<1>1. /\ sent' = sent /\ todo' = todo /\ wire # << >> /\ wire' = Tail(wire)
      /\ cur' = cur /\ taken' = taken /\ left' = left /\ skipped' = skipped
      /\ got' = Append(got, wire[1]) /\ out' = out /\ res' = res
      /\ body' = body /\ pc = "socket" /\ pc' = pc
  BY DEF ReadFrame
<1>2. /\ cur.upgrade /\ cur.req \in 1..Len(sent) /\ Len(sent) \in Nat
      /\ got \in Seq(Nat \X Nat) /\ Len(got) \in Nat
  <2>1. /\ cur.upgrade /\ cur.req \in 0..Len(sent)
        /\ cur.req = 0 => ~cur.upgrade
    BY <1>1 DEF Good, Held
  <2>2. got \in Seq(Nat \X Nat) /\ sent \in Seq(Shapes)
    BY DEF Shaped, TypeOK
  <2> QED
    BY <2>1, <2>2
<1>3. cur.req = Len(sent)
  BY <1>2 DEF Good, Held, Consecutive
<1>4. Consecutive' /\ Line[1] = wire[1] /\ Line'[1] = After(sent, wire[1])
  BY <1>1, TakeLine DEF Good
<1>5. Held'
  BY <1>1, <1>2 DEF Good, Held
<1>6. Consumed = Len(got) /\ Consumed' = Len(got) + 1
  BY <1>1, <1>2, WireHead DEF Consumed
<1>7. ASSUME skipped = {}
      PROVE  wire[1] = <<cur.req, Len(got) + 1>> /\ Line'[1] = Due'
  <2>1. wire[1] = After(sent, <<cur.req, Len(got)>>)
    BY <1>2, <1>4, <1>6, <1>7 DEF Good, Ordered, Due
  <2>2. wire[1][1] <= Len(sent)
    BY <1>1, <1>2, WireHead
  <2>3. wire[1] = <<cur.req, Len(got) + 1>>
    BY <1>2, <1>3, <2>1, <2>2 DEF After
  <2>4. Due' = After(sent, <<cur.req, Len(got) + 1>>)
    BY <1>1, <1>2, <1>6 DEF Due
  <2> QED
    BY <1>4, <2>3, <2>4
<1>8. ASSUME skipped = {}
      PROVE  \A i \in DOMAIN got' : got'[i] = <<cur'.req, i>>
  <2>1. \A i \in DOMAIN got : got[i] = <<cur.req, i>>
    BY <1>8 DEF Good, Ordered
  <2>2. wire[1] = <<cur.req, Len(got) + 1>>
    BY <1>7, <1>8
  <2>3. got' = Append(got, <<cur.req, Len(got) + 1>>) /\ cur' = cur
    BY <1>1, <2>2
  <2>4. cur.req \in Nat
    BY <1>2
  <2> QED
    BY <1>2, <2>1, <2>3, <2>4
<1>9. Ordered'
  BY <1>1, <1>7, <1>8 DEF Good, Ordered
<1> QED
  BY <1>4, <1>5, <1>9 DEF Good

\* The loop goes on to the next request: if nothing is left behind, it is the
\* one after the request in hand.
LEMMA NextGood ==
  ASSUME Shaped, Good, sent' = sent, todo' = todo, wire' = wire, taken' = taken,
         pc \notin Between \cup {"failed"}, Writes, NextRequest
  PROVE  Good'
<1>1. /\ pc' = "header" /\ cur' = NoRequest /\ left' = 0 /\ got' = << >>
      /\ skipped' = {} => skipped = {} /\ left = 0 /\ ~cur.upgrade
  <2>1. skipped' = IF left > 0 \/ cur.upgrade THEN skipped \cup {cur.req}
                                              ELSE skipped
    BY DEF NextRequest
  <2>2. left \in Nat
    BY DEF Shaped, TypeOK
  <2>3. skipped' = {} => skipped = {} /\ left = 0 /\ ~cur.upgrade
    BY <2>1, <2>2
  <2> QED
    BY <2>3 DEF NextRequest
<1>2. Line' = Line
  BY DEF Line, Ahead
<1>3. Consecutive'
  BY <1>2 DEF Good, Consecutive
<1>4. Held'
  BY <1>1 DEF Held, NoRequest, Shaped, TypeOK
<1>5. ASSUME skipped' = {} PROVE Line'[1] = Due'
  <2>1. cur.req = taken /\ taken > 0 /\ ~cur.upgrade /\ left = 0
    BY <1>1, <1>5 DEF Good, Ordered, Between
  <2>2. cur.req \in 1..Len(sent) /\ Len(sent) \in Nat /\ taken \in Nat
    BY <2>1 DEF Good, Held, Shaped, TypeOK
  <2>3. sent[cur.req].body \in Nat
    BY <2>2, ConstantsAssumption DEF Shaped, TypeOK, Shape
  <2>4. Due = <<taken + 1, 0>>
    BY <2>1, <2>2, <2>3 DEF Due, Consumed, After
  <2>5. Due' = <<taken + 1, 0>>
    BY <1>1 DEF Due, NoRequest
  <2> QED
    BY <1>1, <1>2, <1>5, <2>4, <2>5 DEF Good, Ordered
<1>6. Ordered'
  BY <1>1, <1>5, WriteOrdered DEF Good, Ordered
<1> QED
  BY <1>3, <1>4, <1>6 DEF Good

\* Every step keeps the requests in order: one step for each action.
LEMMA GoodStep == Shaped /\ Good /\ [Next]_vars => Good'
<1> SUFFICES ASSUME Shaped, Good, [Next]_vars PROVE Good'
  OBVIOUS
<1>a. TypeOK
  BY DEF Shaped
<1>h. /\ pc \in Between => cur.req = 0
      /\ pc \in {"accept", "socket"} => cur.upgrade
      /\ cur.upgrade /\ body = "unread" => res.from = "memory" /\ pc \in Unread
  BY DEF Good, Held, Between, Unread
<1>k. ASSUME sent' = sent, todo' = todo, wire' = wire, cur' = cur,
             taken' = taken, left' = left, got' = got, body' = body,
             skipped' = skipped, Writes,
             \/ pc' = pc /\ res' = res
             \/ pc' = "failed" /\ res' = res
             \/ /\ pc' \notin Between \cup {"failed"}
                /\ pc \notin Between \cup {"failed"}
                /\ pc' \in {"accept", "socket"} => cur.upgrade
                /\ pc \notin Unread \/ (res' = res /\ pc' \in Unread)
      PROVE  Good'
  <2>1. cur.upgrade /\ body = "unread" => res'.from = "memory" /\ pc' \in Unread
    BY <1>h, <1>k DEF Unread
  <2>2. /\ pc' \in Between => pc \in Between
        /\ pc' \notin Between \cup {"failed"} => pc \notin Between \cup {"failed"}
        /\ pc' \in {"accept", "socket"} => cur.upgrade
    BY <1>h, <1>k DEF Between
  <2> QED
    BY <1>k, <2>1, <2>2, KeepGood
<1>s. ASSUME sent' = sent, todo' = todo, wire' = wire, taken' = taken, Writes,
             Served, pc \notin Between \cup {"failed"}
      PROVE  Good'
  <2>1. CASE cur.keep
    BY <1>s, <2>1, NextGood DEF Served
  <2>2. CASE ~cur.keep
    <3>1. /\ pc' \in {"closing", "done"} /\ cur' = cur /\ left' = left
          /\ body' = body /\ got' = got /\ res' = res /\ skipped' = skipped
      BY <1>s, <2>2 DEF Served, Finish
    <3>2. cur.upgrade /\ body = "unread" => res'.from = "memory" /\ pc' \in Unread
      BY <1>h, <3>1 DEF Unread
    <3> QED
      BY <1>s, <3>1, <3>2, KeepGood DEF Between
  <2> QED
    BY <2>1, <2>2
<1>1. CASE Client
  <2>1. /\ Consecutive' /\ Line'[1] = Line[1]
        /\ Len(sent') \in Nat /\ Len(sent) <= Len(sent')
        /\ \A r \in 1..Len(sent) : sent'[r] = sent[r]
    BY <1>1, ClientLine DEF Good
  <2>2. /\ pc' = pc /\ taken' = taken /\ cur' = cur /\ left' = left /\ body' = body
        /\ got' = got /\ res' = res /\ out' = out /\ skipped' = skipped
    BY <1>1 DEF Client, SendHead, SendPiece, Leave
  <2>3. cur.req \in 0..Len(sent) /\ Len(sent) \in Nat
    BY DEF Good, Held, Shaped, TypeOK
  <2>4. cur.req \in 0..Len(sent') /\ (cur.req > 0 => sent'[cur.req] = sent[cur.req])
    BY <2>1, <2>3
  <2>5. Due' = Due
    <3>1. CASE cur.req = 0
      BY <2>2, <3>1 DEF Due
    <3>2. CASE cur.req > 0
      BY <2>2, <2>4, <3>2 DEF Due, Consumed, After
    <3> QED
      BY <2>3, <3>1, <3>2
  <2>6. cur.upgrade => cur.req > 0
    BY <2>3 DEF Good, Held
  <2>7. Held'
    BY <2>2, <2>4, <2>6 DEF Good, Held
  <2>8. Ordered'
    BY <2>1, <2>2, <2>5 DEF Good, Ordered
  <2> QED
    BY <2>1, <2>7, <2>8 DEF Good
<1>2. CASE Expire
  BY <1>2, <1>k DEF Expire, Writes
<1>3. CASE Handshake
  <2>1. /\ pc \in Between /\ pc' \in {"header", "failed"}
        /\ cur' = cur /\ left' = left
        /\ body' = body /\ got' = got /\ res' = res /\ skipped' = skipped
        /\ sent' = sent /\ todo' = todo /\ wire' = wire /\ taken' = taken
        /\ out' = out
    BY <1>3 DEF Handshake, Between
  <2>2. ~cur.upgrade
    BY <2>1 DEF Good, Held, Between
  <2> QED
    BY <2>1, <2>2, KeepGood DEF Between, Writes
<1>4. CASE ReadHead
  <2> DEFINE s == sent[wire[1][1]]
             c == Request(wire[1][1], s)
             n == IF c.upgrade THEN 0 ELSE s.body
  <2>1. /\ wire # << >> /\ wire[1][2] = 0 /\ Take(c, n)
        /\ IF c.expect /\ ~c.upgrade THEN pc' = "continue" ELSE Route(c)
    BY <1>4 DEF ReadHead
  <2>2. /\ wire[1] \in Nat \X Nat /\ wire[1][1] \in Nat /\ s \in Shape
        /\ s.body \in Nat
    BY <2>1, WireHead DEF Shape
  <2>3. /\ c \in Serving /\ c.req = wire[1][1] /\ c.upgrade = s.upgrade /\ n \in Nat
        /\ n <= s.body
        /\ c.upgrade => n = 0
        /\ ~c.upgrade => n = s.body
    <3>1. c \in Serving
      BY <2>2, RequestType
    <3>2. c.req = wire[1][1] /\ c.upgrade = s.upgrade
      BY DEF Request
    <3>3. n \in Nat /\ n <= s.body
      BY <2>2
    <3> QED
      BY <3>1, <3>2, <3>3
  <2>4. /\ wire[1] = <<c.req, 0>> /\ s = sent[c.req]
    BY <2>1, <2>2, <2>3
  <2> HIDE DEF s, c, n
  <2>5. /\ pc' \in {"continue", "handler", "collect", "accept", "failed"}
        /\ pc' = "accept" => c.upgrade
    BY <2>1, TextType DEF Route, Respond
  <2> QED
    BY <2>1, <2>3, <2>4, <2>5, TakeGood
<1>5. CASE ReadBigHead
  <2> DEFINE s == sent[wire[1][1]]
             c == [Request(wire[1][1], s) EXCEPT !.keep = FALSE]
  <2>1. wire # << >> /\ wire[1][2] = 0 /\ Take(c, s.body) /\ Respond(Text)
    BY <1>5 DEF ReadBigHead
  <2>2. /\ wire[1] \in Nat \X Nat /\ wire[1][1] \in Nat /\ s \in Shape
        /\ s.body \in Nat
    BY <2>1, WireHead DEF Shape
  <2>3. c \in Serving /\ c.req = wire[1][1] /\ c.upgrade = s.upgrade
    <3>1. c \in Serving
      BY <2>2, RequestType
    <3>2. c.req = wire[1][1] /\ c.upgrade = s.upgrade
      BY DEF Request
    <3> QED
      BY <3>1, <3>2
  <2>4. /\ wire[1] = <<c.req, 0>> /\ s = sent[c.req]
    BY <2>1, <2>2, <2>3
  <2> HIDE DEF s, c
  <2>5. pc' = "collect" /\ res'.from = "memory"
    BY <2>1, TextType DEF Respond
  <2> QED
    BY <2>1, <2>2, <2>3, <2>4, <2>5, TakeGood
<1>6. CASE ReadStrayHead
  <2>1. wire # << >> /\ wire[1][2] > 0
    BY <1>6 DEF ReadStrayHead
  <2>2. PICK k \in BOOLEAN, t \in {"route", "none"} :
          Take(Stray(k, t), 0) /\ Route(Stray(k, t))
    BY <1>6 DEF ReadStrayHead
  <2>3. Stray(k, t).req = 0 /\ ~Stray(k, t).upgrade /\ Stray(k, t) \in Serving
    BY StrayType DEF Stray, NoRequest
  <2>4. pc' \in {"handler", "collect", "failed"}
    BY <2>2, <2>3, TextType DEF Route, Respond
  <2> QED
    BY <2>1, <2>2, <2>3, <2>4, StrayGood
<1>7. CASE ReadHeadFails
  BY <1>7, <1>k DEF ReadHeadFails, Fail, Writes
<1>8. CASE WriteContinue
  <2>1. /\ pc = "continue" /\ out' = Append(out, OutUnit("continue")) /\ Route(cur)
        /\ sent' = sent /\ todo' = todo /\ wire' = wire /\ cur' = cur
        /\ taken' = taken /\ left' = left /\ got' = got /\ body' = body
        /\ skipped' = skipped
    BY <1>8 DEF WriteContinue
  <2>2. Writes
    BY <2>1 DEF Writes, Between
  <2>3. /\ pc' \in {"handler", "collect", "accept", "failed"}
        /\ pc' = "accept" => cur.upgrade
    BY <2>1, TextType DEF Route, Respond
  <2>4. ~(cur.upgrade /\ body = "unread")
    BY <1>h, <2>1 DEF Unread
  <2> QED
    BY <2>1, <2>2, <2>3, <2>4, KeepGood DEF Between
<1>9. CASE WriteFails
  <2>1. Writes /\ Fail
    BY <1>9 DEF WriteFails, Writes, Between
  <2>2. body' = body /\ pc' = "failed"
    BY <2>1 DEF Fail
  <2> QED
    BY <2>1, <2>2, <1>k DEF Fail
<1>10. CASE HandlerReads
  BY <1>10, <1>k DEF HandlerReads, Writes, Between, Unread
<1>11. CASE HandlerThrows
  BY <1>11, <1>k DEF HandlerThrows, Fail, Writes
<1>12. ASSUME NEW a \in Answers, HandlerReturns(a) PROVE Good'
  <2>1. /\ pc = "handler" /\ pc' \in {"accept", "write", "collect", "chunkhead"}
        /\ pc' = "accept" => cur.upgrade
        /\ sent' = sent /\ todo' = todo /\ wire' = wire /\ cur' = cur
        /\ taken' = taken /\ left' = left /\ got' = got /\ body' = body
        /\ skipped' = skipped /\ out' = out
    BY <1>12 DEF HandlerReturns, Respond
  <2> QED
    BY <2>1, <1>k DEF Writes, Between, Unread
<1>13. CASE ReadPiece
  BY <1>13, ReadGood
<1>14. CASE ReadPieceFails
  <2>1. CASE pc = "body"
    <3>1. /\ pc' = "handler" /\ body' = "broken" /\ got' = << >> /\ cur' = cur
          /\ sent' = sent /\ todo' = todo /\ wire' = wire /\ taken' = taken
          /\ left' = left /\ skipped' = skipped /\ out' = out
      BY <1>14, <2>1 DEF ReadPieceFails
    <3>2. body = "unread" /\ ~cur.upgrade
      BY <1>h, <2>1 DEF Shaped, BodyOK, Unread
    <3>3. Line' = Line /\ Due' = Due
      BY <3>1, <3>2 DEF Line, Ahead, Due, Consumed
    <3>4. Consecutive'
      BY <3>1, <3>3 DEF Good, Consecutive
    <3>5. Held'
      BY <2>1, <3>1, <3>2 DEF Good, Held
    <3>6. Ordered'
      BY <2>1, <3>1, <3>3 DEF Good, Ordered
    <3> QED
      BY <3>4, <3>5, <3>6 DEF Good
  <2>2. CASE pc # "body"
    <3>1. Fail /\ out' = out
      BY <1>14, <2>2 DEF ReadPieceFails
    <3> QED
      BY <3>1, <1>k DEF Fail, Writes
  <2> QED
    BY <2>1, <2>2
<1>15. CASE Collect
  BY <1>15, <1>k DEF Collect, Writes, Between, Unread
<1>16. CASE StreamEndsBadly
  BY <1>16, <1>k DEF StreamEndsBadly, Fail, Writes
<1>17. CASE WriteResponse
  BY <1>17, <1>s DEF WriteResponse, Write, Writes, Between, Final
<1>18. CASE WriteChunkHead
  BY <1>18, <1>k DEF WriteChunkHead, Write, Writes, Between, Unread
<1>19. CASE WriteChunk
  BY <1>19, <1>k DEF WriteChunk, Write, Writes, Between, Unread
<1>20. CASE WriteLastChunk
  BY <1>20, <1>s DEF WriteLastChunk, Write, Writes, Between, Final
<1>21. CASE Accept
  BY <1>h, <1>21, <1>k DEF Accept, Write, Writes, Between, Unread, Final
<1>22. CASE AcceptFails
  <2>1. Writes /\ Fail
    BY <1>22 DEF AcceptFails, Writes, Between, Final
  <2> QED
    BY <2>1, <1>k DEF Fail
<1>23. CASE ReadFrame
  BY <1>23, FrameGood
<1>24. CASE CallbackReturns
  BY <1>24, <1>s DEF CallbackReturns, Writes, Between
<1>25. CASE CallbackThrows
  BY <1>25, <1>k DEF CallbackThrows, Fail, Writes
<1>26. CASE Shutdown
  BY <1>26, <1>k DEF Shutdown, Writes, Between, Unread
<1>27. CASE UNCHANGED vars
  BY <1>27, <1>k DEF vars, Writes
<1> QED
  BY <1>1, <1>2, <1>3, <1>4, <1>5, <1>6, <1>7, <1>8, <1>9, <1>10, <1>11,
     <1>12, <1>13, <1>14, <1>15, <1>16, <1>17, <1>18, <1>19, <1>20, <1>21,
     <1>22, <1>23, <1>24, <1>25, <1>26, <1>27 DEF Next, Session, Rest

\* The connection always has its requests in order.
LEMMA GoodAlways == Spec => []Good
BY GoodInit, GoodStep, ShapedAlways, PTL DEF Spec

\* As long as no body was left unread, the k-th answer answers the k-th request,
\* and each header read starts at the head of the request after the last.
THEOREM OrderHolds == Spec => []InOrder
<1>1. Shaped /\ Good => InOrder
  <2> SUFFICES ASSUME Shaped, Good, skipped = {}
               PROVE  /\ \A i \in DOMAIN out : out[i].req = out[i].turn
                      /\ pc = "header" /\ wire # << >> => wire[1] = <<taken + 1, 0>>
    BY DEF InOrder
  <2>0. wire \in Seq(Nat \X Nat)
    BY DEF Shaped, TypeOK
  <2>1. wire # << >> => Line[1] = wire[1]
    BY <2>0, LineIs
  <2> QED
    BY <2>1 DEF Good, Held, Ordered, Due
<1> QED
  BY <1>1, ShapedAlways, GoodAlways, PTL

\* What is read of a body is a prefix of the body of the request in hand, in
\* order, and the whole of it once the stream has said so.
THEOREM BodyHolds == Spec => []BodyIntegrity
<1>1. Shaped /\ Good => BodyIntegrity
  BY DEF Good, Held, Ordered, BodyIntegrity
<1> QED
  BY <1>1, ShapedAlways, GoodAlways, PTL
=============================================================================
