---------------------------- MODULE HttpSession -----------------------------
(***************************************************************************)
(* One connection of http_server: the coroutine do_session /               *)
(* do_session_impl with the response writers, the body streams it reads    *)
(* and writes, the stream's timeout, and the client at the other end.      *)
(*                                                                         *)
(* The client's bytes are units: unit <<r, 0>> is the head of its r-th     *)
(* request, <<r, j>> the j-th piece of that request's body (for an upgrade *)
(* request the pieces are WebSocket frames).  The session's flat_buffer    *)
(* and the socket's receive buffer are one sequence, "wire".               *)
(***************************************************************************)
EXTENDS Naturals, Sequences, FiniteSets

CONSTANTS
  Shapes,          \* the requests a client may send
  Answers,         \* the responses a handler may return
  MaxRequests,     \* bound: requests on one connection
  RequestTimeout,  \* request_timeout_ has a value
  Tls              \* the stream is a shared_ssl_stream

\* head: what the parser makes of it; target: what routing makes of it.
\* spoilt: the body exceeds the limit or is malformed.
Shape == [head : {"ok", "big", "bad"}, keep : BOOLEAN, upgrade : BOOLEAN,
          expect : BOOLEAN, target : {"route", "mismatch", "none", "bad"},
          body : Nat, spoilt : BOOLEAN]

\* size: any_body; from: the stream the body is read from; n: the pieces that
\* stream yields; end: how it ends.
Answer == [size : {"null", "sized", "chunked"}, from : {"memory", "request"},
           n : Nat, end : {"end", "eof", "error"}]

\* The part of a request that is kept while it is served.
Serving == [req : Nat, keep : BOOLEAN, upgrade : BOOLEAN, expect : BOOLEAN,
            target : {"route", "mismatch", "none", "bad"}, spoilt : BOOLEAN]

\* What the session writes: an answer without body or with its whole body, the
\* parts of a chunked one, the answers to an upgrade, the 100 (Continue), or
\* some part of one of these.  An "empty" chunk is a piece without bytes: it is
\* written as 0 CRLF CRLF, as a last chunk is, and the message ends with it.
Final == {"full", "last", "switch", "refuse"}
Part == {"continue", "head", "chunk", "empty", "torn"}
OutRecord == [kind : Final \cup Part, req : Nat, turn : Nat, close : BOOLEAN]

ASSUME ConstantsAssumption ==
  /\ Shapes \subseteq Shape
  /\ Answers \subseteq Answer
  /\ MaxRequests \in Nat
  /\ RequestTimeout \in BOOLEAN
  /\ Tls \in BOOLEAN

VARIABLES
  sent,      \* client: the requests it has begun to send
  todo,      \* client: pieces of the last one it has still to send
  peer,      \* client: "open", "half" (has shut its sending side) or "gone"
  wire,      \* units sent and not yet consumed by the session
  pc,        \* the await the session's coroutine is suspended at
  taken,     \* requests taken so far: iterations of the session's loop
  cur,       \* the request being served: its number and its shape
  left,      \* pieces of cur's body the parser has still to consume
  body,      \* the request's body stream: "unread", "read" or "broken"
  got,       \* pieces the read in progress, or the last good one, delivered
  res,       \* the response being written
  callback,  \* websocket::impl_type::callback_ is set
  timer,     \* the stream's expiry: "off", "armed", "expired", "fired"
  out,       \* units the session has written
  skipped    \* requests left behind with bytes of theirs unread, perhaps

clientVars == <<sent, todo, peer>>
vars == <<sent, todo, peer, wire, pc, taken, cur, left, body, got, res,
          callback, timer, out, skipped>>

Ended == pc \in {"done", "failed"}
\* The awaits that are an operation on the HTTP stream, governed by its timer.
\* "collect" and "chunks" are one only while they read the request's body.
OnStream == \/ pc \in {"header", "continue", "body", "write", "chunkhead",
                       "closing"}
            \/ pc = "collect" /\ res.from = "request"
            \/ pc = "chunks"
StreamBroken == peer = "gone" \/ timer \in {"expired", "fired"}

NoAnswer == [size |-> "null", from |-> "memory", n |-> 0, end |-> "end"]
Text == [size |-> "sized", from |-> "memory", n |-> 1, end |-> "end"]
NoRequest == [req |-> 0, keep |-> FALSE, upgrade |-> FALSE, expect |-> FALSE,
              target |-> "none", spoilt |-> FALSE]
Request(r, s) == [req |-> r, keep |-> s.keep, upgrade |-> s.upgrade,
                  expect |-> s.expect, target |-> s.target,
                  spoilt |-> s.spoilt]
\* A piece of an unread body that happens to parse as a request head.
Stray(keep, target) == [NoRequest EXCEPT !.keep = keep, !.target = target]

OutUnit(kind) == [kind |-> kind, req |-> cur.req, turn |-> taken,
                  close |-> ~cur.keep]
\* Where the session has done with an answer, and where a message ends for the
\* client.  The two are the same as long as no piece without bytes was written.
FinalUnits == {i \in DOMAIN out : out[i].kind \in Final}
EndUnits == {i \in DOMAIN out : out[i].kind \in Final \cup {"empty"}}
Solid == \A i \in DOMAIN out : out[i].kind # "empty"
Armed == IF RequestTimeout THEN "armed" ELSE "off"

Init ==
  /\ sent = << >> /\ todo = 0 /\ peer = "open" /\ wire = << >>
  /\ pc = IF Tls THEN "handshake" ELSE "header"
  /\ taken = 0 /\ cur = NoRequest /\ left = 0 /\ body = "read" /\ got = << >>
  /\ res = NoAnswer /\ callback = FALSE
  /\ timer = IF Tls THEN "off" ELSE Armed
  /\ out = << >> /\ skipped = {}
-----------------------------------------------------------------------------
(* The client.  It may pipeline, and sends frames only on a switched stream. *)
Switched(r) == \E i \in DOMAIN out : out[i].kind = "switch" /\ out[i].req = r

SendHead(s) ==
  /\ peer = "open" /\ todo = 0 /\ Len(sent) < MaxRequests
  /\ pc # "handshake"
  /\ \A r \in DOMAIN sent : ~sent[r].upgrade
  /\ sent' = Append(sent, s)
  /\ todo' = s.body
  /\ wire' = Append(wire, <<Len(sent) + 1, 0>>)
  /\ UNCHANGED <<peer, pc, taken, cur, left, body, got, res, callback, timer,
                 out, skipped>>

SendPiece ==
  /\ peer = "open" /\ todo > 0
  /\ sent[Len(sent)].upgrade => Switched(Len(sent))
  /\ wire' = Append(wire, <<Len(sent), sent[Len(sent)].body - todo + 1>>)
  /\ todo' = todo - 1
  /\ UNCHANGED <<sent, peer, pc, taken, cur, left, body, got, res, callback,
                 timer, out, skipped>>

\* The client shuts its sending side, or disappears.
Leave ==
  /\ \/ peer = "open" /\ peer' = "half"
     \/ peer # "gone" /\ peer' = "gone"
  /\ UNCHANGED <<sent, todo, wire, pc, taken, cur, left, body, got, res,
                 callback, timer, out, skipped>>

\* Time passes: the deadline of the stream comes.
Expire ==
  /\ timer = "armed" /\ timer' = "expired"
  /\ UNCHANGED <<sent, todo, peer, wire, pc, taken, cur, left, body, got, res,
                 callback, out, skipped>>
-----------------------------------------------------------------------------
(* The session leaves its loop with an error: do_session throws it to the  *)
(* exception handler, and the socket is closed with the stream.            *)
Fail ==
  /\ pc' = "failed"
  /\ timer' = IF timer = "expired" THEN "fired" ELSE timer
  /\ UNCHANGED <<sent, todo, peer, wire, taken, cur, left, body, got, res,
                 callback, skipped>>

\* The loop ends with a success: the sending side is shut down.
Finish ==
  /\ pc' = IF Tls THEN "closing" ELSE "done"
  /\ UNCHANGED <<cur, left, body, got, res, callback, timer, skipped>>

\* Mutants of NextRequest: the deadline of the last request is kept, and the
\* bytes read for it are.
NextRequestSameDeadline ==
  /\ pc' = "header"
  /\ cur' = NoRequest /\ left' = 0 /\ body' = "read" /\ got' = << >>
  /\ res' = NoAnswer /\ callback' = FALSE /\ timer' = timer
  /\ skipped' = IF left > 0 \/ cur.upgrade THEN skipped \cup {cur.req}
                                          ELSE skipped

NextRequestSameBytes ==
  /\ pc' = "header"
  /\ cur' = NoRequest /\ left' = 0 /\ body' = "read" /\ got' = got
  /\ res' = NoAnswer /\ callback' = FALSE
  /\ timer' = IF RequestTimeout THEN "armed" ELSE timer
  /\ skipped' = IF left > 0 \/ cur.upgrade THEN skipped \cup {cur.req}
                                          ELSE skipped

\* The loop's next iteration: a new parser on the same buffer, a new deadline.
NextRequest ==
  /\ pc' = "header"
  /\ cur' = NoRequest /\ left' = 0 /\ body' = "read" /\ got' = << >>
  /\ res' = NoAnswer /\ callback' = FALSE
  /\ timer' = IF RequestTimeout THEN "armed" ELSE timer
  /\ skipped' = IF left > 0 \/ cur.upgrade THEN skipped \cup {cur.req}
                                          ELSE skipped

\* Mutant of Served: the loop is not left.
ServedForever == NextRequest

\* The end of an iteration.
Served == IF cur.keep THEN NextRequest ELSE Finish

\* do_response: by the size of the body.
Respond(a) ==
  /\ res' = a
  /\ pc' = CASE a.size = "null" -> "write"
             [] a.size = "sized" -> "collect"
             [] OTHER -> "chunkhead"

\* Routing of the request c, whose head has been parsed.
Route(c) ==
  \/ c.target = "route" /\ pc' = "handler" /\ UNCHANGED res
  \/ \* bad_optional_access out of the path matcher
     c.target = "mismatch" /\ pc' = "failed" /\ UNCHANGED res
  \/ /\ c.target \in {"none", "bad"}
     /\ IF c.upgrade THEN pc' = "accept" /\ res' = Text ELSE Respond(Text)
-----------------------------------------------------------------------------
(* TLS: do_handshake races the handshake with a timer of its own.          *)
Handshake ==
  /\ pc = "handshake"
  /\ \/ peer = "open" /\ pc' = "header" /\ timer' = Armed
     \/ pc' = "failed" /\ UNCHANGED timer
  /\ UNCHANGED <<sent, todo, peer, wire, taken, cur, left, body, got, res,
                 callback, out, skipped>>

\* Mutant of Take: a message with a body is taken for complete.
TakeNoLength(c, n) ==
  /\ pc = "header" /\ peer # "gone" /\ timer # "fired"
  /\ wire' = Tail(wire)
  /\ cur' = c /\ taken' = taken + 1 /\ left' = 0
  /\ body' = IF n = 0 THEN "read" ELSE "unread"
  /\ UNCHANGED <<sent, todo, peer, got, callback, out, skipped>>

(* async_read_header, on the buffer shared by all iterations.  The parser  *)
(* accepts the head of c, whose message has n more units.                  *)
Take(c, n) ==
  /\ pc = "header" /\ peer # "gone" /\ timer # "fired"
  /\ wire' = Tail(wire)
  /\ cur' = c /\ taken' = taken + 1 /\ left' = n
  /\ body' = IF n = 0 THEN "read" ELSE "unread"
  /\ UNCHANGED <<sent, todo, peer, got, callback, out, skipped>>

\* An upgrade request turns the deadline off; a request that expects it is
\* first sent a 100 (Continue).
ReadHead ==
  /\ wire # << >> /\ wire[1][2] = 0
  /\ LET s == sent[wire[1][1]]
         c == Request(wire[1][1], s)
     IN /\ s.head = "ok"
        /\ Take(c, IF c.upgrade THEN 0 ELSE s.body)
        /\ timer' = IF c.upgrade THEN "off" ELSE timer
        /\ IF c.expect /\ ~c.upgrade
             THEN pc' = "continue" /\ UNCHANGED res
             ELSE Route(c)

\* A head over the limit is answered with 400 and ends the session.
ReadBigHead ==
  /\ wire # << >> /\ wire[1][2] = 0
  /\ LET s == sent[wire[1][1]]
     IN /\ s.head = "big"
        /\ Take([Request(wire[1][1], s) EXCEPT !.keep = FALSE], s.body)
        /\ Respond(Text)
        /\ UNCHANGED timer

\* The bytes at the front of the buffer belong to a body nobody read, and
\* happen to parse as a request without a body.
ReadStrayHead ==
  /\ wire # << >> /\ wire[1][2] > 0
  /\ \E k \in BOOLEAN, t \in {"route", "none"} :
       LET c == Stray(k, t) IN Take(c, 0) /\ Route(c)
  /\ UNCHANGED timer

\* Mutant of ReadHeadFails: a malformed head is dropped and the loop goes on.
ReadHeadDropsBad ==
  /\ pc = "header" /\ wire # << >>
  /\ wire[1][2] = 0 /\ sent[wire[1][1]].head = "bad"
  /\ wire' = Tail(wire)
  /\ UNCHANGED <<sent, todo, peer, pc, taken, cur, left, body, got, res,
                 callback, timer, out, skipped>>

\* Anything else the parser or the stream reports ends the session.
ReadHeadFails ==
  /\ pc = "header"
  /\ \/ StreamBroken
     \/ wire = << >> /\ peer = "half"
     \/ /\ wire # << >>
        /\ wire[1][2] = 0 => sent[wire[1][1]].head = "bad"
  /\ Fail /\ UNCHANGED out

WriteContinue ==
  /\ pc = "continue" /\ peer # "gone" /\ timer # "fired"
  /\ out' = Append(out, OutUnit("continue"))
  /\ Route(cur)
  /\ UNCHANGED <<sent, todo, peer, wire, taken, cur, left, body, got, callback,
                 timer, skipped>>

(* An operation that fails may have written a part of its unit.            *)
WriteFails ==
  /\ pc \in {"continue", "write", "chunkhead", "chunks"}
  /\ pc = "chunks" => res.from = "memory"
  /\ StreamBroken
  /\ out' \in {out, Append(out, OutUnit("torn"))}
  /\ Fail
-----------------------------------------------------------------------------
(* The handler: any composition of extractors, middleware and user code.   *)
HandlerReads ==
  /\ pc = "handler" /\ body = "unread"
  /\ pc' = "body"
  /\ UNCHANGED <<sent, todo, peer, wire, taken, cur, left, body, got, res,
                 callback, timer, out, skipped>>

HandlerThrows == pc = "handler" /\ Fail /\ UNCHANGED out

\* On an upgrade request the handler may have called websocket::set_handler.
HandlerReturns(a) ==
  /\ pc = "handler"
  /\ a.from = "request" => body = "unread" /\ a.size # "null"
  /\ IF cur.upgrade
       THEN pc' = "accept" /\ res' = a /\ callback' \in BOOLEAN
       ELSE Respond(a) /\ UNCHANGED callback
  /\ UNCHANGED <<sent, todo, peer, wire, taken, cur, left, body, got, timer,
                 out, skipped>>

(* async_message_parser_stream: one read delivers the whole body.  It is   *)
(* read by the handler, or by the writer of a response that streams it.    *)
ReadsBody == \/ pc = "body"
             \/ pc \in {"collect", "chunks"} /\ res.from = "request"

ReadPiece ==
  /\ ReadsBody /\ wire # << >> /\ peer # "gone" /\ timer # "fired"
  /\ ~(cur.spoilt /\ left = 1)
  /\ got' = Append(got, wire[1]) /\ wire' = Tail(wire)
  /\ left' = left - 1
  /\ IF left > 1
       THEN UNCHANGED <<pc, body, res>>
       ELSE /\ body' = "read"
            /\ IF pc = "body"
                 THEN pc' = "handler" /\ UNCHANGED res
                 ELSE /\ res' = [res EXCEPT !.from = "memory", !.n = 1]
                      /\ UNCHANGED pc
  /\ UNCHANGED <<sent, todo, peer, taken, cur, callback, timer, out, skipped>>

\* An error drops what was read so far; a handler may carry on after it.
ReadPieceFails ==
  /\ ReadsBody
  /\ \/ StreamBroken
     \/ wire = << >> /\ peer = "half"
     \/ wire # << >> /\ cur.spoilt /\ left = 1
  /\ IF pc = "body"
       THEN /\ pc' = "handler" /\ body' = "broken" /\ got' = << >>
            /\ timer' = IF timer = "expired" THEN "fired" ELSE timer
            /\ UNCHANGED <<sent, todo, peer, wire, taken, cur, left, res,
                           callback, skipped>>
       ELSE Fail
  /\ UNCHANGED out
-----------------------------------------------------------------------------
(* do_sized_response collects the body first: a failing stream leaves the  *)
(* connection without a byte of the response.                              *)
Collect ==
  /\ pc = "collect" /\ res.from = "memory" /\ res.end # "error"
  /\ pc' = "write"
  /\ UNCHANGED <<sent, todo, peer, wire, taken, cur, left, body, got, res,
                 callback, timer, out, skipped>>

\* Mutant of StreamEndsBadly: the error is not returned, the loop goes on.
StreamEndIgnored ==
  /\ res.from = "memory"
  /\ \/ pc = "collect" /\ res.end = "error"
     \/ pc = "chunks" /\ res.n = 0 /\ res.end # "end"
  /\ Served /\ UNCHANGED <<sent, todo, peer, wire, taken, out>>

\* Mutant of StreamEndsBadly: the end of the body is taken for an error.
StreamEndsAlwaysBadly ==
  /\ res.from = "memory"
  /\ \/ pc = "collect" /\ res.end = "error"
     \/ pc = "chunks" /\ res.n = 0
  /\ Fail /\ UNCHANGED out

\* do_chunked_response and async_write_chunks: a failing stream truncates it.
StreamEndsBadly ==
  /\ res.from = "memory"
  /\ \/ pc = "collect" /\ res.end = "error"
     \/ pc = "chunks" /\ res.n = 0 /\ res.end # "end"
  /\ Fail /\ UNCHANGED out

Write(kind) ==
  /\ peer # "gone" /\ timer # "fired"
  /\ out' = Append(out, OutUnit(kind))
  /\ UNCHANGED <<sent, todo, peer, wire, taken>>

WriteResponse == pc = "write" /\ Write("full") /\ Served

WriteChunkHead ==
  /\ pc = "chunkhead" /\ Write("head")
  /\ pc' = "chunks"
  /\ UNCHANGED <<cur, left, body, got, res, callback, timer, skipped>>

\* A piece may have no bytes: the one of a chunked request without data, one of
\* a decoder that only took its input in, any of a stream of the handler's.
WriteChunk ==
  /\ pc = "chunks" /\ res.from = "memory" /\ res.n > 0
  /\ \E kind \in {"chunk", "empty"} : Write(kind)
  /\ res' = [res EXCEPT !.n = @ - 1]
  /\ UNCHANGED <<pc, cur, left, body, got, callback, timer, skipped>>

WriteLastChunk ==
  /\ pc = "chunks" /\ res.from = "memory" /\ res.n = 0 /\ res.end = "end"
  /\ Write("last") /\ Served
-----------------------------------------------------------------------------
(* websocket::run: the handshake is answered whatever the handler said.    *)
Accept ==
  /\ pc = "accept"
  /\ res.size # "null" => res.end = "end"
  /\ Write("switch")
  /\ pc' = "socket"
  /\ UNCHANGED <<cur, left, body, got, res, callback, timer, skipped>>

\* The stream refuses a request without key or version, or cannot write; or
\* the handler's response has a body: reading it fails, or the decorator uses
\* the response after its end, whatever that does.
AcceptFails ==
  /\ pc = "accept"
  /\ \/ /\ res.size # "null" => res.end = "end"
        /\ peer # "gone"
        /\ out' = Append(out, OutUnit("refuse"))
     \/ /\ peer = "gone" \/ res.size # "null"
        /\ UNCHANGED out
  /\ Fail

\* The callback reads a frame.
ReadFrame ==
  /\ pc = "socket" /\ callback /\ wire # << >> /\ peer # "gone"
  /\ got' = Append(got, wire[1]) /\ wire' = Tail(wire)
  /\ UNCHANGED <<sent, todo, peer, pc, taken, cur, left, body, res, callback, timer,
                 out, skipped>>

\* The callback returns, with the stream still usable or closed: by either
\* side's closing handshake, or by the WebSocket's own timeouts.
CallbackReturns ==
  /\ pc = "socket" /\ callback
  /\ peer' \in {peer, "gone"}
  /\ Served
  /\ UNCHANGED <<sent, todo, wire, taken, out>>

\* It throws; an empty std::function throws when it is called.
CallbackThrows == pc = "socket" /\ Fail /\ UNCHANGED out

\* do_session on TLS awaits the peer's close_notify.
Shutdown ==
  /\ pc = "closing"
  /\ \/ peer = "half" /\ pc' = "done" /\ UNCHANGED timer
     \/ StreamBroken /\ pc' = "failed" /\ UNCHANGED timer
  /\ UNCHANGED <<sent, todo, peer, wire, taken, cur, left, body, got, res,
                 callback, out, skipped>>
-----------------------------------------------------------------------------
Client == (\E s \in Shapes : SendHead(s)) \/ SendPiece \/ Leave

Session ==
  \/ Handshake \/ ReadHead \/ ReadBigHead \/ ReadStrayHead \/ ReadHeadFails
  \/ WriteContinue \/ WriteFails \/ HandlerReads \/ HandlerThrows
  \/ \E a \in Answers : HandlerReturns(a)
  \/ ReadPiece \/ ReadPieceFails \/ Collect \/ StreamEndsBadly
  \/ WriteResponse \/ WriteChunkHead \/ WriteChunk \/ WriteLastChunk
  \/ Accept \/ AcceptFails \/ ReadFrame \/ CallbackReturns \/ CallbackThrows
  \/ Shutdown

\* A connection that has ended stays so.
Rest == Ended /\ UNCHANGED vars

Next == Client \/ Expire \/ Session \/ Rest

Spec == Init /\ [][Next]_vars

\* The io_context runs every ready completion, user code returns, time passes.
\* Nothing is assumed of the client.
FairSpec == Spec /\ WF_vars(Session) /\ WF_vars(Expire)
-----------------------------------------------------------------------------
(* Properties.                                                             *)

TypeOK ==
  /\ sent \in Seq(Shapes) /\ todo \in Nat /\ peer \in {"open", "half", "gone"}
  /\ wire \in Seq(Nat \X Nat)
  /\ pc \in {"handshake", "header", "continue", "handler", "body", "collect",
             "write", "chunkhead", "chunks", "accept", "socket", "closing",
             "done", "failed"}
  /\ taken \in Nat
  /\ cur \in Serving
  /\ left \in Nat /\ body \in {"unread", "read", "broken"}
  /\ got \in Seq(Nat \X Nat) /\ res \in Answer /\ callback \in BOOLEAN
  /\ timer \in {"off", "armed", "expired", "fired"}
  /\ out \in Seq(OutRecord)
  /\ skipped \subseteq Nat

\* What a client reads for one request is one message: it ends once.
AnswersEndOnce ==
  \A i, j \in EndUnits : out[i].turn = out[j].turn => i = j

\* What the session writes for one request is contiguous, ends with the only
\* unit it takes for the end of the answer, and the next thing written belongs
\* to a later request; nothing follows a truncated message.  For the client the
\* message ends there too, and only there, as long as no piece without bytes
\* was written.  A client that waits for the 100 (Continue) gets it before the
\* handler runs or the body is read.
Framing ==
  /\ \A i \in 1..(Len(out) - 1) :
       /\ out[i].kind # "torn"
       /\ IF out[i].kind \in Final THEN out[i + 1].turn > out[i].turn
                                   ELSE out[i + 1].turn = out[i].turn
       /\ out[i].kind \in {"head", "chunk", "empty"} =>
            out[i + 1].kind \in {"chunk", "empty", "last", "torn"}
  /\ Solid => AnswersEndOnce
  /\ cur.expect /\ ~cur.upgrade /\ pc \in {"handler", "body"} =>
       \E i \in DOMAIN out : out[i].turn = taken /\ out[i].kind = "continue"

\* As long as no body has been left unread, the k-th answer is the answer to
\* the k-th request, and each header read starts at the head of the request
\* after the last one taken: pipelined requests are answered in the order sent.
InOrder ==
  skipped = {} =>
    /\ \A i \in DOMAIN out : out[i].req = out[i].turn
    /\ pc = "header" /\ wire # << >> => wire[1] = <<taken + 1, 0>>

\* What a handler or a streamed response has read is a prefix of the body of
\* the request being served, in order, and the whole of it once the stream has
\* said so.  (Here: as long as no body was left unread.)
BodyIntegrity ==
  /\ skipped = {} => \A i \in DOMAIN got : got[i] = <<cur.req, i>>
  /\ cur.req > 0 /\ ~cur.upgrade /\ pc # "failed" /\ body = "read" =>
       Len(got) + left = sent[cur.req].body

\* A response that says "close" is the last thing on the connection, and a
\* connection is shut down cleanly only after such a response.
CloseIsLast ==
  /\ \A i \in DOMAIN out :
       out[i].kind \in {"full", "last"} /\ out[i].close =>
         i = Len(out) /\ pc \in {"closing", "done", "failed"}
  /\ pc = "done" => /\ out # << >>
                    /\ out[Len(out)].kind \in Final
                    /\ out[Len(out)].close

\* With a request timeout, every wait on the HTTP stream has a deadline (also
\* after a WebSocket turned it off), and the WebSocket is not cut by it.
DeadlineCovers ==
  /\ RequestTimeout /\ OnStream /\ pc # "closing" => timer # "off"
  /\ pc \in {"accept", "socket"} => timer = "off"

\* The callback the session is about to call has been set (the assertion in
\* websocket::impl_type::callback).
CallbackIsSet == pc = "socket" => callback

\* The session is an HTTP exchange, counting the messages that end for the
\* client, up to the first piece without bytes.
Exchange == INSTANCE HttpExchange WITH
              replied <- Cardinality(EndUnits), open <- ~Ended
ExchangeSpec ==
  Exchange!Init /\ [][Solid' => Exchange!Next]_(Exchange!vars)

\* After an upgrade with close the timer is off, and on TLS the peer's
\* close_notify is awaited without one.
AwaitsNotify == pc = "closing" /\ timer = "off"

\* With a request timeout the session ends, whatever the client does or does
\* not do, or has nothing left to do but await the close_notify of a WebSocket.
SessionEnds == <>(Ended \/ AwaitsNotify)

\* A response with a sound body that the session has begun to write is written
\* to its end, unless the client disappears or the deadline strikes.
AnswerIsWritten ==
  \A n \in 1..MaxRequests :
    /\ taken = n /\ pc \in {"write", "collect", "chunkhead", "chunks"}
    /\ res.from = "memory" /\ res.end = "end"
    ~> Cardinality(FinalUnits) >= n \/ peer = "gone" \/ timer = "fired"
=============================================================================
