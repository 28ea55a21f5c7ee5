------------------------------ MODULE Handling ------------------------------
(***************************************************************************)
(* A request on its way through the middlewares of its route to the        *)
(* handler, and the answer on its way back.  A middleware is entered, may  *)
(* change or answer the request, and is left with the answer or with an    *)
(* exception from inside; the handler's arguments are extracted one after  *)
(* the other.  Which arguments and what the handler returns is chosen when *)
(* it matters.  Extractors want one field, "a", and a number in it.        *)
(***************************************************************************)
EXTENDS Scopes, Messages

CONSTANTS Forms,   \* the data that are forms, with their fields
          Jsons    \* the data that are the wanted JSON

Supported == {"deflate", "gzip", "brotli"}

VARIABLES serving,  \* the route that serves the request, 0 before it came
          sent,     \* the request as the client sent it
          req,      \* the request as it is now
          at,       \* where it is: at a middleware or, behind them, the handler
          args,     \* the arguments so far: [kind, value]
          ws,       \* the response that websocket::build_response made
          outcome   \* "none", then a response, an exception or "undefined"

handlingVars == <<serving, sent, req, at, args, ws, outcome>>

Chain == server[serving].mws
Here == Chain[at].mw
Nothing == [is |-> "none"]
Responds(res) == [is |-> "response", res |-> res]
Throws(what) == [is |-> "exception", what |-> what]
Undefined == [is |-> "undefined"]
GoingIn == serving # 0 /\ outcome = Nothing
AtHandler == GoingIn /\ at > Len(Chain)

\* do_session_impl: the router's answer, and the request for the route.
Dispatch(k, message) ==
  /\ serving = 0
  /\ serving' = k
  /\ sent' = message
  /\ req' = Request(message.headers, PathInfo(message.params), QueryFrom(message.query),
                    Stream(message.data, message.codings, message.breaks), server[k].maps)
  /\ at' = 1
  /\ UNCHANGED <<args, ws, outcome>>
-----------------------------------------------------------------------------
(* Into the middlewares.                                                   *)
Inward(changed) == /\ req' = changed /\ at' = at + 1
                   /\ UNCHANGED <<serving, sent, args, ws, outcome>>
AnswerAt(res) == /\ outcome' = Responds(res) /\ at' = at - 1
                 /\ UNCHANGED <<serving, sent, args, ws>>

\* exception_handler, logger and the documents' trace_id look on.
Enter == /\ GoingIn /\ at <= Len(Chain)
         /\ Here \in {"exception_handler", "logger", "trace_id"}
         /\ Inward(req)

\* The last coding comes off first; identity is none.
TakenOff(tokens) ==
  FoldLeft(LAMBDA stream, c : IF c = "identity" THEN stream ELSE Decoding(stream, c),
           req.body, Reverse(tokens))

\* Mutant: the header stays.
StillEncoded(stream) == WithBody(req, stream)

\* Nothing of the header is left when every coding was taken off.
Decoded(stream) ==
  WithBody([req EXCEPT !.headers = EraseHeader(@, "content-encoding")], stream)

\* decompress: the first Content-Encoding line; the body is moved out before the
\* codings are looked at, and is lost if one of them is not supported.
Decompress ==
  /\ GoingIn /\ at <= Len(Chain) /\ Here = "decompress"
  /\ LET tokens == Get(req.headers, "content-encoding")
     IN \/ ~HasHeader(req.headers, "content-encoding") /\ Inward(req)
        \/ /\ HasHeader(req.headers, "content-encoding")
           /\ ToSet(tokens) \subseteq Supported \cup {"identity"}
           /\ Inward(Decoded(TakenOff(tokens)))
        \/ /\ HasHeader(req.headers, "content-encoding")
           /\ ~(ToSet(tokens) \subseteq Supported \cup {"identity"})
           /\ req' = WithBody(req, Gone)
           /\ AnswerAt(TextAnswer(400, "unsupported"))

\* Middlewares that assign what a request_builder makes of their request.
Rewritten(how) ==
  CASE how = "set_header" -> WithHeader(req, "x-trace-id", "mw")
    [] how = "insert_header" -> WithMoreHeader(req, "x-trace-id", "mw")
    [] how = "set_query" -> WithQuery(req, "a", "number")
    [] how = "set_body()" -> WithBody(req, Vector(""))
    [] how = "set_body(span)" -> WithBody(req, Vector("mw"))
    [] how = "set_body(string)" -> WithText(req, "mw")
    [] how = "set_json" -> WithJson(req, "json")

BodyRewrites == {"set_body()", "set_body(span)", "set_body(string)", "set_json"}
Rewrites == {"set_header", "insert_header", "set_query"} \cup BodyRewrites

Rewrite == /\ GoingIn /\ at <= Len(Chain) /\ Here \in Rewrites
           /\ Inward(Rewritten(Here))
-----------------------------------------------------------------------------
(* Arguments: [ok, value], or the answer of an extractor that failed.      *)
Extracted(value) == [ok |-> TRUE, value |-> value]
Refused(status) == [ok |-> FALSE, res |-> TextAnswer(status, "refused")]

\* extract_query: every field of the wanted type is there and converts.
Converts(map) == IsIn(map, "a") /\ map["a"] = "number"

\* path_of<T> and path_of<std::tuple>, query_of: as many parameters as fields;
\* a tuple takes them by position, so that their names do not matter.
FromPath == CASE PathSize(req.path) # 1 -> Refused(500)
              [] PathSize(req.path) = 1 /\ Converts(req.path.map) -> Extracted(req.path.map["a"])
              [] OTHER -> Refused(400)
FromPathTuple ==
  IF PathSize(req.path) = 1 /\ PathAt(req.path, 1) = "number"
    THEN Extracted(PathAt(req.path, 1)) ELSE Refused(400)
FieldsOf(map) == IF Cardinality(DOMAIN map) = 1 /\ Converts(map)
                   THEN Extracted(map["a"]) ELSE Refused(400)

\* state_storage::state: the maps of the route from the first on.
Holding(maps, t) == {k \in DOMAIN maps : heap[maps[k]][t] # Unset}
Found(maps, t) == IF Holding(maps, t) = {} THEN Unset
                  ELSE heap[maps[Min(Holding(maps, t))]][t]
FromStates(t) == IF Found(req.states, t) = Unset THEN Refused(500)
                 ELSE Extracted(Found(req.states, t))

\* websocket::build_response on what Boost.Beast asks of an upgrade, which it
\* sees in one builder.  Behind the refusal of a version other than 13 there is
\* no return: the headers of an upgrade are added to what is left, and this is
\* the response.
Upgraded(builder) == ResWithHeader(builder, "upgrade", "websocket")
Handshake ==
  LET builder == Response(101)
  IN CASE sent.upgrade = "good" -> Upgraded(builder)
       [] sent.upgrade = "bad" -> ResWithText(ResWithStatus(builder, 400), "reason")
       [] sent.upgrade = "old" ->
            Upgraded(ResMovedFrom(ResWithText(ResWithStatus(builder, 426), "reason")))
FromWebSocket == IF sent.upgrade = "no" THEN Refused(400) ELSE Extracted(Handshake)

\* The extractors that read the body.  Content-Type comes first.
HasType(type) == HasHeader(req.headers, "content-type") /\ Get(req.headers, "content-type") = type
Plain == req.body.codings = << >>
Content(stream) == [data |-> stream.data, codings |-> stream.codings]
FromBody(kind) ==
  CASE kind = "string" -> Extracted(Content(req.body))
    [] kind = "form_of" -> IF Plain /\ req.body.data \in DOMAIN Forms
                             THEN FieldsOf(FormFrom(Forms[req.body.data])) ELSE Refused(400)
    [] kind = "json_of" -> IF Plain /\ req.body.data \in Jsons
                             THEN Extracted(Content(req.body)) ELSE Refused(400)

LibraryKinds == {"request", "path_of", "path_tuple", "query_of", "websocket"}
Others == LibraryKinds \cup Types
BodyKinds == {"string", "form_of", "json_of"}

FromOthers(kind) ==
  CASE kind = "request" -> Extracted("all")
    [] kind = "path_of" -> FromPath
    [] kind = "path_tuple" -> FromPathTuple
    [] kind = "query_of" -> FieldsOf(req.query)
    [] kind = "websocket" -> FromWebSocket
    [] kind \in Types -> FromStates(kind)

\* Mutant: an argument that cannot be extracted is passed over.
ArgumentSkipped(kind, result) ==
  IF result.ok THEN args' = Append(args, [kind |-> kind, value |-> result.value])
                    /\ UNCHANGED <<at, outcome>>
               ELSE args' = Append(args, [kind |-> kind, value |-> Content(Gone)])
                    /\ UNCHANGED <<at, outcome>>

\* handler_middleware::extract_arg: the first that fails answers.
Argument(kind, result) ==
  IF result.ok THEN args' = Append(args, [kind |-> kind, value |-> result.value])
                    /\ UNCHANGED <<at, outcome>>
               ELSE outcome' = Responds(result.res) /\ at' = at - 1 /\ UNCHANGED args

Extract(kind) ==
  /\ AtHandler
  /\ kind \in Others
  /\ Argument(kind, FromOthers(kind))
  /\ ws' = IF kind = "websocket" /\ sent.upgrade # "no" THEN Handshake ELSE ws
  /\ UNCHANGED <<serving, sent, req>>

WantedType(kind) == CASE kind = "form_of" -> "form" [] kind = "json_of" -> "json"
ExtractBody(kind) ==
  /\ AtHandler
  /\ kind \in BodyKinds
  /\ UNCHANGED <<serving, sent, ws>>
  /\ \/ /\ kind # "string" /\ ~HasType(WantedType(kind))
        /\ Argument(kind, Refused(400))
        /\ UNCHANGED req
     \/ /\ kind # "string" => HasType(WantedType(kind))
        /\ IF req.body.gone
             THEN outcome' = Undefined /\ UNCHANGED <<at, args, req>>
             ELSE /\ req' = WithBody(req, Drained(req.body))
                  /\ Argument(kind, IF req.body.fails THEN Refused(400) ELSE FromBody(kind))
-----------------------------------------------------------------------------
(* The handler, and back through the middlewares.                          *)
Handle(result) ==
  /\ AtHandler
  /\ outcome' = CASE result.type = "throw" -> Throws(result.value)
                  [] result.type = "set_handler" -> Responds(ws)
                  [] result.type \notin {"throw", "set_handler"} -> Responds(ToResponse(result))
  /\ result.type = "set_handler" => ws.status # 0
  /\ at' = at - 1
  /\ UNCHANGED <<serving, sent, req, args, ws>>

GoingOut == serving # 0 /\ outcome.is \in {"response", "exception"} /\ at > 0

\* exception_handler catches what is a std::exception.
Caught(thrown) == IF thrown.what = "std" THEN Responds(Response(500)) ELSE thrown

\* trace_id adds its header to the response unless there is one.
Traced(res) == IF HasHeader(res.headers, "x-trace-id") THEN res
               ELSE ResWithHeader(res, "x-trace-id", "id")

Leave ==
  /\ GoingOut
  /\ outcome' = CASE Here = "exception_handler" /\ outcome.is = "exception" -> Caught(outcome)
                  [] Here = "trace_id" /\ outcome.is = "response" -> Responds(Traced(outcome.res))
                  [] OTHER -> outcome
  /\ at' = at - 1
  /\ UNCHANGED <<serving, sent, req, args, ws>>
=============================================================================
