------------------------------ MODULE Messages ------------------------------
(***************************************************************************)
(* Requests and responses as the application sees them: the maps of their  *)
(* headers, queries and path parameters, their bodies, and the builders,   *)
(* which move all of it out of the message they are made from.             *)
(***************************************************************************)
EXTENDS Naturals, Sequences, SequencesExt, FiniteSets

CONSTANT Fields  \* names of headers

(* http::header_map: a name may have several values, and get() returns the *)
(* first.                                                                  *)
NoHeaders == [f \in Fields |-> << >>]
HasHeader(headers, f) == headers[f] # << >>
Get(headers, f) == headers[f][1]
SetHeader(headers, f, value) == [headers EXCEPT ![f] = <<value>>]
InsertHeader(headers, f, value) == [headers EXCEPT ![f] = Append(@, value)]
EraseHeader(headers, f) == [headers EXCEPT ![f] = << >>]

(* Maps of parameters.  A parameter is [name, has, value].                 *)
NoParams == << >>
IsIn(map, name) == name \in DOMAIN map

Bound(map, name, value) ==
  [n \in DOMAIN map \cup {name} |-> IF n = name THEN value ELSE map[n]]

\* query_map::from: the last value of a name counts.
QueryFrom(params) ==
  FoldLeft(LAMBDA map, p : IF p.has THEN Bound(map, p.name, p.value) ELSE map,
           NoParams, params)

\* query_map::set keeps the value that is there.
SetParam(map, name, value) == IF IsIn(map, name) THEN map ELSE Bound(map, name, value)

\* path_info: the same map, and the names in the order of the path, where a name
\* may stand twice.
PathInfo(params) == [keys |-> [k \in DOMAIN params |-> params[k].name], map |-> QueryFrom(params)]
PathSize(path) == Cardinality(DOMAIN path.map)
PathAt(path, k) == path.map[path.keys[k]]

\* as_form uses it, so that the first value of a name counts in a form.
FormFrom(params) ==
  FoldLeft(LAMBDA map, p : IF p.has THEN SetParam(map, p.name, p.value) ELSE map,
           NoParams, params)
-----------------------------------------------------------------------------
(* any_async_readable_stream, as what is read from it to its end: data     *)
(* under codings, of which the last is taken off first; or an error, when  *)
(* the sender stops or a decoder meets what it cannot read.  It is gone    *)
(* when it was moved out of; to read it then is undefined.                 *)
Stream(data, codings, fails) == [gone |-> FALSE, data |-> data, codings |-> codings,
                                 fails |-> fails]
Gone == [gone |-> TRUE, data |-> "", codings |-> << >>, fails |-> FALSE]
Vector(data) == Stream(data, << >>, FALSE)

\* A decoder over the stream.
Decoding(stream, coding) ==
  IF stream.codings # << >> /\ Last(stream.codings) = coding
    THEN [stream EXCEPT !.codings = Front(@)]
    ELSE [stream EXCEPT !.fails = TRUE]

\* What async_read_until_eof leaves.
Drained(stream) == [stream EXCEPT !.data = "", !.codings = << >>]
-----------------------------------------------------------------------------
(* web::request and its builder.                                           *)
Request(headers, path, query, body, states) ==
  [headers |-> headers, path |-> path, query |-> query, body |-> body, states |-> states]

\* request::builder() and build() move every part.
MovedFrom == Request(NoHeaders, PathInfo(<< >>), NoParams, Gone, << >>)

WithHeader(req, f, value) == [req EXCEPT !.headers = SetHeader(@, f, value)]
WithMoreHeader(req, f, value) == [req EXCEPT !.headers = InsertHeader(@, f, value)]
WithQuery(req, name, value) == [req EXCEPT !.query = SetParam(@, name, value)]

\* set_body(), set_body(span), set_body(stream) and build().
WithBody(req, stream) == [req EXCEPT !.body = stream]

\* set_body(string_view) drops the request that set_body(span) has built, with
\* all the parts moved into it, and builds another from what is left.
WithText(req, data) == MovedFrom

\* set_json does the same behind set_header.
WithJson(req, data) == WithText(WithHeader(req, "content-type", "json"), data)
-----------------------------------------------------------------------------
(* web::response and its builder.  A body that was moved out of keeps its  *)
(* size and has no stream.                                                 *)
Body(size, data) == [size |-> size, data |-> data, gone |-> FALSE]
Null == Body("null", "")
Sized(data) == Body("sized", data)
Chunked(data) == Body("chunked", data)
MovedBody(body) == [body EXCEPT !.gone = TRUE]

\* The statuses there are factories for: response::continue_() to
\* network_authentication_required().
Informational == 100..103
Successful == (200..208) \cup {226}
Redirections == (300..308) \ {306}
ClientErrors == (400..417) \cup (421..426) \cup {428, 429, 431, 451}
ServerErrors == (500..508) \cup {510, 511}
Statuses == Informational \cup Successful \cup Redirections \cup ClientErrors \cup ServerErrors

\* response_builder: what a factory makes, the setters, and the bodies.
Response(status) == [status |-> status, headers |-> NoHeaders, body |-> Null]
ResWithStatus(res, status) == [res EXCEPT !.status = status]
ResWithHeader(res, f, value) == [res EXCEPT !.headers = SetHeader(@, f, value)]
ResWithMoreHeader(res, f, value) == [res EXCEPT !.headers = InsertHeader(@, f, value)]
ResWithNoBody(res) == [res EXCEPT !.body = Null]
ResWithText(res, data) == [res EXCEPT !.body = Sized(data)]
ResWithStream(res, data) == [res EXCEPT !.body = Chunked(data)]
ResWithJson(res, data) == ResWithText(ResWithHeader(res, "content-type", "json"), data)

\* What is left in a builder, or in every copy of a response, of which the body
\* and the headers were moved out: the copies share one.
ResMovedFrom(res) == [res EXCEPT !.headers = NoHeaders, !.body = MovedBody(@)]

\* The answers of the library itself are texts.
TextAnswer(status, data) ==
  ResWithText(ResWithHeader(Response(status), "content-type", "text"), data)

\* to_response of what a handler returns.
ToResponse(result) ==
  CASE result.type = "response" -> result.res
    [] result.type = "string" -> TextAnswer(200, result.value)
    [] result.type = "vector" ->
         ResWithText(ResWithHeader(Response(200), "content-type", "bytes"), result.value)
=============================================================================
