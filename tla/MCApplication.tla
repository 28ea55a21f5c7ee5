---------------------------- MODULE MCApplication ----------------------------
(* Small instances of Application: any program with one route and two scopes  *)
(* and a plain request; one route under up to three middlewares and requests   *)
(* with every kind of body and coding; every pair of arguments.                *)
EXTENDS Application

Param(name, has, value) == [name |-> name, has |-> has, value |-> value]
A(value) == Param("a", TRUE, value)
B == Param("b", TRUE, "number")
Bare == Param("a", FALSE, "")

MCForms == [data \in {"", "form", "twice", "wrong"} |->
              CASE data = "" -> << >>
                [] data = "form" -> <<A("number")>>
                [] data = "twice" -> <<A("number"), Bare, A("word")>>
                [] data = "wrong" -> <<B>>]
MCFields == {"content-type", "content-encoding", "x-trace-id", "upgrade"}

Plainly == [NoMessage EXCEPT !.params = <<A("number")>>, !.query = <<A("number")>>]
With(message, f, values) == [message EXCEPT !.headers[f] = values]
Encoded(lines, codings, breaks) ==
  [With(Plainly, "content-encoding", lines) EXCEPT
     !.data = "form", !.codings = codings, !.breaks = breaks]
Typed(type, data, breaks) ==
  [With(Plainly, "content-type", type) EXCEPT !.data = data, !.breaks = breaks]

MCEncoded ==
  {Encoded(<< >>, << >>, FALSE),
   Encoded(<<<<"gzip">>>>, <<"gzip">>, FALSE),
   Encoded(<<<<"gzip">>>>, << >>, FALSE),
   Encoded(<<<<"gzip", "identity", "deflate">>>>, <<"gzip", "deflate">>, FALSE),
   Encoded(<<<<"deflate", "brotli">>>>, <<"deflate", "brotli">>, TRUE),
   Encoded(<<<<"gzip", "zstd">>>>, <<"gzip", "zstd">>, FALSE),
   Encoded(<<<<"gzip">>, <<"gzip">>>>, <<"gzip", "gzip">>, FALSE)}
MCTyped ==
  {Typed(type, data, FALSE) : type \in {<< >>, <<"form">>, <<"json", "form">>},
                              data \in {"", "form", "twice", "wrong", "json", "junk"}}
    \cup {Typed(<<"form">>, "form", TRUE), Typed(<<"json">>, "json", TRUE)}
MCParams ==
  {[Plainly EXCEPT !.params = p] : p \in {<< >>, <<A("word")>>, <<B>>, <<A("number"), B>>}}
    \cup {[Plainly EXCEPT !.query = q] :
            q \in {<< >>, <<A("number")>>, <<A("word"), A("number")>>, <<Bare>>, <<B>>}}
    \cup {[Plainly EXCEPT !.upgrade = u] : u \in {"good", "bad", "old"}}

Result(res) == [type |-> "response", res |-> res]
Answer == Result(ResWithStream(Response(200), "stream"))
MCResults ==
  {Answer, Result(ResWithNoBody(ResWithMoreHeader(Response(204), "x-trace-id", "h"))),
   Result(ResWithJson(Response(201), "json")), [type |-> "string", value |-> "text"], [type |-> "vector", value |-> "bytes"],
   [type |-> "throw", value |-> "std"], [type |-> "throw", value |-> "other"],
   [type |-> "set_handler", value |-> "callback"]}
Kinds == BodyKinds \cup Others

Plan(nests, states, says, mounts, chain, opens, requests, kinds, nargs, results) ==
  [nests |-> nests, states |-> states, says |-> says, mounts |-> mounts, chain |-> chain,
   opens |-> opens, requests |-> requests, kinds |-> kinds,
   args |-> nargs, results |-> results]
Plainest == {Answer, [type |-> "throw", value |-> "std"], [type |-> "throw", value |-> "other"]}
Lookers == {"exception_handler", "logger", "trace_id"}
Inner == <<"route", "inner">>
Outer == {<<"route", "outer">>, <<"inner", "outer">>}
OneType == {CHOOSE t \in Types : TRUE}

MCPlans ==
  {Plan({Inner} \cup Outer, OneType, 2, {}, 1, 2, {}, {}, 0, {}),
   Plan({Inner} \cup Outer, Types, 1, {}, 1, 2, {}, {}, 0, {}),
   Plan({Inner}, Types, 1, {}, 1, 2, {Plainly}, Types, 1, {Answer}),
   Plan({Inner} \cup Outer, {}, 0, {"logger"}, 1, 2, {Plainly}, {}, 0, {Answer}),
   Plan({}, {}, 0, Lookers \cup {"decompress"} \cup Rewrites, 2, 1, MCEncoded,
        {"request", "string"}, 2, Plainest),
   Plan({}, {}, 0, {"exception_handler", "trace_id", "decompress", "set_body(span)"}, 3, 1,
        MCEncoded, {"string"}, 1, Plainest),
   Plan({}, OneType, 1, {"exception_handler", "set_query"}, 1, 1,
        MCTyped \cup MCParams, Kinds, 2, MCResults)}
=============================================================================
