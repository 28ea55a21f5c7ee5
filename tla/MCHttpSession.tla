--------------------------- MODULE MCHttpSession ----------------------------
(* Small instances of HttpSession: the requests and responses that take     *)
(* different paths through the session.                                     *)
EXTENDS HttpSession

Get == [head |-> "ok", keep |-> TRUE, upgrade |-> FALSE, expect |-> FALSE,
        target |-> "route", body |-> 0, spoilt |-> FALSE]
Post == [Get EXCEPT !.body = 2]
Upgrade == [Get EXCEPT !.upgrade = TRUE, !.body = 1]

PlainShapes ==
  {Get, Post,
   [Get EXCEPT !.keep = FALSE], [Get EXCEPT !.head = "big"],
   [Get EXCEPT !.head = "bad"], [Get EXCEPT !.target = "mismatch"],
   [Post EXCEPT !.expect = TRUE], [Post EXCEPT !.spoilt = TRUE],
   [Post EXCEPT !.target = "none", !.body = 1],
   Upgrade, [Upgrade EXCEPT !.target = "none"]}

LiveShapes ==
  {Get, [Get EXCEPT !.keep = FALSE], [Post EXCEPT !.expect = TRUE], Upgrade,
   [Upgrade EXCEPT !.keep = FALSE]}

Posts == {Get, Post}

LiveAnswers == {Text, [Text EXCEPT !.size = "chunked", !.from = "request"]}

UnroutedUpgrade == {[Upgrade EXCEPT !.target = "none"], Upgrade, Get}

MCAnswers ==
  {NoAnswer, Text, [Text EXCEPT !.n = 0, !.end = "error"],
   [Text EXCEPT !.size = "chunked"],
   [Text EXCEPT !.size = "chunked", !.end = "eof"],
   [Text EXCEPT !.from = "request"],
   [Text EXCEPT !.size = "chunked", !.from = "request"]}
=============================================================================
