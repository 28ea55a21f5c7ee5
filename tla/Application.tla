---------------------------- MODULE Application -----------------------------
(***************************************************************************)
(* A program that puts a server together from routes and scopes, and a     *)
(* request that the server answers.  A plan says how much of either a      *)
(* behaviour has, so that rich programs get simple requests and rich       *)
(* requests simple programs.                                               *)
(***************************************************************************)
EXTENDS Handling

CONSTANT Plans  \* bounds: [nests, states, says, mounts, chain, opens, requests, kinds,
                \* args, results]
                \* nests: what may be served in which scope

\* What the code looks at in a request, and what a handler comes to.
Params == Seq([name : STRING, has : BOOLEAN, value : STRING])
IsMessage(m) ==
  /\ DOMAIN m.headers = Fields /\ "content-encoding" \in Fields
  /\ m.headers["content-encoding"] \in Seq(Seq(STRING))
  /\ m.params \in Params /\ m.query \in Params
  /\ m.codings \in Seq(STRING) /\ m.breaks \in BOOLEAN
  /\ m.upgrade \in {"no", "good", "bad", "old"}
IsResult(r) ==
  /\ r.type \in {"response", "string", "vector", "throw", "set_handler"}
  /\ r.type = "response" => r.res.status \in Statuses

\* A program binds states of its types.
ASSUME PlansAssumption ==
  \A p \in Plans : /\ p.states \subseteq Types
                   /\ \A m \in p.requests : IsMessage(m)
                   /\ \A r \in p.results : IsResult(r)

\* Types of states are told from other arguments; of nothing there is no form
\* with fields, and no JSON.
ASSUME ArgumentsAssumption ==
  /\ Types \cap (LibraryKinds \cup BodyKinds) = {}
  /\ \A data \in DOMAIN Forms : Forms[data] \in Params
  /\ "" \in DOMAIN Forms => Forms[""] = << >>
  /\ "" \notin Jsons

VARIABLE plan

vars == <<scopeVars, handlingVars, plan>>

NoMessage == [headers |-> NoHeaders, params |-> << >>, query |-> << >>, data |-> "",
              codings |-> << >>, breaks |-> FALSE, upgrade |-> "no"]

HandlingInit ==
  /\ serving = 0 /\ sent = NoMessage /\ req = MovedFrom /\ at = 0 /\ args = << >>
  /\ ws = Response(0) /\ outcome = Nothing

Init == plan \in Plans /\ ScopesInit /\ HandlingInit

\* Routes and scopes get their middlewares and routes before the server gets the
\* first of them; states may be bound at any time.
Bind ==
  \/ \E r \in Routes, t \in plan.states, kept \in BOOLEAN :
       said[r][t] < plan.says /\ RouteUseState(r, t, kept)
  \/ \E s \in Scopes, t \in plan.states :
       plan.nests # {} /\ said[s][t] < plan.says /\ ScopeUseState(s, t)
Mount ==
  \/ \E r \in Routes, mw \in plan.mounts :
       Len(routes[r].mws) < plan.chain /\ RouteUse(r, mw)
  \/ \E s \in Scopes :
       \/ \E mw \in plan.mounts :
            plan.nests # {} /\ Len(scopes[s].mws) < plan.chain /\ ScopeUse(s, mw)
       \/ \E r \in Routes : <<r, s>> \in plan.nests /\ ScopeServeRoute(s, r)
       \/ \E child \in Scopes : <<child, s>> \in plan.nests /\ ScopeServeScope(s, child)
Open ==
  \/ \E r \in Routes : ServerServeRoute(r)
  \/ \E s \in Scopes : ServerServeScope(s)
Build == \/ Bind
         \/ server = << >> /\ Mount
         \/ Len(server) < plan.opens /\ Open

Come == \E k \in DOMAIN server, message \in plan.requests : Dispatch(k, message)

Answering ==
  \/ Enter \/ Decompress \/ Rewrite
  \/ Len(args) < plan.args /\ \E kind \in plan.kinds : Extract(kind) \/ ExtractBody(kind)
  \/ \E result \in plan.results : Handle(result)
  \/ Leave

\* The server runs when a request comes, and the program builds no more.
Next == \/ serving = 0 /\ Build /\ UNCHANGED <<handlingVars, plan>>
        \/ (Come \/ Answering) /\ UNCHANGED <<scopeVars, plan>>

Spec == Init /\ [][Next]_vars
-----------------------------------------------------------------------------
Streams == [gone : BOOLEAN, fails : BOOLEAN, data : {"", "mw", sent.data},
            codings : Seq(ToSet(sent.codings))]

\* The types of the variables, and that every map and every route that is
\* referred to is there.
TypeOK ==
  /\ plan \in Plans
  /\ \A k \in DOMAIN heap : heap[k] \in [Types -> States]
  /\ said \in [Places -> [Types -> 0..MaxSaid]]
  /\ \A r \in Routes : Len(routes[r].maps) <= 1 /\ ToSet(routes[r].maps) \subseteq DOMAIN heap
  /\ \A s \in Scopes : scopes[s].map \in DOMAIN heap
  /\ \A k \in DOMAIN server : ToSet(server[k].maps) \subseteq DOMAIN heap
  /\ serving \in 0..Len(server)
  /\ at \in IF serving = 0 THEN {0} ELSE 0..(Len(Chain) + 1)
  /\ req.body \in Streams
  /\ outcome.is \in {"none", "response", "exception", "undefined"}
  /\ outcome.is = "response" => outcome.res.status \in Statuses
  /\ outcome = Nothing /\ serving # 0 => at > 0

\* The state a route finds (state_storage.hpp:56-67) is the one that was last
\* bound in the nearest of its own place and the scopes around it that has one,
\* whether the binding came before or after the route was put in, and whatever
\* was bound in other places; a place without a state of any type when the route
\* was put in does not count (route.hpp:91-93).
Near(route, t) == {k \in DOMAIN route.home :
                     route.home[k].had /\ said[route.home[k].at][t] > 0}
Nearest(route, t) ==
  LET near == Near(route, t)
      place == route.home[Min(near)].at
  IN IF near = {} THEN Unset ELSE [at |-> place, nth |-> said[place][t]]
NearestState ==
  \A k \in DOMAIN server, t \in Types : Found(server[k].maps, t) = Nearest(server[k], t)

\* A request passes what the places around its route had mounted when the route
\* was put in, and nothing else: the outermost scope's first, each place's in the
\* order of its use() (route.hpp:82-95, 104-111).
MountedIn(p) == IF p \in Routes THEN routes[p].mws ELSE scopes[p].mws
OnionOrder ==
  \A k \in DOMAIN server :
    LET home == server[k].home
        mounted(j) == SubSeq(MountedIn(home[j].at), 1, home[j].used)
    IN server[k].mws = FlattenSeq(Reverse([j \in DOMAIN home |-> mounted(j)]))
-----------------------------------------------------------------------------
Mounted == {Chain[k].mw : k \in DOMAIN Chain}
Entered == {Chain[k].mw : k \in 1..(at - 1)}
Codings(tokens) ==
  FlattenSeq([k \in DOMAIN tokens |-> IF tokens[k] = "identity" THEN << >> ELSE <<tokens[k]>>])
Named(headers) == IF HasHeader(headers, "content-encoding")
                    THEN Codings(Get(headers, "content-encoding")) ELSE << >>
Truthful == Len(sent.headers["content-encoding"]) <= 1 /\ Named(sent.headers) = sent.codings
BodyRead == \E k \in DOMAIN args : args[k].kind \in BodyKinds

\* On its way to the handler a request says of its body what is so: the codings
\* in the Content-Encoding header are those that are still on it, if the client
\* said so (decompress.hpp:33-61).  Of several such lines decompress sees one
\* and removes all.
EncodingTold ==
  GoingIn /\ Truthful /\ ~BodyRead /\ Entered \cap BodyRewrites = {} =>
    /\ ~req.body.gone
    /\ Named(req.headers) = req.body.codings
    /\ ~req.body.fails \/ sent.breaks

\* What reading the body should give: what the last middleware put there, or
\* what the client sent, without its codings if they were taken off.
BodyMeant ==
  LET puts == {k \in DOMAIN Chain : Chain[k].mw \in BodyRewrites}
  IN IF puts # {}
       THEN [data |-> IF Chain[CHOOSE k \in puts : \A j \in puts : j <= k].mw = "set_body()"
                        THEN "" ELSE "mw",
             codings |-> << >>]
       ELSE [data |-> sent.data,
             codings |-> IF "decompress" \in Mounted THEN << >> ELSE sent.codings]

Numbered(p) == p.name = "a" /\ p.has /\ p.value = "number"
OfA(params) == {k \in DOMAIN params : params[k].name = "a" /\ params[k].has}
LastA(params) == OfA(params) # {} /\ Numbered(params[Max(OfA(params))])
OnlyA(params) == /\ OfA(params) # {}
                 /\ \A k \in OfA(params) : OfA(params) = {k} => Numbered(params[k])

Earlier(j) == \E k \in 1..(j - 1) : args[k].kind \in BodyKinds
FormIsMeant(data) == data \in DOMAIN Forms /\ OnlyA(Forms[data])
ArgumentIsMeant(j) ==
  LET kind == args[j].kind
      value == args[j].value
  IN CASE kind = "path_of" -> LastA(sent.params)
       [] kind = "path_tuple" -> Cardinality(OfA(sent.params)) = Len(sent.params) => LastA(sent.params)
       [] kind = "query_of" -> LastA(sent.query) \/ "set_query" \in Mounted
       [] kind = "string" -> value = IF Earlier(j) THEN [data |-> "", codings |-> << >>]
                                                   ELSE BodyMeant
       [] kind = "form_of" -> ~Earlier(j) /\ FormIsMeant(BodyMeant.data)
       [] kind = "json_of" -> ~Earlier(j) /\ value = BodyMeant
       [] kind \in Types -> value = Nearest(server[serving], kind)
       [] OTHER -> TRUE

\* A handler is called with what the client sent and the middlewares made of it:
\* parameters and states by name, and the body, decoded, to the first argument
\* that reads it; whatever could not be had has been answered before
\* (handler.hpp:45-85).  This is of clients whose headers are true, and of
\* middlewares that do not lose the request (see TextBecomesBody).  Which of two
\* equal names counts is said only of those that query_map::from reads, the last:
\* query_map::set is to "update value of existing element" (query_map.hpp:120) and
\* does not (125), so that nothing is said of the value of a name that is in a form
\* twice (as_form.hpp:36) or that set_query sets beside one of the client's.
Losing == {"set_body(string)", "set_json"}
ArgumentsAreMeant ==
  serving # 0 /\ Truthful /\ Mounted \cap Losing = {} =>
    \A j \in DOMAIN args : ArgumentIsMeant(j)

\* A middleware that sets a text as the body of its request passes on the request
\* with that body: "Set a raw body and create the request" (request.hpp:405).
TextBecomesBody ==
  AtHandler /\ Chain # << >> /\ Last(Chain).mw = "set_body(string)" /\ args = << >> =>
    /\ req.body = Vector("mw")
    /\ req.path = PathInfo(sent.params)
=============================================================================
