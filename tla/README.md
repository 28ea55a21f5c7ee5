# fitoria in TLA+

fitoria is a header-only C++20 library for HTTP servers on Boost.Asio and
Boost.Beast. This directory holds TLA+ modules for its stateful parts, the TLC
configurations that model-check them and TLAPS proofs about them. Paths are
relative to `src/`; `include/fitoria/` is left out where it is clear.

    tlc -config HttpSession_safety.cfg MCHttpSession.tla
    tlapm HttpSession_proofs.tla

## The system

A program builds an `http_server` from scopes and routes, binds it, and runs an
executor. The listener spawns one coroutine for each connection. It reads a
request head from the stream into a buffer, finds a route in the radix tree,
matches the path, builds a `request` with the body as a stream, calls the
route's chain of middlewares and its handler, and writes the `response` it gets
back; then it reads the next head, shuts the stream down, or runs a WebSocket.
Everything is called within that coroutine; what is shared between connections
is the router (constant once built), the state maps, and the default logger,
whose records go through a channel to a coroutine of its own.

| Part | State | Operations | Hard about it | Correct means |
|---|---|---|---|---|
| Session, `web/http_server.hpp` `do_session*`, `do_*_response`; `web/async_message_parser_stream.hpp`, `async_write_chunks.hpp`, `async_read_until_eof.hpp` | buffer, parser, deadline, request in service, response in progress | handshake, read a head, 100 (Continue), read the body, call, respond (empty, sized, chunked), upgrade, shut down | pipelining on one buffer, bodies nobody reads, bodies that stream back, errors in mid-message, deadlines that race completions, clients that vanish | answers well framed, in order, at most one a request; nothing after "close"; a deadline on every wait; every session ends |
| WebSocket, `web/websocket.hpp` | stream, response, callback | `from_request`, `set_handler`, `run`, read, write | shares stream and buffer with the session; run whatever the handler set | a callback is called only if set; the deadline is off during it and armed after it |
| Router, `web/router.hpp` | radix tree | `try_insert`, `optimize`, `try_find` | order of insertion, splitting of nodes, priorities, backtracking | finds the best route served, rejects duplicates |
| Patterns, `web/path_parser.hpp`, `path_matcher.hpp`, `path_info.hpp` | tokens, a regular expression | `parse`, `match` | decides again what the router decided | agrees with the router |
| Routes, scopes, states, `web/route.hpp`, `scope.hpp`, `state_storage.hpp` | shared maps of states | `use_state`, `use`, `serve`, `rebind_parent`, `state` | copies of routes and scopes share maps, or not | a request sees the states of its route, then of its scopes, outwards |
| Handlers, `web/handler.hpp`, `from_request.hpp`, extractors, `middleware/*` | none beyond a request | extract, call, convert | first failure answers, exceptions, a body read twice | one response a request |
| Compression, `middleware/detail/*_stream.hpp`, `decompress.hpp` | codec, finished flag | `async_read_some` | a codec's many answers; output larger than a buffer | what comes out is what went in; reads end |
| Bodies, `web/any_body.hpp`, `async_readable_*.hpp` | position in a vector or file | `async_read_some` | short reads, ends | all bytes, once, then the end |
| Static files, `web/static_file.hpp`, `http/header/*.hpp` | one outcome | `open`, `to_response` | ranges at the end of files, preconditions | 200, 206, 304, 400 and 416 where the headers ask for them |
| Dynamic buffer, `core/dynamic_buffer.hpp` | container, two offsets, limit | `prepare`, `commit`, `consume`, `release` | resize, or move, or throw; regions used after the call | a byte queue |
| `core/expected.hpp`, `core/optional.hpp` | a union and a flag | assign, emplace, swap, monadic operations | constructors that throw while one member replaces the other | exactly one member alive, and the old one back after an exception |
| Logger, `log/async_logger.hpp`, `filter.hpp`, `registry.hpp` | writers, filter, channel, consumer | `log`, `add_writer`, the consumer, destructor | a coroutine for each record, a destructor that waits for the consumer, writers that throw | allowed records reach every writer once; the destructor ends |
| HTTP vocabulary, media types, Base64, `core` utilities | none | parse, format, look up | boundaries of parsers | round trips |

`PROJECT.json` lists the parts with their files and what is modelled of each,
and the hazards with the properties that cover them.

## Modules

    HttpExchange  <--implements--  HttpSession   <--  MCHttpSession, HttpSession_proofs
    ByteQueue     <--implements--  DynamicBuffer <--  MCDynamicBuffer, DynamicBuffer_proofs
    SumType       <--implements--  SumTypes      <--  MCCore, SumTypes_proofs
                     TaggedUnion <-- Expected, ExpectedVoid, ExpectedRef, Optional <-- SumTypes
    ByteSource    <--implements--  Bodies        <--  MCBodies, Bodies_proofs
                            Body <-- StaticFile, CodecStream <-- Bodies
                                   Application   <--  MCApplication, Application_proofs
              Scopes, Messages <-- Handling <-- Application
                                   Router        <--  MCRouter, Router_proofs
                                         PathParser <-- MCRouter, Router_proofs
                                   AsyncLogger   <--  MCAsyncLogger, AsyncLogger_proofs
                                   Texts         <--  MCCore
     PathParser, MediaType, Base64 <-- Texts
                       FoldLemmas <-- Bodies_proofs, Application_proofs, Router_proofs

Definitions named in comments "Mutant of" are what the code would do with a
plausible mistake in it. No specification uses them; substituted for the
original, each makes the property fail that it is listed with.

### HttpSession

One connection: the coroutine, its client, and time. The bytes a client sends
are units, the head of a request or a piece of a body; the session's
`flat_buffer` and the socket's receive buffer are one sequence `wire`, because
a new parser goes on where the last one stopped in either. A request is a
*shape*: what the parser makes of its head (ok, over the limit, malformed), the
fields the session looks at, what routing makes of its target, how many pieces
its body has and whether the last of them spoils it. A response is a kind of
body, the stream it comes from (memory, or the request's own body), its length
and how that stream ends. `pc` names the `co_await` the coroutine is suspended
at; each action runs from one to the next.

| Variable | Code |
|---|---|
| `pc`, `taken`, `cur`, `res` | position in `do_session_impl`, its iterations, `keep_alive`/`upgrade`/`req`, the `response` |
| `left`, `body`, `got` | the parser's remaining body, the state of `async_message_parser_stream`, what it delivered |
| `timer` | `expires_after`/`expires_never` of the stream: the deadline may have come ("expired") before an operation notices ("fired"), and an operation whose completion is already there still succeeds |
| `callback` | `websocket::impl_type::callback_` |
| `out`, `skipped` | history: what was written, and requests left with unread bytes |

Every operation may fail once the client is gone or the deadline has come; one
that writes may have written a part of its unit ("torn"). If a handler leaves a
body unread, the next iteration parses it as a head: `ReadStrayHead` and
`ReadHeadFails` are what may come of it. `HttpExchange` is what a session
promises: one request at a time, at most one answer each, nothing after the
end. `HttpSession` implements it with `replied` as the number of units written
that end a message.

A piece of a streamed body may have no bytes, and `async_write_chunks` writes it
as `0 CRLF CRLF`, which is a last chunk: for the client the message ends there,
for the session it does not (`WriteChunk`, the unit "empty"). `AnswersEndOnce`
says that a message ends once; it is violated. `Framing` says it, and
`ExchangeSpec` the rest of `HttpExchange`, of what is written up to the first such
unit (`Solid`); the other parts of `Framing`, which are about where the session
takes an answer for ended, hold without that condition.

`SessionEnds` has one exception, `AwaitsNotify`: an upgrade request turns the
timer off, and if it also closes, the shutdown of a TLS stream awaits the peer's
close_notify without a deadline. The liveness run has that request.

### Router

| Variable | Code |
|---|---|
| `tree` | the nodes behind `router::root_`, in the order they were made: a child is named by its place |
| `accepted` | history: the routes that were served and not rejected, in order |
| `built` | the builder has called `optimize` |

`TryInsert` and `TryInsertStatic` follow the functions of `router.hpp` branch by
branch. A function that ends in a call of the other is a step from one call to the
next (`Insert`, `InsertStatic`), and serving a route is all of these steps
(`Calls`); `Finds` is the search from every node and every place in the path.
`Optimized` weighs every node by the routes below it. Names of parameters are
left out, and characters are strings of one letter; the routes of `MCRouter` are
written as patterns and read by `PathParser`. `Best` is the
reference: of the routes that cover a path, one whose next static text goes
furthest, then a parameter, then a wildcard, decided at the first place they
differ; a wildcard below a static text beats a parameter behind a shorter one.
`Match` is the matcher's regular expression, in which the static texts stand
unescaped.

The properties have preconditions where the code does not keep what one might
expect. `FindIsRight` says that what is found covers the path in every tree, and
that it is the best of the routes in a tree in which no static child's text
starts that of a sibling (`Disjoint`). `ShortFirstIsDisjoint` says which programs
have such trees: those in which no route ends a text within the text of a route
served before. With `/aa`, `/ab` and then `/a` served the third splits only the
first sibling, and `/ab` is not found any more.
`MatcherAgrees` leaves out texts with characters that mean something in a
regular expression: `/a+` is found by the router and refused by the matcher.

### DynamicBuffer

The container is a sequence in which the n-th byte written is the number n and
bytes nobody wrote are 0, so stale, repeated and missing bytes are told apart.
`region` is the size that `prepare` returned; the caller writes the first bytes
of it and commits them in one action. When the bytes have to be moved, `prepare` does
not make the container larger (`dynamic_buffer.hpp:134`, `PrepareMoving`), so
that a region may end behind it, and what is written there is not committed;
`CommitIsLossless` is of callers that stay within the limit. `ByteQueue` is the
promise: bytes are put in at one end, all of them, taken out at the other, and
handed over at the end. A commit that reaches beyond the container (`Overrun`)
breaks it, and `QueueSpec` says that nothing else does.

### AsyncLogger

One logger from construction to destruction. `spawned` are the coroutines that
`log` has started and that have not run: any thread of the system executor may
run any of them. `buffer` and `sending` are the channel (Boost.Asio's
`concurrent_channel`, modelled from how it is used), `consumer`, `hand`, `turn`
and `upto` the coroutine `async_dequeue_and_write` with the range-for over
`writers_` it is suspended in. Writers are attached at any time; `audience`
remembers how many there were when a record was logged, and the record is owed
to those. Where the code's behaviour is undefined — the
loop goes on over a vector that has grown, or a coroutine runs after the logger
is gone — the model chooses between going on and the state "undefined", in
which nothing more is said. The order in which the records of one thread are
written is the order in which their coroutines ran, not the order of the calls.

### SumTypes

`TaggedUnion` is the storage of the four templates, and what `destroy_at`,
`construct_at` and an assignment may come to in it. `Expected`,
`ExpectedVoid`, `ExpectedRef` and `Optional` each add the member functions of
one template; `SumTypes` picks a template (`form`) and lets a program make,
assign, exchange, read out and end objects of it in any order.

| Variable | Code |
|---|---|
| `form` | which of `expected<T, E>`, `<void, E>`, `<T&, E>`, `optional<T>` |
| `safe` | the constructors of `T` and `E` that are `noexcept`, by copy, move or conversion: what `if constexpr` and `requires` ask; every choice is an initial state |
| `made` | the objects whose constructor has returned and whose destructor has not run |
| `obj[s].has`, `.live`, `.data` | `has_`, the member of the union that is alive, its content |
| `obj[s].fault` | history: a member was destroyed, assigned or constructed when it must not be |
| `call` | history: the last member function, its object, the side it was to be on, whether it threw |

A member function is one action whatever happens within: an operator such as
`Reinit` or `Traded` gives the set of its outcomes, thrown or not, and `Commit`
and its like write one of them. What was moved from, or half assigned, holds
`Unspecified`. A pointer needs no destructor, so in `expected<T&, E>` writing
over it is no fault, and what becomes of the pointer when an error's
constructor throws in its place is a choice. `SumType` is what a caller relies
on: objects on one side, with one content; a call makes, replaces, exchanges or
ends, and one that throws changes no side, except that an optional's `emplace`
may leave it empty. References are left out of it: an `expected<T&, E>` that
refers to something and is assigned an error (`expected.hpp:1859`) clears its
flag and constructs no error, so that a later look at it finds what is left of
the pointer. `PointerIsValid` is what holds of references nevertheless, with
errors whose constructors do not throw.

### Bodies

What a body is read from, and the loop that reads it. `Body` is that loop
(`async_read_until_eof`, `async_write_chunks`, `async_read_into_stream_file` all
ask for the next piece until there is none or one failed), `StaticFile` and
`CodecStream` are two sources it reads from, `Bodies` puts either before it.
`ByteSource` is the promise of both: pieces come in order, and the end is told
after the last byte, unless the source was cut.

| Variable | Code |
|---|---|
| `whole`, `got`, `hollow`, `verdict`, `cut` | history: what the source stands for, what its reader has, whether a piece was empty, how it ended, whether the source lost something |
| `inodes`, `path` | the file system: the files that have been at a path, and which one is there now |
| `known`, `asks` | the client's copy, and the If-None-Match, If-Modified-Since and Range it sends |
| `handle`, `lmd`, `etag`, `state`, `step` | `static_file`'s members, and where `open`, `to_response` or the reader is suspended |
| `stream` | `async_readable_file_stream`: `offset_`, `remaining_`, the position of the file |
| `seen` | history: the files, each in one state of it, that were asked for their size or time for the response |
| `coding`, `rest`, `codec`, `readable`, `filled` | the kind of the stream and its compressed data, what the next layer still has, the library's state and `finish_`, the piece in hand, the output buffer |

In `StaticFile` others replace, rewrite or remove the file between any two steps
of the server: size, time and bytes are asked for at different moments, the time
by the path and the rest by the handle, the size anew each time it is needed (a range
is read for one size, `ParseRange`, and compared with another, `CheckRange`). A
response may therefore tell of a file that never was. `ResponseIsOfOneFile` says what
a response tells of its file, its tag, its time, its length and whether the client's
copy is that file, if all that was asked for was found in one state of one file
(`seen`). Numbers are unsigned with `W` values,
and the wrap-around of `2^64` happens. In `CodecStream` zlib and brotli are
machines that may put out any part of what they hold; what the code makes of
their answers (`end_of_stream`, `need_buffers`) is the model. Two things the code does
are told by history instead of by a property: an encoder whose output fills the
buffer exactly leaves input behind (`Missing` sets `cut`), and a decoder whose data
ends before its piece does turns for ever (`Stuck`).

### Application

A program and a request. `Scopes` is how routes, scopes and the server are put
together, `Messages` the requests, responses and their builders, `Handling` the
way of one request through middlewares and extractors to the handler and back;
`Application` lets a program do the first in any order and then sends requests.

| Variable | Code |
|---|---|
| `heap` | the `state_map`s behind the `shared_ptr`s of `state_storage` |
| `routes`, `scopes` | the program's variables of type `route` and `scope`: the maps they refer to, their middlewares, what is served in them |
| `server` | the routes in the builder's router |
| `said`, `home` | history: how often a state was bound in a place, the places a route went through |
| `serving`, `sent`, `req`, `at` | the route found, the request as sent and as it is now, the middleware it is in |
| `args`, `ws`, `outcome` | arguments extracted so far, the response `websocket::build_response` made, what comes back |
| `plan` | bound: how much of all this a behaviour has |

A middleware is entered and left in two actions, so that an exception, an early
answer or a changed request passes through those around it. What has been moved
from is a value of its own (`MovedFrom`, `Gone`), which is how the builders of
`request.hpp` that build twice show. `Nearest` says which state a route should see:
what was last bound at the nearest place around it, where a scope without any
state when it served the route does not count, since `rebind_parent` leaves its
empty map out (`route.hpp:91`).

### Texts

Three parsers as machines that take a character at a time: `PathParser` (the
grammar of patterns), `Base64` (decoder and encoder), and `MediaType`
(`mime_view::parse`, which splits the whole text). In `Texts` a text grows by a
piece at a time; each is compared with a definition that does not read from left
to right: segments and names for patterns (`IsPattern`), marks and parts for
media types (`IsMediaType`), bits for Base64. `IsMediaType` takes one suffix at most
and any number of parameters, as the code does. Where a machine gives up the text
stops growing, so that every text that is good so far is visited, and every
first character that spoils one. `MCCore` checks `SumTypes` and `Texts` in one run:
a behaviour is about the objects or about a text.

## Runs

| Run | Shows | Instance |
|---|---|---|
| `session_safety` | framing, order, message boundaries, body integrity, close, deadlines, 100 (Continue) before the handler, refinement of `HttpExchange` (up to the first empty piece) | two requests of eleven shapes, seven responses, pieces with bytes or without, plain, with a timeout: 3,684,424 states |
| `session_liveness` | sessions end or await a close_notify, sound answers are completed | two requests of five shapes, two responses, TLS: 14,654 states |
| `session_callback` | *violated*: a WebSocket without a callback is run | three shapes |
| `session_empty` | *violated*: an answer ends once on the wire | two shapes, two responses |
| `router_tree` | search is sound and best, disjoint siblings, matcher agrees, duplicates | four of ten routes, all paths of up to one character, those of up to four that start with `/`, and three special ones: 11,866 states |
| `buffer_queue` | offsets, written bytes only, no loss within the limit, refinement of `ByteQueue` (but for `Overrun`) | limits 0, 3, 4, containers of 1 and 2 bytes, 9 bytes: 26,218 states |
| `logger_deliver` | order, agreement of writers, no loss, delivery, end of the destructor | three records at three levels, two writers attached at any time, one may throw, a buffer of one: 145,254 states |
| `core_values` | flag and member agree, none twice, pointers valid, assignments all or nothing, refinement of `SumType`; patterns, media types and Base64 against their grammars | two objects of each template, two values, one error, every choice of throwing constructors; up to seven characters of seven or four of ten, from nothing and from a text with a parameter, a name, a type and subtype, or a full group: 456,883 states |
| `bodies_read` | responses tell of one file, decoders fail for a cause, no empty chunk of a file, bodies end, refinement of `ByteSource` | files of 0 and 3 bytes read two at a time, two changes at two times, 15 ranges, 25 conditions; six compressed texts for two decoders, two encoders, buffers of two: 729,924 states |
| `bodies_range` | *violated*: a range answered 206 lies in the file | the same |
| `app_requests` | nearest state, middlewares as nested, codings told, arguments as meant | a route, two nested scopes, two types of states, seven plans: 470,020 states |
| `app_rewrite` | *violated*: a text set as a request's body becomes its body | the same |

**Bounds.** Two requests are enough for what one iteration can leave to the
next, since the loop carries only the buffer, the timer and the stream over; two
pieces make the first and the last of a body differ. The theorems about the
session have no bound. Four routes make a node that is split twice, or split
and shared; the ten patterns contain every pair of kinds of token that
compete for a segment. The buffer's bounds let `prepare` take each of its three
ways with bytes before and behind the offsets and fill the limit twice, and the
theorems about it have no bound. Three records fill the
logger's hand, its buffer and its queue of senders at once.
A call touches two objects at most, and two values and an error tell apart what
was there, what comes in and what moved-from means; the theorems about
`SumTypes` have no bound either. A file of three bytes read two at a time has a
full piece, a short one and an end; two changes make one between any two of
open, time, size and read, and another; `W` = 16 lets an offset, a length and
their sum each wrap. Buffers of two are filled exactly, overfilled and left
short by the texts. The plans of `Application` trade against each other: programs in every order with a
plain request; one route with chains of up to three middlewares and every coding; every pair
of arguments with every kind of body. A behaviour has one request, since nothing of a request stays
in the server. Seven characters hold two names, a wildcard and an escape that is cut
short, and two groups of Base64 less one; four characters behind a type and a subtype
hold a suffix and a second one, which is refused; the longer beginnings reach
duplicates and second parameters.

**Fairness.** `session_liveness` assumes that the executor resumes a coroutine
whose operation can complete, that user code returns, and that time passes;
nothing of the client. It is what `io_context::run` and the timer of
`beast::basic_stream` give. `logger_deliver` assumes that the system executor
runs each ready coroutine, that writes end (or throw), and that a destructor
whose wait is over, or whose 30 s are, goes on. `bodies_read` assumes that the
coroutine that opens and reads a body is resumed; nobody has to change a file,
and no read has to fail.

**Violated runs** show disagreements between the code and its documents,
tests or assertions (`findings` in PROJECT.json): a callback that was never
set is called for an unrouted upgrade; a range beyond the end of the file
wraps around 2^64 and is answered 206 with no bytes; a request whose body is set
to a text loses its headers, parameters, states and stream; a response streamed
with a piece without bytes ends twice.

**Exceptions.** Four more of the `findings` are where a passing property names a case
and says nothing of it, because the code does not do there what is written about it:

| Property | Says nothing of | Because |
|---|---|---|
| `QueueSpec` | a commit that overruns the container (`core/dynamic_buffer.hpp:150`) | what is written behind its end is dropped, and "commit" is to convert writable bytes into readable ones; `test/core/test_dynamic_buffer.cpp:67-75` makes such calls and looks at nothing |
| `ResponseIsOfOneFile` | a response for which several files were seen (`web/static_file.hpp:180`) | one file replaced by another of its size while it is opened is sent under the strong tag of that other, and confirmed by 304 from then on |
| `ArgumentsAreMeant` | the value of a name that `query_map::set` met twice (`web/query_map.hpp:125`) | the first one stays, and "set" is to update it |
| `MediaTypesAreParsed` | the grammar in the comment (`mime/mime_view.hpp:171`): it takes the code's | any number of suffixes and one parameter there, one suffix and any number of parameters in the code |

## Proofs

| Theorem | Of | Argument |
|---|---|---|
| `HttpSession_proofs!TypeCorrect` | `TypeOK` | `TypeOK` is not inductive: that a unit can be looked up needs `WireOK`, that a piece can be subtracted `BodyOK` and `TodoOK`. `Shaped` is their conjunction; `ShapedStep` has a step for each action |
| `HttpSession_proofs!ImplementsExchange` | `ExchangeSpec` | `Pending`: between requests all are answered, within one all but that one. `PendingStep` maps each action to `Take`, `Reply`, `Close` or a stutter; counting final units rests on finiteness of their set. While no piece was without bytes the messages end at the final units (`SolidCounts`) |
| `HttpSession_proofs!FramingHolds` | `Framing` | `Framed` says what the last unit is at each await: the end of an earlier answer, the 100 (Continue) of this one, or a part of it that more must follow. `AppendFollows` extends the chain by a unit. With no piece without bytes (`SolidCounts`), two ends of one turn are then the same unit |
| `HttpSession_proofs!CloseLast` | `CloseIsLast` | `Closes` remembers, while a WebSocket runs, that its 101 said what the request did: nothing else is written before the connection is closed on its word |
| `HttpSession_proofs!DeadlineHolds` | `DeadlineCovers` | `Timed` separates the handlers of an upgrade, which run without a deadline and have no body to read, from all others |
| `HttpSession_proofs!OrderHolds`, `BodyHolds` | `InOrder`, `BodyIntegrity` | `Good`: the wire with the unit to come is consecutive (`Consecutive`), what was read and what is left make up the body (`Held`), and the front of the wire is the unit the session has to read next (`Ordered`, as long as nothing is skipped). Pieces of a body and frames after an upgrade, which only the last request can be, extend what was read (`ReadGood`, `FrameGood`); a next iteration finds the next head (`NextGood`) |
| `Router_proofs!SiblingsDisjoint` | `ShortFirstIsDisjoint` | `TreeInv` gives every node a label, the symbols that lead to it: the nodes are a tree (`IsTree`), each route is where its pattern leads (`Holds`), every node is on the way to one (`Labelled`), and there is a node where a text of one ends (`HasCuts`). All of it holds between any two calls of an insertion, of a label that grows towards the route's (`Going`) until the call that ends it (`Done`); `Room` bounds their number, and `optimize` only `Reorders` |
| `Router_proofs!DuplicatesRejected` | `RejectsDuplicates` | from `Done`: with disjoint siblings a pattern leads to one node only, so that an insertion ends where an equal one is |
| `Router_proofs!FindsTheBest` | `FindIsRight` | what is found from a node is right (`RightFrom`) if what is found from its children is: by induction on the length of the label, the longest first. Of the routes that cover the path, those below a static child go before those below the parameter, and these before the wildcard's (`Ordered`, `Winner`); below only one static child are there any at all (`Disjoint`). That the winner is the only best one rests on `Earlier` being asymmetric and on a route being at one node only (`HeldOnce`) |
| `Router_proofs!FoundIsMatched` | `MatcherAgrees` | a route that is found covers the path (`FindsTheBest`), and where it is after each of its tokens (`Place`) is among the places the regular expression may be at (`MatchFolds`) |
| `Router_proofs!PatternsMakeRoutes` | - | `ParserGoes`: each character is behind what is written of the tokens so far and of the one in hand (`TextOf`), and the tokens stay a `Line` to which the next `Suits`, unless the parser gives up |
| `DynamicBuffer_proofs!TypeCorrect` | `TypeOK` | `Inv` adds what lies between the offsets (`Written`) and how much room there is (`Room`) |
| `DynamicBuffer_proofs!OnlyWrittenShows` | `OnlyWritten` | from `Written`, which speaks of the container, by the shift of `Readable` |
| `DynamicBuffer_proofs!Lossless` | `CommitIsLossless` | `Room`: a region beyond the container was asked for beyond the limit |
| `DynamicBuffer_proofs!ImplementsQueue` | `QueueSpec` | `prepare` leaves `Readable` as it is although it moves the bytes, `commit` is `Put` unless it overruns, `consume` is `Get`, `release` is `HandOver` |
| `SumTypes_proofs!TypeCorrect`, `FlagAndMember` | `TypeOK`, `MemberIsSound` | `Sound` is the types, that the flag tells the member, that none is there twice, and that nothing is held where no member is alive (`NothingHeld`), without which a swap with an empty object would not be an exchange, nor a destroyed object blank |
| `SumTypes_proofs!AssignmentRollsBack` | `AllOrNothing` | every outcome of an operation on a union `Fit`s: it is whole, and a thrown one is on its old side; `ReinitFits` and `PutBack` show that the old member comes back |
| `SumTypes_proofs!ImplementsSum` | `SumSpec` | committing what fits is `Put`, `Exchange`, `Fail` or `FailEmpty` (`CommitGood`, `CreateGood`, `PairGood`, `GiveUpGood` and the like), one lemma for each template |
| `SumTypes_proofs!PointersAreValid` | `PointerIsValid` | `PointerIsValid` is inductive together with `Sound`; only the reference form is spoken of, and its actions leave a pointer wherever the flag is set (`PointsStep`) |
| `AsyncLogger_proofs!LoggerTypes`, `LoggerDelivers` | `TypeOK`, `RecordsArrive` | `LoggerInv` lines up the places a record can be in: what is written was sent before the record in hand (`WrittenInOrder`), that one before all in the channel (`HandInOrder`), whose buffer and waiting senders are one queue in the order of sending (`QueueInOrder`); within the loop the writers before the turn have the record and those from it on do not (`TurnInOrder`) |
| `Bodies_proofs!BodiesTypes` | `TypeOK` | `FileInv` and `CodecInv`: a body has one source, and nothing is read before there is a response (`BeforeReading`) |
| `Bodies_proofs!ResponsesAreOfOneFile` | `ResponseIsOfOneFile` | `SeenIsTold` says it of every step from the one at which the tag is made: if no other file is seen at the next look, the one seen before was this one (`OneWithTheNext`), and what was told of it stays so (`StillTells`, `TellingStays`) |
| `Bodies_proofs!FilesFillTheirChunks` | `FileFillsItsChunks` | a read in front of bytes gives at least one (`RegionSplit`) |
| `Bodies_proofs!DecodersFailForCause` | `DecodingFailsForCause` | between two pieces nothing is pending, unless the buffer was filled (`DecoderIsAhead`), so the library asks for more in front of nothing only then |
| `Bodies_proofs!SourcesServe` | `SourceSpec` | what is still to come is written down for each source (`FileIsAhead`, `DecoderIsAhead`, `EncoderIsAhead`): `whole` is what was got, what is held, and what the rest stands for. Each action is then `Piece`, `End`, `Fail`, `Cut` or a stutter of `ByteSource` |
| `Application_proofs!StatesAreNearest` | `NearestState` | `ScopesInv` says of every route kept in a scope or the server that its maps are those of the places it went through that had a state then, in their order (`Threaded`); of maps, that no two places share one (`MapsAreOwn`) and that each has what was last bound in its place (`MapsSay`). The least map with a type is then that of the nearest place (`FindsNearest`) |
| `Application_proofs!OnionsHold` | `OnionOrder` | `Layered`, of every route kept anywhere: its middlewares are those its places had, by how many there were (`used`). What is mounted later goes behind them (`LayersStay`); `rebind_parent` adds the outermost layer (`PutInside`) |
| `Application_proofs!ApplicationTypes` | `TypeOK` | `ScopesInv` has the types of what the program builds; of a request, `HandlingTypes`: what it is made of, that arguments are extracted at the end of the chain only, and that an outcome is none, a response the code names, or an exception |
| `Application_proofs!EncodingIsTold` | `EncodingTold` | `Told` keeps the header, the codings and the data of the body together until a middleware replaces it: `decompress` takes off one coding after the other (`TakenFolds`), the last named first, and what is left is what the rest of the line names (`CodingsNext`) |
| `Application_proofs!ArgumentsHold` | `ArgumentsAreMeant` | it speaks of the whole chain, a step of one middleware: so `Told`, and behind the last middleware that puts a body there `BodyStays`, and `PartsStay` of the path, the query and the states, say what the request is behind each; at its end they are what the property means (`BodyMeant`). Parameters are found where the fold over the query put them (`QueryFolds` and `OfAIs`), the states by `NearestHolds` |

`FoldLemmas` says what the community modules' `FlattenSeq` and `FoldLeft` return
for every sequence, the latter as the sequence of what was folded after each member
(`FoldExists`), and that there is a function that is, at every argument, what its
definition says of arguments of a smaller rank (`RecursionExists`: the search and
the weights of a tree). All of them are recursive functions, and their lemmas are
inductions on a length or a rank: over a set of numbers (`SetInduction`), since the
theorem of induction over a predicate cannot be instantiated.

The theorems assume what the modules assume of their constants, and no more:
shapes and responses have the fields the code looks at, limits and containers fit
`max_size`, values and errors are told apart (`ConstantsAssumption`,
`ContentsAssumption`); files are not longer than the largest signed number and a
range is one the parser lets through (`FilesAssumption`: what
`file_size` and `seek` can say); an output buffer has room for a byte and
compressed data is a sequence of symbols (`CodingsAssumption`); a program's
variables are told apart, and its scopes are finitely many
(`PlacesAssumption`); the states a program binds are of its types, what a client
sends has the header fields and lists of parameters the code looks at, and a
handler returns what `to_response` takes, with a status there is
(`PlansAssumption`); a type of state is none of the library's own arguments,
and a body of no bytes is neither a form with fields nor JSON
(`ArgumentsAssumption`); no character is the name of a kind of token, a route's
tokens are as the parser of patterns emits them (which `PatternsMakeRoutes` proves
of every pattern), and a path is a sequence of characters (`RoutesAssumption`);
the characters that a name may have are not those that mark one
(`PatternAssumption`).

Only model-checked: every liveness property, and the three properties of `Texts`,
that patterns, media types and Base64 are read as their grammars say. Of the
parser of patterns it is proved what its tokens are for every pattern it takes,
and not that it takes all that `IsPattern` describes and no other. Every other
invariant and action property that a passing run checks is proved, and so
are the refinements.

## Plan

1. The WebSocket's close handshake, its time-outs, and the writes of a callback.
2. `optional<T&>`, `optional<void>`, and the conversions between `expected`s.
3. The registry's default logger against the threads that use it.
4. `serve_request`, several connections on one server.

Theorems worth proving next: the properties of `Texts`, each an induction on the
text, beginning with patterns, for which `ParserReads` has what was read so far.

## Not modelled

Listening sockets and `bind*` (an accept loop without state), parsing of HTTP
(Boost.Beast; its outcomes are inputs of the session), the bytes of any
message, formatting of log records and files, tables of media types, statuses,
methods and fields, the conversions of `from_string`, compile-time
machinery (`type_traits`, `tag_invoke`, `fixed_string`), the test support that
builds messages, and data races within
the libraries used. A session is modelled on one thread: its steps are atomic
from one `co_await` to the next.
