# cpp-http in TLA+

`cpp-http` is a small HTTP server and client library: C++ classes (`Server`,
`Request`, `Response`, `Router`) over libuv and the http_parser that is bundled
with it. This directory holds TLA+ models of it, translated from the source, the
TLC configurations that check them and TLAPS proofs about them. Line numbers
below are those of the files under `src/`.

## The system

| Component | State it keeps | Operations | Hard part |
|---|---|---|---|
| incoming connections (`server-in.cpp`) | one heap `Connection` per accepted peer: tcp handle, a **union** of connect/write/shutdown requests, `Request`, `Response`, response buffer | `in_onConnect`, `in_onRead`, `in_onWrite`, `in_onShutdown`, `in_onClose`, the destructor | reads, end of stream, write and shutdown completions in any order; two callbacks that both close; an uninitialised buffer |
| outgoing connections (`server-out.cpp`) | one heap `Connection` per request: handle, the same union, request buffer, callback | `makeRequest`, `out_onConnect`, `out_onWrite`, `out_onRead`, `out_onShutdown`, `out_onClose` | the answer may come before the write completes or in several reads; three places free the buffer; five calls may fail |
| request and response objects (`request.cpp`, `response.cpp`, `message.cpp`) | method, URL, headers, body | `parse`, `end`, `clear`, header access | a new parser per read buffer over an object that is never reset; a header table that keeps the first value; a body that goes through two conversions |
| server loop (`server.cpp`) | `loop`, listening handle, atomic `running` | `listen`, `reuseSocket`, `run`, `close`, the async callback, the destructor | `close()` runs on any thread, unlocked, against `run()`; the async handle is freed while the loop links to it |
| DNS lookups (`server.cpp` 127-158) | one `DNSLookup` per name | `makeDNSLookup`, `onAddress` | a failed lookup is dropped; a lookup's callback makes requests |
| router (`router.cpp`) | a tree of `Route`s, two fallback callbacks | `on`, `notFound`, `error`, `operator()`; copied by `onHttpRequest` | splitting URLs at the edges; copies that share all but the root; exceptions |
| HTTP parser (`http-parser/`) | state, flags, counters of one message | `http_parser_execute` and its callbacks, `http_parser_parse_url`, `http_parser_pause` | message framing, chunk sizes, lengths near 2^64, keep-alive and upgrade |
| addresses, methods, statuses, strings | tables and conversions | | no state |

How they interact. Everything that happens to the connections of one `Server`
happens in libuv callbacks on the thread that called `run()`, one at a time:
between two callbacks libuv may hold pointers into the `Connection` objects (its
requests, the data of a write, the handle), and everything that matters is
whether these are still good when libuv follows them. `in_onRead` calls
`Request::parse`, then the program's handler (perhaps a `Router`), then
`Response::end`, and gives the buffer to `uv_write`. Only `close()` crosses
threads: it reads `running` and puts an async handle into the loop of another
thread.

What makes each component correct: a connection object is freed once, after
libuv is through with it, with its buffer; the handler is called while the
connection is open and not afterwards; what is sent is the answer to a request,
with the length of its body; a connection that was answered or whose peer left is
released, and none is forgotten. A server's `run()` returns when, and only when,
it was closed, a client's when nothing is left to do. A message arrives as its
sender composed it. The router finds what was registered. The parser takes exactly
the bytes of a message, and recognises every method whole.

## Modules

| Module | Models | Composes |
|---|---|---|
| `UvStream` | what the code relies on of a libuv stream (external): pure operators on the state of a handle and the request union | |
| `RequestParse` | `Request::parse` of one buffer, as parts | |
| `InConnection` | `server-in.cpp` | `UvStream`, `RequestParse`; implements `ConnectionObject` |
| `OutConnection` | `server-out.cpp` | `UvStream`; implements `ConnectionObject` |
| `ConnectionObject` | the abstract life of a connection object | |
| `Client` | a client program: `makeDNSLookup`, `onAddress`, `makeRequest` and `run` on one loop | `OutConnection` |
| `Message` | `message.cpp`; `clear`, `end` and `parse` of whole messages, from the program that composes one to the program that receives it | |
| `ServerLoop` | `server.cpp` without lookups, with `~Server` | |
| `Router` | `router.cpp`, and the copy `Server::onHttpRequest` makes | |
| `HttpHeader` | `http_parser.c`: header names and values, the digits of lengths; pure operators on the parser's struct | |
| `HttpStartLine` | `http_parser.c`: methods by their letters, `parse_url_char`, where a URL may end | `HttpHeader` |
| `HttpParser` | `http_parser_execute`: start lines, framing of messages, bodies and chunks; `http_should_keep_alive`, `http_message_needs_eof`, `http_parser_init`, `http_parser_pause` | `HttpStartLine` |
| `MCInConnection`, `MCServerLoop`, `MCRouter` | the small instances TLC checks | |
| `UvStreamProofs`, `InConnectionProofs`, `ClientProofs` (with those of `OutConnection`), `ServerLoopProofs`, `MessageProofs`, `HttpParserProofs`, `HttpDeliveryProofs`, `RouterProofs` | theorems | |

Definitions named `X_Something` are variants of `X` with a plausible bug. No
specification uses them: each property is checked to fail when its variant takes
the place of `X`.

### State and actions against the code

**UvStream.** A `Stream` record stands for one `uv_tcp_t` and the anonymous union
of a `Connection`: `pending` are the requests libuv holds a pointer to, `torn`
says that one of them was overwritten (by the `memset` before each use, or by the
next request: the three request types share the union's memory). `Shutdown` is
refused, before libuv touches the request, unless the write side is up; `CanClose`
is the assertion in `uv_close`; the write queue is drained before a shutdown
completes and all requests before the close callback.

**RequestParse.** Peers send sequences of *parts*: a request line, the header
block with its blank line, a body, or junk. A read delivers any run of parts, so
requests are cut between parts and may share a buffer, but a part is not cut: a
cut inside a part behaves like one of the cuts around it, except that a cut
inside a URL or a header passes on a truncated value. A buffer is parsed from
`s_start_req`, whatever came before (`request.cpp` 91); the `Request` is the
connection's and keeps what earlier buffers left in it. What a handler can tell
about a `Request` is recorded as the request on the wire each field came from.

**InConnection.** One action per callback; `Rejects`, `Serves`, `Throws`,
`ReadsEof`, `ReadsError` are the branches of `in_onRead`. A handler is any code
that writes 0 to `MaxBody` bytes or throws; if none was set, calling the empty
`std::function` throws as well. `base` is what `conn->buffer.base` points to:
the constructor leaves it `wild` or, by luck, null. Not modelled: `uv_write`
refusing at once, `status # 0` in `in_onConnect` (it only logs), and headers the
handler adds. What libuv makes of an overwritten write is read off its queues:
used for a second write (`server-in.cpp` 87-90) the request is whole again but
linked twice, so that it is sent and called back, stays linked, and is called back
again or keeps the loop from ever leaving the queue; overwritten by a shutdown
(line 99) its callback and links are gone. `crash` also stands for such a loop.

**OutConnection.** As above. The answer is a number of reads each of which
parses or not. `Failures` says which libuv calls may fail.

**Client.** The thread is in the program (`main`, the callback of a lookup or the
response callback) or in `uv_run` (`at`). In the program any lookup or request may
be asked for; in the loop one libuv callback runs at a time: those of
`OutConnection`, or `onAddress`. A response callback that makes a request does so
inside `out_onRead`, before the shutdown of its own connection; as it touches only
other connections, the model lets it run after the rest of `out_onRead`.
`Alive` is `uv_loop_alive`: requests not called back, handles that read, handles
that close. `close()` and `listen()` are `ServerLoop`'s and a client calls neither.

**Message.** `box` is what a program composes, `wire` the rendered bytes, `got` the
object of the program at the other end, which uses this library too. A header's key
is a name and whether it is spelled in lower case, as the table tells spellings
apart and `parse` lowers them; a value is a number, as only those of
Content-Length matter. `Converted` is the way of a body through `fromUTF8` and
ICU's `operator <<`, whose converter is UTF-8 or another one (`utf8`): what is no UTF-8
becomes U+FFFD (`r1`, `r2`, `r3`), one for a character that is cut off, so that a U+FFFD
that was cut is whole again. Of a body with more bytes than its length says the rest is
taken for another message, which does not start with a byte outside ASCII. What the
hash table's order decides is a choice. `Forward` is a program that sends on what it
received; the router's error page is `Clear` after `AddHeader` and `Write`.
URLs, methods and header values are ASCII; headers that change the framing are
`HttpParser`'s subject.

**ServerLoop.** `run`'s thread is in one of four `phase`s; `close()` is split at
every access to shared state (`call[t].at`), as any thread may be in it. A data
race on the loop's queues has the outcomes a build can produce: nothing, a lost
handle, or corruption. The flag's memory is uninitialised at first. Each server is
run once; connections and lookups, which can keep a loop going, are left out,
which is why leaving the loop when nothing is alive is not assumed to be fair.
`Destroy` and `FinishDestroy` are `~Server`, around a `close()` of its own; a program
destroys no server that a thread is using. `FreedLink` marks where libuv follows a
link to the async handle that line 122 freed. `reuseSocket` of a server that never
listened reads uninitialised memory (line 81): it fails, or shares whatever number
it finds.

**Router.** `mem` is the heap of `Route`s. A `Router` has the address of its root
and its two fallback callbacks; `onHttpRequest` copies the root and shares the
rest. `URLIterator` is modelled with its positions. Callbacks are named by the
call of `on()` that registered them.

**HttpHeader, HttpStartLine, HttpParser.** `p` is the struct, the other variables are the locals
of `http_parser_execute` (`left`, `ch`, `mark`) and what its caller has to keep
(`unread`). There is one action per state of the parser, or per pair of states that
requests and responses have alike; where the code says `REEXECUTE` the token stays.
A token is a letter of a method, a character of a URL (one for each class that
`parse_url_char` tells apart), a digit, `TTP/`, a header name with its colon, a word
of a header's value, or a single character. So methods are guessed and corrected
letter by letter and URLs read character by character, while the matching of header
words (`index`, the `h_matching_...` states inside a word) is left out. `Offered`
limits the tokens that come in a state to those worth telling apart there; `Junk`
is any other character. As
a token may be any number of bytes, `HEADER_OVERFLOW` can come with every token
after the first of a header; `nread` tells 0, 1 and more apart, as the code does.
The widths are scaled: `MaxLength` stands for `ULLONG_MAX`. Callbacks that report
header data return 0; the others may pause the parser or fail, and
`on_headers_complete` may also say that there is no body or that the protocol
changes. The library's own callbacks do none of this: these are promises of the
parser to any caller, who in turn gives the unconsumed byte again. The build is
the default one, `HTTP_PARSER_STRICT` (`http_parser.h` 51). `due`, `word`,
`exact`, `phase`, `event` and `kept` are not in the code: they record what was announced,
read and reported; `event` is what the last step reported, so that a repetition shows.
In a value that does not matter (`h_general`) the code checks the first byte of a run
and skips the rest, so that `Junk` fails there or does not. A character that cuts a word
of `Connection` short (`part`) is swallowed, a comma too, as the code takes it for the
mismatch. `Assertions` are the assertions of `http_parser_execute` about flags, lengths,
`nread` and `errno`. Left out are the three that a `switch` has a case for its state
(1335, 1492, 1993), and that at most one mark is set at the end of a buffer (2009-2013),
for the model has one `mark`.

## What is checked

| Run | Bounds | Shows |
|---|---|---|
| `in_connection` | 1 connection; scripts: nothing, GET, POST, GET with junk, two requests (pipelined, with and without keep-alive); 3 peer endings; body of 0 or 1 byte; empty reads until 2 handler calls | type; `DeletedIsQuiet`, `ClosedOnce`, `WriteDataAlive`, `ResponseFramed`, `ResponseFreed`, `NoCallAfterEnd`, `FirstRequestFaithful`; every answered connection, and every connection whose peer closed its side, is released or the process is gone; `NeverForgotten`: none is left open with nothing under way, but after a reset or a failed accept or first read; `ImplementsObject`: the connection implements the abstract connection object |
| `in_handler_sees` | as `in_connection` | violated: the handler is called with what no peer sent |
| `in_frees` | as `in_connection` | violated: an uninitialised pointer is freed |
| `client` | 2 lookups, 2 connections, 2 reads each, all failures but `uv_write` | `DeletedIsQuiet`, `ClosedOnce`, `WriteDataAlive`, `BufferFreedOnce`, `ImplementsObject`, `OneReadIsReleased`; `RunReturns`; `ReturnReleases`: what is left when `run()` returns |
| `message` | one header name besides Content-Length, each in two spellings; two values of it; bodies of up to 3 bytes, written from 3 kinds and as what a peer makes of them; any reads; any number of messages, forwarded or not | `ArrivesIntact`: a message arrives as it was composed **if and only if** it is `Plain` and came in one read, but for the end of a last U+FFFD |
| `message_status` | as `message`, with bodies of up to 2 bytes | violated: the status of a response does not arrive |
| `loop_own` | 2 servers on one socket, each closed once by its own handler | the close is not lost; the handle is closed once |
| `loop_anyone` | the same, closed by anyone, one call per thread | `run()` never returns with the socket open; `RacingCloseTakesEffect`: a `close()` of any thread that found the flag set makes `run()` return, whatever crosses it, unless the race lost its handle |
| `loop_close_blocks` | closed by the main thread | violated: `close()` does not wait |
| `loop_stop_twice` | two calls from its own handlers | violated: the second close takes the process down |
| `router` | 8 URLs, 2 methods, 2 registrations, 1 copy at any time, requests for 3 of the URLs | `RoutesAsRegistered` for the program's router and the server's copy, `DefaultPagesClean` |
| `http_parser` | both types, any number of messages; all methods, URLs of all kinds, statuses 101 and 10 (two digits, and a body), any number of leading zeros, and codes that are too large; all headers that matter, digits 0, 1 and f, lengths below 32; buffers of 1 or 2 tokens; callbacks that pause or fail | the code's `Assertions`; `LengthExact`; `BodyDelivered` and `EndsWithOwnByte`, however the input is cut and paused; `FramedOnce`; `MessagesInOrder`: every event is looked at, the repeated ones too; `MethodExact`; `LineDelivered` |

Why the bounds are enough. Connections share nothing but the process, so one
shows everything about a connection; a client's share its `run()`, which two
connections and two lookups show, and the theorems are about any number. All
hazards of the request union need at most two requests outstanding, so two reads
reach them. Two servers and one outside thread give every pair of a closer and a
closed. In the router what can go wrong is decided by the pairwise relation of
URLs (same, prefix, same branch, disjoint), of a registration, an earlier one and
a lookup; two registrations of the eight URLs have all of these. In the parser a
buffer of two tokens cuts everywhere, and digits are accepted and refused on both
sides of the limit for overflow in both bases; the limit itself is proved for
every width (`DigitExact`). A message of three bytes has every way in which a two-byte
character, a U+FFFD and a read can be cut, and a body shorter, equal to or longer than
a length that was there before.

Deadlock is not checked anywhere: all these systems really stop, when the
process dies, when every connection is gone or stuck, when every server has
returned.

Fairness. libuv completes what it was asked for as long as `uv_run` runs, so the
completion callbacks are weakly fair, and so are the reads of incoming
connections: `EofIsReleased` needs the end of the stream to be delivered. A peer
that never reads could hold up a write for ever; its kernel is assumed to give
up. Reads of outgoing connections are up to the server at the other end and are
not fair: `RunReturns` has the condition that no server keeps a connection open
with nothing to say. In `Client` names are resolved or fail, and the program's
callbacks return. In `ServerLoop` a thread that is in the loop or in `close()` keeps going;
whether `listen`, `run` or `close` is called is up to the program.

## Findings

Runs that expect a violation state what a comment says and find it untrue:
`HandlerSeesRequests` (`examples/server-basic.cpp` 7-8; `parse` accepts an empty
read, and the first part of a request), `FreesOnlyResponses` (`server-in.cpp` 33
frees `buffer.base`, which only line 85 assigns), `CloseBlocks` (`server.h` 56),
`StopRouteStops` (two stop requests handled before the loop ends), `StatusArrives`
(`response.h` 27: `Response::parse` drops the status).

Without a run of their own: if `uv_write` fails at once the request's buffer is freed
twice (`server-out.cpp` 119 and 37), the case `BufferFreedOnce` leaves out; `router.h`
26 says that only GET and POST are supported, and the code routes all six methods;
`~Server` and a second `close()` follow a link to a freed async handle (`FreedLink`).
`ArrivesIntact` shows how narrow the messages are that arrive: one read (but that a
U+FFFD at the end that is cut off becomes whole again), text, and no
Content-Length before `end()` but a `Content-Length` that is large enough; the router's
default error page after a handler that had set a length is not among them, nor is a
request that a server passes on.

The passing runs also record what is not nice and yet by design of the code:
`torn` states are reachable (a peer that closes its side while its answer is
being written; a second request before that), and the process may die or hang of
them. What a write torn by a second answer holds is sent all the same:
`ResponseFramed` says what that is, the bodies of all calls so far under the
Content-Length of the first. Its callback runs twice (`ResentWrite`), and the second
`uv_close` fails an assertion of libuv's: the one way to `ClosedOnce`'s double close.
The buffers of the answers before the last are lost then; `base` follows the last
one only. A connection whose accept,
connect or `uv_read_start` failed is never released. A `Server` has a copy of its
router, so a route registered later is seen by it only below a branch that
existed: `RoutesAsRegistered` says exactly which.

## What is proved

With TLAPS, for every value of the constants that satisfies the assumptions the
modules name (`ScriptsAssumption`, `OutAssumption`, `MainAssumption`,
`ParserAssumption`, `UrlsAssumption` and so on), so for any number of connections,
scripts, reads, servers, threads, routes and URLs, and for bodies of any length:

* `UvStreamProofs`: every operator of `UvStream` maps streams to streams.
* `InConnectionProofs`: the type invariant, `DeletedIsQuiet`, `ClosedOnce`,
  `WriteDataAlive`, `NoCallAfterEnd`, `ResponseFramed`, `ResponseFreed`,
  `NeverForgotten`, and that `InConnection` implements `ConnectionObject`
  (`InImplementsObject`). `InFirstRequestFaithful` has a hypothesis of its own: the
  scripts are such that what continues a request on the wire belongs to it
  (`Joined`), as all those of the run are.
* `ClientProofs`, of `OutConnection` alone and again of `Client`: the type
  invariant, `DeletedIsQuiet`, `ClosedOnce`, `WriteDataAlive`, `BufferFreedOnce` and
  the refinement of `ConnectionObject` (which needs that there are connections at
  all); of `Client` also `ReturnReleases`. `BufferFreedOnce` and `ReturnReleases`
  assume that `uv_write` does not fail, as the run does: see the findings.
* `ServerLoopProofs`: the type invariant and `ReturnsClosed`; and
  `ClosedOnce` where no server is closed by two threads, and by none twice
  (`OneCloser`, as in `loop_own`; `loop_stop_twice` shows what happens otherwise).
* `MessageProofs`: the type invariant and `ArrivesIntact`, in both directions.
* `RouterProofs`: the type invariant, `RoutesAsRegistered` and `DefaultPagesClean`.
* `HttpParserProofs`: a digit that is accepted extends a Content-Length or chunk
  size exactly and stays below the value that means "no length" (`DigitExact`), and
  of the parser `LengthExact`, `FramedOnce`, `Assertions`, `EndsWithOwnByte` and
  `MessagesInOrder`: for every `MaxLength` of at least 16 (`MaxLengthAssumption`),
  size of buffers, set of digits and status codes, and outcome of callbacks
  (`ParserAssumption`).
* `HttpDeliveryProofs`, under the same assumptions: `BodyDelivered`, `LineDelivered`,
  `MethodExact` and the parser's type invariant.

The argument for connections. None of the properties is inductive. What makes
them so is `IInv`: a connection that does not read has no way to get a new
request; the write side is down from the moment a shutdown is pending; the handle
is closing only when nothing is read and nothing is pending but a torn write; a
write is pending only after a handler call and its buffer is live. `in_onWrite`
closes the handle while reads are on: what saves it from closing with a shutdown
pending is that libuv drains the write queue before it completes a shutdown, and
that a shutdown asked for while a write is pending tears that write (`torn`), whose
callback is then never reached. `RInv` adds what `ResponseFramed` and `ClosedOnce`
need: the buffer libuv has is the last rendering of the response, and a write is
torn with no shutdown pending only after a second call. In `OutConnection`
(`Sound`) the write side says which of the three frees is still to come. In
`ServerLoop`, `StopSound` relates the loop's stop flag to the listening handle:
whatever sets the flag has begun to close the handle; `ClosedOnce` counts, for a
server with one closer, the async handles sent to its loop: one at most, and none
before the thread that may close it has got there, so that the `close()` of the
destructor never adds a second.

The argument for the client. A step of `Client` is a step of `OutConnection` or
leaves the connections alone, so that the invariants of `OutConnection` carry over
lemma by lemma. `ReturnReleases` says what is left behind when `run()` returns, and
rests on `Alive` being false then: no request to call back, no handle that reads or
closes. What is left is read off `Sound`: a handle that is neither torn nor without
any answer would still have one of these.

The argument for the router. `Tree` gives every `Route` the path that leads to it
as its name: sub-routes are named by one segment more, no two `Route`s of the tree
have the same name, all but the root have a parent, and a copy of the root has only
sub-routes of the root. `Filled` says that a `Route` holds the last call of `on()`
for its name. `Enter` and `Follow` then have one lemma each (`Grow`, `WalkOn`),
applied along the path, and `SegmentsSame` and `SegmentsBranch` relate what a path
is made of to the text of the URL.

The argument for messages. `MInv` adds to the types that what is on the wire was
rendered from what the sender meant (`WireSound`). `PlainArrives` and `IntactIsPlain`
are the two directions of `ArrivesIntact`; both rest on how a body is cut into
pieces and put together again (`Joins`, `ConvertedSame`, `ConvertedWhole`). The
second shows that every condition of `Plain` is needed. A body whose last U+FFFD was
cut by the read arrives as well: up to the first byte that is no part of a whole
character (`FirstStray`) a body is left as it is, and what is put there has the length
of the whole only if that was a U+FFFD (`CutOff`).

Induction. The folds and recursive functions of `Router` and `Message` are reasoned
about by induction over numbers in a form without operator parameters (`Least`,
`Induction`: facts about sets of numbers), and what a fold computes by the sequence
of its intermediate values (`FoldEnter`, `FoldFollow`). Proving `ArrivesIntact` showed
that two arms of the `CASE` in `Converted` overlapped and left its value open, which
TLC does not notice; they exclude each other now, as do those of `Url` and `Offered`
in `HttpParser`.

The argument for the parser. Its state says which part of a message it is in, but
not what has been reported of it, nor where a number or a byte stands: `IInv` adds
that. `Position` relates the state to the last event (a chunk state only after
the headers were reported; a start state only after a message that keeps the
connection, or after a blank line). `Numbers` says when `content_length` is the
number in the input, and that the states in which it counts down are entered with
a length. `Call` is about the byte at hand: the states that end a message are
reached with its last byte, and if a callback paused the parser there, that byte is
what the caller gives again. `DInv` builds on `IInv`: what is due stands between
the mark and the current byte, or in what is left of `content_length`, or there is
none (`Marks`); and the length a body starts with is the announced one
(`Announced`). The actions that stay inside a line share one lemma each in either module
(`QuietStep`, `SettleStep`); the others have a lemma of their own.

The parser's type invariant is not inductive either. The struct's fields are
(`Fields`; `Proper` says that every way in which a round ends leaves a typed struct,
`RoundEnds`), but for the status code: it stays below 1000, except that the error at
the fourth digit leaves a number below 10000 behind, with which nothing goes on. That
`due` is a number needs `DInv`: what is reported is never more than is due. That `left`
is one needs `Numbers`: a body or chunk never asks for more bytes than the buffer has,
and for one at least.

`MethodExact` says that guesses and corrections lose no method. `Spells` is its
invariant: of the method in force the letters sent so far have been read, and the
parser had reason to take it, having read `Entry` letters (one for a guess, one more
than its index for a correction). It holds because every correction agrees with what
it replaces up to the letter that asks for it (`CorrectionsSound`). That no letter
is refused too early is a fact about the tables: two methods with the same first
letter part at a letter that was read before the one in force was taken, or with
which it is corrected (`Parting`, one line for each of the 44 pairs). The invariant
needs to know that no round but that of `s_start_req` leads into `s_req_method`,
which is in `Proper` (`Home`).

Only model-checked: the liveness properties (`AnsweredIsReleased`, `EofIsReleased`,
`OneReadIsReleased`, `RunReturns` and those of `ServerLoop`: temporal proofs under
fairness need `ENABLED`) and the violations.

## Not modelled

`addresses`, `methods, statuses, strings` (no state), the examples and the build,
libuv itself, memory exhaustion. Of the HTTP parser: `HTTP_BOTH`, lenient headers,
the letters of header words, and `http_parser_parse_url` with `http_parse_host`,
which are bundled but never called by the library. `RequestParse` states what
`InConnection` needs of the parser and is not shown to follow from `HttpParser`: it
speaks of the parts of a request, `HttpParser` of its tokens. The table of
descriptors of a process, in which `reuseSocket` shares a number. In `Client`, a
`close()` from another thread: `ServerLoop` shows what it does to a loop.

## Plan

*Done*: connections, with their proofs; the server loop with its destructor; the
router; the client program; messages; the parser's start lines and framing; proofs
of every invariant of every component.

What would add most from here: `RequestParse` as an abstraction of `HttpParser`; the
table of descriptors under `reuseSocket`.
