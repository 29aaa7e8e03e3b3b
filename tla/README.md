# SnoopyGateway in TLA+

SnoopyGateway is a home gateway for a Raspberry Pi: one process that takes
commands over UDP, answers HTTP requests on port 8080 and keeps a registry of
devices. This directory holds a model of it, the TLC runs that check the model
and TLAPS proofs of what it promises for every size and every number of threads,
connections and messages: the HTTP session engine, the request parser, the assembly of
responses, the device manager, the command service and the serial driver.

Line numbers are those of the repository; `http.h` is `src/src/http.h`.
`PROJECT.json` maps every definition to the lines it models.

## 1. The system

### Threads

| thread | started by | code | talks to |
|---|---|---|---|
| main | the process | `src/src/main.cpp`, libuv loop, `src/src/CmdService.cpp` | UDP clients, device manager, light |
| REST | `restapi_init` | `src/src/RestApi.cpp`, `http.h` | HTTP clients |
| CC2530 reader and writer | nobody (`DeviceMgr.cpp:19-25` is commented out) | `src/sensor/cc2530.cpp` | serial line |

### Components

**HTTP session engine** (`http.h:1014-1230`, `1642-1758`). State: per session a
socket, a timer descriptor, a state (INIT, READ, WRITE, NOP), flags, a stream
(one buffer used first for the request and then for the response) and a timeout;
per server `memused` and the epoll instance. Operations: accept loop, session
callback, receive loop with buffer growth, response writing with an EPOLLOUT
event for the rest, timer callback, error responses, end of session. Hard: epoll
is edge-triggered, so one event missed is a session that hangs; clients act
between any two system calls; descriptors and memory run out; `errno` is shared by
all sessions. Correct if no session waits for an event that will not come, no
buffer or descriptor is lost, the memory total is that of the buffers, no request
is answered twice, and every session ends.

**Request parser** (`http.h:387-449`, `487-518`, `628-993`, `1110-1149`). State:
character state, meta state, lengths, cursor, token in progress, anchor.
Operations: `http_parse` over two transition tables, stream operations, the token
loop. Hard: it is resumed at any character; chunks are moved inside the buffer
that earlier tokens point into; the buffer has a maximum. Correct if the tokens and
the body do not depend on how the network cut the message.

**Request accessors** (`http.h:1246-1390`). Read the token list against the request's
buffer, and decide whether the connection is kept. Hard: a streamed body is moved in the
same buffer; the flag for a streamed request and the one for a kept connection are one
bit; what the handler left unread stands in front of the next request. Correct if the
handler finds what was sent and the next request on the connection is read as sent.

**Response assembly and chunked responses** (`http.h:1072-1099`, `1394-1556`). State: a
growing text buffer that becomes the request's, flags, the callback `notify_done`.
Operations: print, copy, respond, chunk, last chunk. Hard: the buffer grows at any text;
the application answers inside its callback or later, from another event, while the
socket's events and the timer go on. Correct if the client gets what the calls mean,
memory is accounted for, the application is told once of each chunk, and the session
ends after the response and not before.

**REST handler** (`RestApi.cpp`). Stateless: answers every request.

**UDP command service** (`CmdService.cpp`). State: a static receive slab, the
libuv handle, a one-shot timer. Operations: allocate, read, dispatch. Hard: the
slab is shared by all datagrams and parsed whole; datagrams are lost, repeated,
reordered, empty. Correct if each datagram is applied once, by itself, in order.

**Process** (`main.cpp`). A start-up sequence in which each call may fail, then the
loop. Correct if a gateway that reports success serves, and one that cannot serve
ends.

**Device manager** (`src/devices/DeviceMgr.*`). A map behind a mutex. Operations:
find, create, delete. Hard: `CreateDevice` uses two critical sections. Correct if
it behaves as a map. Today `main()` (through `Start` and `service_on_read`) is its
only caller; the mutex and the singleton interface are there for callers on other
threads (the REST handler includes `DeviceMgr.h`), and the model has such callers.

**Light** (`src/devices/light/`). `SetCommand` logs ON or OFF.

**CC2530 driver** (`src/sensor/`). State: a descriptor and a flag shared without a
lock, and each reader's frame buffer. A reader thread cuts input at CR LF, a sender thread
repeats a script, the application sends too; each send flushes the line in both
directions. Hard: all of that interleaves, and the driver may be stopped and started again
without waiting for its threads. Correct if a frame is one line, and a stopped driver's
reader ends.

**Logging, libuv, json.hpp, zlog, wiringPi, kqueue branch, test data**: see section 8.

The hazards, each at its line with the properties aimed at it, are listed in
`PROJECT.json`.

## 2. Modules

| module | models | used by |
|---|---|---|
| `HttpServer` | session engine, REST handler, clients and kernel | `MCHttpServer`, `HttpServerProofs` |
| `MCHttpServer` | TLC instance: sums over sessions | runs, `HttpServerTotalsProofs` |
| `HttpServerProofs` | theorems about `HttpServer`: types, buffers, timers, responses | `HttpServerSessionProofs`, `HttpServerTotalsProofs` |
| `HttpServerSessionProofs` | theorems about `HttpServer`: events, answers, overload | |
| `HttpServerTotalsProofs` | theorems about `HttpServer`: the sums over all sessions | |
| `HttpParser` | parser, stream, token loop, a handler that reads a streamed body | `HttpRequest` |
| `HttpRequest` | accessors, answer and connection of a request, the next request; extends `HttpParser` | `MCHttpRequest`, `HttpRequestProofs` |
| `MCHttpRequest` | TLC instance: messages and what they mean | runs |
| `HttpRequestProofs` | theorems about `HttpParser` and `HttpRequest` | |
| `HttpResponse` | response buffer, whole and chunked responses, an application that answers now or later | `MCHttpResponse`, `HttpResponseProofs` |
| `MCHttpResponse` | TLC instance: lengths of the texts | runs |
| `HttpResponseProofs` | theorems about `HttpResponse` | |
| `DeviceMap` | what the device manager promises: a map | `DeviceRegistry`, `Gateway` |
| `DeviceRegistry` | device manager, any number of threads; implements `DeviceMap` | `MCDeviceRegistry`, `DeviceRegistryProofs` |
| `DeviceRegistryProofs` | theorems about `DeviceRegistry`, the refinement among them | |
| `Gateway` | main thread, UDP service, light, REST thread's bind; composes `DeviceMap` | `MCGateway`, `GatewayProofs` |
| `GatewayProofs` | theorems about `Gateway` | |
| `Cc2530` | the serial driver's threads and calls | runs, `Cc2530Proofs` |
| `Cc2530Proofs` | theorems about `Cc2530` | |

A definition whose name ends in an underscore and a word, with a comment that
starts with "Mutant", is a plausible wrong version of the definition after it. It
is used by nothing in the specification; `PROJECT.json` names the property that
notices it.

### HttpServer

One record per connection slot holds the client's end (`peer`, `inbox`, `room`), the
epoll registration (`interest`, `ready`) and the session (`state`, `cap`, `len`,
`out`, `timeout`, `timer`, flags). The REST thread runs one callback at a time and
asks `epoll_wait` for one event at a time, so callbacks do not overlap; but clients
and kernel act between the system calls of a callback. A callback is therefore cut
after each `read()` of the receive loop (`ReadData`, `ReadEof`, `ReadFails`) and
before the parsing and answering (`Process`), and after each `accept()`
(`AcceptNext`, `AcceptFails`). A `write()` and the `epoll_ctl` behind it are one step: a
socket that drains between the two has the same effect as one that drains before, because
`epoll_ctl` looks at the condition anew. The operations inside one step (`hs_free_buffer`,
`http_respond`, `hs_write_response`, `hs_error_response`, ...) are operators from a
*world* (session, memory total, `errno`, descriptor count) to a world, named as in
the source and composed in its order; this is also what makes them provable one at a
time.

Bytes are counted in units, one unit being a stretch of input that matters to the
session (a head, the rest of a request, a whole request, a head that announces a
streamed body, a stretch of body, malformed input). What the parser makes of a unit
is what `HttpParser` shows of characters. Edge-triggered epoll: `ready` becomes TRUE
when something new happens to a watched condition (`Arrived`, `Drained`, `Hangup`) or
when the registration is changed while the condition holds (`hs_add_write_event`),
and FALSE when the event is taken. `errno` is written by failing calls only. Ghost
fields: `why` (why a session was given up), `reqs`, `resps`, `cut` (the receive loop
stopped at the maximum), `starved`.

### HttpParser

Characters are their codes and the two tables are those of the source, entry by
entry, with 0..127 as the characters: a negative `char` falls into the class of the
control characters. One step is one iteration of the loop of `http_parse`. The names
compared by `HS_MATCH` are constants, so that short ones can be used; the comparison
itself, with what it does behind the end of a name, is the source's. The receive loop
is one step that brings any number of characters up to the maximum: growth is
`HttpServer`'s subject. A transition to BR reads behind the end of
`hs_token_start_states`; any value may be found there (`Started`). The handler is the
one the interface asks for: it reads a streamed body chunk by chunk and answers at the
empty chunk. Tokens of chunks are dropped once their text was read.

### HttpRequest

`HttpRequest` puts a session around the parser. `http_respond` is `handle_request`: it may
answer as soon as the handler is called, the body of a streamed request unread, as
`handle_request` does, or at its end, as the interface asks. The connection is then kept or
closed (`hs_auto_detect_keep_alive`, or `http_request_connection` before it). On a kept one
`hs_init_session` clears the session, and the next message arrives behind whatever the
socket still holds of this one (`left`); the properties about reading speak of messages
with nothing in front (`Clean`), and `LeftIsLineEnd` says when there is something. The
accessors are operators on the token list and the buffer; each is compared with the
message the client sent, which the parser does not see. `HTTP_FLG_STREAMED` and
`HTTP_KEEP_ALIVE` are one variable, as they are one bit. A token behind the end of the list
is no header (`Beyond`).

### HttpResponse

One connection and its application. A text is a sequence of cells that say which text and
which place of it they are, so that any lost, repeated or overwritten cell shows; its
length is a constant. The buffer, `vsnprintf` with its end mark, both kinds of growth and the
double count are the source's. Each call of the interface is one step that puts the
response together and writes as much of it as the socket takes (`Written`, any length,
`errno` EPIPE or not). The ghost `owed` holds what the calls mean and was not sent yet;
`spoilt` is set where a text had no place (it made the buffer grow, or filled it exactly, so
that the end mark covers its last character) or no meaning (status 599). Whether the second
`vsnprintf` finds its arguments again is a choice (`again`): using a `va_list` twice is
undefined. `sync` tells an application that answers inside its callback from one that may
return first (`Defer`). It passes no empty chunk, which would end the body.
`http_request_connection`, `http_request_free_buffer`, the timer and further requests
interleave with it. `HttpServer` keeps the short form of `http_respond`, which is all that
`handle_request` needs.

### DeviceRegistry and DeviceMap

A call is cut where the mutex is given up or taken. `Creators` are the threads that
call `CreateDevice`. `DeviceMap` is an id-to-device map whose entries are inserted
under a free id and removed.

### Gateway

`pc` is the next call of `main()`; each call is an action with one disjunct per
outcome the code tells apart (a `pthread_create` that fails is not told apart, nor
is a `uv_udp_bind` that fails). `Receive` is one turn of libuv's receive loop:
`alloc_buffer`, `recvmsg`, `service_on_read`. The slab is a function from cells to
what they hold, so that what an earlier datagram left is visible if it is not
cleared; parsing takes the cells before the first NUL, as the JSON lexer does
(`src/deps/json.hpp:8001`), and finds a command if they are exactly one datagram.
`free()` of the static slab and a call through a null device are undefined: the
first aborts the process or does not, the second ends it.
`LightDevice::SetCommand` ends without a return statement; the build sets no
optimisation, the result is not used, and the model lets it return.

### Cc2530

A reader is cut at each look at `stopped` and each call of the serial library, because sends,
flushes and `cc2530_exit` come in between. `cc2530_exit` is two steps (the flag, the
close). The sender thread and the application both send at any time, so a send is one
action that may always happen once a sender exists; what is sent is not followed, and its
effect on the model is the flush. A character is its line and its place in the line, the
line end (CR, LF) being the last two places, so that a frame made of two lines is told from
a whole one. Ghosts `torn` and `spoilt` record that input was taken
from the line a reader is in or has just completed.

## 3. Runs that pass

| run | instance | what it shows |
|---|---|---|
| `overload` | two connections, two dials, heads and streamed heads, memory limit 1 unit, 3 descriptors, `FairSpec` | `BufferDiscipline`, `MemAccounting`, `DescriptorAccounting`, `BacklogHasWakeup`, `LingeringIsOverload` while 503 answers, failing `accept()` and `timerfd_create`, resets and timeouts happen; every session with a timer ends and a full server gets a slot free again (`QuietSessionEnds`); every connection that waits is accepted, unless an `accept()` that failed left it without an event, and the next connection brings it in again (`BacklogDrained`) |
| `session` | one connection, two dials, four units of every kind but streamed ones | no response and no request waits without an event, but in the two ways `InputHasWakeup` names; counters stay armed; requests and responses match; responses are not restarted |
| `request` | fourteen messages, two on a connection, every cut into reads | each message is read as sent (`EachIsRead`), its last character completing it, no row behind the tables is used (`TablesInBounds`), a message shorter than the buffer is not given up (`ShortIsRead`), a handler that reads to the end leaves at most an LF (`LeftIsLineEnd`), headers are found under their names, and iterated over where the body is in the buffer (`HeadersFound`), streamed requests are flagged (`StreamedIsFlagged`), answer and connection are as asked (`AnswersAsAsked`) |
| `response` | two requests, two chunks, bodies of 0, 2 and 6 cells, a header that fits and one that does not, a buffer of 14 | the client gets what was meant unless a text was spoilt (`WireIsMeant`), memory (`MemAccounted`), notifications (`NotifiedOnce`), no session ends under its application (`EndsAnswered`), `HTTP_END_SESSION` lingers only for an application that answers late (`LingeringIsLate`) |
| `cc2530` | two lines of two characters, a buffer of 2, two starts, `FairSpec` | a frame is a whole line unless something took input from it (`FramesAreLines`), the frame stays in its buffer (`TypeOK`), a stopped driver's readers end (`ReaderEnds`) |
| `one_creator` | three threads, one creating; two ids; three devices | `DeviceRegistry` implements `DeviceMap`; two ids never share a device; calls go on returning |
| `gateway` | three arrivals out of nine datagrams | `CommandsApplied`, `ListensUntilFailure`, `StopsAfterFailure` |

`TypeOK` is checked in `session`, `request`, `one_creator`, `gateway` and `cc2530`.

### Bounds

* Connections: one or two. Sessions share only `memused`, `errno`, descriptors and
  the accept loop; two are enough for one to exhaust or spoil what the other uses.
  A slot can be dialled again (`MaxDials`), so slots are reused.
* Buffers: initial size 1, maximum 2 or 4, response 2 or 3, send buffer 1 or 2
  units: a buffer grows once and twice, a response takes more than one write.
* Timeouts: 1 or 2 ticks; the tests are on zero and on the order of decrement and
  test.
* Messages: 3 to 56 characters, buffer of 48: they include a body that fits, one that
  does not, chunks that are moved, an extension, mixed case, a name that shares a
  prefix with a matched one, and three kinds of rejected input. Three names matched
  are two or three characters long, one longer than the other.
* Datagrams: lengths 0 to 3 in a slab of 4, so that a short one follows a long one.
* Two messages on a connection: the session is made anew once, with and without
  something left of the first.
* Response buffer 14, texts of 1 to 6 cells: a plain head fits, a long header or a long
  body makes it grow, one combination fits exactly, growth happens by doubling and by
  copying. The statuses are one that is replaced (99) and the one the table lacks (599);
  200 is used in `response_growth`.
* Serial line: a buffer of 2 grows at the second character; two starts give two
  readers at once; two lines let a flush join them.
* `Kinds` without `stream` and `body` in `session`: `ResponsesMatchRequests` does not
  hold with them (section 4).
* Descriptors: 3 in `overload`. With two sessions the second gets a socket and no timer;
  an `accept()` that fails while a connection waits is one that the whole system's limits
  make fail (ENFILE, ENOBUFS, ENOMEM), which the model allows at any time. The process's
  own limit (EMFILE) is met with nothing waiting; the code does the same in both cases. A
  `timerfd_create` fails at the process's limit only; the second half of
  `QuietSessionEnds` (a full server gets a slot free again) rests on that.

### Fairness

`HttpServer!FairSpec`: the thread runs when it can, and `epoll_wait`, which rotates
its ready list, starves no descriptor. Clients and the network promise nothing. The
conditions are weak fairness of each action written out with its guard, because TLC
is slow to evaluate ENABLED of these actions. `DeviceRegistry!FairSpec`: a thread
inside a call whose next step is possible takes it; a mutex is not assumed fair, which is why
`CallsReturn` is about calls as a whole and not about each. `Gateway!FairSpec`: the
main thread runs; nothing is assumed of arrivals, of receive errors or of the REST
thread. `Cc2530!FairSpec`: each reader thread runs; nothing is assumed of the line, the
sends or the application.

`CHECK_DEADLOCK FALSE` stands where the system may stop: all clients have used up
their dials (`HttpServer`), the requests were answered or the session closed
(`HttpRequest`, `HttpResponse`), the process ended (`Gateway`). `DeviceRegistry` and
`Cc2530` are checked for deadlock.

## 4. Runs that are violated

Each states what a comment, the documentation in `http.h` or a log message says.

| run | property | what TLC finds |
|---|---|---|
| `errno` | `EpipeMeansPeerGone` | a successful write leaves `errno` alone; EPIPE of another session's write ends this one (`http.h:1035`) |
| `request_room` | `BodyFindsRoom` | the test whether a body fits is off by two (`http.h:814`), and room for a chunked body is made only inside chunk data (`http.h:982`): a full buffer closes the session |
| `response_growth` | `BufferGrows` | a text that makes the buffer grow is counted twice (`http.h:1459`) |
| `two_creators` | `ExistingDeviceKept` | two creators of one id both find it free (`DeviceMgr.cpp:63`) |
| `gateway_init` | `SuccessMeansServing` | "init success" without a bound UDP port or without a REST thread (`RestApi.cpp:36`, `main.cpp:44`) |

The model shows more that no run is spent on:

* after a partial write epoll watches EPOLLOUT only, so the next request of a kept
  connection raises no event (`http.h:1751`), and the receive loop stops at the maximum
  capacity with input left in the socket (`http.h:756`): the two exceptions of
  `InputHasWakeup`;
* `handle_request` answers a streamed request before its body is read, and the body is
  then read as a request (`RestApi.cpp:26`, the messages that are not `Clean`); a handler
  that answers at the end of a chunked body leaves an LF (`LeftIsLineEnd`);
* `http_parse` takes any character of a content length for a digit (`http.h:893`): the
  length may then be negative, and `hs_stream_jump` takes the cursor back (`Numeric` in
  section 5 excludes it);
* iterating over the headers of a streamed request runs past the last token
  (`http.h:1292`; `http.h:185` says that it "Returns 0 when there are no more headers").
  `HeadersFound` says nothing of the iteration there;
* `http.h:218-222` offers `http_request_free_buffer` to free the request's memory "before
  the http_respond call", but `http_respond` then reads the version and the Connection
  header at an offset from the cleared pointer (`http.h:1362`), unless the application called `http_request_connection`:
  action `Crash`. Nothing else leads there (`OnlyFreedCrashes` in section 5);
* a session whose `timerfd_create` fails is not timed out (`http.h:1737`), an accept loop
  that ends for want of resources leaves the backlog without an event until another
  connection comes (`http.h:1190`);
* a token longer than `HTTP_MAX_TOKEN_LENGTH` that ends within one read passes
  (`http.h:985`, action `ScanEnds`);
* a text that fills the response buffer exactly loses its last character
  (`http.h:1453`), and status 599 reads behind `hs_status_text` (`http.h:615`): `spoilt`;
* a chunked response ends with one empty line too many (`http.h:1553`), which a client
  that sends another request meets in front of the answer; `owed` takes it as meant;
* an application that answers late is told of one chunk several times (`http.h:1086`),
  waits for the timer after its last write (`http.h:1096`), and may find the request freed
  (`http.h:1668`): the exceptions of `NotifiedOnce`, `LingeringIsLate` and `EndsAnswered`;
* `serialFlush` right behind `serialPuts` discards input unread and output unsent
  (`cc2530.cpp:146`, `154`).

## 5. Proofs

Every theorem holds for all values of the constants that the named assumptions of its
module allow. None of the invariants is inductive alone; what each needs is below.

### HttpServer

Assumptions: there is a connection and `NoConn` is none; buffer sizes are positive,
the initial request buffer is not larger than the maximum, a response fits its
buffer and is not empty; timeouts are positive.

| theorem | statement |
|---|---|
| `TypeCorrect` | `Spec => []TypeOK` |
| `BuffersFreed` | `Spec => []BufferDiscipline` |
| `TimersArmed` | `Spec => []TimeoutArmed` |
| `ResponsesResumed` | `Spec => []OutputHasWakeup` |
| `BacklogIsWatched` | `Spec => []BacklogHasWakeup` |
| `OnlyOverloadLingers` | `Spec => []LingeringIsOverload` |
| `InputIsWatched` | `Spec => []InputHasWakeup` |
| `ResponsesGoOn` | `Spec => ResponseNotRestarted` (an action property) |
| `AnswersAreAsked` | `Unstreamed`: `Spec => []ResponsesMatchRequests` |
| `MemoryAccounted` | `Spec => []MemAccounting` |
| `DescriptorsAccounted` | `Spec => []DescriptorAccounting` |

`HttpServerProofs` proves the first four. `BufferDiscipline` needs to know that the
handler that is about to read or answer is that of a session in state READ;
`OutputHasWakeup` and `TimeoutArmed` need the types. The inductive invariant is

    IInv == TypeOK /\ HandlerState /\ \A c \in Conns : Settled(conn[c])

where `HandlerState` says that the receive loop runs for a session in state READ and
that a connection in the backlog has no session and stands there once (otherwise a
connection accepted twice would overwrite a session with its buffer), and `Settled`
is the conjunction, for one connection, of type, buffer, timeout and output
conditions. The argument has three layers: a lemma per session operation says
what it does to a world and that it keeps the *balance*, the memory total less the
buffer of this session; a lemma per action says that it leaves its session settled
and in balance; `IInvStep` puts them together.

`HttpServerSessionProofs` goes on with `SInv`: `IInv`, the backlog's wake-up, and for
each session that a session asked to end is one turned away with 503 (`LingerOK`), that
such a session does nothing else (`OverloadOK`), that a session's socket is watched and
one in state WRITE waits for EPOLLOUT (`WatchOK`, `WriteOK`), that a reading session has
room (`RoomOK`), and, outside the receive loop, that input has its event (`InputOK`).
The receive loop has to be excepted: between two reads the event was taken and the input
is still there. That the loop reads until the socket is empty or the buffer at its maximum
is what restores the condition at its end. `AnswersAreAsked` counts: responses written or
under way, plus requests received and not answered, are at most the requests sent, plus
one for a 503 (`CountOK`). It assumes `Unstreamed`, that no client sends a streamed body,
because `handle_request` answers such a request early and reads the body as another one
(section 4).

`HttpServerTotalsProofs` is about sums over all connections, with the assumption
`FiniteConns`: there are finitely many. The sums are the folds of `FiniteSetsExt`. That such
a fold exists, and that it grows by as much as one summand does when only that one changes
(`FoldExists`, `SumMoves`), is shown by least counterexamples on the cardinality of the
subsets. `MemoryAccounted` then follows from the balance above: each step changes one buffer
and `memused` by the same amount. `DescriptorsAccounted` needs a second balance, descriptors
in use less those of the session (`Spare`), which each session operation keeps, and the
close of socket and timer at the end of a session takes as much from both sides; the only
steps that open a descriptor are `accept()` and a successful `timerfd_create`.

### HttpParser and HttpRequest

Assumptions: the matched names are not empty and two of them differ in their first
character, limits are positive, messages are sequences of characters. Nothing bounds
messages, cuts, limits or the number of requests.

| theorem | statement |
|---|---|
| `ParserTyped` | `SpecSession /\ []Numeric => []TypeOK` |
| `TablesNeverOverrun` | `SpecSession /\ []Numeric => []TablesInBounds` |
| `ShortNeverGivenUp` | `SpecSession /\ []Numeric => []ShortIsRead` |
| `TextsInPlace` | `SpecSession /\ []Numeric => [][TextsStay]_<<vars, session>>` |
| `FlagTold` | `SpecSession => []StreamedIsFlagged` |

`Numeric` is about the client: the value of a content length is digits. It cannot be
dropped, since `http_parse` computes with whatever character stands there (`http.h:893`), a
length may come out negative and the cursor then moves backwards. Chunk sizes need no such
condition: `hs_transitions` rejects what is no digit, and the one character it does not see,
the first behind the headers, leaves the length alone (`http.h:912-921`). TLC finds that all
messages of the run `request`, the rejected ones included, satisfy `Numeric`.

The inductive invariant `PInv` says which meta states go with which state (`MetaOK`; this is
what keeps both tables in bounds), that no more of a body was read than there is of it
(`CountOK`), which token is in progress in which state (`TokenOK`), that this token ends at
or before the cursor and begins at or behind the anchor (`StreamOK`), and that the buffer holds no
more than was received. The argument follows the code: `NextStates` reads
`hs_transitions`; a lemma for each group of target states says what
`hs_transition_action` gives there, either leaving the character to the loop (`Before`) or
having jumped over as much of a body as there is (`Jumped`); `Iterates` puts one turn of the
loop together (`After`); and the actions of the session follow from what each gives the
token loop (`Gotten`).

`TextsInPlace` is the reason why accessors may be used while a streamed body is read. Its
`Fixed(p, s)` is how much of the buffer is never written again: all that was parsed while the
head is read, and from the body on what lies in front of the anchor. It never shrinks, each
stored token ends within it (`Placed`), and no step changes a character of it (`InPlace`),
`hs_stream_shift` included, which moves chunks down to the anchor.

`FlagTold` holds for every input: the flag and the token list change together, and only the
answer and `http_request_connection` set the shared bit otherwise.

### HttpResponse

Assumptions: buffer sizes and the widths of texts are positive numbers, bodies have a
length, statuses are integers. Nothing bounds sizes, chunks or requests.

| theorem | statement |
|---|---|
| `ResponseInvariant` | `Spec => []RInv` |
| `SentAsMeant` | `Spec => []WireIsMeant` |
| `MemoryIsBuffer` | `Spec => []MemAccounted` |
| `ToldOnce` | `Spec => []NotifiedOnce` |
| `AnsweredBeforeEnd` | `Spec => []EndsAnswered` |
| `OnlyFreedCrashes` (a lemma) | only an application that freed the request's buffer makes `http_respond` read through the cleared pointer |
| `LingersLate` | `Spec => []LingeringIsLate` |

The inductive invariant `RInv` is about the request: what it owes to the client is what is
left of the buffer (`Meant`); the application's turn comes when all was written (`Turns`);
`HTTP_END_SESSION` stands behind the end of a response or an EPIPE (`Finished`); a head that
is yet to come has its request (`Headed`); and for an application that answers in its
callback `http_session` waits for it, and a chunk on its way is one it was not told of
(`Punctual`). Below it lies the buffer: `Good(ctx, base, text)` says that a growing buffer
holds `text` unless it is spoilt and accounts for its capacity above `base`, and each of
`grwprintf`, `grwmemcpy`, the header loop and `http_respond_headers` takes a good buffer to
a good one. The doubling loop ends with a capacity no smaller than before, shown with a
least counterexample (`DoubledGrows`). The header loop is unrolled, since a response has at
most three headers here: one the application sets, `Transfer-Encoding` and `Connection`.

### DeviceRegistry

| theorem | statement |
|---|---|
| `RegistryTypes` | `Spec => []TypeOK` |
| `NoSharedDevice` | `Spec => []DevicesDistinct` |
| `ManagerImplementsMap` | `OneCreator`: `Spec => ImplementsDeviceMap` |
| `OneCreatorKeepsDevices` | `OneCreator`: `Spec => ExistingDeviceKept` |

The invariant says who holds the mutex (`Exclusion`, `OutsideUnlocked`), that only creators
are inside `CreateDevice`, that devices in the map or in a creator's hands are different
ones made before, and, with `OneCreator`, that an id a creator found free stays free until
it inserts (`FreeStaysFree`): the two critical sections then act as one. `OneCreator` (no
two threads call `CreateDevice`) is what the code does, `DeviceManager::Start` being the only
caller; the run `two_creators` shows that it cannot be dropped.

### Gateway

| theorem | statement |
|---|---|
| `GatewayTypes` | `Spec => []TypeOK` |
| `CommandsAppliedInOrder` | `Spec => []CommandsApplied` |
| `ServiceListens` | `Spec => []ListensUntilFailure` |

The lemma that matters is `SlabHoldsDatagram`: after `alloc_buffer` has cleared the slab and
a datagram was read into it, it parses as that datagram and nothing else. It needs that a
datagram is shorter than the slab (65507 and 65536 bytes). The invariant adds that the
light is registered from `Start` on, and where in the start-up the service listens.

### Cc2530

| theorem | statement |
|---|---|
| `FramesFitBuffer` | `Spec => []TypeOK` |
| `FramesAreWholeLines` | `Spec => []FramesAreLines` |

The invariant says that what is queued on the line was sent in one piece (`Contiguous`) and
that a reader nothing was taken from has in its buffer exactly the part of the line in front
of the next character (`Reading`).

## 6. Only model-checked

* Liveness (`QuietSessionEnds`, `BacklogDrained`, `CallsReturn`,
  `StopsAfterFailure`, `ReaderEnds`): the prover does not do liveness under fairness or ENABLED.
* `EachIsRead`, `LeftIsLineEnd`: they compare what is read with the message. That the tokens
  are those of *every* message needs a grammar of messages and induction over it, which is
  out of this prover's reach; TLC checks them for each message of the instance and every cut.
  What does not depend on the message is proved: the cursor and the tables
  (`ParserTyped`, `TablesNeverOverrun`), and that texts, once found, stay (`TextsInPlace`).
* `HeadersFound`: the iteration over the headers is a recursive function of the token list;
  what it returns for every list needs induction over the list.
* `AnswersAsAsked`: the answer depends on target, version and headers that were found, so it
  rests on `EachIsRead`.

The hypothesis `Numeric` and the invariants `PInv` and `Placed` were also checked by TLC on
the messages of the run `request`.

## 7. Plan

Done, in the order of importance: the modules of section 2, and the proofs of section 5.
Every invariant of the passing runs is proved but for the four of section 6, as are the
action properties and the refinement; the hypotheses that some of them need (`Unstreamed`,
`OneCreator`, `Numeric`) are in section 5.

Left:
1. What can still be promised of the parser for a length that is not a number, where
   `Numeric` does not hold.
2. The first three tokens of a message (method, target, version) for every message: their
   scan is a loop over one character class and would need no grammar.

## 8. Not modelled

* `http.h:1558-1640`, the kqueue branch: not compiled on Linux.
* The Date timer (`http.h:1193-1199`, `1654-1660`): it refreshes a text of fixed length
  that no control depends on. The wording of responses: texts are names with a length.
* `http_server_poll` (`http.h:1718-1725`): one turn of the loop, for applications with a
  loop of their own.
* `hs_stream_shift` copies with `memcpy` between ranges that may overlap (`http.h:823`),
  which is undefined; the model moves the bytes as they were.
* Content lengths beyond 32 bits and their narrowing to `int` (`http.h:780`); header
  names longer than an `int16_t` counts (`http.h:425`).
* What the CC2530 driver puts on the line, and the receive callback, which is never
  called (`cc2530.cpp:130`). This version does not start the driver.
* libuv, json.hpp, zlog, wiringPi: third-party; `Gateway` models how they are used.
* `src/test/register.txt`: data no code reads.
