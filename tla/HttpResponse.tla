---------------------------- MODULE HttpResponse ----------------------------
(***************************************************************************)
(* The response interface of src/src/http.h: how a response is put         *)
(* together in a buffer that grows, and the life of a request from the     *)
(* call of its handler until it is answered, whole or in chunks, by an     *)
(* application that answers at once or later from the event loop.          *)
(*                                                                         *)
(* A text is a sequence of cells that name the text, what it is about and  *)
(* a place in it, so that a cell lost, repeated or overwritten shows; nul  *)
(* is the end mark of vsnprintf and junk a byte nobody wrote.              *)
(***************************************************************************)
EXTENDS Integers, Sequences, SequencesExt

CONSTANTS
    RequestBufSize,     \* HTTP_REQUEST_BUF_SIZE
    ResponseBufSize,    \* HTTP_RESPONSE_BUF_SIZE
    Headers,            \* the headers the application sets
    Width,              \* the length of each of Names when printed
    Statuses,           \* the status codes the application passes
    Bodies,             \* the lengths of the bodies and chunks it passes
    MaxChunks,          \* bound: chunks it passes
    MaxRequests         \* bound: requests on the connection

Names == {"line", "keep-alive", "close", "Transfer-Encoding", "Content-Length",
          "size", "last", "crlf"} \cup Headers

ASSUME SizeAssumption == {RequestBufSize, ResponseBufSize} \subseteq Nat \ {0}
ASSUME WidthAssumption == Width \in [Names -> Nat \ {0}]
ASSUME CallAssumption ==
    Statuses \subseteq Int /\ Bodies \subseteq Nat /\ {MaxChunks, MaxRequests} \subseteq Nat

(***************************************************************************)
(* state     http_request_t.state, or FREE once it was freed               *)
(* auto, keep, chunked, end   HTTP_AUTOMATIC, HTTP_KEEP_ALIVE,             *)
(*           HTTP_CHUNKED_RESPONSE and HTTP_END_SESSION of its flags       *)
(* buf       stream.buf, <<>> for NULL; capacity, length, total: stream    *)
(* turn      the application was called and has not answered yet           *)
(* inside    http_session is under way                                     *)
(* mem       http_server_t.memused                                         *)
(* chunks    calls of http_respond_chunk                                   *)
(* notified  calls of notify_done, counted up to MaxChunks + 1             *)
(* requests  requests read                                                 *)
(* fate      running, timeout or crashed                                   *)
(* Ghosts:                                                                 *)
(* owed      what the application's calls mean and is yet unsent           *)
(* wrong     the client was sent something else                            *)
(* spoilt    a text had no place or no meaning                             *)
(* broken    errno was EPIPE after a write of the session                  *)
(* freed     the application gave up the request's buffer                  *)
(***************************************************************************)
VARIABLES
    request,    \* http_request_t and what surrounds it
    wants,      \* what the client says of keeping the connection alive
    sync,       \* the application answers before its callback returns
    again       \* the second vsnprintf of a growing buffer has its arguments

vars == <<request, wants, sync, again>>

-----------------------------------------------------------------------------
(* The growing buffer.                                                     *)

Text(name, about, width) == [i \in 1..width |-> <<name, about, i>>]
Label(name) == Text(name, 0, Width[name])
nul == <<"nul", 0, 0>>
junk == <<"junk", 0, 0>>
Junk(n) == [i \in 1..n |-> junk]

\* text written behind the first n cells; what is outside of them is lost.
Write(cells, n, text) ==
    [i \in DOMAIN cells |->
        IF i \in n + 1..n + Len(text) THEN text[i - n] ELSE cells[i]]

grwprintf_init(mem) ==
    [buf |-> Junk(ResponseBufSize), capacity |-> ResponseBufSize, size |-> 0,
     mem |-> mem + ResponseBufSize, spoilt |-> FALSE]

\* Mutant: the old capacity stays counted.
Resized_Twice(ctx, capacity) ==
    [ctx EXCEPT !.buf = @ \o Junk(capacity - ctx.capacity),
                !.mem = @ + capacity, !.capacity = capacity]

\* realloc, with the accounting around it.
Resized(ctx, capacity) ==
    [ctx EXCEPT !.buf = @ \o Junk(capacity - ctx.capacity),
                !.mem = @ - ctx.capacity + capacity, !.capacity = capacity]

grwmemcpy(ctx, text) ==
    LET need == ctx.size + Len(text)
        c == IF need > ctx.capacity THEN Resized(ctx, need) ELSE ctx
    IN  [c EXCEPT !.buf = Write(@, ctx.size, text), !.size = need]

\* vsnprintf: as much of text as leaves space for the end mark.
Printed(ctx, text) ==
    LET space == ctx.capacity - ctx.size
        n == Min({Len(text), space - 1})
    IN  IF space <= 0 THEN ctx
        ELSE [ctx EXCEPT !.buf = Write(@, ctx.size, SubSeq(text, 1, n) \o <<nul>>)]

Doubled(capacity, need) ==
    LET after[k \in 0..need] == IF k = 0 THEN capacity ELSE 2 * after[k - 1]
    IN  after[Min({k \in 0..need : after[k] >= need})]

\* Where the text did not fit, its length is added twice; on some platforms
\* the second vsnprintf finds its arguments used up.
grwprintf(ctx, text, second) ==
    LET need == ctx.size + Len(text)
        first == Printed(ctx, text)
        grown == Printed(Resized(first, Doubled(ctx.capacity, need)), second)
    IN  IF need <= ctx.capacity
        THEN [first EXCEPT !.size = need, !.spoilt = @ \/ need = ctx.capacity]
        ELSE [grown EXCEPT !.size = need + Len(second), !.spoilt = TRUE]

\* A format with arguments, and one without.
Format(ctx, text) == grwprintf(ctx, text, IF again THEN text ELSE Junk(Len(text)))
FormatPlain(ctx, name) == grwprintf(ctx, Label(name), Label(name))

-----------------------------------------------------------------------------
(* Responses.                                                              *)

http_response_init == [status |-> 200, headers |-> <<>>, body |-> <<>>, length |-> 0]

\* Mutant: the header is not linked to the ones before it.
http_response_header_Unlinked(res, name) == [res EXCEPT !.headers = <<name>>]

http_response_header(res, name) == [res EXCEPT !.headers = <<name>> \o @]

http_response_status(res, status) ==
    [res EXCEPT !.status = IF status > 599 \/ status < 100 THEN 500 ELSE status]

http_response_body(res, text) == [res EXCEPT !.body = text, !.length = Len(text)]

\* The entries of hs_status_text: one is lost between two lines of the table.
hs_status_text == 0..598

LengthText(n) == Text("Content-Length", n, Width["Content-Length"])
SizeText(n) == Text("size", n, Width["size"])
LineText(status) == Text("line", status, Width["line"])
HeaderTexts(names) == [i \in DOMAIN names |-> Label(names[i])]

\* The loop over the list.
FormatAll(ctx, texts) ==
    LET after[i \in 0..Len(texts)] == IF i = 0 THEN ctx ELSE Format(after[i - 1], texts[i])
    IN  after[Len(texts)]

http_buffer_headers(res, chunked, ctx) ==
    LET c == FormatAll(ctx, HeaderTexts(res.headers)) IN
    FormatPlain(IF chunked THEN c ELSE Format(c, LengthText(res.length)), "crlf")

http_respond_headers(res, keep, chunked, ctx) ==
    LET r == http_response_header(res, IF keep THEN "keep-alive" ELSE "close")
        known == res.status \in hs_status_text
        line == LineText(res.status)
        c == Format(ctx, IF known THEN line ELSE Junk(Len(line)))
    IN  http_buffer_headers(r, chunked, [c EXCEPT !.spoilt = @ \/ ~known])

\* What a head means: status line, Connection, the other fields, empty line.
HeadText(status, keep, fields) ==
    LineText(status) \o Label(IF keep THEN "keep-alive" ELSE "close")
    \o FlattenSeq(fields) \o Label("crlf")

-----------------------------------------------------------------------------
(* The request: functions from a request to a request.                     *)

\* The pointer is cleared, capacity and lengths stay.
hs_free_buffer(r) ==
    IF r.buf = <<>> THEN r ELSE [r EXCEPT !.mem = @ - r.capacity, !.buf = <<>>]

\* write() takes the next n cells; behind the allocation there is anything.
hs_write_client_socket(r, n) ==
    LET sent == [i \in 1..n |-> IF r.total + i <= Len(r.buf) THEN r.buf[r.total + i]
                                ELSE junk]
        right == IsPrefix(sent, r.owed)
    IN  [r EXCEPT !.total = @ + n, !.wrong = @ \/ ~right,
                  !.owed = IF right THEN SubSeq(@, n + 1, Len(@)) ELSE <<>>]

\* Mutant: the connection is closed after the first chunk.
Notify_Closing(r) == [hs_free_buffer(r) EXCEPT !.end = ~r.keep, !.turn = TRUE]

\* A chunk was written: chunk_cb, which is notify_done, is called.
Notify(r) ==
    [hs_free_buffer(r) EXCEPT !.state = "WRITE", !.turn = TRUE,
                              !.notified = Min({@ + 1, MaxChunks + 1})]

\* n cells are taken; errno is EPIPE afterwards, from this write or another.
hs_write_response(r, n, epipe) ==
    LET v == hs_write_client_socket(r, n)
        all == v.total = v.length
    IN  CASE epipe -> [v EXCEPT !.end = TRUE, !.broken = TRUE]
          [] ~epipe /\ ~all -> [v EXCEPT !.state = "WRITE"]
          [] ~epipe /\ all /\ v.chunked -> Notify(v)
          [] ~epipe /\ all /\ ~v.chunked /\ v.keep ->
                 [hs_free_buffer(v) EXCEPT !.state = "INIT"]
          [] OTHER -> [v EXCEPT !.end = TRUE]

hs_end_session(r) == [hs_free_buffer(r) EXCEPT !.state = "FREE"]

\* Mutant: the write case returns before the test.
http_session_ends_Reading(r) ==
    IF r.end /\ r.state # "WRITE" THEN hs_end_session(r) ELSE r

\* The tail of http_session.
http_session_ends(r) == IF r.end THEN hs_end_session(r) ELSE r

\* http_session returns once nothing calls the application any more.
Return(r) ==
    IF r.inside /\ ~r.turn THEN [http_session_ends(r) EXCEPT !.inside = FALSE] ELSE r

\* The requests that may follow a write of some of what is left.
Written(r) ==
    {Return(hs_write_response(r, n, epipe)) :
        n \in 0..r.length - r.total, epipe \in BOOLEAN}

\* The response in ctx, which means text, replaces the request's buffer.
http_end_response(r, ctx, text) ==
    [hs_free_buffer([r EXCEPT !.mem = ctx.mem]) EXCEPT
        !.buf = ctx.buf, !.capacity = ctx.capacity, !.length = ctx.size,
        !.total = 0, !.state = "WRITE", !.turn = FALSE,
        !.owed = @ \o text, !.spoilt = @ \/ ctx.spoilt]

-----------------------------------------------------------------------------
(* The application.                                                        *)

\* The application sets no header or one.
Prepared ==
    {http_response_init} \cup {http_response_header(http_response_init, h) : h \in Headers}

Response(res, status, text) == http_response_body(http_response_status(res, status), text)

Answering == request.turn /\ request.state # "FREE" /\ request.fate = "running"

\* hs_auto_detect_keep_alive: the request is read again from its buffer.
hs_auto_detect_keep_alive(r) == IF r.auto THEN [r EXCEPT !.keep = wants] ELSE r
Blind == request.auto /\ request.buf = <<>>

http_respond(res) ==
    LET r == hs_auto_detect_keep_alive(request)
        c == http_respond_headers(res, r.keep, FALSE, grwprintf_init(r.mem))
        fields == HeaderTexts(res.headers) \o <<LengthText(res.length)>>
    IN  /\ ~request.chunked /\ ~Blind
        /\ request' \in Written(http_end_response(r, grwmemcpy(c, res.body),
                            HeadText(res.status, r.keep, fields) \o res.body))

\* A chunk, behind ctx and what it means.
Chunk(r, res, ctx, text) ==
    LET c == grwmemcpy(Format(ctx, SizeText(res.length)), res.body) IN
    Written(http_end_response([r EXCEPT !.chunks = @ + 1], FormatPlain(c, "crlf"),
                text \o SizeText(res.length) \o res.body \o Label("crlf")))

\* The first chunk brings the head along.
http_respond_chunk(res) ==
    LET r == [hs_auto_detect_keep_alive(request) EXCEPT !.chunked = TRUE]
        ctx == grwprintf_init(r.mem)
        te == http_response_header(res, "Transfer-Encoding")
    IN  /\ request.chunks < MaxChunks /\ res.length > 0
        /\ \/ /\ request.chunked
              /\ request' \in Chunk(request, res, ctx, <<>>)
           \/ /\ ~request.chunked /\ ~Blind
              /\ request' \in Chunk(r, res, http_respond_headers(te, r.keep, TRUE, ctx),
                                    HeadText(res.status, r.keep, HeaderTexts(te.headers)))

\* Mutant: the flag stays set behind the last chunk.
Ended_Flagged(r) == r

Ended(r) == [r EXCEPT !.chunked = FALSE]

\* http_buffer_headers ends with an empty line, and another one follows.
http_respond_chunk_end(res) ==
    LET c1 == FormatPlain(grwprintf_init(request.mem), "last")
        c2 == http_buffer_headers(res, TRUE, c1)
    IN  /\ request.chunked
        /\ request' \in Written(http_end_response(Ended(request), FormatPlain(c2, "crlf"),
                            Label("last") \o FlattenSeq(HeaderTexts(res.headers))
                            \o Label("crlf") \o Label("crlf")))

\* The application answers.  An empty chunk would end the body: it sends none.
Answer ==
    /\ Answering
    /\ \E prepared \in Prepared, status \in Statuses, n \in Bodies :
          LET res == Response(prepared, status, Text("body", request.chunks, n)) IN
          \/ http_respond(res)
          \/ http_respond_chunk(res)
          \/ http_respond_chunk_end(res)
    /\ UNCHANGED <<wants, sync, again>>

\* hs_auto_detect_keep_alive reads through the pointer that was cleared.
Crash ==
    /\ Answering /\ ~request.chunked /\ Blind
    /\ request' = [request EXCEPT !.fate = "crashed"]
    /\ UNCHANGED <<wants, sync, again>>

\* HTTP_KEEP_ALIVE or HTTP_CLOSE.
http_request_connection(keep) ==
    /\ Answering /\ request.auto
    /\ request' = [request EXCEPT !.auto = FALSE, !.keep = keep]
    /\ UNCHANGED <<wants, sync, again>>

http_request_free_buffer ==
    /\ Answering /\ request.buf # <<>>
    /\ request' = [hs_free_buffer(request) EXCEPT !.freed = TRUE]
    /\ UNCHANGED <<wants, sync, again>>

\* The callback returns and http_session with it; the application goes on
\* from another event.
Defer ==
    /\ Answering /\ request.inside /\ ~sync
    /\ request' = [http_session_ends(request) EXCEPT !.inside = FALSE]
    /\ UNCHANGED <<wants, sync, again>>

-----------------------------------------------------------------------------
(* The event loop.                                                         *)

Looping == ~request.inside /\ request.state # "FREE" /\ request.fate = "running"

\* http_session in state HTTP_SESSION_WRITE, whatever the event was.
WriteEvent ==
    /\ Looping /\ request.state = "WRITE"
    /\ request' \in Written([request EXCEPT !.inside = TRUE])
    /\ UNCHANGED <<wants, sync, again>>

\* A request as its handler gets it, the first or the next of a connection; in
\* state NOP events are ignored.
Called(r) ==
    [r EXCEPT !.state = "NOP", !.auto = TRUE, !.keep = FALSE, !.chunked = FALSE,
              !.end = FALSE, !.buf = Junk(RequestBufSize), !.capacity = RequestBufSize,
              !.length = 0, !.total = 0, !.turn = TRUE, !.inside = TRUE,
              !.freed = FALSE, !.mem = @ + RequestBufSize, !.requests = @ + 1]

NextRequest ==
    /\ Looping /\ request.state = "INIT" /\ request.requests < MaxRequests
    /\ request' = Called(request) /\ wants' \in BOOLEAN
    /\ UNCHANGED <<sync, again>>

\* The session's timer runs out, the application may be holding the request.
hs_request_timer_cb ==
    /\ Looping
    /\ request' = [hs_end_session(request) EXCEPT !.fate = "timeout"]
    /\ UNCHANGED <<wants, sync, again>>

Accepted ==
    [state |-> "INIT", auto |-> FALSE, keep |-> FALSE, chunked |-> FALSE, end |-> FALSE,
     buf |-> <<>>, capacity |-> 0, length |-> 0, total |-> 0, turn |-> FALSE,
     inside |-> FALSE, mem |-> 0, chunks |-> 0, notified |-> 0, requests |-> 0,
     fate |-> "running", owed |-> <<>>, wrong |-> FALSE, spoilt |-> FALSE,
     broken |-> FALSE, freed |-> FALSE]

Init ==
    /\ request = Accepted
    /\ wants \in BOOLEAN /\ sync \in BOOLEAN /\ again \in BOOLEAN

Next ==
    \/ Answer \/ Crash \/ http_request_free_buffer \/ Defer
    \/ \E keep \in BOOLEAN : http_request_connection(keep)
    \/ WriteEvent \/ NextRequest \/ hs_request_timer_cb

Spec == Init /\ [][Next]_vars

-----------------------------------------------------------------------------
(* Properties.                                                             *)

\* As long as every text had its place, the client is sent what the calls of
\* the application mean, however the writes are cut; when the application is
\* told that a chunk was written, or the session is ready for the next
\* request, all of it.
WireIsMeant ==
    ~request.spoilt
        => /\ ~request.wrong
           /\ request.turn \/ request.state = "INIT" => request.owed = <<>>

\* http_server_t.memused is the buffer the session holds, through every
\* growth, replacement and early release of it.
MemAccounted == request.mem = Len(request.buf)

\* An application that answers before its callback returns is told once of
\* every chunk, and not of the end of the response.
NotifiedOnce == sync => request.notified <= request.chunks

\* A session ends when its response was written to the end, and not between
\* two chunks or under an application that has yet to answer, unless the
\* timer ended it or errno was EPIPE after one of its writes.
EndsAnswered ==
    request.state = "FREE"
        => \/ request.fate = "timeout" \/ request.broken
           \/ /\ ~request.turn /\ ~request.chunked
              /\ request.spoilt \/ request.owed = <<>>

\* HTTP_END_SESSION is acted on at once, unless it was set while the
\* application answered outside of http_session.
LingeringIsLate == request.end /\ Looping => ~sync

-----------------------------------------------------------------------------
(* What the documentation says and the code does not do.                   *)

\* The response buffer "grows automatically if it's capacity is reached": the
\* client is sent what was meant.
BufferGrows == ~request.wrong
=============================================================================
