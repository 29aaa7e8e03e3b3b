----------------------------- MODULE HttpServer -----------------------------
(***************************************************************************)
(* The REST thread of the gateway: the edge-triggered epoll loop of        *)
(* src/src/http.h with the request handler of src/src/RestApi.cpp.         *)
(*                                                                         *)
(* One thread runs every handler, so two handlers never overlap; clients   *)
(* and the kernel act between any two system calls of a handler that can   *)
(* tell the difference: the handler is cut after each read() of the        *)
(* receive loop and before the parse-and-respond part.                     *)
(*                                                                         *)
(* Bytes are counted in units.  A unit is one cell of a buffer and stands  *)
(* for a stretch of input that matters to the session:                     *)
(*   head    the start of a request that does not complete it              *)
(*   rest    what completes a request started by a head                    *)
(*   full    a whole request                                               *)
(*   stream  a whole head that announces a chunked or oversized body       *)
(*   body    a stretch of such a body                                      *)
(*   bad     input the parser rejects                                      *)
(* The character-level parser is abstracted to what it answers for a unit. *)
(***************************************************************************)
EXTENDS Integers, Sequences, FiniteSets

CONSTANTS
    Conns,              \* connection slots of the clients
    NoConn,             \* no connection: the loop is not inside a session
    RequestBufSize,     \* HTTP_REQUEST_BUF_SIZE, in units
    MaxRequestBufSize,  \* HTTP_MAX_REQUEST_BUF_SIZE, in units
    ResponseBufSize,    \* HTTP_RESPONSE_BUF_SIZE, in units
    MaxTotalMem,        \* HTTP_MAX_TOTAL_EST_MEM_USAGE, in units
    RequestTimeout,     \* HTTP_REQUEST_TIMEOUT, in timer ticks
    KeepAliveTimeout,   \* HTTP_KEEP_ALIVE_TIMEOUT, in timer ticks
    ResponseLen,        \* length of a response, in units
    MaxFds,             \* descriptors left to sessions under RLIMIT_NOFILE
    SendBufSize,        \* free space of an empty socket send buffer, in units
    Kinds,              \* the kinds of units the clients send
    MaxUnits,           \* bound: units one client sends on one connection
    MaxDials            \* bound: connections made over all slots

ASSUME ConnAssumption == NoConn \notin Conns /\ Conns # {}
ASSUME BufAssumption ==
    /\ RequestBufSize \in Nat \ {0}
    /\ MaxRequestBufSize \in Nat /\ RequestBufSize <= MaxRequestBufSize
    /\ ResponseBufSize \in Nat \ {0}
    /\ ResponseLen \in 1..ResponseBufSize
    /\ SendBufSize \in Nat \ {0}
    /\ MaxTotalMem \in Nat
    /\ MaxFds \in Nat
ASSUME TimeAssumption ==
    /\ RequestTimeout \in Nat \ {0}
    /\ KeepAliveTimeout \in Nat \ {0}
ASSUME BoundAssumption ==
    /\ Kinds \subseteq {"head", "rest", "full", "stream", "body", "bad"}
    /\ MaxUnits \in Nat /\ MaxDials \in Nat

VARIABLES
    conn,       \* per slot: the client's end, the socket and the session
    memused,    \* http_server_t.memused
    errno,      \* the thread's errno, which only a failing call writes
    nfds,       \* descriptors the sessions hold
    backlog,    \* connections established and not yet accepted, oldest first
    lready,     \* epoll holds an event of the listening socket
    accepting,  \* the loop is inside hs_accept_connections
    pc,         \* where the thread is: "poll", "read", "process"
    cur,        \* the session whose handler runs, or NoConn
    starved,    \* the last accept loop ended for want of resources (ghost)
    dials       \* connections made so far

vars == <<conn, memused, errno, nfds, backlog, lready, accepting, pc, cur,
          starved, dials>>

-----------------------------------------------------------------------------
Unit == [kind : Kinds, keep : BOOLEAN]
Errno == {"0", "EAGAIN", "EPIPE", "ECONNRESET", "EMFILE", "ENFILE", "EBADF"}

(***************************************************************************)
(* peer     up, fin (the client shut down its end), reset (an RST arrived, *)
(*          its error not yet reported), dead (its error was reported)     *)
(* inbox    received by the kernel, not yet read; room: free send space    *)
(* tail     kind of the last unit sent; sent, reqs: units, requests sent   *)
(* state    FREE (no session) or http_request_t.state; HTTP_SESSION_NOP is *)
(*          left before the handler returns and is never seen here         *)
(* keep,end HTTP_KEEP_ALIVE and HTTP_END_SESSION of http_request_t.flags   *)
(* cap,len  capacity and length of stream.buf (cap = 0: buf is NULL)       *)
(* fresh    units read and not yet parsed; mid: parser inside a request    *)
(* out      stream.length - stream.total_bytes of a response               *)
(* timer    the session's timerfd was created and ticks                    *)
(* interest, ready   what epoll watches the socket for; an event is queued *)
(* status   status of the last response; resps: responses fully written    *)
(* cut      the last receive loop ended with capacity = maximum (ghost)    *)
(* why      the code path that asked for the end of the session (ghost)    *)
(***************************************************************************)
Peer == {"up", "fin", "reset", "dead"}
State == {"FREE", "INIT", "READ", "WRITE"}
Interest == {"none", "in", "out"}
Status == {0, 200, 400, 503}
Why == {"none", "eof", "epipe", "done", "timeout"}
Room == 0..SendBufSize
Tails == Kinds \cup {"none"}
Units == Seq(Unit)

Conn == [peer : Peer, inbox : Units, room : Room, tail : Tails,
         sent : Nat, reqs : Nat, state : State,
         keep : BOOLEAN, end : BOOLEAN,
         cap : Nat, len : Nat, fresh : Units, mid : BOOLEAN, out : Nat,
         timeout : Int, timer : BOOLEAN, interest : Interest,
         ready : BOOLEAN, status : Status, resps : Nat, cut : BOOLEAN,
         why : Why]

Closed ==
    [peer |-> "dead", inbox |-> <<>>, room |-> SendBufSize, tail |-> "none",
     sent |-> 0, reqs |-> 0, state |-> "FREE", keep |-> FALSE, end |-> FALSE,
     cap |-> 0, len |-> 0, fresh |-> <<>>, mid |-> FALSE, out |-> 0,
     timeout |-> 0, timer |-> FALSE, interest |-> "none", ready |-> FALSE,
     status |-> 0, resps |-> 0, cut |-> FALSE, why |-> "none"]

\* What a handler may change: its connection, the memory total, errno and
\* the descriptors in use.
World == [c : Conn, mem : Int, err : Errno, fd : Int]

WorldOf(c) == [c |-> conn[c], mem |-> memused, err |-> errno, fd |-> nfds]

Least(a, b) == IF a <= b THEN a ELSE b

-----------------------------------------------------------------------------
(* Session operations: functions from a world to a world.                  *)

\* Mutant: the pointer to the buffer is not cleared.
hs_free_buffer_Dangling(w) == [w EXCEPT !.mem = @ - w.c.cap]

\* Mutant: the memory total is left alone.
hs_free_buffer_Counted(w) == [w EXCEPT !.c.cap = 0]

\* free(stream.buf), and its capacity leaves the memory total.
hs_free_buffer(w) == [w EXCEPT !.mem = @ - w.c.cap, !.c.cap = 0]

\* Flags to HTTP_AUTOMATIC, parser and stream zeroed: a buffer still held
\* here would be forgotten, not freed.
hs_init_session(w) ==
    [w EXCEPT !.c = [@ EXCEPT !.keep = FALSE, !.end = FALSE, !.mid = FALSE,
                              !.cap = 0, !.len = 0, !.fresh = <<>>,
                              !.out = 0, !.state = "READ"]]

hs_reset_timeout(w, time) == [w EXCEPT !.c.timeout = time]

\* Mutant: the timer's descriptor stays open.
hs_end_session_TimerLeft(w) ==
    [hs_free_buffer(w) EXCEPT
        !.fd = @ - 1,
        !.c = [@ EXCEPT !.timer = FALSE, !.state = "FREE",
                        !.interest = "none", !.ready = FALSE,
                        !.inbox = <<>>, !.fresh = <<>>]]

\* Sockets leave epoll and are closed, the buffer is freed, then the session.
\* Closing the descriptor -1 of a timer that was never created sets errno.
hs_end_session(w) ==
    [hs_free_buffer(w) EXCEPT
        !.fd = @ - (IF w.c.timer THEN 2 ELSE 1),
        !.err = IF w.c.timer THEN @ ELSE "EBADF",
        !.c = [@ EXCEPT !.timer = FALSE, !.state = "FREE",
                        !.interest = "none", !.ready = FALSE,
                        !.inbox = <<>>, !.fresh = <<>>]]

\* The socket takes n units of the response.
Taken(k, n) ==
    [k EXCEPT !.out = @ - n, !.room = @ - n,
              !.resps = IF n > 0 /\ n = k.out THEN @ + 1 ELSE @]

\* Mutant: the result -1 of a failing write is added to total_bytes.
hs_write_client_socket_Signed(w) ==
    LET n == Least(w.c.out, w.c.room) IN
    CASE w.c.peer = "reset" ->
             [w EXCEPT !.c.peer = "dead", !.err = "ECONNRESET", !.c.out = @ + 1]
      [] w.c.peer = "dead" -> [w EXCEPT !.err = "EPIPE", !.c.out = @ + 1]
      [] w.c.peer \in {"up", "fin"} /\ n = 0 /\ w.c.out > 0 ->
             [w EXCEPT !.err = "EAGAIN", !.c.out = @ + 1]
      [] OTHER -> [w EXCEPT !.c = Taken(w.c, n)]

\* write(): a short or full count leaves errno alone, a failure sets it.
hs_write_client_socket(w) ==
    LET n == Least(w.c.out, w.c.room) IN
    CASE w.c.peer = "reset" ->
             [w EXCEPT !.c.peer = "dead", !.err = "ECONNRESET"]
      [] w.c.peer = "dead" -> [w EXCEPT !.err = "EPIPE"]
      [] w.c.peer \in {"up", "fin"} /\ n = 0 /\ w.c.out > 0 ->
             [w EXCEPT !.err = "EAGAIN"]
      [] OTHER -> [w EXCEPT !.c = Taken(w.c, n)]

\* Mutant: the socket stays registered for input.
hs_add_write_event_In(w) == [w EXCEPT !.c.ready = w.c.inbox # <<>>]

\* EPOLL_CTL_MOD to EPOLLOUT only; epoll re-evaluates the new mask at once.
hs_add_write_event(w) ==
    [w EXCEPT !.c = [@ EXCEPT
        !.interest = "out",
        !.ready = w.c.room > 0 \/ w.c.peer \in {"reset", "dead"}]]

\* The test is on errno, not on the result of the write.
hs_write_response(w) ==
    LET v == hs_write_client_socket(w) IN
    CASE v.err = "EPIPE" -> [v EXCEPT !.c.end = TRUE, !.c.why = "epipe"]
      [] v.err # "EPIPE" /\ v.c.out # 0 ->
             hs_reset_timeout([hs_add_write_event(v) EXCEPT !.c.state = "WRITE"],
                              RequestTimeout)
      [] v.err # "EPIPE" /\ v.c.out = 0 /\ v.c.keep ->
             hs_reset_timeout([hs_free_buffer(v) EXCEPT !.c.state = "INIT"],
                              KeepAliveTimeout)
      [] OTHER -> [v EXCEPT !.c.end = TRUE, !.c.why = "done"]

\* http_respond and http_end_response: a response buffer replaces the
\* request's, and the first write is tried at once.
http_respond(w, status, keep) ==
    LET f == hs_free_buffer([w EXCEPT !.c.keep = keep]) IN
    hs_write_response(
        [f EXCEPT !.mem = @ + ResponseBufSize,
                  !.c = [@ EXCEPT !.cap = ResponseBufSize, !.len = ResponseLen,
                                  !.out = ResponseLen, !.status = status,
                                  !.state = "WRITE"]])

\* The write is tried a second time.
hs_error_response(w, status, keep) ==
    hs_write_response(http_respond(w, status, keep))

\* Mutant: the write case returns before the test, as the 503 branch does.
EndIfAsked_NotWriting(w) ==
    IF w.c.end /\ w.c.state # "WRITE" THEN hs_end_session(w) ELSE w

\* The tail of http_session.
EndIfAsked(w) == IF w.c.end THEN hs_end_session(w) ELSE w

-----------------------------------------------------------------------------
(* Clients and the kernel.                                                 *)

Backlogged == {backlog[i] : i \in DOMAIN backlog}
Connected(c) == conn[c].state # "FREE" \/ c \in Backlogged

\* A client connects; the listening socket becomes readable.
Connect(c) ==
    /\ ~Connected(c) /\ dials < MaxDials
    /\ conn' = [conn EXCEPT ![c] = [Closed EXCEPT !.peer = "up"]]
    /\ backlog' = Append(backlog, c)
    /\ lready' = TRUE
    /\ dials' = dials + 1
    /\ UNCHANGED <<memused, errno, nfds, accepting, pc, cur, starved>>

StartKinds == {"head", "full", "stream", "bad"}

\* What a client may send after its last unit.
NextKinds(tail) ==
    CASE tail = "head" -> {"rest", "bad"}
      [] tail = "stream" -> {"body"}
      [] tail = "body" -> {"body"} \cup StartKinds
      [] OTHER -> StartKinds

\* Record k once unit u is in the socket.
Arrived(k, u) ==
    [k EXCEPT !.inbox = Append(k.inbox, u), !.tail = u.kind,
              !.sent = k.sent + 1,
              !.reqs = IF u.kind \in StartKinds /\ k.tail # "head"
                       THEN k.reqs + 1 ELSE k.reqs,
              !.ready = k.ready \/ k.interest = "in"]

ClientSend(c, u) ==
    /\ Connected(c) /\ conn[c].peer = "up" /\ conn[c].sent < MaxUnits
    /\ u.kind \in NextKinds(conn[c].tail)
    /\ u.kind \in {"head", "body"} => ~u.keep
    /\ conn' = [conn EXCEPT ![c] = Arrived(conn[c], u)]
    /\ UNCHANGED <<memused, errno, nfds, backlog, lready, accepting, pc, cur,
                   starved, dials>>

\* The client takes what was sent: the send buffer drains.
Drained(k) ==
    [k EXCEPT !.room = SendBufSize,
              !.ready = k.ready \/ (k.interest = "out" /\ k.room = 0)]

ClientRead(c) ==
    /\ Connected(c) /\ conn[c].peer \in {"up", "fin"}
    /\ conn[c].room < SendBufSize
    /\ conn' = [conn EXCEPT ![c] = Drained(conn[c])]
    /\ UNCHANGED <<memused, errno, nfds, backlog, lready, accepting, pc, cur,
                   starved, dials>>

\* A FIN makes the socket readable; an RST is reported under every mask.
Hangup(k, peer) ==
    [k EXCEPT !.peer = peer,
              !.ready = \/ k.ready
                        \/ k.interest = "in"
                        \/ peer # "fin" /\ k.interest = "out"]

\* The client shuts down its sending side.
ClientFin(c) ==
    /\ Connected(c) /\ conn[c].peer = "up"
    /\ conn' = [conn EXCEPT ![c] = Hangup(conn[c], "fin")]
    /\ UNCHANGED <<memused, errno, nfds, backlog, lready, accepting, pc, cur,
                   starved, dials>>

\* An RST arrives.  After a FIN the pending error is EPIPE at once.
ClientReset(c) ==
    /\ Connected(c) /\ conn[c].peer \in {"up", "fin"}
    /\ conn' = [conn EXCEPT ![c] =
                   Hangup(conn[c], IF conn[c].peer = "up" THEN "reset" ELSE "dead")]
    /\ UNCHANGED <<memused, errno, nfds, backlog, lready, accepting, pc, cur,
                   starved, dials>>

-----------------------------------------------------------------------------
(* The REST thread.                                                        *)

Install(c, w) ==
    /\ conn' = [conn EXCEPT ![c] = w.c]
    /\ memused' = w.mem /\ errno' = w.err /\ nfds' = w.fd

\* The handler of session c returns to the accept loop or to epoll_wait.
Return == pc' = "poll" /\ cur' = NoConn

Overloaded(w) == w.mem > MaxTotalMem

\* hs_read_and_process_request up to the first read(): a session without a
\* buffer gets one.
BeginRead(w) ==
    LET v == IF w.c.cap = 0
             THEN [w EXCEPT !.mem = @ + RequestBufSize, !.c.cap = RequestBufSize]
             ELSE w
    IN  hs_reset_timeout([v EXCEPT !.c.state = "READ"], RequestTimeout)

\* The 503 branch returns before the HTTP_END_SESSION test.
http_session(c, w) ==
    \/ /\ w.c.state = "INIT" /\ Overloaded(w)
       /\ Install(c, hs_error_response(hs_init_session(w), 503, FALSE))
       /\ Return
    \/ /\ w.c.state = "INIT" /\ ~Overloaded(w)
       /\ Install(c, BeginRead(hs_init_session(w)))
       /\ pc' = "read" /\ cur' = c
    \/ /\ w.c.state = "READ"
       /\ Install(c, BeginRead(w))
       /\ pc' = "read" /\ cur' = c
    \/ /\ w.c.state = "WRITE"
       /\ Install(c, EndIfAsked(hs_write_response(w)))
       /\ Return

\* epoll_wait hands out one event at a time (ev_list has one entry).
Idle == pc = "poll" /\ ~accepting

hs_session_io_cb(c) ==
    /\ Idle /\ conn[c].ready
    /\ http_session(c, [WorldOf(c) EXCEPT !.c.ready = FALSE])
    /\ UNCHANGED <<backlog, lready, accepting, starved, dials>>

hs_server_listen_cb ==
    /\ Idle /\ lready
    /\ lready' = FALSE /\ accepting' = TRUE
    /\ UNCHANGED <<conn, memused, errno, nfds, backlog, pc, cur, starved, dials>>

\* Mutant: the timer is never added to epoll.
hs_add_events_NoTimer(w) ==
    [w EXCEPT !.c = [@ EXCEPT !.interest = "in",
                              !.ready = w.c.inbox # <<>> \/ w.c.peer # "up"]]

\* hs_add_events on a new session.  timerfd_create may fail; its result is
\* not tested.
hs_add_events(w) ==
    LET timed == w.fd < MaxFds IN
    [w EXCEPT !.fd = IF timed THEN @ + 1 ELSE @,
              !.err = IF timed THEN @ ELSE "EBADF",
              !.c = [@ EXCEPT !.timer = timed, !.interest = "in",
                              !.ready = w.c.inbox # <<>> \/ w.c.peer # "up"]]

\* Mutant: one accept() per event, no loop.
AcceptNext_Once(c) ==
    /\ accepting /\ pc = "poll"
    /\ backlog # <<>> /\ c = Head(backlog) /\ nfds < MaxFds
    /\ backlog' = Tail(backlog) /\ accepting' = FALSE
    /\ http_session(c, hs_add_events(
           [WorldOf(c) EXCEPT !.fd = @ + 1, !.c.state = "INIT",
                              !.c.timeout = RequestTimeout]))
    /\ UNCHANGED <<lready, starved, dials>>

\* accept() returns a connection, whose session runs at once.
AcceptNext(c) ==
    /\ accepting /\ pc = "poll"
    /\ backlog # <<>> /\ c = Head(backlog) /\ nfds < MaxFds
    /\ backlog' = Tail(backlog)
    /\ http_session(c, hs_add_events(
           [WorldOf(c) EXCEPT !.fd = @ + 1, !.c.state = "INIT",
                              !.c.timeout = RequestTimeout]))
    /\ UNCHANGED <<lready, accepting, starved, dials>>

\* accept() fails, which ends the loop whatever the reason: no descriptor
\* left to the process, nothing to accept, or a want of the whole system
\* (ENFILE; ENOBUFS and ENOMEM do the same), which may come at any time.
AcceptFails ==
    /\ accepting /\ pc = "poll"
    /\ accepting' = FALSE
    /\ \/ nfds >= MaxFds /\ errno' = "EMFILE" /\ starved' = TRUE
       \/ nfds < MaxFds /\ backlog = <<>> /\ errno' = "EAGAIN" /\ starved' = FALSE
       \/ nfds < MaxFds /\ errno' = "ENFILE" /\ starved' = TRUE
    /\ UNCHANGED <<conn, memused, nfds, backlog, lready, pc, cur, dials>>

\* Mutant: the counter is tested before it is decremented.
hs_request_timer_cb_TestFirst(c) ==
    /\ Idle /\ conn[c].state # "FREE" /\ conn[c].timer
    /\ LET w == WorldOf(c) IN
       Install(c, IF w.c.timeout = 0
                  THEN hs_end_session([w EXCEPT !.c.why = "timeout"])
                  ELSE [w EXCEPT !.c.timeout = @ - 1])
    /\ UNCHANGED <<backlog, lready, accepting, pc, cur, starved, dials>>

\* Session timers tick once a second; a tick has no other effect than this.
hs_request_timer_cb(c) ==
    /\ Idle /\ conn[c].state # "FREE" /\ conn[c].timer
    /\ LET w == [WorldOf(c) EXCEPT !.c.timeout = @ - 1] IN
       Install(c, IF w.c.timeout = 0
                  THEN hs_end_session([w EXCEPT !.c.why = "timeout"]) ELSE w)
    /\ UNCHANGED <<backlog, lready, accepting, pc, cur, starved, dials>>

-----------------------------------------------------------------------------
(* The receive loop of hs_stream_read_socket, one read() per step.         *)

ToRead(k) == Least(k.cap - k.len, Len(k.inbox))

GrownCap(cap, len) ==
    IF len = cap /\ cap # MaxRequestBufSize
    THEN Least(2 * cap, MaxRequestBufSize) ELSE cap

\* read() returned n > 0 units.
Received(w, n) ==
    LET cap == GrownCap(w.c.cap, w.c.len + n)
        inbox == w.c.inbox IN
    [w EXCEPT !.mem = @ - w.c.cap + cap,
              !.c = [@ EXCEPT !.cap = cap, !.len = w.c.len + n,
                              !.fresh = w.c.fresh \o SubSeq(inbox, 1, n),
                              !.inbox = SubSeq(inbox, n + 1, Len(inbox)),
                              !.cut = (cap >= MaxRequestBufSize)]]

\* Mutant: one read() per event, no loop.
ReadData_Once(c) ==
    /\ pc = "read" /\ cur = c /\ ToRead(conn[c]) > 0
    /\ Install(c, Received(WorldOf(c), ToRead(conn[c])))
    /\ pc' = "process"
    /\ UNCHANGED <<backlog, lready, accepting, cur, starved, dials>>

ReadData(c) ==
    /\ pc = "read" /\ cur = c /\ ToRead(conn[c]) > 0
    /\ LET w == Received(WorldOf(c), ToRead(conn[c])) IN
       /\ Install(c, w)
       /\ pc' = IF w.c.cap < MaxRequestBufSize THEN "read" ELSE "process"
    /\ UNCHANGED <<backlog, lready, accepting, cur, starved, dials>>

\* read() returned 0: end of input, or no space left to read into.  What
\* earlier reads of this loop brought in is not parsed.
ReadEof(c) ==
    /\ pc = "read" /\ cur = c /\ ToRead(conn[c]) = 0
    /\ conn[c].cap = conn[c].len \/ conn[c].peer \in {"fin", "dead"}
    /\ Install(c, EndIfAsked([WorldOf(c) EXCEPT !.c.end = TRUE, !.c.why = "eof"]))
    /\ Return
    /\ UNCHANGED <<backlog, lready, accepting, starved, dials>>

\* read() returned -1, with EAGAIN or with the pending error of the socket.
ReadFails(c) ==
    /\ pc = "read" /\ cur = c /\ ToRead(conn[c]) = 0
    /\ conn[c].cap # conn[c].len /\ conn[c].peer \in {"up", "reset"}
    /\ conn' = [conn EXCEPT ![c] = [conn[c] EXCEPT
                   !.cut = FALSE,
                   !.peer = IF conn[c].peer = "reset" THEN "dead" ELSE "up"]]
    /\ errno' = IF conn[c].peer = "reset" THEN "ECONNRESET" ELSE "EAGAIN"
    /\ pc' = "process"
    /\ UNCHANGED <<memused, nfds, backlog, lready, accepting, cur, starved, dials>>

-----------------------------------------------------------------------------
(* The parse loop and what it calls.                                       *)

\* Positions of fresh at which the parser has something to answer.
Answerable(fresh) == {i \in DOMAIN fresh : fresh[i].kind # "head"}

\* Mutant: the start of a request is answered as if it were all of it.
Answer_Early(w) ==
    LET v == [w EXCEPT !.c.fresh = <<>>] IN
    CASE w.c.fresh = <<>> -> v
      [] w.c.fresh # <<>> /\ w.c.fresh[1].kind \in {"head", "full", "stream"} ->
             http_respond(v, 200, TRUE)
      [] OTHER -> hs_error_response(v, 400, FALSE)

\* Mutant: handle_request leaves a request in HTTP_SESSION_NOP, unanswered.
Answer_Unanswered(w) ==
    IF Answerable(w.c.fresh) = {} THEN w
    ELSE [w EXCEPT !.c.fresh = <<>>, !.c.state = "NOP"]

\* Every request that parses is answered 200 by handle_request, a streamed
\* one before its body is read.  The tail of a request whose head was lost
\* and the stretch of a body are no start of a request.  What follows the
\* answered unit goes with the request buffer.
Answer(w) ==
    LET fresh == w.c.fresh
        i == CHOOSE j \in Answerable(fresh) :
                 \A k \in Answerable(fresh) : j <= k
        u == fresh[i]
        v == [w EXCEPT !.c.fresh = <<>>]
        begun == w.c.mid \/ i > 1
    IN  CASE Answerable(fresh) = {} ->
                 [v EXCEPT !.c.mid = @ \/ fresh # <<>>]
          [] Answerable(fresh) # {} /\ u.kind \in {"full", "stream"} ->
                 http_respond(v, 200, u.keep)
          [] Answerable(fresh) # {} /\ u.kind = "rest" /\ begun ->
                 http_respond(v, 200, u.keep)
          [] Answerable(fresh) # {} /\ u.kind = "bad" ->
                 hs_error_response(v, 400, u.keep)
          [] OTHER -> hs_error_response(v, 400, FALSE)

\* Mutant: the handler reads on until the request is complete.
Process_Again(c) ==
    /\ pc = "process" /\ cur = c
    /\ LET w == EndIfAsked(Answer(WorldOf(c))) IN
       Install(c, w) /\ IF w.c.state = "READ" THEN pc' = "read" /\ cur' = c ELSE Return
    /\ UNCHANGED <<backlog, lready, accepting, starved, dials>>

Process(c) ==
    /\ pc = "process" /\ cur = c
    /\ Install(c, EndIfAsked(Answer(WorldOf(c))))
    /\ Return
    /\ UNCHANGED <<backlog, lready, accepting, starved, dials>>

-----------------------------------------------------------------------------
Init ==
    /\ conn = [c \in Conns |-> Closed]
    /\ memused = 0 /\ errno = "0" /\ nfds = 0
    /\ backlog = <<>> /\ lready = FALSE /\ accepting = FALSE
    /\ pc = "poll" /\ cur = NoConn /\ starved = FALSE /\ dials = 0

ClientStep(c) ==
    \/ Connect(c) \/ ClientRead(c) \/ ClientFin(c) \/ ClientReset(c)
    \/ \E u \in Unit : ClientSend(c, u)

\* One read of the receive loop, or what follows it.
SessionStep(c) == ReadData(c) \/ ReadEof(c) \/ ReadFails(c) \/ Process(c)

AcceptStep == AcceptFails \/ \E c \in Conns : AcceptNext(c)

Next ==
    \/ hs_server_listen_cb \/ AcceptStep
    \/ \E c \in Conns : \/ ClientStep(c) \/ SessionStep(c)
                        \/ hs_session_io_cb(c) \/ hs_request_timer_cb(c)

Spec == Init /\ [][Next]_vars

\* The thread runs whenever it can and epoll starves no descriptor; clients
\* promise nothing.  Weak fairness, written out with the guards under which
\* the actions are enabled.
FairSpec ==
    /\ Spec
    /\ []<>~(Idle /\ lready) \/ []<><<hs_server_listen_cb>>_vars
    /\ []<>~(accepting /\ pc = "poll") \/ []<><<AcceptStep>>_vars
    /\ \A c \in Conns :
          /\ []<>(cur # c) \/ []<><<SessionStep(c)>>_vars
          /\ []<>~(Idle /\ conn[c].ready) \/ []<><<hs_session_io_cb(c)>>_vars
          /\ \/ []<>~(Idle /\ conn[c].state # "FREE" /\ conn[c].timer)
             \/ []<><<hs_request_timer_cb(c)>>_vars

-----------------------------------------------------------------------------
(* Properties.                                                             *)

\* Every variable stays in its type.
TypeOK ==
    /\ conn \in [Conns -> Conn] /\ memused \in Int /\ errno \in Errno
    /\ nfds \in Int /\ backlog \in Seq(Conns) /\ lready \in BOOLEAN
    /\ accepting \in BOOLEAN /\ pc \in {"poll", "read", "process"}
    /\ cur \in Conns \cup {NoConn} /\ starved \in BOOLEAN /\ dials \in Nat

\* Only a session in state READ is ever inside its receive loop, and a
\* connection waits in the backlog once, before its session exists.
HandlerState ==
    /\ (pc = "poll") <=> (cur = NoConn)
    /\ \A c \in Conns : cur = c => conn[c].state = "READ"
    /\ \A i \in DOMAIN backlog : conn[backlog[i]].state = "FREE"
    /\ \A i, j \in DOMAIN backlog : i # j => backlog[i] # backlog[j]

\* hs_init_session zeroes the stream without freeing it: no session reaches
\* it with a buffer, and a closed session left none behind.
BufferDiscipline ==
    \A c \in Conns : conn[c].state \in {"FREE", "INIT"} => conn[c].cap = 0

\* A session with a response to finish is watched for EPOLLOUT, and an event
\* is queued unless the socket cannot take a byte: hs_write_response never
\* leaves a response nobody will resume.
OutputHasWakeup ==
    \A c \in Conns :
        conn[c].state = "WRITE" /\ conn[c].out > 0 /\ ~conn[c].end
            => /\ conn[c].interest = "out"
               /\ \/ conn[c].ready
                  \/ conn[c].room = 0 /\ conn[c].peer \in {"up", "fin"}

\* Edge-triggered input: a session that waits for a request while its socket
\* holds unread input or an end of input has an event queued, except in the
\* two ways the code can miss it: epoll still watches EPOLLOUT from an
\* earlier partial write, or the last receive loop stopped at the maximum
\* capacity before the socket was drained.
InputHasWakeup ==
    \A c \in Conns :
        conn[c].state \in {"INIT", "READ"} /\ cur # c
        /\ (conn[c].inbox # <<>> \/ conn[c].peer = "fin")
            => conn[c].ready \/ conn[c].interest = "out" \/ conn[c].cut

\* The same for the listening socket: a connection waits in the backlog
\* without an event only after an accept() that failed for want of resources.
BacklogHasWakeup == backlog # <<>> => lready \/ accepting \/ starved

\* HTTP_END_SESSION is acted on by the handler that set it, except for the
\* 503 answer, whose session is left to its timer.
LingeringIsOverload ==
    \A c \in Conns :
        conn[c].state # "FREE" /\ conn[c].end => conn[c].status = 503

\* hs_request_timer_cb tests timeout = 0 after the decrement: no live
\* session's counter is at or below zero, where it would never fire.
TimeoutArmed ==
    \A c \in Conns : conn[c].state # "FREE" => conn[c].timeout > 0

\* Without streamed bodies, a session never writes more responses than its
\* client sent requests, but for the 503 that turns it away, which is the
\* last: the second write of hs_error_response repeats nothing and no unit is
\* answered twice.
ResponsesMatchRequests ==
    \A c \in Conns :
        conn[c].resps <= conn[c].reqs + (IF conn[c].status = 503 THEN 1 ELSE 0)

\* A response on its way is finished or abandoned with its session; it is
\* never started over or replaced while bytes of it are left.
ResponseNotRestarted ==
    [][\A c \in Conns :
          conn[c].state = "WRITE" /\ conn[c].out > 0 /\ conn'[c].state # "FREE"
              => conn'[c].out <= conn[c].out
                 /\ conn'[c].status = conn[c].status]_vars

\* Under fair scheduling a session whose client goes quiet ends, by its end
\* of input, its response or its timer, unless timerfd_create failed for it;
\* and a server whose slots are all taken gets one back.
QuietSessionEnds ==
    /\ \A c \in Conns :
          conn[c].state # "FREE" ~> conn[c].state = "FREE" \/ ~conn[c].timer
    /\ (\A c \in Conns : conn[c].state # "FREE")
          ~> \E c \in Conns : conn[c].state = "FREE"

\* Under fair scheduling a connection that waits is accepted, or the accept
\* loop failed for want of resources and left it without an event.  What an
\* earlier failure left behind does not excuse the loop: once the next
\* connection brings an event, all that wait are accepted with it or the loop
\* fails again.
BacklogDrained ==
    \A c \in Conns :
        c \in Backlogged
            ~> c \notin Backlogged \/ (starved /\ ~lready /\ ~accepting)

-----------------------------------------------------------------------------
(* What the documentation says and the code does not do.                   *)

\* SIGPIPE is ignored because EPIPE is handled "at the call site": a session
\* is given up for EPIPE only when its own client is gone.
EpipeMeansPeerGone ==
    \A c \in Conns : conn[c].why = "epipe" => conn[c].peer \in {"reset", "dead"}
=============================================================================
