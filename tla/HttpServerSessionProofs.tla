----------------------- MODULE HttpServerSessionProofs -----------------------
(***************************************************************************)
(* Theorems about the sessions of HttpServer: their wake-ups, their end,   *)
(* and what they answer.  They rest on the invariant of HttpServerProofs.  *)
(***************************************************************************)
EXTENDS HttpServerProofs, FiniteSetTheorems

\* The response under way, as a number.
Under(k) == IF k.out > 0 THEN 1 ELSE 0

\* What writing a response leaves alone: the input and its bookkeeping, and
\* the watch of the socket unless it turns to EPOLLOUT.
Kept(k, x) ==
    /\ x.inbox = k.inbox /\ x.fresh = k.fresh /\ x.tail = k.tail
    /\ x.reqs = k.reqs /\ x.cut = k.cut
    /\ x.peer = "fin" => k.peer = "fin"
    /\ x.interest = "out" \/ (x.interest = k.interest /\ x.ready = k.ready)

\* Record x once hs_write_client_socket passed a part of the response on.
Passed(k, x) ==
    /\ Kept(k, x) /\ x.interest = k.interest /\ x.ready = k.ready
    /\ x.out <= k.out /\ x.resps + Under(x) = k.resps + Under(k)

\* Record x once hs_write_response went on with the response of record k.
Resumed(k, x) ==
    /\ Kept(k, x) /\ x.status = k.status /\ x.keep = k.keep
    /\ x.out <= k.out /\ x.resps + Under(x) = k.resps + Under(k)
    /\ x.state = "INIT" => k.state = "INIT" \/ k.keep
    /\ x.state = "WRITE" /\ ~x.end => x.out > 0

\* Record x once a response was begun for record k.
Begun(k, x, status, keep) ==
    /\ Kept(k, x) /\ x.status = status /\ x.keep = keep
    /\ x.resps + Under(x) = k.resps + 1
    /\ x.state = "INIT" => keep
    /\ x.state = "WRITE" /\ ~x.end => x.out > 0

-----------------------------------------------------------------------------
(* What the session operations do to the record of a connection.           *)

\* The types of the fields of a connection.
LEMMA ConnFields ==
  ASSUME NEW k \in Conn
  PROVE  /\ k.peer \in Peer /\ k.inbox \in Seq(Unit) /\ k.tail \in Tails
         /\ k.reqs \in Nat /\ k.state \in State /\ k.keep \in BOOLEAN
         /\ k.end \in BOOLEAN /\ k.cap \in Nat /\ k.len \in Nat
         /\ k.fresh \in Seq(Unit) /\ k.out \in Nat /\ k.interest \in Interest
         /\ k.ready \in BOOLEAN /\ k.status \in Status /\ k.resps \in Nat
         /\ k.cut \in BOOLEAN /\ Under(k) \in 0..1
  BY DEF Conn, Units, Under

\* hs_write_client_socket: a response is written once, whatever the socket
\* answers.
LEMMA SocketResumes ==
  ASSUME NEW w \in World
  PROVE  Passed(w.c, hs_write_client_socket(w).c)
<1> DEFINE n == Least(w.c.out, w.c.room)
           r == IF n > 0 /\ n = w.c.out THEN w.c.resps + 1 ELSE w.c.resps
           out == w.c.out - n
           room == w.c.room - n
           k == Taken(w.c, n)
           d == [w.c EXCEPT !.peer = "dead"]
           v == hs_write_client_socket(w)
<1>1. /\ out \in Nat /\ r \in Nat /\ out <= w.c.out
      /\ r + (IF out > 0 THEN 1 ELSE 0) = w.c.resps + Under(w.c)
      BY WorldFields, BufAssumption DEF Least, Room, Under
<1>2. w.c \in Conn /\ w.c.out \in Nat BY WorldFields
<1>3. \/ v = [w EXCEPT !.c = d, !.err = "ECONNRESET"]
      \/ v = [w EXCEPT !.err = "EPIPE"]
      \/ v = [w EXCEPT !.err = "EAGAIN"]
      \/ v = [w EXCEPT !.c = k]
  <2>1. CASE w.c.peer = "reset"
        BY <2>1, Zenon DEF hs_write_client_socket
  <2>2. CASE w.c.peer = "dead"
        BY <2>2, Zenon DEF hs_write_client_socket
  <2>3. CASE w.c.peer \in {"up", "fin"} /\ n = 0 /\ w.c.out > 0
        BY <2>3, Zenon DEF hs_write_client_socket
  <2>4. CASE w.c.peer \in {"up", "fin"} /\ ~(n = 0 /\ w.c.out > 0)
    <3>1. w.c.peer # "reset" /\ w.c.peer # "dead" BY <2>4
    <3>2. v = [w EXCEPT !.c = k]
          BY <2>4, <3>1 DEF hs_write_client_socket
    <3>3. QED BY <3>2
  <2>5. QED BY <2>1, <2>2, <2>3, <2>4, WorldFields DEF Peer
<1> HIDE DEF out, room, r
<1>4. /\ Kept(w.c, k) /\ k.interest = w.c.interest /\ k.ready = w.c.ready
      /\ k.out = out /\ k.resps = r
      BY <1>2 DEF Conn, Taken, out, room, r, Kept
<1>5. /\ Kept(w.c, d) /\ d.interest = w.c.interest /\ d.ready = w.c.ready
      /\ d.out = w.c.out /\ d.resps = w.c.resps
      BY <1>2 DEF Conn, Kept
<1> HIDE DEF k, d
<1>6. v.c = k \/ v.c = d \/ v.c = w.c
  <2> HIDE DEF v
  <2>1. QED BY <1>3 DEF World
<1>7. Passed(w.c, k) BY <1>1, <1>4 DEF Under, Passed
<1>8. Passed(w.c, d) BY <1>2, <1>5 DEF Under, Passed
<1>9. Passed(w.c, w.c) BY <1>2 DEF Kept, Passed
<1>10. QED BY <1>6, <1>7, <1>8, <1>9

\* hs_write_response: the response goes on, is done, or is given up.
LEMMA ResponseResumes ==
  ASSUME NEW w \in World
  PROVE  Resumed(w.c, hs_write_response(w).c)
<1> DEFINE v == hs_write_client_socket(w)
           a == hs_add_write_event(v)
           b == [a EXCEPT !.c.state = "WRITE"]
           f == hs_free_buffer(v)
           g == [f EXCEPT !.c.state = "INIT"]
           x == hs_write_response(w)
<1> SUFFICES Resumed(w.c, x.c) OBVIOUS
<1>1. Passed(w.c, v.c) BY SocketResumes
<1>2. /\ v \in World /\ v.c.keep = w.c.keep /\ v.c.status = w.c.status
      /\ v.c.state = w.c.state
      BY WriteSocket
<1>3. v.c \in Conn /\ v.c.out \in Nat BY <1>2, WorldFields
<1>4. RequestTimeout \in Int /\ KeepAliveTimeout \in Int BY TimeAssumption
<1>5. ASSUME NEW k, k.inbox = v.c.inbox, k.fresh = v.c.fresh,
             k.tail = v.c.tail, k.reqs = v.c.reqs, k.cut = v.c.cut,
             k.peer = v.c.peer, k.status = v.c.status, k.keep = v.c.keep,
             k.out = v.c.out, k.resps = v.c.resps,
             \/ k.interest = "out"
             \/ k.interest = v.c.interest /\ k.ready = v.c.ready,
             k.state = "INIT" => w.c.state = "INIT" \/ w.c.keep,
             k.state = "WRITE" /\ ~k.end => k.out > 0
      PROVE  Resumed(w.c, k)
  <2> HIDE DEF v
  <2>1. Under(k) = Under(v.c) BY <1>5 DEF Under
  <2>2. QED BY <1>1, <1>2, <1>5, <2>1 DEF Resumed, Passed, Kept
<1>6. CASE v.err = "EPIPE"
  <2>1. x = [v EXCEPT !.c.end = TRUE, !.c.why = "epipe"]
        BY <1>6, Zenon DEF hs_write_response
  <2> DEFINE k == [v.c EXCEPT !.end = TRUE, !.why = "epipe"]
  <2> HIDE DEF v, x
  <2>2. x.c = k BY <2>1, <1>2 DEF World
  <2>3. /\ x.c.inbox = v.c.inbox /\ x.c.fresh = v.c.fresh /\ x.c.tail = v.c.tail
        /\ x.c.reqs = v.c.reqs /\ x.c.cut = v.c.cut /\ x.c.peer = v.c.peer
        /\ x.c.status = v.c.status /\ x.c.keep = v.c.keep
        /\ x.c.out = v.c.out /\ x.c.resps = v.c.resps
        /\ x.c.interest = v.c.interest /\ x.c.ready = v.c.ready
        /\ x.c.end /\ x.c.state = v.c.state
        BY <1>3, <2>2 DEF Conn
  <2>4. QED BY <1>2, <1>5, <2>3
<1>7. CASE v.err # "EPIPE" /\ v.c.out # 0
  <2>1. x = hs_reset_timeout(b, RequestTimeout)
        BY <1>7, Zenon DEF hs_write_response
  <2> HIDE DEF v
  <2>2. a \in World /\ \E r \in BOOLEAN :
               a.c = [v.c EXCEPT !.interest = "out", !.ready = r]
        BY <1>2, AddWriteEvent
  <2> HIDE DEF a
  <2>3. b.c = [a.c EXCEPT !.state = "WRITE"] BY <2>2 DEF World
  <2>4. x.c = [b.c EXCEPT !.timeout = RequestTimeout]
    <3>1. "WRITE" \in State BY DEF State
    <3>2. b \in World BY <2>2, <3>1 DEF World, Conn
    <3> HIDE DEF b, x
    <3>3. QED BY <1>4, <2>1, <3>2, ResetTimeout
  <2> HIDE DEF b, x
  <2>5. /\ x.c.inbox = v.c.inbox /\ x.c.fresh = v.c.fresh /\ x.c.tail = v.c.tail
        /\ x.c.reqs = v.c.reqs /\ x.c.cut = v.c.cut /\ x.c.peer = v.c.peer
        /\ x.c.status = v.c.status /\ x.c.keep = v.c.keep
        /\ x.c.out = v.c.out /\ x.c.resps = v.c.resps
        /\ x.c.interest = "out" /\ x.c.state = "WRITE"
        BY <1>3, <2>2, <2>3, <2>4 DEF Conn
  <2>6. QED BY <1>3, <1>5, <1>7, <2>5
<1>8. CASE v.err # "EPIPE" /\ v.c.out = 0 /\ v.c.keep
  <2>1. x = hs_reset_timeout(g, KeepAliveTimeout)
        BY <1>8, Zenon DEF hs_write_response
  <2> HIDE DEF v
  <2>2. f \in World /\ f.c = [v.c EXCEPT !.cap = 0]
        BY <1>2, FreeBuffer
  <2> HIDE DEF f
  <2>3. g.c = [f.c EXCEPT !.state = "INIT"] BY <2>2 DEF World
  <2>4. x.c = [g.c EXCEPT !.timeout = KeepAliveTimeout]
    <3>1. "INIT" \in State BY DEF State
    <3>2. g \in World BY <2>2, <3>1 DEF World, Conn
    <3> HIDE DEF g, x
    <3>3. QED BY <1>4, <2>1, <3>2, ResetTimeout
  <2> HIDE DEF g, x
  <2>5. /\ x.c.inbox = v.c.inbox /\ x.c.fresh = v.c.fresh /\ x.c.tail = v.c.tail
        /\ x.c.reqs = v.c.reqs /\ x.c.cut = v.c.cut /\ x.c.peer = v.c.peer
        /\ x.c.status = v.c.status /\ x.c.keep = v.c.keep
        /\ x.c.out = v.c.out /\ x.c.resps = v.c.resps
        /\ x.c.interest = v.c.interest /\ x.c.ready = v.c.ready
        /\ x.c.state = "INIT"
        BY <1>3, <2>2, <2>3, <2>4 DEF Conn
  <2>6. QED BY <1>2, <1>5, <1>8, <2>5
<1>9. CASE v.err # "EPIPE" /\ v.c.out = 0 /\ ~v.c.keep
  <2>1. x = [v EXCEPT !.c.end = TRUE, !.c.why = "done"]
        BY <1>9, Zenon DEF hs_write_response
  <2> DEFINE k == [v.c EXCEPT !.end = TRUE, !.why = "done"]
  <2> HIDE DEF v, x
  <2>2. x.c = k BY <2>1, <1>2 DEF World
  <2>3. /\ x.c.inbox = v.c.inbox /\ x.c.fresh = v.c.fresh /\ x.c.tail = v.c.tail
        /\ x.c.reqs = v.c.reqs /\ x.c.cut = v.c.cut /\ x.c.peer = v.c.peer
        /\ x.c.status = v.c.status /\ x.c.keep = v.c.keep
        /\ x.c.out = v.c.out /\ x.c.resps = v.c.resps
        /\ x.c.interest = v.c.interest /\ x.c.ready = v.c.ready
        /\ x.c.end /\ x.c.state = v.c.state
        BY <1>3, <2>2 DEF Conn
  <2>4. QED BY <1>2, <1>5, <2>3
<1>10. QED BY <1>6, <1>7, <1>8, <1>9

\* http_respond: one response more is under way or written.
LEMMA ResponseBegins ==
  ASSUME NEW w \in World, NEW status \in Status, NEW keep \in BOOLEAN
  PROVE  Begun(w.c, http_respond(w, status, keep).c, status, keep)
<1> DEFINE a == [w EXCEPT !.c.keep = keep]
           f == hs_free_buffer(a)
           m == f.mem + ResponseBufSize
           k == [f.c EXCEPT !.cap = ResponseBufSize, !.len = ResponseLen,
                            !.out = ResponseLen, !.status = status,
                            !.state = "WRITE"]
           x == [f EXCEPT !.mem = m, !.c = k]
           y == hs_write_response(x)
<1>1. a \in World /\ a.c = [w.c EXCEPT !.keep = keep]
      BY DEF World, Conn
<1> HIDE DEF a
<1>2. f \in World /\ f.c = [a.c EXCEPT !.cap = 0] BY <1>1, FreeBuffer
<1> HIDE DEF f
<1>3. /\ ResponseBufSize \in Nat /\ ResponseLen \in Nat /\ ResponseLen > 0
      /\ "WRITE" \in State
      BY BufAssumption DEF State
<1>4. w.c \in Conn /\ m \in Int BY <1>2, <1>3, WorldFields
<1>5. k \in Conn BY <1>2, <1>3, WorldFields DEF Conn
<1>6. /\ Kept(w.c, k) /\ k.status = status /\ k.keep = keep
      /\ k.out = ResponseLen /\ k.state = "WRITE" /\ k.resps = w.c.resps
      BY <1>1, <1>2, <1>4 DEF Conn, Kept
<1>7. http_respond(w, status, keep) = y BY DEF http_respond, a, f
<1> HIDE DEF m, k
<1>8. x \in World /\ x.c = k BY <1>2, <1>4, <1>5 DEF World
<1> HIDE DEF x
<1>9. Resumed(k, y.c) BY <1>8, ResponseResumes
<1> HIDE DEF y
<1>10. Under(k) = 1 BY <1>3, <1>6 DEF Under
<1>11. Kept(w.c, y.c) BY <1>6, <1>9 DEF Resumed, Kept
<1>12. QED BY <1>6, <1>7, <1>9, <1>10, <1>11 DEF Resumed, Begun

\* hs_error_response: the second write repeats nothing.
LEMMA ErrorBegins ==
  ASSUME NEW w \in World, NEW status \in Status, NEW keep \in BOOLEAN,
         w.c.timeout > 0
  PROVE  Begun(w.c, hs_error_response(w, status, keep).c, status, keep)
<1> DEFINE x == http_respond(w, status, keep)
           y == hs_write_response(x)
<1>1. hs_error_response(w, status, keep) = y BY DEF hs_error_response
<1>2. x \in World /\ Begun(w.c, x.c, status, keep)
      BY Respond, ResponseBegins DEF Wrote
<1> HIDE DEF x
<1>3. Resumed(x.c, y.c) BY <1>2, ResponseResumes
<1> HIDE DEF y
<1>4. Kept(w.c, y.c) BY <1>2, <1>3 DEF Begun, Resumed, Kept
<1>5. QED BY <1>1, <1>2, <1>3, <1>4 DEF Begun, Resumed

\* hs_end_session: the input goes, the counts stay.
LEMMA EndKeeps ==
  ASSUME NEW w \in World
  PROVE  LET x == hs_end_session(w).c IN
         /\ x.state = "FREE" /\ x.inbox = <<>> /\ x.fresh = <<>>
         /\ x.tail = w.c.tail /\ x.reqs = w.c.reqs /\ x.status = w.c.status
         /\ x.resps = w.c.resps
<1> DEFINE v == hs_free_buffer(w)
           f == v.fd - (IF w.c.timer THEN 2 ELSE 1)
           e == IF w.c.timer THEN v.err ELSE "EBADF"
           k == [v.c EXCEPT !.timer = FALSE, !.state = "FREE",
                            !.interest = "none", !.ready = FALSE,
                            !.inbox = <<>>, !.fresh = <<>>]
<1>1. v \in World /\ v.c = [w.c EXCEPT !.cap = 0] BY FreeBuffer
<1>2. hs_end_session(w) = [v EXCEPT !.fd = f, !.err = e, !.c = k]
      BY DEF hs_end_session
<1>3. w.c \in Conn BY WorldFields
<1> HIDE DEF v, f, e
<1>4. /\ k.state = "FREE" /\ k.inbox = <<>> /\ k.fresh = <<>>
      /\ k.tail = w.c.tail /\ k.reqs = w.c.reqs /\ k.status = w.c.status
      /\ k.resps = w.c.resps
      BY <1>1, <1>3 DEF Conn
<1> HIDE DEF k
<1>5. hs_end_session(w).c = k BY <1>1, <1>2 DEF World
<1>6. QED BY <1>4, <1>5

\* hs_init_session: the socket's side is left alone, what was read and not
\* parsed is dropped.
LEMMA InitKeeps ==
  ASSUME NEW w \in World
  PROVE  hs_init_session(w).c =
           [w.c EXCEPT !.keep = FALSE, !.end = FALSE, !.mid = FALSE,
                       !.cap = 0, !.len = 0, !.fresh = <<>>,
                       !.out = 0, !.state = "READ"]
  BY DEF hs_init_session, World

\* Up to the first read(): the session has a buffer.
LEMMA BeginKeeps ==
  ASSUME NEW w \in World
  PROVE  BeginRead(w).c =
           [w.c EXCEPT !.cap = IF w.c.cap = 0 THEN RequestBufSize ELSE w.c.cap,
                       !.state = "READ", !.timeout = RequestTimeout]
<1> DEFINE m == w.mem + RequestBufSize
           k == [w.c EXCEPT !.cap = RequestBufSize]
           v == IF w.c.cap = 0 THEN [w EXCEPT !.mem = m, !.c = k] ELSE w
           j == [v.c EXCEPT !.state = "READ"]
           x == [v EXCEPT !.c = j]
<1>1. /\ RequestBufSize \in Nat /\ "READ" \in State /\ RequestTimeout \in Int
      BY BufAssumption, TimeAssumption DEF State
<1>2. w.c \in Conn /\ m \in Int BY <1>1, WorldFields
<1>3. k \in Conn BY <1>1, <1>2 DEF Conn
<1>4. BeginRead(w) = hs_reset_timeout(x, RequestTimeout)
  <2>1. w.c.cap = 0 => [w EXCEPT !.mem = m, !.c.cap = RequestBufSize]
                         = [w EXCEPT !.mem = m, !.c = k]
        BY DEF World
  <2>2. QED BY <2>1, Zenon DEF BeginRead
<1> HIDE DEF m, k
<1>5. v \in World /\ v.c = IF w.c.cap = 0 THEN k ELSE w.c
      BY <1>2, <1>3 DEF World
<1> HIDE DEF v
<1>6. j \in Conn BY <1>1, <1>5, WorldFields DEF Conn
<1> HIDE DEF j
<1>7. x \in World /\ x.c = j BY <1>5, <1>6 DEF World
<1> HIDE DEF x
<1>8. BeginRead(w).c = [j EXCEPT !.timeout = RequestTimeout]
      BY <1>1, <1>4, <1>7, ResetTimeout
<1>9. CASE w.c.cap = 0 BY <1>2, <1>5, <1>8, <1>9 DEF Conn, j, k
<1>10. CASE w.c.cap # 0 BY <1>2, <1>5, <1>8, <1>10 DEF Conn, j
<1>11. QED BY <1>9, <1>10

\* One read(): units move from the socket to the buffer, in their order; the
\* buffer stays within the maximum and holds what was read.
LEMMA ReceivedKeeps ==
  ASSUME NEW w \in World, NEW n \in 1..Len(w.c.inbox),
         w.c.cap \in 1..MaxRequestBufSize, n <= w.c.cap - w.c.len
  PROVE  LET x == Received(w, n).c IN
         /\ x.fresh \o x.inbox = w.c.fresh \o w.c.inbox
         /\ x.cap \in 1..MaxRequestBufSize /\ x.len <= x.cap
         /\ x.cut <=> x.cap >= MaxRequestBufSize
         /\ x.state = w.c.state /\ x.interest = w.c.interest
         /\ x.ready = w.c.ready /\ x.status = w.c.status /\ x.keep = w.c.keep
         /\ x.end = w.c.end /\ x.out = w.c.out /\ x.tail = w.c.tail
         /\ x.reqs = w.c.reqs /\ x.resps = w.c.resps /\ x.peer = w.c.peer
<1> DEFINE cap == GrownCap(w.c.cap, w.c.len + n)
           m == w.mem - w.c.cap + cap
           len == w.c.len + n
           fresh == w.c.fresh \o SubSeq(w.c.inbox, 1, n)
           inbox == SubSeq(w.c.inbox, n + 1, Len(w.c.inbox))
<1>0. (cap >= MaxRequestBufSize) \in BOOLEAN OBVIOUS
<1>1. PICK t \in BOOLEAN : t = (cap >= MaxRequestBufSize) BY <1>0, Zenon
<1> DEFINE k == [w.c EXCEPT !.cap = cap, !.len = len, !.fresh = fresh,
                            !.inbox = inbox, !.cut = (cap >= MaxRequestBufSize)]
<1>2. /\ w.c.inbox \in Seq(Unit) /\ w.c.fresh \in Seq(Unit) /\ w.c \in Conn
      /\ w.c.cap \in Nat /\ w.c.len \in Nat
      BY WorldFields DEF Units
<1>3. cap \in 1..MaxRequestBufSize /\ len <= cap
      BY <1>2, BufAssumption DEF GrownCap, Least
<1>4. fresh \o inbox = w.c.fresh \o w.c.inbox
  <2> DEFINE b == w.c.inbox
  <2>1. /\ SubSeq(b, 1, n) \in Seq(Unit) /\ inbox \in Seq(Unit)
        BY <1>2, SubSeqProperties
  <2>2. SubSeq(b, 1, n) \o SubSeq(b, n + 1, Len(b)) = SubSeq(b, 1, Len(b))
        BY <1>2, ConcatAdjacentSubSeq
  <2>3. SubSeq(b, 1, Len(b)) = b BY <1>2, SubSeqFull
  <2>4. fresh \o inbox = w.c.fresh \o (SubSeq(b, 1, n) \o inbox)
    <3> DEFINE f == w.c.fresh
               s == SubSeq(b, 1, n)
    <3>1. f \in Seq(Unit) /\ s \in Seq(Unit) BY <1>2, <2>1
    <3> HIDE DEF f, s, inbox
    <3>2. (f \o s) \o inbox = f \o (s \o inbox)
          BY <2>1, <3>1, ConcatAssociative
    <3>3. QED BY <3>2 DEF f, s
  <2>5. QED BY <2>2, <2>3, <2>4
<1>5. Received(w, n) = [w EXCEPT !.mem = m, !.c = k]
      BY DEF Received
<1>6. k = [w.c EXCEPT !.cap = cap, !.len = len, !.fresh = fresh,
                      !.inbox = inbox, !.cut = t]
      BY <1>1, Zenon
<1>7. Received(w, n).c = k
  <2> HIDE DEF m, k
  <2>1. QED BY <1>5 DEF World
<1> HIDE DEF cap, m, len, fresh, inbox, k
<1>8. /\ k.cap = cap /\ k.len = len /\ k.fresh = fresh /\ k.inbox = inbox
      /\ k.cut = t
      /\ k.state = w.c.state /\ k.interest = w.c.interest
      /\ k.ready = w.c.ready /\ k.status = w.c.status /\ k.keep = w.c.keep
      /\ k.end = w.c.end /\ k.out = w.c.out /\ k.tail = w.c.tail
      /\ k.reqs = w.c.reqs /\ k.resps = w.c.resps /\ k.peer = w.c.peer
      BY <1>2, <1>6 DEF Conn
<1>9. QED BY <1>1, <1>3, <1>4, <1>7, <1>8

-----------------------------------------------------------------------------
(* Counting what the parser will have to answer.                           *)

\* The units that wait for an answer are finitely many.
LEMMA AnswerableFinite ==
  ASSUME NEW s \in Seq(Unit)
  PROVE  /\ IsFiniteSet(Answerable(s)) /\ Cardinality(Answerable(s)) \in Nat
         /\ \A i : i \in Answerable(s) <=> i \in 1..Len(s) /\ s[i].kind # "head"
<1>1. DOMAIN s = 1..Len(s) /\ Len(s) \in Nat OBVIOUS
<1>2. IsFiniteSet(1..Len(s)) BY <1>1, FS_Interval
<1>3. Answerable(s) \in SUBSET (1..Len(s)) BY <1>1 DEF Answerable
<1>4. IsFiniteSet(Answerable(s)) BY <1>2, <1>3, FS_Subset
<1>5. Cardinality(Answerable(s)) \in Nat BY <1>4, FS_CardinalityType
<1>6. QED BY <1>1, <1>4, <1>5 DEF Answerable

\* A unit more to answer, unless it is the start of a request.
LEMMA AnswerableAppend ==
  ASSUME NEW s \in Seq(Unit), NEW u \in Unit
  PROVE  Cardinality(Answerable(Append(s, u)))
           = Cardinality(Answerable(s)) + (IF u.kind = "head" THEN 0 ELSE 1)
<1> DEFINE t == Append(s, u)
           A == Answerable(s)
           B == Answerable(t)
<1>1. /\ t \in Seq(Unit) /\ Len(t) = Len(s) + 1 /\ Len(s) \in Nat
      /\ \A i \in 1..Len(s) : t[i] = s[i]
      /\ t[Len(s) + 1] = u
      BY AppendProperties
<1> HIDE DEF t
<1>2. /\ IsFiniteSet(A) /\ Cardinality(A) \in Nat
      /\ \A i : i \in A <=> i \in 1..Len(s) /\ s[i].kind # "head"
      BY AnswerableFinite
<1>3. \A i : i \in B <=> i \in 1..Len(t) /\ t[i].kind # "head"
      BY <1>1, AnswerableFinite
<1> HIDE DEF A, B
<1>4. \A i : i \in 1..Len(t) <=> i \in 1..Len(s) \/ i = Len(s) + 1
      BY <1>1
<1>5. Len(s) + 1 \notin 1..Len(s) BY <1>1
<1>6. CASE u.kind = "head"
  <2>1. \A i : i \in B <=> i \in A BY <1>1, <1>2, <1>3, <1>4, <1>5, <1>6
  <2>2. B = A BY <2>1, Zenon
  <2>3. QED BY <1>2, <1>6, <2>2 DEF A, B, t
<1>7. CASE u.kind # "head"
  <2>1. \A i : i \in B <=> i \in A \cup {Len(s) + 1}
        BY <1>1, <1>2, <1>3, <1>4, <1>5, <1>7
  <2>2. B = A \cup {Len(s) + 1} BY <2>1, Zenon
  <2>3. Len(s) + 1 \notin A BY <1>2, <1>5
  <2>4. Cardinality(B) = Cardinality(A) + 1
        BY <1>2, <2>2, <2>3, FS_AddElement
  <2>5. QED BY <1>2, <1>7, <2>4 DEF A, B, t
<1>8. QED BY <1>6, <1>7

\* Dropping what was read leaves no more to answer, and less if something in
\* it was to be answered.
LEMMA AnswerableDropped ==
  ASSUME NEW f \in Seq(Unit), NEW b \in Seq(Unit)
  PROVE  /\ <<>> \o b = b
         /\ Cardinality(Answerable(b)) <= Cardinality(Answerable(f \o b))
         /\ Answerable(f) # {} => Cardinality(Answerable(b)) + 1
                                    <= Cardinality(Answerable(f \o b))
<1> DEFINE s == f \o b
           n == Len(f)
           A == Answerable(s)
           B == Answerable(b)
           F == Answerable(f)
<1>1. /\ s \in Seq(Unit) /\ Len(s) = n + Len(b)
      /\ \A i \in 1..n + Len(b) : s[i] = IF i <= n THEN f[i] ELSE b[i - n]
      BY ConcatProperties
<1>2. n \in Nat /\ Len(b) \in Nat OBVIOUS
<1>3. /\ IsFiniteSet(A) /\ Cardinality(A) \in Nat
      /\ \A i : i \in A <=> i \in 1..Len(s) /\ s[i].kind # "head"
      BY <1>1, AnswerableFinite
<1>4. /\ IsFiniteSet(B) /\ Cardinality(B) \in Nat
      /\ \A i : i \in B <=> i \in 1..Len(b) /\ b[i].kind # "head"
      BY AnswerableFinite
<1>5. \A i : i \in F <=> i \in 1..Len(f) /\ f[i].kind # "head"
      BY AnswerableFinite
<1> HIDE DEF s, n, A, B, F
<1> DEFINE g == [i \in B |-> i + n]
<1>6. ASSUME NEW i \in B PROVE i + n \in A /\ i + n \notin F
  <2>1. i \in 1..Len(b) /\ b[i].kind # "head" BY <1>4
  <2>2. /\ i + n \in 1..n + Len(b) /\ ~(i + n <= n) /\ (i + n) - n = i
        BY <1>2, <2>1
  <2>3. s[i + n] = b[i] BY <1>1, <2>2
  <2>4. i + n \notin 1..Len(f) BY <2>2 DEF n
  <2>5. QED BY <1>1, <1>3, <1>5, <2>1, <2>2, <2>3, <2>4
<1>7. ASSUME NEW T, IsFiniteSet(T), \A i \in B : i + n \in T
      PROVE  Cardinality(B) <= Cardinality(T)
  <2>1. g \in [B -> T] BY <1>7
  <2>2. \A i, j \in B : g[i] = g[j] => i = j
    <3>1. B \subseteq Nat BY <1>4
    <3>2. QED BY <1>2, <3>1
  <2> HIDE DEF g
  <2>3. g \in Injection(B, T) BY <2>1, <2>2 DEF Injection, IsInjective
  <2>4. QED BY <1>7, <2>3, FS_Injection
<1>8. Cardinality(B) <= Cardinality(A) BY <1>3, <1>6, <1>7
<1>9. ASSUME F # {} PROVE Cardinality(B) + 1 <= Cardinality(A)
  <2>1. PICK e : e \in F BY <1>9
  <2>2. e \in 1..n /\ f[e].kind # "head" BY <1>5, <2>1 DEF n
  <2>3. e \in 1..n + Len(b) /\ e <= n BY <1>2, <2>2
  <2>4. e \in A BY <1>1, <1>3, <2>2, <2>3
  <2>5. IsFiniteSet(A \ {e}) /\ Cardinality(A \ {e}) = Cardinality(A) - 1
        BY <1>3, <2>4, FS_RemoveElement
  <2>6. \A i \in B : i + n \in A \ {e} BY <1>6, <2>1
  <2>7. Cardinality(B) <= Cardinality(A \ {e}) BY <1>7, <2>5, <2>6
  <2>8. QED BY <1>3, <1>4, <2>5, <2>7
<1>10. <<>> \o b = b BY ConcatEmptySeq
<1>11. QED BY <1>8, <1>9, <1>10 DEF A, B, F, s

-----------------------------------------------------------------------------
(* The invariant of a session.                                             *)

\* Only the 503 answer leaves a session that asked for its end.
LingerOK(k) == k.state # "FREE" /\ k.end => k.status = 503

\* A session that is turned away does nothing else until it ends.
OverloadOK(k) ==
    k.state # "FREE" /\ k.status = 503 => k.state = "WRITE" /\ ~k.keep

\* The socket of a session is watched.
WatchOK(k) == k.state # "FREE" => k.interest \in {"in", "out"}

\* A session in state WRITE has something to write and waits for EPOLLOUT.
WriteOK(k) ==
    k.state = "WRITE" /\ ~k.end => k.out > 0 /\ k.interest = "out"

\* A session in state READ has a buffer within the maximum, not overrun.
RoomOK(k) ==
    k.state = "READ" => k.cap \in 1..MaxRequestBufSize /\ k.len <= k.cap

SessionOK(k) ==
    LingerOK(k) /\ OverloadOK(k) /\ WatchOK(k) /\ WriteOK(k) /\ RoomOK(k)

\* Input, or its end, waits for a session between two handlers with an event
\* queued, but for the two exceptions InputHasWakeup names.
InputOK(k) ==
    k.state \in {"INIT", "READ"} /\ (k.inbox # <<>> \/ k.peer = "fin")
        => k.ready \/ k.interest = "out" \/ k.cut

\* Responses written or under way, and requests yet to be answered: units
\* received that complete a request, and a request begun.
Answered(k) == k.resps + (IF k.state = "WRITE" THEN Under(k) ELSE 0)
Owed(k) == Cardinality(Answerable(k.fresh \o k.inbox))
             + (IF k.tail = "head" THEN 1 ELSE 0)
Turned(k) == IF k.status = 503 THEN 1 ELSE 0

\* No more is answered and owed than was asked, but for the 503.
CountOK(k) == Answered(k) + Owed(k) <= k.reqs + Turned(k)

\* The counts are numbers.
LEMMA CountTypes ==
  ASSUME NEW k \in Conn
  PROVE  /\ Answered(k) \in Nat /\ Owed(k) \in Nat /\ Turned(k) \in 0..1
         /\ Cardinality(Answerable(k.fresh \o k.inbox)) \in Nat
         /\ k.reqs \in Nat /\ k.resps \in Nat /\ Under(k) \in 0..1
<1>1. /\ k.fresh \in Seq(Unit) /\ k.inbox \in Seq(Unit) /\ k.reqs \in Nat
      /\ k.resps \in Nat /\ Under(k) \in 0..1
      BY ConnFields
<1>2. k.fresh \o k.inbox \in Seq(Unit) BY <1>1
<1>3. Cardinality(Answerable(k.fresh \o k.inbox)) \in Nat
      BY <1>2, AnswerableFinite
<1>4. QED BY <1>1, <1>3 DEF Answered, Owed, Turned

\* A step that answers nothing and loses nothing keeps the count.
LEMMA CountKept ==
  ASSUME NEW k \in Conn, NEW x \in Conn, CountOK(k),
         x.fresh \o x.inbox = k.fresh \o k.inbox, x.tail = k.tail,
         x.reqs = k.reqs, x.status = k.status, x.resps = k.resps,
         x.state = "WRITE" => k.state = "WRITE" /\ x.out = k.out
  PROVE  CountOK(x)
<1>1. Owed(x) = Owed(k) /\ Turned(x) = Turned(k) BY DEF Owed, Turned
<1>2. Answered(x) <= Answered(k)
      BY CountTypes DEF Answered, Under
<1> HIDE DEF Answered, Owed, Turned
<1>3. QED BY <1>1, <1>2, CountTypes DEF CountOK

\* A step that empties the buffer and answers what it answered before keeps
\* the count.
LEMMA CountDropped ==
  ASSUME NEW k \in Conn, NEW x \in Conn, CountOK(k),
         x.fresh = <<>>, x.inbox \in {<<>>, k.inbox}, x.tail = k.tail,
         x.reqs = k.reqs, x.status = k.status, Answered(x) <= Answered(k)
  PROVE  CountOK(x)
<1>1. k.fresh \in Seq(Unit) /\ k.inbox \in Seq(Unit) BY ConnFields
<1>2. Cardinality(Answerable(x.fresh \o x.inbox))
        <= Cardinality(Answerable(k.fresh \o k.inbox))
  <2>1. CASE x.inbox = k.inbox BY <1>1, <2>1, AnswerableDropped
  <2>2. CASE x.inbox = <<>>
    <3>1. <<>> \in Seq(Unit) OBVIOUS
    <3>2. x.fresh \o x.inbox = <<>> BY <2>2, <3>1, AnswerableDropped
    <3>3. Answerable(<<>>) = {} BY DEF Answerable
    <3>4. Cardinality(Answerable(x.fresh \o x.inbox)) = 0
          BY <3>2, <3>3, FS_EmptySet
    <3>5. QED BY <3>4, CountTypes
  <2>3. QED BY <2>1, <2>2
<1>3. Owed(x) <= Owed(k) /\ Turned(x) = Turned(k)
  <2> DEFINE a == Cardinality(Answerable(x.fresh \o x.inbox))
             b == Cardinality(Answerable(k.fresh \o k.inbox))
             t == IF k.tail = "head" THEN 1 ELSE 0
  <2>1. a \in Nat /\ b \in Nat BY CountTypes
  <2>2. t \in Nat /\ Owed(x) = a + t /\ Owed(k) = b + t BY DEF Owed
  <2>3. a <= b BY <1>2
  <2> HIDE DEF a, b, t
  <2>4. QED BY <2>1, <2>2, <2>3 DEF Turned
<1>4. QED BY <1>3, CountTypes DEF CountOK

\* What a handler leaves of a session found as record k: record x.
Moved(k, x) ==
    /\ SessionOK(x)
    /\ CountOK(k) => CountOK(x)
    /\ k.state = "WRITE" /\ x.state # "FREE"
          => x.out <= k.out /\ x.status = k.status

\* A session that ends.
LEMMA EndMoves ==
  ASSUME NEW k \in Conn, NEW w \in World, w.c.tail = k.tail,
         w.c.reqs = k.reqs, w.c.status = k.status, w.c.resps <= Answered(k)
  PROVE  LET x == hs_end_session(w).c IN
         x.state = "FREE" /\ Moved(k, x) /\ InputOK(x)
<1> DEFINE x == hs_end_session(w).c
<1>1. x \in Conn BY EndSession, WorldFields
<1>2. /\ x.state = "FREE" /\ x.inbox = <<>> /\ x.fresh = <<>>
      /\ x.tail = w.c.tail /\ x.reqs = w.c.reqs /\ x.status = w.c.status
      /\ x.resps = w.c.resps
      BY EndKeeps
<1> HIDE DEF x
<1>3. SessionOK(x) /\ InputOK(x)
      BY <1>2 DEF SessionOK, LingerOK, OverloadOK, WatchOK, WriteOK, RoomOK,
                  InputOK
<1>4. Answered(x) = x.resps + 0 BY <1>2 DEF Answered
<1>5. Answered(x) <= Answered(k) BY <1>1, <1>2, <1>4, CountTypes
<1>6. CountOK(k) => CountOK(x) BY <1>1, <1>2, <1>5, CountDropped
<1>7. QED BY <1>2, <1>3, <1>6 DEF Moved, x

\* The write case of http_session.
LEMMA WriteMoves ==
  ASSUME NEW w \in World, w.c.state = "WRITE", BufOK(w.c), TimeOK(w.c),
         SessionOK(w.c)
  PROVE  LET x == EndIfAsked(hs_write_response(w)).c IN
         Moved(w.c, x) /\ InputOK(x)
<1> DEFINE k == w.c
           v == hs_write_response(w)
<1>1. Wrote(w, v) BY WriteResponse DEF TimeOK
<1>2. Resumed(k, v.c) BY ResponseResumes
<1> HIDE DEF v
<1>3. v \in World /\ v.c \in Conn /\ k \in Conn BY <1>1, WorldFields DEF Wrote
<1>4. /\ k.resps \in Nat /\ Under(k) \in 0..1 /\ v.c.resps \in Nat
      /\ Under(v.c) \in 0..1
      BY <1>3, ConnFields
<1>5. Answered(k) = k.resps + Under(k) BY DEF Answered
<1>6. v.c.resps + Under(v.c) = Answered(k) /\ Answered(k) \in Nat
      BY <1>2, <1>3, <1>5, CountTypes DEF Resumed
<1>7. CASE v.c.end
  <2>1. EndIfAsked(v) = hs_end_session(v) BY <1>7 DEF EndIfAsked
  <2>2. v.c.resps <= Answered(k) BY <1>4, <1>6
  <2>3. Moved(k, hs_end_session(v).c) /\ InputOK(hs_end_session(v).c)
        BY <1>2, <1>3, <2>2, EndMoves DEF Resumed, Kept
  <2>4. QED BY <2>1, <2>3 DEF v
<1>8. CASE ~v.c.end
  <2>1. EndIfAsked(v) = v BY <1>8 DEF EndIfAsked
  <2> DEFINE x == v.c
  <2>2. x.state \in {"WRITE", "INIT"} BY <1>1 DEF Wrote
  <2>3. SessionOK(x)
    <3>1. LingerOK(x) /\ RoomOK(x) BY <1>8, <2>2 DEF LingerOK, RoomOK
    <3>2. OverloadOK(x)
          BY <1>2, <2>2 DEF Resumed, SessionOK, OverloadOK
    <3>3. WatchOK(x)
          BY <1>2 DEF Resumed, Kept, SessionOK, WatchOK
    <3>4. WriteOK(x)
          BY <1>1, <1>2, <1>8 DEF Resumed, Wrote, OutOK, WriteOK
    <3>5. QED BY <3>1, <3>2, <3>3, <3>4 DEF SessionOK
  <2>4. InputOK(x)
    <3>1. CASE x.state = "INIT"
      <4>1. k.keep BY <1>2, <3>1 DEF Resumed
      <4>2. ~k.end BY <4>1 DEF SessionOK, OverloadOK, LingerOK
      <4>3. k.interest = "out" BY <4>2 DEF SessionOK, WriteOK
      <4>4. x.interest = "out" BY <1>2, <4>3 DEF Resumed, Kept
      <4>5. QED BY <4>4 DEF InputOK
    <3>2. CASE x.state = "WRITE" BY <3>2 DEF InputOK
    <3>3. QED BY <2>2, <3>1, <3>2
  <2>5. CountOK(k) => CountOK(x)
    <3>1. Answered(x) <= Answered(k)
          BY <1>4, <1>6 DEF Answered
    <3>2. Owed(x) = Owed(k) /\ Turned(x) = Turned(k) /\ x.reqs = k.reqs
          BY <1>2 DEF Resumed, Kept, Owed, Turned
    <3> HIDE DEF x, k
    <3>3. Answered(x) \in Nat /\ Owed(x) \in Nat /\ Turned(x) \in 0..1
          /\ Answered(k) \in Nat /\ Owed(k) \in Nat /\ k.reqs \in Nat
          BY <1>3, CountTypes DEF x, k
    <3>4. QED BY <3>1, <3>2, <3>3 DEF CountOK
  <2>6. x.out <= k.out /\ x.status = k.status BY <1>2 DEF Resumed
  <2>7. QED BY <2>1, <2>3, <2>4, <2>5, <2>6 DEF Moved, v
<1>9. QED BY <1>7, <1>8

\* Record j is record k without what was read.
Emptied(k, j) ==
    /\ j.inbox = k.inbox /\ j.fresh = <<>> /\ j.tail = k.tail
    /\ j.reqs = k.reqs /\ j.cut = k.cut /\ j.peer = k.peer
    /\ j.interest = k.interest /\ j.ready = k.ready /\ j.resps = k.resps

\* A response other than 503 was begun.
BegunOK(k, x) == \E status \in {200, 400} : \E keep : Begun(k, x, status, keep)

\* A request that was answered with something else than 503.
LEMMA AnsweredMoves ==
  ASSUME NEW k \in Conn, NEW w \in World, NEW x \in World,
         k.state = "READ", SessionOK(k), InputOK(k),
         Answerable(k.fresh) # {}, Emptied(k, w.c), Wrote(w, x),
         BegunOK(w.c, x.c)
  PROVE  Moved(k, EndIfAsked(x).c) /\ InputOK(EndIfAsked(x).c)
<1> DEFINE y == x.c
<1>1. k.status # 503 BY DEF SessionOK, OverloadOK
<1>2. PICK status \in {200, 400} : \E keep : Begun(w.c, x.c, status, keep)
      BY DEF BegunOK
<1>3. /\ y.inbox = k.inbox /\ y.fresh = <<>> /\ y.tail = k.tail
      /\ y.reqs = k.reqs /\ y.cut = k.cut
      /\ y.peer = "fin" => k.peer = "fin"
      /\ y.interest = "out" \/ (y.interest = k.interest /\ y.ready = k.ready)
      /\ y.status = status /\ y.resps + Under(y) = k.resps + 1
      /\ y.state = "WRITE" /\ ~y.end => y.out > 0
      BY <1>2 DEF Begun, Kept, Emptied
<1>4. y \in Conn /\ y.state \in {"WRITE", "INIT"} /\ OutOK(y)
      /\ (y.state = "INIT" => y.out = 0)
      BY WorldFields DEF Wrote
<1>5. k.interest \in {"in", "out"} BY DEF SessionOK, WatchOK
<1>6. /\ Cardinality(Answerable(k.inbox)) + 1
           <= Cardinality(Answerable(k.fresh \o k.inbox))
      /\ <<>> \o k.inbox = k.inbox
      BY ConnFields, AnswerableDropped
<1> HIDE DEF y
<1>7. CountOK(k) => CountOK(y)
  <2> DEFINE a == Cardinality(Answerable(k.inbox))
             b == Cardinality(Answerable(k.fresh \o k.inbox))
             t == IF k.tail = "head" THEN 1 ELSE 0
  <2>1. b \in Nat /\ k.resps \in Nat /\ k.reqs \in Nat BY CountTypes
  <2>2. a \in Nat BY ConnFields, AnswerableFinite
  <2>3. /\ Answered(k) = k.resps + 0 /\ Owed(k) = b + t
        /\ t \in Nat /\ Turned(k) = 0
        BY <1>1 DEF Answered, Owed, Turned
  <2>4. Answered(y) = y.resps + Under(y)
        BY <1>4 DEF Answered, Under
  <2>5. Owed(y) = a + t BY <1>3, <1>6 DEF Owed
  <2>6. Turned(y) = 0 BY <1>3 DEF Turned
  <2>7. a + 1 <= b BY <1>6
  <2> HIDE DEF a, b, t
  <2>8. QED BY <1>3, <2>1, <2>2, <2>3, <2>4, <2>5, <2>6, <2>7 DEF CountOK
<1>8. CASE x.c.end
  <2>1. EndIfAsked(x) = hs_end_session(x) BY <1>8 DEF EndIfAsked
  <2> DEFINE e == hs_end_session(x).c
  <2>2. e \in Conn BY EndSession, WorldFields
  <2>3. /\ e.state = "FREE" /\ e.inbox = <<>> /\ e.fresh = <<>>
        /\ e.tail = y.tail /\ e.reqs = y.reqs /\ e.status = y.status
        /\ e.resps = y.resps
        BY EndKeeps DEF y
  <2> HIDE DEF e
  <2>4. SessionOK(e) /\ InputOK(e)
        BY <2>3 DEF SessionOK, LingerOK, OverloadOK, WatchOK, WriteOK, RoomOK,
                    InputOK
  <2>5. Answered(e) <= Answered(y)
        BY <1>4, <2>2, <2>3, CountTypes DEF Answered
  <2>6. CountOK(k) => CountOK(e)
        BY <1>4, <1>7, <2>2, <2>3, <2>5, CountDropped
  <2>7. QED BY <2>1, <2>3, <2>4, <2>6 DEF Moved, e
<1>9. CASE ~x.c.end
  <2>1. EndIfAsked(x) = x /\ ~y.end BY <1>9 DEF EndIfAsked, y
  <2>2. SessionOK(y)
    <3>1. LingerOK(y) /\ RoomOK(y) BY <1>4, <2>1 DEF LingerOK, RoomOK
    <3>2. OverloadOK(y) BY <1>3 DEF OverloadOK
    <3>3. WatchOK(y) BY <1>3, <1>5 DEF WatchOK
    <3>4. WriteOK(y) BY <1>3, <1>4 DEF WriteOK, OutOK
    <3>5. QED BY <3>1, <3>2, <3>3, <3>4 DEF SessionOK
  <2>3. InputOK(y) BY <1>3 DEF InputOK
  <2>4. QED BY <1>7, <2>1, <2>2, <2>3 DEF Moved, y
<1>10. QED BY <1>8, <1>9

\* The parse-and-respond part.
LEMMA AnswerMoves ==
  ASSUME NEW w \in World, Reading(w.c), SessionOK(w.c), InputOK(w.c)
  PROVE  LET x == EndIfAsked(Answer(w)).c IN Moved(w.c, x) /\ InputOK(x)
<1> DEFINE k == w.c
           fresh == w.c.fresh
           A == Answerable(fresh)
           i == CHOOSE j \in A : \A m \in A : j <= m
           u == fresh[i]
           v == [w EXCEPT !.c.fresh = <<>>]
           y == Answer(w)
<1>1. <<>> \in Units /\ k \in Conn /\ k.state = "READ"
      BY WorldFields DEF Units, Reading
<1>2. /\ v \in World /\ v.c = [k EXCEPT !.fresh = <<>>]
      /\ v.c.timeout > 0 /\ v.c.mid = w.c.mid
      BY <1>1 DEF World, Conn, Reading
<1>3. fresh \in Seq(Unit) BY WorldFields DEF Units
<1>4. CASE A = {}
  <2>1. (w.c.mid \/ fresh # <<>>) \in BOOLEAN OBVIOUS
  <2>2. PICK t \in BOOLEAN : t = (w.c.mid \/ fresh # <<>>) BY <2>1, Zenon
  <2>3. y = [v EXCEPT !.c.mid = v.c.mid \/ fresh # <<>>]
        BY <1>4, Zenon DEF Answer
  <2>4. y = [v EXCEPT !.c.mid = t]
    <3>1. t = (v.c.mid \/ fresh # <<>>) BY <1>2, <2>2, Zenon
    <3> HIDE DEF v, fresh, y
    <3>2. QED BY <2>3, <3>1, Zenon
  <2> HIDE DEF v, y
  <2>5. y.c = [k EXCEPT !.fresh = <<>>, !.mid = t]
    <3>1. y.c = [v.c EXCEPT !.mid = t] BY <1>2, <2>4 DEF World
    <3>2. QED BY <1>1, <1>2, <3>1 DEF Conn
  <2> DEFINE x == y.c
  <2>6. /\ x \in Conn /\ x.fresh = <<>>
        /\ x.inbox = k.inbox /\ x.tail = k.tail /\ x.reqs = k.reqs
        /\ x.status = k.status /\ x.resps = k.resps /\ x.state = "READ"
        /\ x.keep = k.keep /\ x.end = k.end /\ x.cap = k.cap /\ x.len = k.len
        /\ x.interest = k.interest /\ x.ready = k.ready /\ x.cut = k.cut
        /\ x.peer = k.peer
        BY <1>1, <2>5 DEF Conn
  <2> HIDE DEF x
  <2>7. ~k.end BY <1>1 DEF SessionOK, LingerOK, OverloadOK
  <2>8. EndIfAsked(y) = y BY <2>6, <2>7 DEF EndIfAsked, x
  <2>9. SessionOK(x) /\ InputOK(x)
        BY <1>1, <2>6, <2>7
        DEF SessionOK, LingerOK, OverloadOK, WatchOK, WriteOK, RoomOK, InputOK
  <2>10. Answered(x) <= Answered(k)
         BY <1>1, <2>6, CountTypes DEF Answered
  <2>11. CountOK(k) => CountOK(x) BY <1>1, <2>6, <2>10, CountDropped
  <2>12. QED BY <1>1, <2>8, <2>9, <2>11 DEF Moved, x, y
<1>5. CASE A # {}
  <2>1. A \subseteq Nat /\ A \subseteq DOMAIN fresh
        BY <1>3 DEF Answerable
  <2>2. \E j \in A : \A m \in A : j <= m BY <1>5, <2>1, LeastNat
  <2>3. i \in A BY <2>2, Zenon
  <2>4. u \in Unit
    <3>1. i \in DOMAIN fresh BY <2>1, <2>3, Zenon
    <3> HIDE DEF i, fresh
    <3>2. QED BY <1>3, <3>1
  <2>5. u.keep \in BOOLEAN BY <2>4 DEF Unit
  <2>6. 200 \in Status /\ 400 \in Status BY DEF Status
  <2>7. \/ y = http_respond(v, 200, u.keep)
        \/ y = hs_error_response(v, 400, u.keep)
        \/ y = hs_error_response(v, 400, FALSE)
    <3>1. CASE u.kind \in {"full", "stream"}
          BY <1>5, <3>1, Zenon DEF Answer
    <3>2. CASE u.kind = "rest" /\ (w.c.mid \/ i > 1)
          BY <1>5, <3>2, Zenon DEF Answer
    <3>3. CASE u.kind = "bad"
          BY <1>5, <3>3, Zenon DEF Answer
    <3>4. CASE /\ u.kind \notin {"full", "stream"} /\ u.kind # "bad"
               /\ ~(u.kind = "rest" /\ (w.c.mid \/ i > 1))
          BY <1>5, <3>4, Zenon DEF Answer
    <3>5. QED BY <3>1, <3>2, <3>3, <3>4, Zenon
  <2> HIDE DEF v, u, y
  <2>8. ASSUME NEW x, Wrote(v, x), BegunOK(v.c, x.c)
        PROVE  Moved(k, EndIfAsked(x).c) /\ InputOK(EndIfAsked(x).c)
    <3>1. x \in World BY <2>8 DEF Wrote
    <3>2. Answerable(k.fresh) # {} BY <1>5
    <3>3. Emptied(k, v.c) BY <1>1, <1>2 DEF Conn, Emptied
    <3>4. v \in World BY <1>2
    <3> HIDE DEF A, i
    <3>5. QED BY <1>1, <2>8, <3>1, <3>2, <3>3, <3>4, AnsweredMoves
  <2>9. v \in World /\ v.c.timeout > 0 BY <1>2
  <2>10. /\ Wrote(v, http_respond(v, 200, u.keep))
         /\ Begun(v.c, http_respond(v, 200, u.keep).c, 200, u.keep)
         BY <2>5, <2>6, <2>9, Respond, ResponseBegins
  <2>11. Wrote(v, hs_error_response(v, 400, u.keep))
         BY <2>5, <2>6, <2>9, ErrorResponse
  <2>12. Wrote(v, hs_error_response(v, 400, FALSE))
         BY <2>6, <2>9, ErrorResponse
  <2>13. Begun(v.c, hs_error_response(v, 400, u.keep).c, 400, u.keep)
         BY <2>5, <2>6, <2>9, ErrorBegins
  <2>14. Begun(v.c, hs_error_response(v, 400, FALSE).c, 400, FALSE)
         BY <2>6, <2>9, ErrorBegins
  <2>15. Moved(k, EndIfAsked(y).c) /\ InputOK(EndIfAsked(y).c)
    <3>1. CASE y = http_respond(v, 200, u.keep)
      <4>1. BegunOK(v.c, y.c) BY <2>10, <3>1 DEF BegunOK
      <4>2. QED BY <2>8, <2>10, <3>1, <4>1
    <3>2. CASE y = hs_error_response(v, 400, u.keep)
      <4>1. BegunOK(v.c, y.c) BY <2>13, <3>2 DEF BegunOK
      <4>2. QED BY <2>8, <2>11, <3>2, <4>1
    <3>3. CASE y = hs_error_response(v, 400, FALSE)
      <4>1. Begun(v.c, y.c, 400, FALSE) BY <2>14, <3>3
      <4>2. \E keep : Begun(v.c, y.c, 400, keep) BY <4>1, Zenon
      <4>3. BegunOK(v.c, y.c) BY <4>2 DEF BegunOK
      <4>4. QED BY <2>8, <2>12, <3>3, <4>3
    <3>4. QED BY <2>7, <3>1, <3>2, <3>3
  <2>16. QED BY <2>15 DEF y
<1>6. QED BY <1>4, <1>5

\* A session turned away with 503.
LEMMA OverloadMoves ==
  ASSUME NEW w \in World, w.c.state = "INIT", TimeOK(w.c), SessionOK(w.c)
  PROVE  LET x == hs_error_response(hs_init_session(w), 503, FALSE).c IN
         Moved(w.c, x) /\ InputOK(x)
<1> DEFINE k == w.c
           z == hs_init_session(w)
           v == hs_error_response(z, 503, FALSE)
           x == v.c
<1>1. k \in Conn /\ k.status # 503 /\ k.interest \in {"in", "out"}
      BY WorldFields DEF SessionOK, OverloadOK, WatchOK
<1>2. z \in World /\ z.c.timeout > 0 BY InitSession DEF TimeOK
<1>3. Emptied(k, z.c)
  <2>1. z.c = [k EXCEPT !.keep = FALSE, !.end = FALSE, !.mid = FALSE,
                        !.cap = 0, !.len = 0, !.fresh = <<>>,
                        !.out = 0, !.state = "READ"]
        BY InitKeeps
  <2> HIDE DEF z
  <2>2. QED BY <1>1, <2>1 DEF Conn, Emptied
<1>4. 503 \in Status BY DEF Status
<1> HIDE DEF z
<1>5. Wrote(z, v) BY <1>2, <1>4, ErrorResponse
<1>6. Begun(z.c, x, 503, FALSE) BY <1>2, <1>4, ErrorBegins
<1> HIDE DEF v
<1>7. x \in Conn /\ OutOK(x) /\ x.state \in {"WRITE", "INIT"}
      BY <1>5, WorldFields DEF Wrote
<1> HIDE DEF x
<1>8. /\ x.inbox = k.inbox /\ x.fresh = <<>> /\ x.tail = k.tail
      /\ x.reqs = k.reqs /\ x.status = 503 /\ ~x.keep
      /\ x.resps + Under(x) = k.resps + 1 /\ x.state = "WRITE"
      /\ x.interest = "out" \/ x.interest = k.interest
      /\ ~x.end => x.out > 0
      BY <1>3, <1>6, <1>7 DEF Begun, Kept, Emptied
<1>9. SessionOK(x) /\ InputOK(x)
  <2>1. LingerOK(x) /\ RoomOK(x) /\ OverloadOK(x) /\ InputOK(x)
        BY <1>8 DEF LingerOK, RoomOK, OverloadOK, InputOK
  <2>2. WatchOK(x) /\ WriteOK(x)
        BY <1>1, <1>7, <1>8 DEF WatchOK, WriteOK, OutOK
  <2>3. QED BY <2>1, <2>2 DEF SessionOK
<1>10. CountOK(k) => CountOK(x)
  <2> DEFINE a == Cardinality(Answerable(k.inbox))
             b == Cardinality(Answerable(k.fresh \o k.inbox))
             t == IF k.tail = "head" THEN 1 ELSE 0
  <2>1. b \in Nat /\ k.resps \in Nat /\ k.reqs \in Nat BY <1>1, CountTypes
  <2>2. k.fresh \in Seq(Unit) /\ k.inbox \in Seq(Unit) BY <1>1, ConnFields
  <2>3. a \in Nat /\ a <= b /\ <<>> \o k.inbox = k.inbox
        BY <2>2, AnswerableFinite, AnswerableDropped
  <2>4. /\ Answered(k) = k.resps + 0 /\ Owed(k) = b + t
        /\ t \in Nat /\ Turned(k) = 0
        BY <1>1 DEF Answered, Owed, Turned
  <2>5. /\ Answered(x) = x.resps + Under(x) /\ Turned(x) = 1
        BY <1>8 DEF Answered, Turned
  <2>6. Owed(x) = a + t BY <1>8, <2>3 DEF Owed
  <2> HIDE DEF a, b, t, k
  <2>7. QED BY <1>8, <2>1, <2>3, <2>4, <2>5, <2>6 DEF CountOK
<1>11. QED BY <1>9, <1>10 DEF Moved, x, v, z

\* A session that begins to read its next request.
LEMMA BeginMoves ==
  ASSUME NEW w \in World, w.c.state = "INIT", SessionOK(w.c)
  PROVE  Moved(w.c, BeginRead(hs_init_session(w)).c)
<1> DEFINE k == w.c
           z == hs_init_session(w)
           x == BeginRead(z).c
<1>1. k \in Conn /\ k.status # 503 /\ k.interest \in {"in", "out"}
      BY WorldFields DEF SessionOK, OverloadOK, WatchOK
<1>2. z \in World /\ z.c \in Conn BY InitSession, WorldFields
<1>3. z.c = [k EXCEPT !.keep = FALSE, !.end = FALSE, !.mid = FALSE,
                      !.cap = 0, !.len = 0, !.fresh = <<>>,
                      !.out = 0, !.state = "READ"]
      BY InitKeeps
<1> HIDE DEF z
<1>4. x = [z.c EXCEPT !.cap = IF z.c.cap = 0 THEN RequestBufSize ELSE z.c.cap,
                      !.state = "READ", !.timeout = RequestTimeout]
      BY <1>2, BeginKeeps
<1>5. x \in Conn BY <1>2, BeginReadOK, WorldFields
<1> HIDE DEF x
<1>6. /\ x.inbox = k.inbox /\ x.fresh = <<>> /\ x.tail = k.tail
      /\ x.reqs = k.reqs /\ x.status = k.status /\ x.resps = k.resps
      /\ x.state = "READ" /\ x.interest = k.interest /\ ~x.end /\ x.len = 0
      /\ x.cap = RequestBufSize
  <2> DEFINE y == z.c
  <2>1. /\ y.inbox = k.inbox /\ y.fresh = <<>> /\ y.tail = k.tail
        /\ y.reqs = k.reqs /\ y.status = k.status /\ y.resps = k.resps
        /\ y.interest = k.interest /\ ~y.end /\ y.len = 0 /\ y.cap = 0
        BY <1>1, <1>3 DEF Conn
  <2> HIDE DEF y
  <2>2. QED BY <1>2, <1>4, <2>1 DEF Conn, y
<1>8. SessionOK(x)
  <2>1. RoomOK(x) BY <1>6, BufAssumption DEF RoomOK
  <2>2. QED BY <1>1, <1>6, <2>1
        DEF SessionOK, LingerOK, OverloadOK, WatchOK, WriteOK
<1>9. Answered(x) <= Answered(k) BY <1>1, <1>6, CountTypes DEF Answered
<1>10. CountOK(k) => CountOK(x) BY <1>1, <1>5, <1>6, <1>9, CountDropped
<1>11. QED BY <1>8, <1>10 DEF Moved, x, z

\* A session that goes on reading a request.
LEMMA ReadOnMoves ==
  ASSUME NEW w \in World, w.c.state = "READ", SessionOK(w.c)
  PROVE  Moved(w.c, BeginRead(w).c)
<1> DEFINE k == w.c
           x == BeginRead(w).c
<1>1. k \in Conn BY WorldFields
<1>2. k.cap # 0 /\ k.cap \in 1..MaxRequestBufSize /\ k.len <= k.cap
      BY BufAssumption DEF SessionOK, RoomOK
<1>3. x = [k EXCEPT !.cap = IF k.cap = 0 THEN RequestBufSize ELSE k.cap,
                    !.state = "READ", !.timeout = RequestTimeout]
      BY BeginKeeps
<1>4. x \in Conn BY BeginReadOK, WorldFields
<1> HIDE DEF x
<1>5. /\ x.inbox = k.inbox /\ x.fresh = k.fresh /\ x.tail = k.tail
      /\ x.reqs = k.reqs /\ x.status = k.status /\ x.resps = k.resps
      /\ x.state = "READ" /\ x.interest = k.interest /\ x.end = k.end
      /\ x.keep = k.keep /\ x.len = k.len /\ x.cap = k.cap
      BY <1>1, <1>2, <1>3 DEF Conn
<1>6. SessionOK(x)
      BY <1>2, <1>5
      DEF SessionOK, LingerOK, OverloadOK, WatchOK, WriteOK, RoomOK
<1>7. CountOK(k) => CountOK(x) BY <1>1, <1>4, <1>5, CountKept
<1>8. QED BY <1>6, <1>7 DEF Moved, x

\* http_session: the session is left in its receive loop, or with a wake-up
\* for the input it has.
LEMMA HandlerMoves ==
  ASSUME TypeOK, NEW c \in Conns, NEW w \in World, BufOK(w.c), TimeOK(w.c),
         SessionOK(w.c), http_session(c, w)
  PROVE  /\ Moved(w.c, conn'[c]) /\ \A d \in Conns \ {c} : conn'[d] = conn[d]
         /\ \/ pc' = "read" /\ cur' = c
            \/ pc' = "poll" /\ cur' = NoConn /\ InputOK(conn'[c])
<1>1. ASSUME NEW v, Install(c, v)
      PROVE  conn'[c] = v.c /\ \A d \in Conns \ {c} : conn'[d] = conn[d]
      BY <1>1 DEF TypeOK, Install
<1>2. CASE w.c.state = "INIT"
  <2> DEFINE z == hs_init_session(w)
  <2>1. CASE Install(c, hs_error_response(z, 503, FALSE)) /\ Return
    <3> DEFINE v == hs_error_response(z, 503, FALSE)
    <3>1. Moved(w.c, v.c) /\ InputOK(v.c) BY <1>2, OverloadMoves
    <3> HIDE DEF v
    <3>2. Install(c, v) BY <2>1 DEF v
    <3>3. QED BY <1>1, <2>1, <3>1, <3>2 DEF Return
  <2>2. CASE Install(c, BeginRead(z)) /\ pc' = "read" /\ cur' = c
    <3>1. Moved(w.c, BeginRead(z).c) BY <1>2, BeginMoves
    <3>2. QED BY <1>1, <2>2, <3>1
  <2>3. QED BY <1>2, <2>1, <2>2 DEF http_session
<1>3. CASE w.c.state = "READ"
  <2>1. Install(c, BeginRead(w)) /\ pc' = "read" /\ cur' = c
        BY <1>3 DEF http_session
  <2>2. Moved(w.c, BeginRead(w).c) BY <1>3, ReadOnMoves
  <2>3. QED BY <1>1, <2>1, <2>2
<1>4. CASE w.c.state = "WRITE"
  <2> DEFINE v == EndIfAsked(hs_write_response(w))
  <2>1. Install(c, v) /\ Return BY <1>4 DEF http_session
  <2>2. Moved(w.c, v.c) /\ InputOK(v.c) BY <1>4, WriteMoves
  <2> HIDE DEF v
  <2>3. QED BY <1>1, <2>1, <2>2 DEF Return
<1>5. QED BY <1>2, <1>3, <1>4 DEF http_session

\* What a client does to the record of its connection: k becomes x.
Disturbed(k, x) ==
    /\ SessionOK(k) => SessionOK(x)
    /\ SessionOK(k) /\ InputOK(k) => InputOK(x)
    /\ x.state = k.state /\ x.status = k.status /\ x.out = k.out
    /\ x.end = k.end

\* Sending wakes a session that is watched for input.
LEMMA ArrivedMoves ==
  ASSUME NEW k \in Conn, NEW u \in Unit
  PROVE  Disturbed(k, Arrived(k, u))
<1>1. (k.ready \/ k.interest = "in") \in BOOLEAN OBVIOUS
<1>2. PICK r \in BOOLEAN : r = (k.ready \/ k.interest = "in") BY <1>1, Zenon
<1> DEFINE n == IF u.kind \in StartKinds /\ k.tail # "head"
                THEN k.reqs + 1 ELSE k.reqs
           x == [k EXCEPT !.inbox = Append(k.inbox, u), !.tail = u.kind,
                          !.sent = k.sent + 1, !.reqs = n, !.ready = r]
<1>3. Arrived(k, u) = x BY <1>2, Zenon DEF Arrived
<1> HIDE DEF n
<1>4. /\ x.cap = k.cap /\ x.len = k.len /\ x.state = k.state /\ x.out = k.out
      /\ x.end = k.end /\ x.keep = k.keep /\ x.interest = k.interest
      /\ x.ready = r /\ x.status = k.status /\ x.peer = k.peer /\ x.cut = k.cut
      BY DEF Conn
<1> HIDE DEF x
<1>5. SessionOK(k) => SessionOK(x)
      BY <1>4
      DEF SessionOK, LingerOK, OverloadOK, WatchOK, WriteOK, RoomOK
<1>6. SessionOK(k) => InputOK(x)
  <2>1. SUFFICES ASSUME SessionOK(k), x.state \in {"INIT", "READ"}
                 PROVE  x.ready \/ x.interest = "out"
        BY DEF InputOK
  <2>2. k.interest \in {"in", "out"} BY <1>4, <2>1 DEF SessionOK, WatchOK
  <2>3. QED BY <1>2, <1>4, <2>2, Zenon
<1>7. QED BY <1>3, <1>4, <1>5, <1>6 DEF Disturbed

\* Reading drains the send buffer only.
LEMMA DrainedMoves ==
  ASSUME NEW k \in Conn
  PROVE  Disturbed(k, Drained(k))
<1>1. (k.ready \/ (k.interest = "out" /\ k.room = 0)) \in BOOLEAN OBVIOUS
<1>2. PICK r \in BOOLEAN : r = (k.ready \/ (k.interest = "out" /\ k.room = 0))
      BY <1>1, Zenon
<1> DEFINE x == [k EXCEPT !.room = SendBufSize, !.ready = r]
<1>3. Drained(k) = x BY <1>2, Zenon DEF Drained
<1>4. /\ x.cap = k.cap /\ x.len = k.len /\ x.state = k.state /\ x.out = k.out
      /\ x.end = k.end /\ x.keep = k.keep /\ x.interest = k.interest
      /\ x.ready = r /\ x.status = k.status /\ x.peer = k.peer /\ x.cut = k.cut
      /\ x.inbox = k.inbox
      BY DEF Conn
<1> HIDE DEF x
<1>5. SessionOK(k) => SessionOK(x)
      BY <1>4
      DEF SessionOK, LingerOK, OverloadOK, WatchOK, WriteOK, RoomOK
<1>6. InputOK(k) => InputOK(x) BY <1>2, <1>4, Zenon DEF InputOK
<1>7. QED BY <1>3, <1>4, <1>5, <1>6 DEF Disturbed

\* A FIN wakes a session that is watched for input; an RST brings no input.
LEMMA HangupMoves ==
  ASSUME NEW k \in Conn, NEW p \in {"fin", "reset", "dead"}
  PROVE  Disturbed(k, Hangup(k, p))
<1> DEFINE q == \/ k.ready \/ k.interest = "in"
                \/ p # "fin" /\ k.interest = "out"
<1>1. q \in BOOLEAN OBVIOUS
<1>2. PICK r \in BOOLEAN : r = q BY <1>1, Zenon
<1> DEFINE x == [k EXCEPT !.peer = p, !.ready = r]
<1>3. Hangup(k, p) = x BY <1>2, Zenon DEF Hangup
<1>4. /\ x.cap = k.cap /\ x.len = k.len /\ x.state = k.state /\ x.out = k.out
      /\ x.end = k.end /\ x.keep = k.keep /\ x.interest = k.interest
      /\ x.ready = r /\ x.status = k.status /\ x.cut = k.cut
      BY DEF Conn
<1> HIDE DEF x
<1>5. SessionOK(k) => SessionOK(x)
      BY <1>4
      DEF SessionOK, LingerOK, OverloadOK, WatchOK, WriteOK, RoomOK
<1>6. SessionOK(k) => InputOK(x)
  <2>1. SUFFICES ASSUME SessionOK(k), x.state \in {"INIT", "READ"}
                 PROVE  x.ready \/ x.interest = "out"
        BY DEF InputOK
  <2>2. k.interest \in {"in", "out"} BY <1>4, <2>1 DEF SessionOK, WatchOK
  <2>3. QED BY <1>2, <1>4, <2>2, Zenon
<1>7. QED BY <1>3, <1>4, <1>5, <1>6 DEF Disturbed

\* Every unit is a request, the start of one, or what completes it.
Unstreamed == Kinds \cap {"stream", "body"} = {}

\* Sending asks for one answer more for each request begun.
LEMMA ArrivedCount ==
  ASSUME Unstreamed, NEW k \in Conn, NEW u \in Unit,
         u.kind \in NextKinds(k.tail), CountOK(k)
  PROVE  CountOK(Arrived(k, u))
<1>1. (k.ready \/ k.interest = "in") \in BOOLEAN OBVIOUS
<1>2. PICK r \in BOOLEAN : r = (k.ready \/ k.interest = "in") BY <1>1, Zenon
<1> DEFINE n == IF u.kind \in StartKinds /\ k.tail # "head"
                THEN k.reqs + 1 ELSE k.reqs
           x == [k EXCEPT !.inbox = Append(k.inbox, u), !.tail = u.kind,
                          !.sent = k.sent + 1, !.reqs = n, !.ready = r]
<1>3. Arrived(k, u) = x BY <1>2, Zenon DEF Arrived
<1> HIDE DEF n
<1>4. /\ x.state = k.state /\ x.out = k.out /\ x.resps = k.resps
      /\ x.status = k.status /\ x.fresh = k.fresh /\ x.tail = u.kind
      /\ x.inbox = Append(k.inbox, u) /\ x.reqs = n
      BY DEF Conn
<1> HIDE DEF x
<1>5. k.fresh \in Seq(Unit) /\ k.inbox \in Seq(Unit) BY ConnFields
<1>6. x.fresh \o x.inbox = Append(k.fresh \o k.inbox, u)
  <2> DEFINE f == k.fresh
             b == k.inbox
  <2>1. f \in Seq(Unit) /\ b \in Seq(Unit) /\ <<u>> \in Seq(Unit) BY <1>5
  <2> HIDE DEF f, b
  <2>2. Append(b, u) = b \o <<u>> BY <2>1, AppendIsConcat
  <2>3. f \o b \in Seq(Unit) BY <2>1
  <2>4. Append(f \o b, u) = (f \o b) \o <<u>> BY <2>3, AppendIsConcat
  <2>5. (f \o b) \o <<u>> = f \o (b \o <<u>>) BY <2>1, ConcatAssociative
  <2>6. QED BY <1>4, <2>2, <2>4, <2>5 DEF f, b
<1> DEFINE a == Cardinality(Answerable(k.fresh \o k.inbox))
           t == IF k.tail = "head" THEN 1 ELSE 0
           i == IF u.kind = "head" THEN 0 ELSE 1
<1>7. Cardinality(Answerable(x.fresh \o x.inbox)) = a + i
  <2>1. k.fresh \o k.inbox \in Seq(Unit) BY <1>5
  <2>2. QED BY <1>6, <2>1, AnswerableAppend
<1>8. a \in Nat /\ k.reqs \in Nat /\ Answered(k) \in Nat /\ Turned(k) \in 0..1
      BY CountTypes
<1>9. Answered(x) = Answered(k) /\ Turned(x) = Turned(k)
      BY <1>4 DEF Answered, Turned, Under
<1>10. Owed(k) = a + t /\ Owed(x) = (a + i) + (1 - i)
       BY <1>4, <1>7 DEF Owed
<1>11. a + 1 - (a + t) <= n - k.reqs /\ n \in Nat
  <2>1. CASE k.tail = "head"
        BY <1>8, <2>1 DEF n
  <2>2. CASE k.tail # "head"
    <3>1. k.tail \in Kinds \cup {"none"} BY DEF Conn, Tails
    <3>2. k.tail # "stream" /\ k.tail # "body" BY <3>1 DEF Unstreamed
    <3>3. NextKinds(k.tail) = StartKinds
          BY <2>2, <3>2, Zenon DEF NextKinds
    <3>4. QED BY <1>8, <2>2, <3>3 DEF n
  <2>3. QED BY <2>1, <2>2
<1> HIDE DEF a, t
<1>12. t \in 0..1 /\ i \in 0..1 BY DEF t
<1> HIDE DEF i
<1>13. Answered(k) + (a + t) <= k.reqs + Turned(k) BY <1>10 DEF CountOK
<1>14. Answered(k) + ((a + i) + (1 - i)) <= n + Turned(k)
       BY <1>8, <1>11, <1>12, <1>13
<1>15. QED BY <1>3, <1>4, <1>9, <1>10, <1>14 DEF CountOK

-----------------------------------------------------------------------------
(* The inductive invariant and its steps.                                  *)

\* A connection that was not answered yet.
New(k) == k.status = 0 /\ ~k.end

\* Session c is outside its receive loop, or the loop has just ended.
Outside(c) == cur # c \/ pc = "process"

\* HttpServerProofs' invariant, every session in order, input outside the
\* receive loop with a wake-up, and connections yet to be accepted as new.
SInv ==
    /\ IInv /\ BacklogHasWakeup
    /\ \A c \in Conns : SessionOK(conn[c])
    /\ \A c \in Conns : Outside(c) => InputOK(conn[c])
    /\ \A i \in DOMAIN backlog : New(conn[backlog[i]])

\* A step of connection c, as far as the invariant and the theorems care.
Acts(c) ==
    /\ \A d \in Conns \ {c} : conn'[d] = conn[d]
    /\ \A d \in Conns \ {c} : Outside(d)' => Outside(d)
    /\ SessionOK(conn'[c])
    /\ Outside(c)' => InputOK(conn'[c])
    /\ \A i \in DOMAIN backlog' : New(conn'[backlog'[i]])
    /\ Unstreamed /\ CountOK(conn[c]) => CountOK(conn'[c])
    /\ conn[c].state = "WRITE" /\ conn'[c].state # "FREE"
          => conn'[c].out <= conn[c].out /\ conn'[c].status = conn[c].status

\* What the invariant says of one connection.
LEMMA SInvFacts ==
  ASSUME SInv, NEW c \in Conns
  PROVE  /\ TypeOK /\ conn \in [Conns -> Conn] /\ conn[c] \in Conn
         /\ BufOK(conn[c]) /\ TimeOK(conn[c]) /\ SessionOK(conn[c])
         /\ Outside(c) => InputOK(conn[c])
         /\ WorldOf(c) \in World /\ WorldOf(c).c = conn[c]
         /\ backlog \in Seq(Conns)
         /\ conn[c].state # "FREE"
              => \A i \in DOMAIN backlog : backlog[i] \in Conns \ {c}
<1>1. TypeOK /\ HandlerState /\ Settled(conn[c]) BY DEF SInv, IInv
<1>2. /\ conn \in [Conns -> Conn] /\ conn[c] \in Conn
      /\ backlog \in Seq(Conns)
      BY <1>1 DEF TypeOK
<1>3. \A i \in DOMAIN backlog : backlog[i] \in Conns BY <1>2
<1>4. conn[c].state # "FREE"
        => \A i \in DOMAIN backlog : backlog[i] \in Conns \ {c}
      BY <1>1, <1>3 DEF HandlerState
<1>5. WorldOf(c) \in World /\ WorldOf(c).c = conn[c] BY <1>1, WorldOfType
<1>6. QED BY <1>1, <1>2, <1>4, <1>5 DEF SInv, Settled

\* A connection not in the backlog leaves it as it was.
LEMMA BacklogNew ==
  ASSUME SInv, NEW c \in Conns, conn[c].state # "FREE", backlog' = backlog,
         \A d \in Conns \ {c} : conn'[d] = conn[d]
  PROVE  \A i \in DOMAIN backlog' : New(conn'[backlog'[i]])
<1>1. \A i \in DOMAIN backlog : backlog[i] \in Conns \ {c} BY SInvFacts
<1>2. QED BY <1>1 DEF SInv

\* The clients' actions.
LEMMA ClientActs ==
  ASSUME SInv, NEW c \in Conns, ClientStep(c)
  PROVE  Acts(c)
<1> DEFINE k == conn[c]
<1>1. /\ conn \in [Conns -> Conn] /\ k \in Conn /\ SessionOK(k)
      /\ Outside(c) => InputOK(k)
      /\ backlog \in Seq(Conns)
      BY SInvFacts
<1>2. ASSUME NEW x, conn' = [conn EXCEPT ![c] = x], Disturbed(k, x),
             UNCHANGED <<pc, cur, backlog>>,
             Unstreamed /\ CountOK(k) => CountOK(x)
      PROVE  Acts(c)
  <2>1. conn'[c] = x /\ \A d \in Conns \ {c} : conn'[d] = conn[d]
        BY <1>1, <1>2
  <2>2. \A d \in Conns : Outside(d)' <=> Outside(d) BY <1>2 DEF Outside
  <2>3. \A d \in Conns : New(conn[d]) => New(conn'[d])
        BY <1>2, <2>1 DEF Disturbed, New
  <2>4. \A i \in DOMAIN backlog' : New(conn'[backlog'[i]])
    <3>1. \A i \in DOMAIN backlog : backlog[i] \in Conns BY <1>1
    <3>2. QED BY <1>2, <2>3, <3>1 DEF SInv
  <2>5. x.out <= k.out /\ x.status = k.status
        BY <1>1, <1>2, ConnFields DEF Disturbed
  <2>6. SessionOK(x) /\ (Outside(c)' => InputOK(x))
        BY <1>1, <1>2, <2>2 DEF Disturbed
  <2>7. QED BY <1>2, <2>1, <2>2, <2>4, <2>5, <2>6 DEF Acts
<1>3. ASSUME NEW x \in Conn, CountOK(k), x.inbox = k.inbox,
             x.fresh = k.fresh, x.tail = k.tail, x.reqs = k.reqs,
             x.status = k.status, x.resps = k.resps, x.state = k.state,
             x.out = k.out
      PROVE  CountOK(x)
      BY <1>1, <1>3, CountKept
<1>4. CASE Connect(c)
  <2> DEFINE x == [Closed EXCEPT !.peer = "up"]
  <2>1. /\ k.state = "FREE" /\ conn' = [conn EXCEPT ![c] = x]
        /\ backlog' = Append(backlog, c) /\ UNCHANGED <<pc, cur>>
        BY <1>4 DEF Connect, Connected
  <2>2. /\ x.state = "FREE" /\ x.status = 0 /\ ~x.end /\ x.fresh = <<>>
        /\ x.inbox = <<>> /\ x.resps = 0 /\ x.reqs = 0 /\ x.tail = "none"
        BY DEF Closed
  <2> HIDE DEF x
  <2>3. conn'[c] = x /\ \A d \in Conns \ {c} : conn'[d] = conn[d]
        BY <1>1, <2>1
  <2>4. \A d \in Conns : Outside(d)' <=> Outside(d) BY <2>1 DEF Outside
  <2>5. SessionOK(x) /\ InputOK(x)
        BY <2>2 DEF SessionOK, LingerOK, OverloadOK, WatchOK, WriteOK, RoomOK,
                    InputOK
  <2>6. \A i \in DOMAIN backlog' : New(conn'[backlog'[i]])
    <3>1. \A i \in DOMAIN backlog' :
             \/ backlog'[i] = c
             \/ i \in DOMAIN backlog /\ backlog'[i] = backlog[i]
          BY <1>1, <2>1
    <3>2. \A i \in DOMAIN backlog : backlog[i] \in Conns BY <1>1
    <3>3. New(x) BY <2>2 DEF New
    <3>4. QED BY <2>3, <3>1, <3>2, <3>3 DEF SInv
  <2>7. CountOK(x)
    <3>1. Answerable(<<>>) = {} BY DEF Answerable
    <3>2. <<>> \o <<>> = <<>>
      <4>1. <<>> \in Seq(Unit) OBVIOUS
      <4>2. QED BY <4>1, AnswerableDropped
    <3>3. Owed(x) = 0 BY <2>2, <3>1, <3>2, FS_EmptySet DEF Owed
    <3>4. Answered(x) = 0 /\ Turned(x) = 0 BY <2>2 DEF Answered, Turned
    <3>5. QED BY <2>2, <3>3, <3>4 DEF CountOK
  <2>8. QED BY <2>1, <2>3, <2>4, <2>5, <2>6, <2>7 DEF Acts
<1>5. CASE \E u \in Unit : ClientSend(c, u)
  <2>1. PICK u \in Unit : ClientSend(c, u) BY <1>5
  <2>2. /\ conn' = [conn EXCEPT ![c] = Arrived(k, u)]
        /\ UNCHANGED <<pc, cur, backlog>> /\ u.kind \in NextKinds(k.tail)
        BY <2>1 DEF ClientSend
  <2>3. Unstreamed /\ CountOK(k) => CountOK(Arrived(k, u))
        BY <1>1, <2>2, ArrivedCount
  <2>4. Disturbed(k, Arrived(k, u)) BY <1>1, ArrivedMoves
  <2>5. QED BY <1>2, <2>2, <2>3, <2>4
<1>6. CASE ClientRead(c)
  <2> DEFINE x == Drained(k)
  <2>1. conn' = [conn EXCEPT ![c] = x] /\ UNCHANGED <<pc, cur, backlog>>
        BY <1>6 DEF ClientRead
  <2>2. Disturbed(k, x) BY <1>1, DrainedMoves
  <2>3. x \in Conn
    <3>1. Settled(k) BY DEF SInv, IInv
    <3>2. Settled(x) BY <1>1, <3>1, ClientEffects
    <3>3. QED BY <3>2 DEF Settled
  <2>4. /\ x.inbox = k.inbox /\ x.fresh = k.fresh /\ x.tail = k.tail
        /\ x.reqs = k.reqs /\ x.status = k.status /\ x.resps = k.resps
        /\ x.state = k.state /\ x.out = k.out
        BY <1>1 DEF Drained, Conn
  <2> HIDE DEF x
  <2>5. CountOK(k) => CountOK(x) BY <1>3, <2>3, <2>4
  <2>6. QED BY <1>2, <2>1, <2>2, <2>5
<1>7. CASE ClientFin(c) \/ ClientReset(c)
  <2>1. PICK p \in {"fin", "reset", "dead"} :
               /\ conn' = [conn EXCEPT ![c] = Hangup(conn[c], p)]
               /\ UNCHANGED <<pc, cur, backlog>>
    <3>1. CASE ClientFin(c) BY <3>1 DEF ClientFin
    <3>2. CASE ClientReset(c) BY <3>2, Zenon DEF ClientReset
    <3>3. QED BY <1>7, <3>1, <3>2
  <2> DEFINE x == Hangup(k, p)
  <2>2. Disturbed(k, x) BY <1>1, HangupMoves
  <2>3. x \in Conn
    <3>1. Settled(k) BY DEF SInv, IInv
    <3>2. Settled(x) BY <1>1, <3>1, ClientEffects
    <3>3. QED BY <3>2 DEF Settled
  <2>4. /\ x.inbox = k.inbox /\ x.fresh = k.fresh /\ x.tail = k.tail
        /\ x.reqs = k.reqs /\ x.status = k.status /\ x.resps = k.resps
        /\ x.state = k.state /\ x.out = k.out
        BY <1>1 DEF Hangup, Conn
  <2> HIDE DEF x
  <2>5. CountOK(k) => CountOK(x) BY <1>3, <2>3, <2>4
  <2>6. QED BY <1>2, <2>1, <2>2, <2>5 DEF x
<1>8. QED BY <1>4, <1>5, <1>6, <1>7 DEF ClientStep

\* The receive loop and what follows it.
LEMMA SessionActs ==
  ASSUME SInv, NEW c \in Conns, SessionStep(c)
  PROVE  Acts(c)
<1> DEFINE k == conn[c]
           w == WorldOf(c)
<1>1. /\ TypeOK /\ conn \in [Conns -> Conn] /\ k \in Conn /\ SessionOK(k)
      /\ TimeOK(k) /\ w \in World /\ w.c = k
      /\ Outside(c) => InputOK(k)
      BY SInvFacts
<1>2. cur = c /\ pc # "poll" /\ backlog' = backlog
      BY DEF SessionStep, ReadData, ReadEof, ReadFails, Process
<1>3. k.state = "READ" BY <1>2 DEF SInv, IInv, HandlerState
<1>4. \A d \in Conns \ {c} : Outside(d) BY <1>2 DEF Outside
<1>5. ASSUME NEW x, conn'[c] = x, \A d \in Conns \ {c} : conn'[d] = conn[d],
             SessionOK(x), Outside(c)' => InputOK(x), CountOK(k) => CountOK(x)
      PROVE  Acts(c)
  <2>1. \A i \in DOMAIN backlog' : New(conn'[backlog'[i]])
        BY <1>2, <1>3, <1>5, BacklogNew
  <2>2. QED BY <1>3, <1>4, <1>5, <2>1 DEF Acts
<1>6. ASSUME NEW v, Install(c, v)
      PROVE  conn'[c] = v.c /\ \A d \in Conns \ {c} : conn'[d] = conn[d]
      BY <1>1, <1>6 DEF Install
<1>7. /\ k.cap \in 1..MaxRequestBufSize /\ k.cap \in Nat /\ k.len \in Nat
      /\ k.len <= k.cap /\ k.inbox \in Seq(Unit) /\ k.fresh \in Seq(Unit)
      BY <1>1, <1>3, ConnFields DEF SessionOK, RoomOK
<1>8. CASE ReadData(c)
  <2> DEFINE n == ToRead(k)
             v == Received(w, n)
             x == v.c
  <2>1. /\ n > 0 /\ Install(c, v) /\ cur' = cur
        /\ pc' = IF v.c.cap < MaxRequestBufSize THEN "read" ELSE "process"
        BY <1>8 DEF ReadData
  <2>2. n \in 1..Len(w.c.inbox) /\ n <= w.c.cap - w.c.len
        BY <1>1, <1>7, <2>1 DEF ToRead, Least
  <2>3. w.c.cap \in 1..MaxRequestBufSize BY <1>1, <1>7
  <2> HIDE DEF n, w
  <2>4. /\ x.fresh \o x.inbox = w.c.fresh \o w.c.inbox
        /\ x.cap \in 1..MaxRequestBufSize /\ x.len <= x.cap
        /\ x.cut <=> x.cap >= MaxRequestBufSize
        /\ x.state = w.c.state /\ x.interest = w.c.interest
        /\ x.ready = w.c.ready /\ x.status = w.c.status /\ x.keep = w.c.keep
        /\ x.end = w.c.end /\ x.out = w.c.out /\ x.tail = w.c.tail
        /\ x.reqs = w.c.reqs /\ x.resps = w.c.resps /\ x.peer = w.c.peer
        BY <1>1, <2>2, <2>3, ReceivedKeeps
  <2>5. x \in Conn BY <1>1, <2>2, ReceivedOK, WorldFields
  <2> HIDE DEF v
  <2>6. SessionOK(x)
        BY <1>1, <1>3, <2>4
        DEF SessionOK, LingerOK, OverloadOK, WatchOK, WriteOK, RoomOK
  <2>7. Outside(c)' => InputOK(x)
    <3>1. SUFFICES ASSUME Outside(c)' PROVE x.cut BY DEF InputOK
    <3>2. pc' = "process" BY <1>2, <2>1, <3>1 DEF Outside
    <3>3. ~(x.cap < MaxRequestBufSize) BY <2>1, <3>2
    <3>4. x.cap >= MaxRequestBufSize BY <2>4, <3>3, BufAssumption
    <3>5. QED BY <2>4, <3>4
  <2>8. CountOK(k) => CountOK(x) BY <1>1, <2>4, <2>5, CountKept
  <2>9. QED BY <1>5, <1>6, <2>1, <2>6, <2>7, <2>8
<1>9. CASE ReadEof(c)
  <2> DEFINE y == [w EXCEPT !.c.end = TRUE, !.c.why = "eof"]
             v == EndIfAsked(y)
  <2>1. Install(c, v) BY <1>9 DEF ReadEof
  <2>2. "eof" \in Why BY DEF Why
  <2>3. /\ y \in World /\ y.c.end /\ y.c.tail = k.tail /\ y.c.reqs = k.reqs
        /\ y.c.status = k.status /\ y.c.resps = k.resps
        BY <1>1, <2>2 DEF World, Conn
  <2>4. v = hs_end_session(y) BY <2>3 DEF EndIfAsked
  <2> HIDE DEF y, v, w
  <2>5. y.c.resps <= Answered(k)
        BY <1>1, <1>3, <2>3, CountTypes DEF Answered
  <2>6. Moved(k, v.c) /\ InputOK(v.c) BY <1>1, <2>3, <2>4, <2>5, EndMoves
  <2>7. conn'[c] = v.c /\ \A d \in Conns \ {c} : conn'[d] = conn[d]
        BY <1>6, <2>1
  <2>8. SessionOK(v.c) /\ (CountOK(k) => CountOK(v.c)) BY <2>6 DEF Moved
  <2>9. QED BY <1>5, <2>6, <2>7, <2>8
<1>10. CASE ReadFails(c)
  <2> DEFINE p == IF k.peer = "reset" THEN "dead" ELSE "up"
             x == [k EXCEPT !.cut = FALSE, !.peer = p]
  <2>1. /\ conn' = [conn EXCEPT ![c] = x] /\ ToRead(k) = 0 /\ k.cap # k.len
        BY <1>10 DEF ReadFails
  <2>2. p \in Peer /\ p # "fin" BY DEF Peer
  <2> HIDE DEF p
  <2>3. /\ x \in Conn /\ x.inbox = k.inbox /\ x.fresh = k.fresh
        /\ x.tail = k.tail /\ x.reqs = k.reqs /\ x.status = k.status
        /\ x.resps = k.resps /\ x.state = k.state /\ x.out = k.out
        /\ x.keep = k.keep /\ x.end = k.end /\ x.cap = k.cap /\ x.len = k.len
        /\ x.interest = k.interest /\ x.peer = p
        BY <1>1, <2>2 DEF Conn
  <2> HIDE DEF x
  <2>4. k.inbox = <<>>
    <3>1. k.cap - k.len > 0 BY <1>7, <2>1
    <3>2. Len(k.inbox) = 0 BY <1>7, <2>1, <3>1 DEF ToRead, Least
    <3>3. QED BY <1>7, <3>2, EmptySeq
  <2>5. InputOK(x) BY <2>2, <2>3, <2>4 DEF InputOK
  <2>6. SessionOK(x)
        BY <1>1, <2>3
        DEF SessionOK, LingerOK, OverloadOK, WatchOK, WriteOK, RoomOK
  <2>7. CountOK(k) => CountOK(x) BY <1>1, <2>3, CountKept
  <2>8. conn'[c] = x /\ \A d \in Conns \ {c} : conn'[d] = conn[d]
        BY <1>1, <2>1
  <2>9. QED BY <1>5, <2>5, <2>6, <2>7, <2>8
<1>11. CASE Process(c)
  <2> DEFINE v == EndIfAsked(Answer(w))
  <2>1. Install(c, v) /\ pc = "process" BY <1>11 DEF Process
  <2>2. InputOK(k) BY <1>1, <2>1 DEF Outside
  <2>3. Reading(w.c) BY <1>1, <1>3 DEF Reading, TimeOK
  <2> HIDE DEF w
  <2>4. Moved(k, v.c) /\ InputOK(v.c) BY <1>1, <2>2, <2>3, AnswerMoves
  <2> HIDE DEF v
  <2>5. conn'[c] = v.c /\ \A d \in Conns \ {c} : conn'[d] = conn[d]
        BY <1>6, <2>1
  <2>6. SessionOK(v.c) /\ (CountOK(k) => CountOK(v.c)) BY <2>4 DEF Moved
  <2>7. QED BY <1>5, <2>4, <2>5, <2>6
<1>12. QED BY <1>8, <1>9, <1>10, <1>11 DEF SessionStep

\* An event of a session's socket.
LEMMA IoActs ==
  ASSUME SInv, NEW c \in Conns, hs_session_io_cb(c)
  PROVE  Acts(c)
<1> DEFINE k == conn[c]
           w == WorldOf(c)
           y == [w EXCEPT !.c.ready = FALSE]
<1>1. /\ TypeOK /\ conn \in [Conns -> Conn] /\ k \in Conn /\ SessionOK(k)
      /\ BufOK(k) /\ TimeOK(k) /\ w \in World /\ w.c = k
      BY SInvFacts
<1>2. pc = "poll" /\ http_session(c, y) /\ backlog' = backlog
      BY DEF hs_session_io_cb, Idle
<1>3. \A d \in Conns : Outside(d)
      BY <1>2, ConnAssumption DEF SInv, IInv, HandlerState, Outside
<1>4. y \in World /\ y.c = [k EXCEPT !.ready = FALSE]
      BY <1>1 DEF World, Conn
<1> HIDE DEF y, w
<1>5. /\ y.c \in Conn /\ y.c.inbox = k.inbox /\ y.c.fresh = k.fresh
      /\ y.c.tail = k.tail /\ y.c.reqs = k.reqs /\ y.c.status = k.status
      /\ y.c.resps = k.resps /\ y.c.state = k.state /\ y.c.out = k.out
      /\ y.c.keep = k.keep /\ y.c.end = k.end /\ y.c.cap = k.cap
      /\ y.c.len = k.len /\ y.c.interest = k.interest
      /\ y.c.timeout = k.timeout
      BY <1>1, <1>4 DEF Conn
<1>6. BufOK(y.c) /\ TimeOK(y.c) BY <1>1, <1>5 DEF BufOK, TimeOK
<1>7. SessionOK(y.c)
      BY <1>1, <1>5
      DEF SessionOK, LingerOK, OverloadOK, WatchOK, WriteOK, RoomOK
<1>8. CountOK(k) => CountOK(y.c) BY <1>1, <1>5, CountKept
<1>9. /\ Moved(y.c, conn'[c]) /\ \A d \in Conns \ {c} : conn'[d] = conn[d]
      /\ \/ pc' = "read" /\ cur' = c
         \/ pc' = "poll" /\ cur' = NoConn /\ InputOK(conn'[c])
      BY <1>1, <1>2, <1>4, <1>6, <1>7, HandlerMoves
<1>10. k.state # "FREE" BY <1>2, <1>5 DEF http_session
<1>11. \A i \in DOMAIN backlog' : New(conn'[backlog'[i]])
       BY <1>2, <1>9, <1>10, BacklogNew
<1>12. Outside(c)' => InputOK(conn'[c]) BY <1>9 DEF Outside
<1>13. /\ SessionOK(conn'[c])
       /\ CountOK(k) => CountOK(conn'[c])
       /\ k.state = "WRITE" /\ conn'[c].state # "FREE"
             => conn'[c].out <= k.out /\ conn'[c].status = k.status
       BY <1>5, <1>8, <1>9 DEF Moved
<1>14. QED BY <1>3, <1>9, <1>11, <1>12, <1>13 DEF Acts

\* A connection is accepted and its session runs.
LEMMA AcceptActs ==
  ASSUME SInv, NEW c \in Conns, AcceptNext(c)
  PROVE  Acts(c)
<1> DEFINE k == conn[c]
           w == WorldOf(c)
           f == w.fd + 1
           j == [w.c EXCEPT !.state = "INIT", !.timeout = RequestTimeout]
           x == [w EXCEPT !.fd = f, !.c = j]
           y == hs_add_events(x)
<1>1. /\ TypeOK /\ conn \in [Conns -> Conn] /\ k \in Conn
      /\ BufOK(k) /\ w \in World /\ w.c = k /\ backlog \in Seq(Conns)
      BY SInvFacts
<1>2. /\ backlog # <<>> /\ c = Head(backlog) /\ backlog' = Tail(backlog)
      /\ pc = "poll"
      BY DEF AcceptNext
<1>3. 1 \in DOMAIN backlog /\ c = backlog[1] BY <1>1, <1>2
<1>4. k.state = "FREE" /\ k.status = 0 /\ ~k.end /\ k.cap = 0
      BY <1>1, <1>3 DEF SInv, IInv, HandlerState, BufOK, New
<1>5. http_session(c, y)
  <2>1. x = [w EXCEPT !.fd = w.fd + 1, !.c.state = "INIT",
                      !.c.timeout = RequestTimeout]
        BY <1>1 DEF World
  <2>2. QED BY <2>1, Zenon DEF AcceptNext
<1>6. \A d \in Conns : Outside(d)
      BY <1>2, ConnAssumption DEF SInv, IInv, HandlerState, Outside
<1>7. "INIT" \in State /\ RequestTimeout \in Int /\ RequestTimeout > 0
      BY TimeAssumption DEF State
<1> HIDE DEF w
<1>8. f \in Int BY <1>1, WorldFields
<1>9. /\ j \in Conn /\ j.state = "INIT" /\ j.timeout = RequestTimeout
      /\ j.cap = 0 /\ j.status = 0 /\ j.fresh = k.fresh
      /\ j.inbox = k.inbox /\ j.tail = k.tail /\ j.reqs = k.reqs
      /\ j.resps = k.resps /\ ~j.end
      BY <1>1, <1>4, <1>7 DEF Conn
<1> HIDE DEF f, j
<1>10. x \in World /\ x.c = j BY <1>1, <1>8, <1>9 DEF World
<1> HIDE DEF x
<1>11. PICK t \in BOOLEAN, r \in BOOLEAN :
              y.c = [j EXCEPT !.timer = t, !.interest = "in", !.ready = r]
  <2>1. (x.fd < MaxFds) \in BOOLEAN OBVIOUS
  <2>2. PICK t \in BOOLEAN : t = (x.fd < MaxFds) BY <2>1, Zenon
  <2>3. PICK r \in BOOLEAN : r = (x.c.inbox # <<>> \/ x.c.peer # "up") OBVIOUS
  <2> DEFINE g == IF t THEN x.fd + 1 ELSE x.fd
             e == IF t THEN x.err ELSE "EBADF"
             m == [x.c EXCEPT !.timer = t, !.interest = "in", !.ready = r]
  <2>4. y = [x EXCEPT !.fd = g, !.err = e, !.c = m]
        BY <2>2, <2>3 DEF hs_add_events
  <2> HIDE DEF g, e, y
  <2>5. y.c = m BY <1>10, <2>4 DEF World
  <2>6. QED BY <1>10, <2>5
<1>12. y \in World /\ y.c \in Conn BY <1>10, AddEvents, WorldFields
<1> HIDE DEF y
<1>13. /\ y.c.state = "INIT" /\ y.c.timeout > 0 /\ y.c.cap = 0
       /\ y.c.status = 0 /\ y.c.fresh = k.fresh
       /\ y.c.inbox = k.inbox /\ y.c.tail = k.tail /\ y.c.reqs = k.reqs
       /\ y.c.resps = k.resps /\ y.c.interest = "in" /\ ~y.c.end
       BY <1>7, <1>9, <1>11 DEF Conn
<1>14. BufOK(y.c) /\ TimeOK(y.c) BY <1>13 DEF BufOK, TimeOK
<1>15. SessionOK(y.c)
       BY <1>13
       DEF SessionOK, LingerOK, OverloadOK, WatchOK, WriteOK, RoomOK
<1>16. CountOK(k) => CountOK(y.c)
       BY <1>1, <1>4, <1>12, <1>13, CountKept
<1>17. /\ Moved(y.c, conn'[c]) /\ \A d \in Conns \ {c} : conn'[d] = conn[d]
       /\ \/ pc' = "read" /\ cur' = c
          \/ pc' = "poll" /\ cur' = NoConn /\ InputOK(conn'[c])
       BY <1>1, <1>5, <1>12, <1>14, <1>15, HandlerMoves
<1>18. \A i \in DOMAIN backlog' : New(conn'[backlog'[i]])
  <2>1. \A i \in DOMAIN backlog' : /\ i + 1 \in DOMAIN backlog
                                   /\ i + 1 # 1
                                   /\ backlog'[i] = backlog[i + 1]
        BY <1>1, <1>2
  <2>2. \A i \in DOMAIN backlog' : backlog'[i] \in Conns \ {c}
        BY <1>1, <1>3, <2>1 DEF SInv, IInv, HandlerState
  <2>3. QED BY <1>17, <2>1, <2>2 DEF SInv
<1>19. Outside(c)' => InputOK(conn'[c]) BY <1>17 DEF Outside
<1>20. SessionOK(conn'[c]) /\ (CountOK(k) => CountOK(conn'[c]))
       BY <1>16, <1>17 DEF Moved
<1>21. QED BY <1>4, <1>6, <1>17, <1>18, <1>19, <1>20 DEF Acts

\* A tick of a session's timer.
LEMMA TimerActs ==
  ASSUME SInv, NEW c \in Conns, hs_request_timer_cb(c)
  PROVE  Acts(c)
<1> DEFINE k == conn[c]
           w == WorldOf(c)
           t == w.c.timeout - 1
           x == [w EXCEPT !.c.timeout = t]
           z == [x EXCEPT !.c.why = "timeout"]
           v == IF x.c.timeout = 0 THEN hs_end_session(z) ELSE x
<1>1. /\ TypeOK /\ conn \in [Conns -> Conn] /\ k \in Conn /\ SessionOK(k)
      /\ w \in World /\ w.c = k
      BY SInvFacts
<1>2. /\ k.state # "FREE" /\ backlog' = backlog /\ pc = "poll"
      /\ UNCHANGED <<pc, cur>> /\ Install(c, v)
      BY DEF hs_request_timer_cb, Idle
<1>3. \A d \in Conns : Outside(d)
      BY <1>2, ConnAssumption DEF SInv, IInv, HandlerState, Outside
<1> HIDE DEF w
<1>4. t \in Int BY <1>1, WorldFields
<1> HIDE DEF t
<1>5. x \in World /\ x.c = [k EXCEPT !.timeout = t]
      BY <1>1, <1>4 DEF World, Conn
<1> HIDE DEF x
<1>6. "timeout" \in Why BY DEF Why
<1>7. z \in World /\ z.c = [x.c EXCEPT !.why = "timeout"]
      BY <1>5, <1>6 DEF World, Conn
<1> HIDE DEF z
<1>8. /\ z.c.tail = k.tail /\ z.c.reqs = k.reqs /\ z.c.status = k.status
      /\ z.c.resps = k.resps
      BY <1>1, <1>5, <1>7 DEF Conn
<1>9. /\ x.c \in Conn /\ x.c.inbox = k.inbox /\ x.c.fresh = k.fresh
      /\ x.c.tail = k.tail /\ x.c.reqs = k.reqs /\ x.c.status = k.status
      /\ x.c.resps = k.resps /\ x.c.state = k.state /\ x.c.out = k.out
      /\ x.c.keep = k.keep /\ x.c.end = k.end /\ x.c.cap = k.cap
      /\ x.c.len = k.len /\ x.c.interest = k.interest /\ x.c.ready = k.ready
      /\ x.c.peer = k.peer /\ x.c.cut = k.cut
      BY <1>1, <1>5, WorldFields DEF Conn
<1>10. Moved(k, v.c) /\ InputOK(v.c)
  <2>1. CASE x.c.timeout = 0
    <3>1. v = hs_end_session(z) BY <2>1
    <3>2. z.c.resps <= Answered(k) BY <1>1, <1>8, CountTypes DEF Answered
    <3>3. QED BY <1>1, <1>7, <1>8, <3>1, <3>2, EndMoves
  <2>2. CASE x.c.timeout # 0
    <3>1. v = x BY <2>2
    <3>2. SessionOK(x.c)
          BY <1>1, <1>9
          DEF SessionOK, LingerOK, OverloadOK, WatchOK, WriteOK, RoomOK
    <3>3. InputOK(k) BY <1>3, SInvFacts
    <3>4. InputOK(x.c) BY <1>9, <3>3 DEF InputOK
    <3>5. CountOK(k) => CountOK(x.c) BY <1>1, <1>9, CountKept
    <3>6. x.c.out <= k.out BY <1>1, <1>9, ConnFields
    <3>7. QED BY <1>9, <3>1, <3>2, <3>4, <3>5, <3>6 DEF Moved
  <2>3. QED BY <2>1, <2>2
<1> HIDE DEF v
<1>11. conn'[c] = v.c /\ \A d \in Conns \ {c} : conn'[d] = conn[d]
       BY <1>1, <1>2 DEF Install
<1>12. \A i \in DOMAIN backlog' : New(conn'[backlog'[i]])
       BY <1>2, <1>11, BacklogNew
<1>13. /\ SessionOK(conn'[c])
       /\ CountOK(k) => CountOK(conn'[c])
       /\ k.state = "WRITE" /\ conn'[c].state # "FREE"
             => conn'[c].out <= k.out /\ conn'[c].status = k.status
       BY <1>10, <1>11 DEF Moved
<1>14. InputOK(conn'[c]) BY <1>10, <1>11
<1>15. QED BY <1>3, <1>11, <1>12, <1>13, <1>14 DEF Acts

\* A step acts on one connection, or on none.
LEMMA StepActs ==
  ASSUME SInv, Next
  PROVE  \/ UNCHANGED <<conn, backlog, pc, cur>>
         \/ \E c \in Conns : Acts(c)
<1>1. CASE hs_server_listen_cb BY <1>1 DEF hs_server_listen_cb
<1>2. CASE AcceptFails BY <1>2 DEF AcceptFails
<1>3. CASE \E c \in Conns : AcceptNext(c) BY <1>3, AcceptActs
<1>4. CASE \E c \in Conns : ClientStep(c) BY <1>4, ClientActs
<1>5. CASE \E c \in Conns : SessionStep(c) BY <1>5, SessionActs
<1>6. CASE \E c \in Conns : hs_session_io_cb(c) BY <1>6, IoActs
<1>7. CASE \E c \in Conns : hs_request_timer_cb(c) BY <1>7, TimerActs
<1>8. QED BY <1>1, <1>2, <1>3, <1>4, <1>5, <1>6, <1>7 DEF Next, AcceptStep

\* The listening socket keeps its wake-up: an event is queued, the accept
\* loop runs, or it ended for want of resources.
LEMMA BacklogStep ==
  ASSUME BacklogHasWakeup, Next
  PROVE  BacklogHasWakeup'
<1> USE DEF BacklogHasWakeup
<1>1. CASE hs_server_listen_cb BY <1>1 DEF hs_server_listen_cb
<1>2. CASE AcceptFails
  <2>1. starved' = TRUE \/ (UNCHANGED backlog /\ backlog = <<>>)
        BY <1>2 DEF AcceptFails
  <2>2. QED BY <2>1
<1>3. ASSUME NEW c \in Conns, AcceptNext(c) PROVE accepting'
      BY <1>3 DEF AcceptNext
<1>4. ASSUME NEW c \in Conns, ClientStep(c) PROVE BacklogHasWakeup'
  <2>1. CASE Connect(c) BY <2>1 DEF Connect
  <2>2. CASE \E u \in Unit : ClientSend(c, u) BY <2>2 DEF ClientSend
  <2>3. CASE ClientRead(c) \/ ClientFin(c) \/ ClientReset(c)
        BY <2>3 DEF ClientRead, ClientFin, ClientReset
  <2>4. QED BY <1>4, <2>1, <2>2, <2>3 DEF ClientStep
<1>5. ASSUME NEW c \in Conns, SessionStep(c)
      PROVE  UNCHANGED <<backlog, lready, accepting, starved>>
      BY <1>5 DEF SessionStep, ReadData, ReadEof, ReadFails, Process
<1>6. ASSUME NEW c \in Conns, hs_session_io_cb(c) \/ hs_request_timer_cb(c)
      PROVE  UNCHANGED <<backlog, lready, accepting, starved>>
      BY <1>6 DEF hs_session_io_cb, hs_request_timer_cb
<1>7. QED BY <1>1, <1>2, <1>3, <1>4, <1>5, <1>6 DEF Next, AcceptStep

\* The invariant is preserved by every step.
LEMMA SInvStep ==
  ASSUME SInv, [Next]_vars PROVE SInv'
<1>1. IInv' BY IInvStep DEF SInv
<1>2. BacklogHasWakeup'
  <2>1. CASE Next BY <2>1, BacklogStep DEF SInv
  <2>2. CASE UNCHANGED vars BY <2>2 DEF SInv, BacklogHasWakeup, vars
  <2>3. QED BY <2>1, <2>2
<1>3. CASE UNCHANGED <<conn, backlog, pc, cur>>
  <2>1. \A c \in Conns : SessionOK(conn'[c]) BY <1>3 DEF SInv
  <2>2. \A c \in Conns : Outside(c)' => InputOK(conn'[c])
        BY <1>3 DEF SInv, Outside
  <2>3. \A i \in DOMAIN backlog' : New(conn'[backlog'[i]]) BY <1>3 DEF SInv
  <2>4. QED BY <1>1, <1>2, <2>1, <2>2, <2>3
        DEF SInv, SessionOK, LingerOK, OverloadOK, WatchOK, WriteOK, RoomOK,
            InputOK, New
<1>4. ASSUME NEW c \in Conns, Acts(c) PROVE SInv'
  <2>1. \A d \in Conns : SessionOK(conn'[d]) BY <1>4 DEF SInv, Acts
  <2>2. \A d \in Conns : Outside(d)' => InputOK(conn'[d])
        BY <1>4 DEF SInv, Acts
  <2>3. \A i \in DOMAIN backlog' : New(conn'[backlog'[i]]) BY <1>4 DEF Acts
  <2>4. QED BY <1>1, <1>2, <2>1, <2>2, <2>3
        DEF SInv, SessionOK, LingerOK, OverloadOK, WatchOK, WriteOK, RoomOK,
            InputOK, New
<1>5. CASE UNCHANGED vars BY <1>3, <1>5 DEF vars
<1>6. CASE Next BY <1>3, <1>4, <1>6, StepActs
<1>7. QED BY <1>5, <1>6

\* The record of a connection that does not exist is in order.
LEMMA ClosedOK ==
  SessionOK(Closed) /\ InputOK(Closed) /\ CountOK(Closed)
<1>1. /\ Closed.state = "FREE" /\ Closed.status = 0 /\ Closed.fresh = <<>>
      /\ Closed.inbox = <<>> /\ Closed.resps = 0 /\ Closed.reqs = 0
      /\ Closed.tail = "none"
      BY DEF Closed
<1>2. SessionOK(Closed) /\ InputOK(Closed)
      BY <1>1 DEF SessionOK, LingerOK, OverloadOK, WatchOK, WriteOK, RoomOK,
                  InputOK
<1>3. Answerable(<<>>) = {} BY DEF Answerable
<1>4. <<>> \o <<>> = <<>>
  <2>1. <<>> \in Seq(Unit) OBVIOUS
  <2>2. QED BY <2>1, AnswerableDropped
<1>5. Owed(Closed) = 0 BY <1>1, <1>3, <1>4, FS_EmptySet DEF Owed
<1>6. Answered(Closed) = 0 /\ Turned(Closed) = 0
      BY <1>1 DEF Answered, Turned
<1>7. QED BY <1>1, <1>2, <1>5, <1>6 DEF CountOK

\* The invariant holds initially.
LEMMA SInvInit == Init => SInv
<1> SUFFICES ASSUME Init PROVE SInv OBVIOUS
<1>1. IInv BY IInvInit
<1>2. \A c \in Conns : conn[c] = Closed BY DEF Init
<1>3. backlog = <<>> BY DEF Init
<1>4. BacklogHasWakeup BY <1>3 DEF BacklogHasWakeup
<1>5. QED BY <1>1, <1>2, <1>3, <1>4, ClosedOK DEF SInv

-----------------------------------------------------------------------------
(* Theorems.                                                               *)

\* Every reachable state satisfies the sessions' inductive invariant.
THEOREM SessionInvariant == Spec => []SInv
  BY SInvInit, SInvStep, PTL DEF Spec

\* No connection waits in the backlog of the listening socket without an
\* event, unless the accept loop ran out of descriptors.
THEOREM BacklogIsWatched == Spec => []BacklogHasWakeup
<1>1. SInv => BacklogHasWakeup BY DEF SInv
<1>2. QED BY <1>1, SessionInvariant, PTL

\* Every handler that asks for the end of its session ends it, but for the
\* 503 branch of http_session.
THEOREM OnlyOverloadLingers == Spec => []LingeringIsOverload
<1>1. SInv => LingeringIsOverload
      BY DEF SInv, SessionOK, LingerOK, LingeringIsOverload
<1>2. QED BY <1>1, SessionInvariant, PTL

\* Edge-triggered input is missed in no other way than the two that
\* InputHasWakeup names.
THEOREM InputIsWatched == Spec => []InputHasWakeup
<1>1. SInv => InputHasWakeup
      BY DEF SInv, Outside, InputOK, InputHasWakeup
<1>2. QED BY <1>1, SessionInvariant, PTL

\* No response is started over while bytes of it are left.
THEOREM ResponsesGoOn == Spec => ResponseNotRestarted
<1> DEFINE A == \A c \in Conns :
                  conn[c].state = "WRITE" /\ conn[c].out > 0
                  /\ conn'[c].state # "FREE"
                      => conn'[c].out <= conn[c].out
                         /\ conn'[c].status = conn[c].status
<1>1. ASSUME SInv, Next PROVE A
  <2>1. \A d \in Conns : conn[d].out \in Nat
        BY <1>1 DEF SInv, IInv, TypeOK, Conn
  <2>2. CASE UNCHANGED <<conn, backlog, pc, cur>> BY <2>1, <2>2
  <2>3. ASSUME NEW c \in Conns, Acts(c) PROVE A
        BY <2>1, <2>3 DEF Acts
  <2>4. QED BY <1>1, <2>2, <2>3, StepActs
<1>2. SInv /\ [Next]_vars => [A]_vars BY <1>1
<1>3. QED BY <1>2, SessionInvariant, PTL DEF Spec, ResponseNotRestarted

\* Every session's responses and debts stay within its client's requests.
Counted == \A c \in Conns : CountOK(conn[c])

\* Without streamed bodies no unit is answered twice and no response is
\* written twice: a session answers at most what its client asked.
THEOREM AnswersAreAsked ==
  ASSUME Unstreamed PROVE Spec => []ResponsesMatchRequests
<1>1. Init => Counted BY ClosedOK DEF Init, Counted
<1>2. ASSUME SInv, Counted, [Next]_vars PROVE Counted'
  <2>1. CASE UNCHANGED conn BY <1>2, <2>1 DEF Counted
  <2>2. ASSUME NEW c \in Conns, Acts(c) PROVE Counted'
    <3>1. \A d \in Conns : CountOK(conn'[d]) BY <1>2, <2>2 DEF Counted, Acts
    <3>2. QED BY <3>1 DEF Counted, CountOK, Answered, Owed, Turned, Under
  <2>3. CASE Next BY <1>2, <2>1, <2>2, <2>3, StepActs
  <2>4. CASE UNCHANGED vars BY <2>1, <2>4 DEF vars
  <2>5. QED BY <1>2, <2>3, <2>4
<1>3. SInv /\ Counted => ResponsesMatchRequests
  <2> SUFFICES ASSUME SInv, Counted, NEW c \in Conns
               PROVE  conn[c].resps <= conn[c].reqs
                        + (IF conn[c].status = 503 THEN 1 ELSE 0)
      BY DEF ResponsesMatchRequests
  <2> DEFINE k == conn[c]
  <2>1. k \in Conn BY SInvFacts
  <2>2. CountOK(k) BY DEF Counted
  <2> HIDE DEF k
  <2>3. /\ k.resps \in Nat /\ k.reqs \in Nat /\ Under(k) \in 0..1
        /\ Owed(k) \in Nat
        BY <2>1, CountTypes
  <2>4. k.resps <= Answered(k) /\ Answered(k) \in Nat
        BY <2>1, <2>3, CountTypes DEF Answered
  <2>5. k.resps <= k.reqs + Turned(k)
        BY <2>1, <2>2, <2>3, <2>4, CountTypes DEF CountOK
  <2>6. QED BY <2>5 DEF Turned, k
<1>4. QED BY <1>1, <1>2, <1>3, SessionInvariant, PTL DEF Spec
=============================================================================
