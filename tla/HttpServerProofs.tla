-------------------------- MODULE HttpServerProofs --------------------------
(***************************************************************************)
(* Theorems about HttpServer, for every set of connections, buffer size,   *)
(* limit and timeout the assumptions allow.                                *)
(***************************************************************************)
EXTENDS HttpServer, TLAPS, SequenceTheorems, WellFoundedInduction

\* What the memory total holds besides the buffer of the session.
Balance(w) == w.mem - w.c.cap

\* The parts of the invariants that concern one connection record.
BufOK(k) == k.state \in {"FREE", "INIT"} => k.cap = 0
TimeOK(k) == k.state # "FREE" => k.timeout > 0
OutOK(k) ==
    k.state = "WRITE" /\ k.out > 0 /\ ~k.end
        => /\ k.interest = "out"
           /\ \/ k.ready
              \/ k.room = 0 /\ k.peer \in {"up", "fin"}

\* What is left of world w once a response was written or begun: world x.
Wrote(w, x) ==
    /\ x \in World /\ Balance(x) = Balance(w)
    /\ x.c.state \in {"WRITE", "INIT"} /\ x.c.timeout > 0
    /\ x.c.state = "INIT" => x.c.out = 0
    /\ BufOK(x.c) /\ OutOK(x.c)

-----------------------------------------------------------------------------
(* Session operations: each maps a world to a world, keeps the balance of  *)
(* the memory total, and does to the session what its callers rely on.     *)

\* The types of the fields of a world and its connection.
LEMMA WorldFields ==
  ASSUME NEW w \in World
  PROVE  /\ w.c \in Conn /\ w.mem \in Int /\ w.err \in Errno /\ w.fd \in Int
         /\ w.c.cap \in Nat /\ w.c.len \in Nat /\ w.c.out \in Nat
         /\ w.c.room \in Room /\ w.c.peer \in Peer /\ w.c.resps \in Nat
         /\ w.c.timeout \in Int /\ w.c.end \in BOOLEAN /\ w.c.keep \in BOOLEAN
         /\ w.c.fresh \in Units /\ w.c.inbox \in Units /\ w.c.timer \in BOOLEAN
         /\ w.c.mid \in BOOLEAN /\ w.c.state \in State
  BY DEF World, Conn

\* hs_free_buffer: the buffer is gone, the balance kept, the rest untouched.
LEMMA FreeBuffer ==
  ASSUME NEW w \in World
  PROVE  /\ hs_free_buffer(w) \in World
         /\ Balance(hs_free_buffer(w)) = Balance(w)
         /\ hs_free_buffer(w).c = [w.c EXCEPT !.cap = 0]
<1> DEFINE m == w.mem - w.c.cap
           k == [w.c EXCEPT !.cap = 0]
<1>1. m \in Int BY WorldFields
<1>2. k \in Conn /\ k.cap = 0 BY WorldFields DEF Conn
<1>3. hs_free_buffer(w) = [w EXCEPT !.mem = m, !.c = k]
      BY DEF hs_free_buffer, World
<1>4. m = Balance(w) BY DEF Balance
<1> HIDE DEF m, k
<1>5. /\ hs_free_buffer(w) \in World /\ hs_free_buffer(w).c = k
      /\ hs_free_buffer(w).mem = m
      BY <1>1, <1>2, <1>3 DEF World
<1>6. m - 0 = m BY <1>1
<1>7. QED BY <1>2, <1>4, <1>5, <1>6 DEF Balance, k

\* hs_init_session: on a session without a buffer the balance is kept.
LEMMA InitSession ==
  ASSUME NEW w \in World
  PROVE  /\ hs_init_session(w) \in World
         /\ w.c.cap = 0 => Balance(hs_init_session(w)) = Balance(w)
         /\ hs_init_session(w).c.cap = 0
         /\ hs_init_session(w).c.state = "READ"
         /\ hs_init_session(w).c.timeout = w.c.timeout
         /\ ~hs_init_session(w).c.end
<1> DEFINE k == [w.c EXCEPT !.keep = FALSE, !.end = FALSE, !.mid = FALSE,
                            !.cap = 0, !.len = 0, !.fresh = <<>>,
                            !.out = 0, !.state = "READ"]
<1>1. <<>> \in Units /\ "READ" \in State BY DEF Units, State
<1>2. k \in Conn /\ k.cap = 0 /\ k.state = "READ" /\ ~k.end
      /\ k.timeout = w.c.timeout
      BY <1>1, WorldFields DEF Conn
<1>3. hs_init_session(w) = [w EXCEPT !.c = k] BY DEF hs_init_session
<1> HIDE DEF k
<1>4. QED BY <1>2, <1>3 DEF World, Balance

\* hs_reset_timeout: only the timeout changes.
LEMMA ResetTimeout ==
  ASSUME NEW w \in World, NEW t \in Int
  PROVE  /\ hs_reset_timeout(w, t) \in World
         /\ hs_reset_timeout(w, t).c = [w.c EXCEPT !.timeout = t]
         /\ hs_reset_timeout(w, t).mem = w.mem
         /\ Balance(hs_reset_timeout(w, t)) = Balance(w)
<1> DEFINE k == [w.c EXCEPT !.timeout = t]
<1>1. k \in Conn /\ k.cap = w.c.cap BY WorldFields DEF Conn
<1>2. hs_reset_timeout(w, t) = [w EXCEPT !.c = k] BY DEF hs_reset_timeout
<1> HIDE DEF k
<1>3. QED BY <1>1, <1>2 DEF World, Balance, k

\* hs_end_session: the buffer goes with the session.
LEMMA EndSession ==
  ASSUME NEW w \in World
  PROVE  /\ hs_end_session(w) \in World
         /\ Balance(hs_end_session(w)) = Balance(w)
         /\ hs_end_session(w).c.state = "FREE" /\ hs_end_session(w).c.cap = 0
<1> DEFINE v == hs_free_buffer(w)
           f == v.fd - (IF w.c.timer THEN 2 ELSE 1)
           e == IF w.c.timer THEN v.err ELSE "EBADF"
           k == [v.c EXCEPT !.timer = FALSE, !.state = "FREE",
                            !.interest = "none", !.ready = FALSE,
                            !.inbox = <<>>, !.fresh = <<>>]
<1>1. v \in World /\ Balance(v) = Balance(w) /\ v.c.cap = 0
      BY FreeBuffer, WorldFields DEF Conn
<1>2. f \in Int BY <1>1, WorldFields
<1>3. e \in Errno BY <1>1, WorldFields DEF Errno
<1>4. <<>> \in Units /\ "FREE" \in State /\ "none" \in Interest
      BY DEF Units, State, Interest
<1>5. k \in Conn /\ k.state = "FREE" /\ k.cap = v.c.cap
      BY <1>1, <1>4, WorldFields DEF Conn
<1>6. hs_end_session(w) = [v EXCEPT !.fd = f, !.err = e, !.c = k]
      BY DEF hs_end_session
<1> HIDE DEF v, f, e, k
<1>7. QED BY <1>1, <1>2, <1>3, <1>5, <1>6 DEF World, Balance

\* hs_write_client_socket: what is left of the response is left in the
\* buffer.  EAGAIN is reported by a socket that takes nothing.
LEMMA WriteSocket ==
  ASSUME NEW w \in World
  PROVE  /\ hs_write_client_socket(w) \in World
         /\ hs_write_client_socket(w).mem = w.mem
         /\ hs_write_client_socket(w).c.cap = w.c.cap
         /\ hs_write_client_socket(w).c.state = w.c.state
         /\ hs_write_client_socket(w).c.timeout = w.c.timeout
         /\ hs_write_client_socket(w).c.keep = w.c.keep
         /\ hs_write_client_socket(w).c.end = w.c.end
         /\ hs_write_client_socket(w).c.status = w.c.status
         /\ w.c.out = 0 => hs_write_client_socket(w).c.out = 0
<1> DEFINE n == Least(w.c.out, w.c.room)
           r == IF n > 0 /\ n = w.c.out THEN w.c.resps + 1 ELSE w.c.resps
           out == w.c.out - n
           room == w.c.room - n
           k == Taken(w.c, n)
           d == [w.c EXCEPT !.peer = "dead"]
<1>1. /\ out \in Nat /\ room \in Room /\ r \in Nat
      /\ w.c.out = 0 => out = 0
      BY WorldFields, BufAssumption DEF Least, Room
<1>2. "dead" \in Peer /\ {"ECONNRESET", "EPIPE", "EAGAIN"} \subseteq Errno
      BY DEF Peer, Errno
<1>3. \/ hs_write_client_socket(w) =
           [w EXCEPT !.c = d, !.err = "ECONNRESET"]
      \/ hs_write_client_socket(w) = [w EXCEPT !.err = "EPIPE"]
      \/ hs_write_client_socket(w) = [w EXCEPT !.err = "EAGAIN"]
      \/ hs_write_client_socket(w) = [w EXCEPT !.c = k]
  <2>1. CASE w.c.peer = "reset"
        BY <2>1, Zenon DEF hs_write_client_socket
  <2>2. CASE w.c.peer = "dead"
        BY <2>2, Zenon DEF hs_write_client_socket
  <2>3. CASE w.c.peer \in {"up", "fin"} /\ n = 0 /\ w.c.out > 0
        BY <2>3, Zenon DEF hs_write_client_socket
  <2>4. CASE w.c.peer \in {"up", "fin"} /\ ~(n = 0 /\ w.c.out > 0)
    <3>1. w.c.peer # "reset" /\ w.c.peer # "dead" BY <2>4
    <3>2. hs_write_client_socket(w) = [w EXCEPT !.c = k]
          BY <2>4, <3>1 DEF hs_write_client_socket
    <3>3. QED BY <3>2
  <2>5. QED BY <2>1, <2>2, <2>3, <2>4, WorldFields DEF Peer
<1> HIDE DEF out, room, r
<1>4. /\ k \in Conn /\ k.cap = w.c.cap /\ k.state = w.c.state
      /\ k.timeout = w.c.timeout /\ k.keep = w.c.keep /\ k.end = w.c.end
      /\ k.status = w.c.status /\ k.out = out
      BY <1>1, WorldFields DEF Conn, Taken, out, room, r
<1> HIDE DEF k
<1>5. CASE hs_write_client_socket(w) = [w EXCEPT !.c = k]
      BY <1>1, <1>4, <1>5 DEF World
<1>6. CASE hs_write_client_socket(w) =
             [w EXCEPT !.c = d, !.err = "ECONNRESET"]
  <2>1. /\ d \in Conn /\ d.cap = w.c.cap /\ d.state = w.c.state
        /\ d.timeout = w.c.timeout /\ d.keep = w.c.keep /\ d.end = w.c.end
        /\ d.status = w.c.status /\ d.out = w.c.out
        BY <1>2, WorldFields DEF Conn
  <2> HIDE DEF d
  <2>2. QED BY <1>2, <1>6, <2>1 DEF World
<1>7. CASE \/ hs_write_client_socket(w) = [w EXCEPT !.err = "EPIPE"]
           \/ hs_write_client_socket(w) = [w EXCEPT !.err = "EAGAIN"]
      BY <1>2, <1>7 DEF World, Conn
<1>8. QED BY <1>3, <1>5, <1>6, <1>7

\* hs_add_write_event: the session is watched for EPOLLOUT, and an event is
\* queued at once when the socket is writable or broken.
LEMMA AddWriteEvent ==
  ASSUME NEW w \in World
  PROVE  /\ hs_add_write_event(w) \in World
         /\ hs_add_write_event(w).mem = w.mem
         /\ \E r \in BOOLEAN :
              /\ r <=> (w.c.room > 0 \/ w.c.peer \in {"reset", "dead"})
              /\ hs_add_write_event(w).c =
                   [w.c EXCEPT !.interest = "out", !.ready = r]
<1>1. PICK r \in BOOLEAN :
             r = (w.c.room > 0 \/ w.c.peer \in {"reset", "dead"})
      OBVIOUS
<1>2. "out" \in Interest BY DEF Interest
<1> DEFINE k == [w.c EXCEPT !.interest = "out", !.ready = r]
<1>3. k \in Conn BY <1>2, WorldFields DEF Conn
<1>4. hs_add_write_event(w) = [w EXCEPT !.c = k]
      BY <1>1 DEF hs_add_write_event
<1> HIDE DEF k
<1>5. /\ hs_add_write_event(w) \in World /\ hs_add_write_event(w).mem = w.mem
      /\ hs_add_write_event(w).c = k
      BY <1>3, <1>4 DEF World
<1>6. QED BY <1>1, <1>5 DEF k

\* hs_write_response: the session goes on writing with a wake-up, waits for
\* the next request without a buffer, or is marked for its end.
LEMMA WriteResponse ==
  ASSUME NEW w \in World, w.c.state \in {"WRITE", "INIT"}, BufOK(w.c),
         w.c.state = "INIT" => w.c.out = 0, w.c.timeout > 0
  PROVE  Wrote(w, hs_write_response(w))
<1> DEFINE v == hs_write_client_socket(w)
           a == hs_add_write_event(v)
           b == [a EXCEPT !.c.state = "WRITE"]
           f == hs_free_buffer(v)
           g == [f EXCEPT !.c.state = "INIT"]
<1>1. /\ v \in World /\ v.mem = w.mem /\ v.c.cap = w.c.cap
      /\ v.c.state = w.c.state /\ v.c.timeout = w.c.timeout
      /\ w.c.out = 0 => v.c.out = 0
      BY WriteSocket
<1>2. {"epipe", "done"} \subseteq Why /\ "WRITE" \in State /\ "INIT" \in State
      BY DEF Why, State
<1>3. RequestTimeout \in Int /\ KeepAliveTimeout \in Int
      /\ RequestTimeout > 0 /\ KeepAliveTimeout > 0
      BY TimeAssumption
<1>4. Balance(v) = Balance(w) BY <1>1 DEF Balance
<1>5. CASE v.err = "EPIPE"
  <2>1. hs_write_response(w) = [v EXCEPT !.c.end = TRUE, !.c.why = "epipe"]
        BY <1>5, Zenon DEF hs_write_response
  <2> DEFINE k == [v.c EXCEPT !.end = TRUE, !.why = "epipe"]
  <2> HIDE DEF v
  <2>2. /\ k \in Conn /\ k.cap = v.c.cap /\ k.state = v.c.state
        /\ k.timeout = v.c.timeout /\ k.out = v.c.out /\ k.end
        BY <1>1, <1>2, WorldFields DEF Conn
  <2>3. hs_write_response(w) = [v EXCEPT !.c = k]
        BY <2>1, <1>1 DEF World
  <2> HIDE DEF k
  <2>4. /\ hs_write_response(w) \in World /\ hs_write_response(w).c = k
        /\ hs_write_response(w).mem = v.mem
        BY <1>1, <2>2, <2>3 DEF World
  <2>5. QED BY <1>1, <1>4, <2>2, <2>4 DEF Balance, BufOK, OutOK, Wrote
<1>6. CASE v.err # "EPIPE" /\ v.c.out # 0
  <2>1. hs_write_response(w) = hs_reset_timeout(b, RequestTimeout)
        BY <1>6, Zenon DEF hs_write_response
  <2> HIDE DEF v
  <2>2. PICK r \in BOOLEAN :
               /\ r <=> (v.c.room > 0 \/ v.c.peer \in {"reset", "dead"})
               /\ a.c = [v.c EXCEPT !.interest = "out", !.ready = r]
        BY <1>1, AddWriteEvent
  <2>3. a \in World /\ a.mem = v.mem BY <1>1, AddWriteEvent
  <2> HIDE DEF a
  <2> DEFINE k == [a.c EXCEPT !.state = "WRITE"]
  <2>4. /\ k \in Conn /\ k.cap = a.c.cap /\ k.state = "WRITE"
        /\ k.out = a.c.out /\ k.interest = a.c.interest /\ k.ready = a.c.ready
        /\ k.room = a.c.room /\ k.peer = a.c.peer /\ k.end = a.c.end
        BY <1>2, <2>3, WorldFields DEF Conn
  <2>5. b \in World /\ b.c = k /\ b.mem = a.mem
        BY <2>3, <2>4 DEF World
  <2> HIDE DEF b, k
  <2>6. /\ a.c.cap = v.c.cap /\ a.c.interest = "out" /\ a.c.ready = r
        /\ a.c.room = v.c.room /\ a.c.peer = v.c.peer
        BY <1>1, <2>2, WorldFields DEF Conn
  <2>7. /\ hs_write_response(w) \in World /\ hs_write_response(w).mem = b.mem
        /\ hs_write_response(w).c = [b.c EXCEPT !.timeout = RequestTimeout]
        BY <1>3, <2>1, <2>5, ResetTimeout
  <2> DEFINE x == hs_write_response(w)
  <2>8. /\ x.c.cap = k.cap /\ x.c.state = k.state /\ x.c.interest = k.interest
        /\ x.c.ready = k.ready /\ x.c.room = k.room /\ x.c.peer = k.peer
        /\ x.c.timeout = RequestTimeout
        BY <2>5, <2>7, WorldFields DEF Conn
  <2>9. v.c.room \in Room /\ v.c.peer \in Peer BY <1>1, WorldFields
  <2> HIDE DEF x
  <2>10. OutOK(x.c)
    <3>1. CASE r BY <3>1, <2>4, <2>6, <2>8 DEF OutOK
    <3>2. CASE ~r
          BY <3>2, <2>2, <2>4, <2>6, <2>8, <2>9, BufAssumption
          DEF OutOK, Room, Peer
    <3>3. QED BY <3>1, <3>2
  <2>11. Balance(x) = Balance(w)
         BY <1>4, <2>3, <2>4, <2>5, <2>6, <2>7, <2>8 DEF Balance, x
  <2>12. QED BY <1>3, <2>4, <2>7, <2>8, <2>10, <2>11 DEF BufOK, Wrote, x
<1>7. CASE v.err # "EPIPE" /\ v.c.out = 0 /\ v.c.keep
  <2>1. hs_write_response(w) = hs_reset_timeout(g, KeepAliveTimeout)
        BY <1>7, Zenon DEF hs_write_response
  <2> HIDE DEF v
  <2>2. /\ f \in World /\ Balance(f) = Balance(v)
        /\ f.c = [v.c EXCEPT !.cap = 0]
        BY <1>1, FreeBuffer
  <2> HIDE DEF f
  <2> DEFINE k == [f.c EXCEPT !.state = "INIT"]
  <2>3. k \in Conn /\ k.cap = f.c.cap /\ k.state = "INIT" /\ k.out = f.c.out
        BY <1>2, <2>2, WorldFields DEF Conn
  <2>4. g \in World /\ g.c = k /\ g.mem = f.mem
        BY <2>2, <2>3 DEF World
  <2> HIDE DEF g, k
  <2>5. f.c.cap = 0 /\ f.c.out = v.c.out
        BY <1>1, <2>2, WorldFields DEF Conn
  <2> DEFINE x == hs_write_response(w)
  <2>6. /\ x \in World /\ x.mem = g.mem
        /\ x.c = [g.c EXCEPT !.timeout = KeepAliveTimeout]
        BY <1>3, <2>1, <2>4, ResetTimeout
  <2>7. /\ x.c.cap = k.cap /\ x.c.state = k.state /\ x.c.out = k.out
        /\ x.c.timeout = KeepAliveTimeout
        BY <2>4, <2>6, WorldFields DEF Conn
  <2> HIDE DEF x
  <2>8. Balance(x) = Balance(w)
        BY <1>4, <2>2, <2>3, <2>4, <2>6, <2>7 DEF Balance
  <2>9. QED BY <1>3, <1>7, <2>3, <2>5, <2>6, <2>7, <2>8
           DEF BufOK, OutOK, Wrote, x
<1>8. CASE v.err # "EPIPE" /\ v.c.out = 0 /\ ~v.c.keep
  <2>1. hs_write_response(w) = [v EXCEPT !.c.end = TRUE, !.c.why = "done"]
        BY <1>8, Zenon DEF hs_write_response
  <2> DEFINE k == [v.c EXCEPT !.end = TRUE, !.why = "done"]
  <2> HIDE DEF v
  <2>2. /\ k \in Conn /\ k.cap = v.c.cap /\ k.state = v.c.state
        /\ k.timeout = v.c.timeout /\ k.out = v.c.out /\ k.end
        BY <1>1, <1>2, WorldFields DEF Conn
  <2>3. hs_write_response(w) = [v EXCEPT !.c = k]
        BY <2>1, <1>1 DEF World
  <2> HIDE DEF k
  <2>4. /\ hs_write_response(w) \in World /\ hs_write_response(w).c = k
        /\ hs_write_response(w).mem = v.mem
        BY <1>1, <2>2, <2>3 DEF World
  <2>5. QED BY <1>1, <1>4, <2>2, <2>4 DEF Balance, BufOK, OutOK, Wrote
<1>9. QED BY <1>5, <1>6, <1>7, <1>8

\* http_respond: the request buffer is replaced by the response's.
LEMMA Respond ==
  ASSUME NEW w \in World, NEW status \in Status, NEW keep \in BOOLEAN,
         w.c.timeout > 0
  PROVE  Wrote(w, http_respond(w, status, keep))
<1> DEFINE a == [w EXCEPT !.c.keep = keep]
           f == hs_free_buffer(a)
           m == f.mem + ResponseBufSize
           k == [f.c EXCEPT !.cap = ResponseBufSize, !.len = ResponseLen,
                            !.out = ResponseLen, !.status = status,
                            !.state = "WRITE"]
           x == [f EXCEPT !.mem = m, !.c = k]
<1>1. a \in World /\ Balance(a) = Balance(w) /\ a.c.timeout = w.c.timeout
      BY DEF World, Conn, Balance
<1> HIDE DEF a
<1>2. f \in World /\ Balance(f) = Balance(w) /\ f.c = [a.c EXCEPT !.cap = 0]
      BY <1>1, FreeBuffer
<1>3. f.c.timeout = w.c.timeout /\ f.c.cap = 0
      BY <1>1, <1>2, WorldFields DEF Conn
<1> HIDE DEF f
<1>4. ResponseBufSize \in Nat /\ ResponseLen \in Nat /\ "WRITE" \in State
      BY BufAssumption DEF State
<1>5. m \in Int /\ m - ResponseBufSize = f.mem - 0
      BY <1>2, <1>4, WorldFields
<1>6. /\ k \in Conn /\ k.cap = ResponseBufSize /\ k.state = "WRITE"
      /\ k.timeout = f.c.timeout
      BY <1>2, <1>4, WorldFields DEF Conn
<1>7. http_respond(w, status, keep) = hs_write_response(x)
      BY DEF http_respond, a, f
<1> HIDE DEF m, k
<1>8. x \in World /\ x.c = k /\ x.mem = m BY <1>2, <1>5, <1>6 DEF World
<1> HIDE DEF x
<1>9. Balance(x) = Balance(w) BY <1>2, <1>3, <1>5, <1>6, <1>8 DEF Balance
<1>10. Wrote(x, hs_write_response(x))
       BY <1>3, <1>6, <1>8, WriteResponse DEF BufOK
<1>11. QED BY <1>7, <1>9, <1>10 DEF Wrote

\* hs_error_response: the second write starts from what the first one left.
LEMMA ErrorResponse ==
  ASSUME NEW w \in World, NEW status \in Status, NEW keep \in BOOLEAN,
         w.c.timeout > 0
  PROVE  Wrote(w, hs_error_response(w, status, keep))
<1> DEFINE x == http_respond(w, status, keep)
<1>1. Wrote(w, x) BY Respond
<1>2. hs_error_response(w, status, keep) = hs_write_response(x)
      BY DEF hs_error_response
<1> HIDE DEF x
<1>3. Wrote(x, hs_write_response(x)) BY <1>1, WriteResponse DEF Wrote
<1>4. QED BY <1>1, <1>2, <1>3 DEF Wrote

\* The part of the invariant that holds between two handlers.
Settled(k) == k \in Conn /\ BufOK(k) /\ TimeOK(k) /\ OutOK(k)

\* The tail of http_session on a world that a handler left behind.
LEMMA EndAsked ==
  ASSUME NEW w \in World, NEW x \in World, Balance(x) = Balance(w),
         Settled(x.c)
  PROVE  /\ EndIfAsked(x) \in World /\ Balance(EndIfAsked(x)) = Balance(w)
         /\ Settled(EndIfAsked(x).c)
         /\ EndIfAsked(x).c.state # "FREE" => ~EndIfAsked(x).c.end
<1>1. CASE x.c.end
  <2>1. EndIfAsked(x) = hs_end_session(x) BY <1>1 DEF EndIfAsked
  <2>2. hs_end_session(x).c \in Conn BY EndSession, WorldFields
  <2>3. QED BY <2>1, <2>2, EndSession DEF Settled, BufOK, TimeOK, OutOK
<1>2. CASE ~x.c.end
  <2>1. EndIfAsked(x) = x BY <1>2 DEF EndIfAsked
  <2>2. QED BY <1>2, <2>1
<1>3. QED BY <1>1, <1>2

\* A written response leaves a settled session.
LEMMA WroteSettled ==
  ASSUME NEW w, NEW x, Wrote(w, x)
  PROVE  x \in World /\ Balance(x) = Balance(w) /\ Settled(x.c)
  BY WorldFields DEF Wrote, Settled, TimeOK

\* A session in its receive loop.
Reading(k) == k \in Conn /\ k.state = "READ" /\ k.timeout > 0

\* BeginRead: a session without a buffer gets one and pays for it.
LEMMA BeginReadOK ==
  ASSUME NEW w \in World
  PROVE  /\ BeginRead(w) \in World /\ Balance(BeginRead(w)) = Balance(w)
         /\ Reading(BeginRead(w).c)
<1> DEFINE m == w.mem + RequestBufSize
           k == [w.c EXCEPT !.cap = RequestBufSize]
           v == IF w.c.cap = 0 THEN [w EXCEPT !.mem = m, !.c = k] ELSE w
           j == [v.c EXCEPT !.state = "READ"]
           x == [v EXCEPT !.c = j]
<1>1. /\ RequestBufSize \in Nat /\ "READ" \in State
      /\ RequestTimeout \in Int /\ RequestTimeout > 0
      BY BufAssumption, TimeAssumption DEF State
<1>2. m \in Int /\ m - RequestBufSize = w.mem BY <1>1, WorldFields
<1>3. k \in Conn /\ k.cap = RequestBufSize BY <1>1, WorldFields DEF Conn
<1>4. BeginRead(w) = hs_reset_timeout(x, RequestTimeout)
  <2>1. w.c.cap = 0 => [w EXCEPT !.mem = m, !.c.cap = RequestBufSize]
                         = [w EXCEPT !.mem = m, !.c = k]
        BY DEF World
  <2>2. QED BY <2>1, Zenon DEF BeginRead
<1> HIDE DEF m, k
<1>5. v \in World /\ Balance(v) = Balance(w)
  <2>1. CASE w.c.cap = 0
    <3>1. v = [w EXCEPT !.mem = m, !.c = k] BY <2>1
    <3> HIDE DEF v
    <3>2. v \in World /\ v.c = k /\ v.mem = m
          BY <1>2, <1>3, <3>1 DEF World
    <3>3. w.mem - 0 = w.mem BY WorldFields
    <3>4. QED BY <1>2, <1>3, <2>1, <3>2, <3>3 DEF Balance
  <2>2. CASE w.c.cap # 0 BY <2>2
  <2>3. QED BY <2>1, <2>2
<1> HIDE DEF v
<1>6. j \in Conn /\ j.state = "READ" /\ j.cap = v.c.cap
      BY <1>1, <1>5, WorldFields DEF Conn
<1> HIDE DEF j
<1>7. x \in World /\ x.c = j /\ x.mem = v.mem BY <1>5, <1>6 DEF World
<1> HIDE DEF x
<1>8. Balance(x) = Balance(w) BY <1>5, <1>6, <1>7 DEF Balance
<1> DEFINE y == hs_reset_timeout(x, RequestTimeout)
<1>9. /\ y \in World /\ Balance(y) = Balance(x)
      /\ y.c = [x.c EXCEPT !.timeout = RequestTimeout]
      BY <1>1, <1>7, ResetTimeout
<1> HIDE DEF y
<1>10. y.c \in Conn /\ y.c.state = "READ" /\ y.c.timeout = RequestTimeout
       BY <1>6, <1>7, <1>9, WorldFields DEF Conn
<1>11. QED BY <1>1, <1>4, <1>8, <1>9, <1>10 DEF Reading, y

\* hs_add_events: descriptors and events only.
LEMMA AddEvents ==
  ASSUME NEW w \in World
  PROVE  /\ hs_add_events(w) \in World /\ Balance(hs_add_events(w)) = Balance(w)
         /\ hs_add_events(w).c.cap = w.c.cap
         /\ hs_add_events(w).c.state = w.c.state
         /\ hs_add_events(w).c.timeout = w.c.timeout
<1>0. (w.fd < MaxFds) \in BOOLEAN OBVIOUS
<1>1. PICK t \in BOOLEAN : t = (w.fd < MaxFds) BY <1>0, Zenon
<1>2. PICK r \in BOOLEAN : r = (w.c.inbox # <<>> \/ w.c.peer # "up") OBVIOUS
<1> DEFINE f == IF t THEN w.fd + 1 ELSE w.fd
           e == IF t THEN w.err ELSE "EBADF"
           k == [w.c EXCEPT !.timer = t, !.interest = "in", !.ready = r]
<1>3. f \in Int /\ e \in Errno BY WorldFields DEF Errno
<1>4. "in" \in Interest BY DEF Interest
<1>5. /\ k \in Conn /\ k.cap = w.c.cap /\ k.state = w.c.state
      /\ k.timeout = w.c.timeout
      BY <1>4, WorldFields DEF Conn
<1>6. hs_add_events(w) = [w EXCEPT !.fd = f, !.err = e, !.c = k]
      BY <1>1, <1>2 DEF hs_add_events
<1> HIDE DEF f, e, k
<1>7. QED BY <1>3, <1>5, <1>6 DEF World, Balance

\* The least element of a set of naturals, which Answer chooses.
LEMMA LeastNat ==
  ASSUME NEW T, T \subseteq Nat, T # {}
  PROVE  \E x \in T : \A y \in T : x <= y
<1> DEFINE R == OpToRel(<, Nat)
<1>1. IsWellFoundedOn(R, Nat) BY NatLessThanWellFounded
<1>2. \A x, y \in Nat : y < x => <<y, x>> \in R BY DEF OpToRel
<1> HIDE DEF R
<1>3. PICK x \in T : \A y \in T : ~(<<y, x>> \in R) BY <1>1, WFMin
<1>4. \A y \in T : ~(y < x) BY <1>2, <1>3, Zenon
<1>5. \A y \in T : x <= y BY <1>4
<1>6. QED BY <1>5

\* Received: what is read moves from the socket to the buffer, which grows
\* within the balance.
LEMMA ReceivedOK ==
  ASSUME NEW w \in World, NEW n \in 1..Len(w.c.inbox)
  PROVE  /\ Received(w, n) \in World /\ Balance(Received(w, n)) = Balance(w)
         /\ Received(w, n).c.state = w.c.state
         /\ Received(w, n).c.timeout = w.c.timeout
<1> DEFINE cap == GrownCap(w.c.cap, w.c.len + n)
           m == w.mem - w.c.cap + cap
           len == w.c.len + n
           fresh == w.c.fresh \o SubSeq(w.c.inbox, 1, n)
           inbox == SubSeq(w.c.inbox, n + 1, Len(w.c.inbox))
<1>0. (cap >= MaxRequestBufSize) \in BOOLEAN OBVIOUS
<1>1. PICK t \in BOOLEAN : t = (cap >= MaxRequestBufSize) BY <1>0, Zenon
<1> DEFINE k == [w.c EXCEPT !.cap = cap, !.len = len, !.fresh = fresh,
                            !.inbox = inbox, !.cut = (cap >= MaxRequestBufSize)]
<1>2. w.c.inbox \in Seq(Unit) /\ w.c.fresh \in Seq(Unit)
      BY WorldFields DEF Units
<1>3. cap \in Nat /\ len \in Nat
      BY <1>2, WorldFields, BufAssumption DEF GrownCap, Least
<1>4. m \in Int /\ m - cap = w.mem - w.c.cap BY <1>3, WorldFields
<1>5. fresh \in Units /\ inbox \in Units
  <2>1. SubSeq(w.c.inbox, 1, n) \in Seq(Unit)
        BY <1>2, SubSeqProperties
  <2>2. inbox \in Seq(Unit)
        BY <1>2, SubSeqProperties
  <2>3. fresh \in Seq(Unit) BY <1>2, <2>1
  <2>4. QED BY <2>2, <2>3 DEF Units
<1>6. Received(w, n) = [w EXCEPT !.mem = m, !.c = k]
      BY DEF Received
<1>7. k = [w.c EXCEPT !.cap = cap, !.len = len, !.fresh = fresh,
                      !.inbox = inbox, !.cut = t]
      BY <1>1, Zenon
<1> HIDE DEF cap, m, len, fresh, inbox, k
<1>8. k \in Conn /\ k.cap = cap /\ k.state = w.c.state /\ k.timeout = w.c.timeout
      BY <1>3, <1>5, <1>7, WorldFields DEF Conn
<1>9. QED BY <1>4, <1>6, <1>8 DEF World, Balance

\* Answer: whatever the parser found, the session is left settled.
LEMMA AnswerOK ==
  ASSUME NEW w \in World, Reading(w.c)
  PROVE  /\ Answer(w) \in World /\ Balance(Answer(w)) = Balance(w)
         /\ Settled(Answer(w).c)
<1> DEFINE fresh == w.c.fresh
           A == Answerable(fresh)
           i == CHOOSE j \in A : \A k \in A : j <= k
           u == fresh[i]
           v == [w EXCEPT !.c.fresh = <<>>]
<1>1. <<>> \in Units BY DEF Units
<1>2. /\ v \in World /\ Balance(v) = Balance(w)
      /\ v.c.state = "READ" /\ v.c.timeout > 0 /\ v.c.mid = w.c.mid
      BY <1>1 DEF World, Conn, Balance, Reading
<1>3. fresh \in Seq(Unit) BY WorldFields DEF Units
<1>4. CASE A = {}
  <2>1. (w.c.mid \/ fresh # <<>>) \in BOOLEAN OBVIOUS
  <2>2. PICK t \in BOOLEAN : t = (w.c.mid \/ fresh # <<>>) BY <2>1, Zenon
  <2> DEFINE x == [v EXCEPT !.c.mid = t]
  <2>3. Answer(w) = [v EXCEPT !.c.mid = v.c.mid \/ fresh # <<>>]
        BY <1>4, Zenon DEF Answer
  <2>4. Answer(w) = x
    <3>1. t = (v.c.mid \/ fresh # <<>>) BY <1>2, <2>2, Zenon
    <3> HIDE DEF v, fresh
    <3>2. QED BY <2>3, <3>1, Zenon
  <2> HIDE DEF v
  <2>5. /\ x \in World /\ x.c \in Conn /\ Balance(x) = Balance(v)
        /\ x.c.state = "READ" /\ x.c.timeout > 0
        BY <1>2 DEF World, Conn, Balance
  <2> HIDE DEF x
  <2>6. QED BY <1>2, <2>4, <2>5 DEF Settled, BufOK, TimeOK, OutOK
<1>5. CASE A # {}
  <2>1. A \subseteq Nat /\ A \subseteq DOMAIN fresh
        BY <1>3 DEF Answerable
  <2>2. \E j \in A : \A k \in A : j <= k BY <1>5, <2>1, LeastNat
  <2>3. i \in A BY <2>2, Zenon
  <2>4. u \in Unit
    <3>1. i \in DOMAIN fresh BY <2>1, <2>3, Zenon
    <3> HIDE DEF i, fresh
    <3>2. QED BY <1>3, <3>1
  <2>5. u.keep \in BOOLEAN BY <2>4 DEF Unit
  <2>6. /\ 200 \in Status /\ 400 \in Status BY DEF Status
  <2>7. \/ Answer(w) = http_respond(v, 200, u.keep)
        \/ Answer(w) = hs_error_response(v, 400, u.keep)
        \/ Answer(w) = hs_error_response(v, 400, FALSE)
    <3>1. CASE u.kind \in {"full", "stream"}
          BY <1>5, <3>1, Zenon DEF Answer
    <3>2. CASE u.kind = "rest" /\ (w.c.mid \/ i > 1)
          BY <1>5, <3>2, Zenon DEF Answer
    <3>3. CASE u.kind = "bad"
          BY <1>5, <3>3, Zenon DEF Answer
    <3>4. CASE /\ u.kind \notin {"full", "stream"} /\ u.kind # "bad"
               /\ ~(u.kind = "rest" /\ (w.c.mid \/ i > 1))
          BY <1>5, <3>4, Zenon DEF Answer
    <3>5. QED BY <3>1, <3>2, <3>3, <3>4, Zenon
  <2> HIDE DEF v, u
  <2>8. Wrote(v, Answer(w))
    <3>1. Wrote(v, http_respond(v, 200, u.keep))
          BY <1>2, <2>5, <2>6, Respond
    <3>2. Wrote(v, hs_error_response(v, 400, u.keep))
          BY <1>2, <2>5, <2>6, ErrorResponse
    <3>3. Wrote(v, hs_error_response(v, 400, FALSE))
          BY <1>2, <2>6, ErrorResponse
    <3>4. QED BY <2>7, <3>1, <3>2, <3>3, Zenon
  <2>9. QED BY <1>2, <2>8, WroteSettled
<1>6. QED BY <1>4, <1>5

-----------------------------------------------------------------------------
(* The inductive invariant.                                                *)

\* Types, the place of the handler, and every connection settled.
IInv == TypeOK /\ HandlerState /\ \A c \in Conns : Settled(conn[c])

\* Session c is left with world v, in the balance it was found in.
Stepped(c, v) ==
    /\ v \in World /\ Balance(v) = Balance(WorldOf(c)) /\ Settled(v.c)
    /\ Install(c, v)

\* A session inside its receive loop is settled.
LEMMA ReadingSettled ==
  ASSUME NEW k, Reading(k) PROVE Settled(k)
  BY DEF Reading, Settled, BufOK, TimeOK, OutOK

\* The world of a connection is a world.
LEMMA WorldOfType ==
  ASSUME TypeOK, NEW c \in Conns
  PROVE  WorldOf(c) \in World /\ WorldOf(c).c = conn[c]
         /\ WorldOf(c).mem = memused
  BY DEF TypeOK, WorldOf, World

\* http_session, from INIT (without a buffer), READ or WRITE.
LEMMA HttpSession ==
  ASSUME NEW c \in Conns, NEW w \in World, BufOK(w.c), TimeOK(w.c),
         http_session(c, w)
  PROVE  \E v \in World :
            /\ Balance(v) = Balance(w) /\ Settled(v.c) /\ Install(c, v)
            /\ \/ pc' = "poll" /\ cur' = NoConn
               \/ pc' = "read" /\ cur' = c /\ v.c.state = "READ"
<1> DEFINE z == hs_init_session(w)
           Goal(v) == /\ v \in World /\ Balance(v) = Balance(w)
                      /\ Settled(v.c) /\ Install(c, v)
                      /\ \/ pc' = "poll" /\ cur' = NoConn
                         \/ pc' = "read" /\ cur' = c /\ v.c.state = "READ"
<1>1. CASE w.c.state = "INIT"
  <2>1. w.c.cap = 0 /\ w.c.timeout > 0 BY <1>1 DEF BufOK, TimeOK
  <2>2. z \in World /\ Balance(z) = Balance(w) /\ z.c.timeout > 0
        BY <2>1, InitSession
  <2> HIDE DEF z
  <2>3. CASE Install(c, hs_error_response(z, 503, FALSE)) /\ Return
    <3> DEFINE v == hs_error_response(z, 503, FALSE)
    <3>1. Wrote(z, v)
          BY <2>2, ErrorResponse DEF Status
    <3>2. Install(c, v) /\ pc' = "poll" /\ cur' = NoConn BY <2>3 DEF Return
    <3> HIDE DEF v
    <3>3. v \in World /\ Balance(v) = Balance(z) /\ Settled(v.c)
          BY <3>1, WroteSettled
    <3>4. QED BY <2>2, <3>2, <3>3
  <2>4. CASE Install(c, BeginRead(z)) /\ pc' = "read" /\ cur' = c
    <3>1. Goal(BeginRead(z))
          BY <2>2, <2>4, BeginReadOK, ReadingSettled DEF Reading
    <3>2. QED BY <3>1
  <2>5. QED BY <1>1, <2>3, <2>4 DEF http_session, z
<1>2. CASE w.c.state = "READ"
  <2>1. Install(c, BeginRead(w)) /\ pc' = "read" /\ cur' = c
        BY <1>2 DEF http_session
  <2>2. Goal(BeginRead(w))
        BY <2>1, BeginReadOK, ReadingSettled DEF Reading
  <2>3. QED BY <2>2
<1>3. CASE w.c.state = "WRITE"
  <2> DEFINE v == hs_write_response(w)
             x == EndIfAsked(v)
  <2>1. Install(c, x) /\ Return BY <1>3 DEF http_session
  <2>2. Wrote(w, v) BY <1>3, WriteResponse DEF TimeOK
  <2> HIDE DEF v
  <2>3. v \in World /\ Balance(v) = Balance(w) /\ Settled(v.c)
        BY <2>2, WroteSettled
  <2>4. Goal(x) BY <2>1, <2>3, EndAsked DEF Return
  <2>5. QED BY <2>4
<1>4. QED BY <1>1, <1>2, <1>3 DEF http_session

\* What the client and the network do to a settled connection leaves it
\* settled: the wake-up of a stalled response is queued when the socket
\* drains or breaks.
LEMMA ClientEffects ==
  ASSUME NEW k \in Conn, Settled(k)
  PROVE  /\ \A u \in Unit : /\ Settled(Arrived(k, u))
                            /\ Arrived(k, u).cap = k.cap
                            /\ Arrived(k, u).state = k.state
         /\ /\ Settled(Drained(k)) /\ Drained(k).cap = k.cap
            /\ Drained(k).state = k.state
         /\ \A p \in {"fin", "reset", "dead"} :
               /\ Settled(Hangup(k, p)) /\ Hangup(k, p).cap = k.cap
               /\ Hangup(k, p).state = k.state
<1>1. ASSUME NEW u \in Unit
      PROVE  /\ Settled(Arrived(k, u)) /\ Arrived(k, u).cap = k.cap
             /\ Arrived(k, u).state = k.state
  <2>1. (k.ready \/ k.interest = "in") \in BOOLEAN OBVIOUS
  <2>2. PICK r \in BOOLEAN : r = (k.ready \/ k.interest = "in") BY <2>1, Zenon
  <2> DEFINE n == IF u.kind \in StartKinds /\ k.tail # "head"
                  THEN k.reqs + 1 ELSE k.reqs
             x == [k EXCEPT !.inbox = Append(k.inbox, u), !.tail = u.kind,
                            !.sent = k.sent + 1, !.reqs = n, !.ready = r]
  <2>3. Arrived(k, u) = x BY <2>2, Zenon DEF Arrived
  <2>4. /\ Append(k.inbox, u) \in Units /\ u.kind \in Tails
        /\ k.sent + 1 \in Nat /\ n \in Nat
        BY DEF Conn, Units, Unit, Tails
  <2> HIDE DEF n
  <2>5. /\ x \in Conn /\ x.cap = k.cap /\ x.state = k.state /\ x.out = k.out
        /\ x.end = k.end /\ x.timeout = k.timeout /\ x.interest = k.interest
        /\ x.ready = r /\ x.room = k.room /\ x.peer = k.peer
        BY <2>4 DEF Conn
  <2> HIDE DEF x
  <2>6. Settled(x) BY <2>2, <2>5, Zenon DEF Settled, BufOK, TimeOK, OutOK
  <2>7. QED BY <2>3, <2>5, <2>6
<1>2. /\ Settled(Drained(k)) /\ Drained(k).cap = k.cap
      /\ Drained(k).state = k.state
  <2>1. (k.ready \/ (k.interest = "out" /\ k.room = 0)) \in BOOLEAN OBVIOUS
  <2>2. PICK r \in BOOLEAN : r = (k.ready \/ (k.interest = "out" /\ k.room = 0))
        BY <2>1, Zenon
  <2> DEFINE x == [k EXCEPT !.room = SendBufSize, !.ready = r]
  <2>3. Drained(k) = x BY <2>2, Zenon DEF Drained
  <2>4. SendBufSize \in Room BY BufAssumption DEF Room
  <2>5. /\ x \in Conn /\ x.cap = k.cap /\ x.state = k.state /\ x.out = k.out
        /\ x.end = k.end /\ x.timeout = k.timeout /\ x.interest = k.interest
        /\ x.ready = r
        BY <2>4 DEF Conn
  <2> HIDE DEF x
  <2>6. Settled(x) BY <2>2, <2>5, Zenon DEF Settled, BufOK, TimeOK, OutOK
  <2>7. QED BY <2>3, <2>5, <2>6
<1>3. ASSUME NEW p \in {"fin", "reset", "dead"}
      PROVE  /\ Settled(Hangup(k, p)) /\ Hangup(k, p).cap = k.cap
             /\ Hangup(k, p).state = k.state
  <2> DEFINE q == \/ k.ready \/ k.interest = "in"
                  \/ p # "fin" /\ k.interest = "out"
  <2>1. q \in BOOLEAN OBVIOUS
  <2>2. PICK r \in BOOLEAN : r = q BY <2>1, Zenon
  <2> DEFINE x == [k EXCEPT !.peer = p, !.ready = r]
  <2>3. Hangup(k, p) = x BY <2>2, Zenon DEF Hangup
  <2>4. p \in Peer BY DEF Peer
  <2>5. /\ x \in Conn /\ x.cap = k.cap /\ x.state = k.state /\ x.out = k.out
        /\ x.end = k.end /\ x.timeout = k.timeout /\ x.interest = k.interest
        /\ x.ready = r /\ x.room = k.room /\ x.peer = p
        BY <2>4 DEF Conn
  <2> HIDE DEF x
  <2>6. OutOK(x) BY <2>2, <2>5, Zenon DEF Settled, OutOK
  <2>7. Settled(x) BY <2>5, <2>6, Zenon DEF Settled, BufOK, TimeOK
  <2>8. QED BY <2>3, <2>5, <2>7
<1>4. QED BY <1>1, <1>2, <1>3

\* A record put in place of a connection's, without touching the rest of
\* the world.
LEMMA RecordStep ==
  ASSUME TypeOK, NEW c \in Conns, NEW k \in Conn, Settled(k),
         k.cap = conn[c].cap, conn' = [conn EXCEPT ![c] = k],
         memused' = memused, errno' \in Errno, nfds' = nfds
  PROVE  \E v : Stepped(c, v) /\ v.c = k
<1> DEFINE v == [c |-> k, mem |-> memused, err |-> errno', fd |-> nfds]
<1>1. v \in World /\ v.c = k /\ v.mem = memused /\ v.err = errno' /\ v.fd = nfds
      BY DEF World, TypeOK
<1>2. WorldOf(c).c = conn[c] /\ WorldOf(c).mem = memused BY WorldOfType
<1> HIDE DEF v
<1>3. Install(c, v) BY <1>1 DEF Install
<1>4. Balance(v) = Balance(WorldOf(c)) BY <1>1, <1>2 DEF Balance
<1>5. QED BY <1>1, <1>3, <1>4 DEF Stepped

\* The record of a connection that does not exist.
LEMMA ClosedType ==
  /\ Closed \in Conn /\ Closed.state = "FREE" /\ Closed.cap = 0
  /\ "up" \in Peer
<1>1. /\ "dead" \in Peer /\ "up" \in Peer /\ "FREE" \in State
      /\ "none" \in Interest /\ "none" \in Why /\ "none" \in Tails
      BY DEF Peer, State, Interest, Why, Tails
<1>2. <<>> \in Units /\ SendBufSize \in Room /\ 0 \in Status
      BY BufAssumption DEF Units, Room, Status
<1>3. QED BY <1>1, <1>2 DEF Closed, Conn

\* The clients' actions.
LEMMA ClientSteps ==
  ASSUME IInv, NEW c \in Conns, ClientStep(c)
  PROVE  /\ \E v : Stepped(c, v) /\ v.c.state = conn[c].state
         /\ UNCHANGED <<pc, cur>>
         /\ \/ backlog' = backlog
            \/ /\ backlog' = Append(backlog, c) /\ c \notin Backlogged
               /\ conn[c].state = "FREE"
<1>1. TypeOK /\ Settled(conn[c]) /\ conn[c] \in Conn BY DEF IInv, TypeOK
<1>2. CASE Connect(c)
  <2> DEFINE k == [Closed EXCEPT !.peer = "up"]
  <2>1. conn[c].state = "FREE" /\ c \notin Backlogged
        BY <1>2 DEF Connect, Connected
  <2>2. /\ k \in Conn /\ k.cap = 0 /\ k.state = "FREE"
        BY ClosedType DEF Conn
  <2>3. conn[c].cap = 0 BY <1>1, <2>1 DEF Settled, BufOK
  <2>4. Settled(k) BY <2>2 DEF Settled, BufOK, TimeOK, OutOK
  <2>5. /\ conn' = [conn EXCEPT ![c] = k] /\ backlog' = Append(backlog, c)
        /\ UNCHANGED <<memused, errno, nfds, pc, cur>>
        BY <1>2 DEF Connect
  <2> HIDE DEF k
  <2>6. errno' \in Errno BY <1>1, <2>5 DEF TypeOK
  <2>7. \E v : Stepped(c, v) /\ v.c = k
        BY <1>1, <2>2, <2>3, <2>4, <2>5, <2>6, RecordStep
  <2>8. QED BY <2>1, <2>2, <2>5, <2>7
<1>3. ASSUME NEW k, Settled(k), k.cap = conn[c].cap,
             k.state = conn[c].state, conn' = [conn EXCEPT ![c] = k],
             UNCHANGED <<memused, errno, nfds, backlog, pc, cur>>
      PROVE  /\ \E v : Stepped(c, v) /\ v.c.state = conn[c].state
             /\ UNCHANGED <<pc, cur, backlog>>
  <2>1. errno' \in Errno /\ k \in Conn BY <1>1, <1>3 DEF TypeOK, Settled
  <2>2. \E v : Stepped(c, v) /\ v.c = k BY <1>1, <1>3, <2>1, RecordStep
  <2>3. QED BY <1>3, <2>2
<1>4. CASE \E u \in Unit : ClientSend(c, u)
  <2>1. PICK u \in Unit : ClientSend(c, u) BY <1>4
  <2> DEFINE k == Arrived(conn[c], u)
  <2>2. Settled(k) /\ k.cap = conn[c].cap /\ k.state = conn[c].state
        BY <1>1, ClientEffects
  <2>3. /\ conn' = [conn EXCEPT ![c] = k]
        /\ UNCHANGED <<memused, errno, nfds, backlog, pc, cur>>
        BY <2>1 DEF ClientSend
  <2> HIDE DEF k
  <2>4. QED BY <1>3, <2>2, <2>3
<1>5. CASE ClientRead(c)
  <2> DEFINE k == Drained(conn[c])
  <2>1. Settled(k) /\ k.cap = conn[c].cap /\ k.state = conn[c].state
        BY <1>1, ClientEffects
  <2>2. /\ conn' = [conn EXCEPT ![c] = k]
        /\ UNCHANGED <<memused, errno, nfds, backlog, pc, cur>>
        BY <1>5 DEF ClientRead
  <2> HIDE DEF k
  <2>3. QED BY <1>3, <2>1, <2>2
<1>6. CASE ClientFin(c) \/ ClientReset(c)
  <2>1. PICK p \in {"fin", "reset", "dead"} :
               /\ conn' = [conn EXCEPT ![c] = Hangup(conn[c], p)]
               /\ UNCHANGED <<memused, errno, nfds, backlog, pc, cur>>
    <3>1. CASE ClientFin(c) BY <3>1 DEF ClientFin
    <3>2. CASE ClientReset(c)
          BY <3>2, Zenon DEF ClientReset
    <3>3. QED BY <1>6, <3>1, <3>2
  <2> DEFINE k == Hangup(conn[c], p)
  <2>2. Settled(k) /\ k.cap = conn[c].cap /\ k.state = conn[c].state
        BY <1>1, ClientEffects
  <2> HIDE DEF k
  <2>3. QED BY <1>3, <2>1, <2>2 DEF k
<1>7. QED BY <1>2, <1>4, <1>5, <1>6 DEF ClientStep

\* The receive loop and what follows it.
LEMMA SessionSteps ==
  ASSUME IInv, NEW c \in Conns, SessionStep(c)
  PROVE  /\ conn[c].state = "READ" /\ backlog' = backlog
         /\ \E v : /\ Stepped(c, v)
                   /\ \/ pc' = "poll" /\ cur' = NoConn
                      \/ /\ pc' \in {"read", "process"} /\ cur' = c
                         /\ v.c.state = "READ"
<1> DEFINE w == WorldOf(c)
<1>1. /\ TypeOK /\ Settled(conn[c]) /\ conn[c] \in Conn
      /\ w \in World /\ w.c = conn[c] /\ w.mem = memused
      BY WorldOfType DEF IInv, TypeOK
<1>2. cur = c /\ pc # "poll"
      BY DEF SessionStep, ReadData, ReadEof, ReadFails, Process
<1>3. conn[c].state = "READ" BY <1>2 DEF IInv, HandlerState
<1>4. Reading(conn[c]) BY <1>1, <1>3 DEF Reading, Settled, TimeOK
<1>5. CASE ReadData(c)
  <2> DEFINE n == ToRead(conn[c])
             v == Received(w, n)
  <2>1. /\ n > 0 /\ Install(c, v) /\ cur' = cur /\ backlog' = backlog
        /\ pc' = IF v.c.cap < MaxRequestBufSize THEN "read" ELSE "process"
        BY <1>5 DEF ReadData
  <2>2. n \in 1..Len(w.c.inbox)
    <3>1. conn[c].cap \in Nat /\ conn[c].len \in Nat /\ conn[c].inbox \in Seq(Unit)
          BY <1>1, WorldFields DEF Units
    <3>2. QED BY <1>1, <2>1, <3>1 DEF ToRead, Least
  <2> HIDE DEF n, w
  <2>3. /\ v \in World /\ Balance(v) = Balance(w) /\ v.c.state = w.c.state
        /\ v.c.timeout = w.c.timeout
        BY <1>1, <2>2, ReceivedOK
  <2> HIDE DEF v
  <2>4. Settled(v.c)
        BY <1>1, <1>4, <2>3, ReadingSettled, WorldFields DEF Reading
  <2>5. pc' \in {"read", "process"} BY <2>1
  <2>6. Stepped(c, v) BY <2>1, <2>3, <2>4 DEF Stepped, w
  <2>7. QED BY <1>1, <1>2, <1>3, <2>1, <2>3, <2>5, <2>6
<1>6. CASE ReadEof(c)
  <2> DEFINE x == [w EXCEPT !.c.end = TRUE, !.c.why = "eof"]
             v == EndIfAsked(x)
  <2>1. /\ Install(c, v) /\ backlog' = backlog
        /\ pc' = "poll" /\ cur' = NoConn
        BY <1>6 DEF ReadEof, Return
  <2>2. "eof" \in Why BY DEF Why
  <2>3. /\ x \in World /\ x.mem = w.mem /\ x.c.cap = w.c.cap
        /\ x.c.state = w.c.state /\ x.c.timeout = w.c.timeout
        BY <1>1, <2>2 DEF World, Conn
  <2> HIDE DEF x, w
  <2>4. Settled(x.c) /\ Balance(x) = Balance(w)
        BY <1>1, <1>4, <2>3, ReadingSettled, WorldFields DEF Reading, Balance
  <2>5. v \in World /\ Balance(v) = Balance(w) /\ Settled(v.c)
        BY <1>1, <2>3, <2>4, EndAsked
  <2> HIDE DEF v
  <2>6. Stepped(c, v) BY <2>1, <2>5 DEF Stepped, w
  <2>7. QED BY <1>3, <2>1, <2>6
<1>7. CASE ReadFails(c)
  <2> DEFINE p == IF conn[c].peer = "reset" THEN "dead" ELSE "up"
             k == [conn[c] EXCEPT !.cut = FALSE, !.peer = p]
  <2>1. /\ conn' = [conn EXCEPT ![c] = k] /\ backlog' = backlog
        /\ pc' = "process" /\ cur' = cur /\ memused' = memused
        /\ nfds' = nfds
        BY <1>7 DEF ReadFails
  <2>2. errno' \in Errno BY <1>7 DEF ReadFails, Errno
  <2>3. p \in Peer BY DEF Peer
  <2> HIDE DEF p
  <2>4. /\ k \in Conn /\ k.cap = conn[c].cap /\ k.state = conn[c].state
        /\ k.timeout = conn[c].timeout
        BY <1>1, <2>3 DEF Conn
  <2> HIDE DEF k, w
  <2>5. Settled(k) BY <1>4, <2>4, ReadingSettled DEF Reading
  <2>6. PICK v : Stepped(c, v) /\ v.c = k
        BY <1>1, <2>1, <2>2, <2>4, <2>5, RecordStep
  <2>7. v.c.state = "READ" BY <1>3, <2>4, <2>6
  <2>8. QED BY <1>2, <1>3, <2>1, <2>6, <2>7
<1>8. CASE Process(c)
  <2> DEFINE x == Answer(w)
             v == EndIfAsked(x)
  <2>1. /\ Install(c, v) /\ backlog' = backlog
        /\ pc' = "poll" /\ cur' = NoConn
        BY <1>8 DEF Process, Return
  <2> HIDE DEF w
  <2>2. x \in World /\ Balance(x) = Balance(w) /\ Settled(x.c)
        BY <1>1, <1>4, AnswerOK
  <2> HIDE DEF x
  <2>3. v \in World /\ Balance(v) = Balance(w) /\ Settled(v.c)
        BY <1>1, <2>2, EndAsked
  <2> HIDE DEF v
  <2>4. Stepped(c, v) BY <2>1, <2>3 DEF Stepped, w
  <2>5. QED BY <1>3, <2>1, <2>4
<1>9. QED BY <1>5, <1>6, <1>7, <1>8 DEF SessionStep

\* An event of a session.
LEMMA IoStep ==
  ASSUME IInv, NEW c \in Conns, hs_session_io_cb(c)
  PROVE  /\ conn[c].state # "FREE" /\ backlog' = backlog
         /\ \E v : /\ Stepped(c, v)
                   /\ \/ pc' = "poll" /\ cur' = NoConn
                      \/ pc' = "read" /\ cur' = c /\ v.c.state = "READ"
<1> DEFINE w == WorldOf(c)
           x == [w EXCEPT !.c.ready = FALSE]
<1>1. /\ TypeOK /\ Settled(conn[c])
      /\ w \in World /\ w.c = conn[c] /\ w.mem = memused
      BY WorldOfType DEF IInv
<1>2. http_session(c, x) /\ backlog' = backlog BY DEF hs_session_io_cb
<1> HIDE DEF w
<1>3. /\ x \in World /\ x.mem = w.mem /\ x.c.cap = w.c.cap
      /\ x.c.state = w.c.state /\ x.c.timeout = w.c.timeout
      BY <1>1 DEF World, Conn
<1> HIDE DEF x
<1>4. BufOK(x.c) /\ TimeOK(x.c) /\ Balance(x) = Balance(w)
      BY <1>1, <1>3 DEF Settled, BufOK, TimeOK, Balance
<1>5. PICK v \in World :
            /\ Balance(v) = Balance(x) /\ Settled(v.c) /\ Install(c, v)
            /\ \/ pc' = "poll" /\ cur' = NoConn
               \/ pc' = "read" /\ cur' = c /\ v.c.state = "READ"
      BY <1>2, <1>3, <1>4, HttpSession
<1>6. Stepped(c, v) BY <1>4, <1>5 DEF Stepped, w
<1>7. x.c.state # "FREE" BY <1>2 DEF http_session
<1>8. QED BY <1>1, <1>2, <1>3, <1>5, <1>6, <1>7

\* A connection is accepted and its session runs.
LEMMA AcceptStepOK ==
  ASSUME IInv, NEW c \in Conns, AcceptNext(c)
  PROVE  /\ backlog # <<>> /\ c = Head(backlog) /\ backlog' = Tail(backlog)
         /\ \E v : /\ Stepped(c, v)
                   /\ \/ pc' = "poll" /\ cur' = NoConn
                      \/ pc' = "read" /\ cur' = c /\ v.c.state = "READ"
<1> DEFINE w == WorldOf(c)
           f == w.fd + 1
           k == [w.c EXCEPT !.state = "INIT", !.timeout = RequestTimeout]
           x == [w EXCEPT !.fd = f, !.c = k]
           y == hs_add_events(x)
<1>1. /\ TypeOK /\ Settled(conn[c])
      /\ w \in World /\ w.c = conn[c] /\ w.mem = memused
      BY WorldOfType DEF IInv
<1>2. backlog # <<>> /\ c = Head(backlog) /\ backlog' = Tail(backlog)
      BY DEF AcceptNext
<1>3. conn[c].state = "FREE"
  <2>1. backlog \in Seq(Conns) BY <1>1 DEF TypeOK
  <2>2. 1 \in DOMAIN backlog /\ Head(backlog) = backlog[1]
        BY <1>2, <2>1
  <2>3. QED BY <1>2, <2>2 DEF IInv, HandlerState
<1>4. w.c.cap = 0 BY <1>1, <1>3 DEF Settled, BufOK
<1>5. http_session(c, y)
  <2>1. x = [w EXCEPT !.fd = w.fd + 1, !.c.state = "INIT",
                      !.c.timeout = RequestTimeout]
        BY <1>1 DEF World
  <2>2. QED BY <2>1, Zenon DEF AcceptNext
<1>6. /\ "INIT" \in State /\ RequestTimeout \in Int /\ RequestTimeout > 0
      BY TimeAssumption DEF State
<1> HIDE DEF w
<1>7. f \in Int BY <1>1, WorldFields
<1>8. /\ k \in Conn /\ k.cap = w.c.cap /\ k.state = "INIT"
      /\ k.timeout = RequestTimeout
      BY <1>1, <1>6, WorldFields DEF Conn
<1> HIDE DEF f, k
<1>9. x \in World /\ x.c = k /\ x.mem = w.mem
      BY <1>1, <1>7, <1>8 DEF World
<1> HIDE DEF x
<1>10. /\ y \in World /\ Balance(y) = Balance(x) /\ y.c.cap = 0
       /\ y.c.state = "INIT" /\ y.c.timeout > 0
       BY <1>4, <1>6, <1>8, <1>9, AddEvents
<1> HIDE DEF y
<1>11. BufOK(y.c) /\ TimeOK(y.c) /\ Balance(y) = Balance(w)
       BY <1>4, <1>8, <1>9, <1>10 DEF BufOK, TimeOK, Balance
<1>12. PICK v \in World :
             /\ Balance(v) = Balance(y) /\ Settled(v.c) /\ Install(c, v)
             /\ \/ pc' = "poll" /\ cur' = NoConn
                \/ pc' = "read" /\ cur' = c /\ v.c.state = "READ"
       BY <1>5, <1>10, <1>11, HttpSession
<1>13. Stepped(c, v) BY <1>11, <1>12 DEF Stepped, w
<1>14. QED BY <1>2, <1>12, <1>13

\* A tick of a session's timer.
LEMMA TimerStep ==
  ASSUME IInv, NEW c \in Conns, hs_request_timer_cb(c)
  PROVE  /\ conn[c].state # "FREE" /\ backlog' = backlog
         /\ cur = NoConn /\ UNCHANGED <<pc, cur>>
         /\ \E v : Stepped(c, v)
<1> DEFINE w == WorldOf(c)
           t == w.c.timeout - 1
           x == [w EXCEPT !.c.timeout = t]
           z == [x EXCEPT !.c.why = "timeout"]
           v == IF x.c.timeout = 0 THEN hs_end_session(z) ELSE x
<1>1. /\ TypeOK /\ Settled(conn[c])
      /\ w \in World /\ w.c = conn[c] /\ w.mem = memused
      BY WorldOfType DEF IInv
<1>2. /\ conn[c].state # "FREE" /\ backlog' = backlog /\ pc = "poll"
      /\ UNCHANGED <<pc, cur>> /\ Install(c, v)
      BY DEF hs_request_timer_cb, Idle
<1>3. cur = NoConn BY <1>2 DEF IInv, HandlerState
<1> HIDE DEF w
<1>4. t \in Int /\ w.c.timeout > 0
      BY <1>1, <1>2, WorldFields DEF Settled, TimeOK
<1>5. t = 0 \/ t > 0 BY <1>1, <1>4, WorldFields
<1> HIDE DEF t
<1>6. /\ x \in World /\ x.mem = w.mem /\ x.c.cap = w.c.cap /\ x.c.timeout = t
      /\ x.c.state = w.c.state /\ x.c.out = w.c.out /\ x.c.end = w.c.end
      /\ x.c.interest = w.c.interest /\ x.c.ready = w.c.ready
      /\ x.c.room = w.c.room /\ x.c.peer = w.c.peer
      BY <1>1, <1>4 DEF World, Conn
<1> HIDE DEF x
<1>7. "timeout" \in Why BY DEF Why
<1>8. z \in World /\ z.mem = x.mem /\ z.c.cap = x.c.cap
      BY <1>6, <1>7 DEF World, Conn
<1> HIDE DEF z
<1>9. v \in World /\ Balance(v) = Balance(w) /\ Settled(v.c)
  <2>1. Balance(z) = Balance(w) /\ Balance(x) = Balance(w)
        BY <1>6, <1>8 DEF Balance
  <2>2. CASE t = 0
    <3>1. v = hs_end_session(z) BY <1>6, <2>2
    <3> HIDE DEF v
    <3>2. /\ v \in World /\ Balance(v) = Balance(z) /\ v.c.state = "FREE"
          /\ v.c.cap = 0
          BY <1>8, <3>1, EndSession
    <3>3. Settled(v.c)
          BY <3>2, WorldFields DEF Settled, BufOK, TimeOK, OutOK
    <3>4. QED BY <2>1, <3>2, <3>3
  <2>3. CASE t > 0
    <3>1. v = x BY <1>4, <1>6, <2>3
    <3> HIDE DEF v
    <3>2. x.c \in Conn BY <1>6, WorldFields
    <3>3. OutOK(x.c) BY <1>1, <1>6, Zenon DEF Settled, OutOK
    <3>4. BufOK(x.c) /\ TimeOK(x.c)
          BY <1>1, <1>6, <2>3 DEF Settled, BufOK, TimeOK
    <3>5. QED BY <1>6, <2>1, <3>1, <3>2, <3>3, <3>4 DEF Settled
  <2>4. QED BY <1>5, <2>2, <2>3
<1> HIDE DEF v
<1>10. Stepped(c, v) BY <1>2, <1>9 DEF Stepped, w
<1>11. QED BY <1>2, <1>3, <1>10

\* What a step of connection c leaves of the table of connections.
LEMMA TableAfter ==
  ASSUME IInv, NEW c \in Conns, NEW v, Stepped(c, v)
  PROVE  /\ conn' \in [Conns -> Conn] /\ memused' \in Int
         /\ errno' \in Errno /\ nfds' \in Int
         /\ conn'[c] = v.c /\ \A d \in Conns \ {c} : conn'[d] = conn[d]
         /\ \A d \in Conns : Settled(conn'[d])
         /\ memused' - memused = conn'[c].cap - conn[c].cap
<1>1. /\ v \in World /\ v.c \in Conn /\ v.mem \in Int /\ v.err \in Errno
      /\ v.fd \in Int /\ v.c.cap \in Nat
      BY WorldFields DEF Stepped
<1>2. /\ conn' = [conn EXCEPT ![c] = v.c] /\ memused' = v.mem
      /\ errno' = v.err /\ nfds' = v.fd /\ Settled(v.c)
      BY DEF Stepped, Install
<1>3. conn \in [Conns -> Conn] /\ memused \in Int BY DEF IInv, TypeOK
<1>4. conn'[c] = v.c /\ \A d \in Conns \ {c} : conn'[d] = conn[d]
      BY <1>2, <1>3
<1>5. v.mem - v.c.cap = memused - conn[c].cap
  <2>1. WorldOf(c).c = conn[c] /\ WorldOf(c).mem = memused
        BY WorldOfType DEF IInv
  <2>2. QED BY <2>1 DEF Stepped, Balance
<1>6. conn[c].cap \in Nat BY <1>3 DEF Conn
<1>7. memused' - memused = conn'[c].cap - conn[c].cap
      BY <1>1, <1>2, <1>3, <1>4, <1>5, <1>6
<1>8. \A d \in Conns : Settled(conn'[d])
      BY <1>2, <1>4 DEF IInv
<1>9. QED BY <1>1, <1>2, <1>3, <1>4, <1>7, <1>8

\* The remaining variables keep their types whatever the step.
LEMMA OtherTypes ==
  ASSUME TypeOK, Next
  PROVE  /\ lready' \in BOOLEAN /\ accepting' \in BOOLEAN
         /\ starved' \in BOOLEAN /\ dials' \in Nat
<1> USE DEF TypeOK
<1>1. CASE hs_server_listen_cb BY <1>1 DEF hs_server_listen_cb
<1>2. CASE AcceptFails
  <2>1. starved' \in BOOLEAN BY <1>2 DEF AcceptFails
  <2>2. QED BY <1>2, <2>1 DEF AcceptFails
<1>3. ASSUME NEW c \in Conns, AcceptNext(c)
      PROVE  UNCHANGED <<lready, accepting, starved, dials>>
      BY <1>3 DEF AcceptNext
<1>4. ASSUME NEW c \in Conns, ClientStep(c)
      PROVE  /\ lready' \in BOOLEAN /\ dials' \in Nat
             /\ UNCHANGED <<accepting, starved>>
  <2>1. CASE Connect(c) BY <2>1 DEF Connect
  <2>2. CASE \E u \in Unit : ClientSend(c, u)
        BY <2>2 DEF ClientSend
  <2>3. CASE ClientRead(c) \/ ClientFin(c) \/ ClientReset(c)
        BY <2>3 DEF ClientRead, ClientFin, ClientReset
  <2>4. QED BY <1>4, <2>1, <2>2, <2>3 DEF ClientStep
<1>5. ASSUME NEW c \in Conns, SessionStep(c)
      PROVE  UNCHANGED <<lready, accepting, starved, dials>>
      BY <1>5 DEF SessionStep, ReadData, ReadEof, ReadFails, Process
<1>6. ASSUME NEW c \in Conns, hs_session_io_cb(c) \/ hs_request_timer_cb(c)
      PROVE  UNCHANGED <<lready, accepting, starved, dials>>
      BY <1>6 DEF hs_session_io_cb, hs_request_timer_cb
<1>7. QED BY <1>1, <1>2, <1>3, <1>4, <1>5, <1>6 DEF Next, AcceptStep

\* The invariant is preserved by every step.
LEMMA IInvStep ==
  ASSUME IInv, [Next]_vars PROVE IInv'
<1>1. /\ TypeOK /\ HandlerState /\ backlog \in Seq(Conns)
      /\ conn \in [Conns -> Conn] /\ pc \in {"poll", "read", "process"}
      /\ cur \in Conns \cup {NoConn}
      BY DEF IInv, TypeOK
<1>2. CASE UNCHANGED vars
      BY <1>2 DEF IInv, TypeOK, HandlerState, Settled, BufOK, TimeOK, OutOK, vars
<1>3. CASE hs_server_listen_cb
  <2>1. UNCHANGED <<conn, memused, errno, nfds, backlog, pc, cur>>
        BY <1>3 DEF hs_server_listen_cb
  <2>2. TypeOK' BY <1>1, <1>3, <2>1, OtherTypes DEF TypeOK, Next
  <2>3. HandlerState' BY <1>1, <2>1 DEF HandlerState
  <2>4. \A c \in Conns : Settled(conn'[c]) BY <2>1 DEF IInv
  <2>5. QED BY <2>2, <2>3, <2>4 DEF IInv, Settled, BufOK, TimeOK, OutOK
<1>4. CASE AcceptFails
  <2>1. UNCHANGED <<conn, memused, nfds, backlog, pc, cur>> /\ errno' \in Errno
        BY <1>4 DEF AcceptFails, Errno
  <2>2. TypeOK' BY <1>1, <1>4, <2>1, OtherTypes DEF TypeOK, Next, AcceptStep
  <2>3. HandlerState' BY <1>1, <2>1 DEF HandlerState
  <2>4. \A c \in Conns : Settled(conn'[c]) BY <2>1 DEF IInv
  <2>5. QED BY <2>2, <2>3, <2>4 DEF IInv, Settled, BufOK, TimeOK, OutOK
<1>5. ASSUME Next, NEW c \in Conns, NEW v, Stepped(c, v),
             backlog' \in Seq(Conns), pc' \in {"poll", "read", "process"},
             cur' \in Conns \cup {NoConn}, HandlerState'
      PROVE  IInv'
  <2>1. TypeOK' BY <1>1, <1>5, TableAfter, OtherTypes DEF TypeOK
  <2>2. \A d \in Conns : Settled(conn'[d]) BY <1>5, TableAfter
  <2>3. QED BY <1>5, <2>1, <2>2 DEF IInv, Settled, BufOK, TimeOK, OutOK
<1>6. ASSUME NEW c \in Conns, conn[c].state # "FREE"
      PROVE  \A i \in DOMAIN backlog : backlog[i] # c
      BY <1>1, <1>6 DEF HandlerState
<1>7. ASSUME NEW c \in Conns, ClientStep(c) PROVE IInv'
  <2>1. /\ UNCHANGED <<pc, cur>>
        /\ \/ backlog' = backlog
           \/ /\ backlog' = Append(backlog, c) /\ c \notin Backlogged
              /\ conn[c].state = "FREE"
        BY <1>7, ClientSteps
  <2>2. PICK v : Stepped(c, v) /\ v.c.state = conn[c].state
        BY <1>7, ClientSteps
  <2>3. \A d \in Conns : conn'[d].state = conn[d].state
        BY <2>2, TableAfter
  <2>4. backlog' \in Seq(Conns) BY <1>1, <2>1
  <2>5. HandlerState'
    <3>1. CASE backlog' = backlog
          BY <1>1, <2>1, <2>3, <3>1 DEF HandlerState
    <3>2. CASE /\ backlog' = Append(backlog, c) /\ c \notin Backlogged
               /\ conn[c].state = "FREE"
      <4>1. /\ DOMAIN backlog' = DOMAIN backlog \cup {Len(backlog) + 1}
            /\ \A i \in DOMAIN backlog : backlog'[i] = backlog[i]
            /\ backlog'[Len(backlog) + 1] = c
            /\ Len(backlog) + 1 \notin DOMAIN backlog
            BY <1>1, <3>2
      <4>2. \A i \in DOMAIN backlog : backlog[i] # c /\ backlog[i] \in Conns
            BY <1>1, <3>2 DEF Backlogged
      <4>3. QED BY <1>1, <2>1, <2>3, <3>2, <4>1, <4>2 DEF HandlerState
    <3>3. QED BY <2>1, <3>1, <3>2
  <2>6. QED BY <1>1, <1>5, <1>7, <2>1, <2>2, <2>4, <2>5 DEF Next
<1>8. ASSUME NEW c \in Conns, NEW v, Stepped(c, v), backlog' = backlog,
             conn[c].state # "FREE",
             \/ pc' = "poll" /\ cur' = NoConn
             \/ pc' \in {"read", "process"} /\ cur' = c /\ v.c.state = "READ"
      PROVE  HandlerState'
  <2>1. conn'[c] = v.c /\ \A d \in Conns \ {c} : conn'[d] = conn[d]
        BY <1>8, TableAfter
  <2>2. \A i \in DOMAIN backlog : backlog[i] \in Conns \ {c}
        BY <1>1, <1>6, <1>8
  <2>3. \A i \in DOMAIN backlog : conn'[backlog[i]].state = "FREE"
        BY <1>1, <2>1, <2>2 DEF HandlerState
  <2>4. QED BY <1>1, <1>8, <2>1, <2>3, ConnAssumption DEF HandlerState
<1>9. ASSUME NEW c \in Conns, SessionStep(c) PROVE IInv'
  <2>1. conn[c].state = "READ" /\ backlog' = backlog BY <1>9, SessionSteps
  <2>2. PICK v : /\ Stepped(c, v)
                 /\ \/ pc' = "poll" /\ cur' = NoConn
                    \/ /\ pc' \in {"read", "process"} /\ cur' = c
                       /\ v.c.state = "READ"
        BY <1>9, SessionSteps
  <2>3. HandlerState' BY <1>8, <2>1, <2>2
  <2>4. QED BY <1>1, <1>5, <1>9, <2>1, <2>2, <2>3 DEF Next
<1>10. ASSUME NEW c \in Conns, hs_session_io_cb(c) PROVE IInv'
  <2>1. conn[c].state # "FREE" /\ backlog' = backlog BY <1>10, IoStep
  <2>2. PICK v : /\ Stepped(c, v)
                 /\ \/ pc' = "poll" /\ cur' = NoConn
                    \/ pc' = "read" /\ cur' = c /\ v.c.state = "READ"
        BY <1>10, IoStep
  <2>3. HandlerState' BY <1>8, <2>1, <2>2
  <2>4. QED BY <1>1, <1>5, <1>10, <2>1, <2>2, <2>3 DEF Next
<1>11. ASSUME NEW c \in Conns, hs_request_timer_cb(c) PROVE IInv'
  <2>1. /\ conn[c].state # "FREE" /\ backlog' = backlog
        /\ cur = NoConn /\ UNCHANGED <<pc, cur>>
        BY <1>11, TimerStep
  <2>2. PICK v : Stepped(c, v) BY <1>11, TimerStep
  <2>3. pc = "poll" BY <1>1, <2>1 DEF HandlerState
  <2>4. HandlerState' BY <1>8, <2>1, <2>2, <2>3
  <2>5. QED BY <1>1, <1>5, <1>11, <2>1, <2>2, <2>4 DEF Next
<1>12. ASSUME NEW c \in Conns, AcceptNext(c) PROVE IInv'
  <2>1. backlog # <<>> /\ c = Head(backlog) /\ backlog' = Tail(backlog)
        BY <1>12, AcceptStepOK
  <2>2. PICK v : /\ Stepped(c, v)
                 /\ \/ pc' = "poll" /\ cur' = NoConn
                    \/ pc' = "read" /\ cur' = c /\ v.c.state = "READ"
        BY <1>12, AcceptStepOK
  <2>3. conn'[c] = v.c /\ \A d \in Conns \ {c} : conn'[d] = conn[d]
        BY <2>2, TableAfter
  <2>4. /\ backlog' \in Seq(Conns)
        /\ \A i \in DOMAIN backlog' : /\ i + 1 \in DOMAIN backlog
                                      /\ i + 1 # 1 /\ i \in Nat
                                      /\ backlog'[i] = backlog[i + 1]
        /\ 1 \in DOMAIN backlog /\ backlog[1] = c
        BY <1>1, <2>1
  <2>5. \A i \in DOMAIN backlog' : backlog'[i] \in Conns \ {c}
        BY <1>1, <2>4 DEF HandlerState
  <2>6. \A i \in DOMAIN backlog' : conn'[backlog'[i]].state = "FREE"
        BY <1>1, <2>3, <2>4, <2>5 DEF HandlerState
  <2>7. \A i, j \in DOMAIN backlog' : i # j => backlog'[i] # backlog'[j]
    <3>1. \A i, j \in DOMAIN backlog' : i # j => i + 1 # j + 1 BY <2>4
    <3>2. QED BY <1>1, <2>4, <3>1 DEF HandlerState
  <2>8. HandlerState'
        BY <1>1, <2>2, <2>3, <2>6, <2>7, ConnAssumption DEF HandlerState
  <2>9. QED BY <1>1, <1>5, <1>12, <2>2, <2>4, <2>8 DEF Next, AcceptStep
<1>13. QED BY <1>2, <1>3, <1>4, <1>7, <1>9, <1>10, <1>11, <1>12
           DEF Next, AcceptStep

\* The invariant holds initially.
LEMMA IInvInit == Init => IInv
<1> SUFFICES ASSUME Init PROVE IInv OBVIOUS
<1>1. \A c \in Conns : conn[c] = Closed BY DEF Init
<1>2. Settled(Closed) BY ClosedType DEF Settled, BufOK, TimeOK, OutOK
<1>3. TypeOK
  <2>1. conn \in [Conns -> Conn] BY ClosedType DEF Init
  <2>2. backlog \in Seq(Conns) BY DEF Init
  <2>3. lready \in BOOLEAN /\ accepting \in BOOLEAN /\ starved \in BOOLEAN
        BY Zenon DEF Init
  <2>4. /\ memused \in Int /\ nfds \in Int /\ dials \in Nat /\ errno \in Errno
        /\ pc \in {"poll", "read", "process"} /\ cur \in Conns \cup {NoConn}
        BY DEF Init, Errno
  <2>5. QED BY <2>1, <2>2, <2>3, <2>4 DEF TypeOK
<1>4. HandlerState BY ConnAssumption DEF Init, HandlerState
<1>5. QED BY <1>1, <1>2, <1>3, <1>4 DEF IInv

\* Every reachable state satisfies the inductive invariant.
LEMMA Invariance == Spec => []IInv
  BY IInvInit, IInvStep, PTL DEF Spec

-----------------------------------------------------------------------------
(* Theorems.                                                               *)

\* Every reachable state is well typed.
THEOREM TypeCorrect == Spec => []TypeOK
<1>1. IInv => TypeOK BY DEF IInv
<1>2. QED BY <1>1, Invariance, PTL

\* hs_init_session never forgets a buffer: a session reaches it without one.
THEOREM BuffersFreed == Spec => []BufferDiscipline
<1>1. IInv => BufferDiscipline BY DEF IInv, Settled, BufOK, BufferDiscipline
<1>2. QED BY <1>1, Invariance, PTL

\* No live session's timeout counter slips past zero, where its timer would
\* never end it.
THEOREM TimersArmed == Spec => []TimeoutArmed
<1>1. IInv => TimeoutArmed BY DEF IInv, Settled, TimeOK, TimeoutArmed
<1>2. QED BY <1>1, Invariance, PTL

\* No response is left half written without an event to resume it.
THEOREM ResponsesResumed == Spec => []OutputHasWakeup
<1>1. IInv => OutputHasWakeup BY DEF IInv, Settled, OutOK, OutputHasWakeup
<1>2. QED BY <1>1, Invariance, PTL
=============================================================================
