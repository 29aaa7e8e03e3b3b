----------------------- MODULE HttpServerTotalsProofs -----------------------
(***************************************************************************)
(* The totals of HttpServer over its connections: memused is the sum of    *)
(* the buffers, nfds the number of sockets and timers.                     *)
(***************************************************************************)
EXTENDS MCHttpServer, HttpServerProofs, FiniteSetTheorems

-----------------------------------------------------------------------------
(* Sums.                                                                   *)

\* One unfolding of the fold that sums f over the subsets of C.
First(s) == CHOOSE x \in s : TRUE
Fold(f, C, iter) ==
    [s \in SUBSET C |-> IF s = {} THEN 0 ELSE f[First(s)] + iter[s \ {First(s)}]]

\* Any number of the connections, up to all of them, can be added up: the
\* fold is defined.
LEMMA FoldExists ==
    ASSUME NEW C, IsFiniteSet(C), NEW f \in [C -> Int]
    PROVE  \E iter : iter = Fold(f, C, iter)
<1> DEFINE D(n) == {s \in SUBSET C : Cardinality(s) <= n}
           Adds(g, s) == g[s] = IF s = {} THEN 0 ELSE f[First(s)] + g[s \ {First(s)}]
           Ends == {n \in Nat : \E g \in [D(n) -> Int] : \A s \in D(n) : Adds(g, s)}
<1>1. \A s \in SUBSET C : /\ Cardinality(s) \in Nat /\ IsFiniteSet(s)
                          /\ Cardinality(s) = 0 <=> s = {}
                          /\ Cardinality(s) <= Cardinality(C)
  BY FS_Subset, FS_CardinalityType, FS_EmptySet
<1>2. \A s \in SUBSET C : s # {}
         => /\ First(s) \in s /\ First(s) \in C /\ f[First(s)] \in Int
            /\ s \ {First(s)} \in SUBSET C
            /\ Cardinality(s \ {First(s)}) = Cardinality(s) - 1
  <2>1. \A s \in SUBSET C : s # {} => First(s) \in s
    BY DEF First
  <2>2. \A s \in SUBSET C, x \in C : x \in s => Cardinality(s \ {x}) = Cardinality(s) - 1
    BY <1>1, FS_RemoveElement
  <2> QED
    BY <2>1, <2>2
<1>3. 0 \in Ends
  <2> DEFINE g == [s \in D(0) |-> 0]
  <2>1. \A s \in D(0) : s = {}
    BY <1>1
  <2>2. g \in [D(0) -> Int] /\ \A s \in D(0) : Adds(g, s)
    BY <2>1
  <2> QED
    BY <2>2
<1>4. ASSUME NEW n \in Nat, n \in Ends
      PROVE  n + 1 \in Ends
  <2>1. PICK g \in [D(n) -> Int] : \A s \in D(n) : Adds(g, s)
    BY <1>4
  <2> DEFINE h == [s \in D(n + 1) |->
                     IF s = {} THEN 0 ELSE f[First(s)] + g[s \ {First(s)}]]
  <2>2. \A s \in D(n + 1) : s # {} => s \ {First(s)} \in D(n)
    BY <1>1, <1>2
  <2>3. h \in [D(n + 1) -> Int]
    <3> HIDE DEF D
    <3> SUFFICES ASSUME NEW s \in D(n + 1), s # {}
                 PROVE  f[First(s)] + g[s \ {First(s)}] \in Int
      OBVIOUS
    <3>1. g[s \ {First(s)}] \in Int
      BY <2>2
    <3>2. f[First(s)] \in Int
      BY <1>2 DEF D
    <3> QED
      BY <3>1, <3>2
  <2>4. \A s \in D(n) : s \in D(n + 1) /\ h[s] = g[s]
    <3>1. \A s \in D(n) : s \in D(n + 1)
      BY <1>1
    <3> HIDE DEF D
    <3> QED
      BY <2>1, <3>1
  <2>5. \A s \in D(n + 1) : Adds(h, s)
    <3> SUFFICES ASSUME NEW s \in D(n + 1) PROVE Adds(h, s)
      OBVIOUS
    <3>1. s # {} => h[s \ {First(s)}] = g[s \ {First(s)}]
      BY <2>2, <2>4
    <3>2. h[s] = IF s = {} THEN 0 ELSE f[First(s)] + g[s \ {First(s)}]
      <4> HIDE DEF D
      <4> QED
        OBVIOUS
    <3> HIDE DEF h, D
    <3> QED
      BY <3>1, <3>2
  <2> HIDE DEF h, D, Adds
  <2>6. n + 1 \in Nat
    OBVIOUS
  <2> QED
    BY <2>3, <2>5, <2>6
<1> DEFINE m == Cardinality(C)
<1>5. m \in Nat /\ SUBSET C = D(m)
  BY <1>1
<1>6. m \in Ends
  <2> DEFINE T == Nat \ Ends
  <2>1. SUFFICES ASSUME T # {} PROVE FALSE
    BY <1>5, Zenon
  <2>2. PICK x \in T : \A y \in T : x <= y
    <3> HIDE DEF Ends
    <3> QED
      BY <2>1, LeastNat
  <2> HIDE DEF Ends
  <2>3. x # 0 /\ x \in Nat
    BY <1>3
  <2>4. x - 1 \in Nat /\ x - 1 \notin T
    <3> HIDE DEF T
    <3> QED
      BY <2>2, <2>3
  <2>5. x - 1 + 1 \in Ends
    BY <1>4, <2>4
  <2> QED
    BY <2>3, <2>5
<1>7. PICK g \in [D(m) -> Int] : \A s \in D(m) : Adds(g, s)
  BY <1>6
<1>8. g = Fold(f, C, g)
  <2> HIDE DEF D
  <2>1. g \in [SUBSET C -> Int]
    BY <1>5
  <2>2. \A s \in SUBSET C :
           g[s] = IF s = {} THEN 0 ELSE f[First(s)] + g[s \ {First(s)}]
    BY <1>5, <1>7
  <2> QED
    BY <2>1, <2>2 DEF Fold
<1> QED
  BY <1>8

\* The sum changes by what one connection's part of it changes.
LEMMA SumMoves ==
    ASSUME NEW C, IsFiniteSet(C), NEW f \in [C -> Int], NEW g \in [C -> Int],
           NEW c \in C, \A d \in C \ {c} : g[d] = f[d],
           NEW a, a = Fold(f, C, a), NEW b, b = Fold(g, C, b)
    PROVE  a[C] \in Int /\ b[C] = a[C] + (g[c] - f[c])
<1> DEFINE Moves(s) == /\ a[s] \in Int
                       /\ b[s] = a[s] + (IF c \in s THEN g[c] - f[c] ELSE 0)
           T == {s \in SUBSET C : ~Moves(s)}
<1> SUFFICES ASSUME T # {} PROVE FALSE
  <2>1. C \notin T => Moves(C)
    OBVIOUS
  <2> HIDE DEF T
  <2> QED
    BY <2>1
<1>1. PICK s \in T : \A u \in T : ~(<<u, s>> \in StrictSubsetOrdering(C))
  <2>1. IsWellFoundedOn(StrictSubsetOrdering(C), SUBSET C)
    BY FS_StrictSubsetOrderingWellFounded, FS_FiniteSubsetsOfFinite
  <2>2. T \in SUBSET SUBSET C
    OBVIOUS
  <2> HIDE DEF T
  <2> QED
    BY <2>1, <2>2, WFMin
<1>2. s \in SUBSET C /\ ~Moves(s)
  OBVIOUS
<1>3. /\ a[s] = IF s = {} THEN 0 ELSE f[First(s)] + a[s \ {First(s)}]
      /\ b[s] = IF s = {} THEN 0 ELSE g[First(s)] + b[s \ {First(s)}]
  BY <1>2 DEF Fold
<1>4. s # {}
  BY <1>2, <1>3
<1> DEFINE x == First(s)
           r == s \ {x}
<1>5. x \in s /\ x \in C
  BY <1>2, <1>4 DEF First
<1>6. Moves(r)
  <2>1. <<r, s>> \in StrictSubsetOrdering(C)
    BY <1>2, <1>5 DEF StrictSubsetOrdering
  <2>2. r \in SUBSET C
    BY <1>2
  <2> HIDE DEF x, r, Moves
  <2> QED
    BY <1>1, <2>1, <2>2
<1>7. c \in s <=> (c = x \/ c \in r)
  BY <1>5
<1>8. c = x => c \notin r
  OBVIOUS
<1>9. a[s] = f[x] + a[r] /\ b[s] = g[x] + b[r]
  BY <1>3, <1>4
<1>10. f[x] \in Int /\ g[x] \in Int /\ f[c] \in Int /\ g[c] \in Int /\ (x # c => g[x] = f[x])
  BY <1>5
<1> HIDE DEF x, r
<1>11. Moves(s)
  BY <1>6, <1>7, <1>8, <1>9, <1>10
<1> QED
  BY <1>2, <1>11

\* A sum of nothing but zeros is zero.
LEMMA SumOfZeros ==
    ASSUME NEW C, IsFiniteSet(C), NEW f, \A c \in C : f[c] = 0,
           NEW a, a = Fold(f, C, a)
    PROVE  a[C] = 0
<1> DEFINE T == {s \in SUBSET C : a[s] # 0}
<1> SUFFICES ASSUME T # {} PROVE FALSE
  <2>1. C \notin T => a[C] = 0
    OBVIOUS
  <2> HIDE DEF T
  <2> QED
    BY <2>1
<1>1. PICK s \in T : \A u \in T : ~(<<u, s>> \in StrictSubsetOrdering(C))
  <2>1. IsWellFoundedOn(StrictSubsetOrdering(C), SUBSET C)
    BY FS_StrictSubsetOrderingWellFounded, FS_FiniteSubsetsOfFinite
  <2>2. T \in SUBSET SUBSET C
    OBVIOUS
  <2> HIDE DEF T
  <2> QED
    BY <2>1, <2>2, WFMin
<1>2. s \in SUBSET C /\ a[s] # 0
  OBVIOUS
<1>3. a[s] = IF s = {} THEN 0 ELSE f[First(s)] + a[s \ {First(s)}]
  BY <1>2 DEF Fold
<1> DEFINE r == s \ {First(s)}
<1>4. First(s) \in s /\ First(s) \in C
  BY <1>2, <1>3 DEF First
<1>5. <<r, s>> \in StrictSubsetOrdering(C) /\ r \in SUBSET C
  BY <1>2, <1>4 DEF StrictSubsetOrdering
<1>6. a[r] = 0
  <2> HIDE DEF r
  <2> QED
    BY <1>1, <1>5
<1> QED
  BY <1>2, <1>3, <1>4, <1>6

-----------------------------------------------------------------------------
(* The two totals as sums.                                                 *)

\* The descriptors of a session: its socket and, if created, its timer.
Held(k) == IF k.state = "FREE" THEN 0 ELSE IF k.timer THEN 2 ELSE 1

Caps(t) == [c \in Conns |-> t[c].cap]
Helds(t) == [c \in Conns |-> Held(t[c])]

\* MemAccounting adds up the buffers of the table of connections.
LEMMA CapSum ==
    ASSUME NEW t \in [Conns -> Conn]
    PROVE  /\ Caps(t) \in [Conns -> Int]
           /\ \E a : /\ a = Fold(Caps(t), Conns, a)
                     /\ MapThenSumSet(LAMBDA c : t[c].cap, Conns) = a[Conns]
<1>1. Caps(t) \in [Conns -> Int]
  BY DEF Caps, Conn
<1>2. \E a : a = Fold(Caps(t), Conns, a)
  BY <1>1, FoldExists, FiniteConns
<1> DEFINE a == CHOOSE iter : iter = Fold(Caps(t), Conns, iter)
<1>3. a = Fold(Caps(t), Conns, a)
  BY <1>2, Zenon
<1>4. \A iter : Fold(Caps(t), Conns, iter)
          = [s \in SUBSET Conns |-> IF s = {} THEN 0
                ELSE t[CHOOSE x \in s : TRUE].cap
                     + iter[s \ {CHOOSE x \in s : TRUE}]]
  <2>1. \A s \in SUBSET Conns : s # {} => First(s) \in Conns
    BY DEF First
  <2>2. \A s \in SUBSET Conns : s # {} => Caps(t)[First(s)] = t[First(s)].cap
    BY <2>1 DEF Caps
  <2>3. \A iter : Fold(Caps(t), Conns, iter)
            = [s \in SUBSET Conns |-> IF s = {} THEN 0
                  ELSE t[First(s)].cap + iter[s \ {First(s)}]]
    BY <2>2 DEF Fold
  <2> QED
    BY <2>3, Zenon DEF First
<1>5. MapThenSumSet(LAMBDA c : t[c].cap, Conns) = a[Conns]
  BY <1>4, Zenon DEF MapThenSumSet, MapThenFoldSet
<1> QED
  BY <1>1, <1>3, <1>5

\* DescriptorAccounting adds up the descriptors of the table of connections.
LEMMA HeldSum ==
    ASSUME NEW t \in [Conns -> Conn]
    PROVE  /\ Helds(t) \in [Conns -> Int]
           /\ \E a : /\ a = Fold(Helds(t), Conns, a)
                     /\ MapThenSumSet(LAMBDA c : IF t[c].state = "FREE" THEN 0
                                       ELSE IF t[c].timer THEN 2 ELSE 1, Conns) = a[Conns]
<1>1. Helds(t) \in [Conns -> Int]
  BY DEF Helds, Held
<1>2. \E a : a = Fold(Helds(t), Conns, a)
  BY <1>1, FoldExists, FiniteConns
<1> DEFINE a == CHOOSE iter : iter = Fold(Helds(t), Conns, iter)
<1>3. a = Fold(Helds(t), Conns, a)
  BY <1>2, Zenon
<1>4. \A iter : Fold(Helds(t), Conns, iter)
          = [s \in SUBSET Conns |-> IF s = {} THEN 0
                ELSE Held(t[CHOOSE x \in s : TRUE])
                     + iter[s \ {CHOOSE x \in s : TRUE}]]
  <2>1. \A s \in SUBSET Conns : s # {} => First(s) \in Conns
    BY DEF First
  <2>2. \A s \in SUBSET Conns : s # {} => Helds(t)[First(s)] = Held(t[First(s)])
    BY <2>1 DEF Helds
  <2>3. \A iter : Fold(Helds(t), Conns, iter)
            = [s \in SUBSET Conns |-> IF s = {} THEN 0
                  ELSE Held(t[First(s)]) + iter[s \ {First(s)}]]
    BY <2>2 DEF Fold
  <2> QED
    BY <2>3, Zenon DEF First
<1>5. MapThenSumSet(LAMBDA c : IF t[c].state = "FREE" THEN 0
                                       ELSE IF t[c].timer THEN 2 ELSE 1, Conns) = a[Conns]
  BY <1>4, Zenon DEF MapThenSumSet, MapThenFoldSet, Held
<1> QED
  BY <1>1, <1>3, <1>5

-----------------------------------------------------------------------------
(* Descriptors: what a handler does to them.                               *)

\* World x has the socket and the timer of world w.
Keeps(w, x) == x.fd = w.fd /\ x.c.timer = w.c.timer

\* hs_free_buffer, hs_init_session, hs_reset_timeout and hs_add_write_event
\* open and close nothing.
LEMMA PlainKeep ==
    ASSUME NEW w \in World
    PROVE  /\ Keeps(w, hs_free_buffer(w)) /\ Keeps(w, hs_init_session(w))
           /\ Keeps(w, hs_add_write_event(w))
           /\ \A t \in Int : Keeps(w, hs_reset_timeout(w, t))
<1>1. Keeps(w, hs_free_buffer(w))
  BY DEF World, Conn, Keeps, hs_free_buffer
<1>2. Keeps(w, hs_init_session(w))
  BY DEF World, Conn, Keeps, hs_init_session
<1>3. \A t \in Int : Keeps(w, hs_reset_timeout(w, t))
  BY DEF World, Conn, Keeps, hs_reset_timeout
<1>4. Keeps(w, hs_add_write_event(w))
  BY DEF World, Conn, Keeps, hs_add_write_event
<1> QED
  BY <1>1, <1>2, <1>3, <1>4

\* A write opens and closes nothing.
LEMMA SocketKeeps ==
    ASSUME NEW w \in World
    PROVE  Keeps(w, hs_write_client_socket(w))
<1> DEFINE n == Least(w.c.out, w.c.room)
<1>1. CASE w.c.peer = "reset"
  <2>1. hs_write_client_socket(w) = [w EXCEPT !.c.peer = "dead", !.err = "ECONNRESET"]
    BY <1>1, Zenon DEF hs_write_client_socket
  <2> QED
    BY <2>1 DEF World, Conn, Keeps
<1>2. CASE w.c.peer = "dead"
  <2>1. hs_write_client_socket(w) = [w EXCEPT !.err = "EPIPE"]
    BY <1>2, Zenon DEF hs_write_client_socket
  <2> QED
    BY <2>1 DEF World, Conn, Keeps
<1>3. CASE w.c.peer \in {"up", "fin"} /\ n = 0 /\ w.c.out > 0
  <2>1. hs_write_client_socket(w) = [w EXCEPT !.err = "EAGAIN"]
    BY <1>3, Zenon DEF hs_write_client_socket
  <2> QED
    BY <2>1 DEF World, Conn, Keeps
<1>4. CASE w.c.peer \in {"up", "fin"} /\ ~(n = 0 /\ w.c.out > 0)
  <2>1. hs_write_client_socket(w) = [w EXCEPT !.c = Taken(w.c, n)]
    <3>1. w.c.peer # "reset" /\ w.c.peer # "dead"
      BY <1>4
    <3> QED
      BY <1>4, <3>1 DEF hs_write_client_socket
  <2> HIDE DEF n
  <2> QED
    BY <2>1 DEF World, Conn, Keeps, Taken
<1> QED
  BY <1>1, <1>2, <1>3, <1>4, WorldFields DEF Peer

\* hs_write_response opens and closes nothing: a session marked for its end
\* still has its descriptors.
LEMMA WriteKeeps ==
    ASSUME NEW w \in World
    PROVE  Keeps(w, hs_write_response(w))
<1> DEFINE v == hs_write_client_socket(w)
           a == hs_add_write_event(v)
           b == [a EXCEPT !.c.state = "WRITE"]
           f == hs_free_buffer(v)
           g == [f EXCEPT !.c.state = "INIT"]
<1>1. v \in World /\ Keeps(w, v)
  BY WriteSocket, SocketKeeps
<1>2. CASE v.err = "EPIPE"
  <2>1. hs_write_response(w) = [v EXCEPT !.c.end = TRUE, !.c.why = "epipe"]
    BY <1>2, Zenon DEF hs_write_response
  <2> HIDE DEF v
  <2> QED
    BY <1>1, <2>1 DEF World, Conn, Keeps
<1>3. CASE v.err # "EPIPE" /\ v.c.out # 0
  <2>1. hs_write_response(w) = hs_reset_timeout(b, RequestTimeout)
    BY <1>3, Zenon DEF hs_write_response
  <2> HIDE DEF v
  <2>2. a \in World /\ Keeps(v, a)
    BY <1>1, AddWriteEvent, PlainKeep
  <2> HIDE DEF a
  <2>3. b \in World /\ Keeps(a, b)
    BY <2>2 DEF World, Conn, Keeps, State
  <2> HIDE DEF b
  <2>4. Keeps(b, hs_reset_timeout(b, RequestTimeout))
    BY <2>3, PlainKeep, TimeAssumption
  <2> QED
    BY <1>1, <2>1, <2>2, <2>3, <2>4 DEF Keeps
<1>4. CASE v.err # "EPIPE" /\ v.c.out = 0 /\ v.c.keep
  <2>1. hs_write_response(w) = hs_reset_timeout(g, KeepAliveTimeout)
    BY <1>4, Zenon DEF hs_write_response
  <2> HIDE DEF v
  <2>2. f \in World /\ Keeps(v, f)
    BY <1>1, FreeBuffer, PlainKeep
  <2> HIDE DEF f
  <2>3. g \in World /\ Keeps(f, g)
    BY <2>2 DEF World, Conn, Keeps, State
  <2> HIDE DEF g
  <2>4. Keeps(g, hs_reset_timeout(g, KeepAliveTimeout))
    BY <2>3, PlainKeep, TimeAssumption
  <2> QED
    BY <1>1, <2>1, <2>2, <2>3, <2>4 DEF Keeps
<1>5. CASE v.err # "EPIPE" /\ v.c.out = 0 /\ ~v.c.keep
  <2>1. hs_write_response(w) = [v EXCEPT !.c.end = TRUE, !.c.why = "done"]
    BY <1>5, Zenon DEF hs_write_response
  <2> HIDE DEF v
  <2> QED
    BY <1>1, <2>1 DEF World, Conn, Keeps
<1> QED
  BY <1>2, <1>3, <1>4, <1>5

\* World x has the descriptors of w, and its session is not over.
Kept(w, x) == Keeps(w, x) /\ x.c.state # "FREE"

\* http_respond and hs_error_response open and close nothing, and their
\* session is not over.
LEMMA RespondKeeps ==
    ASSUME NEW w \in World, NEW status \in Status, NEW keep \in BOOLEAN,
           w.c.timeout > 0
    PROVE  /\ Kept(w, http_respond(w, status, keep))
           /\ Kept(w, hs_error_response(w, status, keep))
<1> DEFINE a == [w EXCEPT !.c.keep = keep]
           f == hs_free_buffer(a)
           x == [f EXCEPT !.mem = @ + ResponseBufSize,
                          !.c = [@ EXCEPT !.cap = ResponseBufSize, !.len = ResponseLen,
                                          !.out = ResponseLen, !.status = status,
                                          !.state = "WRITE"]]
           y == http_respond(w, status, keep)
           z == hs_error_response(w, status, keep)
<1>1. a \in World /\ Keeps(w, a)
  BY DEF World, Conn, Keeps
<1>2. y = hs_write_response(x) /\ z = hs_write_response(y)
  BY DEF http_respond, hs_error_response
<1> HIDE DEF a
<1>3. f \in World /\ Keeps(a, f)
  BY <1>1, FreeBuffer, PlainKeep
<1> HIDE DEF f
<1>4. /\ ResponseBufSize \in Nat /\ ResponseLen \in Nat /\ "WRITE" \in State
      /\ f.mem + ResponseBufSize \in Int
  BY <1>3, BufAssumption, WorldFields DEF State
<1>5. x \in World /\ Keeps(f, x)
  <2> DEFINE m == f.mem + ResponseBufSize
             k == [f.c EXCEPT !.cap = ResponseBufSize, !.len = ResponseLen,
                              !.out = ResponseLen, !.status = status,
                              !.state = "WRITE"]
  <2>1. k \in Conn /\ k.timer = f.c.timer
    BY <1>3, <1>4, WorldFields DEF Conn
  <2>2. x = [f EXCEPT !.mem = m, !.c = k]
    OBVIOUS
  <2> HIDE DEF m, k, x
  <2> QED
    BY <1>3, <1>4, <2>1, <2>2 DEF World, Keeps, m
<1> HIDE DEF x
<1>6. Wrote(w, y) /\ Wrote(w, z)
  BY Respond, ErrorResponse
<1> HIDE DEF y, z
<1>7. Keeps(w, y)
  BY <1>1, <1>2, <1>3, <1>5, WriteKeeps DEF Keeps
<1>8. Keeps(w, z)
  BY <1>2, <1>6, <1>7, WriteKeeps DEF Keeps, Wrote
<1> QED
  BY <1>6, <1>7, <1>8 DEF Wrote, Kept, y, z

\* What world w spends on other sessions.
Spare(w) == w.fd - Held(w.c)

\* hs_end_session gives back the session's own descriptors.
LEMMA EndSpares ==
    ASSUME NEW w \in World, w.c.state # "FREE"
    PROVE  Spare(hs_end_session(w)) = Spare(w)
<1> DEFINE v == hs_free_buffer(w)
           h == IF w.c.timer THEN 2 ELSE 1
           x == hs_end_session(w)
<1>1. v \in World /\ v.fd = w.fd
  BY FreeBuffer, PlainKeep DEF Keeps
<1>2. x.fd = v.fd - h
  BY <1>1 DEF World, hs_end_session
<1>3. Held(x.c) = 0
  BY EndSession DEF Held
<1>4. Held(w.c) = h /\ h \in Int /\ w.fd \in Int
  BY WorldFields DEF Held
<1> HIDE DEF x, v, h
<1> QED
  BY <1>1, <1>2, <1>3, <1>4 DEF Spare, x

\* Worlds that keep the socket and the timer of a session spare the same.
LEMMA KeepsSpares ==
    ASSUME NEW w, NEW x, Keeps(w, x), w.c.state # "FREE", x.c.state # "FREE"
    PROVE  Spare(x) = Spare(w)
  BY DEF Keeps, Spare, Held

\* The tail of http_session ends the session with its descriptors or not.
LEMMA AskedSpares ==
    ASSUME NEW w \in World, w.c.state # "FREE"
    PROVE  Spare(EndIfAsked(w)) = Spare(w)
  BY EndSpares DEF EndIfAsked

\* BeginRead opens and closes nothing.
LEMMA BeginKeeps ==
    ASSUME NEW w \in World
    PROVE  Keeps(w, BeginRead(w)) /\ BeginRead(w).c.state # "FREE"
<1> DEFINE m == w.mem + RequestBufSize
           k == [w.c EXCEPT !.cap = RequestBufSize]
           v == IF w.c.cap = 0
                THEN [w EXCEPT !.mem = @ + RequestBufSize, !.c.cap = RequestBufSize]
                ELSE w
           x == [v EXCEPT !.c.state = "READ"]
<1>1. BeginRead(w) = hs_reset_timeout(x, RequestTimeout)
  BY Zenon DEF BeginRead
<1>2. m \in Int /\ k \in Conn /\ k.timer = w.c.timer
  BY WorldFields, BufAssumption DEF Conn
<1>3. v \in World /\ Keeps(w, v)
  <2>1. CASE w.c.cap = 0
    <3>1. v = [w EXCEPT !.mem = m, !.c = k]
      BY <2>1 DEF World
    <3> HIDE DEF v, m, k
    <3> QED
      BY <1>2, <3>1 DEF World, Keeps
  <2>2. CASE w.c.cap # 0
    BY <2>2 DEF Keeps
  <2> QED
    BY <2>1, <2>2
<1> HIDE DEF v
<1>4. x \in World /\ Keeps(v, x)
  BY <1>3 DEF World, Conn, Keeps, State
<1> HIDE DEF x
<1>5. Keeps(x, BeginRead(w))
  BY <1>1, <1>4, PlainKeep, TimeAssumption
<1>6. BeginRead(w).c.state # "FREE"
  BY BeginReadOK DEF Reading
<1> QED
  BY <1>3, <1>4, <1>5, <1>6 DEF Keeps

\* Reading opens and closes nothing.
LEMMA ReceivedKeeps ==
    ASSUME NEW w \in World, NEW n
    PROVE  Keeps(w, Received(w, n))
<1> DEFINE m == w.mem - w.c.cap + GrownCap(w.c.cap, w.c.len + n)
           k == [w.c EXCEPT
                   !.cap = GrownCap(w.c.cap, w.c.len + n), !.len = w.c.len + n,
                   !.fresh = w.c.fresh \o SubSeq(w.c.inbox, 1, n),
                   !.inbox = SubSeq(w.c.inbox, n + 1, Len(w.c.inbox)),
                   !.cut = (GrownCap(w.c.cap, w.c.len + n) >= MaxRequestBufSize)]
<1>1. Received(w, n) = [w EXCEPT !.mem = m, !.c = k]
  BY DEF Received
<1>2. k.timer = w.c.timer
  BY WorldFields DEF Conn
<1> HIDE DEF m, k
<1> QED
  BY <1>1, <1>2 DEF World, Keeps

\* Whatever the parser found, a session that reads spends what it spent.
LEMMA AnswerSpares ==
    ASSUME NEW w \in World, Reading(w.c)
    PROVE  Spare(EndIfAsked(Answer(w))) = Spare(w)
<1> DEFINE fresh == w.c.fresh
           A == Answerable(fresh)
           i == CHOOSE j \in A : \A k \in A : j <= k
           u == fresh[i]
           v == [w EXCEPT !.c.fresh = <<>>]
<1>1. <<>> \in Units
  BY DEF Units
<1>2. /\ v \in World /\ Keeps(w, v) /\ v.c.state = "READ" /\ v.c.timeout > 0
      /\ v.c.mid = w.c.mid
  BY <1>1 DEF World, Conn, Keeps, Reading
<1>3. fresh \in Seq(Unit)
  BY WorldFields DEF Units
<1> SUFFICES Answer(w) \in World /\ Keeps(w, Answer(w)) /\ Answer(w).c.state # "FREE"
  BY KeepsSpares, AskedSpares DEF Reading
<1>4. Answer(w) \in World
  BY AnswerOK
<1>5. CASE A = {}
  <2>1. Answer(w) = [v EXCEPT !.c.mid = v.c.mid \/ fresh # <<>>]
    BY <1>5, Zenon DEF Answer
  <2> DEFINE t == v.c.mid \/ fresh # <<>>
             k == [v.c EXCEPT !.mid = t]
  <2> HIDE DEF v, t
  <2>2. Answer(w) = [v EXCEPT !.c = k]
    BY <1>2, <2>1 DEF World, t
  <2>3. k.timer = v.c.timer /\ k.state = v.c.state
    BY <1>2, WorldFields DEF Conn
  <2> HIDE DEF k
  <2> QED
    BY <1>2, <1>4, <2>2, <2>3 DEF World, Keeps
<1>6. CASE A # {}
  <2>1. u.keep \in BOOLEAN
    <3>1. A \subseteq Nat /\ A \subseteq DOMAIN fresh
      BY <1>3 DEF Answerable
    <3>2. \E j \in A : \A k \in A : j <= k
      BY <1>6, <3>1, LeastNat
    <3>3. i \in DOMAIN fresh
      BY <3>1, <3>2, Zenon
    <3> HIDE DEF i, fresh
    <3>4. u \in Unit
      BY <1>3, <3>3
    <3> QED
      BY <3>4 DEF Unit
  <2>2. 200 \in Status /\ 400 \in Status
    BY DEF Status
  <2>3. \/ Answer(w) = http_respond(v, 200, u.keep)
        \/ Answer(w) = hs_error_response(v, 400, u.keep)
        \/ Answer(w) = hs_error_response(v, 400, FALSE)
    <3>1. CASE u.kind \in {"full", "stream"}
      BY <1>6, <3>1, Zenon DEF Answer
    <3>2. CASE u.kind = "rest" /\ (w.c.mid \/ i > 1)
      BY <1>6, <3>2, Zenon DEF Answer
    <3>3. CASE u.kind = "bad"
      BY <1>6, <3>3, Zenon DEF Answer
    <3>4. CASE /\ u.kind \notin {"full", "stream"} /\ u.kind # "bad"
               /\ ~(u.kind = "rest" /\ (w.c.mid \/ i > 1))
      BY <1>6, <3>4, Zenon DEF Answer
    <3> QED
      BY <3>1, <3>2, <3>3, <3>4, Zenon
  <2> HIDE DEF v, u
  <2>4. Keeps(v, Answer(w)) /\ Answer(w).c.state # "FREE"
    <3>1. CASE Answer(w) = http_respond(v, 200, u.keep)
      BY <1>2, <2>1, <2>2, <3>1, RespondKeeps DEF Kept
    <3>2. CASE Answer(w) = hs_error_response(v, 400, u.keep)
      BY <1>2, <2>1, <2>2, <3>2, RespondKeeps DEF Kept
    <3>3. CASE Answer(w) = hs_error_response(v, 400, FALSE)
      <4>1. Kept(v, hs_error_response(v, 400, FALSE))
        BY <1>2, <2>2, RespondKeeps
      <4> QED
        BY <3>3, <4>1, Zenon DEF Kept
    <3> QED
      BY <2>3, <3>1, <3>2, <3>3
  <2> QED
    BY <1>2, <1>4, <2>4 DEF Keeps
<1> QED
  BY <1>5, <1>6

-----------------------------------------------------------------------------
(* Descriptors: what a step does to them.                                  *)

\* nfds moves by what the descriptors of connection c move by.
Moved(c) ==
    /\ conn' \in [Conns -> Conn] /\ nfds' \in Int
    /\ nfds' - nfds = Held(conn'[c]) - Held(conn[c])
    /\ \A d \in Conns \ {c} : conn'[d] = conn[d]

\* A handler that spends on its session only.
LEMMA InstallMoves ==
    ASSUME TypeOK, NEW c \in Conns, NEW v \in World,
           Spare(v) = Spare(WorldOf(c)), Install(c, v)
    PROVE  Moved(c)
<1>1. WorldOf(c).fd = nfds /\ WorldOf(c).c = conn[c] /\ nfds \in Int
  BY DEF WorldOf, TypeOK
<1>2. conn \in [Conns -> Conn] /\ v.c \in Conn /\ v.fd \in Int
  BY WorldFields DEF TypeOK
<1>3. conn' = [conn EXCEPT ![c] = v.c] /\ nfds' = v.fd
  BY DEF Install
<1>4. Held(conn[c]) \in Int /\ Held(v.c) \in Int
  BY DEF Held
<1>5. v.fd - Held(v.c) = nfds - Held(conn[c])
  BY <1>1 DEF Spare
<1>6. conn'[c] = v.c
  BY <1>2, <1>3
<1>7. nfds' - nfds = Held(conn'[c]) - Held(conn[c])
  BY <1>1, <1>2, <1>3, <1>4, <1>5, <1>6
<1> QED
  BY <1>2, <1>3, <1>7 DEF Moved

\* A record replaced by one with the same descriptors.
LEMMA RecordMoves ==
    ASSUME TypeOK, NEW c \in Conns, NEW k \in Conn, Held(k) = Held(conn[c]),
           conn' = [conn EXCEPT ![c] = k], nfds' = nfds
    PROVE  Moved(c)
<1>1. conn \in [Conns -> Conn] /\ nfds \in Int
  BY DEF TypeOK
<1>2. Held(conn[c]) \in Int
  BY DEF Held
<1>3. conn'[c] = k
  BY <1>1
<1>4. nfds' - nfds = Held(conn'[c]) - Held(conn[c])
  BY <1>1, <1>2, <1>3
<1> QED
  BY <1>1, <1>4 DEF Moved

\* http_session spends on its session only.
LEMMA SessionSpares ==
    ASSUME NEW c \in Conns, NEW w \in World, BufOK(w.c), TimeOK(w.c),
           http_session(c, w)
    PROVE  \E v \in World : Spare(v) = Spare(w) /\ Install(c, v)
<1> DEFINE z == hs_init_session(w)
<1>1. CASE w.c.state = "INIT"
  <2>1. /\ z \in World /\ Keeps(w, z) /\ z.c.state # "FREE" /\ z.c.timeout > 0
    BY <1>1, InitSession, PlainKeep DEF TimeOK
  <2> HIDE DEF z
  <2>2. Spare(z) = Spare(w)
    BY <1>1, <2>1, KeepsSpares
  <2>3. CASE Install(c, hs_error_response(z, 503, FALSE))
    <3>1. 503 \in Status
      BY DEF Status
    <3> DEFINE v == hs_error_response(z, 503, FALSE)
    <3>2. Wrote(z, v)
      BY <2>1, <3>1, ErrorResponse
    <3>3. Kept(z, v)
      BY <2>1, <3>1, RespondKeeps
    <3> HIDE DEF v
    <3>4. Spare(v) = Spare(z)
      BY <2>1, <3>3, KeepsSpares DEF Kept
    <3> QED
      BY <2>2, <2>3, <3>2, <3>4 DEF Wrote, v
  <2>4. CASE Install(c, BeginRead(z))
    <3>1. BeginRead(z) \in World /\ Spare(BeginRead(z)) = Spare(z)
      BY <2>1, BeginReadOK, BeginKeeps, KeepsSpares
    <3> QED
      BY <2>2, <2>4, <3>1
  <2> QED
    BY <1>1, <2>3, <2>4 DEF http_session, z
<1>2. CASE w.c.state = "READ"
  <2>1. Install(c, BeginRead(w))
    BY <1>2 DEF http_session
  <2>2. BeginRead(w) \in World /\ Spare(BeginRead(w)) = Spare(w)
    BY <1>2, BeginReadOK, BeginKeeps, KeepsSpares
  <2> QED
    BY <2>1, <2>2
<1>3. CASE w.c.state = "WRITE"
  <2> DEFINE v == hs_write_response(w)
  <2>1. Install(c, EndIfAsked(v))
    BY <1>3 DEF http_session
  <2>2. Wrote(w, v)
    BY <1>3, WriteResponse DEF TimeOK
  <2>3. v \in World /\ v.c.state # "FREE" /\ Keeps(w, v)
    BY <2>2, WriteKeeps DEF Wrote
  <2> HIDE DEF v
  <2>4. Spare(EndIfAsked(v)) = Spare(w)
    BY <1>3, <2>3, KeepsSpares, AskedSpares
  <2>5. EndIfAsked(v) \in World
    BY <2>2, WroteSettled, EndAsked
  <2> QED
    BY <2>1, <2>4, <2>5
<1> QED
  BY <1>1, <1>2, <1>3 DEF http_session

\* The clients' actions leave the descriptors alone.
LEMMA ClientMoves ==
    ASSUME IInv, NEW c \in Conns, ClientStep(c)
    PROVE  Moved(c)
<1>1. TypeOK /\ Settled(conn[c]) /\ conn[c] \in Conn
  BY DEF IInv, TypeOK
<1>2. CASE Connect(c)
  <2> DEFINE k == [Closed EXCEPT !.peer = "up"]
  <2>1. Held(conn[c]) = 0
    BY <1>2 DEF Connect, Connected, Held
  <2>2. k \in Conn /\ Held(k) = 0
    BY ClosedType DEF Conn, Held
  <2>3. conn' = [conn EXCEPT ![c] = k] /\ nfds' = nfds
    BY <1>2 DEF Connect
  <2> HIDE DEF k
  <2> QED
    BY <1>1, <2>1, <2>2, <2>3, RecordMoves
<1>3. CASE \E u \in Unit : ClientSend(c, u)
  <2>1. PICK u \in Unit : ClientSend(c, u)
    BY <1>3
  <2> DEFINE k == Arrived(conn[c], u)
  <2>2. k \in Conn
    BY <1>1, ClientEffects DEF Settled
  <2>3. k.state = conn[c].state /\ k.timer = conn[c].timer
    BY <1>1 DEF Conn, Arrived
  <2>4. conn' = [conn EXCEPT ![c] = k] /\ nfds' = nfds
    BY <2>1 DEF ClientSend
  <2> HIDE DEF k
  <2> QED
    BY <1>1, <2>2, <2>3, <2>4, RecordMoves DEF Held
<1>4. CASE ClientRead(c)
  <2> DEFINE k == Drained(conn[c])
  <2>1. k \in Conn
    BY <1>1, ClientEffects DEF Settled
  <2>2. k.state = conn[c].state /\ k.timer = conn[c].timer
    BY <1>1 DEF Conn, Drained
  <2>3. conn' = [conn EXCEPT ![c] = k] /\ nfds' = nfds
    BY <1>4 DEF ClientRead
  <2> HIDE DEF k
  <2> QED
    BY <1>1, <2>1, <2>2, <2>3, RecordMoves DEF Held
<1>5. CASE ClientFin(c) \/ ClientReset(c)
  <2>1. PICK p \in {"fin", "reset", "dead"} :
               conn' = [conn EXCEPT ![c] = Hangup(conn[c], p)] /\ nfds' = nfds
    <3>1. CASE ClientFin(c)
      BY <3>1 DEF ClientFin
    <3>2. CASE ClientReset(c)
      BY <3>2, Zenon DEF ClientReset
    <3> QED
      BY <1>5, <3>1, <3>2
  <2> DEFINE k == Hangup(conn[c], p)
  <2>2. k \in Conn
    BY <1>1, ClientEffects DEF Settled
  <2>3. k.state = conn[c].state /\ k.timer = conn[c].timer
    BY <1>1 DEF Conn, Hangup
  <2>4. conn' = [conn EXCEPT ![c] = k] /\ nfds' = nfds
    BY <2>1
  <2> HIDE DEF k
  <2> QED
    BY <1>1, <2>2, <2>3, <2>4, RecordMoves DEF Held
<1> QED
  BY <1>2, <1>3, <1>4, <1>5 DEF ClientStep

\* The receive loop and the answer.
LEMMA ReceiveMoves ==
    ASSUME IInv, NEW c \in Conns, SessionStep(c)
    PROVE  Moved(c)
<1> DEFINE w == WorldOf(c)
<1>1. /\ TypeOK /\ Settled(conn[c]) /\ conn[c] \in Conn
      /\ w \in World /\ w.c = conn[c]
  BY WorldOfType DEF IInv, TypeOK
<1>2. cur = c
  BY DEF SessionStep, ReadData, ReadEof, ReadFails, Process
<1>3. conn[c].state = "READ"
  BY <1>2 DEF IInv, HandlerState
<1>4. Reading(conn[c])
  BY <1>1, <1>3 DEF Reading, Settled, TimeOK
<1>5. CASE ReadData(c)
  <2> DEFINE n == ToRead(conn[c])
             v == Received(w, n)
  <2>1. n > 0 /\ Install(c, v)
    BY <1>5 DEF ReadData
  <2>2. n \in 1..Len(w.c.inbox)
    <3>1. /\ conn[c].cap \in Nat /\ conn[c].len \in Nat
          /\ conn[c].inbox \in Seq(Unit)
      BY <1>1, WorldFields DEF Units
    <3> QED
      BY <1>1, <2>1, <3>1 DEF ToRead, Least
  <2> HIDE DEF n, w
  <2>3. v \in World /\ v.c.state = w.c.state /\ Keeps(w, v)
    BY <1>1, <2>2, ReceivedOK, ReceivedKeeps
  <2> HIDE DEF v
  <2>4. Spare(v) = Spare(w)
    BY <1>1, <1>3, <2>3, KeepsSpares
  <2> QED
    BY <1>1, <2>1, <2>3, <2>4, InstallMoves DEF w
<1>6. CASE ReadEof(c)
  <2> DEFINE x == [w EXCEPT !.c.end = TRUE, !.c.why = "eof"]
             v == EndIfAsked(x)
  <2>1. Install(c, v)
    BY <1>6 DEF ReadEof
  <2>2. "eof" \in Why
    BY DEF Why
  <2>3. /\ x \in World /\ Keeps(w, x) /\ x.c.state = w.c.state /\ x.c.cap = w.c.cap
        /\ x.c.timeout = w.c.timeout
    BY <1>1, <2>2 DEF World, Conn, Keeps
  <2> HIDE DEF x, w
  <2>4. Settled(x.c)
    BY <1>1, <1>4, <2>3, ReadingSettled, WorldFields DEF Reading
  <2>5. v \in World /\ Spare(v) = Spare(w)
    BY <1>1, <1>3, <2>3, <2>4, EndAsked, AskedSpares, KeepsSpares
  <2> HIDE DEF v
  <2> QED
    BY <1>1, <2>1, <2>5, InstallMoves DEF w
<1>7. CASE ReadFails(c)
  <2> DEFINE p == IF conn[c].peer = "reset" THEN "dead" ELSE "up"
             k == [conn[c] EXCEPT !.cut = FALSE, !.peer = p]
  <2>1. conn' = [conn EXCEPT ![c] = k] /\ nfds' = nfds
    BY <1>7 DEF ReadFails
  <2>2. p \in Peer
    BY DEF Peer
  <2> HIDE DEF p
  <2>3. k \in Conn /\ k.state = conn[c].state /\ k.timer = conn[c].timer
    BY <1>1, <2>2 DEF Conn
  <2> HIDE DEF k
  <2> QED
    BY <1>1, <2>1, <2>3, RecordMoves DEF Held
<1>8. CASE Process(c)
  <2> DEFINE v == EndIfAsked(Answer(w))
  <2>1. Install(c, v)
    BY <1>8 DEF Process
  <2> HIDE DEF w
  <2>2. v \in World /\ Spare(v) = Spare(w)
    BY <1>1, <1>4, AnswerOK, EndAsked, AnswerSpares
  <2> HIDE DEF v
  <2> QED
    BY <1>1, <2>1, <2>2, InstallMoves DEF w
<1> QED
  BY <1>5, <1>6, <1>7, <1>8 DEF SessionStep

\* An event of a session.
LEMMA IoMoves ==
    ASSUME IInv, NEW c \in Conns, hs_session_io_cb(c)
    PROVE  Moved(c)
<1> DEFINE w == WorldOf(c)
           x == [w EXCEPT !.c.ready = FALSE]
<1>1. TypeOK /\ Settled(conn[c]) /\ w \in World /\ w.c = conn[c]
  BY WorldOfType DEF IInv
<1>2. http_session(c, x)
  BY DEF hs_session_io_cb
<1> HIDE DEF w
<1>3. /\ x \in World /\ Keeps(w, x) /\ x.c.cap = w.c.cap
      /\ x.c.state = w.c.state /\ x.c.timeout = w.c.timeout
  BY <1>1 DEF World, Conn, Keeps
<1> HIDE DEF x
<1>4. BufOK(x.c) /\ TimeOK(x.c)
  BY <1>1, <1>3 DEF Settled, BufOK, TimeOK
<1>5. x.c.state # "FREE"
  BY <1>2 DEF http_session
<1>6. Spare(x) = Spare(w)
  BY <1>3, <1>5, KeepsSpares
<1>7. PICK v \in World : Spare(v) = Spare(x) /\ Install(c, v)
  BY <1>2, <1>3, <1>4, SessionSpares
<1> QED
  BY <1>1, <1>6, <1>7, InstallMoves DEF w

\* accept() and timerfd_create bring the descriptors of a new session.
LEMMA AcceptMoves ==
    ASSUME IInv, NEW c \in Conns, AcceptNext(c)
    PROVE  Moved(c)
<1> DEFINE w == WorldOf(c)
           f == w.fd + 1
           k == [w.c EXCEPT !.state = "INIT", !.timeout = RequestTimeout]
           x == [w EXCEPT !.fd = f, !.c = k]
           y == hs_add_events(x)
<1>1. TypeOK /\ Settled(conn[c]) /\ w \in World /\ w.c = conn[c]
  BY WorldOfType DEF IInv
<1>2. conn[c].state = "FREE"
  <2>1. backlog \in Seq(Conns) /\ backlog # <<>> /\ c = Head(backlog)
    BY <1>1 DEF TypeOK, AcceptNext
  <2>2. 1 \in DOMAIN backlog /\ Head(backlog) = backlog[1]
    BY <2>1
  <2> QED
    BY <2>1, <2>2 DEF IInv, HandlerState
<1>3. w.c.cap = 0
  BY <1>1, <1>2 DEF Settled, BufOK
<1>4. http_session(c, y)
  <2>1. x = [w EXCEPT !.fd = w.fd + 1, !.c.state = "INIT",
                      !.c.timeout = RequestTimeout]
    BY <1>1 DEF World
  <2> QED
    BY <2>1, Zenon DEF AcceptNext
<1>5. "INIT" \in State /\ RequestTimeout \in Int /\ RequestTimeout > 0
  BY TimeAssumption DEF State
<1> HIDE DEF w
<1>6. f \in Int
  BY <1>1, WorldFields
<1>7. /\ k \in Conn /\ k.cap = w.c.cap /\ k.state = "INIT"
      /\ k.timeout = RequestTimeout
  BY <1>1, <1>5, WorldFields DEF Conn
<1> HIDE DEF f, k
<1>8. x \in World /\ x.c = k /\ x.fd = f
  BY <1>1, <1>6, <1>7 DEF World
<1> HIDE DEF x
<1>9. /\ y \in World /\ y.c.cap = 0 /\ y.c.state = "INIT" /\ y.c.timeout > 0
  BY <1>3, <1>5, <1>7, <1>8, AddEvents
<1>10. Held(y.c) = 1 + (y.fd - x.fd)
  <2>0. (x.fd < MaxFds) \in BOOLEAN
    OBVIOUS
  <2>1. PICK t \in BOOLEAN : t = (x.fd < MaxFds)
    BY <2>0, Zenon
  <2>2. PICK r \in BOOLEAN : r = (x.c.inbox # <<>> \/ x.c.peer # "up")
    OBVIOUS
  <2> DEFINE n == IF t THEN x.fd + 1 ELSE x.fd
             e == IF t THEN x.err ELSE "EBADF"
             j == [x.c EXCEPT !.timer = t, !.interest = "in", !.ready = r]
  <2>3. y = [x EXCEPT !.fd = n, !.err = e, !.c = j]
    BY <2>1, <2>2 DEF hs_add_events
  <2>4. j.timer = t
    BY <1>8, WorldFields DEF Conn
  <2> HIDE DEF n, e, j, y
  <2>5. y.fd = n /\ y.c.timer = t
    BY <1>8, <2>3, <2>4 DEF World
  <2> QED
    BY <1>6, <1>8, <1>9, <2>5 DEF Held, n
<1> HIDE DEF y
<1>11. Spare(y) = Spare(w)
  <2>1. Held(w.c) = 0 /\ w.fd \in Int /\ y.fd \in Int
    BY <1>1, <1>2, <1>9, WorldFields DEF Held
  <2>2. x.fd = w.fd + 1
    BY <1>8 DEF f
  <2> QED
    BY <1>10, <2>1, <2>2 DEF Spare
<1>12. PICK v \in World : Spare(v) = Spare(y) /\ Install(c, v)
  BY <1>4, <1>9, SessionSpares DEF BufOK, TimeOK
<1> QED
  BY <1>1, <1>11, <1>12, InstallMoves DEF w

\* A tick of a session's timer.
LEMMA TimerMoves ==
    ASSUME IInv, NEW c \in Conns, hs_request_timer_cb(c)
    PROVE  Moved(c)
<1> DEFINE w == WorldOf(c)
           t == w.c.timeout - 1
           x == [w EXCEPT !.c.timeout = t]
           z == [x EXCEPT !.c.why = "timeout"]
           v == IF x.c.timeout = 0 THEN hs_end_session(z) ELSE x
<1>1. TypeOK /\ w \in World /\ w.c = conn[c]
  BY WorldOfType DEF IInv
<1>2. conn[c].state # "FREE" /\ Install(c, v)
  BY DEF hs_request_timer_cb
<1> HIDE DEF w
<1>3. t \in Int
  BY <1>1, WorldFields
<1> HIDE DEF t
<1>4. x \in World /\ Keeps(w, x) /\ x.c.state = w.c.state
  BY <1>1, <1>3 DEF World, Conn, Keeps
<1> HIDE DEF x
<1>5. "timeout" \in Why
  BY DEF Why
<1>6. z \in World /\ Keeps(x, z) /\ z.c.state = x.c.state
  BY <1>4, <1>5 DEF World, Conn, Keeps
<1> HIDE DEF z
<1>7. v \in World /\ Spare(v) = Spare(w)
  <2>1. Spare(x) = Spare(w) /\ Spare(z) = Spare(x)
    BY <1>1, <1>2, <1>4, <1>6, KeepsSpares
  <2>2. hs_end_session(z) \in World /\ Spare(hs_end_session(z)) = Spare(z)
    BY <1>1, <1>2, <1>4, <1>6, EndSession, EndSpares
  <2> QED
    BY <1>4, <2>1, <2>2
<1> HIDE DEF v
<1> QED
  BY <1>1, <1>2, <1>7, InstallMoves DEF w

-----------------------------------------------------------------------------
(* Theorems.                                                               *)

\* http_server_t.memused is the capacity of all the buffers the sessions
\* hold, however many connections there are: nothing hs_free_buffer or a
\* receive loop does leaks into the total that the 503 limit is tested on.
THEOREM MemoryAccounted == Spec => []MemAccounting
<1>1. Init => MemAccounting
  <2> SUFFICES ASSUME Init PROVE MemAccounting
    OBVIOUS
  <2>1. conn \in [Conns -> Conn] /\ memused = 0
    BY IInvInit DEF IInv, TypeOK, Init
  <2>2. PICK a : /\ a = Fold(Caps(conn), Conns, a)
                 /\ MapThenSumSet(LAMBDA c : conn[c].cap, Conns) = a[Conns]
    BY <2>1, CapSum
  <2>3. \A c \in Conns : Caps(conn)[c] = 0
    BY ClosedType DEF Init, Caps
  <2>4. a[Conns] = 0
    BY <2>2, <2>3, SumOfZeros, FiniteConns
  <2> QED
    BY <2>1, <2>2, <2>4, Zenon DEF MemAccounting
<1>2. ASSUME IInv, MemAccounting, [Next]_vars PROVE MemAccounting'
  <2>1. conn \in [Conns -> Conn] /\ memused \in Int
    BY <1>2 DEF IInv, TypeOK
  <2>2. PICK a : /\ a = Fold(Caps(conn), Conns, a)
                 /\ MapThenSumSet(LAMBDA c : conn[c].cap, Conns) = a[Conns]
    BY <2>1, CapSum
  <2>3. memused = a[Conns]
    BY <1>2, <2>2, Zenon DEF MemAccounting
  <2>4. conn' \in [Conns -> Conn] /\ memused' \in Int
    BY <1>2, IInvStep DEF IInv, TypeOK
  <2>5. PICK b : /\ b = Fold(Caps(conn'), Conns, b)
                 /\ MapThenSumSet(LAMBDA c : conn'[c].cap, Conns) = b[Conns]
    BY <2>4, CapSum
  <2>6. PICK c \in Conns :
               /\ memused' - memused = conn'[c].cap - conn[c].cap
               /\ \A d \in Conns \ {c} : conn'[d].cap = conn[d].cap
    <3>1. ASSUME NEW c \in Conns, NEW v, Stepped(c, v)
          PROVE  /\ memused' - memused = conn'[c].cap - conn[c].cap
                 /\ \A d \in Conns \ {c} : conn'[d].cap = conn[d].cap
      BY <1>2, <3>1, TableAfter
    <3>2. CASE conn' = conn /\ memused' = memused
      <4>1. PICK c \in Conns : TRUE
        BY ConnAssumption
      <4>2. conn[c].cap \in Nat
        BY <2>1 DEF Conn
      <4>3. memused' - memused = conn'[c].cap - conn[c].cap
        BY <2>1, <3>2, <4>2
      <4> QED
        BY <3>2, <4>3
    <3>3. CASE UNCHANGED vars
      BY <3>2, <3>3 DEF vars
    <3>4. CASE Next
      BY <1>2, <3>1, <3>2, <3>4, ClientSteps, SessionSteps, IoStep, AcceptStepOK,
         TimerStep
      DEF Next, AcceptStep, AcceptFails, hs_server_listen_cb
    <3> QED
      BY <1>2, <3>3, <3>4
  <2>7. Caps(conn) \in [Conns -> Int] /\ Caps(conn') \in [Conns -> Int]
    BY <2>1, <2>4, CapSum
  <2>8. /\ \A d \in Conns \ {c} : Caps(conn')[d] = Caps(conn)[d]
        /\ Caps(conn')[c] = conn'[c].cap /\ Caps(conn)[c] = conn[c].cap
    BY <2>6 DEF Caps
  <2>9. b[Conns] = a[Conns] + (Caps(conn')[c] - Caps(conn)[c])
    BY <2>2, <2>5, <2>7, <2>8, SumMoves, FiniteConns
  <2>10. conn'[c].cap \in Int /\ conn[c].cap \in Int
    BY <2>7, <2>8
  <2>11. memused' = b[Conns]
    BY <2>1, <2>3, <2>4, <2>6, <2>8, <2>9, <2>10
  <2> QED
    BY <2>5, <2>11, Zenon DEF MemAccounting, MapThenSumSet, MapThenFoldSet
<1> QED
  BY <1>1, <1>2, Invariance, PTL DEF Spec

\* nfds is the sockets and the timers of the sessions, however many there
\* are: hs_end_session closes what accept and hs_add_events opened, and a
\* timer that timerfd_create refused is not counted.
THEOREM DescriptorsAccounted == Spec => []DescriptorAccounting
<1>1. Init => DescriptorAccounting
  <2> SUFFICES ASSUME Init PROVE DescriptorAccounting
    OBVIOUS
  <2>1. conn \in [Conns -> Conn] /\ nfds = 0
    BY IInvInit DEF IInv, TypeOK, Init
  <2>2. PICK a : /\ a = Fold(Helds(conn), Conns, a)
                 /\ MapThenSumSet(LAMBDA c : IF conn[c].state = "FREE" THEN 0
                                             ELSE IF conn[c].timer THEN 2 ELSE 1,
                                  Conns) = a[Conns]
    BY <2>1, HeldSum
  <2>3. \A c \in Conns : Helds(conn)[c] = 0
    BY ClosedType DEF Init, Helds, Held
  <2>4. a[Conns] = 0
    BY <2>2, <2>3, SumOfZeros, FiniteConns
  <2> QED
    BY <2>1, <2>2, <2>4, Zenon DEF DescriptorAccounting
<1>2. ASSUME IInv, DescriptorAccounting, [Next]_vars PROVE DescriptorAccounting'
  <2>1. conn \in [Conns -> Conn] /\ nfds \in Int
    BY <1>2 DEF IInv, TypeOK
  <2>2. PICK a : /\ a = Fold(Helds(conn), Conns, a)
                 /\ MapThenSumSet(LAMBDA c : IF conn[c].state = "FREE" THEN 0
                                             ELSE IF conn[c].timer THEN 2 ELSE 1,
                                  Conns) = a[Conns]
    BY <2>1, HeldSum
  <2>3. nfds = a[Conns]
    BY <1>2, <2>2, Zenon DEF DescriptorAccounting
  <2>4. PICK c \in Conns : Moved(c)
    <3>1. CASE conn' = conn /\ nfds' = nfds
      <4>1. PICK c \in Conns : TRUE
        BY ConnAssumption
      <4>2. conn[c] \in Conn /\ conn' = [conn EXCEPT ![c] = conn[c]]
        BY <2>1, <3>1
      <4> QED
        BY <1>2, <3>1, <4>2, RecordMoves DEF IInv
    <3>2. CASE UNCHANGED vars
      BY <3>1, <3>2 DEF vars
    <3>3. CASE Next
      BY <1>2, <3>1, <3>3, ClientMoves, ReceiveMoves, IoMoves, AcceptMoves, TimerMoves
      DEF Next, AcceptStep, AcceptFails, hs_server_listen_cb
    <3> QED
      BY <1>2, <3>2, <3>3
  <2>5. /\ conn' \in [Conns -> Conn] /\ nfds' \in Int
        /\ nfds' - nfds = Held(conn'[c]) - Held(conn[c])
        /\ \A d \in Conns \ {c} : conn'[d] = conn[d]
    BY <2>4 DEF Moved
  <2>6. PICK b : /\ b = Fold(Helds(conn'), Conns, b)
                 /\ MapThenSumSet(LAMBDA d : IF conn'[d].state = "FREE" THEN 0
                                             ELSE IF conn'[d].timer THEN 2 ELSE 1,
                                  Conns) = b[Conns]
    BY <2>5, HeldSum
  <2>7. Helds(conn) \in [Conns -> Int] /\ Helds(conn') \in [Conns -> Int]
    BY <2>1, <2>5, HeldSum
  <2>8. /\ \A d \in Conns \ {c} : Helds(conn')[d] = Helds(conn)[d]
        /\ Helds(conn')[c] = Held(conn'[c]) /\ Helds(conn)[c] = Held(conn[c])
    BY <2>5 DEF Helds
  <2>9. b[Conns] = a[Conns] + (Helds(conn')[c] - Helds(conn)[c])
    <3>1. a = Fold(Helds(conn), Conns, a) /\ b = Fold(Helds(conn'), Conns, b)
      BY <2>2, <2>6
    <3> QED
      BY <2>7, <2>8, <3>1, SumMoves, FiniteConns
  <2>10. Held(conn'[c]) \in Int /\ Held(conn[c]) \in Int
    BY DEF Held
  <2>11. nfds' = b[Conns]
    BY <2>1, <2>3, <2>5, <2>8, <2>9, <2>10
  <2> QED
    BY <2>6, <2>11, Zenon DEF DescriptorAccounting, MapThenSumSet, MapThenFoldSet
<1> QED
  BY <1>1, <1>2, Invariance, PTL DEF Spec
=============================================================================
