------------------------ MODULE HttpResponseProofs -------------------------
(***************************************************************************)
(* Proofs about HttpResponse, for every size of buffer, every width of the *)
(* texts, every set of headers, statuses and bodies and any number of      *)
(* chunks and requests.                                                    *)
(***************************************************************************)
EXTENDS HttpResponse, SequenceTheorems, WellFoundedInduction, TLAPS

-----------------------------------------------------------------------------
(* The inductive invariant.                                                *)

Cells == (Names \cup {"body", "nul", "junk"}) \X Int \X Int

\* The request is well typed.
RequestType ==
    [state : {"INIT", "NOP", "WRITE", "FREE"}, auto : BOOLEAN, keep : BOOLEAN,
     chunked : BOOLEAN, end : BOOLEAN, buf : Seq(Cells), capacity : Nat,
     length : Nat, total : Nat, turn : BOOLEAN, inside : BOOLEAN, mem : Int,
     chunks : Nat, notified : Nat, requests : Nat,
     fate : {"running", "timeout", "crashed"}, owed : Seq(Cells),
     wrong : BOOLEAN, spoilt : BOOLEAN, broken : BOOLEAN, freed : BOOLEAN]

\* memused is the buffer; a session between two requests has none.
Buffered(r) ==
    /\ r.mem = Len(r.buf)
    /\ r.buf # <<>> => r.capacity = Len(r.buf)
    /\ r.state \in {"INIT", "FREE"} => r.buf = <<>>

\* The application's turn comes when all was written, a chunk at most.
Turns(r) ==
    /\ r.total <= r.length
    /\ r.turn => r.total = r.length /\ r.state # "INIT"
    /\ r.turn /\ r.state = "WRITE" => r.chunked
    /\ r.state = "NOP" => r.turn

\* What is owed to the client is what is left of the response in the buffer.
Meant(r) ==
    ~r.spoilt
        => /\ ~r.wrong
           /\ r.turn \/ r.state = "INIT" => r.owed = <<>>
           /\ r.state = "WRITE" /\ ~r.turn
                  => r.length <= Len(r.buf) /\ r.owed = SubSeq(r.buf, r.total + 1, r.length)

\* HTTP_END_SESSION is set behind the end of a response, or by an EPIPE.
Finished(r) ==
    /\ r.end /\ r.state # "FREE"
           => \/ r.broken
              \/ ~r.turn /\ ~r.chunked /\ ~r.keep /\ r.state = "WRITE" /\ r.total = r.length
    /\ r.state = "FREE"
           => \/ r.fate = "timeout" \/ r.broken
              \/ ~r.turn /\ ~r.chunked /\ (r.spoilt \/ r.owed = <<>>)

\* A head is only put together from a request that is there.
Headed(r) ==
    /\ r.turn /\ r.auto /\ ~r.chunked => r.buf # <<>> \/ r.freed \/ r.state = "FREE"
    /\ r.fate = "crashed" => r.freed

\* An application that answers in its callback: http_session waits for it and
\* ends what is to be ended; a chunk on its way is one not told of yet.
Punctual(r) ==
    /\ r.turn => r.inside \/ r.state = "FREE"
    /\ r.end => r.inside \/ r.state = "FREE"
    /\ r.notified <= r.chunks
    /\ r.chunked /\ ~r.turn /\ r.state # "FREE" => r.notified + 1 <= r.chunks

RequestInv(r) ==
    /\ r \in RequestType /\ Buffered(r) /\ Turns(r) /\ Meant(r) /\ Finished(r) /\ Headed(r)
    /\ sync => Punctual(r)

RInv == RequestInv(request) /\ wants \in BOOLEAN /\ sync \in BOOLEAN /\ again \in BOOLEAN

-----------------------------------------------------------------------------
(* Arithmetic: the doubling loop.                                          *)

\* The smallest of two numbers, as vsnprintf and the count of notifications
\* use it.
LEMMA MinOfTwo ==
    ASSUME NEW a \in Int, NEW b \in Int
    PROVE  Min({a, b}) = IF a <= b THEN a ELSE b
<1>1. \E x \in {a, b} : \A y \in {a, b} : x =< y
  OBVIOUS
<1>2. /\ Min({a, b}) \in {a, b}
      /\ \A y \in {a, b} : Min({a, b}) =< y
  BY <1>1 DEF Min
<1> QED
  BY <1>2

\* A non-empty set of numbers has a smallest one.
LEMMA LeastNumber ==
    ASSUME NEW T \in SUBSET Nat, T # {}
    PROVE  \E x \in T : \A y \in T : x =< y
<1> DEFINE R == {ss \in Nat \X Nat : ss[1] < ss[2]}
<1>1. IsWellFoundedOn(R, Nat)
  BY NatLessThanWellFounded DEF OpToRel
<1>2. \E x \in T : \A y \in T : ~(<<y, x>> \in R)
  <2> HIDE DEF R
  <2> QED
    BY <1>1, WFMin
<1>3. \A x \in Nat, y \in Nat : <<y, x>> \notin R => x =< y
  OBVIOUS
<1> HIDE DEF R
<1> QED
  BY <1>2, <1>3

\* The doubling loop of grwprintf ends, and its result is no less than it
\* started with.
LEMMA DoubledGrows ==
    ASSUME NEW capacity \in Nat \ {0}, NEW need \in Nat
    PROVE  Doubled(capacity, need) \in Nat /\ Doubled(capacity, need) >= capacity
<1> DEFINE Loop(g, n) == [k \in 0..n |-> IF k = 0 THEN capacity ELSE 2 * g[k - 1]]
           Ends == {n \in Nat : \E g \in [0..n -> Nat] : g = Loop(g, n)}
           after == CHOOSE g : g = Loop(g, need)
<1>1. 0 \in Ends
  <2> DEFINE g == [k \in 0..0 |-> capacity]
  <2>1. g \in [0..0 -> Nat] /\ g = Loop(g, 0)
    OBVIOUS
  <2> QED
    BY <2>1
<1>2. ASSUME NEW n \in Nat, n \in Ends
      PROVE  n + 1 \in Ends
  <2>1. PICK g \in [0..n -> Nat] : g = Loop(g, n)
    BY <1>2
  <2> DEFINE h == [k \in 0..n + 1 |-> IF k <= n THEN g[k] ELSE 2 * g[n]]
  <2>2. h \in [0..n + 1 -> Nat]
    OBVIOUS
  <2>3. \A k \in 0..n : g[k] = IF k = 0 THEN capacity ELSE 2 * g[k - 1]
    BY <2>1
  <2>4. \A k \in 0..n + 1 : h[k] = IF k = 0 THEN capacity ELSE 2 * h[k - 1]
    BY <2>3
  <2>5. h = Loop(h, n + 1)
    <3> HIDE DEF h
    <3> QED
      BY <2>2, <2>4
  <2>6. n + 1 \in Nat
    OBVIOUS
  <2> HIDE DEF h, Loop
  <2> QED
    BY <2>2, <2>5, <2>6, Zenon
<1>3. need \in Ends
  <2> DEFINE T == Nat \ Ends
  <2>1. SUFFICES ASSUME T # {} PROVE FALSE
    BY Zenon
  <2>2. PICK x \in T : \A y \in T : x =< y
    BY <2>1, LeastNumber
  <2>3. x # 0 /\ x \in Nat
    BY <1>1
  <2>4. x - 1 \in Nat /\ x - 1 \notin T
    <3> HIDE DEF T
    <3> QED
      BY <2>2, <2>3
  <2>5. x - 1 \in Ends
    BY <2>4, Zenon
  <2>6. x - 1 + 1 \in Ends
    BY <2>4, <2>5, <1>2, Zenon
  <2>7. x - 1 + 1 = x
    BY <2>3
  <2> QED
    BY <2>6, <2>7
<1>4. \E g : g = Loop(g, need)
  BY <1>3
<1>5. after = Loop(after, need)
  <2> HIDE DEF Loop
  <2> QED
    BY <1>4, Zenon
<1>6. \A k \in 0..need : after[k] = IF k = 0 THEN capacity ELSE 2 * after[k - 1]
  <2> HIDE DEF after
  <2> QED
    BY <1>5
<1>7. \A k \in 0..need : after[k] \in Nat /\ after[k] >= capacity /\ after[k] >= k
  <2> DEFINE T == {k \in 0..need : ~(after[k] \in Nat /\ after[k] >= capacity /\ after[k] >= k)}
  <2> HIDE DEF after
  <2>1. SUFFICES ASSUME T # {} PROVE FALSE
    OBVIOUS
  <2>2. T \in SUBSET Nat
    OBVIOUS
  <2>3. PICK x \in T : \A y \in T : x =< y
    BY <2>1, <2>2, LeastNumber
  <2>4. x # 0
    BY <1>6
  <2>5. x - 1 \in 0..need /\ x - 1 \notin T
    BY <2>3, <2>4
  <2>6. after[x - 1] \in Nat /\ after[x - 1] >= capacity /\ after[x - 1] >= x - 1
    BY <2>5
  <2>7. after[x] = 2 * after[x - 1]
    BY <1>6, <2>4
  <2> QED
    BY <2>6, <2>7, <2>4
<1> DEFINE Enough == {k \in 0..need : after[k] >= need}
<1>8. Min(Enough) \in 0..need
  <2> HIDE DEF after
  <2>1. need \in Enough
    BY <1>7
  <2>2. Enough \in SUBSET Nat
    OBVIOUS
  <2>3. \E x \in Enough : \A y \in Enough : x =< y
    BY <2>1, <2>2, LeastNumber
  <2>4. Min(Enough) \in Enough
    <3> HIDE DEF Enough
    <3> QED
      BY <2>3 DEF Min
  <2> QED
    BY <2>4
<1>9. Doubled(capacity, need) = after[Min(Enough)]
  BY Zenon DEF Doubled
<1> HIDE DEF after, Enough
<1> QED
  BY <1>7, <1>8, <1>9
-----------------------------------------------------------------------------
(* Texts and the growing buffer.                                           *)

\* Texts are sequences of cells of their width.
LEMMA TextType ==
    ASSUME NEW name \in Names \cup {"body"}, NEW about \in Int, NEW width \in Nat
    PROVE  Text(name, about, width) \in Seq(Cells) /\ Len(Text(name, about, width)) = width
<1>1. \A i \in 1..width : <<name, about, i>> \in Cells
  BY DEF Cells
<1> QED
  BY <1>1 DEF Text

LEMMA JunkType ==
    ASSUME NEW n \in Nat
    PROVE  Junk(n) \in Seq(Cells) /\ Len(Junk(n)) = n
<1>1. junk \in Cells
  BY DEF Cells, junk
<1> QED
  BY <1>1 DEF Junk

LEMMA NulType == <<nul>> \in Seq(Cells) /\ Len(<<nul>>) = 1
BY DEF Cells, nul

\* Texts put together are a text, in whatever order.
LEMMA Concat ==
    ASSUME NEW a \in Seq(Cells), NEW b \in Seq(Cells)
    PROVE  a \o b \in Seq(Cells) /\ <<>> \o a = a /\ a \o <<>> = a
OBVIOUS

LEMMA Regroup ==
    \A a, b, c \in Seq(Cells) : (a \o b) \o c = a \o (b \o c)
BY ConcatAssociative

LEMMA PartOf ==
    ASSUME NEW s \in Seq(Cells), NEW a \in Nat, NEW b \in Nat, a <= b, b <= Len(s)
    PROVE  /\ SubSeq(s, a + 1, b) \in Seq(Cells)
           /\ Len(SubSeq(s, a + 1, b)) = b - a
           /\ \A i \in 1..b - a : SubSeq(s, a + 1, b)[i] = s[a + i]
<1>1. /\ SubSeq(s, a + 1, b) \in Seq(Cells)
      /\ Len(SubSeq(s, a + 1, b)) = b - a
  OBVIOUS
<1>2. \A i \in 1..b - a : SubSeq(s, a + 1, b)[i] = s[a + 1 + i - 1]
  OBVIOUS
<1>3. \A i \in 1..b - a : a + 1 + i - 1 = a + i
  OBVIOUS
<1> QED
  BY <1>1, <1>2, <1>3

LEMMA TwoTexts ==
    ASSUME NEW S, NEW x \in S, NEW y \in S
    PROVE  <<x>> \o <<y>> = <<x, y>>
<1>1. /\ <<x>> \in Seq(S) /\ <<y>> \in Seq(S) /\ <<x, y>> \in Seq(S)
      /\ Len(<<x>>) = 1 /\ Len(<<y>>) = 1 /\ Len(<<x, y>>) = 2
  OBVIOUS
<1>2. <<x>> \o <<y>> \in Seq(S) /\ Len(<<x>> \o <<y>>) = 2
  BY <1>1, ConcatProperties
<1>3. (<<x>> \o <<y>>)[1] = x /\ (<<x>> \o <<y>>)[2] = y
  BY <1>1, ConcatProperties
<1> DEFINE p == <<x>> \o <<y>>
           q == <<x, y>>
<1>4. /\ p \in Seq(S) /\ q \in Seq(S) /\ Len(p) = Len(q)
      /\ \A i \in 1..Len(p) : p[i] = q[i]
  BY <1>1, <1>2, <1>3
<1> HIDE DEF p, q
<1>5. p = q
  BY <1>4
<1> QED
  BY <1>5 DEF p, q

\* The texts of the headers, statuses and lengths.
LEMMA LabelType ==
    ASSUME NEW name \in Names
    PROVE  Label(name) \in Seq(Cells)
BY TextType, WidthAssumption DEF Label

LEMMA NumberedType ==
    ASSUME NEW n \in Int
    PROVE  /\ LengthText(n) \in Seq(Cells)
           /\ SizeText(n) \in Seq(Cells)
           /\ LineText(n) \in Seq(Cells)
<1>1. /\ "Content-Length" \in Names /\ Width["Content-Length"] \in Nat
      /\ "size" \in Names /\ Width["size"] \in Nat
      /\ "line" \in Names /\ Width["line"] \in Nat
  BY WidthAssumption DEF Names
<1> QED
  BY <1>1, TextType DEF LengthText, SizeText, LineText

\* A write changes cells in place and no others.
LEMMA WriteType ==
    ASSUME NEW cells \in Seq(Cells), NEW n \in Nat, NEW text \in Seq(Cells)
    PROVE  /\ Write(cells, n, text) \in Seq(Cells)
           /\ Len(Write(cells, n, text)) = Len(cells)
           /\ \A i \in 1..Len(cells) :
                 Write(cells, n, text)[i]
                     = IF i \in n + 1..n + Len(text) THEN text[i - n] ELSE cells[i]
<1>1. DOMAIN cells = 1..Len(cells) /\ Len(cells) \in Nat
  OBVIOUS
<1>2. \A i \in 1..Len(cells) :
         (IF i \in n + 1..n + Len(text) THEN text[i - n] ELSE cells[i]) \in Cells
  OBVIOUS
<1> QED
  BY <1>1, <1>2 DEF Write

\* A buffer that grows: its allocation is accounted for above base, and unless
\* it was spoilt it holds t.
Ctx(c) ==
    /\ c \in [buf : Seq(Cells), capacity : Nat \ {0}, size : Nat, mem : Int, spoilt : BOOLEAN]
    /\ Len(c.buf) = c.capacity

Holds(c, t) ==
    ~c.spoilt
        => c.size = Len(t) /\ c.size <= c.capacity /\ \A i \in 1..Len(t) : c.buf[i] = t[i]

Good(c, base, t) == Ctx(c) /\ c.mem = base + c.capacity /\ Holds(c, t)

\* A fresh buffer holds nothing.
LEMMA InitGood ==
    ASSUME NEW base \in Int
    PROVE  Good(grwprintf_init(base), base, <<>>)
<1>1. ResponseBufSize \in Nat \ {0}
  BY SizeAssumption
<1>2. Junk(ResponseBufSize) \in Seq(Cells) /\ Len(Junk(ResponseBufSize)) = ResponseBufSize
  BY <1>1, JunkType
<1> QED
  BY <1>1, <1>2 DEF Good, Ctx, Holds, grwprintf_init

\* Growth keeps the cells there are and moves the memory total along.
LEMMA ResizedType ==
    ASSUME NEW c, Ctx(c), NEW capacity \in Nat, capacity >= c.capacity
    PROVE  /\ Ctx(Resized(c, capacity))
           /\ Resized(c, capacity).capacity = capacity
           /\ Resized(c, capacity).size = c.size
           /\ Resized(c, capacity).spoilt = c.spoilt
           /\ Resized(c, capacity).mem - capacity = c.mem - c.capacity
           /\ \A i \in 1..c.capacity : Resized(c, capacity).buf[i] = c.buf[i]
<1> DEFINE j == Junk(capacity - c.capacity)
           b == c.buf \o j
           m == c.mem - c.capacity + capacity
<1>1. j \in Seq(Cells) /\ Len(j) = capacity - c.capacity
  BY JunkType DEF Ctx
<1>2. /\ b \in Seq(Cells) /\ Len(b) = capacity
      /\ \A i \in 1..c.capacity : b[i] = c.buf[i]
  <2> HIDE DEF j
  <2> QED
    BY <1>1, ConcatProperties DEF Ctx
<1>3. Resized(c, capacity)
        = [c EXCEPT !.buf = b, !.mem = m, !.capacity = capacity]
  BY DEF Resized
<1> DEFINE d == Resized(c, capacity)
<1>4. /\ c \in [buf : Seq(Cells), capacity : Nat \ {0}, size : Nat, mem : Int, spoilt : BOOLEAN]
      /\ capacity \in Nat \ {0} /\ m \in Int /\ m - capacity = c.mem - c.capacity
  BY DEF Ctx
<1> HIDE DEF b, m
<1>5. /\ d \in [buf : Seq(Cells), capacity : Nat \ {0}, size : Nat, mem : Int, spoilt : BOOLEAN]
      /\ d.buf = b /\ d.capacity = capacity /\ d.size = c.size /\ d.mem = m
      /\ d.spoilt = c.spoilt
  BY <1>2, <1>3, <1>4
<1> HIDE DEF d
<1>6. Ctx(d)
  BY <1>2, <1>5 DEF Ctx
<1> QED
  BY <1>2, <1>4, <1>5, <1>6 DEF d

\* vsnprintf writes the text, and its end mark, if there is space for both; it
\* leaves alone what stands before.
LEMMA PrintedType ==
    ASSUME NEW c, Ctx(c), NEW text \in Seq(Cells)
    PROVE  /\ Ctx(Printed(c, text))
           /\ Printed(c, text).capacity = c.capacity
           /\ Printed(c, text).size = c.size
           /\ Printed(c, text).spoilt = c.spoilt
           /\ Printed(c, text).mem = c.mem
           /\ \A i \in 1..c.capacity :
                 /\ i <= c.size => Printed(c, text).buf[i] = c.buf[i]
                 /\ c.size + Len(text) < c.capacity /\ i > c.size /\ i <= c.size + Len(text)
                       => Printed(c, text).buf[i] = text[i - c.size]
<1> DEFINE space == c.capacity - c.size
           n == Min({Len(text), space - 1})
           out == SubSeq(text, 1, n) \o <<nul>>
           b == Write(c.buf, c.size, out)
           d == Printed(c, text)
<1>1. /\ c \in [buf : Seq(Cells), capacity : Nat \ {0}, size : Nat, mem : Int, spoilt : BOOLEAN]
      /\ Len(c.buf) = c.capacity /\ Len(text) \in Nat /\ space \in Int
  BY DEF Ctx
<1>2. CASE space <= 0
  <2>1. d = c
    BY <1>2 DEF Printed
  <2> HIDE DEF d
  <2> QED
    BY <1>1, <1>2, <2>1 DEF d
<1>3. CASE space > 0
  <2>1. n = IF Len(text) <= space - 1 THEN Len(text) ELSE space - 1
    BY <1>1, MinOfTwo
  <2>2. n \in Nat /\ n <= Len(text)
    <3> HIDE DEF n
    <3> QED
      BY <1>1, <1>3, <2>1
  <2>3. /\ SubSeq(text, 1, n) \in Seq(Cells) /\ Len(SubSeq(text, 1, n)) = n
        /\ \A i \in 1..n : SubSeq(text, 1, n)[i] = text[i]
    <3> HIDE DEF n
    <3> QED
      BY <2>2
  <2>4. /\ out \in Seq(Cells) /\ Len(out) = n + 1
        /\ \A i \in 1..n : out[i] = text[i]
    <3> DEFINE t == SubSeq(text, 1, n)
    <3> HIDE DEF n, t
    <3>1. t \o <<nul>> \in Seq(Cells) /\ Len(t \o <<nul>>) = n + 1
          /\ \A i \in 1..n : (t \o <<nul>>)[i] = t[i]
      BY <2>2, <2>3, NulType, ConcatProperties DEF t
    <3> QED
      BY <2>3, <3>1 DEF t
  <2> HIDE DEF out, n
  <2>5. /\ b \in Seq(Cells) /\ Len(b) = Len(c.buf)
        /\ \A i \in 1..Len(c.buf) :
              b[i] = IF i \in c.size + 1..c.size + Len(out) THEN out[i - c.size] ELSE c.buf[i]
    <3>1. c.buf \in Seq(Cells) /\ c.size \in Nat
      BY <1>1
    <3> QED
      BY <2>4, <3>1, WriteType, Zenon
  <2>6. d = [c EXCEPT !.buf = b]
    <3>1. ~(c.capacity - c.size <= 0)
      BY <1>3, <1>1
    <3> QED
      BY <3>1, Zenon DEF Printed, out, n
  <2> HIDE DEF b, d
  <2>7. /\ d \in [buf : Seq(Cells), capacity : Nat \ {0}, size : Nat, mem : Int, spoilt : BOOLEAN]
        /\ d.buf = b /\ d.capacity = c.capacity /\ d.size = c.size /\ d.mem = c.mem
        /\ d.spoilt = c.spoilt
    BY <1>1, <2>5, <2>6
  <2>8. \A i \in 1..c.capacity : i <= c.size => b[i] = c.buf[i]
    BY <1>1, <2>5
  <2>9. ASSUME NEW i \in 1..c.capacity, c.size + Len(text) < c.capacity,
               i > c.size, i <= c.size + Len(text)
        PROVE  b[i] = text[i - c.size]
    <3>1. n = Len(text)
      BY <2>1, <2>9, <1>1
    <3>2. i \in c.size + 1..c.size + Len(out) /\ i - c.size \in 1..n
      BY <3>1, <2>9, <1>1, <2>4
    <3> QED
      BY <3>2, <2>5, <2>4, <1>1
  <2>10. Ctx(d)
    BY <1>1, <2>5, <2>7 DEF Ctx
  <2> QED
    BY <2>7, <2>8, <2>9, <2>10 DEF d
<1> QED
  BY <1>1, <1>2, <1>3

\* grwprintf appends the text, or the buffer is spoilt; the second text is what
\* the arguments give when they are used again.
LEMMA PrintGood ==
    ASSUME NEW c, NEW base \in Int, NEW t \in Seq(Cells), Good(c, base, t),
           NEW text \in Seq(Cells), NEW second \in Seq(Cells)
    PROVE  Good(grwprintf(c, text, second), base, t \o text)
<1> DEFINE need == c.size + Len(text)
           first == Printed(c, text)
           d == grwprintf(c, text, second)
<1>1. /\ Ctx(c) /\ c.mem = base + c.capacity /\ Holds(c, t)
      /\ c.capacity \in Nat \ {0} /\ c.size \in Nat /\ c.mem \in Int /\ c.spoilt \in BOOLEAN
      /\ need \in Nat /\ Len(text) \in Nat
  BY DEF Good, Ctx
<1>2. /\ Ctx(first) /\ first.capacity = c.capacity /\ first.size = c.size
      /\ first.spoilt = c.spoilt /\ first.mem = c.mem
      /\ \A i \in 1..c.capacity :
            /\ i <= c.size => first.buf[i] = c.buf[i]
            /\ c.size + Len(text) < c.capacity /\ i > c.size /\ i <= c.size + Len(text)
                  => first.buf[i] = text[i - c.size]
  BY <1>1, PrintedType
<1> HIDE DEF first
<1>3. CASE need <= c.capacity
  <2> DEFINE bad == c.spoilt \/ need = c.capacity
  <2>1. d = [first EXCEPT !.size = need, !.spoilt = bad]
    BY <1>2, <1>3, Zenon DEF grwprintf, first
  <2>2. bad \in BOOLEAN /\ (~bad => ~c.spoilt /\ need # c.capacity)
    OBVIOUS
  <2> HIDE DEF bad, d
  <2>3. /\ Ctx(d) /\ d.capacity = c.capacity /\ d.size = need
        /\ d.mem = c.mem /\ d.buf = first.buf /\ d.spoilt = bad
    BY <1>1, <1>2, <2>1, <2>2 DEF Ctx
  <2>4. Holds(d, t \o text)
    <3>1. SUFFICES ASSUME ~bad
                   PROVE  /\ d.size = Len(t \o text) /\ d.size <= d.capacity
                          /\ \A i \in 1..Len(t \o text) : d.buf[i] = (t \o text)[i]
      BY <2>3, Zenon DEF Holds
    <3>2. /\ c.size = Len(t) /\ c.size <= c.capacity /\ need < c.capacity
          /\ \A i \in 1..Len(t) : c.buf[i] = t[i]
      BY <3>1, <2>2, <1>1, <1>3 DEF Holds
    <3>3. /\ t \o text \in Seq(Cells) /\ Len(t \o text) = Len(t) + Len(text)
          /\ \A i \in 1..Len(t) : (t \o text)[i] = t[i]
          /\ \A i \in Len(t) + 1..Len(t) + Len(text) : (t \o text)[i] = text[i - Len(t)]
      BY ConcatProperties
    <3> HIDE DEF need
    <3>4. d.size = Len(t \o text) /\ d.size <= d.capacity
      BY <2>3, <3>2, <3>3, <1>3 DEF need
    <3>5. ASSUME NEW i \in 1..Len(t \o text)
          PROVE  d.buf[i] = (t \o text)[i]
      <4> DEFINE u == t \o text
      <4>1. i \in 1..c.capacity /\ Len(t) \in Nat
        BY <3>2, <3>3, <1>1 DEF need
      <4> HIDE DEF u
      <4>2. CASE i <= Len(t)
        BY <4>1, <4>2, <1>2, <2>3, <3>2, <3>3
      <4>3. CASE i > Len(t)
        <5>1. i \in Len(t) + 1..Len(t) + Len(text)
          BY <4>1, <4>3, <3>3
        <5>2. first.buf[i] = text[i - Len(t)]
          BY <4>1, <4>3, <1>2, <5>1, <3>2 DEF need
        <5> QED
          BY <5>1, <5>2, <2>3, <3>3
      <4> QED
        BY <4>1, <4>2, <4>3
    <3> QED
      BY <3>4, <3>5
  <2> QED
    BY <1>1, <2>3, <2>4 DEF Good, d
<1>4. CASE need > c.capacity
  <2> DEFINE cap == Doubled(c.capacity, need)
             wide == Resized(first, cap)
             grown == Printed(wide, second)
             total == need + Len(second)
  <2>1. cap \in Nat /\ cap >= c.capacity
    BY <1>1, DoubledGrows
  <2>2. Ctx(wide) /\ wide.capacity = cap /\ wide.mem - cap = first.mem - first.capacity
    <3> HIDE DEF cap
    <3> QED
      BY <1>2, <2>1, ResizedType
  <2> HIDE DEF wide
  <2>3. Ctx(grown) /\ grown.capacity = cap /\ grown.mem = wide.mem
    BY <2>2, PrintedType
  <2>4. d = [grown EXCEPT !.size = total, !.spoilt = TRUE]
    <3>1. ~(c.size + Len(text) <= c.capacity)
      BY <1>4, <1>1
    <3> QED
      BY <3>1, Zenon DEF grwprintf, first, wide
  <2>5. total \in Nat
    BY <1>1
  <2> HIDE DEF grown, d, total, cap
  <2>6. /\ Ctx(d) /\ d.capacity = grown.capacity /\ d.mem = grown.mem /\ d.spoilt = TRUE
    BY <2>3, <2>4, <2>5 DEF Ctx
  <2>7. Holds(d, t \o text)
    BY <2>6 DEF Holds
  <2>8. d.mem = base + d.capacity
    <3>1. wide.mem \in Int
      BY <2>2 DEF Ctx
    <3>2. wide.mem - cap = c.mem - c.capacity /\ c.mem = base + c.capacity
      BY <1>1, <1>2, <2>2
    <3>3. d.mem = wide.mem /\ d.capacity = cap
      BY <2>3, <2>6
    <3>4. c.capacity \in Int /\ c.mem \in Int /\ cap \in Int
      BY <1>1, <2>1
    <3> QED
      BY <3>1, <3>2, <3>3, <3>4
  <2> QED
    BY <2>6, <2>7, <2>8 DEF Good, d
<1> QED
  BY <1>1, <1>3, <1>4

\* grwmemcpy appends the text whatever its length.
LEMMA CopyGood ==
    ASSUME NEW c, NEW base \in Int, NEW t \in Seq(Cells), Good(c, base, t),
           NEW text \in Seq(Cells)
    PROVE  Good(grwmemcpy(c, text), base, t \o text)
<1> DEFINE need == c.size + Len(text)
           e == IF need > c.capacity THEN Resized(c, need) ELSE c
           b == Write(e.buf, c.size, text)
           d == grwmemcpy(c, text)
<1>1. /\ Ctx(c) /\ c.mem = base + c.capacity /\ Holds(c, t)
      /\ c.capacity \in Nat \ {0} /\ c.size \in Nat /\ c.mem \in Int /\ c.spoilt \in BOOLEAN
      /\ need \in Nat /\ Len(text) \in Nat
  BY DEF Good, Ctx
<1>2. /\ Ctx(e) /\ e.mem - e.capacity = c.mem - c.capacity /\ e.spoilt = c.spoilt
      /\ e.capacity >= need /\ e.capacity >= c.capacity /\ e.capacity \in Nat
      /\ \A i \in 1..c.capacity : e.buf[i] = c.buf[i]
  <2>1. CASE need > c.capacity
    <3>1. /\ Ctx(Resized(c, need)) /\ Resized(c, need).capacity = need
          /\ Resized(c, need).spoilt = c.spoilt
          /\ Resized(c, need).mem - need = c.mem - c.capacity
          /\ \A i \in 1..c.capacity : Resized(c, need).buf[i] = c.buf[i]
      <4> HIDE DEF need
      <4> QED
        BY <1>1, <2>1, ResizedType
    <3>2. e = Resized(c, need)
      BY <2>1
    <3> HIDE DEF e, need
    <3> QED
      BY <1>1, <2>1, <3>1, <3>2
  <2>2. CASE ~(need > c.capacity)
    <3>1. e = c
      BY <2>2
    <3> HIDE DEF e, need
    <3> QED
      BY <1>1, <2>2, <3>1
  <2> QED
    BY <2>1, <2>2
<1>3. d = [e EXCEPT !.buf = b, !.size = need]
  BY DEF grwmemcpy
<1> HIDE DEF e
<1>4. /\ b \in Seq(Cells) /\ Len(b) = e.capacity
      /\ \A i \in 1..e.capacity :
            b[i] = IF i \in c.size + 1..c.size + Len(text) THEN text[i - c.size] ELSE e.buf[i]
  <2>1. e.buf \in Seq(Cells) /\ Len(e.buf) = e.capacity
    BY <1>2 DEF Ctx
  <2>2. /\ b \in Seq(Cells) /\ Len(b) = Len(e.buf)
        /\ \A i \in 1..Len(e.buf) :
              b[i] = IF i \in c.size + 1..c.size + Len(text) THEN text[i - c.size] ELSE e.buf[i]
    <3>1. c.size \in Nat
      BY <1>1
    <3> QED
      BY <3>1, <2>1, WriteType, Zenon
  <2> QED
    BY <2>1, <2>2, Zenon
<1> HIDE DEF b, d
<1>5. /\ Ctx(d) /\ d.capacity = e.capacity /\ d.mem = e.mem /\ d.spoilt = e.spoilt
      /\ d.size = need /\ d.buf = b
  <2> HIDE DEF need
  <2> QED
    BY <1>1, <1>2, <1>3, <1>4 DEF Ctx
<1>6. d.mem = base + d.capacity
  <2>1. e.mem \in Int
    BY <1>2 DEF Ctx
  <2>2. /\ e.mem - e.capacity = c.mem - c.capacity /\ c.mem = base + c.capacity
        /\ c.capacity \in Int /\ c.mem \in Int /\ e.capacity \in Int
    BY <1>1, <1>2
  <2> QED
    BY <1>5, <2>1, <2>2
<1>7. Holds(d, t \o text)
  <2>1. SUFFICES ASSUME ~c.spoilt
                 PROVE  /\ d.size = Len(t \o text) /\ d.size <= d.capacity
                        /\ \A i \in 1..Len(t \o text) : d.buf[i] = (t \o text)[i]
    BY <1>2, <1>5, Zenon DEF Holds
  <2>2. c.size = Len(t) /\ c.size <= c.capacity /\ \A i \in 1..Len(t) : c.buf[i] = t[i]
    BY <2>1, <1>1 DEF Holds
  <2>3. /\ t \o text \in Seq(Cells) /\ Len(t \o text) = Len(t) + Len(text)
        /\ \A i \in 1..Len(t) : (t \o text)[i] = t[i]
        /\ \A i \in Len(t) + 1..Len(t) + Len(text) : (t \o text)[i] = text[i - Len(t)]
    BY ConcatProperties
  <2>4. d.size = Len(t \o text) /\ d.size <= d.capacity
    BY <1>2, <1>5, <2>2, <2>3
  <2>5. ASSUME NEW i \in 1..Len(t \o text)
        PROVE  d.buf[i] = (t \o text)[i]
    <3>1. i \in 1..e.capacity /\ Len(t) \in Nat
      BY <1>1, <1>2, <2>2, <2>3
    <3>2. CASE i <= Len(t)
      <4>1. i \in 1..c.capacity /\ i \in 1..Len(t) /\ i \notin c.size + 1..c.size + Len(text)
        BY <3>1, <3>2, <2>2, <1>1
      <4> QED
        BY <4>1, <3>1, <1>2, <1>4, <1>5, <2>2, <2>3
    <3>3. CASE i > Len(t)
      <4>1. i \in Len(t) + 1..Len(t) + Len(text) /\ i \in c.size + 1..c.size + Len(text)
        BY <3>1, <3>3, <2>2, <2>3
      <4> QED
        BY <4>1, <3>1, <1>4, <1>5, <2>2, <2>3
    <3> QED
      BY <3>1, <3>2, <3>3
  <2> QED
    BY <2>4, <2>5
<1> QED
  BY <1>5, <1>6, <1>7 DEF Good, d

\* The two kinds of format.
LEMMA FormatGood ==
    ASSUME NEW c, NEW base \in Int, NEW t \in Seq(Cells), Good(c, base, t),
           NEW text \in Seq(Cells)
    PROVE  Good(Format(c, text), base, t \o text)
<1>1. (IF again THEN text ELSE Junk(Len(text))) \in Seq(Cells)
  BY JunkType
<1> QED
  BY <1>1, PrintGood, Zenon DEF Format

LEMMA FormatPlainGood ==
    ASSUME NEW c, NEW base \in Int, NEW t \in Seq(Cells), Good(c, base, t),
           NEW name \in Names
    PROVE  Good(FormatPlain(c, name), base, t \o Label(name))
BY LabelType, PrintGood, Zenon DEF FormatPlain

\* The loop over the headers prints one after the other.
LEMMA FormatAllSteps ==
    ASSUME NEW c, NEW texts \in Seq(Seq(Cells)), Len(texts) \in 0..3
    PROVE  /\ Len(texts) = 0 => FormatAll(c, texts) = c
           /\ Len(texts) = 1 => FormatAll(c, texts) = Format(c, texts[1])
           /\ Len(texts) = 2 => FormatAll(c, texts) = Format(Format(c, texts[1]), texts[2])
           /\ Len(texts) = 3
                 => FormatAll(c, texts)
                      = Format(Format(Format(c, texts[1]), texts[2]), texts[3])
<1> DEFINE n == Len(texts)
           c1 == Format(c, texts[1])
           c2 == Format(c1, texts[2])
           c3 == Format(c2, texts[3])
           Loop(g) == [i \in 0..n |-> IF i = 0 THEN c ELSE Format(g[i - 1], texts[i])]
           h == [i \in 0..n |-> CASE i = 0 -> c [] i = 1 -> c1 [] i = 2 -> c2 [] i = 3 -> c3]
           after == CHOOSE g : g = Loop(g)
<1>1. \A i \in 0..n : h[i] = IF i = 0 THEN c ELSE Format(h[i - 1], texts[i])
  <2>1. SUFFICES ASSUME NEW i \in 0..n
                 PROVE  h[i] = IF i = 0 THEN c ELSE Format(h[i - 1], texts[i])
    OBVIOUS
  <2>2. i \in {0, 1, 2, 3} /\ n \in Nat
    <3>1. n \in 0..3 /\ i \in 0..n
      OBVIOUS
    <3> HIDE DEF n
    <3> QED
      BY <3>1
  <2>3. CASE i = 0
    BY <2>3
  <2>4. CASE i = 1
    <3>1. h[0] = c /\ h[1] = c1
      BY <2>4, <2>2
    <3> QED
      BY <2>4, <3>1
  <2>5. CASE i = 2
    <3>1. h[1] = c1 /\ h[2] = c2
      BY <2>5, <2>2
    <3> QED
      BY <2>5, <3>1
  <2>6. CASE i = 3
    <3>1. h[2] = c2 /\ h[3] = c3
      BY <2>6, <2>2
    <3> QED
      BY <2>6, <3>1
  <2> QED
    BY <2>2, <2>3, <2>4, <2>5, <2>6
<1>2. h = Loop(h)
  BY <1>1
<1>3. after = Loop(after)
  <2> HIDE DEF h, Loop
  <2> QED
    BY <1>2, Zenon
<1>4. \A i \in 0..n : after[i] = IF i = 0 THEN c ELSE Format(after[i - 1], texts[i])
  <2> HIDE DEF after
  <2> QED
    BY <1>3
<1>5. FormatAll(c, texts) = after[n]
  BY Zenon DEF FormatAll
<1> HIDE DEF after
<1>6. after[0] = c
  BY <1>4
<1>7. n >= 1 => after[1] = c1
  BY <1>4, <1>6
<1>8. n >= 2 => after[2] = c2
  BY <1>4, <1>7
<1>9. n = 3 => after[3] = c3
  BY <1>4, <1>8
<1> HIDE DEF c1, c2, c3, n
<1>10. /\ n = 0 => FormatAll(c, texts) = c
       /\ n = 1 => FormatAll(c, texts) = c1
       /\ n = 2 => FormatAll(c, texts) = c2
       /\ n = 3 => FormatAll(c, texts) = c3
  BY <1>5, <1>6, <1>7, <1>8, <1>9
<1> QED
  BY <1>10, Zenon DEF c1, c2, c3, n

\* The texts of up to three headers in one.
LEMMA Flattened ==
    /\ FlattenSeq(<<>>) = <<>>
    /\ \A a \in Seq(Cells) : FlattenSeq(<<a>>) = a
    /\ \A a, b \in Seq(Cells) : FlattenSeq(<<a, b>>) = a \o b
<1>1. FlattenSeq(<<>>) = <<>>
  BY DEF FlattenSeq
<1>2. ASSUME NEW a \in Seq(Cells) PROVE FlattenSeq(<<a>>) = a
  <2> DEFINE s == <<a>>
             Loop(g) == [i \in 1..Len(s) |-> IF i = 1 THEN s[i] ELSE g[i - 1] \o s[i]]
             flat == CHOOSE g : g = Loop(g)
  <2>1. s = Loop(s)
    OBVIOUS
  <2>2. flat = Loop(flat)
    <3> HIDE DEF Loop, s
    <3> QED
      BY <2>1, Zenon
  <2>3. Len(s) = 1 /\ s[1] = a
    OBVIOUS
  <2>4. FlattenSeq(s) = flat[Len(s)]
    <3>1. Len(s) # 0
      BY <2>3
    <3> QED
      BY <3>1, Zenon DEF FlattenSeq
  <2> HIDE DEF flat, s
  <2>5. flat[1] = a
    BY <2>2, <2>3
  <2> QED
    BY <2>3, <2>4, <2>5 DEF s
<1>3. ASSUME NEW a \in Seq(Cells), NEW b \in Seq(Cells) PROVE FlattenSeq(<<a, b>>) = a \o b
  <2> DEFINE s == <<a, b>>
             Loop(g) == [i \in 1..Len(s) |-> IF i = 1 THEN s[i] ELSE g[i - 1] \o s[i]]
             flat == CHOOSE g : g = Loop(g)
             h == <<a, a \o b>>
  <2>1. h = Loop(h)
    OBVIOUS
  <2>2. flat = Loop(flat)
    <3> HIDE DEF Loop, s, h
    <3> QED
      BY <2>1, Zenon
  <2>3. Len(s) = 2 /\ s[1] = a /\ s[2] = b
    OBVIOUS
  <2>4. FlattenSeq(s) = flat[Len(s)]
    <3>1. Len(s) # 0
      BY <2>3
    <3> QED
      BY <3>1, Zenon DEF FlattenSeq
  <2> HIDE DEF flat, s
  <2>5. flat[1] = a
    BY <2>2, <2>3
  <2>6. flat[2] = flat[1] \o b
    BY <2>2, <2>3
  <2> QED
    BY <2>3, <2>4, <2>5, <2>6 DEF s
<1> QED
  BY <1>1, <1>2, <1>3
\* The texts of up to three headers, one behind the other.
Joined(names) ==
    CASE Len(names) = 0 -> <<>>
      [] Len(names) = 1 -> Label(names[1])
      [] Len(names) = 2 -> Label(names[1]) \o Label(names[2])
      [] OTHER -> Label(names[1]) \o (Label(names[2]) \o Label(names[3]))

LEMMA HeaderTextsType ==
    ASSUME NEW names \in Seq(Names)
    PROVE  /\ HeaderTexts(names) \in Seq(Seq(Cells))
           /\ Len(HeaderTexts(names)) = Len(names)
           /\ \A i \in 1..Len(names) : HeaderTexts(names)[i] = Label(names[i])
<1>1. \A i \in 1..Len(names) : Label(names[i]) \in Seq(Cells)
  BY LabelType
<1>2. DOMAIN names = 1..Len(names) /\ Len(names) \in Nat
  OBVIOUS
<1> QED
  BY <1>1, <1>2 DEF HeaderTexts

LEMMA JoinedType ==
    ASSUME NEW names \in Seq(Names), Len(names) \in 0..3
    PROVE  Joined(names) \in Seq(Cells)
<1>1. \A i \in 1..Len(names) : Label(names[i]) \in Seq(Cells)
  BY LabelType
<1>2. CASE Len(names) = 0
  BY <1>2 DEF Joined
<1>3. CASE Len(names) = 1
  BY <1>1, <1>3 DEF Joined
<1>4. CASE Len(names) = 2
  BY <1>1, <1>4 DEF Joined
<1>5. CASE Len(names) = 3
  BY <1>1, <1>5 DEF Joined
<1> QED
  BY <1>2, <1>3, <1>4, <1>5

\* A header put in front, as http_response_header does.
LEMMA JoinedInFront ==
    ASSUME NEW name \in Names, NEW names \in Seq(Names), Len(names) \in 0..2
    PROVE  /\ <<name>> \o names \in Seq(Names)
           /\ Len(<<name>> \o names) = Len(names) + 1
           /\ Joined(<<name>> \o names) = Label(name) \o Joined(names)
<1> DEFINE all == <<name>> \o names
<1>1. <<name>> \in Seq(Names) /\ Len(<<name>>) = 1 /\ <<name>>[1] = name
  OBVIOUS
<1>2. /\ all \in Seq(Names) /\ Len(all) = Len(names) + 1
      /\ all[1] = name /\ \A i \in 1..Len(names) : all[i + 1] = names[i]
  BY <1>1, ConcatProperties
<1> HIDE DEF all
<1>3. Label(name) \in Seq(Cells)
  BY LabelType
<1>4. Joined(all) = Label(name) \o Joined(names)
  <2>1. CASE Len(names) = 0
    <3>1. Joined(all) = Label(name) /\ Joined(names) = <<>>
      BY <1>2, <2>1 DEF Joined
    <3> QED
      BY <1>3, <3>1
  <2>2. CASE Len(names) = 1
    <3>1. Len(all) = 2 /\ all[2] = names[1]
      BY <1>2, <2>2
    <3>2. Joined(all) = Label(all[1]) \o Label(all[2]) /\ Joined(names) = Label(names[1])
      BY <2>2, <3>1 DEF Joined
    <3> QED
      BY <1>2, <3>1, <3>2
  <2>3. CASE Len(names) = 2
    <3>1. Len(all) = 3 /\ all[2] = names[1] /\ all[3] = names[2]
      BY <1>2, <2>3
    <3>2. /\ Joined(all) = Label(all[1]) \o (Label(all[2]) \o Label(all[3]))
          /\ Joined(names) = Label(names[1]) \o Label(names[2])
      BY <2>3, <3>1 DEF Joined
    <3> QED
      BY <1>2, <3>1, <3>2
  <2> QED
    BY <2>1, <2>2, <2>3
<1> QED
  BY <1>2, <1>4 DEF all

\* The meaning of a head is spelled with FlattenSeq.
LEMMA JoinedIsFlattened ==
    ASSUME NEW names \in Seq(Names), NEW text \in Seq(Cells)
    PROVE  /\ Len(names) \in 0..2 => FlattenSeq(HeaderTexts(names)) = Joined(names)
           /\ Len(names) \in 0..1
                 => FlattenSeq(HeaderTexts(names) \o <<text>>) = Joined(names) \o text
<1> DEFINE texts == HeaderTexts(names)
<1>1. /\ texts \in Seq(Seq(Cells)) /\ Len(texts) = Len(names)
      /\ \A i \in 1..Len(names) : texts[i] = Label(names[i])
  BY HeaderTextsType
<1>2. \A i \in 1..Len(names) : Label(names[i]) \in Seq(Cells)
  BY LabelType
<1> HIDE DEF texts
<1>3. CASE Len(names) = 0
  <2>1. texts = <<>> /\ Joined(names) = <<>>
    BY <1>1, <1>3 DEF Joined
  <2>2. <<>> \o <<text>> = <<text>> /\ <<>> \o text = text
    OBVIOUS
  <2> QED
    BY <1>3, <2>1, <2>2, Flattened DEF texts
<1>4. CASE Len(names) = 1
  <2>1. texts = <<Label(names[1])>> /\ Joined(names) = Label(names[1])
    BY <1>1, <1>4 DEF Joined
  <2>2. Label(names[1]) \in Seq(Cells)
    BY <1>2, <1>4
  <2>3. ASSUME NEW x \in Seq(Cells) PROVE <<x>> \o <<text>> = <<x, text>>
    BY TwoTexts, Zenon
  <2>4. texts \o <<text>> = <<Label(names[1]), text>>
    BY <2>1, <2>2, <2>3, Zenon
  <2>5. FlattenSeq(texts) = Joined(names) /\ FlattenSeq(texts \o <<text>>) = Joined(names) \o text
    BY <2>1, <2>2, <2>4, Flattened, Zenon
  <2> QED
    BY <2>5, Zenon DEF texts
<1>5. CASE Len(names) = 2
  <2>1. /\ texts = <<Label(names[1]), Label(names[2])>>
        /\ Joined(names) = Label(names[1]) \o Label(names[2])
    BY <1>1, <1>5 DEF Joined
  <2>2. Label(names[1]) \in Seq(Cells) /\ Label(names[2]) \in Seq(Cells)
    BY <1>2, <1>5
  <2>3. FlattenSeq(texts) = Joined(names) /\ Len(names) \notin 0..1
    <3>1. FlattenSeq(texts) = Joined(names)
      BY <2>1, <2>2, Flattened, Zenon
    <3> QED
      BY <3>1, <1>5
  <2> QED
    BY <2>3, Zenon DEF texts
<1> QED
  BY <1>3, <1>4, <1>5
\* A response as the application prepares it: at most two headers yet.
Res(res) ==
    /\ res \in [status : Int, headers : Seq(Names), body : Seq(Cells), length : Nat]
    /\ Len(res.headers) \in 0..2

\* The loop prints the headers.
LEMMA FormatAllGood ==
    ASSUME NEW c, NEW base \in Int, NEW t \in Seq(Cells), Good(c, base, t),
           NEW names \in Seq(Names), Len(names) \in 0..3
    PROVE  Good(FormatAll(c, HeaderTexts(names)), base, t \o Joined(names))
<1> DEFINE texts == HeaderTexts(names)
           a == Label(names[1])
           b == Label(names[2])
           d == Label(names[3])
<1>1. /\ texts \in Seq(Seq(Cells)) /\ Len(texts) = Len(names)
      /\ \A i \in 1..Len(names) : texts[i] = Label(names[i])
  BY HeaderTextsType
<1>2. \A i \in 1..Len(names) : Label(names[i]) \in Seq(Cells)
  BY LabelType
<1> HIDE DEF texts
<1>3. /\ Len(texts) = 0 => FormatAll(c, texts) = c
      /\ Len(texts) = 1 => FormatAll(c, texts) = Format(c, texts[1])
      /\ Len(texts) = 2 => FormatAll(c, texts) = Format(Format(c, texts[1]), texts[2])
      /\ Len(texts) = 3
            => FormatAll(c, texts) = Format(Format(Format(c, texts[1]), texts[2]), texts[3])
  BY <1>1, FormatAllSteps
<1>4. CASE Len(names) = 0
  <2>1. FormatAll(c, texts) = c /\ Joined(names) = <<>> /\ t \o <<>> = t
    BY <1>1, <1>3, <1>4 DEF Joined
  <2> QED
    BY <2>1 DEF texts
<1>5. CASE Len(names) = 1
  <2>1. FormatAll(c, texts) = Format(c, a) /\ Joined(names) = a /\ a \in Seq(Cells)
    BY <1>1, <1>2, <1>3, <1>5 DEF Joined
  <2> QED
    BY <2>1, FormatGood DEF texts
<1>6. CASE Len(names) = 2
  <2>1. /\ FormatAll(c, texts) = Format(Format(c, a), b) /\ Joined(names) = a \o b
        /\ a \in Seq(Cells) /\ b \in Seq(Cells)
    BY <1>1, <1>2, <1>3, <1>6 DEF Joined
  <2> HIDE DEF a, b
  <2>2. Good(Format(c, a), base, t \o a) /\ t \o a \in Seq(Cells)
    BY <2>1, FormatGood
  <2>3. Good(Format(Format(c, a), b), base, (t \o a) \o b)
    BY <2>1, <2>2, FormatGood
  <2>4. (t \o a) \o b = t \o (a \o b)
    BY <2>1, ConcatAssociative
  <2> QED
    BY <2>1, <2>3, <2>4 DEF texts
<1>7. CASE Len(names) = 3
  <2>1. /\ FormatAll(c, texts) = Format(Format(Format(c, a), b), d)
        /\ Joined(names) = a \o (b \o d)
        /\ a \in Seq(Cells) /\ b \in Seq(Cells) /\ d \in Seq(Cells)
    BY <1>1, <1>2, <1>3, <1>7 DEF Joined
  <2> HIDE DEF a, b, d
  <2>2. Good(Format(c, a), base, t \o a) /\ t \o a \in Seq(Cells)
    BY <2>1, FormatGood
  <2>3. /\ Good(Format(Format(c, a), b), base, (t \o a) \o b)
        /\ (t \o a) \o b \in Seq(Cells)
    <3>1. (t \o a) \o b \in Seq(Cells)
      BY <2>1, <2>2, Concat, Zenon
    <3> QED
      BY <2>1, <2>2, <3>1, FormatGood, Zenon
  <2>4. Good(Format(Format(Format(c, a), b), d), base, ((t \o a) \o b) \o d)
    BY <2>1, <2>3, FormatGood
  <2>5. ((t \o a) \o b) \o d = t \o (a \o (b \o d))
    <3>1. a \in Seq(Cells) /\ b \in Seq(Cells) /\ d \in Seq(Cells) /\ b \o d \in Seq(Cells)
      BY <2>1
    <3>2. ((t \o a) \o b) \o d = (t \o a) \o (b \o d)
      BY <2>2, <3>1, Regroup
    <3> DEFINE v == b \o d
    <3> HIDE DEF v
    <3>3. (t \o a) \o v = t \o (a \o v)
      BY <3>1, Regroup DEF v
    <3> QED
      BY <3>2, <3>3 DEF v
  <2> QED
    BY <2>1, <2>4, <2>5 DEF texts
<1> QED
  BY <1>4, <1>5, <1>6, <1>7

\* http_buffer_headers prints the headers, the length if it is known, and the
\* empty line.
LEMMA BufferHeadersGood ==
    ASSUME NEW c, NEW base \in Int, NEW t \in Seq(Cells), Good(c, base, t),
           NEW res, NEW names \in Seq(Names), res.headers = names, Len(names) \in 0..3,
           res.length \in Nat, NEW chunked \in BOOLEAN
    PROVE  Good(http_buffer_headers(res, chunked, c), base,
                (t \o (Joined(names) \o (IF chunked THEN <<>> ELSE LengthText(res.length))))
                \o Label("crlf"))
<1> DEFINE j == Joined(names)
           l == LengthText(res.length)
           e == FormatAll(c, HeaderTexts(names))
           f == IF chunked THEN e ELSE Format(e, l)
           x == IF chunked THEN <<>> ELSE l
<1>1. j \in Seq(Cells) /\ l \in Seq(Cells) /\ x \in Seq(Cells)
  <2>1. j \in Seq(Cells)
    BY JoinedType
  <2>2. l \in Seq(Cells)
    <3>1. res.length \in Int
      OBVIOUS
    <3> QED
      BY <3>1, NumberedType, Zenon
  <2> QED
    BY <2>1, <2>2
<1>2. Good(e, base, t \o j)
  BY FormatAllGood
<1>3. http_buffer_headers(res, chunked, c) = FormatPlain(f, "crlf")
  BY Zenon DEF http_buffer_headers
<1> HIDE DEF e, j, l
<1>4. t \o j \in Seq(Cells) /\ t \o (j \o x) \in Seq(Cells)
  <2> HIDE DEF x
  <2> QED
    BY <1>1
<1>5. Good(f, base, t \o (j \o x))
  <2>1. CASE chunked
    <3>1. j \o <<>> = j /\ x = <<>> /\ f = e
      BY <1>1, <2>1
    <3> QED
      BY <1>2, <3>1
  <2>2. CASE ~chunked
    <3>1. x = l /\ f = Format(e, l)
      BY <2>2
    <3>2. Good(Format(e, l), base, (t \o j) \o l)
      BY <1>1, <1>2, <1>4, FormatGood
    <3>3. (t \o j) \o l = t \o (j \o l)
      <4>1. j \in Seq(Cells) /\ l \in Seq(Cells)
        BY <1>1
      <4> QED
        BY <4>1, Regroup
    <3> QED
      BY <3>1, <3>2, <3>3
  <2> QED
    BY <2>1, <2>2
<1> HIDE DEF f, x
<1>6. "crlf" \in Names
  BY DEF Names
<1>7. Good(FormatPlain(f, "crlf"), base, (t \o (j \o x)) \o Label("crlf"))
  BY <1>4, <1>5, <1>6, FormatPlainGood
<1> QED
  BY <1>3, <1>7, Zenon DEF j, x, l

\* A buffer known to be spoilt promises nothing but its accounting.
LEMMA SpoiltGood ==
    ASSUME NEW c, NEW base, NEW t, NEW u, Good(c, base, t), NEW known \in BOOLEAN,
           known => t = u
    PROVE  Good([c EXCEPT !.spoilt = @ \/ ~known], base, u)
<1> DEFINE bad == c.spoilt \/ ~known
           d == [c EXCEPT !.spoilt = bad]
<1>1. /\ c \in [buf : Seq(Cells), capacity : Nat \ {0}, size : Nat, mem : Int, spoilt : BOOLEAN]
      /\ Len(c.buf) = c.capacity /\ c.mem = base + c.capacity
  BY DEF Good, Ctx
<1>2. bad \in BOOLEAN /\ (~bad => ~c.spoilt /\ known)
  OBVIOUS
<1> HIDE DEF bad
<1>3. /\ d \in [buf : Seq(Cells), capacity : Nat \ {0}, size : Nat, mem : Int, spoilt : BOOLEAN]
      /\ d.buf = c.buf /\ d.capacity = c.capacity /\ d.size = c.size /\ d.mem = c.mem
      /\ d.spoilt = bad
  BY <1>1, <1>2
<1> HIDE DEF d
<1>4. Ctx(d) /\ d.mem = base + d.capacity
  BY <1>1, <1>3 DEF Ctx
<1>5. Holds(d, u)
  <2>1. SUFFICES ASSUME ~bad
                 PROVE  /\ d.size = Len(u) /\ d.size <= d.capacity
                        /\ \A i \in 1..Len(u) : d.buf[i] = u[i]
    BY <1>3, Zenon DEF Holds
  <2>2. ~c.spoilt /\ t = u
    BY <1>2, <2>1
  <2> QED
    BY <2>2, <1>3 DEF Good, Holds
<1> QED
  BY <1>4, <1>5, Zenon DEF Good, d, bad

\* http_respond_headers puts the head together that the call means.
LEMMA HeadGood ==
    ASSUME NEW res, Res(res), NEW keep \in BOOLEAN, NEW chunked \in BOOLEAN,
           ~chunked => Len(res.headers) \in 0..1,
           NEW c, NEW base \in Int, Good(c, base, <<>>),
           NEW fields,
           fields = IF chunked THEN HeaderTexts(res.headers)
                    ELSE HeaderTexts(res.headers) \o <<LengthText(res.length)>>
    PROVE  /\ Good(http_respond_headers(res, keep, chunked, c), base,
                    HeadText(res.status, keep, fields))
           /\ HeadText(res.status, keep, fields) \in Seq(Cells)
<1> DEFINE k == IF keep THEN "keep-alive" ELSE "close"
           r == http_response_header(res, k)
           known == res.status \in hs_status_text
           line == LineText(res.status)
           text == IF known THEN line ELSE Junk(Len(line))
           d == Format(c, text)
           e == [d EXCEPT !.spoilt = @ \/ ~known]
           l == LengthText(res.length)
           x == IF chunked THEN <<>> ELSE l
           j == Joined(res.headers)
           L == Label(k)
           E == Label("crlf")
<1>1. /\ k \in Names /\ "crlf" \in Names /\ known \in BOOLEAN
      /\ res.headers \in Seq(Names) /\ Len(res.headers) \in 0..2
      /\ res.status \in Int /\ res.length \in Nat /\ res.length \in Int
  BY DEF Names, Res
<1>2. line \in Seq(Cells) /\ l \in Seq(Cells)
  <2>1. res.status \in Int /\ res.length \in Int
    BY <1>1
  <2> QED
    BY <2>1, NumberedType, Zenon
<1>3. L \in Seq(Cells) /\ E \in Seq(Cells)
  BY <1>1, LabelType, Zenon
<1>4. j \in Seq(Cells)
  <2>1. Len(res.headers) \in 0..3
    BY <1>1
  <2> QED
    BY <1>1, <2>1, JoinedType, Zenon
<1>5. x \in Seq(Cells)
  BY <1>2
<1> HIDE DEF line
<1>6. text \in Seq(Cells)
  BY <1>2, JunkType
<1>7. Good(d, base, text)
  <2>1. <<>> \in Seq(Cells) /\ <<>> \o text = text
    BY <1>6, Concat
  <2> HIDE DEF text
  <2>2. Good(d, base, <<>> \o text)
    BY <1>6, <2>1, FormatGood
  <2> QED
    BY <2>1, <2>2
<1>8. Good(e, base, line)
  <2>1. known => text = line
    OBVIOUS
  <2> HIDE DEF d, text, known
  <2> QED
    BY <1>1, <1>7, <2>1, SpoiltGood, Zenon
<1>9. /\ r.headers = <<k>> \o res.headers /\ r.length = res.length
      /\ <<k>> \o res.headers \in Seq(Names) /\ Len(<<k>> \o res.headers) \in 0..3
      /\ Joined(<<k>> \o res.headers) = L \o j
  <2>1. r.headers = <<k>> \o res.headers /\ r.length = res.length
    BY DEF http_response_header, Res
  <2> HIDE DEF k
  <2>2. /\ <<k>> \o res.headers \in Seq(Names)
        /\ Len(<<k>> \o res.headers) = Len(res.headers) + 1
        /\ Joined(<<k>> \o res.headers) = L \o j
    BY <1>1, JoinedInFront
  <2>3. Len(<<k>> \o res.headers) \in 0..3
    <3> DEFINE a == Len(<<k>> \o res.headers)
               b == Len(res.headers)
    <3>1. a = b + 1 /\ b \in 0..2
      BY <2>2, <1>1
    <3> HIDE DEF a, b
    <3>2. a \in 0..3
      BY <3>1
    <3> QED
      BY <3>2 DEF a
  <2> QED
    BY <2>1, <2>2, <2>3 DEF k
<1>10. http_respond_headers(res, keep, chunked, c) = http_buffer_headers(r, chunked, e)
  BY Zenon DEF http_respond_headers, line
<1> HIDE DEF r, e, k
<1>11. Good(http_buffer_headers(r, chunked, e), base, (line \o ((L \o j) \o x)) \o E)
  <2>1. r.length \in Nat
    BY <1>1, <1>9
  <2> DEFINE hs == <<k>> \o res.headers
  <2> HIDE DEF L, j, hs, E
  <2>2. hs \in Seq(Names) /\ Len(hs) \in 0..3 /\ r.headers = hs /\ Joined(hs) = L \o j
    BY <1>9 DEF hs
  <2>3. Good(http_buffer_headers(r, chunked, e), base,
             (line \o (Joined(hs) \o (IF chunked THEN <<>> ELSE LengthText(r.length)))) \o E)
    BY <1>2, <1>8, <2>1, <2>2, BufferHeadersGood, Zenon DEF E
  <2> QED
    BY <1>9, <2>2, <2>3, Zenon
<1>12. FlattenSeq(fields) = j \o x
  <2>1. CASE chunked
    <3>1. x = <<>> /\ j \o <<>> = j
      BY <2>1, <1>4, Concat
    <3>2. FlattenSeq(HeaderTexts(res.headers)) = j
      BY <1>1, <1>2, JoinedIsFlattened, Zenon
    <3> QED
      BY <2>1, <3>1, <3>2
  <2>2. CASE ~chunked
    <3>1. x = l /\ fields = HeaderTexts(res.headers) \o <<l>> /\ Len(res.headers) \in 0..1
      BY <2>2
    <3>2. FlattenSeq(HeaderTexts(res.headers) \o <<l>>) = j \o l
      BY <1>1, <1>2, <3>1, JoinedIsFlattened, Zenon
    <3> QED
      BY <3>1, <3>2, Zenon
  <2> QED
    BY <2>1, <2>2
<1>13. HeadText(res.status, keep, fields) = ((line \o L) \o (j \o x)) \o E
  BY <1>12, Zenon DEF HeadText, line, k
<1> HIDE DEF L, j, x, E
<1>14. (line \o L) \o (j \o x) = line \o ((L \o j) \o x)
  <2> DEFINE v == j \o x
  <2>1. v \in Seq(Cells)
    BY <1>4, <1>5, Concat
  <2>2. (L \o j) \o x = L \o v
    BY <1>3, <1>4, <1>5, Regroup
  <2> HIDE DEF v
  <2>3. (line \o L) \o v = line \o (L \o v)
    BY <1>2, <1>3, <2>1, Regroup
  <2> QED
    BY <2>2, <2>3 DEF v
<1>15. ((line \o L) \o (j \o x)) \o E \in Seq(Cells)
  BY <1>2, <1>3, <1>4, <1>5, Concat
<1> QED
  BY <1>10, <1>11, <1>13, <1>14, <1>15, Zenon
-----------------------------------------------------------------------------
(* The request: the operations the actions are made of.                    *)

\* hs_free_buffer gives the buffer back and touches nothing else.
LEMMA FreedBuffer ==
    ASSUME NEW r \in RequestType, Buffered(r)
    PROVE  hs_free_buffer(r) = [r EXCEPT !.buf = <<>>, !.mem = 0]
<1>1. CASE r.buf = <<>>
  <2>1. r.mem = 0 /\ hs_free_buffer(r) = r
    BY <1>1 DEF Buffered, hs_free_buffer
  <2>2. [r EXCEPT !.buf = <<>>, !.mem = 0] = r
    BY <1>1, <2>1 DEF RequestType
  <2> QED
    BY <2>1, <2>2
<1>2. CASE r.buf # <<>>
  <2>1. r.mem - r.capacity = 0
    BY <1>2 DEF Buffered, RequestType
  <2>2. hs_free_buffer(r) = [r EXCEPT !.mem = r.mem - r.capacity, !.buf = <<>>]
    BY <1>2 DEF hs_free_buffer
  <2> QED
    BY <2>1, <2>2
<1> QED
  BY <1>1, <1>2
LEMMA FreedFields ==
    ASSUME NEW r \in RequestType, Buffered(r)
    PROVE  LET f == hs_free_buffer(r) IN
           /\ f \in RequestType
           /\ f.state = r.state /\ f.auto = r.auto /\ f.keep = r.keep /\ f.chunked = r.chunked
           /\ f.end = r.end /\ f.buf = <<>> /\ f.capacity = r.capacity /\ f.length = r.length
           /\ f.total = r.total /\ f.turn = r.turn /\ f.inside = r.inside /\ f.mem = 0
           /\ f.chunks = r.chunks /\ f.notified = r.notified /\ f.requests = r.requests /\ f.fate = r.fate
           /\ f.owed = r.owed /\ f.wrong = r.wrong /\ f.spoilt = r.spoilt /\ f.broken = r.broken
           /\ f.freed = r.freed
<1> DEFINE none == <<>>
           f == hs_free_buffer(r)
<1>1. f = [r EXCEPT !.buf = none, !.mem = 0]
  BY FreedBuffer
<1>2. none \in Seq(Cells)
  OBVIOUS
<1>5. 0 \in Int
  OBVIOUS
<1> HIDE DEF none, f
<1>3. /\ f.state = r.state /\ f.auto = r.auto /\ f.keep = r.keep /\ f.chunked = r.chunked
      /\ f.end = r.end /\ f.buf = none /\ f.capacity = r.capacity /\ f.length = r.length
      /\ f.total = r.total /\ f.turn = r.turn /\ f.inside = r.inside /\ f.mem = 0
      /\ f.chunks = r.chunks /\ f.notified = r.notified /\ f.requests = r.requests /\ f.fate = r.fate
      /\ f.owed = r.owed /\ f.wrong = r.wrong /\ f.spoilt = r.spoilt /\ f.broken = r.broken
      /\ f.freed = r.freed
  BY <1>1, <1>2 DEF RequestType
<1>4. f \in RequestType
  BY <1>1, <1>2, <1>5, Zenon DEF RequestType
<1> QED
  BY <1>3, <1>4 DEF none, f

\* A write sends the next cells of what is owed.
LEMMA SocketSends ==
    ASSUME NEW r \in RequestType, Turns(r), Meant(r), r.state = "WRITE",
           NEW n \in 0..r.length - r.total
    PROVE  \E wrong \in BOOLEAN, owed \in Seq(Cells) :
             /\ hs_write_client_socket(r, n)
                   = [r EXCEPT !.total = r.total + n, !.wrong = wrong, !.owed = owed]
             /\ ~r.spoilt => ~wrong
             /\ ~r.spoilt /\ r.turn => owed = <<>>
             /\ ~r.spoilt /\ ~r.turn => owed = SubSeq(r.buf, r.total + n + 1, r.length)
<1> DEFINE sent == [i \in 1..n |-> IF r.total + i <= Len(r.buf) THEN r.buf[r.total + i]
                                   ELSE junk]
           right == IsPrefix(sent, r.owed)
           wrong == r.wrong \/ ~right
           owed == IF right THEN SubSeq(r.owed, n + 1, Len(r.owed)) ELSE <<>>
<1>1. /\ r.total \in Nat /\ r.length \in Nat /\ r.total <= r.length /\ n \in Nat
      /\ r.buf \in Seq(Cells) /\ r.owed \in Seq(Cells) /\ Len(r.buf) \in Nat
      /\ n <= r.length - r.total
  BY DEF RequestType, Turns
<1>2. wrong \in BOOLEAN
  OBVIOUS
<1>3. owed \in Seq(Cells)
  <2>1. SubSeq(r.owed, n + 1, Len(r.owed)) \in Seq(Cells) /\ <<>> \in Seq(Cells)
    BY <1>1
  <2> HIDE DEF right
  <2> QED
    BY <2>1
<1>4. hs_write_client_socket(r, n)
        = [r EXCEPT !.total = r.total + n, !.wrong = wrong, !.owed = owed]
  BY DEF hs_write_client_socket
<1>5. junk \in Cells
  BY DEF Cells, junk
<1>6. sent \in Seq(Cells) /\ Len(sent) = n
  <2>1. \A i \in 1..n : (IF r.total + i <= Len(r.buf) THEN r.buf[r.total + i] ELSE junk) \in Cells
    BY <1>1, <1>5
  <2> QED
    BY <1>1, <2>1
<1>7. ASSUME ~r.spoilt, r.turn
      PROVE  right /\ owed = <<>>
  <2>1. n = 0 /\ r.owed = <<>>
    BY <1>1, <1>7 DEF Turns, Meant
  <2>2. right
    <3>1. Len(sent) <= Len(r.owed) /\ Len(sent) = 0
      BY <1>6, <2>1
    <3>2. \A s \in Seq(Cells) : SubSeq(s, 1, 0) = <<>>
      OBVIOUS
    <3> HIDE DEF sent
    <3> QED
      BY <1>1, <1>6, <3>1, <3>2, Zenon DEF IsPrefix
  <2>3. owed = SubSeq(r.owed, n + 1, Len(r.owed))
    BY <2>2
  <2> HIDE DEF owed
  <2> QED
    BY <2>1, <2>2, <2>3
<1>8. ASSUME ~r.spoilt, ~r.turn
      PROVE  right /\ owed = SubSeq(r.buf, r.total + n + 1, r.length)
  <2>1. r.length <= Len(r.buf) /\ r.owed = SubSeq(r.buf, r.total + 1, r.length)
    BY <1>8 DEF Meant
  <2>2. /\ Len(r.owed) = r.length - r.total
        /\ \A i \in 1..r.length - r.total : r.owed[i] = r.buf[r.total + i]
    <3>1. LET c == SubSeq(r.buf, r.total + 1, r.length) IN
          /\ Len(c) = r.length - r.total
          /\ \A i \in 1..r.length - r.total : c[i] = r.buf[r.total + i]
      BY <1>1, <2>1, PartOf
    <3> QED
      BY <2>1, <3>1, Zenon
  <2>3. \A i \in 1..n : sent[i] = r.owed[i]
    <3>1. SUFFICES ASSUME NEW i \in 1..n PROVE sent[i] = r.owed[i]
      BY Zenon
    <3>2. i \in 1..r.length - r.total /\ r.total + i <= Len(r.buf)
      BY <1>1, <2>1
    <3>3. sent[i] = r.buf[r.total + i]
      BY <3>2, Zenon
    <3> QED
      BY <2>2, <3>2, <3>3, Zenon
  <2> HIDE DEF sent
  <2>4. right
    <3>1. Len(sent) <= Len(r.owed)
      BY <1>1, <1>6, <2>2
    <3>2. SubSeq(sent, 1, Len(sent)) = SubSeq(r.owed, 1, Len(sent))
      <4> DEFINE a == SubSeq(sent, 1, n)
                 b == SubSeq(r.owed, 1, n)
      <4>1. /\ a \in Seq(Cells) /\ Len(a) = n /\ \A i \in 1..n : a[i] = sent[i]
        BY <1>1, <1>6
      <4>2. /\ b \in Seq(Cells) /\ Len(b) = n /\ \A i \in 1..n : b[i] = r.owed[i]
        BY <1>1, <2>2
      <4> HIDE DEF a, b
      <4>3. a = b
        BY <1>1, <4>1, <4>2, <2>3
      <4> QED
        BY <4>3, <1>6 DEF a, b
    <3> QED
      BY <3>1, <3>2 DEF IsPrefix
  <2>5. owed = SubSeq(r.owed, n + 1, Len(r.owed))
    BY <2>4
  <2>6. SubSeq(r.owed, n + 1, Len(r.owed)) = SubSeq(r.buf, r.total + n + 1, r.length)
    <3> DEFINE a == SubSeq(r.owed, n + 1, Len(r.owed))
               b == SubSeq(r.buf, r.total + n + 1, r.length)
               m == r.length - r.total - n
    <3>1. m \in Nat
      BY <1>1
    <3>2. /\ a \in Seq(Cells) /\ Len(a) = m /\ \A i \in 1..m : a[i] = r.owed[n + i]
      <4> DEFINE L == Len(r.owed)
      <4>1. n <= L /\ L \in Nat /\ L <= Len(r.owed) /\ L - n = m
        BY <1>1, <2>2
      <4> HIDE DEF L
      <4>2. LET c == SubSeq(r.owed, n + 1, L) IN
            /\ c \in Seq(Cells) /\ Len(c) = L - n /\ \A i \in 1..L - n : c[i] = r.owed[n + i]
        BY <1>1, <4>1, PartOf
      <4> QED
        BY <4>1, <4>2, Zenon DEF L
    <3>3. /\ b \in Seq(Cells) /\ Len(b) = m /\ \A i \in 1..m : b[i] = r.buf[r.total + n + i]
      <4> DEFINE A == r.total + n
      <4>1. A \in Nat /\ A <= r.length /\ r.length - A = m
        BY <1>1
      <4> HIDE DEF A
      <4>2. LET c == SubSeq(r.buf, A + 1, r.length) IN
            /\ c \in Seq(Cells) /\ Len(c) = r.length - A
            /\ \A i \in 1..r.length - A : c[i] = r.buf[A + i]
        BY <1>1, <2>1, <4>1, PartOf
      <4> QED
        BY <4>1, <4>2, Zenon DEF A
    <3>4. \A i \in 1..m : r.owed[n + i] = r.buf[r.total + n + i]
      <4>1. SUFFICES ASSUME NEW i \in 1..m PROVE r.owed[n + i] = r.buf[r.total + n + i]
        OBVIOUS
      <4>2. n + i \in 1..r.length - r.total /\ r.total + (n + i) = r.total + n + i
        BY <1>1
      <4> QED
        BY <2>2, <4>2
    <3> HIDE DEF a, b, m
    <3>5. a = b
      BY <3>1, <3>2, <3>3, <3>4
    <3> QED
      BY <3>5 DEF a, b
  <2> QED
    BY <2>4, <2>5, <2>6
<1> HIDE DEF right, owed
<1>9. ~r.spoilt => ~wrong
  BY <1>7, <1>8 DEF Meant
<1> HIDE DEF wrong
<1> QED
  BY <1>2, <1>3, <1>4, <1>7, <1>8, <1>9
\* What a write leaves: r with some more of it sent.
SentMore(r, v) ==
    /\ v \in RequestType
    /\ v.state = r.state /\ v.auto = r.auto /\ v.keep = r.keep /\ v.chunked = r.chunked
    /\ v.end = r.end /\ v.buf = r.buf /\ v.capacity = r.capacity /\ v.length = r.length
    /\ v.turn = r.turn /\ v.inside = r.inside /\ v.mem = r.mem /\ v.chunks = r.chunks
    /\ v.notified = r.notified /\ v.fate = r.fate /\ v.spoilt = r.spoilt
    /\ v.broken = r.broken /\ v.freed = r.freed
    /\ r.total <= v.total

Sending(r) ==
    /\ r.total <= r.length
    /\ r.turn => r.total = r.length
    /\ ~r.spoilt => /\ ~r.wrong
                    /\ r.turn => r.owed = <<>>
                    /\ ~r.turn => r.owed = SubSeq(r.buf, r.total + 1, r.length)

LEMMA SocketSent ==
    ASSUME NEW r \in RequestType, Turns(r), Meant(r), r.state = "WRITE",
           NEW n \in 0..r.length - r.total
    PROVE  SentMore(r, hs_write_client_socket(r, n)) /\ Sending(hs_write_client_socket(r, n))
<1>1. PICK wrong \in BOOLEAN, owed \in Seq(Cells) :
             /\ hs_write_client_socket(r, n)
                   = [r EXCEPT !.total = r.total + n, !.wrong = wrong, !.owed = owed]
             /\ ~r.spoilt => ~wrong
             /\ ~r.spoilt /\ r.turn => owed = <<>>
             /\ ~r.spoilt /\ ~r.turn => owed = SubSeq(r.buf, r.total + n + 1, r.length)
  BY SocketSends
<1> DEFINE v == hs_write_client_socket(r, n)
           T == r.total + n
<1>2. v = [r EXCEPT !.total = T, !.wrong = wrong, !.owed = owed]
  BY <1>1
<1>3. T \in Nat /\ r.total <= T /\ T <= r.length /\ (r.turn => T = r.length)
  BY DEF RequestType, Turns
<1> HIDE DEF v, T
<1>4. /\ v \in RequestType
      /\ v.state = r.state /\ v.auto = r.auto /\ v.keep = r.keep /\ v.chunked = r.chunked
      /\ v.end = r.end /\ v.buf = r.buf /\ v.capacity = r.capacity /\ v.length = r.length
      /\ v.turn = r.turn /\ v.inside = r.inside /\ v.mem = r.mem /\ v.chunks = r.chunks
      /\ v.notified = r.notified /\ v.fate = r.fate /\ v.spoilt = r.spoilt
      /\ v.broken = r.broken /\ v.freed = r.freed
      /\ v.total = T /\ v.wrong = wrong /\ v.owed = owed
  BY <1>2, <1>3 DEF RequestType
<1>5. ~r.spoilt => /\ ~wrong
                   /\ r.turn => owed = <<>>
                   /\ ~r.turn => owed = SubSeq(r.buf, T + 1, r.length)
  BY <1>1 DEF T
<1>6. v.total <= v.length /\ (v.turn => v.total = v.length)
  BY <1>3, <1>4, Zenon
<1>7. ~v.spoilt => /\ ~v.wrong
                   /\ v.turn => v.owed = <<>>
                   /\ ~v.turn => v.owed = SubSeq(v.buf, v.total + 1, v.length)
  BY <1>4, <1>5, Zenon
<1>8. SentMore(r, v)
  BY <1>3, <1>4 DEF SentMore
<1>9. Sending(v)
  BY <1>6, <1>7, Zenon DEF Sending
<1> QED
  BY <1>8, <1>9 DEF v

\* errno was EPIPE: the session is to end.
LEMMA WriteBreaks ==
    ASSUME NEW v, RequestInv(v), v.state = "WRITE", sync => v.inside /\ ~v.turn
    PROVE  LET w == [v EXCEPT !.end = TRUE, !.broken = TRUE] IN RequestInv(w) /\ w.state # "FREE"
<1> DEFINE w == [v EXCEPT !.end = TRUE, !.broken = TRUE]
<1>1. w = [v EXCEPT !.end = TRUE, !.broken = TRUE]
  OBVIOUS
<1>2. /\ v \in RequestType /\ Buffered(v) /\ Turns(v) /\ Meant(v) /\ Finished(v) /\ Headed(v)
      /\ sync => Punctual(v)
  BY Zenon DEF RequestInv
<1>3. /\ w \in RequestType
      /\ w.state = v.state /\ w.auto = v.auto /\ w.keep = v.keep /\ w.chunked = v.chunked
      /\ w.end = TRUE /\ w.buf = v.buf /\ w.capacity = v.capacity /\ w.length = v.length
      /\ w.total = v.total /\ w.turn = v.turn /\ w.inside = v.inside /\ w.mem = v.mem
      /\ w.chunks = v.chunks /\ w.notified = v.notified /\ w.fate = v.fate /\ w.owed = v.owed
      /\ w.wrong = v.wrong /\ w.spoilt = v.spoilt /\ w.broken = TRUE /\ w.freed = v.freed
  BY <1>1, <1>2 DEF RequestType
<1> HIDE DEF w
<1>4. Buffered(w)
  BY <1>1, <1>2, <1>3 DEF Buffered
<1>5. Turns(w)
  BY <1>1, <1>2, <1>3 DEF Turns
<1>6. Meant(w)
  BY <1>1, <1>2, <1>3 DEF Meant, Turns
<1>7. Finished(w)
  BY <1>1, <1>2, <1>3 DEF Finished, Turns
<1>8. Headed(w)
  BY <1>1, <1>2, <1>3 DEF Headed, Turns
<1>9. sync => Punctual(w)
  BY <1>1, <1>2, <1>3 DEF Punctual
<1>10. RequestInv(w) /\ w.state # "FREE"
  BY <1>3, <1>4, <1>5, <1>6, <1>7, <1>8, <1>9, Zenon DEF RequestInv
<1> QED
  BY <1>10 DEF w

\* The rest is left to the next event.
LEMMA WriteGoesOn ==
    ASSUME NEW v, RequestInv(v), v.state = "WRITE", sync => v.inside /\ ~v.turn
    PROVE  LET w == [v EXCEPT !.state = "WRITE"] IN RequestInv(w) /\ w.state # "FREE"
<1> DEFINE w == [v EXCEPT !.state = "WRITE"]
<1>2. /\ v \in RequestType /\ Buffered(v) /\ Turns(v) /\ Meant(v) /\ Finished(v) /\ Headed(v)
      /\ sync => Punctual(v)
  BY Zenon DEF RequestInv
<1>1. w = [v EXCEPT !.state = "WRITE"]
  OBVIOUS
<1> HIDE DEF w
<1>3. /\ w \in RequestType
      /\ w.state = "WRITE" /\ w.auto = v.auto /\ w.keep = v.keep /\ w.chunked = v.chunked
      /\ w.end = v.end /\ w.buf = v.buf /\ w.capacity = v.capacity /\ w.length = v.length
      /\ w.total = v.total /\ w.turn = v.turn /\ w.inside = v.inside /\ w.mem = v.mem
      /\ w.chunks = v.chunks /\ w.notified = v.notified /\ w.fate = v.fate /\ w.owed = v.owed
      /\ w.wrong = v.wrong /\ w.spoilt = v.spoilt /\ w.broken = v.broken /\ w.freed = v.freed
  BY <1>1, <1>2 DEF RequestType
<1>4. Buffered(w)
  BY <1>1, <1>2, <1>3 DEF Buffered
<1>5. Turns(w)
  BY <1>1, <1>2, <1>3 DEF Turns
<1>6. Meant(w)
  BY <1>1, <1>2, <1>3 DEF Meant, Turns
<1>7. Finished(w)
  BY <1>1, <1>2, <1>3 DEF Finished, Turns
<1>8. Headed(w)
  BY <1>1, <1>2, <1>3 DEF Headed, Turns
<1>9. sync => Punctual(w)
  BY <1>1, <1>2, <1>3 DEF Punctual
<1>10. RequestInv(w) /\ w.state # "FREE"
  BY <1>3, <1>4, <1>5, <1>6, <1>7, <1>8, <1>9, Zenon DEF RequestInv
<1> QED
  BY <1>10 DEF w

\* All of a response was written and the connection is kept.
LEMMA WriteKeeps ==
    ASSUME NEW v, RequestInv(v), v.state = "WRITE", sync => v.inside /\ ~v.turn,
           v.total = v.length, ~v.chunked, v.keep
    PROVE  LET w == [hs_free_buffer(v) EXCEPT !.state = "INIT"] IN RequestInv(w) /\ w.state # "FREE"
<1> DEFINE w == [hs_free_buffer(v) EXCEPT !.state = "INIT"]
<1>2. /\ v \in RequestType /\ Buffered(v) /\ Turns(v) /\ Meant(v) /\ Finished(v) /\ Headed(v)
      /\ sync => Punctual(v)
  BY Zenon DEF RequestInv
<1> DEFINE none == <<>>
           left == SubSeq(v.buf, v.total + 1, v.length)
<1>0. v.total = v.length => left = <<>>
  BY <1>2 DEF RequestType
<1>12. none \in Seq(Cells)
  OBVIOUS
<1> HIDE DEF left, none
<1>1. w = [v EXCEPT !.buf = none, !.mem = 0, !.state = "INIT"]
  <2>1. hs_free_buffer(v) = [v EXCEPT !.buf = <<>>, !.mem = 0]
    BY <1>2, FreedBuffer, Zenon
  <2> QED
    BY <2>1 DEF none
<1> HIDE DEF w
<1>13. /\ w \in RequestType
       /\ w.state = "INIT" /\ w.auto = v.auto /\ w.keep = v.keep /\ w.chunked = v.chunked
       /\ w.end = v.end /\ w.buf = none /\ w.capacity = v.capacity /\ w.length = v.length
       /\ w.total = v.total /\ w.turn = v.turn /\ w.inside = v.inside /\ w.mem = 0
       /\ w.chunks = v.chunks /\ w.notified = v.notified /\ w.fate = v.fate /\ w.owed = v.owed
       /\ w.wrong = v.wrong /\ w.spoilt = v.spoilt /\ w.broken = v.broken /\ w.freed = v.freed
  <2>1. v \in RequestType
    BY <1>2
  <2>2. 0 \in Int
    OBVIOUS
  <2>3. w \in RequestType
    BY <1>1, <1>12, <2>1, <2>2, Zenon DEF RequestType
  <2> QED
    BY <1>1, <1>12, <2>1, <2>3 DEF RequestType
<1>3. /\ w \in RequestType
      /\ w.state = "INIT" /\ w.auto = v.auto /\ w.keep = v.keep /\ w.chunked = v.chunked
      /\ w.end = v.end /\ w.buf = <<>> /\ w.capacity = v.capacity /\ w.length = v.length
      /\ w.total = v.total /\ w.turn = v.turn /\ w.inside = v.inside /\ w.mem = 0
      /\ w.chunks = v.chunks /\ w.notified = v.notified /\ w.fate = v.fate /\ w.owed = v.owed
      /\ w.wrong = v.wrong /\ w.spoilt = v.spoilt /\ w.broken = v.broken /\ w.freed = v.freed
  BY <1>13 DEF none
<1>4. Buffered(w)
  BY <1>1, <1>2, <1>3 DEF Buffered
<1>5. Turns(w)
  BY <1>1, <1>2, <1>3 DEF Turns
<1>6. Meant(w)
  <2>1. ~v.spoilt => ~v.wrong /\ v.owed = <<>>
    BY <1>0, <1>2 DEF Meant, left
  <2> QED
    BY <2>1, <1>2, <1>3 DEF Meant, Turns
<1>7. Finished(w)
  BY <1>1, <1>2, <1>3 DEF Finished, Turns
<1>8. Headed(w)
  BY <1>1, <1>2, <1>3 DEF Headed, Turns
<1>9. sync => Punctual(w)
  BY <1>1, <1>2, <1>3 DEF Punctual
<1>10. RequestInv(w) /\ w.state # "FREE"
  BY <1>3, <1>4, <1>5, <1>6, <1>7, <1>8, <1>9, Zenon DEF RequestInv
<1> QED
  BY <1>10 DEF w

\* All of a response was written and the connection is to be closed.
LEMMA WriteEnds ==
    ASSUME NEW v, RequestInv(v), v.state = "WRITE", sync => v.inside /\ ~v.turn,
           v.total = v.length, ~v.chunked, ~v.keep
    PROVE  LET w == [v EXCEPT !.end = TRUE] IN RequestInv(w) /\ w.state # "FREE"
<1> DEFINE w == [v EXCEPT !.end = TRUE]
<1>2. /\ v \in RequestType /\ Buffered(v) /\ Turns(v) /\ Meant(v) /\ Finished(v) /\ Headed(v)
      /\ sync => Punctual(v)
  BY Zenon DEF RequestInv
<1>1. w = [v EXCEPT !.end = TRUE]
  OBVIOUS
<1> HIDE DEF w
<1>3. /\ w \in RequestType
      /\ w.state = v.state /\ w.auto = v.auto /\ w.keep = v.keep /\ w.chunked = v.chunked
      /\ w.end = TRUE /\ w.buf = v.buf /\ w.capacity = v.capacity /\ w.length = v.length
      /\ w.total = v.total /\ w.turn = v.turn /\ w.inside = v.inside /\ w.mem = v.mem
      /\ w.chunks = v.chunks /\ w.notified = v.notified /\ w.fate = v.fate /\ w.owed = v.owed
      /\ w.wrong = v.wrong /\ w.spoilt = v.spoilt /\ w.broken = v.broken /\ w.freed = v.freed
  BY <1>1, <1>2 DEF RequestType
<1>4. Buffered(w)
  BY <1>1, <1>2, <1>3 DEF Buffered
<1>5. Turns(w)
  BY <1>1, <1>2, <1>3 DEF Turns
<1>6. Meant(w)
  BY <1>1, <1>2, <1>3 DEF Meant, Turns
<1>7. Finished(w)
  BY <1>1, <1>2, <1>3 DEF Finished, Turns
<1>8. Headed(w)
  BY <1>1, <1>2, <1>3 DEF Headed, Turns
<1>9. sync => Punctual(w)
  BY <1>1, <1>2, <1>3 DEF Punctual
<1>10. RequestInv(w) /\ w.state # "FREE"
  BY <1>3, <1>4, <1>5, <1>6, <1>7, <1>8, <1>9, Zenon DEF RequestInv
<1> QED
  BY <1>10 DEF w

\* All of a chunk was written and the application is told.
LEMMA WriteNotifies ==
    ASSUME NEW v, RequestInv(v), v.state = "WRITE", sync => v.inside /\ ~v.turn,
           v.total = v.length, v.chunked
    PROVE  LET w == Notify(v) IN RequestInv(w) /\ w.state # "FREE"
<1> DEFINE w == Notify(v)
<1>2. /\ v \in RequestType /\ Buffered(v) /\ Turns(v) /\ Meant(v) /\ Finished(v) /\ Headed(v)
      /\ sync => Punctual(v)
  BY Zenon DEF RequestInv
<1> DEFINE none == <<>>
           left == SubSeq(v.buf, v.total + 1, v.length)
<1>0. v.total = v.length => left = <<>>
  BY <1>2 DEF RequestType
<1>12. none \in Seq(Cells)
  OBVIOUS
<1> HIDE DEF left, none
<1> DEFINE count == Min({v.notified + 1, MaxChunks + 1})
<1>11. count \in Nat /\ count <= v.notified + 1
  <2>1. v.notified \in Nat /\ MaxChunks \in Nat
    BY <1>2, CallAssumption DEF RequestType
  <2>2. count = IF v.notified + 1 <= MaxChunks + 1 THEN v.notified + 1 ELSE MaxChunks + 1
    <3> DEFINE a == v.notified + 1
               b == MaxChunks + 1
    <3>1. a \in Int /\ b \in Int
      BY <2>1
    <3> HIDE DEF a, b
    <3>2. Min({a, b}) = IF a <= b THEN a ELSE b
      BY <3>1, MinOfTwo
    <3> QED
      BY <3>2, Zenon DEF a, b
  <2> HIDE DEF count
  <2> QED
    BY <2>1, <2>2
<1>1. /\ w = [v EXCEPT !.buf = none, !.mem = 0, !.state = "WRITE", !.turn = TRUE, !.notified = count]
      /\ count \in Nat
  <2>1. hs_free_buffer(v) = [v EXCEPT !.buf = <<>>, !.mem = 0]
    BY <1>2, FreedBuffer, Zenon
  <2>2. v.notified = [v EXCEPT !.buf = <<>>, !.mem = 0].notified
    BY <1>2 DEF RequestType
  <2> QED
    BY <1>11, <2>1, <2>2 DEF Notify, none
<1> HIDE DEF count
<1> HIDE DEF w
<1>13. /\ w \in RequestType
       /\ w.state = "WRITE" /\ w.auto = v.auto /\ w.keep = v.keep /\ w.chunked = v.chunked
       /\ w.end = v.end /\ w.buf = none /\ w.capacity = v.capacity /\ w.length = v.length
       /\ w.total = v.total /\ w.turn = TRUE /\ w.inside = v.inside /\ w.mem = 0
       /\ w.chunks = v.chunks /\ w.notified = count /\ w.fate = v.fate /\ w.owed = v.owed
       /\ w.wrong = v.wrong /\ w.spoilt = v.spoilt /\ w.broken = v.broken /\ w.freed = v.freed
  <2>1. v \in RequestType
    BY <1>2
  <2>2. 0 \in Int
    OBVIOUS
  <2>3. w \in RequestType
    BY <1>1, <1>12, <2>1, <2>2, Zenon DEF RequestType
  <2> QED
    BY <1>1, <1>12, <2>1, <2>3, ZenonT(60) DEF RequestType
<1>3. /\ w \in RequestType
      /\ w.state = "WRITE" /\ w.auto = v.auto /\ w.keep = v.keep /\ w.chunked = v.chunked
      /\ w.end = v.end /\ w.buf = <<>> /\ w.capacity = v.capacity /\ w.length = v.length
      /\ w.total = v.total /\ w.turn = TRUE /\ w.inside = v.inside /\ w.mem = 0
      /\ w.chunks = v.chunks /\ w.notified = count /\ w.fate = v.fate /\ w.owed = v.owed
      /\ w.wrong = v.wrong /\ w.spoilt = v.spoilt /\ w.broken = v.broken /\ w.freed = v.freed
  BY <1>13 DEF none
<1>4. Buffered(w)
  BY <1>1, <1>2, <1>3 DEF Buffered
<1>5. Turns(w)
  BY <1>1, <1>2, <1>3 DEF Turns
<1>6. Meant(w)
  <2>1. ~v.spoilt => ~v.wrong /\ v.owed = <<>>
    BY <1>0, <1>2 DEF Meant, left
  <2> QED
    BY <2>1, <1>2, <1>3 DEF Meant, Turns
<1>7. Finished(w)
  BY <1>1, <1>2, <1>3 DEF Finished, Turns
<1>8. Headed(w)
  BY <1>1, <1>2, <1>3 DEF Headed, Turns
<1>9. sync => Punctual(w)
  <2>1. SUFFICES ASSUME sync PROVE Punctual(w)
    BY Zenon
  <2>2. v.inside /\ v.notified + 1 <= v.chunks /\ v.notified \in Nat /\ v.chunks \in Nat
    BY <2>1, <1>2 DEF Punctual, RequestType
  <2>3. count <= v.chunks
    BY <1>11, <2>2
  <2> QED
    BY <2>2, <2>3, <1>3 DEF Punctual
<1>10. RequestInv(w) /\ w.state # "FREE"
  BY <1>3, <1>4, <1>5, <1>6, <1>7, <1>8, <1>9, Zenon DEF RequestInv
<1> QED
  BY <1>10 DEF w

\* After write() the session is as before, but for what was sent.
LEMMA SocketKeeps ==
    ASSUME NEW r, RequestInv(r), r.state = "WRITE", sync => r.inside /\ ~r.turn,
           NEW n \in 0..r.length - r.total
    PROVE  LET v == hs_write_client_socket(r, n) IN
           RequestInv(v) /\ v.state = "WRITE" /\ (sync => v.inside /\ ~v.turn)
<1> DEFINE v == hs_write_client_socket(r, n)
<1>1. /\ r \in RequestType /\ Buffered(r) /\ Turns(r) /\ Meant(r) /\ Finished(r) /\ Headed(r)
      /\ sync => Punctual(r)
  BY Zenon DEF RequestInv
<1>2. SentMore(r, v) /\ Sending(v)
  BY <1>1, SocketSent
<1> HIDE DEF v
<1>3. v \in RequestType /\ v.state = "WRITE" /\ (sync => v.inside /\ ~v.turn)
  BY <1>2, Zenon DEF SentMore
<1>4. Buffered(v)
  BY <1>1, <1>2 DEF Buffered, SentMore
<1>5. Turns(v)
  BY <1>1, <1>2 DEF Turns, SentMore, Sending
<1>6. Meant(v)
  <2>1. /\ v.spoilt = r.spoilt /\ v.turn = r.turn /\ v.length = r.length /\ v.buf = r.buf
        /\ v.state = "WRITE"
    BY <1>2, <1>3, Zenon DEF SentMore
  <2>2. ~v.spoilt /\ ~v.turn => v.length <= Len(v.buf)
    BY <1>1, <2>1, Zenon DEF Meant
  <2> QED
    BY <1>2, <2>1, <2>2 DEF Meant, Sending
<1>7. Finished(v)
  <2>1. r.total = r.length => v.total = v.length
    BY <1>1, <1>2, <1>3 DEF SentMore, Sending, RequestType
  <2> QED
    BY <1>1, <1>2, <1>3, <2>1 DEF Finished, SentMore
<1>8. Headed(v)
  BY <1>1, <1>2 DEF Headed, SentMore
<1>9. sync => Punctual(v)
  BY <1>1, <1>2 DEF Punctual, SentMore
<1>10. RequestInv(v)
  BY <1>3, <1>4, <1>5, <1>6, <1>7, <1>8, <1>9, Zenon DEF RequestInv
<1> QED
  BY <1>3, <1>10 DEF v

\* hs_write_response keeps the invariant, however much is written.
LEMMA WriteResponse ==
    ASSUME NEW r, RequestInv(r), r.state = "WRITE", sync => r.inside /\ ~r.turn,
           NEW n \in 0..r.length - r.total, NEW epipe \in BOOLEAN
    PROVE  LET w == hs_write_response(r, n, epipe) IN RequestInv(w) /\ w.state # "FREE"
<1> DEFINE v == hs_write_client_socket(r, n)
           all == v.total = v.length
           w == hs_write_response(r, n, epipe)
<1>1. RequestInv(v) /\ v.state = "WRITE" /\ (sync => v.inside /\ ~v.turn)
  BY SocketKeeps
<1>2. w = CASE epipe -> [v EXCEPT !.end = TRUE, !.broken = TRUE]
            [] ~epipe /\ ~all -> [v EXCEPT !.state = "WRITE"]
            [] ~epipe /\ all /\ v.chunked -> Notify(v)
            [] ~epipe /\ all /\ ~v.chunked /\ v.keep ->
                   [hs_free_buffer(v) EXCEPT !.state = "INIT"]
            [] OTHER -> [v EXCEPT !.end = TRUE]
  BY Zenon DEF hs_write_response
<1> HIDE DEF v, w
<1>3. CASE epipe
  <2>1. w = [v EXCEPT !.end = TRUE, !.broken = TRUE]
    BY <1>2, <1>3
  <2> QED
    BY <1>1, <2>1, WriteBreaks DEF w
<1>4. CASE ~epipe /\ ~all
  <2>1. w = [v EXCEPT !.state = "WRITE"]
    BY <1>2, <1>4
  <2> QED
    BY <1>1, <2>1, WriteGoesOn DEF w
<1>5. CASE ~epipe /\ all /\ v.chunked
  <2>1. w = Notify(v)
    BY <1>2, <1>5
  <2> QED
    BY <1>1, <1>5, <2>1, WriteNotifies DEF w
<1>6. CASE ~epipe /\ all /\ ~v.chunked /\ v.keep
  <2>1. w = [hs_free_buffer(v) EXCEPT !.state = "INIT"]
    BY <1>2, <1>6
  <2> QED
    BY <1>1, <1>6, <2>1, WriteKeeps DEF w
<1>7. CASE ~epipe /\ all /\ ~v.chunked /\ ~v.keep
  <2>1. w = [v EXCEPT !.end = TRUE]
    BY <1>2, <1>7
  <2> QED
    BY <1>1, <1>7, <2>1, WriteEnds DEF w
<1> QED
  BY <1>3, <1>4, <1>5, <1>6, <1>7, Zenon

\* hs_end_session gives the buffer back.
LEMMA SessionEnded ==
    ASSUME NEW r \in RequestType, Buffered(r)
    PROVE  LET f == hs_end_session(r) IN
           /\ f \in RequestType
           /\ f.state = "FREE" /\ f.auto = r.auto /\ f.keep = r.keep /\ f.chunked = r.chunked
           /\ f.end = r.end /\ f.buf = <<>> /\ f.capacity = r.capacity /\ f.length = r.length
           /\ f.total = r.total /\ f.turn = r.turn /\ f.inside = r.inside /\ f.mem = 0
           /\ f.chunks = r.chunks /\ f.notified = r.notified /\ f.fate = r.fate /\ f.owed = r.owed
           /\ f.wrong = r.wrong /\ f.spoilt = r.spoilt /\ f.broken = r.broken /\ f.freed = r.freed
<1> DEFINE h == hs_free_buffer(r)
           f == hs_end_session(r)
<1>1. f = [h EXCEPT !.state = "FREE"]
  BY DEF hs_end_session
<1>2. /\ h \in RequestType
      /\ h.state = r.state /\ h.auto = r.auto /\ h.keep = r.keep /\ h.chunked = r.chunked
      /\ h.end = r.end /\ h.buf = <<>> /\ h.capacity = r.capacity /\ h.length = r.length
      /\ h.total = r.total /\ h.turn = r.turn /\ h.inside = r.inside /\ h.mem = 0
      /\ h.chunks = r.chunks /\ h.notified = r.notified /\ h.fate = r.fate /\ h.owed = r.owed
      /\ h.wrong = r.wrong /\ h.spoilt = r.spoilt /\ h.broken = r.broken /\ h.freed = r.freed
  BY FreedFields
<1> HIDE DEF f, h
<1>3. f \in RequestType
  BY <1>1, <1>2, Zenon DEF RequestType
<1>4. /\ f.state = "FREE" /\ f.auto = h.auto /\ f.keep = h.keep /\ f.chunked = h.chunked
      /\ f.end = h.end /\ f.buf = h.buf /\ f.capacity = h.capacity /\ f.length = h.length
      /\ f.total = h.total /\ f.turn = h.turn /\ f.inside = h.inside /\ f.mem = h.mem
      /\ f.chunks = h.chunks /\ f.notified = h.notified /\ f.fate = h.fate /\ f.owed = h.owed
      /\ f.wrong = h.wrong /\ f.spoilt = h.spoilt /\ f.broken = h.broken /\ f.freed = h.freed
  BY <1>1, <1>2 DEF RequestType
<1>5. /\ f.state = "FREE" /\ f.auto = r.auto /\ f.keep = r.keep /\ f.chunked = r.chunked
      /\ f.end = r.end /\ f.buf = <<>> /\ f.capacity = r.capacity /\ f.length = r.length
      /\ f.total = r.total /\ f.turn = r.turn /\ f.inside = r.inside /\ f.mem = 0
      /\ f.chunks = r.chunks /\ f.notified = r.notified /\ f.fate = r.fate /\ f.owed = r.owed
      /\ f.wrong = r.wrong /\ f.spoilt = r.spoilt /\ f.broken = r.broken /\ f.freed = r.freed
  BY <1>2, <1>4, Zenon
<1> QED
  BY <1>3, <1>5 DEF f

\* The timer may end any session.
LEMMA TimerEnds ==
    ASSUME NEW r, RequestInv(r)
    PROVE  RequestInv([hs_end_session(r) EXCEPT !.fate = "timeout"])
<1> DEFINE f == hs_end_session(r)
           w == [f EXCEPT !.fate = "timeout"]
<1>1. /\ r \in RequestType /\ Buffered(r) /\ Turns(r) /\ Meant(r) /\ Finished(r) /\ Headed(r)
      /\ sync => Punctual(r)
  BY Zenon DEF RequestInv
<1>2. /\ f \in RequestType
      /\ f.state = "FREE" /\ f.auto = r.auto /\ f.keep = r.keep /\ f.chunked = r.chunked
      /\ f.end = r.end /\ f.buf = <<>> /\ f.capacity = r.capacity /\ f.length = r.length
      /\ f.total = r.total /\ f.turn = r.turn /\ f.inside = r.inside /\ f.mem = 0
      /\ f.chunks = r.chunks /\ f.notified = r.notified /\ f.fate = r.fate /\ f.owed = r.owed
      /\ f.wrong = r.wrong /\ f.spoilt = r.spoilt /\ f.broken = r.broken /\ f.freed = r.freed
  BY <1>1, SessionEnded
<1> HIDE DEF f
<1>3. w \in RequestType
  BY <1>2, Zenon DEF RequestType
<1>4. /\ w.state = f.state /\ w.auto = f.auto /\ w.keep = f.keep /\ w.chunked = f.chunked
      /\ w.end = f.end /\ w.buf = f.buf /\ w.capacity = f.capacity /\ w.length = f.length
      /\ w.total = f.total /\ w.turn = f.turn /\ w.inside = f.inside /\ w.mem = f.mem
      /\ w.chunks = f.chunks /\ w.notified = f.notified /\ w.fate = "timeout" /\ w.owed = f.owed
      /\ w.wrong = f.wrong /\ w.spoilt = f.spoilt /\ w.broken = f.broken /\ w.freed = f.freed
  BY <1>2 DEF RequestType
<1> HIDE DEF w
<1>5. /\ w.state = "FREE" /\ w.auto = r.auto /\ w.keep = r.keep /\ w.chunked = r.chunked
      /\ w.end = r.end /\ w.buf = <<>> /\ w.capacity = r.capacity /\ w.length = r.length
      /\ w.total = r.total /\ w.turn = r.turn /\ w.inside = r.inside /\ w.mem = 0
      /\ w.chunks = r.chunks /\ w.notified = r.notified /\ w.fate = "timeout" /\ w.owed = r.owed
      /\ w.wrong = r.wrong /\ w.spoilt = r.spoilt /\ w.broken = r.broken /\ w.freed = r.freed
  BY <1>2, <1>4, Zenon
<1>6. Buffered(w)
  BY <1>5 DEF Buffered
<1>7. Turns(w)
  BY <1>1, <1>5 DEF Turns
<1>8. Meant(w)
  BY <1>1, <1>5 DEF Meant
<1>9. Finished(w) /\ Headed(w)
  BY <1>5 DEF Finished, Headed
<1>10. sync => Punctual(w)
  BY <1>1, <1>5 DEF Punctual
<1> QED
  BY <1>3, <1>6, <1>7, <1>8, <1>9, <1>10, Zenon DEF RequestInv, w, f

\* http_session returns: it ends the session if it is to end.
LEMMA SessionLeft ==
    ASSUME NEW r, RequestInv(r), r.state # "FREE", sync => ~r.turn
    PROVE  RequestInv([http_session_ends(r) EXCEPT !.inside = FALSE])
<1> DEFINE f == http_session_ends(r)
           w == [f EXCEPT !.inside = FALSE]
<1>1. /\ r \in RequestType /\ Buffered(r) /\ Turns(r) /\ Meant(r) /\ Finished(r) /\ Headed(r)
      /\ sync => Punctual(r)
  BY Zenon DEF RequestInv
<1>2. CASE r.end
  <2>1. f = hs_end_session(r)
    BY <1>2 DEF http_session_ends
  <2>2. /\ f \in RequestType
        /\ f.state = "FREE" /\ f.auto = r.auto /\ f.keep = r.keep /\ f.chunked = r.chunked
        /\ f.end = r.end /\ f.buf = <<>> /\ f.capacity = r.capacity /\ f.length = r.length
        /\ f.total = r.total /\ f.turn = r.turn /\ f.inside = r.inside /\ f.mem = 0
        /\ f.chunks = r.chunks /\ f.notified = r.notified /\ f.fate = r.fate /\ f.owed = r.owed
        /\ f.wrong = r.wrong /\ f.spoilt = r.spoilt /\ f.broken = r.broken /\ f.freed = r.freed
    BY <1>1, <2>1, SessionEnded
  <2> HIDE DEF f
  <2>3. w \in RequestType
    BY <2>2, Zenon DEF RequestType
  <2>4. /\ w.state = f.state /\ w.auto = f.auto /\ w.keep = f.keep /\ w.chunked = f.chunked
        /\ w.end = f.end /\ w.buf = f.buf /\ w.capacity = f.capacity /\ w.length = f.length
        /\ w.total = f.total /\ w.turn = f.turn /\ w.inside = FALSE /\ w.mem = f.mem
        /\ w.chunks = f.chunks /\ w.notified = f.notified /\ w.fate = f.fate /\ w.owed = f.owed
        /\ w.wrong = f.wrong /\ w.spoilt = f.spoilt /\ w.broken = f.broken /\ w.freed = f.freed
    BY <2>2 DEF RequestType
  <2> HIDE DEF w
  <2>5. /\ w.state = "FREE" /\ w.auto = r.auto /\ w.keep = r.keep /\ w.chunked = r.chunked
        /\ w.end = r.end /\ w.buf = <<>> /\ w.capacity = r.capacity /\ w.length = r.length
        /\ w.total = r.total /\ w.turn = r.turn /\ w.inside = FALSE /\ w.mem = 0
        /\ w.chunks = r.chunks /\ w.notified = r.notified /\ w.fate = r.fate /\ w.owed = r.owed
        /\ w.wrong = r.wrong /\ w.spoilt = r.spoilt /\ w.broken = r.broken /\ w.freed = r.freed
    BY <2>2, <2>4, Zenon
  <2>6. Buffered(w)
    BY <2>5 DEF Buffered
  <2>7. Turns(w)
    BY <1>1, <2>5 DEF Turns
  <2>8. Meant(w)
    BY <1>1, <2>5 DEF Meant
  <2>9. Finished(w)
    <3>1. CASE r.broken
      BY <3>1, <2>5 DEF Finished
    <3>2. CASE ~r.broken
      <4>1. ~r.turn /\ ~r.chunked /\ r.state = "WRITE" /\ r.total = r.length
        BY <1>1, <1>2, <3>2 DEF Finished
      <4>2. SubSeq(r.buf, r.total + 1, r.length) = <<>>
        BY <1>1, <4>1 DEF RequestType
      <4>3. ~r.spoilt => r.owed = <<>>
        BY <1>1, <4>1, <4>2, Zenon DEF Meant
      <4> QED
        BY <4>1, <4>3, <2>5 DEF Finished
    <3> QED
      BY <3>1, <3>2
  <2>10. Headed(w)
    BY <1>1, <2>5 DEF Headed
  <2>11. sync => Punctual(w)
    BY <1>1, <2>5 DEF Punctual
  <2> QED
    BY <2>3, <2>6, <2>7, <2>8, <2>9, <2>10, <2>11, Zenon DEF RequestInv, w, f
<1>3. CASE ~r.end
  <2>1. f = r
    BY <1>3 DEF http_session_ends
  <2> HIDE DEF f
  <2>3. w \in RequestType
    BY <1>1, <2>1, Zenon DEF RequestType
  <2>4. /\ w.state = r.state /\ w.auto = r.auto /\ w.keep = r.keep /\ w.chunked = r.chunked
        /\ w.end = r.end /\ w.buf = r.buf /\ w.capacity = r.capacity /\ w.length = r.length
        /\ w.total = r.total /\ w.turn = r.turn /\ w.inside = FALSE /\ w.mem = r.mem
        /\ w.chunks = r.chunks /\ w.notified = r.notified /\ w.fate = r.fate /\ w.owed = r.owed
        /\ w.wrong = r.wrong /\ w.spoilt = r.spoilt /\ w.broken = r.broken /\ w.freed = r.freed
    BY <1>1, <2>1 DEF RequestType
  <2> HIDE DEF w
  <2>6. Buffered(w)
    BY <1>1, <2>4 DEF Buffered
  <2>7. Turns(w)
    BY <1>1, <2>4 DEF Turns
  <2>8. Meant(w)
    BY <1>1, <2>4 DEF Meant
  <2>9. Finished(w)
    BY <1>1, <2>4 DEF Finished
  <2>10. Headed(w)
    BY <1>1, <2>4 DEF Headed
  <2>11. sync => Punctual(w)
    BY <1>1, <1>3, <2>4 DEF Punctual
  <2> QED
    BY <2>3, <2>6, <2>7, <2>8, <2>9, <2>10, <2>11, Zenon DEF RequestInv, w, f
<1> QED
  BY <1>2, <1>3

\* All that may follow a write.
LEMMA WrittenKeeps ==
    ASSUME NEW r, RequestInv(r), r.state = "WRITE", sync => r.inside /\ ~r.turn,
           NEW w \in Written(r)
    PROVE  RequestInv(w)
<1>1. PICK n \in 0..r.length - r.total, epipe \in BOOLEAN :
         w = Return(hs_write_response(r, n, epipe))
  BY DEF Written
<1> DEFINE u == hs_write_response(r, n, epipe)
<1>2. RequestInv(u) /\ u.state # "FREE"
  BY WriteResponse
<1> HIDE DEF u
<1>3. CASE u.inside /\ ~u.turn
  <2>1. Return(u) = [http_session_ends(u) EXCEPT !.inside = FALSE]
    BY <1>3 DEF Return
  <2> QED
    BY <1>1, <1>2, <1>3, <2>1, SessionLeft DEF u
<1>4. CASE ~(u.inside /\ ~u.turn)
  <2>1. Return(u) = u
    BY <1>4, Zenon DEF Return
  <2> QED
    BY <1>1, <1>2, <2>1 DEF u
<1> QED
  BY <1>3, <1>4
\* A request whose application is about to answer.
Answerable(r) ==
    /\ r \in RequestType /\ Buffered(r) /\ Meant(r)
    /\ r.turn /\ r.state # "FREE" /\ r.fate = "running"
    /\ r.end => r.broken
    /\ sync => /\ r.inside /\ r.notified <= r.chunks
               /\ r.chunked => r.notified + 1 <= r.chunks

\* http_end_response puts a response in the place of the request's buffer.
LEMMA ResponseReplaces ==
    ASSUME NEW r, Answerable(r), NEW ctx, NEW text \in Seq(Cells), Good(ctx, r.mem, text)
    PROVE  LET x == http_end_response(r, ctx, text) IN
           RequestInv(x) /\ x.state = "WRITE" /\ (sync => x.inside /\ ~x.turn)
<1> DEFINE q == [r EXCEPT !.mem = ctx.mem]
           f == hs_free_buffer(q)
           all == r.owed \o text
           bad == r.spoilt \/ ctx.spoilt
           x == http_end_response(r, ctx, text)
<1>1. /\ r \in RequestType /\ Buffered(r) /\ Meant(r)
      /\ r.turn /\ r.state # "FREE" /\ r.fate = "running"
  BY DEF Answerable
<1>2. /\ ctx.buf \in Seq(Cells) /\ ctx.capacity \in Nat \ {0} /\ ctx.size \in Nat
      /\ ctx.mem = r.mem + ctx.capacity /\ Len(ctx.buf) = ctx.capacity
      /\ ctx.spoilt \in BOOLEAN /\ Holds(ctx, text)
  BY DEF Good, Ctx
<1>3. /\ f \in RequestType /\ f.mem = ctx.capacity
      /\ f.state = r.state /\ f.auto = r.auto /\ f.keep = r.keep /\ f.chunked = r.chunked
      /\ f.end = r.end /\ f.buf = <<>> /\ f.capacity = r.capacity /\ f.length = r.length
      /\ f.total = r.total /\ f.turn = r.turn /\ f.inside = r.inside /\ f.mem = ctx.capacity
      /\ f.chunks = r.chunks /\ f.notified = r.notified /\ f.fate = r.fate /\ f.owed = r.owed
      /\ f.wrong = r.wrong /\ f.spoilt = r.spoilt /\ f.broken = r.broken /\ f.freed = r.freed
  <2>1. r.mem \in Int /\ ctx.mem \in Int /\ r.capacity \in Nat
    BY <1>1, <1>2 DEF RequestType
  <2>2. q \in RequestType
    BY <1>1, <2>1, Zenon DEF RequestType
  <2>3. /\ q.mem = ctx.mem
        /\ q.state = r.state /\ q.auto = r.auto /\ q.keep = r.keep /\ q.chunked = r.chunked
        /\ q.end = r.end /\ q.buf = r.buf /\ q.capacity = r.capacity /\ q.length = r.length
        /\ q.total = r.total /\ q.turn = r.turn /\ q.inside = r.inside /\ q.mem = ctx.mem
        /\ q.chunks = r.chunks /\ q.notified = r.notified /\ q.fate = r.fate /\ q.owed = r.owed
        /\ q.wrong = r.wrong /\ q.spoilt = r.spoilt /\ q.broken = r.broken /\ q.freed = r.freed
    BY <1>1 DEF RequestType
  <2> HIDE DEF q
  <2> DEFINE none == <<>>
             m == ctx.capacity
  <2>4. f = [q EXCEPT !.buf = none, !.mem = m]
    <3>1. CASE r.buf = <<>>
      <4>1. f = q /\ q.mem = m /\ q.buf = none
        BY <1>1, <1>2, <2>3, <3>1 DEF hs_free_buffer, Buffered
      <4>2. [q EXCEPT !.buf = q.buf, !.mem = q.mem] = q
        BY <2>2 DEF RequestType
      <4> QED
        BY <4>1, <4>2, Zenon
    <3>2. CASE r.buf # <<>>
      <4>1. f = [q EXCEPT !.mem = q.mem - q.capacity, !.buf = none]
        BY <2>3, <3>2 DEF hs_free_buffer
      <4>2. q.mem - q.capacity = m
        BY <1>1, <1>2, <2>1, <2>3, <3>2 DEF Buffered
      <4> QED
        BY <4>1, <4>2
    <3> QED
      BY <3>1, <3>2
  <2>5. none \in Seq(Cells) /\ m \in Int
    BY <1>2
  <2> HIDE DEF none, m, f
  <2>6. f \in RequestType
    BY <2>2, <2>4, <2>5, Zenon DEF RequestType
  <2>7. /\ f.state = q.state /\ f.auto = q.auto /\ f.keep = q.keep /\ f.chunked = q.chunked
        /\ f.end = q.end /\ f.buf = none /\ f.capacity = q.capacity /\ f.length = q.length
        /\ f.total = q.total /\ f.turn = q.turn /\ f.inside = q.inside /\ f.mem = m
        /\ f.chunks = q.chunks /\ f.notified = q.notified /\ f.fate = q.fate /\ f.owed = q.owed
        /\ f.wrong = q.wrong /\ f.spoilt = q.spoilt /\ f.broken = q.broken /\ f.freed = q.freed
    BY <2>2, <2>4 DEF RequestType
  <2> QED
    BY <2>3, <2>6, <2>7, Zenon DEF none, m
<1>4. all \in Seq(Cells) /\ bad \in BOOLEAN /\ (~bad => ~r.spoilt /\ ~ctx.spoilt)
  <2>1. r.owed \in Seq(Cells)
    BY <1>1 DEF RequestType
  <2> QED
    BY <2>1, Concat
<1>5. x = [f EXCEPT !.buf = ctx.buf, !.capacity = ctx.capacity, !.length = ctx.size,
                    !.total = 0, !.state = "WRITE", !.turn = FALSE,
                    !.owed = all, !.spoilt = bad]
  <2>1. x = [f EXCEPT !.buf = ctx.buf, !.capacity = ctx.capacity, !.length = ctx.size,
                      !.total = 0, !.state = "WRITE", !.turn = FALSE,
                      !.owed = f.owed \o text, !.spoilt = f.spoilt \/ ctx.spoilt]
    BY DEF http_end_response
  <2>2. f.owed = r.owed /\ f.spoilt = r.spoilt
    BY <1>3, Zenon
  <2> QED
    BY <2>1, <2>2, Zenon
<1> HIDE DEF f, all, bad, x
<1>6. x \in RequestType
  <2>1. 0 \in Nat /\ ctx.capacity \in Nat
    BY <1>2
  <2> QED
    BY <1>2, <1>3, <1>4, <1>5, <2>1, Zenon DEF RequestType
<1>7. /\ x.state = "WRITE" /\ x.auto = f.auto /\ x.keep = f.keep /\ x.chunked = f.chunked
      /\ x.end = f.end /\ x.buf = ctx.buf /\ x.capacity = ctx.capacity /\ x.length = ctx.size
      /\ x.total = 0 /\ x.turn = FALSE /\ x.inside = f.inside /\ x.mem = f.mem
      /\ x.chunks = f.chunks /\ x.notified = f.notified /\ x.fate = f.fate /\ x.owed = all
      /\ x.wrong = f.wrong /\ x.spoilt = bad /\ x.broken = f.broken /\ x.freed = f.freed
  BY <1>3, <1>5, Zenon DEF RequestType
<1>8. /\ x.state = "WRITE" /\ x.auto = r.auto /\ x.keep = r.keep /\ x.chunked = r.chunked
      /\ x.end = r.end /\ x.buf = ctx.buf /\ x.capacity = ctx.capacity /\ x.length = ctx.size
      /\ x.total = 0 /\ x.turn = FALSE /\ x.inside = r.inside /\ x.mem = ctx.capacity
      /\ x.chunks = r.chunks /\ x.notified = r.notified /\ x.fate = r.fate /\ x.owed = all
      /\ x.wrong = r.wrong /\ x.spoilt = bad /\ x.broken = r.broken /\ x.freed = r.freed
  BY <1>3, <1>7, Zenon
<1>9. Buffered(x)
  BY <1>2, <1>8 DEF Buffered
<1>10. Turns(x)
  BY <1>2, <1>8 DEF Turns
<1>11. Meant(x)
  <2>1. SUFFICES ASSUME ~bad
                 PROVE  /\ ~x.wrong
                        /\ x.length <= Len(x.buf)
                        /\ x.owed = SubSeq(x.buf, x.total + 1, x.length)
    BY <1>8 DEF Meant
  <2>2. ~r.wrong /\ r.owed = <<>> /\ ~ctx.spoilt
    BY <1>1, <1>4, <2>1 DEF Meant
  <2>3. all = text
    BY <2>2 DEF all
  <2>4. /\ ctx.size = Len(text) /\ ctx.size <= ctx.capacity
        /\ \A i \in 1..Len(text) : ctx.buf[i] = text[i]
    BY <1>2, <2>2 DEF Holds
  <2>5. SubSeq(ctx.buf, 0 + 1, ctx.size) = text
    <3> DEFINE b == SubSeq(ctx.buf, 0 + 1, ctx.size)
    <3>1. /\ b \in Seq(Cells) /\ Len(b) = ctx.size - 0
          /\ \A i \in 1..ctx.size - 0 : b[i] = ctx.buf[0 + i]
      BY <1>2, <2>4, PartOf
    <3> HIDE DEF b
    <3>2. Len(b) = Len(text) /\ \A i \in 1..Len(text) : b[i] = text[i]
      BY <1>2, <2>4, <3>1
    <3>3. b = text
      BY <3>1, <3>2
    <3> QED
      BY <3>3 DEF b
  <2> QED
    BY <1>2, <1>8, <2>2, <2>3, <2>4, <2>5, Zenon
<1>12. Finished(x)
  BY <1>8 DEF Finished, Answerable
<1>13. Headed(x)
  BY <1>1, <1>8 DEF Headed
<1>14. sync => Punctual(x)
  BY <1>8 DEF Punctual, Answerable
<1>15. x.state = "WRITE" /\ (sync => x.inside /\ ~x.turn)
  BY <1>8 DEF Answerable
<1> QED
  BY <1>6, <1>9, <1>10, <1>11, <1>12, <1>13, <1>14, <1>15, Zenon DEF RequestInv, x
-----------------------------------------------------------------------------
(* The application's calls.                                                *)

\* r is q with another keep-alive flag, chunked flag or count of chunks.
Flagged(q, r) ==
    /\ r \in RequestType
    /\ r.state = q.state /\ r.auto = q.auto /\ r.end = q.end /\ r.buf = q.buf
    /\ r.capacity = q.capacity /\ r.length = q.length /\ r.total = q.total /\ r.turn = q.turn
    /\ r.inside = q.inside /\ r.mem = q.mem /\ r.notified = q.notified /\ r.fate = q.fate
    /\ r.owed = q.owed /\ r.wrong = q.wrong /\ r.spoilt = q.spoilt /\ r.broken = q.broken
    /\ r.freed = q.freed
    /\ q.chunks <= r.chunks
    /\ r.chunked => q.chunks + 1 <= r.chunks

LEMMA FlaggedAnswerable ==
    ASSUME NEW q, RequestInv(q), q.turn, q.state # "FREE", q.fate = "running",
           NEW r, Flagged(q, r)
    PROVE  Answerable(r) /\ r.mem \in Int
<1>1. /\ q \in RequestType /\ Buffered(q) /\ Turns(q) /\ Meant(q) /\ Finished(q) /\ Headed(q)
      /\ sync => Punctual(q)
  BY Zenon DEF RequestInv
<1>2. r \in RequestType /\ r.mem \in Int
  BY DEF Flagged, RequestType
<1>3. Buffered(r)
  BY <1>1 DEF Buffered, Flagged
<1>4. Meant(r)
  BY <1>1 DEF Meant, Flagged
<1>5. r.turn /\ r.state # "FREE" /\ r.fate = "running"
  BY DEF Flagged
<1>6. r.end => r.broken
  BY <1>1 DEF Finished, Flagged
<1>7. ASSUME sync
      PROVE  r.inside /\ r.notified <= r.chunks /\ (r.chunked => r.notified + 1 <= r.chunks)
  <2>1. q.inside /\ q.notified <= q.chunks
    BY <1>1, <1>7 DEF Punctual
  <2>2. r.inside /\ r.notified = q.notified
    BY <2>1, Zenon DEF Flagged
  <2>3. q.notified \in Nat /\ q.chunks \in Nat /\ r.chunks \in Nat
    BY <1>1, <1>2 DEF RequestType
  <2>4. q.chunks <= r.chunks /\ (r.chunked => q.chunks + 1 <= r.chunks)
    BY Zenon DEF Flagged
  <2> QED
    BY <2>1, <2>2, <2>3, <2>4
<1> QED
  BY <1>2, <1>3, <1>4, <1>5, <1>6, <1>7, Zenon DEF Answerable

\* The requests that are answered: by a whole response, by the first or
\* another chunk, and by the end of the chunks.
LEMMA AnsweredRequests ==
    ASSUME NEW q \in RequestType, wants \in BOOLEAN
    PROVE  /\ ~q.chunked => Flagged(q, hs_auto_detect_keep_alive(q))
           /\ Flagged(q, [[hs_auto_detect_keep_alive(q) EXCEPT !.chunked = TRUE]
                             EXCEPT !.chunks = @ + 1])
           /\ Flagged(q, [q EXCEPT !.chunks = @ + 1])
           /\ Flagged(q, Ended(q))
<1> DEFINE a == hs_auto_detect_keep_alive(q)
<1>1. /\ a \in RequestType /\ a.chunked = q.chunked /\ a.chunks = q.chunks
      /\ a.state = q.state /\ a.auto = q.auto /\ a.end = q.end /\ a.buf = q.buf
      /\ a.capacity = q.capacity /\ a.length = q.length /\ a.total = q.total /\ a.turn = q.turn
      /\ a.inside = q.inside /\ a.mem = q.mem /\ a.notified = q.notified /\ a.fate = q.fate
      /\ a.owed = q.owed /\ a.wrong = q.wrong /\ a.spoilt = q.spoilt /\ a.broken = q.broken
      /\ a.freed = q.freed
  <2>1. CASE q.auto
    <3>1. a = [q EXCEPT !.keep = wants]
      BY <2>1 DEF hs_auto_detect_keep_alive
    <3> HIDE DEF a
    <3>2. a \in RequestType
      BY <3>1, Zenon DEF RequestType
    <3> QED
      BY <3>1, <3>2 DEF RequestType
  <2>2. CASE ~q.auto
    <3>1. a = q
      BY <2>2 DEF hs_auto_detect_keep_alive
    <3> HIDE DEF a
    <3> QED
      BY <3>1
  <2> QED
    BY <2>1, <2>2
<1>2. q.chunks \in Nat
  BY DEF RequestType
<1> HIDE DEF a
<1>3. ~q.chunked => Flagged(q, a)
  BY <1>1, <1>2 DEF Flagged
<1>4. Flagged(q, [[a EXCEPT !.chunked = TRUE] EXCEPT !.chunks = @ + 1])
  <2> DEFINE n == q.chunks + 1
             r == [a EXCEPT !.chunked = TRUE, !.chunks = n]
  <2>1. [[a EXCEPT !.chunked = TRUE] EXCEPT !.chunks = @ + 1] = r
    BY <1>1 DEF RequestType
  <2>2. n \in Nat /\ q.chunks <= n /\ q.chunks + 1 <= n
    BY <1>2
  <2> HIDE DEF n
  <2>3. r \in RequestType
    BY <1>1, <2>2, Zenon DEF RequestType
  <2>4. /\ r.chunks = n
        /\ r.state = a.state /\ r.auto = a.auto /\ r.end = a.end /\ r.buf = a.buf
        /\ r.capacity = a.capacity /\ r.length = a.length /\ r.total = a.total /\ r.turn = a.turn
        /\ r.inside = a.inside /\ r.mem = a.mem /\ r.notified = a.notified /\ r.fate = a.fate
        /\ r.owed = a.owed /\ r.wrong = a.wrong /\ r.spoilt = a.spoilt /\ r.broken = a.broken
        /\ r.freed = a.freed
    BY <1>1 DEF RequestType
  <2> HIDE DEF r
  <2>5. /\ r.state = q.state /\ r.auto = q.auto /\ r.end = q.end /\ r.buf = q.buf
        /\ r.capacity = q.capacity /\ r.length = q.length /\ r.total = q.total /\ r.turn = q.turn
        /\ r.inside = q.inside /\ r.mem = q.mem /\ r.notified = q.notified /\ r.fate = q.fate
        /\ r.owed = q.owed /\ r.wrong = q.wrong /\ r.spoilt = q.spoilt /\ r.broken = q.broken
        /\ r.freed = q.freed
    BY <1>1, <2>4, Zenon
  <2>6. Flagged(q, r)
    BY <2>2, <2>3, <2>4, <2>5 DEF Flagged
  <2> QED
    BY <2>1, <2>6
<1>5. Flagged(q, [q EXCEPT !.chunks = @ + 1])
  <2> DEFINE n == q.chunks + 1
             r == [q EXCEPT !.chunks = n]
  <2>2. n \in Nat /\ q.chunks <= n /\ q.chunks + 1 <= n
    BY <1>2
  <2> HIDE DEF n
  <2>3. r \in RequestType
    BY <2>2, Zenon DEF RequestType
  <2>4. /\ r.chunks = n
        /\ r.state = q.state /\ r.auto = q.auto /\ r.end = q.end /\ r.buf = q.buf
        /\ r.capacity = q.capacity /\ r.length = q.length /\ r.total = q.total /\ r.turn = q.turn
        /\ r.inside = q.inside /\ r.mem = q.mem /\ r.notified = q.notified /\ r.fate = q.fate
        /\ r.owed = q.owed /\ r.wrong = q.wrong /\ r.spoilt = q.spoilt /\ r.broken = q.broken
        /\ r.freed = q.freed
    BY DEF RequestType
  <2> HIDE DEF r
  <2>6. Flagged(q, r)
    BY <2>2, <2>3, <2>4 DEF Flagged
  <2> QED
    BY <2>6 DEF r, n
<1>6. Flagged(q, Ended(q))
  <2> DEFINE r == Ended(q)
  <2>1. r = [q EXCEPT !.chunked = FALSE]
    BY DEF Ended
  <2> HIDE DEF r
  <2>3. r \in RequestType
    BY <2>1, Zenon DEF RequestType
  <2>4. /\ r.chunks = q.chunks /\ r.chunked = FALSE
        /\ r.state = q.state /\ r.auto = q.auto /\ r.end = q.end /\ r.buf = q.buf
        /\ r.capacity = q.capacity /\ r.length = q.length /\ r.total = q.total /\ r.turn = q.turn
        /\ r.inside = q.inside /\ r.mem = q.mem /\ r.notified = q.notified /\ r.fate = q.fate
        /\ r.owed = q.owed /\ r.wrong = q.wrong /\ r.spoilt = q.spoilt /\ r.broken = q.broken
        /\ r.freed = q.freed
    BY <2>1 DEF RequestType
  <2>6. Flagged(q, r)
    BY <1>2, <2>3, <2>4 DEF Flagged
  <2> QED
    BY <2>6 DEF r
<1> QED
  BY <1>3, <1>4, <1>5, <1>6 DEF a

\* What the application passes is a response with a header at most.
LEMMA ResponsePassed ==
    ASSUME NEW prepared \in Prepared, NEW status \in Statuses, NEW n \in Bodies,
           NEW k \in Nat
    PROVE  LET res == Response(prepared, status, Text("body", k, n)) IN
           Res(res) /\ Len(res.headers) \in 0..1
<1> DEFINE body == Text("body", k, n)
           st == IF status > 599 \/ status < 100 THEN 500 ELSE status
           res == Response(prepared, status, body)
<1>1. status \in Int /\ n \in Nat /\ st \in Int
  BY CallAssumption
<1>2. body \in Seq(Cells) /\ Len(body) \in Nat
  <2>1. "body" \in Names \cup {"body"} /\ k \in Int /\ n \in Nat
    BY <1>1
  <2>2. body \in Seq(Cells) /\ Len(body) = n
    BY <2>1, TextType, Zenon
  <2> QED
    BY <1>1, <2>2
<1>3. \E hs \in Seq(Names) :
         /\ prepared = [status |-> 200, headers |-> hs, body |-> <<>>, length |-> 0]
         /\ Len(hs) \in 0..1
  <2>1. CASE prepared = http_response_init
    <3>1. prepared = [status |-> 200, headers |-> <<>>, body |-> <<>>, length |-> 0]
      BY <2>1 DEF http_response_init
    <3>2. <<>> \in Seq(Names) /\ Len(<<>>) \in 0..1
      OBVIOUS
    <3> QED
      BY <3>1, <3>2
  <2>2. CASE prepared \in {http_response_header(http_response_init, h) : h \in Headers}
    <3>1. PICK h \in Headers : prepared = http_response_header(http_response_init, h)
      BY <2>2
    <3>2. h \in Names
      BY DEF Names
    <3> DEFINE hs == <<h>> \o <<>>
    <3>3. hs = <<h>>
      OBVIOUS
    <3>4. prepared = [status |-> 200, headers |-> hs, body |-> <<>>, length |-> 0]
      BY <3>1 DEF http_response_header, http_response_init
    <3> HIDE DEF hs
    <3>5. hs \in Seq(Names) /\ Len(hs) \in 0..1
      BY <3>2, <3>3
    <3> QED
      BY <3>4, <3>5
  <2> QED
    BY <2>1, <2>2 DEF Prepared
<1>4. PICK hs \in Seq(Names) :
         /\ prepared = [status |-> 200, headers |-> hs, body |-> <<>>, length |-> 0]
         /\ Len(hs) \in 0..1
  BY <1>3
<1> HIDE DEF body
<1>5. res = [status |-> st, headers |-> hs, body |-> body, length |-> Len(body)]
  <2> DEFINE none == <<>>
             mid == http_response_status(prepared, status)
             n0 == Len(body)
  <2>1. prepared = [status |-> 200, headers |-> hs, body |-> none, length |-> 0]
    BY <1>4
  <2>2. mid = [prepared EXCEPT !.status = st]
    BY DEF http_response_status
  <2>3. res = [mid EXCEPT !.body = body, !.length = n0]
    BY DEF Response, http_response_body
  <2> HIDE DEF none, mid, st, res, n0
  <2>4. mid = [status |-> st, headers |-> hs, body |-> none, length |-> 0]
    BY <2>1, <2>2
  <2>5. res = [status |-> st, headers |-> hs, body |-> body, length |-> n0]
    BY <2>3, <2>4
  <2> QED
    BY <2>5 DEF n0
<1> HIDE DEF res, st
<1>6. res \in [status : Int, headers : Seq(Names), body : Seq(Cells), length : Nat]
  BY <1>1, <1>2, <1>5
<1>7. res.headers = hs
  BY <1>5
<1>8. Len(res.headers) \in 0..1 /\ Len(res.headers) \in 0..2
  BY <1>4, <1>7
<1> QED
  BY <1>6, <1>8 DEF Res, res, body

\* A whole response.
LEMMA RespondKeeps ==
    ASSUME NEW res, Res(res), Len(res.headers) \in 0..1, RInv, Answering, http_respond(res)
    PROVE  RequestInv(request')
<1> DEFINE r == hs_auto_detect_keep_alive(request)
           c == http_respond_headers(res, r.keep, FALSE, grwprintf_init(r.mem))
           fields == HeaderTexts(res.headers) \o <<LengthText(res.length)>>
           head == HeadText(res.status, r.keep, fields)
           x == http_end_response(r, grwmemcpy(c, res.body), head \o res.body)
<1>1. ~request.chunked /\ request' \in Written(x)
  BY DEF http_respond
<1>2. /\ RequestInv(request) /\ request \in RequestType /\ wants \in BOOLEAN
      /\ request.turn /\ request.state # "FREE" /\ request.fate = "running"
  BY DEF RInv, RequestInv, Answering
<1>3. Flagged(request, r)
  BY <1>1, <1>2, AnsweredRequests
<1> HIDE DEF r
<1>4. Answerable(r) /\ r.mem \in Int
  BY <1>2, <1>3, FlaggedAnswerable
<1>5. r.keep \in BOOLEAN /\ res.body \in Seq(Cells)
  BY <1>4 DEF Answerable, RequestType, Res
<1>6. Good(grwprintf_init(r.mem), r.mem, <<>>)
  BY <1>4, InitGood
<1>7. Good(c, r.mem, head) /\ head \in Seq(Cells)
  <2>1. fields = IF FALSE THEN HeaderTexts(res.headers)
                 ELSE HeaderTexts(res.headers) \o <<LengthText(res.length)>>
    OBVIOUS
  <2> HIDE DEF fields
  <2> QED
    BY <1>4, <1>5, <1>6, <2>1, HeadGood
<1> HIDE DEF c, head
<1>8. Good(grwmemcpy(c, res.body), r.mem, head \o res.body)
  BY <1>4, <1>5, <1>7, CopyGood
<1>9. head \o res.body \in Seq(Cells)
  BY <1>5, <1>7, Concat
<1>10. RequestInv(x) /\ x.state = "WRITE" /\ (sync => x.inside /\ ~x.turn)
  BY <1>4, <1>8, <1>9, ResponseReplaces
<1> QED
  BY <1>1, <1>10, WrittenKeeps

\* A chunk behind what its buffer already holds.
LEMMA ChunkKeeps ==
    ASSUME NEW q, RequestInv(q), q.turn, q.state # "FREE", q.fate = "running",
           NEW r, Flagged(q, [r EXCEPT !.chunks = @ + 1]),
           NEW base, base = [r EXCEPT !.chunks = @ + 1].mem,
           NEW res, Res(res), NEW ctx, NEW text \in Seq(Cells), Good(ctx, base, text),
           NEW w \in Chunk(r, res, ctx, text)
    PROVE  RequestInv(w)
<1> DEFINE x == [r EXCEPT !.chunks = @ + 1]
           c1 == Format(ctx, SizeText(res.length))
           c2 == grwmemcpy(c1, res.body)
           c3 == FormatPlain(c2, "crlf")
           t1 == text \o SizeText(res.length)
           t2 == t1 \o res.body
           t3 == t2 \o Label("crlf")
           y == http_end_response(x, c3, t3)
<1>1. w \in Written(y)
  BY Zenon DEF Chunk
<1>2. Answerable(x) /\ x.mem \in Int
  BY FlaggedAnswerable, Zenon
<1> HIDE DEF x
<1>3. res.length \in Int /\ res.body \in Seq(Cells)
  BY DEF Res
<1>4. SizeText(res.length) \in Seq(Cells)
  BY <1>3, NumberedType
<1>5. Good(ctx, x.mem, text)
  BY DEF x
<1>6. Good(c1, x.mem, t1) /\ t1 \in Seq(Cells)
  BY <1>2, <1>4, <1>5, FormatGood, Concat
<1> HIDE DEF c1, t1
<1>7. Good(c2, x.mem, t2) /\ t2 \in Seq(Cells)
  BY <1>2, <1>3, <1>6, CopyGood, Concat
<1> HIDE DEF c2, t2
<1>8. "crlf" \in Names
  BY DEF Names
<1>9. Good(c3, x.mem, t3) /\ t3 \in Seq(Cells)
  BY <1>2, <1>7, <1>8, FormatPlainGood, LabelType, Concat
<1> HIDE DEF c3, t3
<1>10. RequestInv(y) /\ y.state = "WRITE" /\ (sync => y.inside /\ ~y.turn)
  BY <1>2, <1>9, ResponseReplaces
<1> QED
  BY <1>1, <1>10, WrittenKeeps

\* The first chunk, with the head, and the ones behind it.
LEMMA RespondChunkKeeps ==
    ASSUME NEW res, Res(res), Len(res.headers) \in 0..1, RInv, Answering,
           http_respond_chunk(res)
    PROVE  RequestInv(request')
<1> DEFINE d == hs_auto_detect_keep_alive(request)
           r == [d EXCEPT !.chunked = TRUE]
           ctx == grwprintf_init(r.mem)
           te == http_response_header(res, "Transfer-Encoding")
           fields == HeaderTexts(te.headers)
           head == HeadText(res.status, r.keep, fields)
           c == http_respond_headers(te, r.keep, TRUE, ctx)
<1>1. /\ RequestInv(request) /\ request \in RequestType /\ wants \in BOOLEAN
      /\ request.turn /\ request.state # "FREE" /\ request.fate = "running"
  BY DEF RInv, RequestInv, Answering
<1>2. /\ Flagged(request, [r EXCEPT !.chunks = @ + 1])
      /\ Flagged(request, [request EXCEPT !.chunks = @ + 1])
  BY <1>1, AnsweredRequests
<1>3. r.mem = request.mem /\ r.keep \in BOOLEAN /\ r \in RequestType
  <2>1. d \in RequestType /\ d.mem = request.mem
    <3>1. CASE request.auto
      <4>1. d = [request EXCEPT !.keep = wants]
        BY <3>1 DEF hs_auto_detect_keep_alive
      <4> HIDE DEF d
      <4>2. d \in RequestType
        BY <1>1, <4>1, Zenon DEF RequestType
      <4>3. d.mem = request.mem
        BY <1>1, <4>1 DEF RequestType
      <4> QED
        BY <4>2, <4>3
    <3>2. CASE ~request.auto
      BY <1>1, <3>2 DEF hs_auto_detect_keep_alive
    <3> QED
      BY <3>1, <3>2
  <2> HIDE DEF d
  <2>2. r \in RequestType
    BY <2>1, Zenon DEF RequestType
  <2>3. r.mem = d.mem
    BY <2>1 DEF RequestType
  <2> HIDE DEF r
  <2>4. r.keep \in BOOLEAN
    BY <2>2 DEF RequestType
  <2> QED
    BY <2>1, <2>2, <2>3, <2>4
<1>4. request.mem \in Int /\ [r EXCEPT !.chunks = @ + 1].mem = r.mem
      /\ [request EXCEPT !.chunks = @ + 1].mem = request.mem
  <2> HIDE DEF r
  <2> QED
    BY <1>1, <1>3 DEF RequestType
<1>5. Good(ctx, request.mem, <<>>) /\ ctx = grwprintf_init(request.mem)
  BY <1>3, <1>4, InitGood
<1>6. \/ request' \in Chunk(request, res, ctx, <<>>)
      \/ request' \in Chunk(r, res, c, head)
  BY DEF http_respond_chunk
<1>7. CASE request' \in Chunk(request, res, ctx, <<>>)
  <2> DEFINE none == <<>>
  <2>1. none \in Seq(Cells)
    OBVIOUS
  <2> HIDE DEF ctx, none
  <2>2. Good(ctx, request.mem, none) /\ request' \in Chunk(request, res, ctx, none)
    BY <1>5, <1>7 DEF none
  <2>3. request.mem = [request EXCEPT !.chunks = @ + 1].mem
    BY <1>4
  <2> QED
    BY <1>1, <1>2, <2>1, <2>2, <2>3, ChunkKeeps
<1>8. CASE request' \in Chunk(r, res, c, head)
  <2>1. Res(te) /\ te.status = res.status
    <3> DEFINE hs == <<"Transfer-Encoding">> \o res.headers
    <3>1. "Transfer-Encoding" \in Names /\ res.headers \in Seq(Names)
      BY DEF Res, Names
    <3>2. hs \in Seq(Names) /\ Len(hs) = Len(res.headers) + 1
      BY <3>1, JoinedInFront
    <3>3. te = [res EXCEPT !.headers = hs]
      BY DEF http_response_header
    <3> HIDE DEF hs, te
    <3>4. te \in [status : Int, headers : Seq(Names), body : Seq(Cells), length : Nat]
      BY <3>2, <3>3 DEF Res
    <3>5. te.headers = hs /\ te.status = res.status
      BY <3>3 DEF Res
    <3>6. Len(te.headers) \in 0..2
      <4> DEFINE before == Len(res.headers)
                 behind == Len(hs)
      <4>1. before \in 0..1 /\ behind = before + 1
        BY <3>2
      <4>2. Len(te.headers) = behind
        BY <3>5, Zenon
      <4> HIDE DEF before, behind
      <4>3. behind \in 0..2
        BY <4>1
      <4> QED
        BY <4>2, <4>3, Zenon
    <3> QED
      BY <3>4, <3>5, <3>6 DEF Res
  <2>2. fields = IF TRUE THEN HeaderTexts(te.headers)
                 ELSE HeaderTexts(te.headers) \o <<LengthText(te.length)>>
    OBVIOUS
  <2>3. ~TRUE => Len(te.headers) \in 0..1
    OBVIOUS
  <2> HIDE DEF fields, te, ctx, r
  <2>4. Good(c, request.mem, head) /\ head \in Seq(Cells)
    BY <1>3, <1>4, <1>5, <2>1, <2>2, <2>3, HeadGood
  <2> HIDE DEF c, head
  <2>5. request.mem = [r EXCEPT !.chunks = @ + 1].mem
    BY <1>3, <1>4
  <2> QED
    BY <1>1, <1>2, <1>8, <2>4, <2>5, ChunkKeeps
<1> QED
  BY <1>6, <1>7, <1>8

\* The last chunk, with the trailing headers and two empty lines.
LEMMA RespondEndKeeps ==
    ASSUME NEW res, Res(res), Len(res.headers) \in 0..1, RInv, Answering,
           http_respond_chunk_end(res)
    PROVE  RequestInv(request')
<1> DEFINE r == Ended(request)
           c0 == grwprintf_init(request.mem)
           c1 == FormatPlain(c0, "last")
           c2 == http_buffer_headers(res, TRUE, c1)
           c3 == FormatPlain(c2, "crlf")
           last == Label("last")
           crlf == Label("crlf")
           js == Joined(res.headers)
           t3 == ((last \o js) \o crlf) \o crlf
           x == http_end_response(r, c3, t3)
<1>1. /\ RequestInv(request) /\ request \in RequestType /\ wants \in BOOLEAN
      /\ request.turn /\ request.state # "FREE" /\ request.fate = "running"
  BY DEF RInv, RequestInv, Answering
<1>2. Flagged(request, r)
  BY <1>1, AnsweredRequests
<1> HIDE DEF r
<1>3. Answerable(r) /\ r.mem \in Int /\ r.mem = request.mem
  BY <1>1, <1>2, FlaggedAnswerable DEF Flagged
<1>4. /\ "last" \in Names /\ "crlf" \in Names /\ res.headers \in Seq(Names)
      /\ res.length \in Nat /\ Len(res.headers) \in 0..3 /\ Len(res.headers) \in 0..2
  BY DEF Names, Res
<1>5. last \in Seq(Cells) /\ crlf \in Seq(Cells) /\ js \in Seq(Cells)
  BY <1>4, LabelType, JoinedType
<1>6. FlattenSeq(HeaderTexts(res.headers)) = js
  BY <1>4, <1>5, JoinedIsFlattened
<1>7. request' \in Written(x)
  <2>1. request' \in Written(http_end_response(r, c3,
            last \o FlattenSeq(HeaderTexts(res.headers)) \o crlf \o crlf))
    BY DEF http_respond_chunk_end, r
  <2> HIDE DEF c3, last, crlf, js
  <2> QED
    BY <1>6, <2>1
<1>8. Good(c1, r.mem, last)
  <2> DEFINE none == <<>>
  <2>1. Good(c0, r.mem, none) /\ none \in Seq(Cells)
    BY <1>3, InitGood
  <2> HIDE DEF c0, none
  <2>2. Good(c1, r.mem, none \o last)
    BY <1>3, <1>4, <2>1, FormatPlainGood
  <2>3. none \o last = last
    <3> HIDE DEF last
    <3> QED
      BY <1>5, Concat DEF none
  <2> QED
    BY <2>2, <2>3
<1> HIDE DEF c1, last
<1>9. Good(c2, r.mem, (last \o js) \o crlf)
  <2> DEFINE none == <<>>
  <2>1. Good(c2, r.mem, (last \o (js \o (IF TRUE THEN <<>> ELSE LengthText(res.length)))) \o crlf)
    BY <1>3, <1>4, <1>5, <1>8, BufferHeadersGood
  <2> HIDE DEF js, crlf, c2
  <2>2. js \o (IF TRUE THEN <<>> ELSE LengthText(res.length)) = js
    BY <1>5, Concat
  <2> QED
    BY <2>1, <2>2
<1> HIDE DEF c2, js
<1>10. (last \o js) \o crlf \in Seq(Cells)
  <2> HIDE DEF crlf
  <2> QED
    BY <1>5, Concat
<1>11. Good(c3, r.mem, t3)
  BY <1>3, <1>4, <1>9, <1>10, FormatPlainGood
<1> HIDE DEF c3, crlf
<1>12. t3 \in Seq(Cells)
  BY <1>5, <1>10, Concat
<1> HIDE DEF t3
<1>13. RequestInv(x) /\ x.state = "WRITE" /\ (sync => x.inside /\ ~x.turn)
  BY <1>3, <1>11, <1>12, ResponseReplaces
<1> QED
  BY <1>7, <1>13, WrittenKeeps

-----------------------------------------------------------------------------
(* The other actions.                                                      *)

\* The application answers, whole or with a chunk.
LEMMA AnswerKeeps ==
    ASSUME RInv, Answer
    PROVE  RequestInv(request')
<1>1. PICK prepared \in Prepared, status \in Statuses, n \in Bodies :
         LET res == Response(prepared, status, Text("body", request.chunks, n)) IN
         \/ http_respond(res)
         \/ http_respond_chunk(res)
         \/ http_respond_chunk_end(res)
  BY DEF Answer
<1> DEFINE res == Response(prepared, status, Text("body", request.chunks, n))
<1>2. request.chunks \in Nat /\ Answering
  BY DEF RInv, RequestInv, RequestType, Answer
<1>3. Res(res) /\ Len(res.headers) \in 0..1
  BY <1>2, ResponsePassed
<1>4. http_respond(res) \/ http_respond_chunk(res) \/ http_respond_chunk_end(res)
  BY <1>1
<1> HIDE DEF res
<1> QED
  BY <1>2, <1>3, <1>4, RespondKeeps, RespondChunkKeeps, RespondEndKeeps

\* The application fails where it made the request's buffer go.
LEMMA CrashKeeps ==
    ASSUME RInv, Crash
    PROVE  RequestInv(request')
<1> DEFINE r == request
           w == [r EXCEPT !.fate = "crashed"]
<1>1. /\ r \in RequestType /\ Buffered(r) /\ Turns(r) /\ Meant(r) /\ Finished(r) /\ Headed(r)
      /\ sync => Punctual(r)
  BY DEF RInv, RequestInv
<1>2. /\ r.turn /\ r.state # "FREE" /\ ~r.chunked /\ r.auto /\ r.buf = <<>>
      /\ request' = w
  BY DEF Crash, Answering, Blind
<1> HIDE DEF r
<1>3. r.freed
  BY <1>1, <1>2, Zenon DEF Headed
<1> SUFFICES RequestInv(w)
  BY <1>2
<1>4. w \in RequestType
  BY <1>1, Zenon DEF RequestType
<1>5. /\ w.state = r.state /\ w.auto = r.auto /\ w.keep = r.keep /\ w.chunked = r.chunked
      /\ w.end = r.end /\ w.buf = r.buf /\ w.capacity = r.capacity /\ w.length = r.length
      /\ w.total = r.total /\ w.turn = r.turn /\ w.inside = r.inside /\ w.mem = r.mem
      /\ w.chunks = r.chunks /\ w.notified = r.notified /\ w.fate = "crashed" /\ w.owed = r.owed
      /\ w.wrong = r.wrong /\ w.spoilt = r.spoilt /\ w.broken = r.broken /\ w.freed = r.freed
  BY <1>1 DEF RequestType
<1> HIDE DEF w
<1>6. Buffered(w)
  BY <1>1, <1>5 DEF Buffered
<1>7. Turns(w)
  BY <1>1, <1>5, Zenon DEF Turns
<1>8. Meant(w)
  BY <1>1, <1>5, Zenon DEF Meant
<1>9. Finished(w)
  BY <1>1, <1>2, <1>5, Zenon DEF Finished
<1>10. Headed(w)
  BY <1>1, <1>3, <1>5, Zenon DEF Headed
<1>11. sync => Punctual(w)
  BY <1>1, <1>5, Zenon DEF Punctual
<1> QED
  BY <1>4, <1>6, <1>7, <1>8, <1>9, <1>10, <1>11 DEF RequestInv

\* The application says whether the connection stays.
LEMMA ConnectionKeeps ==
    ASSUME NEW keep \in BOOLEAN, RInv, http_request_connection(keep)
    PROVE  RequestInv(request')
<1> DEFINE r == request
           w == [r EXCEPT !.auto = FALSE, !.keep = keep]
<1>1. /\ r \in RequestType /\ Buffered(r) /\ Turns(r) /\ Meant(r) /\ Finished(r) /\ Headed(r)
      /\ sync => Punctual(r)
  BY DEF RInv, RequestInv
<1>2. r.turn /\ r.state # "FREE" /\ request' = w
  BY DEF http_request_connection, Answering
<1> HIDE DEF r
<1> SUFFICES RequestInv(w)
  BY <1>2
<1>4. w \in RequestType
  BY <1>1, Zenon DEF RequestType
<1>5. /\ w.state = r.state /\ w.auto = FALSE /\ w.keep = keep /\ w.chunked = r.chunked
      /\ w.end = r.end /\ w.buf = r.buf /\ w.capacity = r.capacity /\ w.length = r.length
      /\ w.total = r.total /\ w.turn = r.turn /\ w.inside = r.inside /\ w.mem = r.mem
      /\ w.chunks = r.chunks /\ w.notified = r.notified /\ w.fate = r.fate /\ w.owed = r.owed
      /\ w.wrong = r.wrong /\ w.spoilt = r.spoilt /\ w.broken = r.broken /\ w.freed = r.freed
  BY <1>1 DEF RequestType
<1> HIDE DEF w
<1>6. Buffered(w)
  BY <1>1, <1>5 DEF Buffered
<1>7. Turns(w)
  BY <1>1, <1>5, Zenon DEF Turns
<1>8. Meant(w)
  BY <1>1, <1>5, Zenon DEF Meant
<1>9. Finished(w)
  BY <1>1, <1>2, <1>5, Zenon DEF Finished
<1>10. Headed(w)
  BY <1>1, <1>5, Zenon DEF Headed
<1>11. sync => Punctual(w)
  BY <1>1, <1>5, Zenon DEF Punctual
<1> QED
  BY <1>4, <1>6, <1>7, <1>8, <1>9, <1>10, <1>11 DEF RequestInv

\* The application gives the request's buffer up.
LEMMA FreeBufferKeeps ==
    ASSUME RInv, http_request_free_buffer
    PROVE  RequestInv(request')
<1> DEFINE r == request
           f == hs_free_buffer(r)
           w == [f EXCEPT !.freed = TRUE]
<1>1. /\ r \in RequestType /\ Buffered(r) /\ Turns(r) /\ Meant(r) /\ Finished(r) /\ Headed(r)
      /\ sync => Punctual(r)
  BY DEF RInv, RequestInv
<1>2. r.turn /\ r.state # "FREE" /\ request' = w
  BY DEF http_request_free_buffer, Answering
<1> HIDE DEF r
<1> SUFFICES RequestInv(w)
  BY <1>2
<1>3. /\ f \in RequestType
      /\ f.state = r.state /\ f.auto = r.auto /\ f.keep = r.keep /\ f.chunked = r.chunked
      /\ f.end = r.end /\ f.buf = <<>> /\ f.capacity = r.capacity /\ f.length = r.length
      /\ f.total = r.total /\ f.turn = r.turn /\ f.inside = r.inside /\ f.mem = 0
      /\ f.chunks = r.chunks /\ f.notified = r.notified /\ f.fate = r.fate /\ f.owed = r.owed
      /\ f.wrong = r.wrong /\ f.spoilt = r.spoilt /\ f.broken = r.broken /\ f.freed = r.freed
  BY <1>1, FreedFields
<1> HIDE DEF f
<1>4. w \in RequestType
  BY <1>3, Zenon DEF RequestType
<1>5. /\ w.state = f.state /\ w.auto = f.auto /\ w.keep = f.keep /\ w.chunked = f.chunked
      /\ w.end = f.end /\ w.buf = f.buf /\ w.capacity = f.capacity /\ w.length = f.length
      /\ w.total = f.total /\ w.turn = f.turn /\ w.inside = f.inside /\ w.mem = f.mem
      /\ w.chunks = f.chunks /\ w.notified = f.notified /\ w.fate = f.fate /\ w.owed = f.owed
      /\ w.wrong = f.wrong /\ w.spoilt = f.spoilt /\ w.broken = f.broken /\ w.freed = TRUE
  BY <1>3 DEF RequestType
<1> HIDE DEF w
<1>6. Buffered(w)
  <2> DEFINE none == <<>>
  <2>1. Len(none) = 0
    OBVIOUS
  <2> HIDE DEF none
  <2>2. w.buf = none /\ w.mem = 0
    BY <1>3, <1>5, Zenon DEF none
  <2>3. w.mem = Len(w.buf)
    BY <2>1, <2>2, Zenon
  <2> QED
    BY <2>2, <2>3, Zenon DEF Buffered, none
<1>7. Turns(w)
  BY <1>1, <1>3, <1>5, Zenon DEF Turns
<1>8. Meant(w)
  <2>1. w.turn
    BY <1>2, <1>3, <1>5, Zenon
  <2> QED
    BY <1>1, <1>3, <1>5, <2>1, Zenon DEF Meant
<1>9. Finished(w)
  BY <1>1, <1>2, <1>3, <1>5, Zenon DEF Finished
<1>10. Headed(w)
  BY <1>1, <1>3, <1>5, Zenon DEF Headed
<1>11. sync => Punctual(w)
  BY <1>1, <1>3, <1>5, Zenon DEF Punctual
<1> QED
  BY <1>4, <1>6, <1>7, <1>8, <1>9, <1>10, <1>11 DEF RequestInv

\* A write event: http_session is entered and goes on with the response.
LEMMA WriteEventKeeps ==
    ASSUME RInv, WriteEvent
    PROVE  RequestInv(request')
<1> DEFINE r == request
           w == [r EXCEPT !.inside = TRUE]
<1>1. /\ r \in RequestType /\ Buffered(r) /\ Turns(r) /\ Meant(r) /\ Finished(r) /\ Headed(r)
      /\ sync => Punctual(r)
  BY DEF RInv, RequestInv
<1>2. ~r.inside /\ r.state = "WRITE" /\ request' \in Written(w)
  BY DEF WriteEvent, Looping
<1> HIDE DEF r
<1>3. sync => ~r.turn
  BY <1>1, <1>2, Zenon DEF Punctual
<1>4. w \in RequestType
  BY <1>1, Zenon DEF RequestType
<1>5. /\ w.state = r.state /\ w.auto = r.auto /\ w.keep = r.keep /\ w.chunked = r.chunked
      /\ w.end = r.end /\ w.buf = r.buf /\ w.capacity = r.capacity /\ w.length = r.length
      /\ w.total = r.total /\ w.turn = r.turn /\ w.inside = TRUE /\ w.mem = r.mem
      /\ w.chunks = r.chunks /\ w.notified = r.notified /\ w.fate = r.fate /\ w.owed = r.owed
      /\ w.wrong = r.wrong /\ w.spoilt = r.spoilt /\ w.broken = r.broken /\ w.freed = r.freed
  BY <1>1 DEF RequestType
<1> HIDE DEF w
<1>6. Buffered(w)
  BY <1>1, <1>5 DEF Buffered
<1>7. Turns(w)
  BY <1>1, <1>5, Zenon DEF Turns
<1>8. Meant(w)
  BY <1>1, <1>5, Zenon DEF Meant
<1>9. Finished(w)
  BY <1>1, <1>5, Zenon DEF Finished
<1>10. Headed(w)
  BY <1>1, <1>5, Zenon DEF Headed
<1>11. sync => Punctual(w)
  BY <1>1, <1>5, Zenon DEF Punctual
<1>12. RequestInv(w)
  BY <1>4, <1>6, <1>7, <1>8, <1>9, <1>10, <1>11 DEF RequestInv
<1>13. w.state = "WRITE" /\ (sync => w.inside /\ ~w.turn)
  BY <1>2, <1>3, <1>5, Zenon
<1> QED
  BY <1>2, <1>12, <1>13, WrittenKeeps

\* The next request of the connection, as its handler gets it.
LEMMA NextRequestKeeps ==
    ASSUME RInv, NextRequest
    PROVE  RequestInv(request')
<1> DEFINE r == request
           junks == Junk(RequestBufSize)
           w == Called(r)
<1>1. /\ r \in RequestType /\ Buffered(r) /\ Turns(r) /\ Meant(r) /\ Finished(r) /\ Headed(r)
      /\ sync => Punctual(r)
  BY DEF RInv, RequestInv
<1>2. r.state = "INIT" /\ r.fate = "running" /\ request' = w
  BY DEF NextRequest, Looping
<1>3. RequestBufSize \in Nat \ {0} /\ RequestBufSize \in Nat
  BY SizeAssumption
<1>4. junks \in Seq(Cells) /\ Len(junks) = RequestBufSize
  BY <1>3, JunkType
<1> HIDE DEF r
<1> SUFFICES RequestInv(w)
  BY <1>2
<1>5. r.mem = 0 /\ r.buf = <<>>
  BY <1>1, <1>2 DEF Buffered
<1> DEFINE more == r.requests + 1
           mem == r.mem + RequestBufSize
<1>6. w = [r EXCEPT !.state = "NOP", !.auto = TRUE, !.keep = FALSE, !.chunked = FALSE,
              !.end = FALSE, !.buf = junks, !.capacity = RequestBufSize,
              !.length = 0, !.total = 0, !.turn = TRUE, !.inside = TRUE,
              !.freed = FALSE, !.mem = mem, !.requests = more]
  BY DEF Called
<1>7. more \in Nat /\ mem \in Int /\ mem = RequestBufSize /\ 0 \in Nat
  BY <1>1, <1>3, <1>5 DEF RequestType
<1> HIDE DEF w, junks, more, mem
<1>8. w \in RequestType
  <2> DEFINE a == [r EXCEPT !.state = "NOP", !.auto = TRUE, !.keep = FALSE, !.chunked = FALSE]
             b == [a EXCEPT !.end = FALSE, !.buf = junks, !.capacity = RequestBufSize]
             c == [b EXCEPT !.length = 0, !.total = 0, !.turn = TRUE, !.inside = TRUE]
  <2>1. w = [c EXCEPT !.freed = FALSE, !.mem = mem, !.requests = more]
    BY <1>6
  <2>2. a \in RequestType
    BY <1>1, Zenon DEF RequestType
  <2> HIDE DEF a
  <2>3. b \in RequestType
    BY <1>3, <1>4, <2>2, Zenon DEF RequestType
  <2> HIDE DEF b
  <2>4. c \in RequestType
    BY <1>7, <2>3, Zenon DEF RequestType
  <2> HIDE DEF c
  <2> QED
    BY <1>7, <2>1, <2>4, Zenon DEF RequestType
<1>9. /\ w.state = "NOP" /\ w.auto = TRUE /\ w.keep = FALSE /\ w.chunked = FALSE
      /\ w.end = FALSE /\ w.buf = junks /\ w.capacity = RequestBufSize /\ w.length = 0
      /\ w.total = 0 /\ w.turn = TRUE /\ w.inside = TRUE /\ w.mem = mem
      /\ w.chunks = r.chunks /\ w.notified = r.notified /\ w.fate = r.fate /\ w.owed = r.owed
      /\ w.wrong = r.wrong /\ w.spoilt = r.spoilt /\ w.broken = r.broken /\ w.freed = FALSE
  BY <1>1, <1>6 DEF RequestType
<1>10. Buffered(w)
  BY <1>4, <1>7, <1>9 DEF Buffered
<1>11. Turns(w)
  <2>1. w.total = 0 /\ w.length = 0 /\ w.chunked = FALSE /\ w.state = "NOP" /\ w.turn
    BY <1>9
  <2> QED
    BY <2>1 DEF Turns
<1>12. Meant(w)
  BY <1>1, <1>2, <1>9, Zenon DEF Meant
<1>13. Finished(w)
  BY <1>9, Zenon DEF Finished
<1>14. Headed(w)
  <2>1. w.buf # <<>>
    BY <1>3, <1>4, <1>9
  <2> QED
    BY <1>2, <1>9, <2>1, Zenon DEF Headed
<1>15. sync => Punctual(w)
  BY <1>1, <1>9, Zenon DEF Punctual
<1> QED
  BY <1>8, <1>10, <1>11, <1>12, <1>13, <1>14, <1>15 DEF RequestInv

-----------------------------------------------------------------------------
(* The theorems.                                                           *)

\* A connection as it is accepted.
LEMMA RInvInit == Init => RInv
<1> SUFFICES ASSUME Init PROVE RInv
  OBVIOUS
<1> DEFINE none == <<>>
           r == request
<1>1. none \in Seq(Cells) /\ Len(none) = 0 /\ 0 \in Nat /\ 0 \in Int
  OBVIOUS
<1>2. r = [state |-> "INIT", auto |-> FALSE, keep |-> FALSE, chunked |-> FALSE, end |-> FALSE,
           buf |-> none, capacity |-> 0, length |-> 0, total |-> 0, turn |-> FALSE,
           inside |-> FALSE, mem |-> 0, chunks |-> 0, notified |-> 0, requests |-> 0,
           fate |-> "running", owed |-> none, wrong |-> FALSE, spoilt |-> FALSE,
           broken |-> FALSE, freed |-> FALSE]
  BY DEF Init, Accepted
<1> HIDE DEF none, r
<1>3. r \in RequestType
  BY <1>1, <1>2, Zenon DEF RequestType
<1>4. /\ r.state = "INIT" /\ r.buf = none /\ r.mem = 0 /\ r.total = 0 /\ r.length = 0
      /\ r.turn = FALSE /\ r.wrong = FALSE /\ r.owed = none /\ r.end = FALSE
      /\ r.fate = "running" /\ r.notified = 0 /\ r.chunks = 0 /\ r.chunked = FALSE
  BY <1>2
<1>5. Buffered(r)
  BY <1>1, <1>4, Zenon DEF Buffered, none
<1>6. Turns(r)
  BY <1>4 DEF Turns
<1>7. Meant(r) /\ Finished(r) /\ Headed(r)
  BY <1>4, Zenon DEF Meant, Finished, Headed, none
<1>8. Punctual(r)
  BY <1>4 DEF Punctual
<1> QED
  BY <1>3, <1>5, <1>6, <1>7, <1>8 DEF RInv, RequestInv, Init, r

\* The invariant of the request after a step is the one of the next state.
LEMMA Carried ==
    ASSUME RequestInv(request'), sync \in BOOLEAN, again \in BOOLEAN, wants' \in BOOLEAN,
           UNCHANGED <<sync, again>>
    PROVE  RInv'
<1>1. RequestInv(request)'
  BY DEF RequestInv, RequestType, Buffered, Turns, Meant, Finished, Headed, Punctual
<1> QED
  BY <1>1 DEF RInv

\* Every step keeps the invariant.
LEMMA RInvStep == RInv /\ [Next]_vars => RInv'
<1> SUFFICES ASSUME RInv, [Next]_vars PROVE RInv'
  OBVIOUS
<1>0. RequestInv(request) /\ wants \in BOOLEAN /\ sync \in BOOLEAN /\ again \in BOOLEAN
  BY DEF RInv
<1>1. CASE Answer
  <2>1. UNCHANGED <<wants, sync, again>>
    BY <1>1 DEF Answer
  <2> QED
    BY <1>0, <1>1, <2>1, AnswerKeeps, Carried
<1>2. CASE Crash
  <2>1. UNCHANGED <<wants, sync, again>>
    BY <1>2 DEF Crash
  <2> QED
    BY <1>0, <1>2, <2>1, CrashKeeps, Carried
<1>3. CASE http_request_free_buffer
  <2>1. UNCHANGED <<wants, sync, again>>
    BY <1>3 DEF http_request_free_buffer
  <2> QED
    BY <1>0, <1>3, <2>1, FreeBufferKeeps, Carried
<1>4. CASE Defer
  <2>1. UNCHANGED <<wants, sync, again>> /\ ~sync /\ request.state # "FREE"
        /\ request' = [http_session_ends(request) EXCEPT !.inside = FALSE]
    BY <1>4 DEF Defer, Answering
  <2>2. RequestInv(request')
    BY <1>0, <2>1, SessionLeft
  <2> QED
    BY <1>0, <2>1, <2>2, Carried
<1>5. ASSUME NEW keep \in BOOLEAN, http_request_connection(keep)
      PROVE  RInv'
  <2>1. UNCHANGED <<wants, sync, again>>
    BY <1>5 DEF http_request_connection
  <2> QED
    BY <1>0, <1>5, <2>1, ConnectionKeeps, Carried
<1>6. CASE WriteEvent
  <2>1. UNCHANGED <<wants, sync, again>>
    BY <1>6 DEF WriteEvent
  <2> QED
    BY <1>0, <1>6, <2>1, WriteEventKeeps, Carried
<1>7. CASE NextRequest
  <2>1. UNCHANGED <<sync, again>> /\ wants' \in BOOLEAN
    BY <1>7 DEF NextRequest
  <2> QED
    BY <1>0, <1>7, <2>1, NextRequestKeeps, Carried
<1>8. CASE hs_request_timer_cb
  <2>1. UNCHANGED <<wants, sync, again>>
        /\ request' = [hs_end_session(request) EXCEPT !.fate = "timeout"]
    BY <1>8 DEF hs_request_timer_cb
  <2>2. RequestInv(request')
    BY <1>0, <2>1, TimerEnds
  <2> QED
    BY <1>0, <2>1, <2>2, Carried
<1>9. CASE UNCHANGED vars
  <2>1. UNCHANGED <<request, wants, sync, again>>
    BY <1>9 DEF vars
  <2> QED
    BY <1>0, <2>1, Carried
<1> QED
  BY <1>1, <1>2, <1>3, <1>4, <1>5, <1>6, <1>7, <1>8, <1>9 DEF Next

\* The strengthening all the properties below follow from: what a session of
\* http.h holds, owes to its client and waits for, through every way an
\* application may answer and every cut of the writes.
THEOREM ResponseInvariant == Spec => []RInv
<1>1. Init => RInv
  BY RInvInit
<1>2. RInv /\ [Next]_vars => RInv'
  BY RInvStep
<1> QED
  BY <1>1, <1>2, PTL DEF Spec

\* As long as every text fitted into the buffer it was printed to, the client
\* is sent what the application's calls mean, however write() cuts it: http_respond,
\* http_respond_chunk and http_respond_chunk_end with hs_write_response.
THEOREM SentAsMeant == Spec => []WireIsMeant
<1>1. RInv => WireIsMeant
  BY DEF RInv, RequestInv, Meant, WireIsMeant
<1> QED
  BY <1>1, ResponseInvariant, PTL

\* memused is the buffer the session holds: grwprintf, grwmemcpy,
\* http_end_response and hs_free_buffer account for every byte.
THEOREM MemoryIsBuffer == Spec => []MemAccounted
<1>1. RInv => MemAccounted
  BY DEF RInv, RequestInv, Buffered, MemAccounted
<1> QED
  BY <1>1, ResponseInvariant, PTL

\* An application that answers within its callback is never told of more
\* chunks than it passed: hs_write_response calls notify_done once for each.
THEOREM ToldOnce == Spec => []NotifiedOnce
<1>1. RInv => NotifiedOnce
  BY DEF RInv, RequestInv, Punctual, NotifiedOnce
<1> QED
  BY <1>1, ResponseInvariant, PTL

\* http_session ends a session only behind a whole response, unless the timer
\* or EPIPE ended it.
THEOREM AnsweredBeforeEnd == Spec => []EndsAnswered
<1>1. RInv => EndsAnswered
  BY DEF RInv, RequestInv, Finished, EndsAnswered
<1> QED
  BY <1>1, ResponseInvariant, PTL

\* hs_auto_detect_keep_alive reads through a cleared pointer in one way only:
\* the application called http_request_free_buffer before http_respond.
LEMMA OnlyFreedCrashes ==
    Spec => [](request.fate = "crashed" => request.freed)
<1>1. RInv => (request.fate = "crashed" => request.freed)
  BY DEF RInv, RequestInv, Headed
<1> QED
  BY <1>1, ResponseInvariant, PTL

\* A session marked with HTTP_END_SESSION is back in the event loop only if
\* the application answers outside of its callback.
THEOREM LingersLate == Spec => []LingeringIsLate
<1>1. RInv => LingeringIsLate
  BY DEF RInv, RequestInv, Punctual, Looping, LingeringIsLate
<1> QED
  BY <1>1, ResponseInvariant, PTL
=============================================================================
