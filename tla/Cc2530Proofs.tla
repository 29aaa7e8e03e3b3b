---------------------------- MODULE Cc2530Proofs ----------------------------
(***************************************************************************)
(* What the driver's readers keep for every length of a line, every size   *)
(* of the first buffer and every number of starts.                         *)
(***************************************************************************)
EXTENDS Cc2530, SequenceTheorems, TLAPS

Readers == [pc : {"none", "loop", "avail", "get", "after", "ended"},
            status : {"NONE", "FIN_1", "FIN_2"}, buf : Seq(Int \X Int),
            capacity : Nat, torn : BOOLEAN, spoilt : BOOLEAN]

Types ==
    /\ fd \in BOOLEAN /\ stopped \in BOOLEAN /\ inits \in 0..MaxInits
    /\ reader \in [Threads -> Readers]
    /\ lines \in Seq(LineLens) /\ lines # <<>>
    /\ place \in 0..LastLen
    /\ in \in Seq(Int \X Int)

FrameInBuffer == \A i \in Threads : Len(reader[i].buf) < reader[i].capacity

\* The characters sent so far, and the one sent next.
SentChar(ch) == ch[1] \in DOMAIN lines /\ ch[2] \in 1..lines[ch[1]] + 2
NextSent == IF place < LastLen THEN <<Len(lines), place + 1>>
            ELSE <<Len(lines) + 1, 1>>

\* The character that follows ch on the line.
Succ(ch) == IF FIN_2(ch) THEN <<ch[1] + 1, 1>> ELSE <<ch[1], ch[2] + 1>>

\* What is queued was sent in one piece, and ends where the coordinator is.
\* A closed device has nothing queued.
Contiguous ==
    /\ ~fd => in = <<>>
    /\ \A j \in DOMAIN in :
          /\ SentChar(in[j])
          /\ Succ(in[j]) = IF j < Len(in) THEN in[j + 1] ELSE NextSent

\* The character a reader gets next.
Upcoming == IF in = <<>> THEN NextSent ELSE Head(in)

\* A reader in state r that lost nothing has read its line up to character c.
InLine(r, c) ==
    \/ r.status = "NONE" /\ r.buf = Line(c[1], c[2] - 1)
       /\ (c[2] # 1 => c[2] <= lines[c[1]] + 1)
    \/ r.status = "FIN_1" /\ FIN_2(c) /\ c[2] # 1 /\ r.buf = Line(c[1], lines[c[1]])
    \/ r.status = "FIN_2" /\ c[2] = 1

Reading ==
    \A i \in Live : ~reader[i].torn => fd /\ InLine(reader[i], Upcoming)

\* A frame is complete only until it is logged; a reader not started yet is
\* as it was.
Phases ==
    \A i \in Threads :
        /\ reader[i].status = "FIN_2" => reader[i].pc = "after"
        /\ i > inits => /\ reader[i].pc = "none" /\ reader[i].status = "NONE"
                        /\ reader[i].buf = <<>>

IInv ==
    Types /\ FrameInBuffer /\ Contiguous /\ Reading /\ Phases /\ FramesAreLines

-----------------------------------------------------------------------------
(* The operators.                                                          *)

\* What the type of lines says of the line the coordinator is at.
LEMMA LineFacts ==
    ASSUME Types
    PROVE  /\ Len(lines) \in Nat \ {0} /\ DOMAIN lines = 1..Len(lines)
           /\ \A k \in DOMAIN lines : lines[k] \in Nat \ {0}
           /\ LastLen = lines[Len(lines)] + 2 /\ LastLen \in Nat /\ LastLen > 2
           /\ place \in Nat /\ place <= LastLen
<1>1. /\ Len(lines) \in Nat /\ DOMAIN lines = 1..Len(lines)
      /\ \A k \in DOMAIN lines : lines[k] \in LineLens
  BY DEF Types
<1>2. Len(lines) # 0
  BY EmptySeq DEF Types
<1>3. \A k \in DOMAIN lines : lines[k] \in Nat \ {0}
  BY <1>1, LenAssumption
<1>4. LastLen = lines[Len(lines)] + 2 /\ LastLen \in Nat /\ LastLen > 2
  BY <1>1, <1>2, <1>3 DEF LastLen
<1>5. place \in Nat /\ place <= LastLen
  BY <1>4 DEF Types
<1> QED
  BY <1>1, <1>2, <1>3, <1>4, <1>5

\* A line read so far, and one character more of it.
LEMMA LineGrows ==
    ASSUME NEW k \in Int, NEW n \in Nat
    PROVE  /\ Line(k, n) \in Seq(Int \X Int) /\ Len(Line(k, n)) = n
           /\ Append(Line(k, n), <<k, n + 1>>) = Line(k, n + 1)
<1>1. \A m \in Nat : Line(k, m) \in Seq(Int \X Int) /\ Len(Line(k, m)) = m
                     /\ \A i \in 1..m : Line(k, m)[i] = <<k, i>>
  <2> SUFFICES ASSUME NEW m \in Nat
               PROVE  /\ Line(k, m) \in Seq(Int \X Int) /\ Len(Line(k, m)) = m
                      /\ \A i \in 1..m : Line(k, m)[i] = <<k, i>>
    OBVIOUS
  <2>1. Line(k, m) \in [1..m -> Int \X Int]
    BY DEF Line
  <2>2. Line(k, m) \in Seq(Int \X Int)
    BY <2>1, SeqDef, Zenon
  <2>3. Len(Line(k, m)) = m
    BY <2>1, <2>2, LenProperties
  <2> QED
    BY <2>2, <2>3 DEF Line
<1> DEFINE b == Line(k, n)  c == <<k, n + 1>>  a == Append(b, c)
<1>2. /\ a \in Seq(Int \X Int) /\ Len(a) = n + 1 /\ a[n + 1] = <<k, n + 1>>
      /\ \A i \in 1..n : a[i] = Line(k, n)[i]
  <2>1. b \in Seq(Int \X Int) /\ Len(b) = n /\ c \in Int \X Int
    BY <1>1
  <2> HIDE DEF b, c
  <2>2. a \in Seq(Int \X Int) /\ Len(a) = n + 1 /\ a[n + 1] = c
        /\ \A i \in 1..n : a[i] = b[i]
    BY <2>1, AppendProperties
  <2> QED
    BY <2>2 DEF b, c
<1> HIDE DEF a
<1>3. Line(k, n + 1) \in Seq(Int \X Int) /\ Len(Line(k, n + 1)) = n + 1
  <2>1. n + 1 \in Nat
    OBVIOUS
  <2> QED
    BY <1>1, <2>1, Zenon
<1>4. ASSUME NEW i \in 1..n + 1 PROVE a[i] = Line(k, n + 1)[i]
  <2>1. Line(k, n + 1)[i] = <<k, i>>
    BY DEF Line
  <2>2. i \in 1..n => Line(k, n)[i] = <<k, i>>
    BY DEF Line
  <2>3. CASE i = n + 1
    BY <1>2, <2>1, <2>3
  <2>4. CASE i \in 1..n
    BY <1>2, <2>1, <2>2, <2>4
  <2> QED
    BY <2>3, <2>4
<1>5. a = Line(k, n + 1)
  BY <1>2, <1>3, <1>4, SeqEqual
<1> QED
  BY <1>1, <1>5 DEF a

\* A character is taken within the types, and one that is stored leaves room:
\* the buffer is doubled before it is full.
LEMMA TakenType ==
    ASSUME Types, NEW r \in Readers, NEW ch \in Int \X Int,
           Len(r.buf) < r.capacity
    PROVE  /\ Taken(r, ch) \in Readers
           /\ Len(Taken(r, ch).buf) < Taken(r, ch).capacity
           /\ Taken(r, ch).pc \in {"avail", "after"}
           /\ Taken(r, ch).status = "FIN_2" => Taken(r, ch).pc = "after"
<1>1. r.buf \in Seq(Int \X Int) /\ r.capacity \in Nat /\ Len(r.buf) \in Nat
  BY DEF Readers
<1>2. /\ Append(r.buf, ch) \in Seq(Int \X Int)
      /\ Len(Append(r.buf, ch)) = Len(r.buf) + 1
  BY <1>1
<1>3. << >> \in Seq(Int \X Int) /\ Len(<< >>) = 0
  BY EmptySeq
<1>4. CASE r.status = "NONE" /\ FIN_1(ch)
  BY <1>1, <1>4 DEF Taken, Readers
<1>5. CASE r.status = "NONE" /\ ~FIN_1(ch)
  <2> DEFINE cap == IF Len(r.buf) + 1 >= r.capacity THEN 2 * r.capacity ELSE r.capacity
  <2>1. cap \in Nat /\ Len(r.buf) + 1 < cap
    BY <1>1
  <2>2. Taken(r, ch) = [r EXCEPT !.buf = Append(r.buf, ch), !.pc = "avail",
                                 !.capacity = cap]
    BY <1>5 DEF Taken, Stored
  <2> HIDE DEF cap
  <2>3. Taken(r, ch) \in Readers
    BY <1>2, <2>1, <2>2 DEF Readers
  <2>4. /\ Taken(r, ch).buf = Append(r.buf, ch) /\ Taken(r, ch).capacity = cap
        /\ Taken(r, ch).pc = "avail" /\ Taken(r, ch).status = r.status
    BY <2>2 DEF Readers
  <2> QED
    BY <1>2, <1>5, <2>1, <2>3, <2>4
<1>6. CASE r.status = "FIN_1" /\ FIN_2(ch)
  <2>1. Taken(r, ch) = [r EXCEPT !.status = "FIN_2", !.pc = "after",
                                 !.spoilt = r.torn, !.torn = FALSE]
    BY <1>6 DEF Taken, Complete
  <2>2. Taken(r, ch) \in Readers
    BY <2>1 DEF Readers
  <2>3. /\ Taken(r, ch).buf = r.buf /\ Taken(r, ch).capacity = r.capacity
        /\ Taken(r, ch).pc = "after"
    BY <2>1 DEF Readers
  <2> QED
    BY <2>2, <2>3
<1>7. CASE ~(r.status = "NONE") /\ ~(r.status = "FIN_1" /\ FIN_2(ch))
  <2>1. Taken(r, ch) = Dropped(r)
    BY <1>7 DEF Taken
  <2>2. Dropped(r) \in Readers
    BY <1>3 DEF Dropped, Readers
  <2>3. /\ Dropped(r).buf = << >> /\ Dropped(r).capacity = r.capacity
        /\ Dropped(r).pc = "after"
    BY DEF Dropped, Readers
  <2> QED
    BY <1>1, <1>3, <2>1, <2>2, <2>3
<1> QED
  BY <1>4, <1>5, <1>6, <1>7

\* A reader that takes the character its line goes on with has read the line
\* up to the next; and what it completes, if it lost nothing, is the line.
LEMMA TakenInLine ==
    ASSUME Types, NEW r \in Readers, NEW ch \in Int \X Int, SentChar(ch),
           r.status # "FIN_2", ~r.torn => InLine(r, ch)
    PROVE  LET q == Taken(r, ch) IN
           /\ ~q.torn => InLine(q, Succ(ch))
           /\ q.status = "FIN_2" /\ ~q.spoilt
                => \E k \in DOMAIN lines : q.buf = Line(k, lines[k])
<1> DEFINE q == Taken(r, ch)  k == ch[1]  n == ch[2]
<1>1. /\ k \in DOMAIN lines /\ k \in Int /\ lines[k] \in Nat \ {0}
      /\ n \in 1..lines[k] + 2 /\ n \in Nat \ {0} /\ ch = <<k, n>>
  BY LineFacts DEF SentChar
<1>2. /\ FIN_1(ch) <=> n = lines[k] + 1
      /\ FIN_2(ch) <=> n = lines[k] + 2
  BY DEF FIN_1, FIN_2
<1> HIDE DEF k, n
<1>3. CASE r.status = "NONE" /\ FIN_1(ch)
  <2>1. q = [r EXCEPT !.status = "FIN_1", !.pc = "avail"]
    BY <1>3 DEF Taken
  <2>2. q.torn = r.torn /\ q.status = "FIN_1" /\ q.buf = r.buf
    BY <2>1 DEF Readers
  <2>3. Succ(ch) = <<k, n + 1>>
    BY <1>1, <1>2, <1>3 DEF Succ, k, n
  <2>4. ASSUME ~r.torn PROVE InLine(q, Succ(ch))
    <3>1. r.buf = Line(k, n - 1)
      BY <1>3, <2>4 DEF InLine, k, n
    <3>2. n - 1 = lines[k] /\ n + 1 = lines[k] + 2 /\ n + 1 # 1
      BY <1>1, <1>2, <1>3
    <3> QED
      BY <2>2, <2>3, <3>1, <3>2 DEF InLine, FIN_2
  <2> QED
    BY <2>2, <2>4
<1>4. CASE r.status = "NONE" /\ ~FIN_1(ch)
  <2>1. /\ q.torn = r.torn /\ q.status = "NONE" /\ q.buf = Append(r.buf, ch)
    BY <1>4 DEF Taken, Stored, Readers
  <2>2. ASSUME ~r.torn PROVE InLine(q, Succ(ch))
    <3>1. r.buf = Line(k, n - 1) /\ (n # 1 => n <= lines[k] + 1)
      BY <1>4, <2>2 DEF InLine, k, n
    <3>2. n <= lines[k]
      BY <1>1, <1>2, <1>4, <3>1
    <3>3. Succ(ch) = <<k, n + 1>>
      BY <1>1, <1>2, <3>2 DEF Succ, k, n
    <3>4. Append(Line(k, n - 1), <<k, (n - 1) + 1>>) = Line(k, (n - 1) + 1)
      <4>1. n - 1 \in Nat
        BY <1>1
      <4> QED
        BY <1>1, <4>1, LineGrows, Zenon
    <3>5. (n - 1) + 1 = n /\ (n + 1) - 1 = n /\ n + 1 <= lines[k] + 1
      BY <1>1, <3>2
    <3>6. q.buf = Line(k, n)
      BY <1>1, <2>1, <3>1, <3>4, <3>5
    <3> QED
      BY <2>1, <3>3, <3>5, <3>6 DEF InLine
  <2> QED
    BY <2>1, <2>2
<1>5. CASE r.status = "FIN_1" /\ FIN_2(ch)
  <2>1. /\ q.status = "FIN_2" /\ q.spoilt = r.torn /\ q.buf = r.buf
    BY <1>5 DEF Taken, Complete, Readers
  <2>2. InLine(q, Succ(ch))
    BY <1>5, <2>1 DEF InLine, Succ
  <2>3. ~r.torn => r.buf = Line(k, lines[k])
    BY <1>5 DEF InLine, k, n
  <2> QED
    BY <1>1, <2>1, <2>2, <2>3
<1>6. CASE r.status = "FIN_1" /\ ~FIN_2(ch)
  <2>1. r.torn
    BY <1>6 DEF InLine
  <2>2. q = Dropped(r)
    BY <1>6 DEF Taken
  <2>3. q.torn = r.torn /\ q.status = "NONE"
    BY <2>2 DEF Dropped, Readers
  <2> QED
    BY <2>1, <2>3
<1> QED
  BY <1>3, <1>4, <1>5, <1>6 DEF Readers

-----------------------------------------------------------------------------
(* The steps.                                                              *)

\* The state of one reader changes and nothing else does.
LEMMA MovesKeep ==
    ASSUME IInv, NEW i \in Threads, NEW r \in Readers, Moves(i, r), UNCHANGED in,
           reader[i].pc # "none", r.pc # "none", Len(r.buf) < r.capacity,
           r.pc # "ended" /\ ~r.torn => fd /\ InLine(r, Upcoming),
           r.status = "FIN_2" => r.pc = "after" /\ r = [reader[i] EXCEPT !.pc = "after"]
    PROVE  IInv'
<1>1. /\ reader' = [reader EXCEPT ![i] = r]
      /\ UNCHANGED <<fd, stopped, inits, lines, place, in>>
  BY DEF Moves
<1>2. \A j \in Threads : reader'[j] = IF j = i THEN r ELSE reader[j]
  BY <1>1 DEF IInv, Types
<1>3. /\ LastLen' = LastLen /\ NextSent' = NextSent /\ Upcoming' = Upcoming
  BY <1>1 DEF LastLen, NextSent, Upcoming
<1>4. Types'
  BY <1>1, <1>3 DEF IInv, Types
<1>5. FrameInBuffer'
  BY <1>2 DEF IInv, FrameInBuffer
<1>6. Contiguous'
  BY <1>1, <1>3 DEF IInv, Contiguous, SentChar, Succ, FIN_2
<1>7. Reading'
  <2> SUFFICES ASSUME NEW j \in Live', ~reader'[j].torn
               PROVE  (fd /\ InLine(reader[j], Upcoming))'
    BY DEF Reading
  <2>1. CASE j = i
    <3>1. reader'[j] = r /\ r.pc # "ended" /\ ~r.torn
      BY <1>2, <2>1 DEF Live
    <3> QED
      BY <1>1, <1>3, <3>1 DEF InLine, FIN_2, Line
  <2>2. CASE j # i
    <3>1. j \in Live /\ reader'[j] = reader[j]
      BY <1>2, <2>2 DEF Live
    <3>2. fd /\ InLine(reader[j], Upcoming)
      BY <3>1 DEF IInv, Reading
    <3> QED
      BY <1>1, <1>3, <3>1, <3>2 DEF InLine, FIN_2, Line
  <2> QED
    BY <2>1, <2>2
<1>8. Phases'
  BY <1>1, <1>2 DEF IInv, Phases
<1>9. FramesAreLines'
  <2>1. r.status = "FIN_2" => reader[i].status = "FIN_2" /\ r.buf = reader[i].buf
                              /\ r.spoilt = reader[i].spoilt
    BY DEF IInv, Types, Readers
  <2> QED
    BY <1>1, <1>2, <2>1 DEF IInv, FramesAreLines, Line
<1> QED
  BY <1>4, <1>5, <1>6, <1>7, <1>8, <1>9 DEF IInv

\* receive_thread where it takes no character.
LEMMA ReaderMoves ==
    ASSUME IInv, NEW i \in Threads,
           Loop(i) \/ Avail(i) \/ GetcharFails(i) \/ After(i)
    PROVE  IInv'
<1> DEFINE r == reader[i]
<1>1. r \in Readers /\ Len(r.buf) < r.capacity
  BY DEF IInv, Types, FrameInBuffer
<1>2. r.pc \notin {"none", "ended"} /\ ~r.torn => fd /\ InLine(r, Upcoming)
  BY DEF IInv, Reading, Live
<1>3. r.status = "FIN_2" => r.pc = "after"
  BY DEF IInv, Phases
<1>4. << >> \in Seq(Int \X Int) /\ Len(<< >>) = 0
  BY EmptySeq
<1>5. CASE Loop(i) \/ Avail(i) \/ (After(i) /\ r.status # "FIN_2")
  <2>1. PICK p \in {"ended", "avail", "get", "after", "loop"} :
           /\ Moves(i, [r EXCEPT !.pc = p]) /\ UNCHANGED in
           /\ r.pc \in {"loop", "avail", "after"} /\ r.status # "FIN_2"
    BY <1>3, <1>5 DEF Loop, Avail, After
  <2> DEFINE q == [r EXCEPT !.pc = p]
  <2>2. /\ q \in Readers /\ q.pc = p /\ q.buf = r.buf /\ q.capacity = r.capacity
        /\ q.torn = r.torn /\ q.status = r.status
    BY <1>1 DEF Readers
  <2> HIDE DEF q
  <2>3. ~q.torn => fd /\ InLine(q, Upcoming)
    BY <1>2, <2>1, <2>2 DEF InLine
  <2>4. Moves(i, q)
    BY <2>1 DEF q
  <2> HIDE DEF r
  <2>5. reader[i].pc # "none" /\ q.pc # "none" /\ Len(q.buf) < q.capacity
        /\ q.status # "FIN_2"
    BY <1>1, <2>1, <2>2 DEF r
  <2> QED
    BY <2>1, <2>2, <2>3, <2>4, <2>5, MovesKeep
<1>6. CASE After(i) /\ r.status = "FIN_2"
  <2> DEFINE q == Reset(r)
  <2>1. Moves(i, q) /\ UNCHANGED in /\ r.pc = "after"
    BY <1>6 DEF After
  <2>2. /\ q \in Readers /\ q.pc = "loop" /\ q.buf = << >> /\ q.capacity = r.capacity
        /\ q.torn = r.torn /\ q.status = "NONE"
    BY <1>1, <1>4 DEF Reset, Readers
  <2> HIDE DEF q
  <2>3. ASSUME ~q.torn PROVE fd /\ InLine(q, Upcoming)
    <3>1. fd /\ InLine(r, Upcoming)
      BY <1>2, <2>1, <2>2, <2>3
    <3>2. Upcoming[2] = 1
      BY <1>6, <3>1 DEF InLine
    <3>3. Line(Upcoming[1], Upcoming[2] - 1) = << >>
      BY <3>2 DEF Line
    <3> QED
      BY <2>2, <3>1, <3>2, <3>3 DEF InLine
  <2>4. Len(q.buf) < q.capacity
    BY <1>1, <1>4, <2>2 DEF Readers
  <2> HIDE DEF r
  <2>5. reader[i].pc # "none" /\ q.pc # "none" /\ q.status # "FIN_2"
    BY <2>1, <2>2 DEF r
  <2> QED
    BY <2>1, <2>2, <2>3, <2>4, <2>5, MovesKeep
<1>7. CASE GetcharFails(i)
  <2> DEFINE q == [Dropped(r) EXCEPT !.torn = TRUE]
  <2>1. Moves(i, q) /\ UNCHANGED in /\ r.pc = "get"
    BY <1>7 DEF GetcharFails
  <2>2. /\ q \in Readers /\ q.pc = "after" /\ q.buf = << >> /\ q.capacity = r.capacity
        /\ q.torn = TRUE /\ q.status = "NONE"
    BY <1>1, <1>4 DEF Dropped, Readers
  <2> HIDE DEF q
  <2>4. Len(q.buf) < q.capacity
    BY <1>1, <1>4, <2>2 DEF Readers
  <2> HIDE DEF r
  <2>5. reader[i].pc # "none" /\ q.pc # "none" /\ q.status # "FIN_2"
    BY <2>1, <2>2 DEF r
  <2> QED
    BY <2>1, <2>2, <2>4, <2>5, MovesKeep
<1> QED
  BY <1>5, <1>6, <1>7

\* Readers that lose input keep everything but the mark of it.
LEMMA TornReaders ==
    ASSUME Types, NEW which
    PROVE  /\ Torn(reader, which) \in [Threads -> Readers]
           /\ \A j \in Threads :
                 LET q == Torn(reader, which)[j]  r == reader[j] IN
                 /\ q.pc = r.pc /\ q.status = r.status /\ q.buf = r.buf
                 /\ q.capacity = r.capacity /\ q.spoilt = r.spoilt
                 /\ (j \in which => q.torn = TRUE)
                 /\ (j \notin which => q.torn = r.torn)
<1> DEFINE q(j) == Torn(reader, which)[j]
<1>1. \A j \in Threads : q(j) = IF j \in which THEN [reader[j] EXCEPT !.torn = TRUE]
                                ELSE reader[j]
  BY DEF Torn
<1>2. \A j \in Threads : reader[j] \in Readers
  BY DEF Types
<1>3. \A j \in Threads : q(j) \in Readers
  BY <1>1, <1>2 DEF Readers
<1>4. Torn(reader, which) \in [Threads -> Readers]
  BY <1>3 DEF Torn
<1>5. ASSUME NEW j \in Threads
      PROVE  /\ q(j).pc = reader[j].pc /\ q(j).status = reader[j].status
             /\ q(j).buf = reader[j].buf
             /\ q(j).capacity = reader[j].capacity /\ q(j).spoilt = reader[j].spoilt
             /\ (j \in which => q(j).torn = TRUE)
             /\ (j \notin which => q(j).torn = reader[j].torn)
  BY <1>1, <1>2 DEF Readers
<1> QED
  BY <1>4, <1>5

\* A character is taken off the queue by one reader and missed by the others.
LEMMA GetcharKeeps ==
    ASSUME IInv, NEW i \in Threads, Getchar(i)
    PROVE  IInv'
<1> DEFINE r == reader[i]  ch == Head(in)  q == Taken(r, ch)
           others == Torn(reader, Live \ {i})  n == Len(in)
<1>1. /\ r.pc = "get" /\ fd /\ in # <<>>
      /\ reader' = [others EXCEPT ![i] = q] /\ in' = Tail(in)
      /\ UNCHANGED <<fd, stopped, inits, lines, place>>
  BY DEF Getchar
<1>2. Types
  BY DEF IInv
<1>3. /\ in \in Seq(Int \X Int) /\ n \in Nat \ {0} /\ DOMAIN in = 1..n
      /\ ch = in[1] /\ ch \in Int \X Int
      /\ in' \in Seq(Int \X Int) /\ Len(in') = n - 1 /\ DOMAIN in' = 1..n - 1
      /\ \A j \in 1..n - 1 : in'[j] = in[j + 1]
  BY <1>1, <1>2 DEF Types
<1>4. SentChar(ch) /\ Succ(ch) = IF 1 < n THEN in[2] ELSE NextSent
  <2>1. 1 \in DOMAIN in /\ 1 + 1 = 2
    BY <1>3
  <2> QED
    BY <1>3, <2>1 DEF IInv, Contiguous
<1> HIDE DEF n
<1>5. /\ r \in Readers /\ Len(r.buf) < r.capacity /\ r.status # "FIN_2"
      /\ ~r.torn => InLine(r, ch)
  <2>1. r \in Readers /\ Len(r.buf) < r.capacity /\ r.status # "FIN_2"
    BY <1>1 DEF IInv, Types, FrameInBuffer, Phases
  <2>2. Upcoming = ch /\ i \in Live
    BY <1>1 DEF Upcoming, Live
  <2> QED
    BY <2>1, <2>2 DEF IInv, Reading
<1>6. /\ q \in Readers /\ Len(q.buf) < q.capacity /\ q.pc \in {"avail", "after"}
      /\ q.status = "FIN_2" => q.pc = "after"
  BY <1>2, <1>3, <1>5, TakenType
<1>7. /\ ~q.torn => InLine(q, Succ(ch))
      /\ q.status = "FIN_2" /\ ~q.spoilt
           => \E k \in DOMAIN lines : q.buf = Line(k, lines[k])
  BY <1>2, <1>3, <1>4, <1>5, TakenInLine
<1>8. /\ others \in [Threads -> Readers]
      /\ \A j \in Threads :
            /\ others[j].pc = reader[j].pc /\ others[j].status = reader[j].status
            /\ others[j].buf = reader[j].buf /\ others[j].spoilt = reader[j].spoilt
            /\ others[j].capacity = reader[j].capacity
            /\ (j \in Live \ {i} => others[j].torn = TRUE)
  BY <1>2, TornReaders
<1> HIDE DEF q, ch, r, others
<1>9. /\ reader' \in [Threads -> Readers]
      /\ \A j \in Threads : reader'[j] = IF j = i THEN q ELSE others[j]
  BY <1>1, <1>6, <1>8
<1>10. LastLen' = LastLen /\ NextSent' = NextSent
  BY <1>1 DEF LastLen, NextSent
<1>11. Types'
  BY <1>1, <1>3, <1>9, <1>10 DEF IInv, Types
<1>12. FrameInBuffer'
  BY <1>6, <1>8, <1>9 DEF IInv, FrameInBuffer
<1>13. Contiguous'
  <2>1. ASSUME NEW j \in DOMAIN in'
        PROVE  /\ j + 1 \in DOMAIN in /\ in'[j] = in[j + 1]
               /\ (j < Len(in') <=> j + 1 < n)
               /\ (j < Len(in') => in'[j + 1] = in[(j + 1) + 1])
    <3>1. j \in 1..n - 1 /\ Len(in') = n - 1 /\ n \in Nat
      BY <1>3
    <3>2. /\ j \in Int /\ j + 1 \in 1..n
          /\ (j < n - 1 <=> j + 1 < n) /\ (j < n - 1 => j + 1 \in 1..n - 1)
      BY <3>1
    <3>3. in'[j] = in[j + 1] /\ (j + 1 \in 1..n - 1 => in'[j + 1] = in[(j + 1) + 1])
      BY <1>3, <3>1
    <3> QED
      BY <1>3, <3>1, <3>2, <3>3
  <2>2. ASSUME NEW j \in DOMAIN in'
        PROVE  /\ SentChar(in[j + 1])
               /\ Succ(in[j + 1]) = IF j + 1 < n THEN in[(j + 1) + 1] ELSE NextSent
    BY <2>1 DEF IInv, Contiguous, n
  <2>3. ASSUME NEW j \in DOMAIN in'
        PROVE  SentChar(in[j])' /\ Succ(in[j])' = Succ(in[j + 1])
    BY <1>1, <2>1, <2>2 DEF SentChar, Succ, FIN_2
  <2>4. \A j \in DOMAIN in' :
           /\ SentChar(in[j])'
           /\ Succ(in[j])' = IF j < Len(in') THEN in'[j + 1] ELSE NextSent'
    BY <1>10, <2>1, <2>2, <2>3
  <2> QED
    BY <1>1, <2>4 DEF Contiguous
<1>14. Upcoming' = Succ(ch)
  <2>1. CASE n = 1
    <3>1. in' = <<>>
      BY <1>3, <2>1
    <3> QED
      BY <1>4, <1>10, <2>1, <3>1 DEF Upcoming
  <2>2. CASE n # 1
    <3>1. 1 \in 1..n - 1 /\ 1 < n /\ 1 + 1 = 2
      BY <1>3, <2>2
    <3>2. in' # <<>> /\ Head(in') = in'[1] /\ in'[1] = in[2]
      BY <1>3, <3>1
    <3> QED
      BY <1>4, <3>1, <3>2 DEF Upcoming
  <2> QED
    BY <2>1, <2>2
<1>15. Reading'
  <2> SUFFICES ASSUME NEW j \in Live', ~reader'[j].torn
               PROVE  (fd /\ InLine(reader[j], Upcoming))'
    BY DEF Reading
  <2>1. j = i
    BY <1>8, <1>9 DEF Live
  <2> QED
    BY <1>1, <1>7, <1>9, <1>14, <2>1 DEF InLine, FIN_2, Line
<1>16. Phases'
  <2>1. i <= inits
    BY <1>1 DEF IInv, Phases, r, Types, Threads
  <2>2. reader'[i].status = "FIN_2" => reader'[i].pc = "after"
    BY <1>6, <1>9
  <2>3. i > inits => FALSE
    BY <2>1 DEF IInv, Types, Threads
  <2>4. \A j \in Threads : j # i =>
           /\ reader'[j].status = "FIN_2" => reader'[j].pc = "after"
           /\ j > inits => /\ reader'[j].pc = "none" /\ reader'[j].status = "NONE"
                           /\ reader'[j].buf = <<>>
    BY <1>8, <1>9 DEF IInv, Phases
  <2> QED
    BY <1>1, <2>2, <2>3, <2>4 DEF Phases
<1>17. FramesAreLines'
  BY <1>1, <1>7, <1>8, <1>9 DEF IInv, FramesAreLines, Line
<1> QED
  BY <1>11, <1>12, <1>13, <1>15, <1>16, <1>17 DEF IInv

\* The kernel's queue is thrown away, and every reader lost input if there was
\* any: serialFlush, and serialClose.
LEMMA DiscardKeeps ==
    ASSUME IInv, in' = <<>>, UNCHANGED <<inits, lines, place>>,
           fd' \in BOOLEAN, stopped' \in BOOLEAN,
           \/ reader' = Torn(reader, Threads)
           \/ in = <<>> /\ UNCHANGED <<fd, reader>>
    PROVE  IInv'
<1>1. LastLen' = LastLen /\ NextSent' = NextSent
  BY DEF LastLen, NextSent
<1>2. << >> \in Seq(Int \X Int) /\ DOMAIN << >> = {}
  BY EmptySeq
<1>3. Contiguous'
  BY <1>2 DEF Contiguous
<1>4. CASE reader' = Torn(reader, Threads)
  <2>1. /\ reader' \in [Threads -> Readers]
        /\ \A j \in Threads :
              /\ reader'[j].pc = reader[j].pc /\ reader'[j].status = reader[j].status
              /\ reader'[j].buf = reader[j].buf /\ reader'[j].spoilt = reader[j].spoilt
              /\ reader'[j].capacity = reader[j].capacity /\ reader'[j].torn = TRUE
    BY <1>4, TornReaders DEF IInv
  <2>2. Types'
    BY <1>1, <1>2, <2>1 DEF IInv, Types
  <2>3. FrameInBuffer' /\ Phases'
    BY <2>1 DEF IInv, FrameInBuffer, Phases
  <2>4. Reading'
    BY <2>1 DEF Reading, Live
  <2>5. FramesAreLines'
    BY <2>1 DEF IInv, FramesAreLines, Line
  <2> QED
    BY <1>3, <2>2, <2>3, <2>4, <2>5 DEF IInv
<1>5. CASE in = <<>> /\ UNCHANGED <<fd, reader>>
  <2>1. Types'
    BY <1>1, <1>5 DEF IInv, Types
  <2>2. FrameInBuffer' /\ Phases'
    BY <1>5 DEF IInv, FrameInBuffer, Phases
  <2>3. Upcoming' = Upcoming
    BY <1>1, <1>5 DEF Upcoming
  <2>4. Reading'
    BY <1>5, <2>3 DEF IInv, Reading, Live, InLine, FIN_2, Line
  <2>5. FramesAreLines'
    BY <1>5 DEF IInv, FramesAreLines, Line
  <2> QED
    BY <1>3, <2>1, <2>2, <2>4, <2>5 DEF IInv
<1> QED
  BY <1>4, <1>5

\* The coordinator sends the next character of its line; an open device queues
\* it behind what is there.
LEMMA TransmittedKeeps ==
    ASSUME IInv, Transmitted
    PROVE  IInv'
<1> DEFINE e == <<Len(lines), place + 1>>  n == Len(in)
<1>1. /\ place < LastLen /\ place' = place + 1
      /\ in' = IF fd THEN Append(in, e) ELSE in
      /\ UNCHANGED <<fd, stopped, inits, reader, lines>>
  BY DEF Transmitted
<1>2. Types /\ LastLen' = LastLen
  BY <1>1 DEF IInv, LastLen
<1>3. /\ Len(lines) \in Nat \ {0} /\ Len(lines) \in DOMAIN lines
      /\ lines[Len(lines)] \in Nat /\ place \in Nat /\ LastLen = lines[Len(lines)] + 2
  BY <1>2, LineFacts
<1>4. NextSent = e /\ SentChar(e) /\ e \in Int \X Int
  BY <1>1, <1>3 DEF NextSent, SentChar
<1>5. Succ(e) = NextSent'
  <2>1. FIN_2(e) <=> place + 1 = LastLen
    BY <1>3 DEF FIN_2
  <2>2. NextSent' = IF place + 1 < LastLen THEN <<Len(lines), (place + 1) + 1>>
                    ELSE <<Len(lines) + 1, 1>>
    BY <1>1, <1>2 DEF NextSent
  <2>3. place + 1 < LastLen <=> place + 1 # LastLen
    BY <1>1, <1>3
  <2> QED
    BY <2>1, <2>2, <2>3 DEF Succ
<1> HIDE DEF e
<1>6. in \in Seq(Int \X Int) /\ n \in Nat /\ DOMAIN in = 1..n
  BY <1>2 DEF Types
<1> HIDE DEF n
<1>7. fd => /\ in' \in Seq(Int \X Int) /\ Len(in') = n + 1 /\ DOMAIN in' = 1..n + 1
            /\ in'[n + 1] = e /\ \A j \in 1..n : in'[j] = in[j]
  <2> SUFFICES ASSUME fd
               PROVE  /\ in' \in Seq(Int \X Int) /\ Len(in') = n + 1
                      /\ DOMAIN in' = 1..n + 1
                      /\ in'[n + 1] = e /\ \A j \in 1..n : in'[j] = in[j]
    OBVIOUS
  <2>1. in' = Append(in, e)
    BY <1>1
  <2> QED
    BY <1>4, <1>6, <2>1, AppendProperties DEF n
<1>8. Types'
  <2>1. place' \in 0..LastLen' /\ in' \in Seq(Int \X Int)
    BY <1>1, <1>2, <1>3, <1>6, <1>7
  <2> QED
    BY <1>1, <1>2, <2>1 DEF Types
<1>9. Contiguous'
  <2>1. CASE fd
    <3>1. ASSUME NEW j \in 1..n + 1
          PROVE  /\ SentChar(in[j])'
                 /\ Succ(in[j])' = IF j < n + 1 THEN in'[j + 1] ELSE NextSent'
      <4>1. CASE j = n + 1
        <5>1. SentChar(in[j])' /\ Succ(in[j])' = Succ(e)
          BY <1>1, <1>4, <1>7, <2>1, <4>1 DEF SentChar, Succ, FIN_2
        <5> QED
          BY <1>5, <1>6, <4>1, <5>1
      <4>2. CASE j \in 1..n
        <5>1. SentChar(in[j]) /\ Succ(in[j]) = IF j < n THEN in[j + 1] ELSE e
          BY <1>4, <1>6, <4>2 DEF IInv, Contiguous, n
        <5>2. in'[j + 1] = IF j < n THEN in[j + 1] ELSE e
          <6>1. j < n => j + 1 \in 1..n
            BY <1>6, <4>2
          <6>2. ~(j < n) => j + 1 = n + 1
            BY <1>6, <4>2
          <6> QED
            BY <1>7, <2>1, <6>1, <6>2
        <5>3. SentChar(in[j])' /\ Succ(in[j])' = Succ(in[j])
          BY <1>1, <1>7, <2>1, <4>2, <5>1 DEF SentChar, Succ, FIN_2
        <5>4. j < n + 1
          BY <1>6, <4>2
        <5> QED
          BY <5>1, <5>2, <5>3, <5>4
      <4> QED
        BY <1>6, <4>1, <4>2
    <3> QED
      BY <1>1, <1>7, <2>1, <3>1 DEF Contiguous
  <2>2. CASE ~fd
    <3>1. in' = <<>> /\ DOMAIN << >> = {}
      BY <1>1, <2>2, EmptySeq DEF IInv, Contiguous
    <3> QED
      BY <3>1 DEF Contiguous
  <2> QED
    BY <2>1, <2>2
<1>10. FrameInBuffer' /\ Phases'
  BY <1>1 DEF IInv, FrameInBuffer, Phases
<1>11. FramesAreLines'
  BY <1>1 DEF IInv, FramesAreLines, Line
<1>12. Reading'
  <2> SUFFICES ASSUME NEW j \in Live', ~reader'[j].torn
               PROVE  (fd /\ InLine(reader[j], Upcoming))'
    BY DEF Reading
  <2>1. j \in Live /\ fd /\ InLine(reader[j], Upcoming)
    BY <1>1 DEF IInv, Reading, Live
  <2>2. Upcoming' = Upcoming
    <3>1. CASE in = <<>>
      <4>1. n = 0 /\ in' # <<>> /\ Head(in') = e
        BY <1>6, <1>7, <2>1, <3>1 DEF n
      <4> QED
        BY <1>4, <3>1, <4>1 DEF Upcoming
    <3>2. CASE in # <<>>
      <4>1. 1 \in 1..n
        BY <1>6, <3>2 DEF n
      <4>2. in' # <<>> /\ Head(in') = in[1] /\ Head(in) = in[1]
        BY <1>6, <1>7, <2>1, <4>1
      <4> QED
        BY <3>2, <4>2 DEF Upcoming
    <3> QED
      BY <3>1, <3>2
  <2> QED
    BY <1>1, <2>1, <2>2 DEF InLine, FIN_2, Line
<1> QED
  BY <1>8, <1>9, <1>10, <1>11, <1>12 DEF IInv

\* The coordinator begins another line: the character it sends next is the
\* same, and the lines before keep their lengths.
LEMMA NextLineKeeps ==
    ASSUME IInv, NEW len \in LineLens, NextLine(len)
    PROVE  IInv'
<1> DEFINE m == Len(lines)
<1>1. /\ place = LastLen /\ lines' = Append(lines, len) /\ place' = 0
      /\ UNCHANGED <<fd, stopped, inits, reader, in>>
  BY DEF NextLine
<1>2. Types
  BY DEF IInv
<1>3. /\ m \in Nat \ {0} /\ DOMAIN lines = 1..m
      /\ LastLen \in Nat /\ place \in Nat
  BY <1>2, LineFacts
<1>4. /\ lines' \in Seq(LineLens) /\ Len(lines') = m + 1 /\ DOMAIN lines' = 1..m + 1
      /\ \A k \in 1..m : lines'[k] = lines[k]
      /\ lines'[m + 1] = len /\ lines' # <<>>
  <2>1. lines \in Seq(LineLens)
    BY <1>2 DEF Types
  <2>2. /\ lines' \in Seq(LineLens) /\ Len(lines') = m + 1
        /\ \A k \in 1..m : lines'[k] = lines[k]
        /\ lines'[m + 1] = len
    BY <1>1, <2>1, AppendProperties
  <2> HIDE DEF m
  <2>3. Len(lines') # 0
    BY <1>3, <2>2
  <2> QED
    BY <2>2, <2>3, EmptySeq
<1>5. len \in Nat \ {0}
  BY LenAssumption
<1> HIDE DEF m
<1>6. LastLen' = len + 2
  BY <1>4 DEF LastLen
<1>7. NextSent' = NextSent
  BY <1>1, <1>3, <1>4, <1>5, <1>6 DEF NextSent, m
<1>8. Types'
  BY <1>1, <1>4, <1>5, <1>6 DEF IInv, Types
<1>9. ASSUME NEW ch, SentChar(ch)
      PROVE  SentChar(ch)' /\ Succ(ch)' = Succ(ch) /\ lines'[ch[1]] = lines[ch[1]]
  <2>1. ch[1] \in 1..m /\ ch[1] \in 1..m + 1 /\ lines'[ch[1]] = lines[ch[1]]
    BY <1>3, <1>4, <1>9 DEF SentChar
  <2> QED
    BY <1>4, <1>9, <2>1 DEF SentChar, Succ, FIN_2
<1>10. Contiguous'
  <2>1. ASSUME NEW j \in DOMAIN in
        PROVE  /\ SentChar(in[j])'
               /\ Succ(in[j])' = IF j < Len(in) THEN in[j + 1] ELSE NextSent
    <3>1. SentChar(in[j]) /\ Succ(in[j]) = IF j < Len(in) THEN in[j + 1] ELSE NextSent
      BY DEF IInv, Contiguous
    <3>2. in'[j] = in[j]
      BY <1>1
    <3>3. SentChar(in[j])' /\ Succ(in[j])' = Succ(in[j])
      BY <1>9, <3>1, <3>2 DEF SentChar, Succ, FIN_2
    <3> QED
      BY <3>1, <3>3
  <2>2. ~fd => in = <<>>
    BY DEF IInv, Contiguous
  <2> QED
    BY <1>1, <1>7, <2>1, <2>2 DEF Contiguous
<1>11. FrameInBuffer' /\ Phases'
  BY <1>1 DEF IInv, FrameInBuffer, Phases
<1>12. FramesAreLines'
  <2>1. \A k \in DOMAIN lines : k \in DOMAIN lines' /\ Line(k, lines'[k]) = Line(k, lines[k])
    BY <1>3, <1>4
  <2> QED
    BY <1>1, <2>1 DEF IInv, FramesAreLines, Line
<1>13. Reading'
  <2> SUFFICES ASSUME NEW j \in Live', ~reader'[j].torn
               PROVE  (fd /\ InLine(reader[j], Upcoming))'
    BY DEF Reading
  <2>1. j \in Live /\ fd /\ InLine(reader[j], Upcoming)
    BY <1>1 DEF IInv, Reading, Live
  <2>2. Upcoming' = Upcoming
    BY <1>1, <1>7 DEF Upcoming
  <2>3. Upcoming[2] # 1 => lines'[Upcoming[1]] = lines[Upcoming[1]]
    <3>1. in = <<>> => Upcoming[2] = 1
      BY <1>1, <1>3 DEF Upcoming, NextSent
    <3>2. in # <<>> => SentChar(Upcoming)
      <4> SUFFICES ASSUME in # <<>> PROVE SentChar(Upcoming)
        OBVIOUS
      <4>1. 1 \in DOMAIN in /\ Upcoming = in[1]
        BY <1>2 DEF Upcoming, Types
      <4> QED
        BY <4>1 DEF IInv, Contiguous
    <3> QED
      BY <1>9, <3>1, <3>2
  <2> QED
    BY <1>1, <2>1, <2>2, <2>3 DEF InLine, FIN_2, Line
<1> QED
  BY <1>8, <1>10, <1>11, <1>12, <1>13 DEF IInv

\* cc2530_init starts a reader; it has lost input if it starts inside a line.
LEMMA InitKeeps ==
    ASSUME IInv, cc2530_init
    PROVE  IInv'
<1> DEFINE i == inits + 1  inside == place \in 1..LastLen - 1
           q == [reader[i] EXCEPT !.pc = "loop", !.torn = inside]
<1>1. /\ ~fd /\ inits < MaxInits /\ fd' = TRUE /\ stopped' = FALSE /\ inits' = i
      /\ UNCHANGED <<in, lines, place>>
  BY DEF cc2530_init
<1>2. inits \in 0..MaxInits /\ i \in Threads /\ i > inits /\ i \in 0..MaxInits
  BY <1>1, InitAssumption DEF IInv, Types, Threads
<1>3. /\ reader[i] \in Readers /\ reader[i].pc = "none" /\ reader[i].status = "NONE"
      /\ reader[i].buf = <<>> /\ Len(reader[i].buf) < reader[i].capacity
  BY <1>2 DEF IInv, Types, Phases, FrameInBuffer
<1>4. reader' = [reader EXCEPT ![i] = q]
  BY <1>2 DEF cc2530_init, IInv, Types
<1>5. /\ q \in Readers /\ q.pc = "loop" /\ q.status = "NONE" /\ q.buf = <<>>
      /\ q.capacity = reader[i].capacity
      /\ q.torn = inside
  <2>1. inside \in BOOLEAN
    OBVIOUS
  <2> HIDE DEF inside
  <2> QED
    BY <1>3, <2>1 DEF Readers
<1> HIDE DEF q
<1>6. \A j \in Threads : reader'[j] = IF j = i THEN q ELSE reader[j]
  BY <1>2, <1>4 DEF IInv, Types
<1>7. LastLen' = LastLen /\ NextSent' = NextSent /\ Upcoming' = Upcoming
  BY <1>1 DEF LastLen, NextSent, Upcoming
<1>8. Types'
  <2>1. reader' \in [Threads -> Readers]
    BY <1>4, <1>5 DEF IInv, Types
  <2> QED
    BY <1>1, <1>2, <1>7, <2>1 DEF IInv, Types
<1>9. FrameInBuffer'
  BY <1>3, <1>5, <1>6 DEF IInv, FrameInBuffer
<1>10. Contiguous'
  BY <1>1, <1>7 DEF IInv, Contiguous, SentChar, Succ, FIN_2
<1>11. Reading'
  <2> SUFFICES ASSUME NEW j \in Live', ~reader'[j].torn
               PROVE  (fd /\ InLine(reader[j], Upcoming))'
    BY DEF Reading
  <2>1. j = i
    <3>1. j # i => j \in Live /\ reader'[j] = reader[j]
      BY <1>6 DEF Live
    <3> QED
      BY <1>1, <3>1 DEF IInv, Reading
  <2>2. place \notin 1..LastLen - 1
    BY <1>2, <1>5, <1>6, <2>1
  <2>3. in = <<>>
    BY <1>1 DEF IInv, Contiguous
  <2>4. place = 0 \/ place = LastLen
    BY <2>2, LineFacts DEF IInv
  <2>5. Upcoming[2] = 1
    BY <2>3, <2>4, LineFacts DEF Upcoming, NextSent, IInv
  <2>6. Line(Upcoming[1], Upcoming[2] - 1) = << >>
    BY <2>5 DEF Line
  <2>7. reader'[j].status = "NONE" /\ reader'[j].buf = << >>
    BY <1>2, <1>5, <1>6, <2>1
  <2> QED
    BY <1>1, <1>7, <2>5, <2>6, <2>7 DEF InLine, Line
<1>12. Phases'
  BY <1>1, <1>2, <1>5, <1>6 DEF IInv, Phases, Threads
<1>13. FramesAreLines'
  BY <1>1, <1>5, <1>6 DEF IInv, FramesAreLines, Line
<1> QED
  BY <1>8, <1>9, <1>10, <1>11, <1>12, <1>13 DEF IInv

\* cc2530_exit only raises the flag.
LEMMA ExitKeeps ==
    ASSUME IInv, stopped' \in BOOLEAN, UNCHANGED <<fd, inits, reader, in, lines, place>>
    PROVE  IInv'
<1>1. LastLen' = LastLen /\ NextSent' = NextSent /\ Upcoming' = Upcoming
  BY DEF LastLen, NextSent, Upcoming
<1>2. Types' /\ FrameInBuffer' /\ Phases'
  BY <1>1 DEF IInv, Types, FrameInBuffer, Phases
<1>3. Contiguous'
  BY <1>1 DEF IInv, Contiguous, SentChar, Succ, FIN_2
<1>4. Reading'
  BY <1>1 DEF IInv, Reading, Live, InLine, FIN_2, Line
<1>5. FramesAreLines'
  BY DEF IInv, FramesAreLines, Line
<1> QED
  BY <1>2, <1>3, <1>4, <1>5 DEF IInv

-----------------------------------------------------------------------------
(* The invariant, and what follows from it.                                *)

\* Nothing is started, and the coordinator is about to send its first line.
LEMMA Initially == Init => IInv
<1> SUFFICES ASSUME Init PROVE IInv
  OBVIOUS
<1>1. PICK len \in LineLens : lines = <<len>>
  BY DEF Init
<1>2. /\ fd = FALSE /\ stopped = TRUE /\ inits = 0 /\ in = <<>> /\ place = 0
      /\ reader = [i \in Threads |-> NoReader]
  BY DEF Init
<1>3. /\ lines \in Seq(LineLens) /\ lines # <<>> /\ Len(lines) = 1 /\ lines[1] = len
  BY <1>1
<1>4. << >> \in Seq(Int \X Int) /\ Len(<< >>) = 0 /\ DOMAIN << >> = {}
  BY EmptySeq
<1>5. NoReader \in Readers
  BY <1>4, LenAssumption DEF NoReader, Readers
<1>6. LastLen = len + 2 /\ len \in Nat
  BY <1>3, LenAssumption DEF LastLen
<1>7. Types
  <2>1. reader \in [Threads -> Readers]
    BY <1>2, <1>5
  <2>2. place \in 0..LastLen /\ inits \in 0..MaxInits
    BY <1>2, <1>6, InitAssumption
  <2> QED
    BY <1>2, <1>3, <1>4, <2>1, <2>2 DEF Types
<1>8. /\ NoReader.pc = "none" /\ NoReader.status = "NONE" /\ NoReader.buf = << >>
      /\ NoReader.capacity = BufInitLen
  BY DEF NoReader
<1>9. \A i \in Threads : reader[i] = NoReader
  BY <1>2
<1>10. FrameInBuffer
  BY <1>4, <1>8, <1>9, LenAssumption DEF FrameInBuffer
<1>11. Contiguous
  BY <1>2, <1>4 DEF Contiguous
<1>12. Reading /\ Phases /\ FramesAreLines
  BY <1>8, <1>9 DEF Reading, Live, Phases, FramesAreLines
<1> QED
  BY <1>7, <1>10, <1>11, <1>12 DEF IInv

\* Every step of the line, the application and the threads keeps the invariant.
LEMMA Inductive == IInv /\ [Next]_vars => IInv'
<1> SUFFICES ASSUME IInv, [Next]_vars PROVE IInv'
  OBVIOUS
<1>1. CASE UNCHANGED vars
  BY <1>1, ExitKeeps DEF vars, IInv, Types
<1>2. CASE cc2530_exit
  BY <1>2, ExitKeeps DEF cc2530_exit
<1>3. CASE serialClose
  BY <1>3, DiscardKeeps DEF serialClose, IInv, Types
<1>4. CASE cc2530_send
  <2>1. fd' \in BOOLEAN /\ stopped' \in BOOLEAN /\ UNCHANGED <<fd, inits, lines, place>>
    BY <1>4 DEF cc2530_send, IInv, Types
  <2>2. in' = <<>> /\ (\/ reader' = Torn(reader, Threads)
                       \/ ~(fd /\ in # <<>>) /\ UNCHANGED reader)
    BY <1>4 DEF cc2530_send, serialFlush
  <2>3. ~fd => in = <<>>
    BY DEF IInv, Contiguous
  <2> QED
    BY <2>1, <2>2, <2>3, DiscardKeeps
<1>5. ASSUME NEW i \in Threads, ReaderStep(i) PROVE IInv'
  BY <1>5, ReaderMoves, GetcharKeeps DEF ReaderStep
<1> QED
  BY <1>1, <1>2, <1>3, <1>4, <1>5, InitKeeps, TransmittedKeeps, NextLineKeeps DEF Next

\* The invariant holds in every state of the driver.
THEOREM DriverInvariant == Spec => []IInv
  BY Initially, Inductive, PTL DEF Spec

\* The driver's variables stay in their types: whatever comes in over the line
\* receive_thread writes no character past the end of its buffer.
THEOREM FramesFitBuffer == Spec => []TypeOK
<1>1. IInv => TypeOK
  BY DEF IInv, Types, Readers, FrameInBuffer, TypeOK
<1> QED
  BY <1>1, DriverInvariant, PTL

\* A frame of which nothing was lost is a line of the coordinator, whatever
\* the threads and the application do meanwhile.
THEOREM FramesAreWholeLines == Spec => []FramesAreLines
<1>1. IInv => FramesAreLines
  BY DEF IInv
<1> QED
  BY <1>1, DriverInvariant, PTL
=============================================================================
