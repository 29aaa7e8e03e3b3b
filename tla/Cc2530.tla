------------------------------- MODULE Cc2530 -------------------------------
(***************************************************************************)
(* The driver of the ZigBee coordinator, src/sensor/cc2530.cpp: a thread   *)
(* that cuts what comes in over the serial line into frames at CR LF, a    *)
(* thread that sends a script of commands for ever, and the calls of the   *)
(* application.  They share the descriptor and the flag stopped without a  *)
(* lock.  Every send ends with serialFlush, which discards what the kernel *)
(* holds of the line in both directions.                                   *)
(*                                                                         *)
(* The driver may be stopped and started again; every start makes a reader *)
(* and a sender.  A character is <<line, place>>: behind the characters of *)
(* its own a line has the two it ends with, CR and LF.                     *)
(***************************************************************************)
EXTENDS Integers, Sequences

CONSTANTS
    BufInitLen,     \* BUF_INIT_LEN
    LineLens,       \* the lengths of the lines the coordinator sends
    MaxLines,       \* bound: lines it sends
    MaxInits        \* bound: calls of cc2530_init

ASSUME LenAssumption ==
    BufInitLen \in Nat \ {0} /\ LineLens \subseteq Nat \ {0} /\ MaxLines \in Nat
ASSUME InitAssumption == MaxInits \in Nat

VARIABLES
    fd,         \* the serial device is open
    stopped,    \* the flag the reader ends by
    inits,      \* calls of cc2530_init that succeeded
    reader,     \* the reader each of them started
    in,         \* the kernel's queue of characters to read
    lines,      \* the lengths of the lines sent so far, the last one included
    place       \* how much of the last line was sent

vars == <<fd, stopped, inits, reader, in, lines, place>>

Threads == 1..MaxInits

Line(k, len) == [i \in 1..len |-> <<k, i>>]

FIN_1(ch) == ch[2] = lines[ch[1]] + 1   \* CR
FIN_2(ch) == ch[2] = lines[ch[1]] + 2   \* LF

\* The characters of the last line, its end included.
LastLen == lines[Len(lines)] + 2

\* pc      loop, avail, get, after: where receive_thread is; none, ended
\* status  recv_status; buf, capacity: the frame being read
\* torn    input was lost since the last line end; spoilt: before it (ghosts)
NoReader == [pc |-> "none", status |-> "NONE", buf |-> <<>>,
             capacity |-> BufInitLen, torn |-> FALSE, spoilt |-> FALSE]

Live == {i \in Threads : reader[i].pc \notin {"none", "ended"}}
Torn(readers, which) ==
    [i \in Threads |-> IF i \in which THEN [readers[i] EXCEPT !.torn = TRUE]
                       ELSE readers[i]]

-----------------------------------------------------------------------------
(* The serial line.                                                        *)

\* The coordinator sends a character, which is lost on a closed device.
Transmitted ==
    /\ place < LastLen
    /\ place' = place + 1
    /\ in' = IF fd THEN Append(in, <<Len(lines), place + 1>>) ELSE in
    /\ UNCHANGED <<fd, stopped, inits, reader, lines>>

\* It begins another line.
NextLine(len) ==
    /\ Len(lines) < MaxLines /\ place = LastLen
    /\ lines' = Append(lines, len) /\ place' = 0
    /\ UNCHANGED <<fd, stopped, inits, reader, in>>

-----------------------------------------------------------------------------
(* The calls of the application.                                           *)

\* The device opens; where it does not, nothing is started.
cc2530_init ==
    /\ ~fd /\ inits < MaxInits
    /\ fd' = TRUE /\ stopped' = FALSE /\ inits' = inits + 1
    /\ reader' = [reader EXCEPT
                     ![inits + 1].pc = "loop",
                     ![inits + 1].torn = place \in 1..LastLen - 1]
    /\ UNCHANGED <<in, lines, place>>

\* cc2530_exit tells the reader to stop, does not wait for it, and closes the
\* device, which discards what is queued.
cc2530_exit ==
    /\ fd /\ ~stopped
    /\ stopped' = TRUE
    /\ UNCHANGED <<fd, inits, reader, in, lines, place>>

serialClose ==
    /\ fd /\ stopped
    /\ fd' = FALSE /\ in' = <<>>
    /\ reader' = Torn(reader, Threads)
    /\ UNCHANGED <<stopped, inits, lines, place>>

-----------------------------------------------------------------------------
(* What is sent is not followed.  On a closed device the calls fail, and   *)
(* nobody looks.                                                           *)

\* serialFlush: tcflush(fd, TCIOFLUSH).
serialFlush ==
    /\ in' = <<>>
    /\ reader' = IF fd /\ in # <<>> THEN Torn(reader, Threads) ELSE reader

\* cc2530_send_string and cc2530_send_buf: serialPuts, then serialFlush.  The
\* application calls them, and so does every send_thread, for ever: it does
\* not look at stopped.
cc2530_send ==
    /\ inits > 0
    /\ serialFlush
    /\ UNCHANGED <<fd, stopped, inits, lines, place>>

-----------------------------------------------------------------------------
(* receive_thread.                                                         *)

Moves(i, r) ==
    /\ reader' = [reader EXCEPT ![i] = r]
    /\ UNCHANGED <<fd, stopped, inits, lines, place>>

\* Mutant: the reader does not look at stopped.
Loop_Forever(i) ==
    /\ reader[i].pc = "loop"
    /\ Moves(i, [reader[i] EXCEPT !.pc = "avail"]) /\ UNCHANGED in

\* while (!stopped)
Loop(i) ==
    /\ reader[i].pc = "loop"
    /\ Moves(i, [reader[i] EXCEPT !.pc = IF stopped THEN "ended" ELSE "avail"])
    /\ UNCHANGED in

\* while (serialDataAvail(fd) > 0)
Avail(i) ==
    /\ reader[i].pc = "avail"
    /\ Moves(i, [reader[i] EXCEPT !.pc = IF fd /\ in # <<>> THEN "get" ELSE "after"])
    /\ UNCHANGED in

Dropped(r) == [r EXCEPT !.buf = <<>>, !.status = "NONE", !.pc = "after"]

\* Mutant: the buffer grows once it is full.
Stored_Full(r, ch) ==
    [r EXCEPT !.buf = Append(@, ch), !.pc = "avail",
              !.capacity = IF Len(r.buf) > @ THEN 2 * @ ELSE @]

Stored(r, ch) ==
    [r EXCEPT !.buf = Append(@, ch), !.pc = "avail",
              !.capacity = IF Len(r.buf) + 1 >= @ THEN 2 * @ ELSE @]

Complete(r) == [r EXCEPT !.status = "FIN_2", !.pc = "after",
                         !.spoilt = r.torn, !.torn = FALSE]

\* What the reader does with a character.
Taken(r, ch) ==
    CASE r.status = "NONE" /\ FIN_1(ch) ->
             [r EXCEPT !.status = "FIN_1", !.pc = "avail"]
      [] r.status = "NONE" /\ ~FIN_1(ch) -> Stored(r, ch)
      [] r.status = "FIN_1" /\ FIN_2(ch) -> Complete(r)
      [] OTHER -> Dropped(r)

\* serialGetchar gets a character; another reader misses it.
Getchar(i) ==
    /\ reader[i].pc = "get" /\ fd /\ in # <<>>
    /\ reader' = [Torn(reader, Live \ {i}) EXCEPT ![i] = Taken(reader[i], Head(in))]
    /\ in' = Tail(in)
    /\ UNCHANGED <<fd, stopped, inits, lines, place>>

\* serialGetchar fails, or gives up after ten seconds without input.
GetcharFails(i) ==
    /\ reader[i].pc = "get" /\ ~(fd /\ in # <<>>)
    /\ Moves(i, [Dropped(reader[i]) EXCEPT !.torn = TRUE])
    /\ UNCHANGED in

\* Mutant: the buffer is not emptied behind a frame.
Reset_Kept(r) == [r EXCEPT !.status = "NONE", !.pc = "loop"]

Reset(r) == [r EXCEPT !.buf = <<>>, !.status = "NONE", !.pc = "loop"]

\* A complete frame is logged, if a callback was set; the callback is not called.
After(i) ==
    /\ reader[i].pc = "after"
    /\ Moves(i, IF reader[i].status = "FIN_2" THEN Reset(reader[i])
                ELSE [reader[i] EXCEPT !.pc = "loop"])
    /\ UNCHANGED in

ReaderStep(i) == Loop(i) \/ Avail(i) \/ Getchar(i) \/ GetcharFails(i) \/ After(i)

Init ==
    /\ fd = FALSE /\ stopped = TRUE /\ inits = 0
    /\ reader = [i \in Threads |-> NoReader]
    /\ in = <<>>
    /\ lines \in {<<len>> : len \in LineLens} /\ place = 0

Next ==
    \/ cc2530_init \/ cc2530_exit \/ serialClose \/ cc2530_send
    \/ Transmitted \/ \E len \in LineLens : NextLine(len)
    \/ \E i \in Threads : ReaderStep(i)

Spec == Init /\ [][Next]_vars

\* The kernel runs every thread; nothing is asked of the line.
FairSpec == Spec /\ \A i \in Threads : WF_vars(ReaderStep(i))

-----------------------------------------------------------------------------
(* Properties.                                                             *)

\* Every variable stays in its type; in particular a frame stays inside the
\* buffer it is read into.
TypeOK ==
    /\ fd \in BOOLEAN /\ stopped \in BOOLEAN /\ inits \in 0..MaxInits
    /\ \A i \in Threads :
          /\ reader[i].pc \in {"none", "loop", "avail", "get", "after", "ended"}
          /\ reader[i].status \in {"NONE", "FIN_1", "FIN_2"}
          /\ Len(reader[i].buf) < reader[i].capacity
    /\ place \in 0..LastLen

\* A frame is a line of the coordinator, whole and nothing else, unless a
\* flush, a close, a failed read or another reader took input from it.
FramesAreLines ==
    \A i \in Threads :
        reader[i].status = "FIN_2" /\ ~reader[i].spoilt
            => \E k \in DOMAIN lines : reader[i].buf = Line(k, lines[k])

\* Once the driver is stopped its readers end, unless it is started again.
ReaderEnds ==
    \A i \in Threads : stopped /\ i \in Live ~> i \notin Live \/ ~stopped
=============================================================================
