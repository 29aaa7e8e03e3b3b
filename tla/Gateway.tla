------------------------------- MODULE Gateway -------------------------------
(***************************************************************************)
(* The gateway process: main() of src/src/main.cpp from its first call to  *)
(* its return, the UDP command service of src/src/CmdService.cpp it runs   *)
(* in the libuv loop, and the REST thread as far as it can end the         *)
(* process.  The device registry is used through DeviceMap, the            *)
(* specification DeviceRegistry implements; main() is its only caller.     *)
(*                                                                         *)
(* A datagram is a command and its length.  UDP may lose, repeat and       *)
(* reorder datagrams: any datagram may arrive at any time, any number of   *)
(* times.                                                                  *)
(***************************************************************************)
EXTENDS Integers, Sequences

CONSTANTS
    Sids,           \* device ids a command may name
    TestSid,        \* the id of the light that Start creates
    NoSid,          \* the empty id of a command without one
    Light, Nil,     \* that light; nullptr
    Datagrams,      \* the datagrams that may arrive
    SlabSize,       \* cells of the static slab
    MaxArrivals     \* bound: datagrams that arrive

\* cmd   set, get (no effect, like every command but set), bad (not an
\*       object with a command string, or no JSON at all)
\* data  what "data" holds: nothing that is an object, an object without a
\*       state string, the state "ON", any other state
Datagram == [cmd : {"set", "get", "bad"}, sid : Sids,
             data : {"none", "stateless", "ON", "OFF"}, len : 0..SlabSize]

ASSUME SidAssumption == {TestSid, NoSid} \subseteq Sids /\ TestSid # NoSid
ASSUME LightAssumption == Light # Nil
\* A UDP payload has at most 65507 bytes, the slab 65536.
ASSUME DatagramAssumption ==
    /\ SlabSize \in Nat /\ MaxArrivals \in Nat
    /\ Datagrams \subseteq {d \in Datagram : d.len < SlabSize}

VARIABLES
    pc,         \* the next call of main()
    up,         \* the process: running, exited, crashed
    rest,       \* the REST thread: none, starting, serving
    devices_,   \* DeviceManager's map
    bound,      \* the UDP socket is bound to GATEWAY_PORT
    receiving,  \* the UDP handle is active
    cron,       \* the one-shot timer is active
    success,    \* "SnoopyGateway init success." was logged
    failed,     \* recvmsg() failed (ghost)
    queue,      \* datagrams in the socket
    slab,       \* per cell: the datagram and position it holds, or NUL
    handled,    \* datagrams passed to service_on_read so far (ghost)
    lit,        \* states the light was set to so far (ghost)
    arrivals

vars == <<pc, up, rest, devices_, bound, receiving, cron, success, failed,
          queue, slab, handled, lit, arrivals>>
service == <<queue, slab, handled, lit, arrivals, failed>>

Registry == INSTANCE DeviceMap WITH Devices <- {Light}, map <- devices_

NUL == <<>>
Cleared == [i \in 1..SlabSize |-> NUL]

-----------------------------------------------------------------------------
(* main() up to the loop.                                                  *)

At(call) == up = "running" /\ pc = call
Exit == up' = "exited" /\ pc' = "none"

log_init ==
    /\ At("log_init")
    /\ \/ pc' = "wiringPiSetup" /\ UNCHANGED up
       \/ Exit
    /\ UNCHANGED <<rest, devices_, bound, receiving, cron, success, service>>

wiringPiSetup ==
    /\ At("wiringPiSetup")
    /\ \/ pc' = "restapi_init" /\ UNCHANGED up
       \/ Exit
    /\ UNCHANGED <<rest, devices_, bound, receiving, cron, success, service>>

\* pthread_create reports a failure as a positive number, the code tests for
\* a negative one.
restapi_init ==
    /\ At("restapi_init")
    /\ pc' = "Start"
    /\ rest' \in {"starting", "none"}
    /\ UNCHANGED <<up, devices_, bound, receiving, cron, success, service>>

Start ==
    /\ At("Start")
    /\ pc' = "uv_udp_bind"
    /\ Registry!Insert(TestSid, Light)
    /\ UNCHANGED <<up, rest, bound, receiving, cron, success, service>>

\* The result is not tested.
uv_udp_bind ==
    /\ At("uv_udp_bind")
    /\ pc' = "uv_udp_recv_start"
    /\ bound' \in BOOLEAN
    /\ UNCHANGED <<up, rest, devices_, receiving, cron, success, service>>

uv_udp_recv_start ==
    /\ At("uv_udp_recv_start")
    /\ \/ pc' = "uv_timer_start" /\ receiving' = TRUE /\ UNCHANGED up
       \/ Exit /\ UNCHANGED receiving
    /\ UNCHANGED <<rest, devices_, bound, cron, success, service>>

uv_timer_start ==
    /\ At("uv_timer_start")
    /\ pc' = "uv_run" /\ cron' = TRUE /\ success' = TRUE
    /\ UNCHANGED <<up, rest, devices_, bound, receiving, service>>

-----------------------------------------------------------------------------
(* The loop.                                                               *)

\* Mutant: the timer repeats.
service_cron_Repeats ==
    /\ At("uv_run") /\ cron
    /\ UNCHANGED vars

\* uv_timer_start(..., 200, 0): the callback runs once and does nothing.
service_cron ==
    /\ At("uv_run") /\ cron
    /\ cron' = FALSE
    /\ UNCHANGED <<pc, up, rest, devices_, bound, receiving, success, service>>

\* Mutant: the slab is not cleared.
alloc_buffer_Dirty == slab

\* The slab, cleared before every recvmsg().
alloc_buffer == Cleared

\* recvmsg() puts datagram d into buffer buf.
Filled(buf, d) ==
    [i \in 1..SlabSize |-> IF i <= d.len THEN <<d, i>> ELSE buf[i]]

\* The cells json::parse() takes for its text: those before the first NUL.
Text(buf) ==
    {i \in 1..SlabSize : \A j \in 1..i : buf[j] # NUL}

\* What the text says: the command of a datagram, if it is the whole text of
\* that datagram, else nothing that parses.
Parsed(buf) ==
    {d \in Datagrams : /\ Text(buf) = 1..d.len
                       /\ \A i \in 1..d.len : buf[i] = <<d, i>>}

\* Mutant: the state is used without a look at what it is.
SetCommand_Unchecked(data) == Append(lit, data)

\* LightDevice::SetCommand: a state string switches the light.
SetCommand(data) == IF data \in {"ON", "OFF"} THEN Append(lit, data) ELSE lit

\* service_on_read, nread < 0: the handle is closed and the static slab is
\* passed to free(), which aborts or does not.
ReadError ==
    /\ receiving' = FALSE
    /\ \/ up' = "crashed" /\ pc' = "none"
       \/ UNCHANGED <<up, pc>>
    /\ UNCHANGED lit

\* service_on_read, nread > 0, the slab filled (slab').  A device that is not
\* found is called all the same, through a null pointer.
Dispatch ==
    /\ \/ /\ \A c \in Parsed(slab') : c.cmd # "set" \/ c.data = "none"
          /\ UNCHANGED <<up, pc, lit>>
       \/ \E c \in Parsed(slab') :
             /\ c.cmd = "set" /\ c.data # "none" /\ devices_[c.sid] # Nil
             /\ lit' = SetCommand(c.data)
             /\ UNCHANGED <<up, pc>>
       \/ \E c \in Parsed(slab') :
             /\ c.cmd = "set" /\ c.data # "none" /\ devices_[c.sid] = Nil
             /\ up' = "crashed" /\ pc' = "none"
             /\ UNCHANGED lit
    /\ UNCHANGED receiving

\* Mutant: nread = 0 is taken for an error.
service_on_read_ZeroFails(nread) == IF nread > 0 THEN Dispatch ELSE ReadError

service_on_read(nread) ==
    \/ nread < 0 /\ ReadError
    \/ nread = 0 /\ UNCHANGED <<up, pc, lit, receiving>>
    \/ nread > 0 /\ Dispatch

\* One turn of libuv's receive loop: alloc_buffer, recvmsg, service_on_read.
Receive ==
    /\ At("uv_run") /\ receiving /\ queue # <<>>
    /\ LET d == Head(queue) IN
       /\ slab' = Filled(alloc_buffer, d)
       /\ queue' = Tail(queue)
       /\ handled' = Append(handled, d)
       /\ service_on_read(d.len)
    /\ UNCHANGED <<rest, devices_, bound, cron, success, failed, arrivals>>

\* libuv asks once more and recvmsg() finds nothing.
ReceiveNothing ==
    /\ At("uv_run") /\ receiving /\ queue = <<>>
    /\ slab' = alloc_buffer
    /\ service_on_read(0)
    /\ UNCHANGED <<rest, devices_, bound, cron, success, failed, queue, handled,
                   arrivals>>

\* recvmsg() fails.
ReceiveFails ==
    /\ At("uv_run") /\ receiving
    /\ failed' = TRUE /\ slab' = alloc_buffer
    /\ service_on_read(-1)
    /\ UNCHANGED <<rest, devices_, bound, cron, success, queue, handled,
                   arrivals>>

\* uv_run() returns once no handle is active; main() returns.
LoopEnds ==
    /\ At("uv_run") /\ ~receiving /\ ~cron
    /\ Exit
    /\ UNCHANGED <<rest, devices_, bound, receiving, cron, success, service>>

-----------------------------------------------------------------------------
\* The REST thread binds its port or ends the whole process.
hs_bind_localhost ==
    /\ up = "running" /\ rest = "starting"
    /\ \/ rest' = "serving" /\ UNCHANGED <<up, pc>>
       \/ Exit /\ UNCHANGED rest
    /\ UNCHANGED <<devices_, bound, receiving, cron, success, service>>

\* A datagram arrives at the socket.
Arrive(d) ==
    /\ up = "running" /\ bound /\ arrivals < MaxArrivals
    /\ ~failed
    /\ queue' = Append(queue, d) /\ arrivals' = arrivals + 1
    /\ UNCHANGED <<pc, up, rest, devices_, bound, receiving, cron, success,
                   failed, slab, handled, lit>>

Init ==
    /\ pc = "log_init" /\ up = "running" /\ rest = "none"
    /\ Registry!Init
    /\ bound = FALSE /\ receiving = FALSE /\ cron = FALSE
    /\ success = FALSE /\ failed = FALSE
    /\ queue = <<>> /\ slab = Cleared /\ handled = <<>> /\ lit = <<>>
    /\ arrivals = 0

Startup ==
    \/ log_init \/ wiringPiSetup \/ restapi_init \/ Start
    \/ uv_udp_bind \/ uv_udp_recv_start \/ uv_timer_start

Next ==
    \/ Startup \/ service_cron \/ Receive \/ ReceiveNothing
    \/ ReceiveFails \/ LoopEnds
    \/ hs_bind_localhost \/ \E d \in Datagrams : Arrive(d)

Spec == Init /\ [][Next]_vars

\* The main thread runs; whether recvmsg() fails and what arrives is open.
FairSpec ==
    /\ Spec
    /\ WF_vars(Startup) /\ WF_vars(service_cron) /\ WF_vars(Receive)
    /\ WF_vars(LoopEnds)

-----------------------------------------------------------------------------
(* Properties.                                                             *)

\* Every variable stays in its type.
TypeOK ==
    /\ up \in {"running", "exited", "crashed"}
    /\ rest \in {"none", "starting", "serving"}
    /\ devices_ \in [Sids -> {Light, Nil}]
    /\ {bound, receiving, cron, success, failed} \subseteq BOOLEAN
    /\ queue \in Seq(Datagrams) /\ handled \in Seq(Datagrams)
    /\ lit \in Seq({"ON", "OFF"}) /\ arrivals \in 0..MaxArrivals

ForLight(d) ==
    d.len > 0 /\ d.cmd = "set" /\ d.sid = TestSid /\ d.data \in {"ON", "OFF"}

\* The light was set by the commands received for it, each once and in the
\* order of their arrival: nothing an earlier, longer datagram left in the
\* shared slab changes, hides or repeats a command.
CommandsApplied ==
    \E f \in [DOMAIN lit -> DOMAIN handled] :
        /\ \A i, j \in DOMAIN lit : i < j => f[i] < f[j]
        /\ {f[i] : i \in DOMAIN lit} = {n \in DOMAIN handled : ForLight(handled[n])}
        /\ \A i \in DOMAIN lit : lit[i] = handled[f[i]].data

\* From "init success" on the command service listens until a receive fails,
\* whatever arrives: an empty datagram in particular does not close it.
ListensUntilFailure ==
    success /\ up = "running" /\ ~failed => receiving

\* A process whose command service closed does not linger: the timer is a
\* one-shot and keeps the loop alive no longer.
StopsAfterFailure == failed ~> up # "running"

\* "SnoopyGateway init success." is logged by a gateway that serves both its
\* interfaces.
SuccessMeansServing == success => bound /\ rest # "none"
=============================================================================
