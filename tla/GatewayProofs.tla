---------------------------- MODULE GatewayProofs ----------------------------
(***************************************************************************)
(* What the gateway process keeps for every set of ids and datagrams, every*)
(* size of the slab and every number of arrivals.                          *)
(***************************************************************************)
EXTENDS Gateway, SequenceTheorems, TLAPS

\* The calls of main() behind DeviceManager::Start.
Started == {"uv_udp_bind", "uv_udp_recv_start", "uv_timer_start", "uv_run"}

\* From Start on the light is registered, and it is the only device.
Registered ==
    /\ \A s \in Sids \ {TestSid} : devices_[s] = Nil
    /\ pc \in Started => devices_[TestSid] = Light

\* Success is logged on the way into the loop, behind uv_udp_recv_start.
Listening ==
    /\ success => pc \in {"uv_run", "none"}
    /\ up = "running" => pc # "none"
    /\ pc \in {"uv_timer_start", "uv_run"} /\ ~failed => receiving

IInv == TypeOK /\ Registered /\ Listening /\ CommandsApplied

-----------------------------------------------------------------------------
(* The slab.                                                               *)

\* What a read leaves in a cleared slab parses as the datagram that was read,
\* and as nothing else.
LEMMA SlabHoldsDatagram ==
    ASSUME NEW d \in Datagrams, d.len > 0, slab' = Filled(alloc_buffer, d)
    PROVE  Parsed(slab') = {d}
<1> DEFINE buf == [i \in 1..SlabSize |-> IF i <= d.len THEN <<d, i>> ELSE NUL]
<1>1. SlabSize \in Nat /\ d.len \in Nat /\ d.len < SlabSize
  BY DatagramAssumption DEF Datagram
<1>2. slab' = buf
  BY DEF Filled, alloc_buffer, Cleared
<1>3. /\ \A i \in 1..d.len : i \in 1..SlabSize /\ buf[i] = <<d, i>>
      /\ \A i \in 1..SlabSize : buf[i] = NUL <=> i > d.len
  <2>1. \A i \in 1..SlabSize : <<d, i>> # NUL
    BY DEF NUL
  <2> QED
    BY <1>1, <2>1
<1> HIDE DEF buf
<1>4. Text(buf) = 1..d.len
  <2>1. ASSUME NEW i \in 1..d.len
        PROVE  i \in 1..SlabSize /\ \A j \in 1..i : buf[j] # NUL
    BY <1>1, <1>3
  <2>2. ASSUME NEW i \in 1..SlabSize, \A j \in 1..i : buf[j] # NUL
        PROVE  i \in 1..d.len
    BY <1>1, <1>3, <2>2
  <2> QED
    BY <2>1, <2>2 DEF Text
<1>5. d \in Parsed(buf)
  BY <1>3, <1>4 DEF Parsed
<1>6. ASSUME NEW c \in Parsed(buf) PROVE c = d
  <2>1. c \in Datagrams /\ 1..d.len = 1..c.len /\ \A i \in 1..c.len : buf[i] = <<c, i>>
    BY <1>4 DEF Parsed
  <2>2. 1 \in 1..d.len
    BY <1>1
  <2>3. <<c, 1>> = <<d, 1>>
    BY <1>3, <2>1, <2>2
  <2> QED
    BY <2>3
<1> QED
  BY <1>2, <1>5, <1>6

-----------------------------------------------------------------------------
(* The commands applied.                                                   *)

\* A datagram that is no command for the light leaves the commands applied.
LEMMA OtherHandled ==
    ASSUME IInv, NEW d \in Datagrams, ~ForLight(d),
           handled' = Append(handled, d), lit' = lit
    PROVE  CommandsApplied'
<1>1. PICK f \in [DOMAIN lit -> DOMAIN handled] :
         /\ \A i, j \in DOMAIN lit : i < j => f[i] < f[j]
         /\ {f[i] : i \in DOMAIN lit} = {n \in DOMAIN handled : ForLight(handled[n])}
         /\ \A i \in DOMAIN lit : lit[i] = handled[f[i]].data
  BY DEF IInv, CommandsApplied
<1>2. handled \in Seq(Datagrams)
  BY DEF IInv, TypeOK
<1>3. /\ DOMAIN handled = 1..Len(handled) /\ Len(handled) \in Nat
      /\ DOMAIN handled' = 1..Len(handled) + 1
      /\ \A n \in DOMAIN handled : handled'[n] = handled[n]
      /\ handled'[Len(handled) + 1] = d
  BY <1>2
<1>4. f \in [DOMAIN lit' -> DOMAIN handled']
  BY <1>1, <1>3
<1>5. {n \in DOMAIN handled' : ForLight(handled'[n])}
        = {n \in DOMAIN handled : ForLight(handled[n])}
  BY <1>3
<1>6. \A i \in DOMAIN lit' : lit'[i] = handled'[f[i]].data
  BY <1>1, <1>3
<1> QED
  BY <1>1, <1>4, <1>5, <1>6, Zenon DEF CommandsApplied

\* A command for the light that sets it is the next one applied.
LEMMA CommandHandled ==
    ASSUME IInv, NEW d \in Datagrams, ForLight(d),
           handled' = Append(handled, d), lit' = Append(lit, d.data)
    PROVE  CommandsApplied'
<1>1. PICK f \in [DOMAIN lit -> DOMAIN handled] :
         /\ \A i, j \in DOMAIN lit : i < j => f[i] < f[j]
         /\ {f[i] : i \in DOMAIN lit} = {n \in DOMAIN handled : ForLight(handled[n])}
         /\ \A i \in DOMAIN lit : lit[i] = handled[f[i]].data
  BY DEF IInv, CommandsApplied
<1>2. handled \in Seq(Datagrams) /\ lit \in Seq({"ON", "OFF"})
  BY DEF IInv, TypeOK
<1> DEFINE n == Len(handled)  m == Len(lit)
           g == [i \in 1..m + 1 |-> IF i = m + 1 THEN n + 1 ELSE f[i]]
<1>3. /\ DOMAIN handled = 1..n /\ n \in Nat /\ DOMAIN handled' = 1..n + 1
      /\ \A k \in 1..n : handled'[k] = handled[k]
      /\ handled'[n + 1] = d
  BY <1>2
<1>4. /\ DOMAIN lit = 1..m /\ m \in Nat /\ DOMAIN lit' = 1..m + 1
      /\ \A k \in 1..m : lit'[k] = lit[k]
      /\ lit'[m + 1] = d.data
  BY <1>2 DEF ForLight
<1> HIDE DEF n, m
<1>5. /\ g[m + 1] = n + 1 /\ \A i \in 1..m : g[i] = f[i] /\ f[i] \in 1..n
  BY <1>1, <1>3, <1>4
<1>6. g \in [DOMAIN lit' -> DOMAIN handled']
  BY <1>1, <1>3, <1>4
<1> HIDE DEF g
<1>7. \A i, j \in DOMAIN lit' : i < j => g[i] < g[j]
  BY <1>1, <1>3, <1>4, <1>5
<1>8. {g[i] : i \in DOMAIN lit'} = {k \in DOMAIN handled' : ForLight(handled'[k])}
  <2>1. ASSUME NEW i \in DOMAIN lit'
        PROVE  g[i] \in {k \in DOMAIN handled' : ForLight(handled'[k])}
    <3>1. CASE i = m + 1
      BY <1>3, <1>5, <3>1
    <3>2. CASE i \in 1..m
      <4>1. f[i] \in {k \in DOMAIN handled : ForLight(handled[k])}
        BY <1>1, <1>4, <3>2
      <4> QED
        BY <1>3, <1>5, <3>2, <4>1
    <3> QED
      BY <1>4, <3>1, <3>2
  <2>2. ASSUME NEW k \in DOMAIN handled', ForLight(handled'[k])
        PROVE  \E i \in DOMAIN lit' : k = g[i]
    <3>1. CASE k = n + 1
      BY <1>4, <1>5, <3>1
    <3>2. CASE k \in 1..n
      <4>1. k \in {f[i] : i \in DOMAIN lit}
        BY <1>1, <1>3, <2>2, <3>2
      <4> QED
        BY <1>4, <1>5, <4>1
    <3> QED
      BY <1>3, <3>1, <3>2
  <2>3. \A x : x \in {g[i] : i \in DOMAIN lit'}
                 <=> x \in {k \in DOMAIN handled' : ForLight(handled'[k])}
    BY <2>1, <2>2
  <2> QED
    BY <2>3, Zenon
<1>9. \A i \in DOMAIN lit' : lit'[i] = handled'[g[i]].data
  BY <1>1, <1>3, <1>4, <1>5
<1> QED
  BY <1>6, <1>7, <1>8, <1>9, Zenon DEF CommandsApplied

-----------------------------------------------------------------------------
(* The operations.                                                         *)

\* The conjuncts of the invariant hang on no more than these variables.
LEMMA CommandsUnchanged ==
    ASSUME IInv, UNCHANGED <<handled, lit>>
    PROVE  CommandsApplied'
  BY DEF IInv, CommandsApplied

\* main() up to the loop: only Start touches the map, and uv_timer_start is
\* reached with the handle active.
LEMMA StartupKeeps ==
    ASSUME IInv, Startup
    PROVE  IInv'
<1>1. UNCHANGED <<queue, handled, lit, arrivals, failed>>
  BY DEF Startup, log_init, wiringPiSetup, restapi_init, Start, uv_udp_bind,
         uv_udp_recv_start, uv_timer_start, service
<1>2. CommandsApplied'
  BY <1>1, CommandsUnchanged
<1>3. CASE log_init \/ wiringPiSetup
  <2>1. /\ At("log_init") \/ At("wiringPiSetup")
        /\ \/ pc' \in {"wiringPiSetup", "restapi_init"} /\ UNCHANGED up
           \/ Exit
        /\ UNCHANGED <<rest, devices_, bound, receiving, cron, success>>
    BY <1>3 DEF log_init, wiringPiSetup
  <2>2. TypeOK'
    BY <1>1, <2>1 DEF IInv, TypeOK, Exit
  <2>3. Registered' /\ Listening'
    BY <1>1, <2>1 DEF IInv, Registered, Listening, Started, At, Exit
  <2> QED
    BY <1>2, <2>2, <2>3 DEF IInv
<1>4. CASE restapi_init
  <2>1. TypeOK'
    BY <1>1, <1>4 DEF IInv, TypeOK, restapi_init
  <2>2. Registered' /\ Listening'
    BY <1>1, <1>4 DEF IInv, Registered, Listening, Started, At, restapi_init
  <2> QED
    BY <1>2, <2>1, <2>2 DEF IInv
<1>5. CASE Start
  <2>1. /\ devices_' = [devices_ EXCEPT ![TestSid] = Light]
        /\ At("Start") /\ pc' = "uv_udp_bind"
        /\ UNCHANGED <<up, rest, bound, receiving, cron, success>>
    BY <1>5 DEF Start, Registry!Insert
  <2>2. TypeOK'
    BY <1>1, <2>1 DEF IInv, TypeOK
  <2>3. Registered'
    BY <2>1, SidAssumption DEF IInv, TypeOK, Registered
  <2>4. Listening'
    BY <1>1, <2>1 DEF IInv, Listening, At
  <2> QED
    BY <1>2, <2>2, <2>3, <2>4 DEF IInv
<1>6. CASE uv_udp_bind
  <2>1. TypeOK'
    BY <1>1, <1>6 DEF IInv, TypeOK, uv_udp_bind
  <2>2. Registered' /\ Listening'
    BY <1>1, <1>6 DEF IInv, Registered, Listening, Started, At, uv_udp_bind
  <2> QED
    BY <1>2, <2>1, <2>2 DEF IInv
<1>7. CASE uv_udp_recv_start
  <2>1. TypeOK'
    BY <1>1, <1>7 DEF IInv, TypeOK, Exit, uv_udp_recv_start
  <2>2. Registered' /\ Listening'
    BY <1>1, <1>7 DEF IInv, Registered, Listening, Started, At, Exit,
                      uv_udp_recv_start
  <2> QED
    BY <1>2, <2>1, <2>2 DEF IInv
<1>8. CASE uv_timer_start
  <2>1. TypeOK'
    BY <1>1, <1>8 DEF IInv, TypeOK, uv_timer_start
  <2>2. Registered' /\ Listening'
    BY <1>1, <1>8 DEF IInv, Registered, Listening, Started, At, uv_timer_start
  <2> QED
    BY <1>2, <2>1, <2>2 DEF IInv
<1> QED
  BY <1>3, <1>4, <1>5, <1>6, <1>7, <1>8 DEF Startup

\* A read applies the command it brought, if it is one for the light.
LEMMA ReceiveKeeps ==
    ASSUME IInv, Receive
    PROVE  IInv'
<1> DEFINE d == Head(queue)
<1>1. /\ At("uv_run") /\ receiving /\ queue # <<>>
      /\ slab' = Filled(alloc_buffer, d) /\ queue' = Tail(queue)
      /\ handled' = Append(handled, d) /\ service_on_read(d.len)
      /\ UNCHANGED <<rest, devices_, bound, cron, success, failed, arrivals>>
  BY DEF Receive
<1>2. d \in Datagrams /\ queue' \in Seq(Datagrams) /\ d.len \in Nat
  BY <1>1, DatagramAssumption DEF IInv, TypeOK, Datagram
<1> HIDE DEF d
<1>3. handled' \in Seq(Datagrams)
  BY <1>1, <1>2 DEF IInv, TypeOK
<1>4. \/ d.len = 0 /\ UNCHANGED <<up, pc, lit, receiving>>
      \/ d.len > 0 /\ Dispatch
  <2>1. ~(d.len < 0)
    BY <1>2
  <2> QED
    BY <1>1, <2>1, Zenon DEF service_on_read
<1>5. /\ receiving' = receiving
      /\ \/ UNCHANGED <<up, pc>>
         \/ up' = "crashed" /\ pc' = "none"
  BY <1>4 DEF Dispatch
<1>6. Registered' /\ Listening'
  BY <1>1, <1>5 DEF IInv, Registered, Listening, Started, At
<1>7. lit' \in Seq({"ON", "OFF"}) /\ CommandsApplied'
  <2>1. CASE d.len = 0
    <3>1. lit' = lit /\ ~ForLight(d)
      BY <1>4, <2>1 DEF ForLight
    <3> QED
      BY <1>1, <1>2, <3>1, OtherHandled DEF IInv, TypeOK
  <2>2. CASE d.len > 0
    <3>1. Dispatch
      BY <1>4, <2>2
    <3>2. Parsed(slab') = {d}
      BY <1>1, <1>2, <2>2, SlabHoldsDatagram
    <3>3. d.sid \in Sids /\ d.data \in {"none", "stateless", "ON", "OFF"}
      BY <1>2, DatagramAssumption DEF Datagram
    <3>4. devices_[d.sid] = IF d.sid = TestSid THEN Light ELSE Nil
      BY <1>1, <3>3 DEF IInv, Registered, Started, At
    <3>5. CASE ForLight(d)
      <4>1. lit' = SetCommand(d.data)
        BY <3>1, <3>2, <3>4, <3>5, LightAssumption DEF Dispatch, ForLight
      <4>2. lit' = Append(lit, d.data) /\ d.data \in {"ON", "OFF"}
        BY <3>5, <4>1 DEF SetCommand, ForLight
      <4> QED
        BY <1>1, <1>2, <3>5, <4>2, CommandHandled DEF IInv, TypeOK
    <3>6. CASE ~ForLight(d)
      <4>1. lit' = lit \/ (/\ d.cmd = "set" /\ devices_[d.sid] # Nil
                           /\ lit' = SetCommand(d.data))
        BY <3>1, <3>2 DEF Dispatch
      <4>2. lit' = lit
        BY <2>2, <3>4, <3>6, <4>1 DEF SetCommand, ForLight
      <4> QED
        BY <1>1, <1>2, <3>6, <4>2, OtherHandled DEF IInv, TypeOK
    <3> QED
      BY <3>5, <3>6
  <2> QED
    BY <1>2, <2>1, <2>2
<1>8. TypeOK'
  BY <1>1, <1>2, <1>3, <1>5, <1>7 DEF IInv, TypeOK
<1> QED
  BY <1>6, <1>7, <1>8 DEF IInv

\* The other steps handle no datagram, and only a failed receive closes the
\* handle.
LEMMA OthersKeep ==
    ASSUME IInv, \/ service_cron \/ ReceiveNothing \/ ReceiveFails \/ LoopEnds
                 \/ hs_bind_localhost \/ \E d \in Datagrams : Arrive(d)
    PROVE  IInv'
<1>1. CASE service_cron
  <2>1. TypeOK'
    BY <1>1 DEF IInv, TypeOK, service_cron, service
  <2>2. Registered' /\ Listening' /\ UNCHANGED <<handled, lit>>
    BY <1>1 DEF IInv, Registered, Listening, service_cron, service
  <2> QED
    BY <2>1, <2>2, CommandsUnchanged DEF IInv
<1>2. CASE ReceiveNothing
  <2>1. UNCHANGED <<up, pc, lit, receiving>>
    BY <1>2 DEF ReceiveNothing, service_on_read
  <2>2. TypeOK'
    BY <1>2, <2>1 DEF IInv, TypeOK, ReceiveNothing
  <2>3. Registered' /\ Listening' /\ UNCHANGED <<handled, lit>>
    BY <1>2, <2>1 DEF IInv, Registered, Listening, ReceiveNothing
  <2> QED
    BY <2>2, <2>3, CommandsUnchanged DEF IInv
<1>3. CASE ReceiveFails
  <2>1. ReadError /\ At("uv_run") /\ failed' = TRUE
    BY <1>3 DEF ReceiveFails, service_on_read
  <2>2. TypeOK'
    BY <1>3, <2>1 DEF IInv, TypeOK, ReceiveFails, ReadError
  <2>3. Registered' /\ Listening' /\ UNCHANGED <<handled, lit>>
    BY <1>3, <2>1 DEF IInv, Registered, Listening, Started, ReceiveFails, ReadError, At
  <2> QED
    BY <2>2, <2>3, CommandsUnchanged DEF IInv
<1>4. CASE LoopEnds
  <2>1. TypeOK'
    BY <1>4 DEF IInv, TypeOK, LoopEnds, Exit, service
  <2>2. Registered' /\ Listening' /\ UNCHANGED <<handled, lit>>
    BY <1>4 DEF IInv, Registered, Listening, Started, LoopEnds, Exit, service
  <2> QED
    BY <2>1, <2>2, CommandsUnchanged DEF IInv
<1>5. CASE hs_bind_localhost
  <2>1. TypeOK'
    BY <1>5 DEF IInv, TypeOK, hs_bind_localhost, Exit, service
  <2>2. Registered' /\ Listening' /\ UNCHANGED <<handled, lit>>
    BY <1>5 DEF IInv, Registered, Listening, Started, hs_bind_localhost, Exit, service
  <2> QED
    BY <2>1, <2>2, CommandsUnchanged DEF IInv
<1>6. ASSUME NEW d \in Datagrams, Arrive(d) PROVE IInv'
  <2>1. queue' \in Seq(Datagrams) /\ arrivals' \in 0..MaxArrivals
    BY <1>6, DatagramAssumption DEF IInv, TypeOK, Arrive
  <2>2. TypeOK'
    BY <1>6, <2>1 DEF IInv, TypeOK, Arrive
  <2>3. Registered' /\ Listening' /\ UNCHANGED <<handled, lit>>
    BY <1>6 DEF IInv, Registered, Listening, Arrive
  <2> QED
    BY <2>2, <2>3, CommandsUnchanged DEF IInv
<1> QED
  BY <1>1, <1>2, <1>3, <1>4, <1>5, <1>6

-----------------------------------------------------------------------------
(* The invariant, and what follows from it.                                *)

\* main() begins with no device registered and nothing received.
LEMMA Initially == Init => IInv
<1> SUFFICES ASSUME Init PROVE IInv
  OBVIOUS
<1>1. TypeOK
  <2>1. /\ queue \in Seq(Datagrams) /\ handled \in Seq(Datagrams)
        /\ lit \in Seq({"ON", "OFF"})
    BY EmptySeq DEF Init
  <2>2. arrivals \in 0..MaxArrivals
    BY DatagramAssumption DEF Init
  <2>3. devices_ \in [Sids -> {Light, Nil}]
    BY DEF Init, Registry!Init
  <2>4. /\ up \in {"running", "exited", "crashed"}
        /\ rest \in {"none", "starting", "serving"}
        /\ {bound, receiving, cron, success, failed} \subseteq BOOLEAN
    BY DEF Init
  <2> QED
    BY <2>1, <2>2, <2>3, <2>4 DEF TypeOK
<1>2. Registered /\ Listening
  BY DEF Init, Registry!Init, Registered, Listening, Started
<1>3. CommandsApplied
  <2>1. lit = <<>> /\ handled = <<>>
    BY DEF Init
  <2>2. DOMAIN lit = {} /\ DOMAIN handled = {}
    BY <2>1
  <2>3. PICK f : f = [i \in DOMAIN lit |-> handled[i]]
    OBVIOUS
  <2>4. f \in [DOMAIN lit -> DOMAIN handled]
    BY <2>2, <2>3
  <2> QED
    BY <2>2, <2>4 DEF CommandsApplied
<1> QED
  BY <1>1, <1>2, <1>3 DEF IInv

\* Every step of the process keeps the invariant.
LEMMA Inductive == IInv /\ [Next]_vars => IInv'
<1> SUFFICES ASSUME IInv, [Next]_vars PROVE IInv'
  OBVIOUS
<1>1. CASE UNCHANGED vars
  <2>1. UNCHANGED <<handled, lit>>
    BY <1>1 DEF vars
  <2>2. TypeOK' /\ Registered' /\ Listening'
    BY <1>1 DEF vars, IInv, TypeOK, Registered, Listening
  <2> QED
    BY <2>1, <2>2, CommandsUnchanged DEF IInv
<1>2. CASE Next
  BY <1>2, StartupKeeps, ReceiveKeeps, OthersKeep DEF Next
<1> QED
  BY <1>1, <1>2

\* The invariant holds in every state of the process.
THEOREM GatewayInvariant == Spec => []IInv
  BY Initially, Inductive, PTL DEF Spec

\* The variables of the process stay in their types; the states the light is
\* set to are "ON" and "OFF" whatever a command's data hold.
THEOREM GatewayTypes == Spec => []TypeOK
<1>1. IInv => TypeOK
  BY DEF IInv
<1> QED
  BY <1>1, GatewayInvariant, PTL

\* The light was set by the commands received for it, each once and in their
\* order, for every size of the slab and every mix of lengths: alloc_buffer
\* clears what an earlier, longer datagram left behind.
THEOREM CommandsAppliedInOrder == Spec => []CommandsApplied
<1>1. IInv => CommandsApplied
  BY DEF IInv
<1> QED
  BY <1>1, GatewayInvariant, PTL

\* The command service listens from "init success" on until recvmsg() fails.
THEOREM ServiceListens == Spec => []ListensUntilFailure
<1>1. IInv => ListensUntilFailure
  BY DEF IInv, Listening, ListensUntilFailure
<1> QED
  BY <1>1, GatewayInvariant, PTL
=============================================================================
