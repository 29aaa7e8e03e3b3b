------------------------ MODULE DeviceRegistryProofs ------------------------
(***************************************************************************)
(* What DeviceRegistry keeps for every number of threads, ids and devices, *)
(* and that it implements DeviceMap when at most one thread creates.       *)
(***************************************************************************)
EXTENDS DeviceRegistry, TLAPS

\* No two threads call CreateDevice.
OneCreator == \A t1, t2 \in Creators : t1 = t2

\* lock_ names the thread inside a critical section.
Exclusion == \A t \in Threads : call[t].locked <=> lock_ = t

\* A thread between two critical sections holds no mutex.
OutsideUnlocked ==
    \A t \in Threads :
        call[t].op = "idle" \/ call[t].at = "build" => ~call[t].locked

CreatorsCreate == \A t \in Threads : call[t].op = "Create" => t \in Creators

\* Thread t built a device and did not insert it yet.
Holds(t) == call[t].op = "Create" /\ call[t].at = "insert"

\* Devices, those on their way into the map included, were built one by one.
DevicesMade ==
    /\ \A s \in Sids : devices_[s] # Nil => devices_[s] \in 1..made
    /\ \A t \in Threads : Holds(t) => /\ call[t].device \in 1..made
                                      /\ \A s \in Sids : devices_[s] # call[t].device
    /\ \A t, u \in Threads :
          t # u /\ Holds(t) /\ Holds(u) => call[t].device # call[u].device

\* What the lookup of CreateDevice found free is free until the insertion.
FreeStaysFree ==
    \A t \in Threads :
        call[t].op = "Create" /\ call[t].at \in {"build", "insert"}
            => devices_[call[t].sid] = Nil

IInv ==
    /\ TypeOK /\ Exclusion /\ OutsideUnlocked /\ CreatorsCreate
    /\ DevicesMade /\ DevicesDistinct
    /\ OneCreator => FreeStaysFree

-----------------------------------------------------------------------------
(* The operations, one lemma each.                                         *)

\* A call begins: nothing but the record of its own thread changes.
LEMMA BeginKeeps ==
    ASSUME IInv, NEW t \in Threads, NEW s \in Sids, NEW type \in Types,
           NEW op \in {"Find", "Create", "Del"}, op = "Create" => t \in Creators,
           Begin(t, op, s, type)
    PROVE  IInv'
<1> DEFINE k == [op |-> op, sid |-> s, type |-> type, at |-> "lookup",
                 locked |-> FALSE, device |-> Nil, ret |-> Nil]
<1>1. /\ call[t].op = "idle" /\ call' = [call EXCEPT ![t] = k]
      /\ UNCHANGED <<devices_, lock_, made>>
  BY DEF Begin
<1>2. k \in Calls
  BY DEF Calls
<1>3. TypeOK'
  BY <1>1, <1>2 DEF IInv, TypeOK
<1>4. \A u \in Threads : call'[u] = IF u = t THEN k ELSE call[u]
  BY <1>1 DEF IInv, TypeOK
<1>5. Exclusion' /\ OutsideUnlocked' /\ CreatorsCreate'
  BY <1>1, <1>4 DEF IInv, Exclusion, OutsideUnlocked, CreatorsCreate
<1>6. \A u \in Threads : Holds(u)' => u # t /\ Holds(u)
  BY <1>4 DEF Holds
<1>7. DevicesMade'
  BY <1>1, <1>4, <1>6 DEF IInv, DevicesMade
<1>8. DevicesDistinct'
  BY <1>1 DEF IInv, DevicesDistinct
<1>9. FreeStaysFree => FreeStaysFree'
  BY <1>1, <1>4 DEF FreeStaysFree
<1> QED
  BY <1>3, <1>5, <1>7, <1>8, <1>9 DEF IInv

\* The mutex is taken, by a thread outside of every critical section.
LEMMA LockKeeps ==
    ASSUME IInv, NEW t \in Threads, Lock(t)
    PROVE  IInv'
<1>1. /\ call[t].op # "idle" /\ call[t].at # "build"
      /\ lock_ = NoThread /\ lock_' = t
      /\ call' = [call EXCEPT ![t].locked = TRUE]
      /\ UNCHANGED <<devices_, made>>
  BY DEF Lock
<1>2. call[t] \in Calls
  BY DEF IInv, TypeOK
<1>3. TypeOK'
  BY <1>1, <1>2 DEF IInv, TypeOK, Calls
<1>4. \A u \in Threads :
         call'[u] = IF u = t THEN [call[t] EXCEPT !.locked = TRUE] ELSE call[u]
  BY <1>1 DEF IInv, TypeOK
<1>5. \A u \in Threads :
         /\ call'[u].op = call[u].op /\ call'[u].at = call[u].at
         /\ call'[u].sid = call[u].sid /\ call'[u].device = call[u].device
         /\ u # t => call'[u].locked = call[u].locked
  BY <1>2, <1>4 DEF Calls
<1>6. Exclusion'
  <2>1. call'[t].locked
    BY <1>2, <1>4 DEF Calls
  <2> QED
    BY <1>1, <1>5, <2>1, CallerAssumption DEF IInv, Exclusion
<1>7. OutsideUnlocked' /\ CreatorsCreate'
  BY <1>1, <1>5 DEF IInv, OutsideUnlocked, CreatorsCreate
<1>8. \A u \in Threads : Holds(u)' <=> Holds(u)
  BY <1>5 DEF Holds
<1>9. DevicesMade'
  BY <1>1, <1>5, <1>8 DEF IInv, DevicesMade
<1>10. DevicesDistinct' /\ (FreeStaysFree => FreeStaysFree')
  BY <1>1, <1>5 DEF IInv, DevicesDistinct, FreeStaysFree
<1> QED
  BY <1>3, <1>6, <1>7, <1>9, <1>10 DEF IInv

\* A critical section and its call end together: the mutex is free and its
\* holder is idle.
LEMMA LeaveEffect ==
    ASSUME IInv, NEW t \in Threads, call[t].locked,
           NEW ret \in Devices \cup {Nil}, Leave(t, ret)
    PROVE  /\ lock_' \in Threads \cup {NoThread} /\ call' \in [Threads -> Calls]
           /\ Exclusion' /\ OutsideUnlocked' /\ CreatorsCreate'
           /\ \A u \in Threads : u # t => call'[u] = call[u]
           /\ call'[t].op = "idle"
<1>1. lock_ = t
  BY DEF IInv, Exclusion
<1>2. /\ lock_' = NoThread
      /\ call' = [call EXCEPT ![t] = [call[t] EXCEPT !.op = "idle",
                                          !.locked = FALSE, !.ret = ret]]
  BY DEF Leave
<1>3. call[t] \in Calls
  BY DEF IInv, TypeOK
<1>4. [call[t] EXCEPT !.op = "idle", !.locked = FALSE, !.ret = ret] \in Calls
  BY <1>3 DEF Calls
<1>5. call' \in [Threads -> Calls]
  BY <1>2, <1>4 DEF IInv, TypeOK
<1>6. /\ \A u \in Threads : u # t => call'[u] = call[u]
      /\ call'[t].op = "idle" /\ call'[t].locked = FALSE
  BY <1>2, <1>3 DEF IInv, TypeOK, Calls
<1>7. Exclusion'
  BY <1>1, <1>2, <1>6, CallerAssumption DEF IInv, Exclusion
<1>8. OutsideUnlocked' /\ CreatorsCreate'
  BY <1>6 DEF IInv, OutsideUnlocked, CreatorsCreate
<1> QED
  BY <1>2, <1>5, <1>6, <1>7, <1>8

\* FindDevice changes no device.
LEMMA FindKeeps ==
    ASSUME IInv, NEW t \in Threads, FindDevice(t)
    PROVE  IInv'
<1>1. /\ call[t].locked /\ Leave(t, devices_[call[t].sid])
      /\ UNCHANGED <<devices_, made>>
  BY DEF FindDevice
<1>2. devices_[call[t].sid] \in Devices \cup {Nil}
  BY DEF IInv, TypeOK, Calls
<1>3. /\ lock_' \in Threads \cup {NoThread} /\ call' \in [Threads -> Calls]
      /\ Exclusion' /\ OutsideUnlocked' /\ CreatorsCreate'
      /\ \A u \in Threads : u # t => call'[u] = call[u]
      /\ call'[t].op = "idle"
  BY <1>1, <1>2, LeaveEffect
<1>4. TypeOK'
  BY <1>1, <1>3 DEF IInv, TypeOK
<1>5. \A u \in Threads : Holds(u)' => u # t /\ Holds(u)
  BY <1>3 DEF Holds
<1>6. DevicesMade'
  BY <1>1, <1>3, <1>5 DEF IInv, DevicesMade
<1>7. DevicesDistinct' /\ (FreeStaysFree => FreeStaysFree')
  BY <1>1, <1>3 DEF IInv, DevicesDistinct, FreeStaysFree
<1> QED
  BY <1>3, <1>4, <1>6, <1>7 DEF IInv

\* DelDevice frees an id; what was free or is on its way stays as it was.
LEMMA DelKeeps ==
    ASSUME IInv, NEW t \in Threads, DelDevice(t)
    PROVE  IInv'
<1>1. /\ call[t].locked /\ Leave(t, Nil) /\ UNCHANGED made
      /\ devices_' = [devices_ EXCEPT ![call[t].sid] = Nil]
  BY DEF DelDevice
<1>2. /\ lock_' \in Threads \cup {NoThread} /\ call' \in [Threads -> Calls]
      /\ Exclusion' /\ OutsideUnlocked' /\ CreatorsCreate'
      /\ \A u \in Threads : u # t => call'[u] = call[u]
      /\ call'[t].op = "idle"
  BY <1>1, LeaveEffect
<1>3. TypeOK'
  BY <1>1, <1>2 DEF IInv, TypeOK
<1>4. \A s \in Sids : devices_'[s] \in {devices_[s], Nil}
  BY <1>1 DEF IInv, TypeOK
<1>5. \A u \in Threads : Holds(u)' => u # t /\ Holds(u) /\ call'[u] = call[u]
  BY <1>2 DEF Holds
<1>6. Nil \notin 1..made
  BY DeviceAssumption DEF IInv, TypeOK
<1>7. DevicesMade'
  BY <1>1, <1>4, <1>5, <1>6 DEF IInv, DevicesMade
<1>8. DevicesDistinct'
  BY <1>4 DEF IInv, DevicesDistinct
<1>9. \A u \in Threads : call[u].sid \in Sids
  BY DEF IInv, TypeOK, Calls
<1>10. FreeStaysFree => FreeStaysFree'
  BY <1>2, <1>4, <1>9 DEF FreeStaysFree
<1> QED
  BY <1>2, <1>3, <1>7, <1>8, <1>10 DEF IInv

\* The lookup of CreateDevice goes on only with a free id.
LEMMA LookupKeeps ==
    ASSUME IInv, NEW t \in Threads, CreateLookup(t)
    PROVE  IInv'
<1>1. /\ call[t].op = "Create" /\ call[t].at = "lookup" /\ call[t].locked
      /\ UNCHANGED <<devices_, made>>
  BY DEF CreateLookup
<1>2. CASE devices_[call[t].sid] # Nil
  <2>1. Leave(t, Nil)
    BY <1>2 DEF CreateLookup
  <2>2. /\ lock_' \in Threads \cup {NoThread} /\ call' \in [Threads -> Calls]
        /\ Exclusion' /\ OutsideUnlocked' /\ CreatorsCreate'
        /\ \A u \in Threads : u # t => call'[u] = call[u]
        /\ call'[t].op = "idle"
    BY <1>1, <2>1, LeaveEffect
  <2>3. TypeOK'
    BY <1>1, <2>2 DEF IInv, TypeOK
  <2>4. \A u \in Threads : Holds(u)' => u # t /\ Holds(u)
    BY <2>2 DEF Holds
  <2>5. DevicesMade'
    BY <1>1, <2>2, <2>4 DEF IInv, DevicesMade
  <2>6. DevicesDistinct' /\ (FreeStaysFree => FreeStaysFree')
    BY <1>1, <2>2 DEF IInv, DevicesDistinct, FreeStaysFree
  <2> QED
    BY <2>2, <2>3, <2>5, <2>6 DEF IInv
<1>3. CASE devices_[call[t].sid] = Nil
  <2> DEFINE k == [call[t] EXCEPT !.at = "build", !.locked = FALSE]
  <2>1. lock_' = NoThread /\ call' = [call EXCEPT ![t] = k]
    BY <1>3 DEF CreateLookup
  <2>2. call[t] \in Calls /\ lock_ = t
    BY <1>1 DEF IInv, TypeOK, Exclusion
  <2>3. /\ k \in Calls /\ k.op = "Create" /\ k.at = "build" /\ k.locked = FALSE
        /\ k.sid = call[t].sid
    BY <1>1, <2>2 DEF Calls
  <2> HIDE DEF k
  <2>4. TypeOK'
    BY <1>1, <2>1, <2>3 DEF IInv, TypeOK
  <2>5. \A u \in Threads : call'[u] = IF u = t THEN k ELSE call[u]
    BY <2>1 DEF IInv, TypeOK
  <2>6. Exclusion'
    BY <2>1, <2>2, <2>3, <2>5, CallerAssumption DEF IInv, Exclusion
  <2>7. OutsideUnlocked' /\ CreatorsCreate'
    BY <1>1, <2>3, <2>5 DEF IInv, OutsideUnlocked, CreatorsCreate
  <2>8. \A u \in Threads : Holds(u)' => u # t /\ Holds(u)
    BY <2>3, <2>5 DEF Holds
  <2>9. DevicesMade'
    BY <1>1, <2>5, <2>8 DEF IInv, DevicesMade
  <2>10. DevicesDistinct'
    BY <1>1 DEF IInv, DevicesDistinct
  <2>11. FreeStaysFree => FreeStaysFree'
    BY <1>1, <1>3, <2>3, <2>5 DEF FreeStaysFree
  <2> QED
    BY <2>4, <2>6, <2>7, <2>9, <2>10, <2>11 DEF IInv
<1> QED
  BY <1>2, <1>3

\* A device that is built is none of those built before.
LEMMA BuildKeeps ==
    ASSUME IInv, NEW t \in Threads, CreateBuild(t)
    PROVE  IInv'
<1>1. /\ call[t].op = "Create" /\ call[t].at = "build"
      /\ UNCHANGED <<devices_, lock_>>
  BY DEF CreateBuild
<1>2. call[t] \in Calls /\ call[t].locked = FALSE
  <2>1. call[t] \in Calls /\ ~call[t].locked
    BY <1>1 DEF IInv, TypeOK, OutsideUnlocked
  <2>2. call[t].locked \in BOOLEAN
    BY <2>1 DEF Calls
  <2> QED
    BY <2>1, <2>2
<1>3. CASE /\ made < MaxDevices /\ made' = made + 1
           /\ call' = [call EXCEPT ![t] = [call[t] EXCEPT !.at = "insert",
                                                          !.device = made + 1]]
  <2> DEFINE k == [call[t] EXCEPT !.at = "insert", !.device = made + 1]
  <2>1. made \in Nat /\ MaxDevices \in Nat /\ made' \in 0..MaxDevices
        /\ made + 1 \in Devices
    BY <1>3, DeviceAssumption DEF IInv, TypeOK, Devices
  <2>2. /\ k \in Calls /\ k.op = "Create" /\ k.at = "insert" /\ k.locked = FALSE
        /\ k.sid = call[t].sid /\ k.device = made + 1
    BY <1>1, <1>2, <2>1 DEF Calls
  <2> HIDE DEF k
  <2>3. call' = [call EXCEPT ![t] = k]
    BY <1>3 DEF k
  <2>4. TypeOK'
    BY <1>1, <2>1, <2>2, <2>3 DEF IInv, TypeOK
  <2>5. \A u \in Threads : call'[u] = IF u = t THEN k ELSE call[u]
    BY <2>3 DEF IInv, TypeOK
  <2>6. Exclusion' /\ OutsideUnlocked' /\ CreatorsCreate'
    BY <1>1, <1>2, <2>2, <2>5 DEF IInv, Exclusion, OutsideUnlocked, CreatorsCreate
  <2>7. \A u \in Threads : Holds(u)' <=> u = t \/ Holds(u)
    BY <2>2, <2>5 DEF Holds
  <2>8. ~Holds(t)
    BY <1>1 DEF Holds
  <2>9. /\ 1..made \subseteq 1..made'
        /\ made + 1 \in 1..made' /\ made + 1 \notin 1..made
    BY <1>3, <2>1
  <2>10. Nil # made + 1
    BY <2>1, DeviceAssumption DEF Devices
  <2>11. DevicesMade'
    <3>1. \A s \in Sids : devices_'[s] # Nil => devices_'[s] \in 1..made'
      BY <1>1, <2>9 DEF IInv, DevicesMade
    <3>2. \A s \in Sids : devices_'[s] # made + 1
      BY <1>1, <2>9, <2>10 DEF IInv, DevicesMade
    <3>3. \A u \in Threads : Holds(u)' => /\ call'[u].device \in 1..made'
                                /\ \A s \in Sids : devices_'[s] # call'[u].device
      BY <1>1, <2>2, <2>5, <2>7, <2>9, <3>2 DEF IInv, DevicesMade
    <3>4. \A u \in Threads : u # t /\ Holds(u) => call'[u].device # made + 1
      BY <2>5, <2>9 DEF IInv, DevicesMade
    <3>5. \A u, v \in Threads : u # v /\ Holds(u)' /\ Holds(v)'
                                  => call'[u].device # call'[v].device
      BY <2>2, <2>5, <2>7, <3>4 DEF IInv, DevicesMade
    <3> QED
      BY <3>1, <3>3, <3>5 DEF DevicesMade
  <2>12. DevicesDistinct'
    BY <1>1 DEF IInv, DevicesDistinct
  <2>13. FreeStaysFree => FreeStaysFree'
    BY <1>1, <2>2, <2>5 DEF FreeStaysFree
  <2> QED
    BY <2>4, <2>6, <2>11, <2>12, <2>13 DEF IInv
<1>4. CASE /\ made' = made
           /\ call' = [call EXCEPT ![t] = [call[t] EXCEPT !.op = "idle", !.ret = Nil]]
  <2> DEFINE k == [call[t] EXCEPT !.op = "idle", !.ret = Nil]
  <2>1. k \in Calls /\ k.op = "idle" /\ k.locked = FALSE
    BY <1>2 DEF Calls
  <2> HIDE DEF k
  <2>2. call' = [call EXCEPT ![t] = k]
    BY <1>4 DEF k
  <2>3. TypeOK'
    BY <1>1, <1>4, <2>1, <2>2 DEF IInv, TypeOK
  <2>4. \A u \in Threads : call'[u] = IF u = t THEN k ELSE call[u]
    BY <2>2 DEF IInv, TypeOK
  <2>5. Exclusion' /\ OutsideUnlocked' /\ CreatorsCreate'
    BY <1>1, <1>2, <2>1, <2>4 DEF IInv, Exclusion, OutsideUnlocked, CreatorsCreate
  <2>6. \A u \in Threads : Holds(u)' => u # t /\ Holds(u)
    BY <2>1, <2>4 DEF Holds
  <2>7. DevicesMade'
    BY <1>1, <1>4, <2>4, <2>6 DEF IInv, DevicesMade
  <2>8. DevicesDistinct' /\ (FreeStaysFree => FreeStaysFree')
    BY <1>1, <2>1, <2>4 DEF IInv, DevicesDistinct, FreeStaysFree
  <2> QED
    BY <2>3, <2>5, <2>7, <2>8 DEF IInv
<1> QED
  BY <1>3, <1>4 DEF CreateBuild

\* The insertion puts in a device that no id has.  With one creator no other
\* call is between its lookup and its insertion.
LEMMA InsertKeeps ==
    ASSUME IInv, NEW t \in Threads, CreateInsert(t)
    PROVE  IInv'
<1>1. /\ Holds(t) /\ call[t].locked /\ Leave(t, call[t].device)
      /\ devices_' = [devices_ EXCEPT ![call[t].sid] = call[t].device]
      /\ UNCHANGED made
  BY DEF CreateInsert, Holds
<1>2. call[t].device \in Devices \cup {Nil} /\ call[t].sid \in Sids
  BY DEF IInv, TypeOK, Calls
<1>3. /\ lock_' \in Threads \cup {NoThread} /\ call' \in [Threads -> Calls]
      /\ Exclusion' /\ OutsideUnlocked' /\ CreatorsCreate'
      /\ \A u \in Threads : u # t => call'[u] = call[u]
      /\ call'[t].op = "idle"
  BY <1>1, <1>2, LeaveEffect
<1>4. TypeOK'
  BY <1>1, <1>2, <1>3 DEF IInv, TypeOK
<1>5. \A s \in Sids : devices_'[s] = IF s = call[t].sid THEN call[t].device
                                     ELSE devices_[s]
  BY <1>1, <1>2 DEF IInv, TypeOK
<1>6. \A u \in Threads : Holds(u)' => u # t /\ Holds(u) /\ call'[u] = call[u]
  BY <1>3 DEF Holds
<1>7. DevicesMade'
  BY <1>1, <1>5, <1>6 DEF IInv, DevicesMade
<1>8. DevicesDistinct'
  BY <1>1, <1>5 DEF IInv, DevicesDistinct, DevicesMade
<1>9. ASSUME OneCreator PROVE FreeStaysFree'
  <2>1. \A u \in Threads : u # t => call[u].op # "Create"
    BY <1>1, <1>9 DEF IInv, CreatorsCreate, OneCreator, Holds
  <2> QED
    BY <1>3, <2>1 DEF FreeStaysFree
<1> QED
  BY <1>3, <1>4, <1>7, <1>8, <1>9 DEF IInv

-----------------------------------------------------------------------------
(* The invariant, and what follows from it.                                *)

\* Every step of every thread keeps the invariant.
LEMMA Inductive == IInv /\ [Next]_vars => IInv'
<1> SUFFICES ASSUME IInv, [Next]_vars PROVE IInv'
  OBVIOUS
<1>1. CASE UNCHANGED vars
  BY <1>1 DEF vars, IInv, TypeOK, Exclusion, OutsideUnlocked, CreatorsCreate,
              DevicesMade, DevicesDistinct, FreeStaysFree, Holds
<1>2. ASSUME NEW t \in Threads, BeginCall(t) PROVE IInv'
  <2>1. PICK s \in Sids :
           \/ Begin(t, "Find", s, "SIMPLE_LIGHT")
           \/ Begin(t, "Del", s, "SIMPLE_LIGHT")
           \/ t \in Creators /\ \E type \in Types : Begin(t, "Create", s, type)
    BY <1>2 DEF BeginCall
  <2> QED
    BY <2>1, BeginKeeps DEF Types
<1>3. ASSUME NEW t \in Threads, InCall(t) PROVE IInv'
  BY <1>3, LockKeeps, FindKeeps, DelKeeps, LookupKeeps, BuildKeeps, InsertKeeps
  DEF InCall
<1> QED
  BY <1>1, <1>2, <1>3 DEF Next

\* The manager starts with no device and nobody inside a call.
LEMMA Initially == Init => IInv
<1> SUFFICES ASSUME Init PROVE IInv
  OBVIOUS
<1>1. PICK s \in Sids : call = [t \in Threads |->
         [op |-> "idle", sid |-> s, type |-> "SIMPLE_LIGHT", at |-> "lookup",
          locked |-> FALSE, device |-> Nil, ret |-> Nil]]
  BY DEF Init
<1>2. /\ devices_ = [r \in Sids |-> Nil] /\ lock_ = NoThread /\ made = 0
  BY DEF Init
<1>3. call \in [Threads -> Calls]
  BY <1>1 DEF Calls, Types
<1>4. TypeOK
  BY <1>2, <1>3, DeviceAssumption DEF TypeOK
<1>5. \A t \in Threads : call[t].op = "idle" /\ call[t].locked = FALSE
  BY <1>1
<1>6. Exclusion /\ OutsideUnlocked /\ CreatorsCreate
  BY <1>2, <1>5, CallerAssumption DEF Exclusion, OutsideUnlocked, CreatorsCreate
<1>7. DevicesMade /\ DevicesDistinct /\ FreeStaysFree
  BY <1>2, <1>5 DEF DevicesMade, DevicesDistinct, FreeStaysFree, Holds
<1> QED
  BY <1>4, <1>6, <1>7 DEF IInv

\* The invariant holds in every state, for every number of threads, creators
\* among them, ids and devices.
THEOREM RegistryInvariant == Spec => []IInv
  BY Initially, Inductive, PTL DEF Spec

\* The variables of DeviceManager stay in their types.
THEOREM RegistryTypes == Spec => []TypeOK
<1>1. IInv => TypeOK
  BY DEF IInv
<1> QED
  BY <1>1, RegistryInvariant, PTL

\* Two ids never share a device, even where two calls of CreateDevice for one
\* id overlap and the second insertion replaces the first.
THEOREM NoSharedDevice == Spec => []DevicesDistinct
<1>1. IInv => DevicesDistinct
  BY DEF IInv
<1> QED
  BY <1>1, RegistryInvariant, PTL

\* With one creator a step changes the map as DeviceMap allows: only a free id
\* is given a device, only a device in use is deleted.
LEMMA StepsOfMap == OneCreator /\ IInv /\ [Next]_vars => [Map!Next]_devices_
<1> SUFFICES ASSUME OneCreator, IInv, [Next]_vars PROVE [Map!Next]_devices_
  OBVIOUS
<1>1. CASE UNCHANGED vars
  BY <1>1 DEF vars
<1>2. ASSUME NEW t \in Threads, BeginCall(t) PROVE UNCHANGED devices_
  BY <1>2 DEF BeginCall, Begin
<1>3. ASSUME NEW t \in Threads, DelDevice(t) PROVE [Map!Next]_devices_
  <2>1. /\ devices_' = [devices_ EXCEPT ![call[t].sid] = Nil]
        /\ call[t].sid \in Sids /\ devices_ \in [Sids -> Devices \cup {Nil}]
    BY <1>3 DEF DelDevice, IInv, TypeOK, Calls
  <2>2. CASE devices_[call[t].sid] = Nil
    BY <2>1, <2>2
  <2>3. CASE devices_[call[t].sid] # Nil
    BY <2>1, <2>3 DEF Map!Next, Map!Delete
  <2> QED
    BY <2>2, <2>3
<1>4. ASSUME NEW t \in Threads, CreateInsert(t) PROVE Map!Next
  <2>1. /\ devices_' = [devices_ EXCEPT ![call[t].sid] = call[t].device]
        /\ call[t].sid \in Sids /\ Holds(t)
    BY <1>4 DEF CreateInsert, Holds, IInv, TypeOK, Calls
  <2>2. call[t].device \in Devices
    BY <2>1, DeviceAssumption DEF IInv, TypeOK, DevicesMade, Devices
  <2>3. devices_[call[t].sid] = Nil
    BY <2>1 DEF IInv, FreeStaysFree, Holds
  <2> QED
    BY <2>1, <2>2, <2>3 DEF Map!Next, Map!Insert
<1>5. ASSUME NEW t \in Threads, InCall(t) PROVE [Map!Next]_devices_
  <2>1. CASE Lock(t) \/ FindDevice(t) \/ CreateLookup(t) \/ CreateBuild(t)
    BY <2>1 DEF Lock, FindDevice, CreateLookup, CreateBuild
  <2> QED
    BY <1>3, <1>4, <1>5, <2>1 DEF InCall
<1> QED
  BY <1>1, <1>2, <1>5 DEF Next

\* DeviceManager implements DeviceMap if at most one thread creates, whatever
\* the others look up and delete meanwhile.  This is how the program uses it:
\* DeviceManager::Start is the only caller of CreateDevice.
THEOREM ManagerImplementsMap ==
    ASSUME OneCreator
    PROVE  Spec => ImplementsDeviceMap
<1>1. Init => Map!Init
  BY DEF Init, Map!Init
<1>2. IInv /\ [Next]_vars => [Map!Next]_devices_
  BY StepsOfMap
<1> QED
  BY <1>1, <1>2, RegistryInvariant, PTL DEF Spec, ImplementsDeviceMap, Map!Spec

\* With one creator the comment of CreateDevice is true: an id in use is never
\* given another device.  The run with two creators refutes it without that.
THEOREM OneCreatorKeepsDevices ==
    ASSUME OneCreator
    PROVE  Spec => ExistingDeviceKept
<1> DEFINE Kept == \A s \in Sids : devices_[s] # Nil
                                     => devices_'[s] \in {devices_[s], Nil}
<1>1. IInv /\ [Next]_vars => [Kept]_vars
  <2> SUFFICES ASSUME IInv, [Next]_vars PROVE Kept
    OBVIOUS
  <2>1. devices_ \in [Sids -> Devices \cup {Nil}]
    BY DEF IInv, TypeOK
  <2>2. [Map!Next]_devices_
    BY StepsOfMap
  <2> QED
    BY <2>1, <2>2 DEF Map!Next, Map!Insert, Map!Delete
<1> QED
  BY <1>1, RegistryInvariant, PTL DEF Spec, ExistingDeviceKept
=============================================================================
