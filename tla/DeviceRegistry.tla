--------------------------- MODULE DeviceRegistry ---------------------------
(***************************************************************************)
(* DeviceManager of src/devices/DeviceMgr.cpp: a map of devices behind a   *)
(* mutex, called from several threads.  A call is cut where the code gives *)
(* the mutex up: CreateDevice looks the id up under the mutex, releases    *)
(* it, builds the device and takes the mutex again to insert it.           *)
(***************************************************************************)
EXTENDS Integers

CONSTANTS
    Threads,    \* callers
    Creators,   \* the callers that call CreateDevice
    Sids,       \* device ids
    Nil,        \* nullptr
    NoThread,   \* nobody holds the mutex
    MaxDevices  \* bound: devices built

ASSUME CallerAssumption == Creators \subseteq Threads /\ NoThread \notin Threads
ASSUME DeviceAssumption == MaxDevices \in Nat /\ Nil \notin 1..MaxDevices

VARIABLES
    devices_,   \* Sids -> device or Nil
    lock_,      \* the thread inside a critical section
    call,       \* per thread: the call it is in
    made        \* devices built so far; a device is its serial number

vars == <<devices_, lock_, call, made>>

Devices == 1..MaxDevices

\* SIMPLE_LIGHT is the one type for which a device is built.
Types == {"SIMPLE_LIGHT", "SIMPLE_SWITCH"}

\* op      the member function; idle between two calls
\* at      lookup, build, insert: where CreateDevice is; else lookup
\* locked  inside the critical section
\* ret     what the last call returned
Calls == [op : {"idle", "Find", "Create", "Del"}, sid : Sids, type : Types,
          at : {"lookup", "build", "insert"}, locked : BOOLEAN,
          device : Devices \cup {Nil}, ret : Devices \cup {Nil}]

Begin(t, op, s, type) ==
    /\ call[t].op = "idle"
    /\ call' = [call EXCEPT ![t] =
                  [op |-> op, sid |-> s, type |-> type, at |-> "lookup",
                   locked |-> FALSE, device |-> Nil, ret |-> Nil]]
    /\ UNCHANGED <<devices_, lock_, made>>

\* std::lock_guard: the constructor blocks while another thread is inside.
Lock(t) ==
    /\ call[t].op # "idle" /\ call[t].at # "build" /\ ~call[t].locked
    /\ lock_ = NoThread
    /\ lock_' = t
    /\ call' = [call EXCEPT ![t].locked = TRUE]
    /\ UNCHANGED <<devices_, made>>

\* The end of a critical section and of the call, with its result.
Leave(t, ret) ==
    /\ lock_' = NoThread
    /\ call' = [call EXCEPT ![t] =
                  [@ EXCEPT !.op = "idle", !.locked = FALSE, !.ret = ret]]

\* Mutant: the key of the map entry is returned, not the device.
FindDevice_Key(t) ==
    /\ call[t].op = "Find" /\ call[t].locked
    /\ Leave(t, call[t].sid)
    /\ UNCHANGED <<devices_, made>>

FindDevice(t) ==
    /\ call[t].op = "Find" /\ call[t].locked
    /\ Leave(t, devices_[call[t].sid])
    /\ UNCHANGED <<devices_, made>>

DelDevice(t) ==
    /\ call[t].op = "Del" /\ call[t].locked
    /\ devices_' = [devices_ EXCEPT ![call[t].sid] = Nil]
    /\ Leave(t, Nil)
    /\ UNCHANGED made

\* Mutant: the result of the lookup is not looked at.
CreateLookup_Ignored(t) ==
    /\ call[t].op = "Create" /\ call[t].at = "lookup" /\ call[t].locked
    /\ lock_' = NoThread
    /\ call' = [call EXCEPT ![t] = [@ EXCEPT !.at = "build", !.locked = FALSE]]
    /\ UNCHANGED <<devices_, made>>

\* CreateDevice, the call of FindDevice: an id in use ends it with nullptr.
CreateLookup(t) ==
    /\ call[t].op = "Create" /\ call[t].at = "lookup" /\ call[t].locked
    /\ IF devices_[call[t].sid] # Nil
       THEN Leave(t, Nil)
       ELSE /\ lock_' = NoThread
            /\ call' = [call EXCEPT ![t] = [@ EXCEPT !.at = "build",
                                                     !.locked = FALSE]]
    /\ UNCHANGED <<devices_, made>>

\* Mutant: one static light is handed out for every id.
CreateBuild_Static(t) ==
    /\ call[t].op = "Create" /\ call[t].at = "build"
    /\ call' = [call EXCEPT ![t] =
                  IF call[t].type = "SIMPLE_LIGHT"
                  THEN [@ EXCEPT !.at = "insert", !.device = 1]
                  ELSE [@ EXCEPT !.op = "idle", !.ret = Nil]]
    /\ UNCHANGED <<devices_, lock_, made>>

\* Mutant: an unknown type starts the call over.
CreateBuild_Retry(t) ==
    /\ call[t].op = "Create" /\ call[t].at = "build"
    /\ \/ /\ call[t].type = "SIMPLE_LIGHT" /\ made < MaxDevices
          /\ made' = made + 1
          /\ call' = [call EXCEPT ![t] = [@ EXCEPT !.at = "insert",
                                                   !.device = made + 1]]
       \/ /\ call[t].type # "SIMPLE_LIGHT"
          /\ call' = [call EXCEPT ![t].at = "lookup"]
          /\ UNCHANGED made
    /\ UNCHANGED <<devices_, lock_>>

\* CreateDevice, the switch: a light is built, any other type returns nullptr.
CreateBuild(t) ==
    /\ call[t].op = "Create" /\ call[t].at = "build"
    /\ \/ /\ call[t].type = "SIMPLE_LIGHT" /\ made < MaxDevices
          /\ made' = made + 1
          /\ call' = [call EXCEPT ![t] = [@ EXCEPT !.at = "insert",
                                                   !.device = made + 1]]
       \/ /\ call[t].type # "SIMPLE_LIGHT"
          /\ call' = [call EXCEPT ![t] = [@ EXCEPT !.op = "idle", !.ret = Nil]]
          /\ UNCHANGED made
    /\ UNCHANGED <<devices_, lock_>>

\* CreateDevice, the insertion: whatever the id maps to by now is replaced.
CreateInsert(t) ==
    /\ call[t].op = "Create" /\ call[t].at = "insert" /\ call[t].locked
    /\ devices_' = [devices_ EXCEPT ![call[t].sid] = call[t].device]
    /\ Leave(t, call[t].device)
    /\ UNCHANGED made

Init ==
    /\ devices_ = [s \in Sids |-> Nil]
    /\ lock_ = NoThread
    /\ \E s \in Sids : call = [t \in Threads |->
           [op |-> "idle", sid |-> s, type |-> "SIMPLE_LIGHT", at |-> "lookup",
            locked |-> FALSE, device |-> Nil, ret |-> Nil]]
    /\ made = 0

BeginCall(t) ==
    \E s \in Sids :
        \/ Begin(t, "Find", s, "SIMPLE_LIGHT")
        \/ Begin(t, "Del", s, "SIMPLE_LIGHT")
        \/ /\ t \in Creators /\ made < MaxDevices
           /\ \E type \in Types : Begin(t, "Create", s, type)

\* What a thread does once it is inside a call.
InCall(t) ==
    \/ Lock(t) \/ FindDevice(t) \/ DelDevice(t)
    \/ CreateLookup(t) \/ CreateBuild(t) \/ CreateInsert(t)

Next == \E t \in Threads : BeginCall(t) \/ InCall(t)

Spec == Init /\ [][Next]_vars

\* A thread that can go on does; nothing is assumed about which of the
\* threads that wait for the mutex gets it.
FairSpec == Spec /\ \A t \in Threads : WF_vars(InCall(t))

-----------------------------------------------------------------------------
\* Every variable stays in its type.
TypeOK ==
    /\ devices_ \in [Sids -> Devices \cup {Nil}]
    /\ lock_ \in Threads \cup {NoThread}
    /\ call \in [Threads -> Calls] /\ made \in 0..MaxDevices

\* DeviceManager keeps the promise of DeviceMap when no two threads create.
Map == INSTANCE DeviceMap WITH map <- devices_
ImplementsDeviceMap == Map!Spec

\* Two ids never share a device, whoever created it.
DevicesDistinct ==
    \A s1, s2 \in Sids :
        s1 # s2 /\ devices_[s1] # Nil => devices_[s1] # devices_[s2]

\* No deadlock and no livelock: again and again some call returns, unless
\* from time to time no thread is inside a call.  A single thread may starve.
CallsReturn ==
    \/ []<>(\A t \in Threads : call[t].op = "idle")
    \/ []<><<\E t \in Threads : /\ call[t].op # "idle"
                                 /\ call'[t].op = "idle">>_vars

-----------------------------------------------------------------------------
\* "if the Device already exists, just reture an nil": a CreateDevice that
\* returns a device found its id free, so an id in use is never given another
\* device.
ExistingDeviceKept ==
    [][\A s \in Sids : devices_[s] # Nil => devices_'[s] \in {devices_[s], Nil}]_vars
=============================================================================
