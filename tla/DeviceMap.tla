------------------------------ MODULE DeviceMap ------------------------------
(***************************************************************************)
(* What DeviceManager promises its callers: a map from device ids to       *)
(* devices.  A device is inserted only under a free id and keeps it until  *)
(* it is deleted.                                                          *)
(***************************************************************************)
CONSTANTS Sids, Devices, Nil

VARIABLE map

Init == map = [s \in Sids |-> Nil]

Insert(s, d) == map[s] = Nil /\ map' = [map EXCEPT ![s] = d]

Delete(s) == map[s] # Nil /\ map' = [map EXCEPT ![s] = Nil]

Next == \E s \in Sids : Delete(s) \/ \E d \in Devices : Insert(s, d)

Spec == Init /\ [][Next]_map
=============================================================================
