-------------------------- MODULE MCDeviceRegistry --------------------------
(* DeviceRegistry for TLC. *)
EXTENDS DeviceRegistry
=============================================================================
