------------------------------ MODULE MCGateway ------------------------------
(***************************************************************************)
(* Gateway for TLC: commands for the light of two lengths, a command for a *)
(* device nobody registered, one without an id, and input with no effect.  *)
(***************************************************************************)
EXTENDS Gateway

CONSTANTS Other

D(cmd, sid, data, len) == [cmd |-> cmd, sid |-> sid, data |-> data, len |-> len]

MCSids == {TestSid, NoSid, Other}

MCDatagrams ==
    {D("set", TestSid, "ON", 2), D("set", TestSid, "OFF", 3),
     D("set", TestSid, "stateless", 1), D("set", TestSid, "none", 3),
     D("set", Other, "ON", 2), D("set", NoSid, "OFF", 2),
     D("get", TestSid, "ON", 2), D("bad", NoSid, "none", 3),
     D("bad", NoSid, "none", 0)}
=============================================================================
