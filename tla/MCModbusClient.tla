--------------------------- MODULE MCModbusClient ---------------------------
(***************************************************************************)
(* Two slaves, the first with two cycles.  A slave that failed misses one  *)
(* poll.                                                                   *)
(***************************************************************************)
EXTENDS WriteDelivery

MCSlaveOf == << 1, 1, 2 >>
MCLimits  == [post |-> 3, fault |-> 2]
=============================================================================
