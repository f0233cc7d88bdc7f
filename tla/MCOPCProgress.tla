---------------------------- MODULE MCOPCProgress ----------------------------
(***************************************************************************)
(* Two tables of one tag: table 0 keeps the last value, is read by time    *)
(* and written on trigger 1; table 1 logs, is read on trigger 1 and        *)
(* written on trigger 2.                                                   *)
(***************************************************************************)
EXTENDS OPCProgress, TLC

CONSTANTS none, null

MCRTrigger == 0 :> none @@ 1 :> 1
MCWTrigger == 0 :> 1 @@ 1 :> 2
MCDataType == 1 :> "INT"
MCLinks    == [t \in 0 .. 1 |-> << [field |-> "f", reg |-> 1] >>]
MCTbType   == 0 :> "LASTVALUE" @@ 1 :> "LOG"
MCBudget   == [poll |-> 1, edit |-> 1, raise |-> 1, fail |-> 1, restart |-> 1]
==============================================================================
