------------------------- MODULE MCTriggerRequests -------------------------
(***************************************************************************)
(* Three tables, one field and one tag each, as in config/database.xml:    *)
(* tables 0 and 1 are written on the same trigger, table 2 is read on it;  *)
(* table 0 is read by time as well.                                        *)
(***************************************************************************)
EXTENDS TriggerRequests, TLC

CONSTANTS none, null

MCRTrigger == 0 :> none @@ 1 :> 2 @@ 2 :> 1
MCWTrigger == 0 :> 1 @@ 1 :> 1 @@ 2 :> 2
MCDataType == 1 :> "INT"
MCLinks    == [t \in 0 .. 2 |-> << >>]
MCTbType   == [t \in 0 .. 2 |-> "LASTVALUE"]
MCBudget   == [poll |-> 0, edit |-> 0, raise |-> 3, fail |-> 2,
               restart |-> 1]
============================================================================
