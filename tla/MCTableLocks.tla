---------------------------- MODULE MCTableLocks ----------------------------
(***************************************************************************)
(* Two tables.  Table 0 keeps the last value of the one tag, is read by    *)
(* time and written on the trigger; table 1 logs the tag on its read       *)
(* trigger, the same one.                                                  *)
(***************************************************************************)
EXTENDS TableLocks, TLC

CONSTANTS none, null

MCRTrigger == 0 :> none @@ 1 :> 1
MCWTrigger == 0 :> 1 @@ 1 :> none
MCDataType == 1 :> "INT"
MCLinks    == [t \in 0 .. 1 |-> << [field |-> "f", reg |-> 1] >>]
MCTbType   == 0 :> "LASTVALUE" @@ 1 :> "LOG"
MCBudget   == [poll |-> 2, edit |-> 1, raise |-> 1, fail |-> 1, restart |-> 1]

\* nobody but the daemon does anything
MCPollsOnly == [poll |-> 2, edit |-> 0, raise |-> 0, fail |-> 0, restart |-> 0]
=============================================================================
