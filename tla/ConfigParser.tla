---------------------------- MODULE ConfigParser ----------------------------
(***************************************************************************)
(* retrieveCommParams of config.cpp: the slaves of slaves.xml are read one *)
(* after the other, each gets its commId and is checked against those read *)
(* before it.  The search of checkSlaveId is kept step by step, because it *)
(* is a loop that need not end.                                            *)
(*                                                                         *)
(* A slave of the file is a record: name and protocol; child, whether it   *)
(* has an element named like its protocol; and that element's attributes   *)
(* id and addr and the addresses of its tags, regs.  An attribute id that  *)
(* is missing reads 0.                                                     *)
(***************************************************************************)
EXTENDS Integers, Sequences

CONSTANTS
  IdLimit,     \* 1000 in checkSlaveId
  NoAddr       \* commAddr when there is no element to read it from

ASSUME IdLimitAssumption == IdLimit \in Nat \ {0}

VARIABLES
  slaves,        \* the slaves of slaves.xml
  slaveParams,   \* those read: [commType, commId, commAddr, regs, isValid]
  commId, match, j,   \* of checkSlaveId, for the slave being read
  at             \* where the program is

parser == << slaveParams, commId, match, j >>

(* The slave being read, and the id it asks for: -1 is the commId of       *)
(* mbSlaves, which only the element changes.                               *)
Current == slaves[Len(slaveParams) + 1]

Asked(s) == IF s.child THEN s.id ELSE -1

\* mutant: ids below 1 are left as they are
MutFirstId(asked) == asked

FirstId(asked) == IF asked <= 0 THEN 1 ELSE asked

ParserInit ==
  /\ slaveParams = << >>
  /\ commId = 0 /\ match = TRUE /\ j = 0

TakeSlave ==
  /\ at = "slave" /\ Len(slaveParams) < Len(slaves)
  /\ commId' = FirstId(Asked(Current))
  /\ match' = TRUE /\ j' = 0
  /\ at' = IF slaveParams = << >> THEN "checks" ELSE "while"
  /\ UNCHANGED slaveParams

(* while(match || commId > 1000): a pass over the slaves before, the last  *)
(* of them first.                                                          *)
\* mutant: the limit itself is above the limit
MutGoesOn == match \/ commId >= IdLimit

GoesOn == match \/ commId > IdLimit

NextPass ==
  /\ at = "while" /\ GoesOn
  /\ match' = FALSE /\ j' = Len(slaveParams)
  /\ at' = "compare"
  /\ UNCHANGED << slaveParams, commId >>

\* mutant: a match does not ask for another pass
MutMatches == match

Matches == match \/ commId = slaveParams[j].commId

Compare ==
  /\ at = "compare"
  /\ commId' = IF commId = slaveParams[j].commId THEN commId + 1 ELSE commId
  /\ match' = Matches
  /\ j' = j - 1
  /\ at' = IF j = 1 THEN "while" ELSE "compare"
  /\ UNCHANGED slaveParams

IdFound ==
  /\ at = "while" /\ ~GoesOn
  /\ commId' = IF commId < IdLimit THEN commId ELSE -1
  /\ at' = "checks"
  /\ UNCHANGED << slaveParams, match, j >>

(* checkSlaveName and checkSlaveProtocol; an element without tags makes    *)
(* the slave invalid after all (retrieveSlaveTags), no element does not.   *)
\* mutant: a slave is compared with itself too
MutSlaveIsValid(s) == \A k \in 1 .. Len(slaveParams) + 1 : slaves[k].name # s.name

SlaveIsValid(s) ==
  /\ \A k \in DOMAIN slaveParams : slaves[k].name # s.name
  /\ s.protocol = "MODBUSTCP"
  /\ s.child => s.regs # << >>

SlaveDone ==
  /\ at = "checks"
  /\ slaveParams' = Append(slaveParams,
       [commType |-> Current.protocol, commId |-> commId,
        commAddr |-> IF Current.child THEN Current.addr ELSE NoAddr,
        regs |-> IF Current.child THEN Current.regs ELSE << >>,
        isValid |-> SlaveIsValid(Current)])
  /\ at' = "slave"
  /\ UNCHANGED << commId, match, j >>

RetrieveCommParams == TakeSlave \/ NextPass \/ Compare \/ IdFound \/ SlaveDone

----------------------------------------------------------------------------
(* The id a slave gets, told without the loop: the first slave has the one *)
(* it asked for; any other the least that is not taken, from the one it    *)
(* asked for on, or -1 when that is IdLimit.  A search that would end      *)
(* above IdLimit has not ended (config.cpp:359).                           *)
TakenBefore(k) == {slaveParams[l].commId : l \in 1 .. k - 1}

LeastFree(id, from, taken) ==
  id >= from /\ id \notin taken /\ \A c \in from .. id - 1 : c \in taken

IdIsLeastFree ==
  \A k \in DOMAIN slaveParams :
    LET from == FirstId(Asked(slaves[k]))
    IN  IF k = 1
        THEN slaveParams[k].commId = from
        ELSE \/ /\ slaveParams[k].commId < IdLimit
                /\ LeastFree(slaveParams[k].commId, from, TakenBefore(k))
             \/ /\ slaveParams[k].commId = -1
                /\ LeastFree(IdLimit, from, TakenBefore(k))

(* The inductive invariant: the search has passed over taken ids only, and *)
(* in a pass without a match the slaves compared have another id.          *)
SearchInv ==
  LET k == Len(slaveParams) + 1
      from == FirstId(Asked(Current))
  IN  /\ Len(slaveParams) <= Len(slaves)
      /\ at \in {"while", "compare", "checks"} => k <= Len(slaves)
      /\ at \in {"while", "compare"} =>
           /\ slaveParams # << >> /\ commId \in Nat /\ commId >= from
           /\ \A c \in from .. commId - 1 : c \in TakenBefore(k)
           /\ ~match => \A l \in j + 1 .. Len(slaveParams) : slaveParams[l].commId # commId
      /\ at = "while" => j = 0
      /\ at = "compare" => j \in 1 .. Len(slaveParams)
      /\ at = "checks" =>
           IF slaveParams = << >>
           THEN commId = from
           ELSE \/ commId < IdLimit /\ LeastFree(commId, from, TakenBefore(k))
                \/ commId = -1 /\ LeastFree(IdLimit, from, TakenBefore(k))
=============================================================================
