-------------------------- MODULE TriggerRequests --------------------------
(***************************************************************************)
(* The life of a request: the operator raises a trigger, the OPC finds it, *)
(* sends every table written on it, and resets it.  The program's module   *)
(* with the history variables that life is told with.                      *)
(***************************************************************************)
EXTENDS ProintegraOPC

VARIABLES
  sent,    \* the tables dataToComm sent since the last takeTriggers
  fresh,   \* the names whose VALUE went from 0 to 1 since the last takeTriggers
  raised,  \* how often VALUE of a name went from 0 to 1, in this run of the process
  sends    \* how often a table was sent, in this run of the process

history == << sent, fresh, raised, sends >>
hvars == << vars, history >>

HInit ==
  /\ Init
  /\ sent = {} /\ fresh = {}
  /\ raised = [n \in Names |-> 0] /\ sends = [t \in Tables |-> 0]

HTakeTriggers == TakeTriggers /\ sent' = {} /\ fresh' = {} /\ UNCHANGED << raised, sends >>

HDataToComm ==
  /\ DataToComm
  /\ sent' = sent \union (wTodo \ wTodo')
  /\ sends' = [t \in Tables |-> IF t \in wTodo \ wTodo' THEN sends[t] + 1 ELSE sends[t]]
  /\ UNCHANGED << fresh, raised >>

HRaise(n) ==
  /\ Raise(n)
  /\ fresh' = IF n \in trigDB THEN fresh ELSE fresh \union {n}
  /\ raised' = IF n \in trigDB THEN raised ELSE [raised EXCEPT ![n] = @ + 1]
  /\ UNCHANGED << sent, sends >>

HRestart ==
  /\ Restart
  /\ sent' = {} /\ fresh' = {}
  /\ raised' = [n \in Names |-> IF n \in trigDB' THEN 1 ELSE 0]
  /\ sends' = [t \in Tables |-> 0]

OtherScan ==
  \/ LoopTop \/ ReadTagCheck \/ ReadTagUse \/ DataCaptured \/ LockTable
  \/ DataToCommDone \/ PickTable \/ StoreData \/ ResetTriggers

OtherActor ==
  \/ \E r \in Regs : Poll(r)
  \/ \E t \in Tables : Edit(t)
  \/ \E t \in Timed : Tick(t)
  \/ SigInt \/ Stopped

HNext ==
  \/ HTakeTriggers
  \/ HDataToComm
  \/ \E n \in Names : HRaise(n)
  \/ HRestart
  \/ (OtherScan \/ OtherActor) /\ UNCHANGED history

HSpec == HInit /\ [][HNext]_hvars

----------------------------------------------------------------------------
(* A trigger is reset by the OPC only in a scan that sent every table      *)
(* written on it: prointegraOPC.cpp:171-181 marks tables one by one, and   *)
(* piTriggersTable.cpp:232-252 spreads the mark by name to the other       *)
(* tables of the same trigger.                                             *)
ResetTheSent ==
  \A n \in trigDB \ trigDB' : \A t \in Tables : WTrigger[t] = n => t \in sent

ResetAfterSent == [][ResetTriggers => ResetTheSent]_hvars

(* A trigger raised from 0 while the scan runs is not reset by this scan,  *)
(* which has not seen it: the fields served in an earlier scan must be off *)
(* by then (piTriggersTable.cpp:215-216).                                  *)
ResetNoneFresh == (trigDB \ trigDB') \intersect fresh = {}

FreshRaiseKept == [][ResetTriggers => ResetNoneFresh]_hvars

(* A scan finds every raised trigger some table is written on, and resets  *)
(* what it took up, unless the SELECT or the UPDATE failed (which is what  *)
(* left tells): a field that was done is found again (piTriggersTable.cpp: *)
(* 203-220), and no field of the list is left unmarked by the loop of      *)
(* prointegraOPC.cpp:171-181.  SQLite loses the first row of the SELECT.   *)
TakesTheRaised ==
  left' = left /\ Driver = "QMYSQL" =>
    \A t \in Tables : WTrigger[t] \in trigDB => << t, "W" >> \in triggersLst'

ResetsTheTaken ==
  left' = left =>
    \A t \in Tables : << t, "W" >> \in triggersLst => WTrigger[t] \notin trigDB'

RaisedIsServed ==
  [][(TakeTriggers => TakesTheRaised) /\ (ResetTriggers => ResetsTheTaken)]_hvars

(* A table goes to the PLC once per raise of its trigger, once more only   *)
(* for a query that failed, and never without a raise since the process    *)
(* started: setup drops what was raised before (piDatabase.cpp:84-91),     *)
(* unless that query failed too.                                           *)
FailsUsed == Budget["fail"] - left["fail"]

SendsBounded ==
  \A t \in Tables :
    sends[t] > 0 =>
      /\ WTrigger[t] # NoTrigger
      /\ raised[WTrigger[t]] > 0
      /\ sends[t] <= raised[WTrigger[t]] + FailsUsed

----------------------------------------------------------------------------
(* What the two action properties rest on, an inductive invariant: the     *)
(* fields of one name are on and done together; those to be served have    *)
(* their trigger raised; and while a scan runs, the list it works on is    *)
(* the fields that are on, none of them done or raised afresh, of which    *)
(* the written tables are sent or still to send.                           *)
InScan == pc \in {"comm", "pick", "read", "readUse", "store"}

MarkedByName ==
  \A g, h \in TrgFields : NameOf(g) = NameOf(h) =>
    (g \in on <=> h \in on) /\ (g \in done <=> h \in done)

ServedIsRaised == \A g \in on \ done : NameOf(g) \in trigDB

ListIsOn ==
  /\ triggersLst = on /\ on \intersect done = {} /\ lstDone \subseteq triggersLst
  /\ \A g \in triggersLst : NameOf(g) \notin fresh

SentOrToSend ==
  \A t \in Tables : << t, "W" >> \in triggersLst =>
    t \in sent \/ (pc = "comm" /\ t \in wTodo)

(* No table is sent twice in a scan, and none without its trigger.         *)
ToSendOnce ==
  pc = "comm" => \A t \in wTodo : << t, "W" >> \in triggersLst /\ t \notin sent

RequestInv ==
  /\ MarkedByName
  /\ ServedIsRaised
  /\ InScan => ListIsOn /\ SentOrToSend
  /\ ToSendOnce

----------------------------------------------------------------------------
(* The OPC keeps what Requests promises: what a scan took up are the names *)
(* of its list, what it served are the tables dataToComm sent; a scan that *)
(* has not taken its triggers, or is over, has taken up nothing            *)
(* (prointegraOPC.cpp:282-295).                                            *)
TakenUp == IF InScan THEN {NameOf(g) : g \in triggersLst} ELSE {}
Served  == IF InScan THEN sent ELSE {}

R == INSTANCE Requests
       WITH raised <- trigDB, taken <- TakenUp, served <- Served, TriggerOf <- WTrigger,
            crashes <- Budget["restart"] - left["restart"]

KeepsRequests == R!Spec
============================================================================
