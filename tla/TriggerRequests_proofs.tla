----------------------- MODULE TriggerRequests_proofs -----------------------
(***************************************************************************)
(* A trigger is reset only in a scan that sent its tables, and never when  *)
(* it was raised during that scan: for any tables and triggers, either     *)
(* driver, and whatever queries fail.                                      *)
(***************************************************************************)
EXTENDS TriggerRequests, ProintegraOPC_proofs

LEMMA HNextNext == HNext => [Next]_vars
BY DEF HNext, HTakeTriggers, HDataToComm, HRaise, HRestart, OtherScan, OtherActor, Next,
       Scan, Others

LEMMA HistoryTypeCorrect == HSpec => []TypeOK
<1>1. HInit => TypeOK
  BY InitType DEF HInit
<1>2. TypeOK /\ [HNext]_hvars => TypeOK'
  <2>1. [HNext]_hvars => [Next]_vars
    BY HNextNext DEF hvars
  <2>. QED
    BY <2>1, NextType
<1>. QED
  BY <1>1, <1>2, PTL DEF HSpec

LEMMA WriteFieldName ==
  ASSUME NEW t \in Tables, WTrigger[t] # NoTrigger
  PROVE  << t, "W" >> \in TrgFields /\ NameOf(<< t, "W" >>) = WTrigger[t]
BY DEF TrgFields, NameOf

----------------------------------------------------------------------------
(* The actions that touch none of the variables of the invariant but pc.   *)
requestVars == << on, done, trigDB, triggersLst, lstDone, wTodo, sent, fresh >>

LEMMA KeepsInv ==
  ASSUME RequestInv, UNCHANGED requestVars, InScan' => InScan, pc' = "comm" <=> pc = "comm"
  PROVE  RequestInv'
BY DEF RequestInv, requestVars, MarkedByName, ServedIsRaised, ListIsOn, SentOrToSend,
       ToSendOnce

LEMMA OtherScanInv ==
  ASSUME TypeOK, RequestInv, OtherScan, UNCHANGED history
  PROVE  RequestInv'
<1>. USE DEF history
<1>1. CASE LoopTop
  BY <1>1, KeepsInv DEF LoopTop, requestVars, InScan, shared, triggers, work
<1>2. CASE ReadTagCheck \/ ReadTagUse
  <2>1. /\ UNCHANGED requestVars
        /\ pc \in {"capture", "read", "captureUse", "readUse"}
        /\ \/ NextTurn
           \/ pc = "capture" /\ pc' = "captureUse"
           \/ pc = "read" /\ pc' = "readUse"
    BY <1>2 DEF ReadTagCheck, ReadTagUse, requestVars, shared, triggers
  <2>2. NextTurn => \/ pc \in {"capture", "captureUse"} /\ pc' \in {"capture", "captured"}
                    \/ pc \notin {"capture", "captureUse"} /\ pc' \in {"read", "store"}
    BY DEF NextTurn, AfterRead
  <2>3. (InScan' => InScan) /\ pc' # "comm" /\ pc # "comm"
    BY <2>1, <2>2 DEF InScan
  <2>. QED
    BY <2>1, <2>3, KeepsInv
<1>3. CASE DataCaptured
  <2>1. pc = "captured" /\ pc' \in {"lock", "top"} /\ UNCHANGED requestVars
    BY <1>3 DEF DataCaptured, requestVars, shared, triggers, work
  <2>. QED
    BY <2>1, KeepsInv DEF InScan
<1>4. CASE LockTable
  <2>1. pc = "lock" /\ pc' \in {"lock", "triggers"} /\ UNCHANGED requestVars
    BY <1>4 DEF LockTable, requestVars, shared, triggers, work
  <2>. QED
    BY <2>1, KeepsInv DEF InScan
<1>5. CASE DataToCommDone
  <2>1. /\ pc = "comm" /\ wTodo = {} /\ pc' = "pick" /\ InScan
        /\ UNCHANGED requestVars
    BY <1>5 DEF DataToCommDone, requestVars, shared, triggers, InScan
  <2>2. MarkedByName' /\ ServedIsRaised' /\ ListIsOn'
    BY <2>1 DEF RequestInv, requestVars, MarkedByName, ServedIsRaised, ListIsOn
  <2>3. SentOrToSend'
    BY <2>1 DEF RequestInv, requestVars, SentOrToSend
  <2>. QED
    BY <2>1, <2>2, <2>3 DEF RequestInv, ToSendOnce
<1>6. CASE PickTable
  <2>1. /\ pc = "pick" /\ pc' \in {"pick", "read", "store"}
        /\ UNCHANGED requestVars
    BY <1>6 DEF PickTable, requestVars, shared, triggers
  <2>. QED
    BY <2>1, KeepsInv DEF InScan
<1>7. CASE StoreData
  <2>1. /\ pc = "store" /\ pc' \in {"aborted", "pick"}
        /\ lstDone' = lstDone \union RTriggerDoneAt(j)
        /\ UNCHANGED << on, done, trigDB, triggersLst, wTodo, sent, fresh >>
    BY <1>7 DEF StoreData
  <2>2. RTriggerDoneAt(j) \subseteq triggersLst
    BY DEF RTriggerDoneAt
  <2>3. ListIsOn /\ SentOrToSend
    BY <2>1 DEF RequestInv, InScan
  <2>4. ListIsOn' /\ SentOrToSend'
    BY <2>1, <2>2, <2>3 DEF ListIsOn, SentOrToSend
  <2>5. MarkedByName' /\ ServedIsRaised'
    BY <2>1 DEF RequestInv, MarkedByName, ServedIsRaised
  <2>. QED
    BY <2>1, <2>4, <2>5 DEF RequestInv, ToSendOnce
<1>8. CASE ResetTriggers
  <2>1. PICK ok \in BOOLEAN :
          trigDB' = IF ok THEN trigDB \ SqlTrgsDone(on, done') ELSE trigDB
    BY <1>8 DEF ResetTriggers
  <2>2. /\ done' = UpdtTrgsDone(done, lstDone) /\ on' = on
        /\ ~InScan' /\ ToSendOnce'
    BY <1>8 DEF ResetTriggers, InScan, ToSendOnce
  <2>3. MarkedByName'
    BY <2>2 DEF RequestInv, MarkedByName, UpdtTrgsDone
  <2>4. ServedIsRaised'
    <3>. SUFFICES ASSUME NEW g \in on, g \notin done'
                  PROVE  NameOf(g) \in trigDB'
      BY <2>2 DEF ServedIsRaised
    <3>1. g \in TrgFields /\ on \subseteq TrgFields
      BY DEF TypeOK
    <3>2. NameOf(g) \in trigDB
      BY <2>2 DEF RequestInv, ServedIsRaised, UpdtTrgsDone
    <3>3. NameOf(g) \notin SqlTrgsDone(on, done')
      BY <2>2, <2>3, <3>1 DEF SqlTrgsDone, MarkedByName
    <3>. QED
      BY <2>1, <3>2, <3>3
  <2>. QED
    BY <2>2, <2>3, <2>4 DEF RequestInv
<1>. QED
  BY <1>1, <1>2, <1>3, <1>4, <1>5, <1>6, <1>7, <1>8 DEF OtherScan

LEMMA OtherActorInv ==
  ASSUME RequestInv, OtherActor, UNCHANGED history
  PROVE  RequestInv'
<1>1. UNCHANGED << requestVars, pc >>
  BY DEF OtherActor, Poll, Edit, Tick, SigInt, Stopped, requestVars, OpcUnchanged, vars,
         shared, triggers, work, history
<1>. QED
  BY <1>1, KeepsInv DEF InScan

(* takeTriggers makes the list: what it finds raised, and what it could    *)
(* not serve yet.                                                          *)
LEMMA TakeTriggersInv ==
  ASSUME TypeOK, RequestInv, HTakeTriggers
  PROVE  RequestInv'
<1>1. PICK names \in SUBSET trigDB :
        on' = UpdtTrgsOn(on, done, names) /\ done' = UpdtTrgsNotDone(done, names)
  BY DEF HTakeTriggers, TakeTriggers, TriggersOn
<1>2. /\ triggersLst' = on' \ done' /\ lstDone' = {} /\ fresh' = {}
      /\ wTodo' = {t \in Tables : << t, "W" >> \in triggersLst'}
      /\ pc' = "comm" /\ trigDB' = trigDB
  BY DEF HTakeTriggers, TakeTriggers, RetTgsLst, shared
<1>3. MarkedByName'
  BY <1>1 DEF RequestInv, MarkedByName, UpdtTrgsOn, UpdtTrgsNotDone
<1>4. ServedIsRaised'
  BY <1>1, <1>2 DEF RequestInv, ServedIsRaised, UpdtTrgsOn, UpdtTrgsNotDone
<1>5. on' \intersect done' = {}
  BY <1>1 DEF UpdtTrgsOn, UpdtTrgsNotDone
<1>6. ListIsOn' /\ SentOrToSend' /\ ToSendOnce'
  BY <1>2, <1>5 DEF ListIsOn, SentOrToSend, HTakeTriggers, ToSendOnce
<1>. QED
  BY <1>3, <1>4, <1>6 DEF RequestInv

LEMMA DataToCommInv ==
  ASSUME RequestInv, HDataToComm
  PROVE  RequestInv'
<1>1. PICK t \in Tables : /\ lstDone' = lstDone \union WTriggerDoneAt(t)
                          /\ wTodo' = wTodo \ {t}
  BY DEF HDataToComm, DataToComm
<1>2. /\ pc = "comm" /\ pc' = "comm" /\ InScan
      /\ sent' = sent \union (wTodo \ wTodo')
      /\ UNCHANGED << on, done, trigDB, triggersLst, fresh >>
  BY DEF HDataToComm, DataToComm, shared, InScan
<1>3. MarkedByName' /\ ServedIsRaised'
  BY <1>2 DEF RequestInv, MarkedByName, ServedIsRaised
<1>4. ListIsOn'
  BY <1>1, <1>2 DEF RequestInv, ListIsOn, WTriggerDoneAt
<1>5. SentOrToSend'
  BY <1>1, <1>2 DEF RequestInv, SentOrToSend
<1>6. ToSendOnce'
  BY <1>1, <1>2 DEF RequestInv, ToSendOnce
<1>. QED
  BY <1>3, <1>4, <1>5, <1>6 DEF RequestInv

(* A trigger raised during a scan is not one the scan serves: those are    *)
(* raised already.                                                         *)
LEMMA RaiseInv ==
  ASSUME TypeOK, RequestInv, NEW n \in Names, HRaise(n)
  PROVE  RequestInv'
<1>1. /\ trigDB' = trigDB \union {n}
      /\ fresh' = IF n \in trigDB THEN fresh ELSE fresh \union {n}
      /\ UNCHANGED << pc, on, done, triggersLst, lstDone, wTodo, sent >>
  BY DEF HRaise, Raise, OpcUnchanged, triggers, work
<1>2. MarkedByName' /\ ServedIsRaised'
  BY <1>1 DEF RequestInv, MarkedByName, ServedIsRaised
<1>3. InScan => ListIsOn'
  BY <1>1 DEF RequestInv, ListIsOn, ServedIsRaised
<1>4. InScan => SentOrToSend'
  BY <1>1 DEF RequestInv, SentOrToSend
<1>5. ToSendOnce'
  BY <1>1 DEF RequestInv, ToSendOnce
<1>. QED
  BY <1>1, <1>2, <1>3, <1>4, <1>5 DEF RequestInv, InScan

LEMMA RestartInv ==
  ASSUME HRestart
  PROVE  RequestInv'
<1>1. on' = {} /\ done' = {} /\ pc' = "top"
  BY DEF HRestart, Restart
<1>. QED
  BY <1>1 DEF RequestInv, MarkedByName, ServedIsRaised, InScan, ToSendOnce

LEMMA HNextInv == TypeOK /\ RequestInv /\ [HNext]_hvars => RequestInv'
<1>. SUFFICES ASSUME TypeOK, RequestInv, [HNext]_hvars PROVE RequestInv'
  OBVIOUS
<1>1. CASE UNCHANGED hvars
  <2>1. UNCHANGED << requestVars, pc >>
    BY <1>1 DEF hvars, vars, history, requestVars, shared, triggers, work
  <2>. QED
    BY <2>1, KeepsInv DEF InScan
<1>2. CASE HNext
  BY <1>2, TakeTriggersInv, DataToCommInv, RaiseInv, RestartInv, OtherScanInv,
     OtherActorInv
  DEF HNext
<1>. QED
  BY <1>1, <1>2

(* The invariant the scan's work rests on holds always: see its comment.   *)
THEOREM RequestInvariant == HSpec => []RequestInv
<1>1. HInit => RequestInv
  BY DEF HInit, Init, RequestInv, MarkedByName, ServedIsRaised, InScan, ToSendOnce
<1>. QED
  BY <1>1, HNextInv, HistoryTypeCorrect, PTL DEF HSpec

----------------------------------------------------------------------------
(* What resetSQLTriggers resets is the name of a field of the list that    *)
(* was on and was served.                                                  *)
LEMMA ResetIsServed ==
  ASSUME TypeOK, RequestInv, ResetTriggers, NEW n \in trigDB \ trigDB'
  PROVE  /\ ListIsOn /\ SentOrToSend /\ pc = "pick"
         /\ \E g \in triggersLst : NameOf(g) = n
<1>1. pc = "pick" /\ done' = UpdtTrgsDone(done, lstDone)
  BY DEF ResetTriggers
<1>2. ListIsOn /\ SentOrToSend
  BY <1>1 DEF RequestInv, InScan
<1>3. n \in SqlTrgsDone(on, done')
  BY DEF ResetTriggers
<1>4. PICK g \in on \intersect done' : NameOf(g) = n
  BY <1>3 DEF SqlTrgsDone
<1>5. g \in triggersLst
  BY <1>2 DEF ListIsOn
<1>. QED
  BY <1>1, <1>2, <1>4, <1>5

LEMMA ResetSent ==
  ASSUME TypeOK, RequestInv, ResetTriggers
  PROVE  ResetTheSent
<1>. SUFFICES ASSUME NEW n \in trigDB \ trigDB', NEW t \in Tables, WTrigger[t] = n
              PROVE  t \in sent
  BY DEF ResetTheSent
<1>1. n # NoTrigger
  BY NamesAssumption DEF TypeOK
<1>2. << t, "W" >> \in TrgFields /\ NameOf(<< t, "W" >>) = n
  BY <1>1, WriteFieldName
<1>3. PICK g \in triggersLst : NameOf(g) = n
  BY ResetIsServed
<1>4. ListIsOn /\ SentOrToSend /\ pc = "pick"
  BY ResetIsServed
<1>5. << t, "W" >> \in triggersLst
  BY <1>2, <1>3, <1>4 DEF TypeOK, RequestInv, MarkedByName, ListIsOn
<1>. QED
  BY <1>4, <1>5 DEF SentOrToSend

(* A trigger is reset only once every table written on it was sent.        *)
THEOREM ResetOnlyAfterSent == HSpec => ResetAfterSent
<1>1. TypeOK /\ RequestInv /\ [HNext]_hvars => [ResetTriggers => ResetTheSent]_hvars
  BY ResetSent
<1>. QED
  BY <1>1, RequestInvariant, HistoryTypeCorrect, PTL DEF HSpec, ResetAfterSent

(* A trigger raised from 0 while the scan runs is not reset by this scan.  *)
THEOREM FreshRaiseIsKept == HSpec => FreshRaiseKept
<1>1. TypeOK /\ RequestInv /\ ResetTriggers => ResetNoneFresh
  <2>. SUFFICES ASSUME TypeOK, RequestInv, ResetTriggers, NEW n \in trigDB \ trigDB'
                PROVE  n \notin fresh
    BY DEF ResetNoneFresh
  <2>. QED
    BY ResetIsServed DEF ListIsOn
<1>2. TypeOK /\ RequestInv /\ [HNext]_hvars => [ResetTriggers => ResetNoneFresh]_hvars
  BY <1>1
<1>. QED
  BY <1>2, RequestInvariant, HistoryTypeCorrect, PTL DEF HSpec, FreshRaiseKept

----------------------------------------------------------------------------
(* The refinement.  A step of the OPC changes what is taken up or served   *)
(* only where a scan takes its triggers, sends a table, or ends.           *)

crashes == Budget["restart"] - left["restart"]

LEMMA SameMapped ==
  ASSUME UNCHANGED << trigDB, triggersLst, sent, crashes >>, InScan' <=> InScan
  PROVE  UNCHANGED R!vars
BY DEF R!vars, TakenUp, Served, crashes

(* No action but Restart spends the restarts.                              *)
LEMMA QueryKeepsCrashes ==
  ASSUME left \in [BudgetKinds -> Nat],
         \/ UNCHANGED left
         \/ \E kind \in BudgetKinds \ {"restart"} : Spend(kind)
         \/ \E ok \in BOOLEAN : Query(ok)
  PROVE  UNCHANGED crashes
<1>1. "restart" \in BudgetKinds /\ "fail" \in BudgetKinds /\ "restart" # "fail"
  BY DEF BudgetKinds
<1>2. ASSUME NEW kind \in BudgetKinds \ {"restart"}, Spend(kind)
      PROVE  left'["restart"] = left["restart"]
  BY <1>1, <1>2 DEF Spend
<1>. QED
  BY <1>1, <1>2 DEF Query, crashes

LEMMA ScanSteps ==
  ASSUME TypeOK, RequestInv, OtherScan, UNCHANGED history
  PROVE  [R!Next]_R!vars
<1>. USE DEF history
<1>0. left \in [BudgetKinds -> Nat]
  BY DEF TypeOK
<1>1. CASE LoopTop \/ DataCaptured
  <2>1. UNCHANGED << trigDB, triggersLst, sent, left >> /\ ~InScan /\ ~InScan'
    BY <1>1 DEF LoopTop, DataCaptured, InScan, shared, triggers
  <2>. QED
    BY <2>1, SameMapped DEF crashes
<1>2. CASE ReadTagCheck \/ ReadTagUse
  <2>1. /\ UNCHANGED << trigDB, triggersLst, sent, left >>
        /\ pc \in {"capture", "read", "captureUse", "readUse"}
        /\ \/ NextTurn
           \/ pc = "capture" /\ pc' = "captureUse"
           \/ pc = "read" /\ pc' = "readUse"
    BY <1>2 DEF ReadTagCheck, ReadTagUse, shared, triggers
  <2>2. NextTurn => \/ pc \in {"capture", "captureUse"} /\ pc' \in {"capture", "captured"}
                    \/ pc \notin {"capture", "captureUse"} /\ pc' \in {"read", "store"}
    BY DEF NextTurn, AfterRead
  <2>3. InScan' <=> InScan
    BY <2>1, <2>2 DEF InScan
  <2>. QED
    BY <2>1, <2>3, SameMapped DEF crashes
<1>3. CASE LockTable
  <2>1. UNCHANGED << trigDB, triggersLst, sent >> /\ ~InScan /\ ~InScan'
    BY <1>3 DEF LockTable, InScan, shared, triggers
  <2>2. \E ok \in BOOLEAN : Query(ok)
    BY <1>3 DEF LockTable
  <2>. QED
    BY <1>0, <2>1, <2>2, SameMapped, QueryKeepsCrashes
<1>4. CASE DataToCommDone \/ PickTable
  <2>1. UNCHANGED << trigDB, triggersLst, sent, left >> /\ InScan /\ InScan'
    BY <1>4 DEF DataToCommDone, PickTable, InScan, shared, triggers
  <2>. QED
    BY <2>1, SameMapped DEF crashes
<1>5. CASE StoreData
  <2>1. /\ UNCHANGED << trigDB, triggersLst, sent >>
        /\ InScan /\ pc' \in {"pick", "aborted"}
    BY <1>5 DEF StoreData, InScan
  <2>2. UNCHANGED left \/ \E ok \in BOOLEAN : Query(ok)
    BY <1>5 DEF StoreData
  <2>3. UNCHANGED crashes
    BY <1>0, <2>2, QueryKeepsCrashes
  <2>4. CASE pc' = "pick"
    BY <2>1, <2>3, <2>4, SameMapped DEF InScan
  <2>5. CASE pc' = "aborted"
    <3>1. TakenUp' = {} /\ Served' = {}
      BY <2>5 DEF TakenUp, Served, InScan
    <3>2. R!Finish({})
      BY <2>1, <2>3, <3>1 DEF R!Finish, crashes
    <3>. QED
      BY <3>2 DEF R!Next
  <2>. QED
    BY <2>1, <2>4, <2>5
<1>6. CASE ResetTriggers
  <2>. DEFINE N == trigDB \ trigDB'
  <2>1. InScan /\ ~InScan' /\ \E ok \in BOOLEAN : Query(ok)
    BY <1>6 DEF ResetTriggers, InScan
  <2>2. TakenUp' = {} /\ Served' = {} /\ UNCHANGED crashes
    BY <1>0, <2>1, QueryKeepsCrashes DEF TakenUp, Served
  <2>3. N \in SUBSET TakenUp
    BY <1>6, <2>1, ResetIsServed DEF TakenUp
  <2>4. \A n \in N : R!WrittenOn(n) \subseteq Served
    BY <1>6, <2>1, ResetSent DEF ResetTheSent, R!WrittenOn, Served
  <2>5. trigDB' = trigDB \ N
    BY <1>6 DEF ResetTriggers
  <2>6. R!Finish(N)
    BY <2>2, <2>4, <2>5 DEF R!Finish, crashes
  <2>. QED
    BY <2>3, <2>6 DEF R!Next
<1>. QED
  BY <1>1, <1>2, <1>3, <1>4, <1>5, <1>6 DEF OtherScan

LEMMA ActorSteps ==
  ASSUME TypeOK, OtherActor, UNCHANGED history
  PROVE  UNCHANGED R!vars
<1>1. UNCHANGED << trigDB, triggersLst, sent, pc >>
  BY DEF OtherActor, Poll, Edit, Tick, SigInt, Stopped, OpcUnchanged, vars, shared, triggers,
         history
<1>2. UNCHANGED left \/ \E kind \in BudgetKinds \ {"restart"} : Spend(kind)
  <2>1. "poll" \in BudgetKinds \ {"restart"} /\ "edit" \in BudgetKinds \ {"restart"}
    BY DEF BudgetKinds
  <2>. QED
    BY <2>1 DEF OtherActor, Poll, Edit, Tick, SigInt, Stopped, vars
<1>. QED
  BY <1>1, <1>2, SameMapped, QueryKeepsCrashes DEF InScan, TypeOK

LEMMA TakeStep ==
  ASSUME TypeOK, RequestInv, HTakeTriggers
  PROVE  R!Next
<1>1. /\ ~InScan /\ InScan' /\ sent' = {} /\ trigDB' = trigDB
      /\ \E ok \in BOOLEAN : Query(ok)
  BY DEF HTakeTriggers, TakeTriggers, InScan, shared
<1>2. TakenUp = {} /\ Served' = {} /\ UNCHANGED crashes
  BY <1>1, QueryKeepsCrashes DEF TakenUp, Served, TypeOK
<1>3. ListIsOn' /\ ServedIsRaised'
  BY <1>1, TakeTriggersInv DEF RequestInv
<1>4. TakenUp' \in SUBSET trigDB
  BY <1>1, <1>3 DEF TakenUp, ListIsOn, ServedIsRaised
<1>5. R!Take(TakenUp')
  BY <1>1, <1>2 DEF R!Take, crashes
<1>. QED
  BY <1>4, <1>5 DEF R!Next

LEMMA SendStep ==
  ASSUME TypeOK, RequestInv, HDataToComm
  PROVE  R!Next
<1>1. PICK t \in Tables : t \in wTodo /\ wTodo' = wTodo \ {t}
  BY DEF HDataToComm, DataToComm, IsFirst
<1>2. /\ pc = "comm" /\ InScan /\ InScan' /\ sent' = sent \union {t}
      /\ UNCHANGED << trigDB, triggersLst >>
  BY <1>1 DEF HDataToComm, DataToComm, shared, InScan
<1>3. UNCHANGED crashes
  BY QueryKeepsCrashes DEF HDataToComm, DataToComm, TypeOK
<1>4. << t, "W" >> \in triggersLst /\ t \notin sent
  BY <1>1, <1>2 DEF RequestInv, ToSendOnce
<1>5. NameOf(<< t, "W" >>) = WTrigger[t]
  BY DEF NameOf
<1>6. R!Send(t)
  BY <1>2, <1>3, <1>4, <1>5 DEF R!Send, TakenUp, Served, crashes
<1>. QED
  BY <1>6 DEF R!Next

LEMMA RaiseStep ==
  ASSUME TypeOK, NEW n \in Names, HRaise(n)
  PROVE  R!Next
<1>1. /\ trigDB' = trigDB \union {n} /\ Spend("raise")
      /\ UNCHANGED << pc, triggersLst, sent >>
  BY DEF HRaise, Raise, OpcUnchanged, triggers
<1>2. "raise" \in BudgetKinds \ {"restart"}
  BY DEF BudgetKinds
<1>3. UNCHANGED crashes
  BY <1>1, <1>2, QueryKeepsCrashes DEF TypeOK
<1>4. R!Raise(n)
  BY <1>1, <1>3 DEF R!Raise, TakenUp, Served, InScan, crashes
<1>. QED
  BY <1>4 DEF R!Next

LEMMA CrashStep ==
  ASSUME TypeOK, HRestart
  PROVE  R!Next
<1>1. trigDB' \in SUBSET trigDB /\ ~InScan'
  BY DEF HRestart, Restart, InScan
<1>2. "restart" \in BudgetKinds /\ "fail" \in BudgetKinds /\ "restart" # "fail"
  BY DEF BudgetKinds
<1>3. left \in [BudgetKinds -> Nat] /\ Budget \in [BudgetKinds -> Nat]
  BY BudgetAssumption DEF TypeOK
<1>4. left'["restart"] = left["restart"] - 1
  BY <1>2, <1>3 DEF HRestart, Restart
<1>5. crashes' = crashes + 1
  BY <1>2, <1>3, <1>4 DEF crashes
<1>6. R!Crash(trigDB')
  BY <1>1, <1>5 DEF R!Crash, TakenUp, Served, crashes
<1>. QED
  BY <1>1, <1>6 DEF R!Next

(* The OPC implements the abstract specification of requests: each of its  *)
(* steps takes up triggers, sends one table of one taken up, finishes, or  *)
(* changes nothing an operator who waits for a trigger could tell.         *)
THEOREM OPCKeepsRequests == HSpec => KeepsRequests
<1>1. HInit => R!Init
  <2>1. Budget["restart"] \in Nat
    BY BudgetAssumption DEF BudgetKinds
  <2>. QED
    BY <2>1 DEF HInit, Init, R!Init, TakenUp, Served, InScan
<1>2. TypeOK /\ RequestInv /\ [HNext]_hvars => [R!Next]_R!vars
  <2>. SUFFICES ASSUME TypeOK, RequestInv, [HNext]_hvars PROVE [R!Next]_R!vars
    OBVIOUS
  <2>1. CASE UNCHANGED hvars
    BY <2>1, SameMapped DEF hvars, vars, history, shared, triggers, InScan, crashes
  <2>2. CASE HNext
    BY <2>2, ScanSteps, ActorSteps, TakeStep, SendStep, RaiseStep, CrashStep DEF HNext
  <2>. QED
    BY <2>1, <2>2
<1>. QED
  BY <1>1, <1>2, RequestInvariant, HistoryTypeCorrect, PTL
  DEF HSpec, KeepsRequests, R!Spec

----------------------------------------------------------------------------
(* How often a table is sent.  A raise is owed one sending until the scan  *)
(* that took it up has made it, and a reset that fails makes it owed anew: *)
(* what was sent and what is owed never exceed the raises and the failures.*)
Busy == InScan \/ pc = "aborted"

Pending(t) ==
  WTrigger[t] \in trigDB /\ ~(Busy /\ << t, "W" >> \in triggersLst /\ t \in sent)

Owed(t) == IF Pending(t) THEN 1 ELSE 0

SentIsMarked ==
  InScan => \A t \in sent : << t, "W" >> \in triggersLst => << t, "W" >> \in lstDone

SendsPaid(t) ==
  /\ sends[t] + Owed(t) <= raised[WTrigger[t]] + FailsUsed
  /\ raised[WTrigger[t]] = 0 => sends[t] = 0 /\ WTrigger[t] \notin trigDB

Counters == raised \in [Names -> Nat] /\ sends \in [Tables -> Nat]

SendInv ==
  /\ Counters
  /\ left["fail"] <= Budget["fail"]
  /\ SentIsMarked
  /\ \A t \in Tables :
       IF WTrigger[t] = NoTrigger THEN sends[t] = 0 ELSE SendsPaid(t)

LEMMA Fails ==
  ASSUME TypeOK
  PROVE  /\ left["fail"] \in Nat /\ Budget["fail"] \in Nat
         /\ \A kind \in BudgetKinds \ {"fail"} : Spend(kind) => left'["fail"] = left["fail"]
         /\ \A ok \in BOOLEAN :
              Query(ok) => /\ left'["fail"] \in Nat
                           /\ left'["fail"] = IF ok THEN left["fail"] ELSE left["fail"] - 1
<1>1. "fail" \in BudgetKinds
  BY DEF BudgetKinds
<1>2. left \in [BudgetKinds -> Nat] /\ Budget \in [BudgetKinds -> Nat]
  BY BudgetAssumption DEF TypeOK
<1>3. ASSUME NEW kind \in BudgetKinds \ {"fail"}, Spend(kind)
      PROVE  left'["fail"] = left["fail"]
  BY <1>1, <1>2, <1>3 DEF Spend
<1>4. ASSUME NEW ok \in BOOLEAN, Query(ok)
      PROVE  /\ left'["fail"] \in Nat
             /\ left'["fail"] = IF ok THEN left["fail"] ELSE left["fail"] - 1
  BY <1>1, <1>2, <1>4 DEF Query, Spend
<1>. QED
  BY <1>1, <1>2, <1>3, <1>4

LEMMA WriteTriggerIsName ==
  ASSUME NEW t \in Tables, WTrigger[t] # NoTrigger
  PROVE  WTrigger[t] \in Names
BY TriggerAssumption

(* What a step sends and owes anew must be paid by a raise or a failure.   *)
LEMMA PaidStep ==
  ASSUME TypeOK, SendInv, Counters', NEW t \in Tables, WTrigger[t] # NoTrigger,
         left'["fail"] \in Nat,
         sends'[t] + Owed(t)' + left'["fail"] + raised[WTrigger[t]]
           <= sends[t] + Owed(t) + left["fail"] + raised'[WTrigger[t]],
         raised'[WTrigger[t]] = 0 => sends'[t] = 0 /\ WTrigger[t] \notin trigDB'
  PROVE  SendsPaid(t)'
<1>1. WTrigger[t] \in Names
  BY WriteTriggerIsName
<1>2. SendsPaid(t) /\ raised[WTrigger[t]] \in Nat /\ sends[t] \in Nat
  BY <1>1 DEF SendInv, Counters
<1>3. raised'[WTrigger[t]] \in Nat /\ sends'[t] \in Nat
  BY <1>1 DEF Counters
<1>4. Owed(t) \in Int /\ Owed(t)' \in Int
  BY DEF Owed
<1>5. left["fail"] \in Nat /\ Budget["fail"] \in Nat
  BY Fails
<1>. QED
  BY <1>2, <1>3, <1>4, <1>5 DEF SendsPaid, FailsUsed

(* A step that leaves what is sent, owed and counted alone.                *)
sendVars == << trigDB, triggersLst, sent, raised, sends >>

LEMMA KeepsSends ==
  ASSUME TypeOK, SendInv, UNCHANGED sendVars, lstDone \subseteq lstDone',
         Busy' <=> Busy, InScan' => InScan,
         left'["fail"] \in Nat, left'["fail"] <= left["fail"]
  PROVE  SendInv'
<1>1. Budget["fail"] \in Nat /\ left["fail"] \in Nat
  BY Fails
<1>2. Counters' /\ left'["fail"] <= Budget["fail"] /\ SentIsMarked'
  BY <1>1 DEF SendInv, Counters, SentIsMarked, sendVars
<1>3. ASSUME NEW t \in Tables, WTrigger[t] # NoTrigger
      PROVE  SendsPaid(t)'
  <2>1. WTrigger[t] \in Names
    BY <1>3, WriteTriggerIsName
  <2>2. Owed(t)' = Owed(t) /\ Owed(t) \in Int
    BY DEF Owed, Pending, sendVars
  <2>3. /\ sends'[t] = sends[t] /\ sends[t] \in Nat
        /\ raised'[WTrigger[t]] = raised[WTrigger[t]] /\ raised[WTrigger[t]] \in Nat
        /\ trigDB' = trigDB
    BY <2>1 DEF sendVars, SendInv, Counters
  <2>4. sends'[t] + Owed(t)' + left'["fail"] + raised[WTrigger[t]]
          <= sends[t] + Owed(t) + left["fail"] + raised'[WTrigger[t]]
    BY <1>1, <2>2, <2>3
  <2>5. raised[WTrigger[t]] = 0 => sends[t] = 0 /\ WTrigger[t] \notin trigDB
    BY <1>3 DEF SendInv, SendsPaid
  <2>. QED
    BY <1>2, <1>3, <2>3, <2>4, <2>5, PaidStep
<1>4. ASSUME NEW t \in Tables, WTrigger[t] = NoTrigger
      PROVE  sends'[t] = 0
  BY <1>4 DEF SendInv, sendVars
<1>. QED
  BY <1>2, <1>3, <1>4 DEF SendInv

LEMMA OtherScanSends ==
  ASSUME TypeOK, RequestInv, SendInv, OtherScan, UNCHANGED history
  PROVE  SendInv'
<1>0. left["fail"] \in Nat /\ UNCHANGED << raised, sends, sent >>
  BY Fails DEF history
<1>q. ASSUME UNCHANGED left \/ \E ok \in BOOLEAN : Query(ok)
      PROVE  left'["fail"] \in Nat /\ left'["fail"] <= left["fail"]
  BY <1>0, <1>q, Fails
<1>1. CASE LoopTop \/ DataCaptured
  <2>1. /\ UNCHANGED << trigDB, triggersLst, lstDone, left >>
        /\ ~Busy /\ ~Busy'
    BY <1>1 DEF LoopTop, DataCaptured, Busy, InScan, shared, triggers
  <2>. QED
    BY <1>0, <2>1, KeepsSends DEF Busy, sendVars
<1>2. CASE ReadTagCheck \/ ReadTagUse
  <2>1. /\ UNCHANGED << trigDB, triggersLst, lstDone, left >>
        /\ pc \in {"capture", "read", "captureUse", "readUse"}
        /\ \/ NextTurn
           \/ pc = "capture" /\ pc' = "captureUse"
           \/ pc = "read" /\ pc' = "readUse"
    BY <1>2 DEF ReadTagCheck, ReadTagUse, shared, triggers
  <2>2. NextTurn => \/ pc \in {"capture", "captureUse"} /\ pc' \in {"capture", "captured"}
                    \/ pc \notin {"capture", "captureUse"} /\ pc' \in {"read", "store"}
    BY DEF NextTurn, AfterRead
  <2>3. (Busy' <=> Busy) /\ (InScan' => InScan)
    BY <2>1, <2>2 DEF InScan, Busy
  <2>. QED
    BY <1>0, <2>1, <2>3, KeepsSends DEF sendVars
<1>3. CASE LockTable
  <2>1. UNCHANGED << trigDB, triggersLst, lstDone >> /\ ~Busy /\ ~Busy'
    BY <1>3 DEF LockTable, InScan, Busy, shared, triggers
  <2>2. \E ok \in BOOLEAN : Query(ok)
    BY <1>3 DEF LockTable
  <2>. QED
    BY <1>0, <1>q, <2>1, <2>2, KeepsSends DEF sendVars, Busy
<1>4. CASE DataToCommDone \/ PickTable
  <2>1. UNCHANGED << trigDB, triggersLst, lstDone, left >> /\ InScan /\ InScan'
    BY <1>4 DEF DataToCommDone, PickTable, InScan, shared, triggers
  <2>. QED
    BY <1>0, <2>1, KeepsSends DEF sendVars, Busy
<1>5. CASE StoreData
  <2>1. /\ UNCHANGED << trigDB, triggersLst >> /\ lstDone \subseteq lstDone'
        /\ InScan /\ Busy'
    BY <1>5 DEF StoreData, InScan, Busy
  <2>2. UNCHANGED left \/ \E ok \in BOOLEAN : Query(ok)
    BY <1>5 DEF StoreData
  <2>. QED
    BY <1>0, <1>q, <2>1, <2>2, KeepsSends DEF sendVars, Busy
<1>6. CASE ResetTriggers
  <2>1. PICK ok \in BOOLEAN :
          /\ Query(ok)
          /\ trigDB' = IF ok THEN trigDB \ SqlTrgsDone(on, done') ELSE trigDB
    BY <1>6 DEF ResetTriggers
  <2>2. /\ pc = "pick" /\ InScan /\ ~InScan' /\ ~Busy'
        /\ done' = UpdtTrgsDone(done, lstDone)
        /\ UNCHANGED << triggersLst, lstDone >>
    BY <1>6 DEF ResetTriggers, InScan, Busy
  <2>3. /\ left'["fail"] \in Nat
        /\ left'["fail"] = IF ok THEN left["fail"] ELSE left["fail"] - 1
        /\ Budget["fail"] \in Nat
    BY <2>1, Fails
  <2>4. Counters' /\ SentIsMarked' /\ left'["fail"] <= Budget["fail"]
    BY <1>0, <2>2, <2>3 DEF SendInv, Counters, SentIsMarked
  <2>5. ASSUME NEW t \in Tables, WTrigger[t] # NoTrigger
        PROVE  SendsPaid(t)'
    <3>1. WTrigger[t] \in Names
      BY <2>5, WriteTriggerIsName
    <3>2. /\ sends'[t] = sends[t] /\ sends[t] \in Nat
          /\ raised'[WTrigger[t]] = raised[WTrigger[t]] /\ raised[WTrigger[t]] \in Nat
          /\ raised[WTrigger[t]] = 0 => sends[t] = 0 /\ WTrigger[t] \notin trigDB
      BY <1>0, <2>5, <3>1 DEF SendInv, Counters, SendsPaid
    <3>3. ASSUME ok, Pending(t)' PROVE Pending(t)
      <4>1. WTrigger[t] \in trigDB /\ WTrigger[t] \notin SqlTrgsDone(on, done')
        BY <2>1, <3>3 DEF Pending
      <4>2. ASSUME << t, "W" >> \in triggersLst, t \in sent PROVE FALSE
        <5>1. << t, "W" >> \in lstDone /\ << t, "W" >> \in on
          BY <2>2, <4>2 DEF SendInv, SentIsMarked, RequestInv, ListIsOn
        <5>2. << t, "W" >> \in done' /\ NameOf(<< t, "W" >>) = WTrigger[t]
          BY <2>2, <2>5, <5>1, WriteFieldName DEF UpdtTrgsDone
        <5>. QED
          BY <4>1, <5>1, <5>2 DEF SqlTrgsDone
      <4>. QED
        BY <4>1, <4>2 DEF Pending
    <3>4. sends'[t] + Owed(t)' + left'["fail"] + raised[WTrigger[t]]
            <= sends[t] + Owed(t) + left["fail"] + raised'[WTrigger[t]]
      <4>1. Owed(t)' <= Owed(t) + (IF ok THEN 0 ELSE 1) /\ Owed(t) \in Int /\ Owed(t)' \in Int
        BY <3>3 DEF Owed
      <4>. QED
        BY <1>0, <2>3, <3>2, <4>1
    <3>5. raised'[WTrigger[t]] = 0 => sends'[t] = 0 /\ WTrigger[t] \notin trigDB'
      BY <2>1, <3>2
    <3>. QED
      BY <2>3, <2>4, <2>5, <3>4, <3>5, PaidStep
  <2>. QED
    BY <1>0, <2>4, <2>5 DEF SendInv
<1>. QED
  BY <1>1, <1>2, <1>3, <1>4, <1>5, <1>6 DEF OtherScan

LEMMA OtherActorSends ==
  ASSUME TypeOK, SendInv, OtherActor, UNCHANGED history
  PROVE  SendInv'
<1>1. UNCHANGED << sendVars, lstDone, pc >>
  BY DEF OtherActor, Poll, Edit, Tick, SigInt, Stopped, OpcUnchanged, vars, shared, triggers,
         history, sendVars
<1>2. "poll" \in BudgetKinds \ {"fail"} /\ "edit" \in BudgetKinds \ {"fail"}
  BY DEF BudgetKinds
<1>3. left'["fail"] = left["fail"] /\ left["fail"] \in Nat
  BY <1>2, Fails DEF OtherActor, Poll, Edit, Tick, SigInt, Stopped, vars
<1>. QED
  BY <1>1, <1>3, KeepsSends DEF Busy, InScan

(* What a scan takes up is owed as it was before: nothing of it is sent.   *)
LEMMA TakeTriggersSends ==
  ASSUME TypeOK, SendInv, HTakeTriggers
  PROVE  SendInv'
<1>1. /\ ~Busy /\ sent' = {} /\ UNCHANGED << raised, sends, trigDB >>
      /\ \E ok \in BOOLEAN : Query(ok)
  BY DEF HTakeTriggers, TakeTriggers, Busy, InScan, shared
<1>2. left'["fail"] \in Nat /\ left'["fail"] <= left["fail"] /\ left["fail"] \in Nat
  BY <1>1, Fails
<1>3. Counters' /\ SentIsMarked' /\ left'["fail"] <= Budget["fail"]
  BY <1>1, <1>2, Fails DEF SendInv, Counters, SentIsMarked
<1>4. ASSUME NEW t \in Tables, WTrigger[t] # NoTrigger
      PROVE  SendsPaid(t)'
  <2>1. WTrigger[t] \in Names
    BY <1>4, WriteTriggerIsName
  <2>2. Owed(t)' = Owed(t) /\ Owed(t) \in Int
    BY <1>1 DEF Owed, Pending
  <2>3. /\ sends'[t] = sends[t] /\ sends[t] \in Nat
        /\ raised'[WTrigger[t]] = raised[WTrigger[t]] /\ raised[WTrigger[t]] \in Nat
        /\ raised[WTrigger[t]] = 0 => sends[t] = 0 /\ WTrigger[t] \notin trigDB
    BY <1>1, <1>4, <2>1 DEF SendInv, Counters, SendsPaid
  <2>4. sends'[t] + Owed(t)' + left'["fail"] + raised[WTrigger[t]]
          <= sends[t] + Owed(t) + left["fail"] + raised'[WTrigger[t]]
    BY <1>2, <2>2, <2>3
  <2>. QED
    BY <1>1, <1>2, <1>3, <1>4, <2>3, <2>4, PaidStep
<1>. QED
  BY <1>1, <1>3, <1>4 DEF SendInv

(* A table sent was owed, and is so no more.                               *)
LEMMA DataToCommSends ==
  ASSUME TypeOK, RequestInv, SendInv, HDataToComm
  PROVE  SendInv'
<1>1. PICK u \in Tables :
        u \in wTodo /\ wTodo' = wTodo \ {u} /\ lstDone' = lstDone \union WTriggerDoneAt(u)
  BY DEF HDataToComm, DataToComm, IsFirst
<1>2. /\ pc = "comm" /\ InScan /\ InScan' /\ Busy /\ Busy' /\ sent' = sent \union {u}
      /\ sends' = [t \in Tables |-> IF t = u THEN sends[t] + 1 ELSE sends[t]]
      /\ UNCHANGED << trigDB, triggersLst, raised >>
      /\ \E ok \in BOOLEAN : Query(ok)
  BY <1>1 DEF HDataToComm, DataToComm, shared, InScan, Busy
<1>3. left'["fail"] \in Nat /\ left'["fail"] <= left["fail"] /\ left["fail"] \in Nat
  BY <1>2, Fails
<1>4. Counters' /\ left'["fail"] <= Budget["fail"]
  BY <1>2, <1>3, Fails DEF SendInv, Counters
<1>5. SentIsMarked'
  BY <1>1, <1>2 DEF SendInv, SentIsMarked, WTriggerDoneAt
<1>6. /\ << u, "W" >> \in triggersLst /\ << u, "W" >> \in TrgFields
      /\ u \notin sent /\ WTrigger[u] \in trigDB
  <2>1. << u, "W" >> \in triggersLst /\ u \notin sent
    BY <1>1, <1>2 DEF RequestInv, ToSendOnce
  <2>2. << u, "W" >> \in on \ done
    BY <1>2, <2>1 DEF RequestInv, ListIsOn
  <2>3. NameOf(<< u, "W" >>) = WTrigger[u]
    BY DEF NameOf
  <2>. QED
    BY <2>1, <2>2, <2>3 DEF RequestInv, ServedIsRaised, TypeOK
<1>7. WTrigger[u] # NoTrigger
  BY <1>6, NamesAssumption DEF TypeOK
<1>8. Pending(u) /\ ~Pending(u)'
  BY <1>2, <1>6 DEF Pending
<1>9. ASSUME NEW t \in Tables, WTrigger[t] # NoTrigger
      PROVE  SendsPaid(t)'
  <2>1. WTrigger[t] \in Names
    BY <1>9, WriteTriggerIsName
  <2>2. /\ sends[t] \in Nat /\ raised'[WTrigger[t]] = raised[WTrigger[t]]
        /\ raised[WTrigger[t]] \in Nat
        /\ raised[WTrigger[t]] = 0 => sends[t] = 0 /\ WTrigger[t] \notin trigDB
    BY <1>2, <1>9, <2>1 DEF SendInv, Counters, SendsPaid
  <2>3. CASE t = u
    <3>1. Owed(t) = 1 /\ Owed(t)' = 0 /\ sends'[t] = sends[t] + 1
      BY <1>2, <1>8, <2>3 DEF Owed
    <3>2. raised[WTrigger[t]] # 0
      BY <1>6, <2>2, <2>3
    <3>3. sends'[t] + Owed(t)' + left'["fail"] + raised[WTrigger[t]]
            <= sends[t] + Owed(t) + left["fail"] + raised'[WTrigger[t]]
      BY <1>3, <2>2, <3>1
    <3>. QED
      BY <1>3, <1>4, <1>9, <2>2, <3>2, <3>3, PaidStep
  <2>4. CASE t # u
    <3>1. Owed(t)' = Owed(t) /\ Owed(t) \in Int /\ sends'[t] = sends[t]
      BY <1>2, <2>4 DEF Owed, Pending
    <3>2. sends'[t] + Owed(t)' + left'["fail"] + raised[WTrigger[t]]
            <= sends[t] + Owed(t) + left["fail"] + raised'[WTrigger[t]]
      BY <1>3, <2>2, <3>1
    <3>. QED
      BY <1>2, <1>3, <1>4, <1>9, <2>2, <3>1, <3>2, PaidStep
  <2>. QED
    BY <2>3, <2>4
<1>10. ASSUME NEW t \in Tables, WTrigger[t] = NoTrigger
       PROVE  sends'[t] = 0
  BY <1>2, <1>7, <1>10 DEF SendInv
<1>. QED
  BY <1>4, <1>5, <1>9, <1>10 DEF SendInv

(* A raise from 0 owes one sending to each table of its name.              *)
LEMMA RaiseSends ==
  ASSUME TypeOK, SendInv, NEW n \in Names, HRaise(n)
  PROVE  SendInv'
<1>1. /\ trigDB' = trigDB \union {n} /\ Spend("raise")
      /\ raised' = IF n \in trigDB THEN raised ELSE [raised EXCEPT ![n] = @ + 1]
      /\ UNCHANGED << pc, triggersLst, lstDone, sent, sends >>
  BY DEF HRaise, Raise, OpcUnchanged, triggers
<1>2. "raise" \in BudgetKinds \ {"fail"}
  BY DEF BudgetKinds
<1>3. left'["fail"] = left["fail"] /\ left["fail"] \in Nat
  BY <1>1, <1>2, Fails
<1>4. Counters' /\ SentIsMarked' /\ left'["fail"] <= Budget["fail"]
  BY <1>1, <1>3 DEF SendInv, Counters, SentIsMarked, InScan
<1>5. ASSUME NEW t \in Tables, WTrigger[t] # NoTrigger
      PROVE  SendsPaid(t)'
  <2>1. WTrigger[t] \in Names
    BY <1>5, WriteTriggerIsName
  <2>2. /\ sends'[t] = sends[t] /\ sends[t] \in Nat /\ raised[WTrigger[t]] \in Nat
        /\ raised[WTrigger[t]] = 0 => sends[t] = 0 /\ WTrigger[t] \notin trigDB
    BY <1>1, <1>5, <2>1 DEF SendInv, Counters, SendsPaid
  <2>3. CASE WTrigger[t] = n /\ n \notin trigDB
    <3>1. raised'[WTrigger[t]] = raised[WTrigger[t]] + 1
      BY <1>1, <2>1, <2>3 DEF SendInv, Counters
    <3>2. Owed(t) = 0 /\ Owed(t)' \in {0, 1}
      BY <2>3 DEF Owed, Pending
    <3>3. sends'[t] + Owed(t)' + left'["fail"] + raised[WTrigger[t]]
            <= sends[t] + Owed(t) + left["fail"] + raised'[WTrigger[t]]
      BY <1>3, <2>2, <3>1, <3>2
    <3>. QED
      BY <1>3, <1>4, <1>5, <2>2, <3>1, <3>3, PaidStep
  <2>4. CASE WTrigger[t] # n \/ n \in trigDB
    <3>1. raised'[WTrigger[t]] = raised[WTrigger[t]]
      BY <1>1, <2>1, <2>4 DEF SendInv, Counters
    <3>2. WTrigger[t] \in trigDB' <=> WTrigger[t] \in trigDB
      BY <1>1, <2>4
    <3>3. Owed(t)' = Owed(t) /\ Owed(t) \in Int
      BY <1>1, <3>2 DEF Owed, Pending, Busy, InScan
    <3>4. sends'[t] + Owed(t)' + left'["fail"] + raised[WTrigger[t]]
            <= sends[t] + Owed(t) + left["fail"] + raised'[WTrigger[t]]
      BY <1>3, <2>2, <3>1, <3>3
    <3>. QED
      BY <1>3, <1>4, <1>5, <2>2, <3>1, <3>2, <3>4, PaidStep
  <2>. QED
    BY <2>3, <2>4
<1>. QED
  BY <1>1, <1>4, <1>5 DEF SendInv

(* A new process counts from nothing, and a trigger it could not reset is  *)
(* one raise.                                                              *)
LEMMA RestartSends ==
  ASSUME TypeOK, SendInv, HRestart
  PROVE  SendInv'
<1>1. /\ ~InScan' /\ ~Busy'
      /\ raised' = [n \in Names |-> IF n \in trigDB' THEN 1 ELSE 0]
      /\ sends' = [t \in Tables |-> 0]
  BY DEF HRestart, Restart, InScan, Busy
<1>2. "restart" \in BudgetKinds /\ "fail" \in BudgetKinds /\ "restart" # "fail"
  BY DEF BudgetKinds
<1>3. left \in [BudgetKinds -> Nat] /\ left["fail"] \in Nat /\ Budget["fail"] \in Nat
  BY <1>2, Fails DEF TypeOK
<1>4. \E allOk \in BOOLEAN :
        left'["fail"] = IF allOk THEN left["fail"] ELSE left["fail"] - 1
  <2>1. PICK deleted, inserted \in SUBSET Tables, kept \in SUBSET trigDB :
          left' = [left EXCEPT !["restart"] = @ - 1,
                     !["fail"] = IF deleted = Tables /\ inserted = Tables /\ kept = {}
                                 THEN @ ELSE @ - 1]
    BY DEF HRestart, Restart
  <2>2. left'["fail"] = IF deleted = Tables /\ inserted = Tables /\ kept = {}
                        THEN left["fail"] ELSE left["fail"] - 1
    BY <1>2, <1>3, <2>1
  <2>. QED
    BY <2>2
<1>5. left'["fail"] \in Int /\ left'["fail"] <= Budget["fail"]
  BY <1>3, <1>4 DEF SendInv
<1>6. Counters' /\ SentIsMarked'
  BY <1>1 DEF Counters, SentIsMarked
<1>7. ASSUME NEW t \in Tables, WTrigger[t] # NoTrigger
      PROVE  SendsPaid(t)'
  <2>1. WTrigger[t] \in Names
    BY <1>7, WriteTriggerIsName
  <2>2. sends'[t] = 0 /\ raised'[WTrigger[t]] = Owed(t)'
    BY <1>1, <2>1 DEF Owed, Pending
  <2>3. Owed(t)' \in {0, 1} /\ (Owed(t)' = 0 => WTrigger[t] \notin trigDB')
    BY <1>1 DEF Owed, Pending
  <2>. QED
    BY <1>3, <1>5, <2>2, <2>3 DEF SendsPaid, FailsUsed
<1>. QED
  BY <1>1, <1>5, <1>6, <1>7 DEF SendInv

LEMMA HNextSends == TypeOK /\ RequestInv /\ SendInv /\ [HNext]_hvars => SendInv'
<1>. SUFFICES ASSUME TypeOK, RequestInv, SendInv, [HNext]_hvars PROVE SendInv'
  OBVIOUS
<1>1. CASE UNCHANGED hvars
  <2>1. UNCHANGED << sendVars, lstDone, pc, left >>
    BY <1>1 DEF hvars, vars, history, sendVars, shared, triggers
  <2>. QED
    BY <2>1, Fails, KeepsSends DEF Busy, InScan
<1>2. CASE HNext
  BY <1>2, TakeTriggersSends, DataToCommSends, RaiseSends, RestartSends, OtherScanSends,
     OtherActorSends
  DEF HNext
<1>. QED
  BY <1>1, <1>2

LEMMA InitSends == HInit => SendInv
<1>. SUFFICES ASSUME HInit PROVE SendInv
  OBVIOUS
<1>1. /\ trigDB = {} /\ ~InScan /\ left = Budget
      /\ raised = [n \in Names |-> 0] /\ sends = [t \in Tables |-> 0]
  BY DEF HInit, Init, InScan
<1>2. "fail" \in BudgetKinds
  BY DEF BudgetKinds
<1>3. Budget["fail"] \in Nat
  BY <1>2, BudgetAssumption
<1>4. Counters /\ SentIsMarked /\ left["fail"] <= Budget["fail"]
  BY <1>1, <1>3 DEF Counters, SentIsMarked
<1>5. ASSUME NEW t \in Tables, WTrigger[t] # NoTrigger
      PROVE  SendsPaid(t)
  <2>1. sends[t] = 0 /\ raised[WTrigger[t]] = 0 /\ Owed(t) = 0
    BY <1>1, <1>5, WriteTriggerIsName DEF Owed, Pending
  <2>. QED
    BY <1>1, <1>3, <2>1 DEF SendsPaid, FailsUsed
<1>. QED
  BY <1>1, <1>4, <1>5 DEF SendInv

LEMMA SendInvariant == HSpec => []SendInv
BY InitSends, HNextSends, RequestInvariant, HistoryTypeCorrect, PTL DEF HSpec

(* A table is sent once per raise of its trigger and once more only for a  *)
(* query that failed: see the comment of SendsBounded.                     *)
THEOREM SendsAreBounded == HSpec => []SendsBounded
<1>1. TypeOK /\ SendInv => SendsBounded
  <2>. SUFFICES ASSUME TypeOK, SendInv, NEW t \in Tables, sends[t] > 0
                PROVE  /\ WTrigger[t] # NoTrigger
                       /\ raised[WTrigger[t]] > 0
                       /\ sends[t] <= raised[WTrigger[t]] + FailsUsed
    BY DEF SendsBounded
  <2>1. WTrigger[t] # NoTrigger
    BY DEF SendInv
  <2>2. SendsPaid(t) /\ raised[WTrigger[t]] \in Nat /\ sends[t] \in Nat
    BY <2>1, WriteTriggerIsName DEF SendInv, Counters
  <2>3. Owed(t) \in {0, 1} /\ FailsUsed \in Int
    BY Fails DEF Owed, FailsUsed
  <2>. QED
    BY <2>1, <2>2, <2>3 DEF SendsPaid
<1>. QED
  BY <1>1, SendInvariant, HistoryTypeCorrect, PTL

----------------------------------------------------------------------------
(* The other half of the promise: what is raised is taken up, and what was *)
(* taken up to be written is reset.                                        *)
LEMMA OnlyOkKeepsLeft ==
  ASSUME TypeOK, NEW ok \in BOOLEAN, Query(ok), left' = left
  PROVE  ok
BY Fails

LEMMA TakeTakesRaised ==
  ASSUME TypeOK, TakeTriggers
  PROVE  TakesTheRaised
<1>. SUFFICES ASSUME left' = left, Driver = "QMYSQL", NEW t \in Tables, WTrigger[t] \in trigDB
              PROVE  << t, "W" >> \in triggersLst'
  BY DEF TakesTheRaised
<1>1. PICK ok \in BOOLEAN :
        /\ Query(ok)
        /\ on' = UpdtTrgsOn(on, done, TriggersOn(Driver, ok, trigDB))
        /\ done' = UpdtTrgsNotDone(done, TriggersOn(Driver, ok, trigDB))
  BY DEF TakeTriggers
<1>2. WTrigger[t] \in TriggersOn(Driver, ok, trigDB)
  BY <1>1, OnlyOkKeepsLeft DEF TriggersOn
<1>3. << t, "W" >> \in TrgFields /\ NameOf(<< t, "W" >>) = WTrigger[t]
  <2>1. WTrigger[t] # NoTrigger
    BY NamesAssumption DEF TypeOK
  <2>. QED
    BY <2>1, WriteFieldName
<1>4. << t, "W" >> \in on' /\ << t, "W" >> \notin done'
  BY <1>1, <1>2, <1>3 DEF UpdtTrgsOn, UpdtTrgsNotDone
<1>. QED
  BY <1>4 DEF TakeTriggers, RetTgsLst

LEMMA ResetResetsTaken ==
  ASSUME TypeOK, RequestInv, SendInv, ResetTriggers
  PROVE  ResetsTheTaken
<1>. SUFFICES ASSUME left' = left, NEW t \in Tables, << t, "W" >> \in triggersLst
              PROVE  WTrigger[t] \notin trigDB'
  BY DEF ResetsTheTaken
<1>1. pc = "pick" /\ done' = UpdtTrgsDone(done, lstDone)
  BY DEF ResetTriggers
<1>2. PICK ok \in BOOLEAN :
        /\ Query(ok)
        /\ trigDB' = IF ok THEN trigDB \ SqlTrgsDone(on, done') ELSE trigDB
  BY DEF ResetTriggers
<1>3. << t, "W" >> \in on /\ << t, "W" >> \in lstDone
  BY <1>1 DEF RequestInv, InScan, ListIsOn, SentOrToSend, SendInv, SentIsMarked
<1>4. << t, "W" >> \in TrgFields /\ NameOf(<< t, "W" >>) = WTrigger[t]
  BY <1>3 DEF TypeOK, NameOf
<1>5. WTrigger[t] \in SqlTrgsDone(on, done')
  BY <1>1, <1>3, <1>4 DEF UpdtTrgsDone, SqlTrgsDone
<1>. QED
  BY <1>2, <1>5, OnlyOkKeepsLeft

(* A raised trigger is served by the scan whose SELECT finds it: the table *)
(* is in its list, and the trigger is down when the UPDATE succeeds.       *)
THEOREM RaisedIsServedInScan == HSpec => RaisedIsServed
<1>1. TypeOK /\ RequestInv /\ SendInv /\ [HNext]_hvars
        => [(TakeTriggers => TakesTheRaised) /\ (ResetTriggers => ResetsTheTaken)]_hvars
  BY TakeTakesRaised, ResetResetsTaken
<1>. QED
  BY <1>1, SendInvariant, RequestInvariant, HistoryTypeCorrect, PTL DEF HSpec, RaisedIsServed
=============================================================================
