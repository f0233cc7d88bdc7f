--------------------------- MODULE Startup_proofs ---------------------------
(***************************************************************************)
(* For every slaves.xml and every limit on the ids: the search of          *)
(* checkSlaveId gives each slave the least id that is free, and the ini    *)
(* file polls the registers of the tags.  The loops are steps of the       *)
(* specification, so each has its loop invariant: SearchInv and CycleInv.  *)
(***************************************************************************)
EXTENDS TriggerRows_proofs

ParamSet ==
  [commType : {slaves[k].protocol : k \in DOMAIN slaves}, commId : Int,
   commAddr : {slaves[k].addr : k \in DOMAIN slaves} \union {NoAddr},
   regs : Seq(Int), isValid : BOOLEAN]

ParserType ==
  /\ IsFile(slaves) /\ slaveParams \in Seq(ParamSet)
  /\ commId \in Int /\ match \in BOOLEAN /\ j \in Int

(* The id the slave being read ends up with, or would.                     *)
IdInv == ParserType /\ SearchInv /\ IdIsLeastFree

(* What the parser's invariants depend on.                                 *)
pvars == << slaves, at, parser >>

Elsewhere == at \notin {"while", "compare", "checks"}

LEMMA CurrentFacts ==
  ASSUME ParserType, Len(slaveParams) < Len(slaves)
  PROVE  /\ Current.child \in BOOLEAN /\ Current.id \in Int /\ Current.regs \in Seq(Int)
         /\ Asked(Current) \in Int /\ FirstId(Asked(Current)) \in Nat \ {0}
         /\ Len(slaveParams) + 1 \in DOMAIN slaves
<1>1. Len(slaveParams) + 1 \in DOMAIN slaves
  BY DEF ParserType, IsFile
<1>. QED
  BY <1>1 DEF ParserType, IsFile, Current, Asked, FirstId

LEMMA IdInit == Init => IdInv
<1>. SUFFICES ASSUME Init PROVE IdInv
  OBVIOUS
<1>1. IsFile(slaves)
  BY ConfigsAssumption DEF Init
<1>2. slaveParams = << >> /\ commId = 0 /\ match = TRUE /\ j = 0 /\ at = "create"
  BY DEF Init, ParserInit
<1>3. ParserType
  BY <1>1, <1>2 DEF ParserType
<1>4. SearchInv
  BY <1>1, <1>2 DEF SearchInv, IsFile
<1>. QED
  BY <1>2, <1>3, <1>4 DEF IdInv, IdIsLeastFree

LEMMA IdTakeSlave ==
  ASSUME IdInv, TakeSlave, UNCHANGED slaves PROVE IdInv'
<1>1. /\ Current.child \in BOOLEAN /\ Current.id \in Int /\ Current.regs \in Seq(Int)
      /\ FirstId(Asked(Current)) \in Nat \ {0}
  BY CurrentFacts DEF IdInv, TakeSlave
<1>2. ParserType'
  BY <1>1 DEF IdInv, ParserType, TakeSlave, IsFile, ParamSet
<1>3. IdIsLeastFree'
  BY DEF IdInv, IdIsLeastFree, TakeSlave, TakenBefore, LeastFree, FirstId, Asked
<1>4. Current' = Current /\ TakenBefore(Len(slaveParams) + 1)' = TakenBefore(Len(slaveParams) + 1)
  BY DEF TakeSlave, Current, TakenBefore
<1>5. commId' = FirstId(Asked(Current)) /\ Len(slaveParams) < Len(slaves)
      /\ UNCHANGED << slaveParams, slaves >> /\ match' = TRUE /\ j' = 0
      /\ at' = IF slaveParams = << >> THEN "checks" ELSE "while"
  BY DEF TakeSlave
<1>6. Len(slaveParams) \in Nat /\ Len(slaves) \in Nat
  BY DEF IdInv, ParserType, IsFile
<1>7. FirstId(Asked(Current))' = FirstId(Asked(Current))
  BY <1>4 DEF FirstId, Asked
<1>8. SearchInv'
  BY <1>1, <1>5, <1>6, <1>7 DEF SearchInv
<1>. QED
  BY <1>2, <1>3, <1>8 DEF IdInv

LEMMA IdNextPass ==
  ASSUME IdInv, NextPass, UNCHANGED slaves PROVE IdInv'
<1>1. UNCHANGED << slaveParams, slaves, commId >> /\ at = "while" /\ at' = "compare"
      /\ match' = FALSE /\ j' = Len(slaveParams)
  BY DEF NextPass
<1>2. IdIsLeastFree'
  BY <1>1 DEF IdInv, IdIsLeastFree, TakenBefore, LeastFree, FirstId, Asked
<1>3. Len(slaveParams) \in Nat \ {0}
  BY <1>1 DEF IdInv, SearchInv, ParserType
<1>5. ParserType'
  <2>1. ParamSet' = ParamSet /\ IsFile(slaves)'
    BY <1>1 DEF IdInv, ParserType, ParamSet, IsFile
  <2>2. match' \in BOOLEAN
    BY <1>1, Zenon
  <2>. QED
    BY <1>1, <1>3, <2>1, <2>2 DEF IdInv, ParserType
<1>4. SearchInv'
  BY <1>1, <1>3 DEF IdInv, SearchInv, Current, TakenBefore, Asked, FirstId
<1>. QED
  BY <1>2, <1>4, <1>5 DEF IdInv

LEMMA IdCompare ==
  ASSUME IdInv, Compare, UNCHANGED slaves PROVE IdInv'
<1>1. /\ UNCHANGED << slaveParams, slaves >> /\ at = "compare"
      /\ commId' = (IF commId = slaveParams[j].commId THEN commId + 1 ELSE commId)
      /\ match' = (match \/ commId = slaveParams[j].commId)
      /\ j' = j - 1 /\ at' = IF j = 1 THEN "while" ELSE "compare"
  BY DEF Compare, Matches
<1>2. j \in 1 .. Len(slaveParams) /\ commId \in Nat /\ Len(slaveParams) \in Nat
  BY <1>1 DEF IdInv, SearchInv, ParserType
<1>3. ParserType'
  BY <1>1, <1>2 DEF IdInv, ParserType, ParamSet, IsFile
<1>4. IdIsLeastFree'
  BY <1>1 DEF IdInv, IdIsLeastFree, TakenBefore, LeastFree, FirstId, Asked
<1>. DEFINE k == Len(slaveParams) + 1
            from == FirstId(Asked(Current))
<1>5. /\ k' = k /\ from' = from /\ TakenBefore(k)' = TakenBefore(k)
  BY <1>1 DEF Current, FirstId, Asked, TakenBefore
<1>6. /\ k <= Len(slaves) /\ commId >= from /\ slaveParams # << >>
      /\ \A c \in from .. commId - 1 : c \in TakenBefore(k)
      /\ ~match => \A l \in j + 1 .. Len(slaveParams) : slaveParams[l].commId # commId
  BY <1>1 DEF IdInv, SearchInv
<1>7. from \in Nat
  BY <1>6, CurrentFacts DEF IdInv, ParserType, IsFile
<1>8. commId = slaveParams[j].commId => commId \in TakenBefore(k)
  BY <1>2 DEF TakenBefore
<1>9. /\ commId' \in Nat /\ commId' >= from
      /\ \A c \in from .. commId' - 1 : c \in TakenBefore(k)
  BY <1>1, <1>2, <1>6, <1>7, <1>8
<1>10. ~match' => \A l \in j' + 1 .. Len(slaveParams) : slaveParams[l].commId # commId'
  <2>. SUFFICES ASSUME ~match', NEW l \in j' + 1 .. Len(slaveParams)
                PROVE  slaveParams[l].commId # commId'
    OBVIOUS
  <2>1. ~match /\ commId # slaveParams[j].commId
    BY <1>1
  <2>2. commId' = commId
    BY <1>1, <2>1
  <2>3. l = j \/ l \in j + 1 .. Len(slaveParams)
    BY <1>1, <1>2
  <2>. QED
    BY <1>6, <2>1, <2>2, <2>3
<1>11. SearchInv'
  BY <1>1, <1>2, <1>5, <1>6, <1>9, <1>10 DEF SearchInv
<1>. QED
  BY <1>3, <1>4, <1>11 DEF IdInv

LEMMA IdIdFound ==
  ASSUME IdInv, IdFound, UNCHANGED slaves PROVE IdInv'
<1>1. /\ UNCHANGED << slaveParams, slaves, match, j >> /\ at = "while" /\ at' = "checks"
      /\ ~match /\ ~(commId > IdLimit)
      /\ commId' = IF commId < IdLimit THEN commId ELSE -1
  BY DEF IdFound, GoesOn
<1>. DEFINE k == Len(slaveParams) + 1
            from == FirstId(Asked(Current))
<1>2. /\ k <= Len(slaves) /\ slaveParams # << >> /\ commId \in Nat /\ commId >= from
      /\ \A c \in from .. commId - 1 : c \in TakenBefore(k)
      /\ \A l \in 1 .. Len(slaveParams) : slaveParams[l].commId # commId
  BY <1>1 DEF IdInv, SearchInv
<1>3. /\ from' = from /\ TakenBefore(k)' = TakenBefore(k)
  BY <1>1 DEF Current, FirstId, Asked, TakenBefore
<1>4. Len(slaveParams) \in Nat /\ IdLimit \in Nat
  BY IdLimitAssumption DEF IdInv, ParserType
<1>5. commId \notin TakenBefore(k)
  BY <1>2, <1>4 DEF TakenBefore
<1>6. LeastFree(commId, from, TakenBefore(k))
  BY <1>2, <1>5 DEF LeastFree
<1>7. \/ commId' < IdLimit /\ LeastFree(commId', from, TakenBefore(k))
      \/ commId' = -1 /\ LeastFree(IdLimit, from, TakenBefore(k))
  <2>1. CASE commId < IdLimit
    BY <1>1, <1>6, <2>1
  <2>2. CASE ~(commId < IdLimit)
    <3>1. commId = IdLimit
      BY <1>1, <1>2, <1>4, <2>2
    <3>. QED
      BY <1>1, <1>6, <2>2, <3>1
  <2>. QED
    BY <2>1, <2>2
<1>8. SearchInv'
  BY <1>1, <1>2, <1>3, <1>4, <1>7 DEF SearchInv
<1>9. IdIsLeastFree'
  BY <1>1 DEF IdInv, IdIsLeastFree, TakenBefore, LeastFree, FirstId, Asked
<1>10. ParserType'
  BY <1>1, <1>2 DEF IdInv, ParserType, ParamSet, IsFile
<1>. QED
  BY <1>8, <1>9, <1>10 DEF IdInv

(* The slave read is put behind those before it, which stay as they are.   *)
LEMMA IdSlaveDone ==
  ASSUME IdInv, SlaveDone, UNCHANGED slaves PROVE IdInv'
<1>. DEFINE k == Len(slaveParams) + 1
            new == [commType |-> Current.protocol, commId |-> commId,
                    commAddr |-> IF Current.child THEN Current.addr ELSE NoAddr,
                    regs |-> IF Current.child THEN Current.regs ELSE << >>,
                    isValid |-> SlaveIsValid(Current)]
<1>1. /\ slaveParams' = Append(slaveParams, new) /\ at = "checks" /\ at' = "slave"
      /\ UNCHANGED << commId, match, j, slaves >>
  BY DEF SlaveDone
<1>2. k <= Len(slaves) /\ Len(slaveParams) \in Nat /\ Len(slaves) \in Nat
  BY <1>1 DEF IdInv, SearchInv, ParserType, IsFile
<1>3. k \in DOMAIN slaves /\ Current = slaves[k] /\ Current.regs \in Seq(Int)
  BY <1>2, CurrentFacts DEF IdInv, Current
<1>4. new \in ParamSet
  <2>1. SlaveIsValid(Current) \in BOOLEAN
    BY DEF SlaveIsValid
  <2>2. commId \in Int
    BY DEF IdInv, ParserType
  <2>. QED
    BY <1>3, <2>1, <2>2 DEF ParamSet
<1>5. ParserType'
  <2>1. slaveParams' \in Seq(ParamSet)
    BY <1>1, <1>4 DEF IdInv, ParserType
  <2>2. ParamSet' = ParamSet
    BY <1>1 DEF ParamSet
  <2>. QED
    BY <1>1, <2>1, <2>2 DEF IdInv, ParserType, IsFile
<1>6. SearchInv'
  <2>1. Len(slaveParams') = k
    BY <1>1, <1>4 DEF IdInv, ParserType
  <2>. QED
    BY <1>1, <1>2, <2>1 DEF SearchInv
<1>7. IdIsLeastFree'
  <2>1. /\ DOMAIN slaveParams' = 1 .. k
        /\ \A l \in 1 .. Len(slaveParams) : slaveParams'[l] = slaveParams[l]
        /\ slaveParams'[k] = new
    BY <1>1, <1>4 DEF IdInv, ParserType
  <2>2. \A i \in 1 .. k : TakenBefore(i)' = TakenBefore(i)
    BY <1>2, <2>1 DEF TakenBefore
  <2>. SUFFICES ASSUME NEW i \in 1 .. k
                PROVE  LET from == FirstId(Asked(slaves[i]))
                       IN  IF i = 1
                           THEN slaveParams'[i].commId = from
                           ELSE \/ /\ slaveParams'[i].commId < IdLimit
                                   /\ LeastFree(slaveParams'[i].commId, from, TakenBefore(i))
                                \/ /\ slaveParams'[i].commId = -1
                                   /\ LeastFree(IdLimit, from, TakenBefore(i))
    BY <1>1, <2>1, <2>2 DEF IdIsLeastFree, FirstId, Asked, LeastFree
  <2>3. CASE i < k
    <3>1. i \in DOMAIN slaveParams
      BY <1>2, <2>3
    <3>. QED
      BY <2>1, <3>1 DEF IdInv, IdIsLeastFree, ParserType
  <2>4. CASE i = k
    <3>1. slaveParams'[k].commId = commId
      BY <2>1
    <3>2. k = 1 <=> slaveParams = << >>
      BY <1>2 DEF IdInv, ParserType
    <3>. QED
      BY <1>1, <1>3, <2>4, <3>1, <3>2 DEF IdInv, SearchInv
  <2>. QED
    BY <1>2, <2>3, <2>4
<1>. QED
  BY <1>5, <1>6, <1>7 DEF IdInv

(* Every other step leaves the parser alone, or starts it afresh.          *)
LEMMA IdElsewhere ==
  ASSUME IdInv, UNCHANGED << slaves, parser >>, Elsewhere' \/ at' = at
  PROVE  IdInv'
<1>1. UNCHANGED << slaves, slaveParams, commId, match, j >>
  BY DEF parser
<1>2. ParserType' /\ IdIsLeastFree'
  BY <1>1 DEF IdInv, ParserType, ParamSet, IsFile, IdIsLeastFree, TakenBefore, LeastFree,
              FirstId, Asked
<1>3. SearchInv'
  BY <1>1 DEF IdInv, SearchInv, Elsewhere, Current, TakenBefore, LeastFree, FirstId, Asked
<1>. QED
  BY <1>2, <1>3 DEF IdInv

LEMMA IdRestart == ASSUME Restart PROVE IdInv'
<1>1. IsFile(slaves') /\ slaveParams' = << >> /\ commId' = 0 /\ match' = TRUE /\ j' = 0
      /\ at' = "create"
  BY ConfigsAssumption DEF Restart
<1>2. ParserType'
  BY <1>1 DEF ParserType
<1>3. SearchInv'
  BY <1>1 DEF SearchInv, IsFile
<1>. QED
  BY <1>1, <1>2, <1>3 DEF IdInv, IdIsLeastFree

LEMMA IdStep == IdInv /\ [Next]_vars => IdInv'
<1>. SUFFICES ASSUME IdInv, [Next]_vars PROVE IdInv'
  OBVIOUS
<1>1. CASE Parse
  <2>1. UNCHANGED slaves
    BY <1>1 DEF Parse
  <2>. QED
    BY <1>1, <2>1, IdTakeSlave, IdNextPass, IdCompare, IdIdFound, IdSlaveDone
    DEF Parse, RetrieveCommParams
<1>2. CASE Restart
  BY <1>2, IdRestart
<1>3. CASE \/ CreateTable \/ InitValues \/ SetupDone \/ CommDaemon \/ IniDaemons
           \/ LaunchDaemons \/ FirstScan \/ \E id \in DOMAIN rows : Raise(rows[id].name)
           \/ UNCHANGED vars
  <2>1. UNCHANGED << slaves, parser >> /\ (Elsewhere' \/ at' = at)
    BY <1>3 DEF CreateTable, InitValues, SetupDone, CommDaemon, IniDaemons, IniMBTCPCreate,
                IniNotOpened, NextTag, NextParam, IniWritten, LaunchDaemons, FirstScan, Raise,
                vars, Elsewhere
  <2>. QED
    BY <2>1, IdElsewhere
<1>. QED
  BY <1>1, <1>2, <1>3 DEF Next, Constructor

(* Whatever ids the file asks for, and whatever IdLimit is: each slave     *)
(* gets the least that no slave before it has, or none (config.cpp:348).   *)
THEOREM LeastFreeIdAssigned == Spec => []IdIsLeastFree
<1>1. IdInv => IdIsLeastFree
  BY DEF IdInv
<1>. QED
  BY <1>1, IdInit, IdStep, PTL DEF Spec

(* Up to where the search is, every id from the one asked for is taken     *)
(* (config.cpp:359).                                                       *)
THEOREM SearchIsSound == Spec => []SearchInv
<1>1. IdInv => SearchInv
  BY DEF IdInv
<1>. QED
  BY <1>1, IdInit, IdStep, PTL DEF Spec

----------------------------------------------------------------------------
(* The ini file.  Before it is begun its loops have done nothing; CycleInv *)
(* holds while they run and after.                                         *)
NotBegun ==
  /\ param = 1 /\ mb = << >> /\ tags = 0
  /\ definedCycle = NoCycle /\ cycles = << >> /\ ini = NoIni

BeforeIni == at \in {"create", "rows", "slave", "while", "compare", "checks"}

IniInv ==
  /\ ParserType /\ CycleInv
  /\ BeforeIni => NotBegun
  /\ at = "ini" => ini = NoIni

LEMMA NotBegunInv == ASSUME ParserType, NotBegun PROVE CycleInv
<1>1. NoCycle \in CycleSet /\ NoCycle.size = 0
  BY DEF NoCycle, Cycle, CycleSet
<1>2. Len(slaveParams) \in Nat /\ Len(mb) = 0 /\ cycles = << >> /\ mb = << >>
  BY DEF ParserType, NotBegun
<1>. QED
  BY <1>1, <1>2 DEF NotBegun, CycleInv, OfTags

LEMMA RegsType == ASSUME ParserType, NEW p \in DOMAIN slaveParams PROVE Regs(p) \in Seq(Int)
<1>1. slaveParams[p] \in ParamSet
  BY DEF ParserType
<1>. QED
  BY <1>1 DEF ParamSet, Regs

(* What was polled is polled when a cycle is added.                        *)
LEMMA PolledMonotone ==
  ASSUME NEW cs \in Seq(CycleSet), NEW c \in CycleSet, NEW n, NEW r
  PROVE  /\ PolledBy(cs, n, r) => PolledBy(Append(cs, c), n, r)
         /\ Polls(c, n, r) => PolledBy(Append(cs, c), n, r)
<1>1. /\ Append(cs, c) \in Seq(CycleSet) /\ DOMAIN Append(cs, c) = 1 .. Len(cs) + 1
      /\ Append(cs, c)[Len(cs) + 1] = c /\ Len(cs) \in Nat
      /\ DOMAIN cs = 1 .. Len(cs)
      /\ \A k \in 1 .. Len(cs) : Append(cs, c)[k] = cs[k]
  OBVIOUS
<1>2. ASSUME PolledBy(cs, n, r) PROVE PolledBy(Append(cs, c), n, r)
  BY <1>1, <1>2 DEF PolledBy
<1>3. ASSUME Polls(c, n, r) PROVE PolledBy(Append(cs, c), n, r)
  <2>1. Len(cs) + 1 \in DOMAIN Append(cs, c)
    BY <1>1
  <2>. QED
    BY <1>1, <1>3, <2>1 DEF PolledBy
<1>. QED
  BY <1>2, <1>3

LEMMA PollsNonempty ==
  ASSUME NEW c \in CycleSet, NEW n, NEW r, Polls(c, n, r) PROVE c.size > 0
BY DEF Polls, CycleSet

LEMMA IniNextTag ==
  ASSUME IniInv, NextTag PROVE CycleInv'
<1>. DEFINE addr == Regs(param)[tags + 1]
            n == Len(mb) + 1
<1>1. /\ at = "ini" /\ param \in DOMAIN slaveParams /\ tags < Len(Regs(param))
      /\ tags' = tags + 1 /\ UNCHANGED << slaveParams, param, mb, ini >> /\ ini = NoIni
      /\ tags \in Nat /\ Len(mb) \in Nat
  BY DEF IniInv, CycleInv, NextTag, ParserType, parser
<1>2. Regs(param) \in Seq(Int) /\ tags + 1 \in DOMAIN Regs(param) /\ addr \in Int
      /\ IsTag(param, addr) /\ SlaveAt(n) = param
  <2>1. Regs(param) \in Seq(Int)
    BY <1>1, RegsType DEF IniInv
  <2>2. tags + 1 \in DOMAIN Regs(param) /\ addr \in Int
    BY <1>1, <2>1
  <2>. QED
    BY <1>1, <2>1, <2>2 DEF IsTag, SlaveAt
<1>3. \/ /\ GoesOnWith(definedCycle, addr) /\ cycles' = cycles
         /\ definedCycle' = [definedCycle EXCEPT !.size = @ + 1]
      \/ definedCycle' = Cycle(n, addr, 1) /\ cycles' = Saved
  BY DEF NextTag, Number
<1>4. /\ cycles \in Seq(CycleSet) /\ definedCycle \in CycleSet
      /\ \A k \in DOMAIN cycles : OfTags(cycles[k])
      /\ OfTags(definedCycle)
      /\ definedCycle.size > 0 => definedCycle.slave = n
  BY DEF IniInv, CycleInv
<1>5. \A c : OfTags(c)' <=> OfTags(c)
  BY <1>1 DEF OfTags, SlaveAt, IsTag, Regs, IsMODBUSTCP
<1>6. definedCycle' \in CycleSet /\ definedCycle'.size > 0 /\ definedCycle'.slave = n
      /\ OfTags(definedCycle') /\ Polls(definedCycle', n, addr)
  <2>1. CASE /\ GoesOnWith(definedCycle, addr)
             /\ definedCycle' = [definedCycle EXCEPT !.size = @ + 1]
    <3>1. /\ definedCycle.size > 0 /\ definedCycle.first + definedCycle.size = addr
          /\ definedCycle.slave = n
      BY <1>4, <2>1 DEF GoesOnWith
    <3>2. /\ definedCycle' \in CycleSet /\ definedCycle'.size = definedCycle.size + 1
          /\ definedCycle'.first = definedCycle.first /\ definedCycle'.slave = n
      BY <1>4, <2>1, <3>1 DEF CycleSet
    <3>3. ASSUME NEW r \in definedCycle'.first .. definedCycle'.first + definedCycle'.size - 1
          PROVE  IsTag(param, r)
      <4>1. r = addr \/ r \in definedCycle.first .. definedCycle.first + definedCycle.size - 1
        BY <1>4, <3>1, <3>2 DEF CycleSet
      <4>. QED
        BY <1>2, <1>4, <3>1, <4>1 DEF OfTags
    <3>. QED
      BY <1>1, <1>2, <1>4, <3>1, <3>2, <3>3 DEF OfTags, Polls, CycleSet
  <2>2. CASE definedCycle' = Cycle(n, addr, 1)
    <3>1. IsMODBUSTCP(param)
      BY DEF NextTag
    <3>. QED
      BY <1>1, <1>2, <2>2, <3>1 DEF Cycle, CycleSet, OfTags, Polls
  <2>. QED
    BY <1>3, <2>1, <2>2
<1>7. cycles' \in Seq(CycleSet) /\ \A k \in DOMAIN cycles' : OfTags(cycles'[k])
  BY <1>3, <1>4 DEF Saved
<1>8. \A m, r : PolledBy(cycles, m, r) => PolledBy(cycles', m, r)
  BY <1>3, <1>4, PolledMonotone DEF Saved
<1>9. \A t \in 1 .. tags + 1 :
        \/ PolledBy(cycles', n, Regs(param)[t])
        \/ Polls(definedCycle', n, Regs(param)[t])
  <2>. SUFFICES ASSUME NEW t \in 1 .. tags + 1
                PROVE  \/ PolledBy(cycles', n, Regs(param)[t])
                       \/ Polls(definedCycle', n, Regs(param)[t])
    OBVIOUS
  <2>1. CASE t = tags + 1
    BY <1>6, <2>1
  <2>2. CASE t \in 1 .. tags /\ PolledBy(cycles, n, Regs(param)[t])
    BY <1>8, <2>2
  <2>3. CASE t \in 1 .. tags /\ Polls(definedCycle, n, Regs(param)[t])
    <3>1. definedCycle.size > 0
      BY <1>4, <2>3, PollsNonempty
    <3>2. CASE cycles' = Saved
      BY <1>4, <2>3, <3>1, <3>2, PolledMonotone DEF Saved
    <3>3. CASE definedCycle' = [definedCycle EXCEPT !.size = @ + 1]
      BY <1>4, <2>3, <3>3 DEF Polls, CycleSet
    <3>. QED
      BY <1>3, <3>2, <3>3
  <2>4. t \in 1 .. tags => \/ PolledBy(cycles, n, Regs(param)[t])
                           \/ Polls(definedCycle, n, Regs(param)[t])
    BY <1>1 DEF IniInv, CycleInv
  <2>. QED
    BY <1>1, <2>1, <2>2, <2>3, <2>4
<1>10. /\ param \in 1 .. Len(slaveParams) + 1 /\ mb \in Seq(1 .. param - 1)
       /\ \A p \in 1 .. param - 1 : IsMODBUSTCP(p) => \E m \in DOMAIN mb : mb[m] = p
       /\ \A m \in DOMAIN mb : \A t \in DOMAIN Regs(mb[m]) : PolledBy(cycles', m, Regs(mb[m])[t])
  BY <1>8 DEF IniInv, CycleInv
<1>11. (/\ param \in 1 .. Len(slaveParams) + 1 /\ tags \in Nat /\ mb \in Seq(1 .. param - 1)
        /\ \A p \in 1 .. param - 1 : IsMODBUSTCP(p) => \E m \in DOMAIN mb : mb[m] = p)'
  BY <1>1, <1>10 DEF IsMODBUSTCP
<1>12. (/\ \A k \in DOMAIN cycles : OfTags(cycles[k])
        /\ OfTags(definedCycle)
        /\ definedCycle.size > 0 => definedCycle.slave = Len(mb) + 1)'
  BY <1>1, <1>5, <1>6, <1>7
<1>13. (\A m \in DOMAIN mb : \A t \in DOMAIN Regs(mb[m]) : PolledBy(cycles, m, Regs(mb[m])[t]))'
  BY <1>1, <1>10 DEF Regs
<1>14. (/\ param \in DOMAIN slaveParams /\ tags <= Len(Regs(param))
        /\ \A t \in 1 .. tags :
             \/ PolledBy(cycles, Len(mb) + 1, Regs(param)[t])
             \/ Polls(definedCycle, Len(mb) + 1, Regs(param)[t]))'
  <2>1. tags + 1 <= Len(Regs(param))
    BY <1>1, <1>2
  <2>. QED
    BY <1>1, <1>9, <2>1 DEF Regs
<1>. QED
  BY <1>1, <1>6, <1>7, <1>11, <1>12, <1>13, <1>14 DEF CycleInv

LEMMA IniNextParam ==
  ASSUME IniInv, NextParam PROVE CycleInv'
<1>. DEFINE n == Len(mb) + 1
<1>1. /\ param \in DOMAIN slaveParams /\ param' = param + 1 /\ tags' = 0
      /\ definedCycle' = NoCycle /\ UNCHANGED << slaveParams, ini >> /\ ini = NoIni
      /\ mb \in Seq(1 .. param - 1) /\ Len(mb) \in Nat /\ Len(slaveParams) \in Nat
      /\ DOMAIN mb = 1 .. Len(mb) /\ param \in 1 .. Len(slaveParams)
  BY DEF IniInv, CycleInv, NextParam, ParserType, parser
<1>2. /\ cycles \in Seq(CycleSet) /\ definedCycle \in CycleSet
      /\ \A k \in DOMAIN cycles : OfTags(cycles[k])
      /\ OfTags(definedCycle)
      /\ definedCycle.size > 0 => definedCycle.slave = n
  BY DEF IniInv, CycleInv
<1>3. NoCycle \in CycleSet /\ NoCycle.size = 0
  BY DEF NoCycle, Cycle, CycleSet
<1>4. CASE IsMODBUSTCP(param)
  <2>1. /\ tags = Len(Regs(param)) /\ cycles' = Append(cycles, definedCycle)
        /\ mb' = Append(mb, param)
    BY <1>4 DEF NextParam
  <2>2. /\ mb' \in Seq(1 .. param) /\ Len(mb') = n /\ DOMAIN mb' = 1 .. n /\ mb'[n] = param
        /\ \A m \in 1 .. Len(mb) : mb'[m] = mb[m]
    <3>1. mb \in Seq(1 .. param) /\ param \in 1 .. param
      BY <1>1
    <3>. QED
      BY <1>1, <2>1, <3>1
  <2>3. ASSUME NEW c \in CycleSet, OfTags(c) PROVE OfTags(c)'
    <3>. SUFFICES ASSUME c.size > 0 PROVE OfTags(c)'
      BY DEF OfTags
    <3>1. c.slave \in 1 .. n
      BY <2>3 DEF OfTags
    <3>2. SlaveAt(c.slave)' = SlaveAt(c.slave)
      BY <1>1, <2>2, <3>1 DEF SlaveAt
    <3>3. c.slave \in 1 .. Len(mb') + 1 /\ ~(c.slave > Len(mb'))
      BY <1>1, <2>2, <3>1
    <3>. QED
      BY <1>1, <2>3, <3>2, <3>3 DEF OfTags, IsTag, Regs
  <2>4. cycles' \in Seq(CycleSet) /\ (\A k \in DOMAIN cycles : OfTags(cycles[k]))'
    <3>1. cycles' \in Seq(CycleSet) /\ \A k \in DOMAIN cycles' : OfTags(cycles'[k])
      BY <1>2, <2>1
    <3>. QED
      BY <2>3, <3>1
  <2>5. ASSUME NEW p \in 1 .. param' - 1, IsMODBUSTCP(p)
        PROVE  \E m \in DOMAIN mb' : mb'[m] = p
    <3>1. CASE p = param
      <4>1. n \in DOMAIN mb'
        BY <1>1, <2>2
      <4>. QED
        BY <2>2, <3>1, <4>1
    <3>2. CASE p \in 1 .. param - 1
      <4>1. PICK m \in DOMAIN mb : mb[m] = p
        BY <2>5, <3>2 DEF IniInv, CycleInv
      <4>2. m \in 1 .. Len(mb) /\ m \in 1 .. n
        BY <1>1
      <4>. QED
        BY <2>2, <4>1, <4>2
    <3>. QED
      BY <1>1, <3>1, <3>2
  <2>6. ASSUME NEW m \in DOMAIN mb', NEW t \in DOMAIN Regs(mb'[m])
        PROVE  PolledBy(cycles', m, Regs(mb'[m])[t])
    <3>1. CASE m \in 1 .. Len(mb)
      <4>1. mb'[m] = mb[m] /\ m \in DOMAIN mb
        BY <1>1, <2>2, <3>1
      <4>2. PolledBy(cycles, m, Regs(mb[m])[t])
        BY <2>6, <4>1 DEF IniInv, CycleInv
      <4>. QED
        BY <1>2, <2>1, <4>1, <4>2, PolledMonotone
    <3>2. CASE m = n
      <4>1. mb'[m] = param
        BY <2>2, <3>2
      <4>2. t \in 1 .. tags /\ tags > 0
        BY <1>1, <2>1, <2>6, <4>1, RegsType DEF IniInv
      <4>3. \/ PolledBy(cycles, n, Regs(param)[t]) \/ Polls(definedCycle, n, Regs(param)[t])
        BY <4>2 DEF IniInv, CycleInv
      <4>. QED
        BY <1>2, <2>1, <3>2, <4>1, <4>3, PolledMonotone
    <3>. QED
      BY <1>1, <2>2, <3>1, <3>2
  <2>7. (\A p \in 1 .. param - 1 : IsMODBUSTCP(p) => \E m \in DOMAIN mb : mb[m] = p)'
    BY <1>1, <2>5 DEF IsMODBUSTCP
  <2>10. (\A m \in DOMAIN mb : \A t \in DOMAIN Regs(mb[m]) : PolledBy(cycles, m, Regs(mb[m])[t]))'
    BY <1>1, <2>6 DEF Regs
  <2>8. mb' \in Seq(1 .. param' - 1) /\ param' \in 1 .. Len(slaveParams') + 1 /\ tags' \in Nat
    BY <1>1, <2>2
  <2>9. OfTags(definedCycle)'
    BY <1>1, <1>3 DEF OfTags
  <2>. QED
    BY <1>1, <1>3, <2>4, <2>7, <2>8, <2>9, <2>10 DEF CycleInv
<1>5. CASE ~IsMODBUSTCP(param)
  <2>1. UNCHANGED << cycles, mb >>
    BY <1>5 DEF NextParam
  <2>2. /\ mb' \in Seq(1 .. param' - 1) /\ param' \in 1 .. Len(slaveParams') + 1 /\ tags' \in Nat
    <3>1. mb \in Seq(1 .. param)
      BY <1>1
    <3>. QED
      BY <1>1, <2>1, <3>1
  <2>3. ASSUME NEW c \in CycleSet, c \in {cycles[k] : k \in DOMAIN cycles} PROVE OfTags(c)'
    <3>. SUFFICES ASSUME c.size > 0 PROVE OfTags(c)'
      BY DEF OfTags
    <3>1. OfTags(c)
      BY <1>2, <2>3
    <3>2. c.slave \in 1 .. Len(mb)
      BY <1>1, <1>5, <3>1 DEF OfTags
    <3>3. SlaveAt(c.slave)' = SlaveAt(c.slave)
      BY <1>1, <2>1, <3>2 DEF SlaveAt
    <3>4. c.slave \in 1 .. Len(mb') + 1 /\ ~(c.slave > Len(mb'))
      BY <1>1, <2>1, <3>2
    <3>. QED
      BY <1>1, <3>1, <3>3, <3>4 DEF OfTags, IsTag, Regs
  <2>4. (\A k \in DOMAIN cycles : OfTags(cycles[k]))'
    <3>1. \A k \in DOMAIN cycles' : cycles'[k] \in CycleSet
                                   /\ cycles'[k] \in {cycles[i] : i \in DOMAIN cycles}
      BY <1>2, <2>1
    <3>. QED
      BY <2>3, <3>1
  <2>5. OfTags(definedCycle)'
    BY <1>1, <1>3 DEF OfTags
  <2>6. (\A p \in 1 .. param - 1 : IsMODBUSTCP(p) => \E m \in DOMAIN mb : mb[m] = p)'
    <3>1. \A p \in 1 .. param - 1 : IsMODBUSTCP(p) => \E m \in DOMAIN mb : mb[m] = p
      BY DEF IniInv, CycleInv
    <3>. QED
      BY <1>1, <1>5, <2>1, <3>1 DEF IsMODBUSTCP
  <2>7. (\A m \in DOMAIN mb : \A t \in DOMAIN Regs(mb[m]) : PolledBy(cycles, m, Regs(mb[m])[t]))'
    BY <1>1, <2>1 DEF IniInv, CycleInv, Regs
  <2>. QED
    BY <1>1, <1>2, <1>3, <2>1, <2>2, <2>4, <2>5, <2>6, <2>7 DEF CycleInv
<1>. QED
  BY <1>4, <1>5

LEMMA IniIniWritten ==
  ASSUME IniInv, IniWritten PROVE CycleInv'
<1>1. /\ UNCHANGED << slaveParams, param, mb, tags, definedCycle, cycles >>
      /\ param > Len(slaveParams) /\ ini = NoIni
      /\ \/ ini' = ini
         \/ ini' = [ips |-> [n \in DOMAIN mb |-> slaveParams[mb[n]].commAddr], cycles |-> cycles]
  BY DEF IniInv, IniWritten, parser
<1>2. param = Len(slaveParams) + 1
  BY <1>1 DEF IniInv, CycleInv, ParserType
<1>3. ini' # NoIni => /\ ini'.cycles = cycles /\ DOMAIN ini'.ips = DOMAIN mb
                      /\ \A n \in DOMAIN mb : ini'.ips[n] = slaveParams[mb[n]].commAddr
  BY <1>1
<1>4. \A c : OfTags(c)' <=> OfTags(c)
  BY <1>1 DEF OfTags, SlaveAt, IsTag, Regs, IsMODBUSTCP
<1>. QED
  BY <1>1, <1>2, <1>3, <1>4 DEF IniInv, CycleInv, Regs, IsMODBUSTCP

LEMMA IniIniNotOpened ==
  ASSUME IniInv, IniNotOpened PROVE CycleInv'
<1>1. UNCHANGED << slaveParams, param, mb, tags, definedCycle, cycles, ini >>
  BY DEF IniNotOpened, parser, configurator
<1>2. \A c : OfTags(c)' <=> OfTags(c)
  BY <1>1 DEF OfTags, SlaveAt, IsTag, Regs, IsMODBUSTCP
<1>. QED
  BY <1>1, <1>2 DEF IniInv, CycleInv, Regs, IsMODBUSTCP

LEMMA NotBegunNext == ASSUME ParserType', NotBegun' PROVE CycleInv'
<1>1. NoCycle \in CycleSet /\ NoCycle.size = 0
  BY DEF NoCycle, Cycle, CycleSet
<1>2. Len(slaveParams') \in Nat /\ Len(mb') = 0 /\ cycles' = << >> /\ mb' = << >>
  BY DEF ParserType, NotBegun
<1>. QED
  BY <1>1, <1>2 DEF NotBegun, CycleInv, OfTags

LEMMA IniFirst == Init => IniInv
<1>. SUFFICES ASSUME Init PROVE IniInv
  OBVIOUS
<1>1. ParserType
  BY IdInit DEF IdInv
<1>2. NotBegun /\ at = "create"
  BY DEF Init, IniInit, NotBegun
<1>. QED
  BY <1>1, <1>2, NotBegunInv DEF IniInv

LEMMA IniStep == IniInv /\ IdInv /\ [Next]_vars => IniInv'
<1>. SUFFICES ASSUME IniInv, IdInv, [Next]_vars PROVE IniInv'
  OBVIOUS
<1>1. ParserType'
  BY IdStep DEF IdInv
<1>2. CASE Parse
  <2>1. BeforeIni /\ BeforeIni' /\ UNCHANGED configurator
    BY <1>2 DEF Parse, comm, RetrieveCommParams, TakeSlave, NextPass, Compare, IdFound, SlaveDone,
                BeforeIni
  <2>2. NotBegun'
    BY <2>1 DEF IniInv, NotBegun, configurator
  <2>. QED
    BY <1>1, <2>1, <2>2, NotBegunNext DEF IniInv, BeforeIni
<1>3. CASE Restart
  <2>1. NotBegun' /\ at' = "create"
    BY <1>3 DEF Restart, NotBegun
  <2>. QED
    BY <1>1, <2>1, NotBegunNext DEF IniInv
<1>4. CASE IniDaemons
  <2>1. CycleInv'
    BY <1>4, IniIniNotOpened, IniNextTag, IniNextParam, IniIniWritten
    DEF IniDaemons, IniMBTCPCreate
  <2>2. (at' = "ini" => ini' = NoIni) /\ ~BeforeIni'
    BY <1>4 DEF IniInv, IniDaemons, IniMBTCPCreate, IniNotOpened, NextTag, NextParam, IniWritten,
                BeforeIni
  <2>. QED
    BY <1>1, <2>1, <2>2 DEF IniInv
<1>5. CASE \/ CreateTable \/ InitValues \/ SetupDone \/ CommDaemon
           \/ LaunchDaemons \/ FirstScan \/ \E id \in DOMAIN rows : Raise(rows[id].name)
           \/ UNCHANGED vars
  <2>1. /\ UNCHANGED << slaveParams, param, mb, tags, definedCycle, cycles, ini >>
        /\ (BeforeIni' => BeforeIni) /\ (at' = "ini" => at = "ini" \/ BeforeIni)
    BY <1>5 DEF CreateTable, InitValues, SetupDone, CommDaemon, LaunchDaemons, FirstScan, Raise,
                vars, comm, configurator, parser, BeforeIni
  <2>2. \A c : OfTags(c)' <=> OfTags(c)
    BY <2>1 DEF OfTags, SlaveAt, IsTag, Regs, IsMODBUSTCP
  <2>3. CycleInv'
    BY <2>1, <2>2 DEF IniInv, CycleInv, Regs, IsMODBUSTCP
  <2>. QED
    BY <1>1, <2>1, <2>3 DEF IniInv, NotBegun
<1>. QED
  BY <1>2, <1>3, <1>4, <1>5 DEF Next, Constructor

LEMMA CoverFromInv == IniInv => CyclesCoverTags
<1>. SUFFICES ASSUME IniInv, ini # NoIni, NEW p \in DOMAIN slaveParams, IsMODBUSTCP(p)
              PROVE  \E n \in DOMAIN ini.ips :
                       /\ ini.ips[n] = slaveParams[p].commAddr
                       /\ \A t \in DOMAIN Regs(p) : PolledBy(ini.cycles, n, Regs(p)[t])
                       /\ \A k \in DOMAIN ini.cycles : ini.cycles[k].slave = n =>
                            \A r \in ini.cycles[k].first
                                       .. ini.cycles[k].first + ini.cycles[k].size - 1 :
                              IsTag(p, r)
  BY DEF CyclesCoverTags
<1>1. /\ param = Len(slaveParams) + 1 /\ ini.cycles = cycles /\ DOMAIN ini.ips = DOMAIN mb
      /\ \A n \in DOMAIN mb : ini.ips[n] = slaveParams[mb[n]].commAddr
      /\ cycles \in Seq(CycleSet) /\ mb \in Seq(1 .. param - 1)
  BY DEF IniInv, CycleInv
<1>2. p \in 1 .. param - 1
  BY <1>1 DEF IniInv, ParserType
<1>3. PICK n \in DOMAIN mb : mb[n] = p
  BY <1>2 DEF IniInv, CycleInv
<1>4. \A t \in DOMAIN Regs(p) : PolledBy(cycles, n, Regs(p)[t])
  BY <1>3 DEF IniInv, CycleInv
<1>5. ASSUME NEW k \in DOMAIN cycles, cycles[k].slave = n,
             NEW r \in cycles[k].first .. cycles[k].first + cycles[k].size - 1
      PROVE  IsTag(p, r)
  <2>1. cycles[k] \in CycleSet /\ OfTags(cycles[k])
    BY <1>1 DEF IniInv, CycleInv
  <2>2. cycles[k].size > 0
    BY <1>5, <2>1 DEF CycleSet
  <2>3. SlaveAt(n) = p
    BY <1>1, <1>3 DEF SlaveAt
  <2>. QED
    BY <1>5, <2>1, <2>2, <2>3 DEF OfTags
<1>. QED
  BY <1>1, <1>3, <1>4, <1>5

(* Whatever tags the slaves have, in whatever order: when the ini file is  *)
(* written, the registers it says to poll under the number of a MODBUSTCP  *)
(* slave are those of its tags, and no others (iniConfigurator.cpp:119).   *)
THEOREM TagsArePolled == Spec => []CyclesCoverTags
BY IdInit, IdStep, IniFirst, IniStep, CoverFromInv, PTL DEF Spec

(* While the tags are cut into cycles, those saved and the one that grows  *)
(* are the tags passed by (iniConfigurator.cpp:140).                       *)
THEOREM CutIsSound == Spec => []CycleInv
<1>1. IniInv => CycleInv
  BY DEF IniInv
<1>. QED
  BY <1>1, IdInit, IdStep, IniFirst, IniStep, PTL DEF Spec

----------------------------------------------------------------------------
(* The three numbers of a slave.  When no slave asks for an id but its     *)
(* place, the ids taken before it are the places before it; and when the   *)
(* MODBUSTCP slaves come first, the n-th of them is the n-th of all.       *)
PlainInv ==
  PlainNumbers =>
    /\ \A k \in DOMAIN slaveParams :
         slaveParams[k].commId = k /\ slaveParams[k].commType = slaves[k].protocol
    /\ \A n \in DOMAIN mb : mb[n] = n

(* The ini file is made of all slaves of the file.                         *)
AllRead == at \in {"ini", "launch"} => Len(slaveParams) = Len(slaves)

LEMMA AllReadStep == AllRead /\ [Next]_vars => AllRead'
<1>. SUFFICES ASSUME AllRead, [Next]_vars PROVE AllRead'
  OBVIOUS
<1>1. CASE Parse \/ Restart
  <2>1. at' \notin {"ini", "launch"}
    BY <1>1 DEF Parse, Restart, RetrieveCommParams, TakeSlave, NextPass, Compare, IdFound, SlaveDone
  <2>. QED
    BY <2>1 DEF AllRead
<1>2. CASE CommDaemon
  BY <1>2 DEF CommDaemon, AllRead, parser
<1>3. CASE \/ CreateTable \/ InitValues \/ SetupDone \/ IniDaemons
           \/ LaunchDaemons \/ FirstScan \/ \E id \in DOMAIN rows : Raise(rows[id].name)
           \/ UNCHANGED vars
  BY <1>3 DEF CreateTable, InitValues, SetupDone, IniDaemons, IniMBTCPCreate, IniNotOpened,
              NextTag, NextParam, IniWritten, LaunchDaemons, FirstScan, Raise, vars, parser, AllRead
<1>. QED
  BY <1>1, <1>2, <1>3 DEF Next, Constructor

LEMMA PlainTaken ==
  ASSUME ParserType, PlainInv, PlainNumbers
  PROVE  TakenBefore(Len(slaveParams) + 1) = 1 .. Len(slaveParams)
<1>1. Len(slaveParams) \in Nat /\ DOMAIN slaveParams = 1 .. Len(slaveParams)
  BY DEF ParserType
<1>2. \A l \in 1 .. Len(slaveParams) : slaveParams[l].commId = l
  BY <1>1 DEF PlainInv
<1>. QED
  BY <1>1, <1>2 DEF TakenBefore

LEMMA PlainSlaveDone ==
  ASSUME IdInv, PlainInv, SlaveDone, UNCHANGED << slaves, mb >>
  PROVE  PlainInv'
<1>. SUFFICES ASSUME PlainNumbers PROVE PlainInv'
  BY DEF PlainInv, PlainNumbers, Asked
<1>. DEFINE k == Len(slaveParams) + 1
            from == FirstId(Asked(Current))
<1>1. /\ at = "checks" /\ k <= Len(slaves) /\ Len(slaveParams) \in Nat /\ Len(slaves) \in Nat
      /\ DOMAIN slaves = 1 .. Len(slaves) /\ commId \in Int
      /\ IF slaveParams = << >>
         THEN commId = from
         ELSE \/ commId < IdLimit /\ LeastFree(commId, from, TakenBefore(k))
              \/ commId = -1 /\ LeastFree(IdLimit, from, TakenBefore(k))
  BY DEF SlaveDone, IdInv, SearchInv, ParserType, IsFile
<1>2. Current = slaves[k] /\ k \in DOMAIN slaves
  BY <1>1 DEF Current
<1>3. Asked(Current) \in {-1, 0, k} /\ Len(slaves) < IdLimit /\ IdLimit \in Nat
  BY <1>2, IdLimitAssumption DEF PlainNumbers
<1>4. from \in {1, k}
  BY <1>1, <1>3 DEF FirstId
<1>5. TakenBefore(k) = 1 .. k - 1
  BY <1>1, PlainTaken DEF IdInv
<1>6. commId = k
  <2>1. CASE slaveParams = << >>
    BY <1>1, <1>4, <2>1
  <2>2. CASE slaveParams # << >>
    <3>1. k > 1
      BY <1>1, <2>2 DEF IdInv, ParserType
    <3>2. CASE commId < IdLimit /\ LeastFree(commId, from, TakenBefore(k))
      BY <1>1, <1>4, <1>5, <3>1, <3>2 DEF LeastFree
    <3>3. CASE commId = -1 /\ LeastFree(IdLimit, from, TakenBefore(k))
      <4>1. k \in from .. IdLimit - 1
        BY <1>1, <1>3, <1>4, <3>1
      <4>. QED
        BY <1>1, <1>5, <3>3, <4>1 DEF LeastFree
    <3>. QED
      BY <1>1, <2>2, <3>2, <3>3
  <2>. QED
    BY <2>1, <2>2
<1>7. /\ DOMAIN slaveParams' = 1 .. k
      /\ \A l \in 1 .. Len(slaveParams) : slaveParams'[l] = slaveParams[l]
      /\ slaveParams'[k].commId = commId /\ slaveParams'[k].commType = Current.protocol
  BY <1>1 DEF SlaveDone, IdInv, ParserType
<1>8. ASSUME NEW l \in 1 .. k
      PROVE  slaveParams'[l].commId = l /\ slaveParams'[l].commType = slaves[l].protocol
  <2>1. CASE l = k
    BY <1>2, <1>6, <1>7, <2>1
  <2>2. CASE l \in 1 .. Len(slaveParams)
    BY <1>7, <2>2 DEF PlainInv, IdInv, ParserType
  <2>. QED
    BY <1>1, <2>1, <2>2
<1>. QED
  BY <1>7, <1>8 DEF PlainInv

LEMMA PlainNextParam ==
  ASSUME IdInv, IniInv, PlainInv, NextParam
  PROVE  PlainInv'
<1>1. UNCHANGED << slaves, slaveParams >>
  BY DEF NextParam, parser
<1>. SUFFICES ASSUME PlainNumbers PROVE PlainInv'
  BY <1>1 DEF PlainInv, PlainNumbers, Asked
<1>2. /\ param \in 1 .. Len(slaveParams) /\ param \in DOMAIN slaveParams
      /\ Len(slaveParams) \in Nat /\ mb \in Seq(1 .. param - 1)
  BY DEF IniInv, CycleInv, ParserType, NextParam
<1>3. Len(mb) \in Nat /\ DOMAIN mb = 1 .. Len(mb) /\ \A n \in 1 .. Len(mb) : mb[n] = n
  BY <1>2 DEF PlainInv
<1>4. CASE ~IsMODBUSTCP(param)
  BY <1>1, <1>4 DEF PlainInv, NextParam
<1>5. CASE IsMODBUSTCP(param)
  <2>1. mb' = Append(mb, param)
    BY <1>5 DEF NextParam
  <2>2. param \in DOMAIN slaves /\ slaves[param].protocol = "MODBUSTCP"
    <3>1. slaveParams[param].commType = slaves[param].protocol
      BY <1>2 DEF PlainInv
    <3>2. Len(slaveParams) <= Len(slaves) /\ DOMAIN slaves = 1 .. Len(slaves) /\ Len(slaves) \in Nat
      BY DEF IdInv, SearchInv, ParserType, IsFile
    <3>. QED
      BY <1>2, <1>5, <3>1, <3>2 DEF IsMODBUSTCP
  <2>3. \A k \in 1 .. param - 1 : IsMODBUSTCP(k)
    BY <1>2, <2>2 DEF PlainNumbers, PlainInv, IsMODBUSTCP
  <2>4. Len(mb) = param - 1
    <3>1. \A n \in 1 .. Len(mb) : n \in 1 .. param - 1
      BY <1>2, <1>3
    <3>2. Len(mb) <= param - 1
      BY <1>2, <1>3, <3>1
    <3>3. CASE param > 1
      <4>1. PICK n \in DOMAIN mb : mb[n] = param - 1
        BY <1>2, <2>3, <3>3 DEF IniInv, CycleInv
      <4>. QED
        BY <1>2, <1>3, <3>2, <4>1
    <3>. QED
      BY <1>2, <1>3, <3>2, <3>3
  <2>5. \A n \in DOMAIN mb' : mb'[n] = n
    <3>1. mb \in Seq(Nat) /\ param \in Nat
      BY <1>2
    <3>. QED
      BY <1>3, <2>1, <2>4, <3>1
  <2>. QED
    BY <1>1, <2>5 DEF PlainInv
<1>. QED
  BY <1>4, <1>5

LEMMA PlainStep == PlainInv /\ IniInv /\ IdInv /\ [Next]_vars => PlainInv'
<1>. SUFFICES ASSUME PlainInv, IniInv, IdInv, [Next]_vars PROVE PlainInv'
  OBVIOUS
<1>1. ASSUME UNCHANGED << slaves, slaveParams, mb >> PROVE PlainInv'
  BY <1>1 DEF PlainInv, PlainNumbers, Asked
<1>2. CASE Parse
  <2>1. UNCHANGED << slaves, mb >>
    BY <1>2 DEF Parse, comm, configurator
  <2>2. SlaveDone \/ UNCHANGED slaveParams
    BY <1>2 DEF Parse, RetrieveCommParams, TakeSlave, NextPass, Compare, IdFound
  <2>. QED
    BY <1>1, <2>1, <2>2, PlainSlaveDone
<1>3. CASE IniDaemons
  <2>1. NextParam \/ UNCHANGED << slaves, slaveParams, mb >>
    BY <1>3 DEF IniDaemons, IniMBTCPCreate, IniNotOpened, NextTag, IniWritten, parser, configurator
  <2>. QED
    BY <1>1, <2>1, PlainNextParam
<1>4. CASE Restart
  BY <1>4 DEF Restart, PlainInv
<1>5. CASE \/ CreateTable \/ InitValues \/ SetupDone \/ CommDaemon
           \/ LaunchDaemons \/ FirstScan \/ \E id \in DOMAIN rows : Raise(rows[id].name)
           \/ UNCHANGED vars
  BY <1>1, <1>5 DEF CreateTable, InitValues, SetupDone, CommDaemon, LaunchDaemons, FirstScan,
                    Raise, vars, comm, configurator, parser
<1>. QED
  BY <1>2, <1>3, <1>4, <1>5 DEF Next, Constructor

(* For any file whose numbers are plain, the tags of a slave are polled    *)
(* under the number by which they are read and written, at its own address *)
(* (iniConfigurator.cpp:159, piComm.cpp:117).                              *)
THEOREM NumbersAreOne == Spec => []OneNumbering
<1>1. Init => PlainInv /\ AllRead
  BY DEF Init, ParserInit, IniInit, PlainInv, AllRead
<1>2. IdInv /\ IniInv /\ PlainInv /\ AllRead => OneNumbering
  <2>. SUFFICES ASSUME IdInv, IniInv, PlainInv, AllRead, PlainNumbers, ini # NoIni,
                       NEW p \in DOMAIN slaves, at = "launch", IsMODBUSTCP(p)
                PROVE  /\ slaveParams[p].commId = p
                       /\ p \in DOMAIN ini.ips /\ ini.ips[p] = slaveParams[p].commAddr
                       /\ \A t \in DOMAIN Regs(p) : PolledBy(ini.cycles, p, Regs(p)[t])
    BY DEF OneNumbering
  <2>1. p \in DOMAIN slaveParams /\ slaveParams[p].commId = p
    <3>1. Len(slaveParams) = Len(slaves) /\ DOMAIN slaves = 1 .. Len(slaves)
      BY DEF AllRead, IdInv, ParserType, IsFile
    <3>2. p \in DOMAIN slaveParams
      BY <3>1 DEF IdInv, ParserType
    <3>. QED
      BY <3>2 DEF PlainInv
  <2>2. /\ param = Len(slaveParams) + 1 /\ ini.cycles = cycles /\ DOMAIN ini.ips = DOMAIN mb
        /\ \A n \in DOMAIN mb : ini.ips[n] = slaveParams[mb[n]].commAddr
    BY DEF IniInv, CycleInv
  <2>3. p \in 1 .. param - 1
    BY <2>1, <2>2 DEF IdInv, ParserType
  <2>4. p \in DOMAIN mb /\ mb[p] = p
    BY <2>3 DEF IniInv, CycleInv, PlainInv
  <2>5. \A t \in DOMAIN Regs(p) : PolledBy(cycles, p, Regs(p)[t])
    BY <2>4 DEF IniInv, CycleInv
  <2>. QED
    BY <2>1, <2>2, <2>4, <2>5
<1>. QED
  BY <1>1, <1>2, IdInit, IdStep, IniFirst, IniStep, PlainStep, AllReadStep, PTL DEF Spec

----------------------------------------------------------------------------
(* The start of a sound file.  It reads each slave as it stands in the     *)
(* file, and no cycle is empty.                                            *)
SoundInv ==
  Sound =>
    /\ \A k \in DOMAIN slaveParams :
         /\ slaveParams[k].commType = "MODBUSTCP" /\ slaveParams[k].isValid
         /\ slaveParams[k].regs # << >>
    /\ at \notin {"aborted", "segv"}
    /\ \A n \in DOMAIN cycles : cycles[n].size > 0
    /\ tags > 0 => definedCycle.size > 0

LEMMA RunSize ==
  ASSUME NEW m \in Nat, NEW n \in Nat, m <= n
  PROVE  IsFiniteSet(m .. n - 1) /\ Cardinality(m .. n - 1) = n - m
<1>1. m \in Int /\ n - 1 \in Int
  OBVIOUS
<1>2. /\ IsFiniteSet(m .. n - 1)
      /\ Cardinality(m .. n - 1) = IF m > n - 1 THEN 0 ELSE n - 1 - m + 1
  BY <1>1, FS_Interval
<1>. QED
  BY <1>2

(* As many ids are taken as there are slaves before, and those passed over *)
(* are among them; so the search cannot leave the ids there are.           *)
LEMMA SearchStaysLow ==
  ASSUME IdInv, Sound, at \in {"while", "compare"} PROVE commId <= IdLimit
<1>. DEFINE n == Len(slaveParams)
            k == n + 1
            from == FirstId(Asked(Current))
            Id(l) == slaveParams[l].commId
            f == [l \in 1 .. n |-> Id(l)]
<1>1. /\ n \in Nat \ {0} /\ k <= Len(slaves) /\ Len(slaves) \in Nat /\ commId \in Nat
      /\ commId >= from /\ \A c \in from .. commId - 1 : c \in TakenBefore(k)
      /\ DOMAIN slaves = 1 .. Len(slaves)
  BY DEF IdInv, ParserType, SearchInv, IsFile
<1>2. from \in Nat /\ from + n <= IdLimit
  <2>1. from \in Nat
    BY <1>1, CurrentFacts DEF IdInv
  <2>2. k \in DOMAIN slaves /\ k > 1 /\ Current = slaves[k]
    BY <1>1 DEF Current
  <2>3. from + k - 1 <= IdLimit
    BY <2>2 DEF Sound
  <2>. QED
    BY <1>1, <2>1, <2>3, IdLimitAssumption
<1>3. IsFiniteSet(1 .. n) /\ Cardinality(1 .. n) = n
  <2>1. n + 1 \in Nat /\ 1 <= n + 1 /\ (n + 1) - 1 = n
    BY <1>1
  <2>. HIDE DEF n
  <2>. QED
    BY <2>1, RunSize
<1>4. f \in Surjection(1 .. n, TakenBefore(k))
  BY <1>1 DEF TakenBefore, Surjection
<1>5. IsFiniteSet(TakenBefore(k)) /\ Cardinality(TakenBefore(k)) <= n
  BY <1>3, <1>4, FS_Surjection
<1>6. from .. commId - 1 \subseteq TakenBefore(k)
  BY <1>1
<1>7. Cardinality(from .. commId - 1) <= Cardinality(TakenBefore(k))
  BY <1>5, <1>6, FS_Subset
<1>8. Cardinality(from .. commId - 1) = commId - from
  BY <1>1, <1>2, RunSize
<1>9. Cardinality(TakenBefore(k)) \in Nat
  BY <1>5, FS_CardinalityType
<1>. HIDE DEF n, from
<1>. QED
  BY <1>1, <1>2, <1>5, <1>7, <1>8, <1>9, IdLimitAssumption

LEMMA SoundSlaveDone ==
  ASSUME IdInv, SoundInv, SlaveDone, UNCHANGED << slaves, configurator >>
  PROVE  SoundInv'
<1>. SUFFICES ASSUME Sound PROVE SoundInv'
  BY DEF SoundInv, Sound, Asked, FirstId
<1>. DEFINE k == Len(slaveParams) + 1
<1>1. /\ at = "checks" /\ k <= Len(slaves) /\ Len(slaveParams) \in Nat /\ Len(slaves) \in Nat
      /\ DOMAIN slaves = 1 .. Len(slaves) /\ DOMAIN slaveParams = 1 .. Len(slaveParams)
  BY DEF SlaveDone, IdInv, SearchInv, ParserType, IsFile
<1>2. k \in DOMAIN slaves /\ Current = slaves[k]
  BY <1>1 DEF Current
<1>3. /\ Current.protocol = "MODBUSTCP" /\ Current.child /\ Current.regs # << >>
      /\ \A l \in 1 .. k - 1 : slaves[l].name # Current.name
  BY <1>2 DEF Sound
<1>4. SlaveIsValid(Current)
  BY <1>1, <1>3 DEF SlaveIsValid
<1>5. /\ DOMAIN slaveParams' = 1 .. k
      /\ \A l \in 1 .. Len(slaveParams) : slaveParams'[l] = slaveParams[l]
      /\ slaveParams'[k].commType = Current.protocol
      /\ slaveParams'[k].regs = (IF Current.child THEN Current.regs ELSE << >>)
      /\ slaveParams'[k].isValid = SlaveIsValid(Current)
      /\ at' = "slave"
  BY <1>1 DEF SlaveDone, IdInv, ParserType
<1>6. ASSUME NEW l \in DOMAIN slaveParams'
      PROVE  /\ slaveParams'[l].commType = "MODBUSTCP" /\ slaveParams'[l].isValid
             /\ slaveParams'[l].regs # << >>
  <2>1. CASE l = k
    BY <1>3, <1>4, <1>5, <2>1
  <2>2. CASE l \in 1 .. Len(slaveParams)
    BY <1>1, <1>5, <2>2 DEF SoundInv
  <2>. QED
    BY <1>1, <1>5, <2>1, <2>2
<1>7. UNCHANGED << cycles, tags, definedCycle >>
  BY DEF configurator
<1>. QED
  BY <1>5, <1>6, <1>7 DEF SoundInv

LEMMA SoundIni ==
  ASSUME IdInv, IniInv, SoundInv, IniMBTCPCreate PROVE SoundInv'
<1>1. UNCHANGED << slaves, slaveParams >>
  BY DEF IniMBTCPCreate, IniNotOpened, NextTag, NextParam, IniWritten, parser
<1>. SUFFICES ASSUME Sound PROVE SoundInv'
  BY <1>1 DEF SoundInv, Sound, Asked, FirstId
<1>2. /\ \A n \in DOMAIN cycles : cycles[n].size > 0
      /\ tags > 0 => definedCycle.size > 0
      /\ \A k \in DOMAIN slaveParams : IsMODBUSTCP(k) /\ Regs(k) # << >>
      /\ cycles \in Seq(CycleSet) /\ definedCycle \in CycleSet
  BY DEF SoundInv, IniInv, CycleInv, IsMODBUSTCP, Regs
<1>3. ASSUME NEW c \in CycleSet, c.size > 0
      PROVE  \A n \in DOMAIN Append(cycles, c) : Append(cycles, c)[n].size > 0
  BY <1>2, <1>3
<1>4. CASE NextTag
  <2>1. definedCycle' \in CycleSet /\ definedCycle'.size > 0
    <3>1. CASE definedCycle' = [definedCycle EXCEPT !.size = @ + 1]
      BY <1>2, <3>1 DEF CycleSet
    <3>2. CASE definedCycle' = Cycle(Number, Regs(param)[tags + 1], 1)
      <4>1. Number \in Nat
        BY DEF Number, IniInv, CycleInv
      <4>2. Regs(param)[tags + 1] \in Int
        <5>1. param \in DOMAIN slaveParams
          BY <1>4 DEF NextTag, IniInv, CycleInv, ParserType
        <5>2. Regs(param) \in Seq(Int)
          BY <5>1, RegsType DEF IniInv
        <5>. QED
          BY <1>4, <5>2 DEF NextTag, IniInv, CycleInv
      <4>. QED
        BY <3>2, <4>1, <4>2 DEF Cycle, CycleSet
    <3>. QED
      BY <1>4, <3>1, <3>2 DEF NextTag
  <2>2. \A n \in DOMAIN cycles' : cycles'[n].size > 0
    <3>1. cycles' = cycles \/ cycles' = Saved
      BY <1>4 DEF NextTag
    <3>. QED
      BY <1>2, <1>3, <3>1 DEF Saved
  <2>. QED
    BY <1>1, <1>4, <2>1, <2>2 DEF SoundInv, NextTag
<1>5. CASE NextParam
  <2>1. param \in DOMAIN slaveParams
    BY <1>5 DEF NextParam, IniInv, CycleInv, ParserType
  <2>2. Len(Regs(param)) > 0 /\ IsMODBUSTCP(param)
    <3>1. Regs(param) \in Seq(Int)
      BY <2>1, RegsType DEF IniInv
    <3>. QED
      BY <1>2, <2>1, <3>1
  <2>3. tags = Len(Regs(param)) /\ cycles' = Append(cycles, definedCycle) /\ tags' = 0 /\ at' = at
    BY <1>5, <2>2 DEF NextParam
  <2>4. definedCycle.size > 0
    BY <1>2, <2>2, <2>3
  <2>5. \A n \in DOMAIN cycles' : cycles'[n].size > 0
    BY <1>2, <1>3, <2>3, <2>4
  <2>. QED
    BY <1>1, <2>3, <2>5 DEF SoundInv
<1>6. CASE IniWritten
  <2>1. ~\E n \in DOMAIN cycles : cycles[n].size = 0
    BY <1>2
  <2>. QED
    BY <1>1, <1>6, <2>1 DEF IniWritten, SoundInv
<1>7. CASE IniNotOpened
  BY <1>1, <1>7 DEF IniNotOpened, configurator, SoundInv
<1>. QED
  BY <1>4, <1>5, <1>6, <1>7 DEF IniMBTCPCreate

LEMMA SoundStep == SoundInv /\ IniInv /\ IdInv /\ [Next]_vars => SoundInv'
<1>. SUFFICES ASSUME SoundInv, IniInv, IdInv, [Next]_vars PROVE SoundInv'
  OBVIOUS
<1>1. ASSUME UNCHANGED << slaves, slaveParams, cycles, tags, definedCycle >>,
             at' \notin {"aborted", "segv"} \/ at' = at
      PROVE  SoundInv'
  BY <1>1 DEF SoundInv, Sound, Asked, FirstId
<1>2. CASE Parse
  <2>1. UNCHANGED << slaves, configurator >>
    BY <1>2 DEF Parse, comm
  <2>2. UNCHANGED << cycles, tags, definedCycle >>
    BY <2>1 DEF configurator
  <2>3. SlaveDone \/ (UNCHANGED slaveParams /\ at' \notin {"aborted", "segv"})
    BY <1>2 DEF Parse, RetrieveCommParams, TakeSlave, NextPass, Compare, IdFound
  <2>. QED
    BY <1>1, <2>1, <2>2, <2>3, SoundSlaveDone
<1>3. CASE IniDaemons
  BY <1>3, SoundIni DEF IniDaemons
<1>4. CASE Restart
  BY <1>4 DEF Restart, SoundInv
<1>5. CASE FirstScan
  <2>1. UNCHANGED << slaves, slaveParams, cycles, tags, definedCycle >>
    BY <1>5 DEF FirstScan, comm, configurator, parser
  <2>2. Sound => at' # "segv"
    BY <1>5 DEF FirstScan, SoundInv
  <2>3. at' \in {"segv", "running"}
    BY <1>5 DEF FirstScan
  <2>4. CASE at' = "running"
    BY <1>1, <2>1, <2>4
  <2>5. CASE at' = "segv"
    BY <2>1, <2>2, <2>5 DEF SoundInv, Sound, Asked, FirstId
  <2>. QED
    BY <2>3, <2>4, <2>5
<1>6. CASE \/ CreateTable \/ InitValues \/ SetupDone \/ CommDaemon
           \/ LaunchDaemons \/ \E id \in DOMAIN rows : Raise(rows[id].name)
           \/ UNCHANGED vars
  <2>1. UNCHANGED << slaves, slaveParams, cycles, tags, definedCycle >>
    BY <1>6 DEF CreateTable, InitValues, SetupDone, CommDaemon, LaunchDaemons,
                Raise, vars, comm, configurator, parser
  <2>2. at' \notin {"aborted", "segv"} \/ at' = at
    BY <1>6 DEF CreateTable, InitValues, SetupDone, CommDaemon, LaunchDaemons, Raise, vars
  <2>. QED
    BY <1>1, <2>1, <2>2
<1>. QED
  BY <1>2, <1>3, <1>4, <1>5, <1>6 DEF Next, Constructor

LEMMA SoundInit == Init => SoundInv
BY DEF Init, ParserInit, IniInit, SoundInv

(* Every sound file, of any length, stays clear of the ways this start can *)
(* go wrong: the endless search for an id (config.cpp:359), at(0) of an    *)
(* empty cycle (iniConfigurator.cpp:119), the tags of a slave without      *)
(* rlMODBUS (piComm.cpp:30).                                               *)
THEOREM SoundFilesStaySafe == Spec => []SoundStaysSafe
<1>1. SoundInv /\ IdInv => SoundStaysSafe
  BY SearchStaysLow DEF SoundInv, SoundStaysSafe
<1>. QED
  BY <1>1, IdInit, IdStep, IniFirst, IniStep, SoundInit, SoundStep, PTL DEF Spec

----------------------------------------------------------------------------
(* The end of the start.  What remains is six numbers; each step of the    *)
(* process lowers them, none below zero, and nothing can be lowered so     *)
(* without end.                                                            *)
Measures == [1 .. 6 -> Nat]

LowerMeasure == {p \in Measures \X Measures : LessThan(p[1], p[2])}

(* Among measures there is one whose i-th number is least.                 *)
LEMMA LeastComponent ==
  ASSUME NEW T \in SUBSET Measures, T # {}, NEW i \in 1 .. 6
  PROVE  \E x \in T : \A y \in T : x[i] <= y[i]
<1>. DEFINE At(n) == \E y \in T : y[i] = n
            low(x) == {n \in 0 .. x[i] : At(n)}
<1>1. PICK x \in T : TRUE
  OBVIOUS
<1>2. \A y \in T : y[i] \in Nat
  BY DEF Measures
<1>3. low(x) \in SUBSET Nat /\ low(x) # {} /\ IsFiniteSet(low(x))
  <2>1. x[i] \in low(x)
    BY <1>1, <1>2
  <2>2. IsFiniteSet(0 .. x[i])
    <3>1. 0 \in Int /\ x[i] \in Int
      BY <1>2
    <3>. QED
      BY <3>1, FS_Interval
  <2>3. low(x) \in SUBSET (0 .. x[i])
    OBVIOUS
  <2>. HIDE DEF low
  <2>. QED
    BY <1>2, <2>1, <2>2, <2>3, FS_Subset
<1>4. PICK m \in low(x) : \A n \in low(x) : m <= n
  <2>. HIDE DEF low
  <2>. QED
    BY <1>3, LeastNumber
<1>5. PICK z \in T : z[i] = m
  BY <1>4
<1>6. ASSUME NEW y \in T PROVE z[i] <= y[i]
  <2>1. CASE y[i] <= x[i]
    BY <1>2, <1>4, <1>5, <2>1
  <2>2. CASE ~(y[i] <= x[i])
    BY <1>2, <1>4, <1>5, <2>2
  <2>. QED
    BY <2>1, <2>2
<1>. QED
  BY <1>5, <1>6

(* The least in the first number, of these the least in the second, and so *)
(* on: nothing is lower.                                                   *)
LEMMA NoEndlessDescent == IsWellFoundedOn(LowerMeasure, Measures)
<1>1. ASSUME NEW T \in SUBSET Measures, T # {}
      PROVE  \E x \in T : \A y \in T : << y, x >> \notin LowerMeasure
  <2>. DEFINE Least(U, i) == {x \in U : \A y \in U : x[i] <= y[i]}
              T1 == Least(T, 1)
              T2 == Least(T1, 2)
              T3 == Least(T2, 3)
              T4 == Least(T3, 4)
              T5 == Least(T4, 5)
              T6 == Least(T5, 6)
  <2>1. ASSUME NEW U \in SUBSET Measures, U # {}, NEW i \in 1 .. 6
        PROVE  Least(U, i) # {} /\ Least(U, i) \in SUBSET Measures
    <3>1. \E x \in U : \A y \in U : x[i] <= y[i]
      BY <2>1, LeastComponent
    <3>. QED
      BY <3>1
  <2>2. T6 # {}
    <3>. HIDE DEF Least
    <3>1. T1 # {} /\ T1 \in SUBSET Measures
      BY <1>1, <2>1
    <3>2. T2 # {} /\ T2 \in SUBSET Measures
      BY <2>1, <3>1
    <3>3. T3 # {} /\ T3 \in SUBSET Measures
      BY <2>1, <3>2
    <3>4. T4 # {} /\ T4 \in SUBSET Measures
      BY <2>1, <3>3
    <3>5. T5 # {} /\ T5 \in SUBSET Measures
      BY <2>1, <3>4
    <3>. QED
      BY <2>1, <3>5
  <2>3. PICK x \in T6 : TRUE
    BY <2>2
  <2>4. ASSUME NEW y \in T, << y, x >> \in LowerMeasure PROVE FALSE
    <3>1. x \in Measures /\ y \in Measures /\ LessThan(y, x)
      BY <2>4 DEF LowerMeasure
    <3>2. PICK i \in 1 .. 6 : y[i] < x[i] /\ \A k \in 1 .. i - 1 : y[k] = x[k]
      BY <3>1 DEF LessThan, Measures
    <3>3. \A k \in 1 .. 6 : x[k] \in Nat /\ y[k] \in Nat
      BY <3>1 DEF Measures
    <3>4. x \in T1 /\ x \in T2 /\ x \in T3 /\ x \in T4 /\ x \in T5
      OBVIOUS
    <3>5. /\ i > 1 => y \in T1
          /\ i > 2 => y \in T2
          /\ i > 3 => y \in T3
          /\ i > 4 => y \in T4
          /\ i > 5 => y \in T5
      <4>1. i > 1 => y \in T1
        BY <3>2, <3>4
      <4>2. i > 2 => y \in T2
        BY <3>2, <3>4, <4>1
      <4>3. i > 3 => y \in T3
        BY <3>2, <3>4, <4>2
      <4>4. i > 4 => y \in T4
        BY <3>2, <3>4, <4>3
      <4>5. i > 5 => y \in T5
        BY <3>2, <3>4, <4>4
      <4>. QED
        BY <4>1, <4>2, <4>3, <4>4, <4>5
    <3>6. /\ x[1] <= y[1] \/ i > 1
          /\ i = 2 => x[2] <= y[2]
          /\ i = 3 => x[3] <= y[3]
          /\ i = 4 => x[4] <= y[4]
          /\ i = 5 => x[5] <= y[5]
          /\ i = 6 => x[6] <= y[6]
      BY <2>3, <2>4, <3>4, <3>5
    <3>. QED
      BY <3>2, <3>3, <3>6
  <2>. QED
    BY <2>3, <2>4
<1>. QED
  BY <1>1, MinWF

(* What remains, by the place of the process.                              *)
RemainingAt ==
  /\ at = "create" => Remaining = << 6, 0, 0, 0, 0, 0 >>
  /\ at = "rows" => Remaining = << 5, Len(names) - inserts, 0, 0, 0, 0 >>
  /\ at = "slave" => Remaining = << 4, Len(slaves) - Len(slaveParams), 2, 0, 0, 0 >>
  /\ Searching => Remaining = << 4, Len(slaves) - Len(slaveParams), 1, IdLimit - commId,
                                 IF match THEN 1 ELSE 0, j >>
  /\ at = "checks" => Remaining = << 4, Len(slaves) - Len(slaveParams), 0, 0, 0, 0 >>
  /\ at = "ini" => Remaining = << 3, Len(slaveParams) + 1 - param,
                                  IF param <= Len(slaveParams) THEN Len(Regs(param)) - tags ELSE 0,
                                  0, 0, 0 >>
  /\ at = "launch" => Remaining = << 2, 0, 0, 0, 0, 0 >>
  /\ at = "scan" => Remaining = << 1, 0, 0, 0, 0, 0 >>
  /\ Stage = 0 => Remaining = << 0, 0, 0, 0, 0, 0 >>

LEMMA RemainingNow == RemainingAt
BY DEF RemainingAt, Remaining, Stage, Searching

LEMMA RemainingNext == RemainingAt'
BY DEF RemainingAt, Remaining, Stage, Searching

MeasureInv == Sound => Remaining \in Measures

LEMMA RemainingType == IdInv /\ IniInv /\ RowsInv => MeasureInv
<1>. SUFFICES ASSUME IdInv, IniInv, RowsInv, Sound PROVE Remaining \in Measures
  BY DEF MeasureInv
<1>1. /\ Len(slaves) - Len(slaveParams) \in Nat /\ Len(slaveParams) \in Nat
  BY DEF IdInv, ParserType, SearchInv, IsFile
<1>2. CASE at = "rows"
  <2>1. Len(names) - inserts \in Nat
    BY <1>2, NamesOfTriggers DEF RowsInv, IsList
  <2>. QED
    BY <1>2, <2>1, RemainingNow DEF RemainingAt, Measures
<1>3. CASE at \in {"slave", "checks"}
  BY <1>1, <1>3, RemainingNow DEF RemainingAt, Measures
<1>4. CASE Searching
  <2>1. IdLimit - commId \in Nat
    BY <1>4, SearchStaysLow, IdLimitAssumption DEF Searching, IdInv, SearchInv
  <2>2. j \in Nat
    BY <1>1, <1>4 DEF Searching, IdInv, SearchInv
  <2>. QED
    BY <1>1, <1>4, <2>1, <2>2, RemainingNow DEF RemainingAt, Measures
<1>5. CASE at = "ini"
  <2>1. Len(slaveParams) + 1 - param \in Nat
    BY <1>1 DEF IniInv, CycleInv
  <2>2. ASSUME param <= Len(slaveParams) PROVE Len(Regs(param)) - tags \in Nat
    <3>1. param \in DOMAIN slaveParams
      BY <1>1, <2>2 DEF IniInv, CycleInv, ParserType
    <3>2. Len(Regs(param)) \in Nat
      BY <3>1, RegsType DEF IniInv
    <3>. QED
      BY <3>2 DEF IniInv, CycleInv
  <2>. QED
    BY <1>5, <2>1, <2>2, RemainingNow DEF RemainingAt, Measures
<1>6. CASE at \in {"create", "launch", "scan"}
  BY <1>6, RemainingNow DEF RemainingAt, Measures
<1>7. CASE at \notin {"create", "rows", "slave", "while", "compare", "checks", "ini", "launch",
                      "scan"}
  BY <1>7, RemainingNow DEF RemainingAt, Stage, Measures
<1>. QED
  BY <1>2, <1>3, <1>4, <1>5, <1>6, <1>7 DEF Searching

(* One step after the other.                                               *)
LEMMA SetupAdvances ==
  ASSUME RowsInv, IdInv, CreateTable \/ InitValues \/ SetupDone
  PROVE  LessThan(Remaining', Remaining)
<1>1. Len(slaves) - Len(slaveParams) \in Int /\ (Len(slaves) - Len(slaveParams))' \in Int
  BY DEF IdInv, ParserType, SearchInv, IsFile, CreateTable, InitValues, SetupDone, parser
<1>2. CASE CreateTable
  <2>1. (Len(names) - inserts)' \in Int
    <3>1. IsList(names') /\ inserts' = inserts
      BY <1>2, NoRepetitions DEF CreateTable, RowsInv, TablesInv
    <3>2. inserts \in Int
      BY <1>2 DEF CreateTable, RowsInv, ProgressInv
    <3>. QED
      BY <3>1, <3>2 DEF IsList
  <2>2. at = "create" /\ at' \in {"rows", "slave"}
    BY <1>2 DEF CreateTable
  <2>3. Remaining = << 6, 0, 0, 0, 0, 0 >>
    BY <2>2, RemainingNow DEF RemainingAt
  <2>4. \/ Remaining' = << 5, (Len(names) - inserts)', 0, 0, 0, 0 >>
        \/ Remaining' = << 4, (Len(slaves) - Len(slaveParams))', 2, 0, 0, 0 >>
    BY <2>2, RemainingNext DEF RemainingAt
  <2>. QED
    BY <1>1, <2>1, <2>3, <2>4 DEF LessThan
<1>3. CASE InitValues
  <2>1. /\ at = "rows" /\ at' = "rows" /\ inserts' = inserts + 1 /\ names' = names
    BY <1>3 DEF InitValues
  <2>2. Len(names) \in Nat /\ inserts \in Nat
    BY <2>1, NamesOfTriggers DEF RowsInv, IsList
  <2>3. /\ Remaining = << 5, Len(names) - inserts, 0, 0, 0, 0 >>
        /\ Remaining' = << 5, Len(names) - (inserts + 1), 0, 0, 0, 0 >>
    BY <2>1, RemainingNow, RemainingNext DEF RemainingAt
  <2>. QED
    BY <2>2, <2>3 DEF LessThan
<1>4. CASE SetupDone
  <2>1. at = "rows" /\ at' = "slave"
    BY <1>4 DEF SetupDone
  <2>2. Len(names) - inserts \in Int
    BY <2>1, NamesOfTriggers DEF RowsInv, IsList
  <2>3. /\ Remaining = << 5, Len(names) - inserts, 0, 0, 0, 0 >>
        /\ Remaining' = << 4, (Len(slaves) - Len(slaveParams))', 2, 0, 0, 0 >>
    BY <2>1, RemainingNow, RemainingNext DEF RemainingAt
  <2>. QED
    BY <1>1, <2>2, <2>3 DEF LessThan
<1>. QED
  BY <1>2, <1>3, <1>4

(* A pass of the search begins with a match only, as no id is too high.    *)
LEMMA SearchAdvances ==
  ASSUME IdInv, Sound, Parse
  PROVE  LessThan(Remaining', Remaining)
<1>. DEFINE toRead == Len(slaves) - Len(slaveParams)
            m == IF match THEN 1 ELSE 0
<1>1. slaves' = slaves /\ Len(slaves) \in Nat /\ Len(slaveParams) \in Nat /\ commId \in Int
      /\ match \in BOOLEAN /\ j \in Int /\ IdLimit \in Nat
  BY IdLimitAssumption DEF Parse, IdInv, ParserType, IsFile
<1>2. Searching => commId <= IdLimit
  BY SearchStaysLow DEF Searching
<1>3. CASE TakeSlave
  <2>1. /\ at = "slave" /\ at' \in {"checks", "while"} /\ slaveParams' = slaveParams
        /\ commId' = FirstId(Asked(Current)) /\ match' = TRUE /\ j' = 0
        /\ Len(slaveParams) < Len(slaves)
    BY <1>3 DEF TakeSlave
  <2>2. commId' \in Int
    BY <2>1, CurrentFacts DEF IdInv
  <2>3. Remaining = << 4, toRead, 2, 0, 0, 0 >>
    BY <2>1, RemainingNow DEF RemainingAt
  <2>4. \/ Remaining' = << 4, toRead, 0, 0, 0, 0 >>
        \/ Remaining' = << 4, toRead, 1, IdLimit - commId', 1, 0 >>
    BY <1>1, <2>1, RemainingNext DEF RemainingAt, Searching
  <2>. QED
    BY <1>1, <2>2, <2>3, <2>4 DEF LessThan
<1>4. CASE NextPass
  <2>1. /\ at = "while" /\ at' = "compare" /\ slaveParams' = slaveParams
        /\ commId' = commId /\ match' = FALSE /\ j' = Len(slaveParams) /\ GoesOn
    BY <1>4 DEF NextPass
  <2>2. match
    BY <1>1, <1>2, <2>1 DEF GoesOn, Searching
  <2>3. /\ Remaining = << 4, toRead, 1, IdLimit - commId, 1, j >>
        /\ Remaining' = << 4, toRead, 1, IdLimit - commId, 0, Len(slaveParams) >>
    BY <1>1, <2>1, <2>2, RemainingNow, RemainingNext DEF RemainingAt, Searching
  <2>. QED
    BY <1>1, <2>3 DEF LessThan
<1>5. CASE Compare
  <2>1. /\ at = "compare" /\ at' \in {"while", "compare"} /\ slaveParams' = slaveParams
        /\ j' = j - 1
        /\ \/ commId' = commId + 1
           \/ commId' = commId /\ match' = match
    BY <1>1, <1>5 DEF Compare, Matches
  <2>2. Remaining = << 4, toRead, 1, IdLimit - commId, m, j >>
    BY <2>1, RemainingNow DEF RemainingAt, Searching
  <2>3. Remaining' = << 4, toRead, 1, IdLimit - commId', m', j - 1 >>
    BY <1>1, <2>1, RemainingNext DEF RemainingAt, Searching
  <2>4. m \in Int /\ m' \in Int /\ (match' = match => m' = m)
    OBVIOUS
  <2>. HIDE DEF m
  <2>5. CASE commId' = commId + 1
    <3>1. IdLimit - commId' < IdLimit - commId
      BY <1>1, <2>5
    <3>. QED
      BY <2>2, <2>3, <3>1 DEF LessThan
  <2>6. CASE commId' = commId /\ match' = match
    <3>1. IdLimit - commId' = IdLimit - commId /\ m' = m /\ j - 1 < j
      BY <1>1, <2>4, <2>6
    <3>. QED
      BY <2>2, <2>3, <3>1 DEF LessThan
  <2>. QED
    BY <2>1, <2>5, <2>6
<1>6. CASE IdFound
  <2>1. /\ at = "while" /\ at' = "checks" /\ slaveParams' = slaveParams
    BY <1>6 DEF IdFound
  <2>2. /\ Remaining = << 4, toRead, 1, IdLimit - commId, m, j >>
        /\ Remaining' = << 4, toRead, 0, 0, 0, 0 >>
    BY <1>1, <2>1, RemainingNow, RemainingNext DEF RemainingAt, Searching
  <2>. QED
    BY <1>1, <2>2 DEF LessThan
<1>7. CASE SlaveDone
  <2>1. at = "checks" /\ at' = "slave"
    BY <1>7 DEF SlaveDone
  <2>2. Len(slaveParams') = Len(slaveParams) + 1
    BY <1>7 DEF SlaveDone, IdInv, ParserType
  <2>3. /\ Remaining = << 4, toRead, 0, 0, 0, 0 >>
        /\ Remaining' = << 4, Len(slaves) - (Len(slaveParams) + 1), 2, 0, 0, 0 >>
    BY <1>1, <2>1, <2>2, RemainingNow, RemainingNext DEF RemainingAt
  <2>. QED
    BY <1>1, <2>3 DEF LessThan
<1>. QED
  BY <1>3, <1>4, <1>5, <1>6, <1>7 DEF Parse, RetrieveCommParams

LEMMA IniAdvances ==
  ASSUME IdInv, IniInv, IniMBTCPCreate
  PROVE  LessThan(Remaining', Remaining)
<1>. DEFINE toCut == Len(slaveParams) + 1 - param
<1>1. /\ at = "ini" /\ slaveParams' = slaveParams /\ Len(slaveParams) \in Nat
      /\ param \in 1 .. Len(slaveParams) + 1 /\ tags \in Nat
      /\ DOMAIN slaveParams = 1 .. Len(slaveParams)
  BY DEF IniMBTCPCreate, IniNotOpened, NextTag, NextParam, IniWritten, parser, IniInv, CycleInv,
         ParserType
<1>2. \A p \in 1 .. Len(slaveParams) : Len(Regs(p)) \in Nat /\ Regs(p)' = Regs(p)
  BY <1>1, RegsType DEF IniInv, Regs
<1>3. CASE NextTag
  <2>1. /\ param <= Len(slaveParams) /\ tags' = tags + 1 /\ param' = param /\ at' = "ini"
    BY <1>1, <1>3 DEF NextTag
  <2>2. /\ Remaining = << 3, toCut, Len(Regs(param)) - tags, 0, 0, 0 >>
        /\ Remaining' = << 3, toCut, Len(Regs(param)) - (tags + 1), 0, 0, 0 >>
    BY <1>1, <1>2, <2>1, RemainingNow, RemainingNext DEF RemainingAt
  <2>. QED
    BY <1>1, <1>2, <2>1, <2>2 DEF LessThan
<1>4. CASE NextParam
  <2>1. /\ param <= Len(slaveParams) /\ tags' = 0 /\ param' = param + 1 /\ at' = "ini"
    BY <1>1, <1>4 DEF NextParam
  <2>2. Remaining = << 3, toCut, Len(Regs(param)) - tags, 0, 0, 0 >>
    BY <1>1, <2>1, RemainingNow DEF RemainingAt
  <2>3. PICK n \in Nat : Remaining' = << 3, Len(slaveParams) + 1 - (param + 1), n, 0, 0, 0 >>
    <3>1. CASE param + 1 <= Len(slaveParams)
      <4>1. param + 1 \in 1 .. Len(slaveParams)
        BY <1>1, <3>1
      <4>2. Remaining' = << 3, Len(slaveParams) + 1 - (param + 1), Len(Regs(param + 1)) - 0,
                            0, 0, 0 >>
        BY <1>1, <1>2, <2>1, <4>1, RemainingNext DEF RemainingAt, Regs
      <4>. QED
        BY <1>2, <4>1, <4>2
    <3>2. CASE ~(param + 1 <= Len(slaveParams))
      BY <1>1, <2>1, <3>2, RemainingNext DEF RemainingAt
    <3>. QED
      BY <3>1, <3>2
  <2>. QED
    BY <1>1, <1>2, <2>1, <2>2, <2>3 DEF LessThan
<1>5. CASE IniWritten
  <2>1. at' \in {"aborted", "launch"}
    BY <1>5 DEF IniWritten
  <2>2. Remaining' = << 2, 0, 0, 0, 0, 0 >> \/ Remaining' = << 0, 0, 0, 0, 0, 0 >>
    BY <2>1, RemainingNext DEF RemainingAt, Stage
  <2>3. PICK n \in Int : Remaining = << 3, toCut, n, 0, 0, 0 >>
    <3>1. param > Len(slaveParams)
      BY <1>5 DEF IniWritten
    <3>. QED
      BY <1>1, <3>1, RemainingNow DEF RemainingAt
  <2>. QED
    BY <1>1, <2>2, <2>3 DEF LessThan
<1>6. CASE IniNotOpened
  <2>1. at' = "launch"
    BY <1>6 DEF IniNotOpened
  <2>2. Remaining' = << 2, 0, 0, 0, 0, 0 >>
    BY <2>1, RemainingNext DEF RemainingAt, Stage
  <2>3. PICK n \in Int : Remaining = << 3, toCut, n, 0, 0, 0 >>
    <3>1. CASE param <= Len(slaveParams)
      BY <1>1, <1>2, <3>1, RemainingNow DEF RemainingAt
    <3>2. CASE ~(param <= Len(slaveParams))
      BY <1>1, <3>2, RemainingNow DEF RemainingAt
    <3>. QED
      BY <3>1, <3>2
  <2>. QED
    BY <1>1, <2>2, <2>3 DEF LessThan
<1>. QED
  BY <1>3, <1>4, <1>5, <1>6 DEF IniMBTCPCreate

LEMMA LastStepsAdvance ==
  ASSUME IdInv, IniInv', CommDaemon \/ LaunchDaemons \/ FirstScan
  PROVE  LessThan(Remaining', Remaining)
<1>1. CASE CommDaemon
  <2>1. at = "slave" /\ at' \in {"ini", "launch"}
    BY <1>1 DEF CommDaemon
  <2>2. Len(slaves) - Len(slaveParams) \in Int
    BY DEF IdInv, ParserType, IsFile
  <2>3. Remaining = << 4, Len(slaves) - Len(slaveParams), 2, 0, 0, 0 >>
    BY <2>1, RemainingNow DEF RemainingAt
  <2>4. CASE at' = "launch"
    <3>1. Remaining' = << 2, 0, 0, 0, 0, 0 >>
      BY <2>4, RemainingNext DEF RemainingAt
    <3>. QED
      BY <2>2, <2>3, <3>1 DEF LessThan
  <2>5. CASE at' = "ini"
    <3>1. /\ Len(slaveParams') \in Nat /\ param' \in 1 .. Len(slaveParams') + 1 /\ tags' \in Nat
          /\ DOMAIN slaveParams' = 1 .. Len(slaveParams')
      BY DEF IniInv, CycleInv, ParserType
    <3>2. PICK n \in Int : Remaining' = << 3, Len(slaveParams') + 1 - param', n, 0, 0, 0 >>
      <4>1. CASE param' <= Len(slaveParams')
        <5>1. param' \in DOMAIN slaveParams'
          BY <3>1, <4>1
        <5>2. slaveParams'[param'] \in ParamSet'
          BY <5>1 DEF IniInv, ParserType
        <5>3. Len(Regs(param))' \in Nat
          BY <5>2 DEF ParamSet, Regs
        <5>. QED
          BY <2>5, <3>1, <4>1, <5>3, RemainingNext DEF RemainingAt
      <4>2. CASE ~(param' <= Len(slaveParams'))
        BY <2>5, <4>2, RemainingNext DEF RemainingAt
      <4>. QED
        BY <4>1, <4>2
    <3>. QED
      BY <2>2, <2>3, <3>1, <3>2 DEF LessThan
  <2>. QED
    BY <2>1, <2>4, <2>5
<1>2. CASE LaunchDaemons
  <2>1. at = "launch" /\ at' = "scan"
    BY <1>2 DEF LaunchDaemons
  <2>. QED
    BY <2>1, RemainingNow, RemainingNext DEF RemainingAt, LessThan
<1>3. CASE FirstScan
  <2>1. at = "scan" /\ at' \in {"segv", "running"}
    BY <1>3 DEF FirstScan
  <2>2. Remaining = << 1, 0, 0, 0, 0, 0 >> /\ Remaining' = << 0, 0, 0, 0, 0, 0 >>
    BY <2>1, RemainingNow, RemainingNext DEF RemainingAt, Stage
  <2>. QED
    BY <2>2 DEF LessThan
<1>. QED
  BY <1>1, <1>2, <1>3

(* Whatever the sound file: each step of the process lowers what remains   *)
(* of its start (config.cpp:359, iniConfigurator.cpp:140).                 *)
THEOREM EachStepAdvances == Spec => StartAdvances
<1>1. RowsInv /\ IdInv /\ IniInv /\ IniInv' /\ [Next]_vars
        => [Constructor /\ Sound => LessThan(Remaining', Remaining)]_vars
  BY SetupAdvances, SearchAdvances, IniAdvances, LastStepsAdvance DEF Constructor, IniDaemons
<1>. QED
  BY <1>1, RowsInit, RowsStep, IdInit, IdStep, IniFirst, IniStep, PTL DEF Spec, StartAdvances

(* So a process that is not killed takes finitely many steps to its first  *)
(* scan: those of a sound file descend in an order without endless         *)
(* descent.                                                                *)
THEOREM SoundStartsEnd ==
  /\ IsWellFoundedOn(LowerMeasure, Measures)
  /\ Spec => [][Constructor /\ Sound => << Remaining', Remaining >> \in LowerMeasure]_vars
<1>1. Spec => [](RowsInv /\ IdInv /\ IniInv)
  BY RowsInit, RowsStep, IdInit, IdStep, IniFirst, IniStep, PTL DEF Spec
<1>2. /\ MeasureInv /\ MeasureInv' /\ [Next]_vars
      /\ [Constructor /\ Sound => LessThan(Remaining', Remaining)]_vars
    => [Constructor /\ Sound => << Remaining', Remaining >> \in LowerMeasure]_vars
  <2>. SUFFICES ASSUME MeasureInv, MeasureInv', LessThan(Remaining', Remaining), Constructor, Sound
                PROVE  << Remaining', Remaining >> \in LowerMeasure
    OBVIOUS
  <2>1. slaves' = slaves
    BY DEF Constructor, CreateTable, InitValues, SetupDone, Parse, CommDaemon, IniDaemons,
           IniMBTCPCreate, IniNotOpened, NextTag, NextParam, IniWritten, LaunchDaemons, FirstScan
  <2>2. Sound'
    BY <2>1 DEF Sound, Asked, FirstId
  <2>3. Remaining \in Measures /\ Remaining' \in Measures
    BY <2>2 DEF MeasureInv
  <2>. QED
    BY <2>3 DEF LowerMeasure
<1>3. Spec => [][Constructor /\ Sound => << Remaining', Remaining >> \in LowerMeasure]_vars
  BY <1>1, <1>2, RemainingType, EachStepAdvances, PTL DEF Spec, StartAdvances
<1>. QED
  BY <1>3, NoEndlessDescent

=============================================================================
