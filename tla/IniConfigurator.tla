-------------------------- MODULE IniConfigurator --------------------------
(***************************************************************************)
(* iniMBTCPCreate of iniConfigurator.cpp: the ini file of the modbus       *)
(* daemon, with the addresses of the slaves and the cycles to poll.  Both  *)
(* number the MODBUSTCP slaves by their place among them.  The loop over   *)
(* the tags is kept step by step: a cycle is a run of consecutive          *)
(* addresses, in the order of the tags in slaves.xml.                      *)
(***************************************************************************)
EXTENDS ConfigParser

CONSTANT NoIni   \* no ini file of this process, or not a whole one

VARIABLES
  param,         \* the slave at hand
  mb,            \* the MODBUSTCP slaves before it: the n-th is the slave n
                 \* of the ini file
  tags,          \* how many of its tags are in cycles
  definedCycle,  \* the cycle that grows: [slave, first, size]
  cycles,        \* those saved
  ini            \* MBTCP.ini as this process wrote it: [ips, cycles]

configurator == << param, mb, tags, definedCycle, cycles, ini >>

IsMODBUSTCP(p) == slaveParams[p].commType = "MODBUSTCP"
Regs(p) == slaveParams[p].regs

(* CYCLEn=size,holdingRegisters(slave,first)                               *)
Cycle(n, first, size) == [slave |-> n, first |-> first, size |-> size]
NoCycle == Cycle(0, 0, 0)
CycleSet == [slave : Nat, first : Int, size : Nat]

IniInit ==
  /\ param = 1 /\ mb = << >> /\ tags = 0
  /\ definedCycle = NoCycle /\ cycles = << >>
  /\ ini = NoIni

(* writCycles numbers the slaves by place, not by commId.                  *)
\* mutant: by commId
MutNumber == slaveParams[param].commId

Number == Len(mb) + 1

\* mutant: a gap of one register does not end a cycle
MutGoesOnWith(c, addr) == c.size > 0 /\ c.first + c.size \in {addr - 1, addr}

GoesOnWith(c, addr) == c.size > 0 /\ c.first + c.size = addr

Saved == IF definedCycle.size > 0 THEN Append(cycles, definedCycle) ELSE cycles

(* fopen fails: nothing is written and the result is not looked at, so the *)
(* daemon is launched all the same, with an old ini file or none.          *)
IniNotOpened ==
  /\ at = "ini" /\ param = 1 /\ tags = 0 /\ at' = "launch"
  /\ UNCHANGED << slaves, parser, configurator >>

NextTag ==
  /\ at = "ini" /\ param <= Len(slaveParams) /\ IsMODBUSTCP(param)
  /\ tags < Len(Regs(param)) /\ tags' = tags + 1
  /\ LET addr == Regs(param)[tags + 1]
     IN  IF GoesOnWith(definedCycle, addr)
         THEN definedCycle' = [definedCycle EXCEPT !.size = @ + 1] /\ UNCHANGED cycles
         ELSE definedCycle' = Cycle(Number, addr, 1) /\ cycles' = Saved
  /\ UNCHANGED << slaves, at, parser, param, mb, ini >>

(* The cycle that grows is saved, empty when the slave has no tags.        *)
NextParam ==
  /\ at = "ini" /\ param <= Len(slaveParams)
  /\ IF IsMODBUSTCP(param)
     THEN /\ tags = Len(Regs(param))
          /\ cycles' = Append(cycles, definedCycle) /\ mb' = Append(mb, param)
     ELSE UNCHANGED << cycles, mb >>
  /\ param' = param + 1 /\ tags' = 0 /\ definedCycle' = NoCycle
  /\ UNCHANGED << slaves, at, parser, ini >>

(* The file is written, unless at(0) of an empty cycle throws, which       *)
(* nobody catches.  IPn is the address of the n-th.                        *)
IniWritten ==
  /\ at = "ini" /\ param > Len(slaveParams)
  /\ IF \E n \in DOMAIN cycles : cycles[n].size = 0
     THEN at' = "aborted" /\ UNCHANGED ini
     ELSE /\ at' = "launch"
          /\ ini' = [ips |-> [n \in DOMAIN mb |-> slaveParams[mb[n]].commAddr],
                     cycles |-> cycles]
  /\ UNCHANGED << slaves, parser, param, mb, tags, definedCycle, cycles >>

IniMBTCPCreate == IniNotOpened \/ NextTag \/ NextParam \/ IniWritten

----------------------------------------------------------------------------
(* Each MODBUSTCP slave has a number in the ini file, under which stand    *)
(* its address and the registers of its tags, all and no others            *)
(* (iniConfigurator.cpp:140, 159).                                         *)
Polls(c, n, r) == c.slave = n /\ r \in c.first .. c.first + c.size - 1

PolledBy(cs, n, r) == \E k \in DOMAIN cs : Polls(cs[k], n, r)

IsTag(p, r) == \E t \in DOMAIN Regs(p) : Regs(p)[t] = r

CyclesCoverTags ==
  at = "launch" /\ ini # NoIni =>
    \A p \in DOMAIN slaveParams : IsMODBUSTCP(p) =>
      \E n \in DOMAIN ini.ips :
        /\ ini.ips[n] = slaveParams[p].commAddr
        /\ \A t \in DOMAIN Regs(p) : PolledBy(ini.cycles, n, Regs(p)[t])
        /\ \A k \in DOMAIN ini.cycles : ini.cycles[k].slave = n =>
             \A r \in ini.cycles[k].first .. ini.cycles[k].first + ini.cycles[k].size - 1 :
               IsTag(p, r)

(* The inductive invariant: the cycles saved and the one that grows are    *)
(* the tags passed by so far.                                              *)
SlaveAt(n) == IF n <= Len(mb) THEN mb[n] ELSE param

OfTags(c) ==
  c.size > 0 =>
    /\ c.slave \in 1 .. Len(mb) + 1 /\ (c.slave > Len(mb) => IsMODBUSTCP(param))
    /\ SlaveAt(c.slave) \in DOMAIN slaveParams
    /\ \A r \in c.first .. c.first + c.size - 1 : IsTag(SlaveAt(c.slave), r)

CycleInv ==
  /\ param \in 1 .. Len(slaveParams) + 1 /\ tags \in Nat
  /\ mb \in Seq(1 .. param - 1)
  /\ \A p \in 1 .. param - 1 : IsMODBUSTCP(p) => \E n \in DOMAIN mb : mb[n] = p
  /\ cycles \in Seq(CycleSet) /\ \A k \in DOMAIN cycles : OfTags(cycles[k])
  /\ definedCycle \in CycleSet /\ OfTags(definedCycle)
  /\ definedCycle.size > 0 => definedCycle.slave = Len(mb) + 1
  /\ \A n \in DOMAIN mb : \A t \in DOMAIN Regs(mb[n]) : PolledBy(cycles, n, Regs(mb[n])[t])
  /\ tags > 0 =>
       /\ param \in DOMAIN slaveParams /\ tags <= Len(Regs(param))
       /\ \A t \in 1 .. tags :
            \/ PolledBy(cycles, Len(mb) + 1, Regs(param)[t])
            \/ Polls(definedCycle, Len(mb) + 1, Regs(param)[t])
  /\ ini # NoIni => /\ param = Len(slaveParams) + 1 /\ ini.cycles = cycles
                    /\ DOMAIN ini.ips = DOMAIN mb
                    /\ \A n \in DOMAIN mb : ini.ips[n] = slaveParams[mb[n]].commAddr
=============================================================================
