------------------------------ MODULE Startup ------------------------------
(***************************************************************************)
(* The start of the OPC up to its first scan: the constructor of           *)
(* ProintegraOPC sets up the triggers table, reads the slaves, makes the   *)
(* interfaces and the ini file of the modbus daemon, main launches the     *)
(* daemon and enters the loop.  One thread does it all; around it, queries *)
(* fail, operators raise triggers, and the process is killed at any point  *)
(* and started again, maybe with other files.                              *)
(***************************************************************************)
EXTENDS IniConfigurator, TriggerRows

CONSTANTS
  Configs,     \* what database.xml and slaves.xml may say:
               \* [dbType, triggers, slaves]
  RestartConfigs,   \* and what they may say at the next start
  Budget       \* bounds: [restart, fail |-> Nat]

(* The slaves of a file are a list, ids and addresses of tags are ints.    *)
IsFile(file) ==
  /\ file \in Seq({file[k] : k \in DOMAIN file})
  /\ \A k \in DOMAIN file :
       file[k].child \in BOOLEAN /\ file[k].id \in Int /\ file[k].regs \in Seq(Int)

ASSUME ConfigsAssumption ==
  \A c \in Configs \union RestartConfigs :
    /\ IsFile(c.slaves)
    /\ c.triggers \in Seq({c.triggers[k] : k \in DOMAIN c.triggers})

VARIABLES
  config,      \* the two files, slaves apart
  rows,        \* the triggers table in the database
  names,       \* the triggers this setup has statements for
  inserts,     \* those executed
  daemons,     \* of CommDaemon
  left,        \* what is left of Budget
  before,      \* history: the rows when the process started
  failed,      \* history: whether a query of this setup failed
  fresh        \* history: the names raised since their statement was executed

database == << config, rows, names, inserts, before, failed, fresh >>
comm     == << daemons, configurator >>
vars     == << slaves, at, parser, database, comm, left >>

Init ==
  /\ \E c \in Configs :
       config = [dbType |-> c.dbType, triggers |-> c.triggers] /\ slaves = c.slaves
  /\ rows = << >> /\ names = << >> /\ inserts = 0
  /\ at = "create" /\ ParserInit /\ IniInit /\ daemons = << >>
  /\ before = rows /\ failed = FALSE /\ fresh = {}
  /\ left = Budget

QueryFails == left["fail"] > 0 /\ left' = [left EXCEPT !["fail"] = @ - 1]

(* CREATE TABLE IF NOT EXISTS; when it fails no row is initialised.        *)
CreateTable ==
  /\ at = "create" /\ names' = RetNoRepeatedFields(config.triggers)
  /\ \/ at' = "rows" /\ UNCHANGED << left, failed >>
     \/ at' = "slave" /\ QueryFails /\ failed' = TRUE
  /\ UNCHANGED << slaves, parser, config, rows, inserts, before, fresh, comm >>

(* One statement; its result is not looked at (piDatabase.cpp:86-90).      *)
InitValues ==
  LET name == names[inserts + 1]
  IN  /\ at = "rows" /\ inserts < Len(names)
      /\ \/ /\ rows' = InitRow(config.dbType, rows, inserts + 1, name)
            /\ fresh' = fresh \ {name}
            /\ UNCHANGED << left, failed >>
         \/ QueryFails /\ failed' = TRUE /\ UNCHANGED << rows, fresh >>
      /\ inserts' = inserts + 1
      /\ UNCHANGED << slaves, at, parser, config, names, before, comm >>

SetupDone ==
  /\ at = "rows" /\ inserts = Len(names) /\ at' = "slave"
  /\ UNCHANGED << slaves, parser, database, comm, left >>

Parse == RetrieveCommParams /\ UNCHANGED << slaves, database, comm, left >>

(* CommDaemon's constructor, one daemon for all slaves of its protocol.    *)
CommDaemon ==
  /\ at = "slave" /\ Len(slaveParams) = Len(slaves)
  /\ IF \E p \in DOMAIN slaveParams : IsMODBUSTCP(p)
     THEN daemons' = << "PROT_MODBUS_TCP" >> /\ at' = "ini"
     ELSE daemons' = << >> /\ at' = "launch"
  /\ UNCHANGED << slaves, parser, database, configurator, left >>

IniDaemons == IniMBTCPCreate /\ UNCHANGED << database, daemons, left >>

LaunchDaemons ==
  /\ at = "launch" /\ at' = "scan"
  /\ UNCHANGED << slaves, parser, database, comm, left >>

(* dataCapture reads the tags of every slave; setup gave rlMODBUS to the   *)
(* valid ones only (piComm.cpp:30, 119).                                   *)
FirstScan ==
  /\ at = "scan"
  /\ at' = IF \E p \in DOMAIN slaveParams : Regs(p) # << >> /\ ~slaveParams[p].isValid
           THEN "segv" ELSE "running"
  /\ UNCHANGED << slaves, parser, database, comm, left >>

Constructor ==
  \/ CreateTable \/ InitValues \/ SetupDone
  \/ Parse \/ CommDaemon \/ IniDaemons \/ LaunchDaemons \/ FirstScan

(* Raised by an operator, row or no row.                                   *)
Raise(name) ==
  /\ RowsOf(rows, name) # {}
  /\ rows' = Raised(rows, name)
  /\ fresh' = fresh \union {name}
  /\ UNCHANGED << slaves, at, parser, config, names, inserts, before, failed, comm, left >>

Restart ==
  /\ left["restart"] > 0 /\ left' = [left EXCEPT !["restart"] = @ - 1]
  /\ \E c \in RestartConfigs :
       /\ c.dbType = config.dbType
       /\ config' = [config EXCEPT !.triggers = c.triggers]
       /\ slaves' = c.slaves
  /\ at' = "create"
  /\ slaveParams' = << >> /\ commId' = 0 /\ match' = TRUE /\ j' = 0
  /\ param' = 1 /\ mb' = << >> /\ tags' = 0
  /\ definedCycle' = NoCycle /\ cycles' = << >> /\ ini' = NoIni
  /\ names' = << >> /\ inserts' = 0 /\ daemons' = << >>
  /\ before' = rows /\ failed' = FALSE /\ fresh' = {}
  /\ UNCHANGED rows

Next ==
  \/ Constructor
  \/ \E id \in DOMAIN rows : Raise(rows[id].name)
  \/ Restart

Spec == Init /\ [][Next]_vars
FairSpec == Spec /\ WF_vars(Constructor)

----------------------------------------------------------------------------
(* A slave has three numbers: its commId, by which tags are read           *)
(* (piComm.cpp:117), its place in the file, by which they are written      *)
(* (prointegraOPC.cpp:169), and its place among the MODBUSTCP slaves in    *)
(* the ini file, by which the daemon knows it.  They are one when no slave *)
(* asks for an id but its place, and slaves of other protocols come last:  *)
(* then each tag that is read is polled, at its own PLC.                   *)
PlainNumbers ==
  /\ Len(slaves) < IdLimit
  /\ \A l \in DOMAIN slaves :
       /\ Asked(slaves[l]) \in {-1, 0, l}
       /\ slaves[l].protocol = "MODBUSTCP" =>
            \A k \in 1 .. l : slaves[k].protocol = "MODBUSTCP"

OneNumbering ==
  at = "launch" /\ ini # NoIni /\ PlainNumbers =>
    \A p \in DOMAIN slaves : IsMODBUSTCP(p) =>
      /\ slaveParams[p].commId = p
      /\ p \in DOMAIN ini.ips /\ ini.ips[p] = slaveParams[p].commAddr
      /\ \A t \in DOMAIN Regs(p) : PolledBy(ini.cycles, p, Regs(p)[t])

(* After setup each trigger has one row, and a row that says 1 was raised  *)
(* since: no request from before the start is served, none is deaf.  So it *)
(* is when no statement failed and the rows left by the run before leave   *)
(* room: in MySQL, none has an ID above the number of triggers (it would   *)
(* keep its name and VALUE); in SQLite, no new name finds its ID in use    *)
(* (it would take the row of another trigger).                             *)
RowsFit ==
  IF config.dbType = "QSQLITE"
  THEN \A i \in DOMAIN names : RowsOf(before, names[i]) = {} => i \notin DOMAIN before
  ELSE \A id \in DOMAIN before : id <= Len(names)

TriggersReady ==
  at \notin {"create", "rows"} /\ ~failed /\ RowsFit =>
    \A name \in ToSet(config.triggers) :
      \E id \in DOMAIN rows :
        /\ RowsOf(rows, name) = {id}
        /\ rows[id].value = 1 => name \in fresh

(* A sound file starts: the search for ids ends and nothing else stops the *)
(* process before its first scan is over.  Slaves have names of their own, *)
(* a protocol the OPC knows and tags, and the ids asked for leave room     *)
(* below IdLimit for those that are taken (config.cpp:359).                *)
Sound ==
  \A k \in DOMAIN slaves :
    /\ slaves[k].protocol = "MODBUSTCP" /\ slaves[k].child /\ slaves[k].regs # << >>
    /\ \A l \in 1 .. k - 1 : slaves[l].name # slaves[k].name
    /\ k > 1 => FirstId(Asked(slaves[k])) + k - 1 <= IdLimit

SoundFileStarts ==
  \A n \in 0 .. Budget["restart"] :
    Sound /\ left["restart"] = n ~> at = "running" \/ left["restart"] # n

(* On the way nothing goes wrong: the search stays in the ids there are,   *)
(* where a match is all that keeps it going (config.cpp:359); no cycle is  *)
(* empty (iniConfigurator.cpp:119), no slave is read that setup gave no    *)
(* rlMODBUS (piComm.cpp:30).                                               *)
SoundStaysSafe ==
  Sound => /\ at \notin {"aborted", "segv"}
           /\ at \in {"while", "compare"} => commId <= IdLimit

(* And each step of the process brings the start nearer to its end: it     *)
(* goes on to a later stage, or does one more of what is left of this one. *)
(* A pass of the search with a match raises the id, one without it is the  *)
(* last.                                                                   *)
Stage ==
  CASE at = "create" -> 6 [] at = "rows" -> 5
    [] at \in {"slave", "while", "compare", "checks"} -> 4
    [] at = "ini" -> 3 [] at = "launch" -> 2 [] at = "scan" -> 1 [] OTHER -> 0

Searching == at \in {"while", "compare"}

Remaining ==
  << Stage,
     CASE Stage = 5 -> Len(names) - inserts
       [] Stage = 4 -> Len(slaves) - Len(slaveParams)
       [] Stage = 3 -> Len(slaveParams) + 1 - param [] OTHER -> 0,
     CASE at = "slave" -> 2 [] Searching -> 1
       [] Stage = 3 /\ param <= Len(slaveParams) -> Len(Regs(param)) - tags [] OTHER -> 0,
     IF Searching THEN IdLimit - commId ELSE 0,
     IF Searching /\ match THEN 1 ELSE 0,
     IF Searching THEN j ELSE 0 >>

LessThan(m, n) ==
  \E i \in DOMAIN n : m[i] < n[i] /\ \A k \in 1 .. i - 1 : m[k] = n[k]

StartAdvances == [][Constructor /\ Sound => LessThan(Remaining', Remaining)]_vars
=============================================================================
