----------------------------- MODULE MCStartup -----------------------------
(***************************************************************************)
(* Files of three kinds, as their combination would be too large: four     *)
(* slaves that ask for any id; two slaves with any name, protocol and      *)
(* tags; lists of triggers with one plain slave, the only ones that are    *)
(* met again after a restart.                                              *)
(***************************************************************************)
EXTENDS Startup

CONSTANTS trg1, trg2, trg3, plc1, plc2

Slave(name, protocol, child, id, addr, regs) ==
  [name |-> name, protocol |-> protocol, child |-> child, id |-> id, addr |-> addr,
   regs |-> regs]

(* Four slaves, so that a search can pass over three taken ids.            *)
IdFiles ==
  {[k \in 1 .. 4 |-> Slave(k, "MODBUSTCP", TRUE, ids[k], k, << 7 >>)] :
     ids \in [1 .. 4 -> 0 .. IdLimit + 1]}

TagLists ==
  {<< >>, << 1, 2, 3 >>, << 1, 3 >>, << 1, 2, 4, 5 >>, << 2, 1 >>, << 3, 3 >>, << 0, 1, 5, 3, 4 >>}

TagSlaves ==
  {Slave(n, p, TRUE, i, plc1, regs) :
     n \in {"s1", "s2"}, p \in {"MODBUSTCP", "OTHER"}, i \in {0, 2}, regs \in TagLists}
  \union {Slave(n, p, FALSE, 0, plc1, << >>) :
             n \in {"s1", "s2"}, p \in {"MODBUSTCP", "OTHER"}}

TagFiles == {<< s, [t EXCEPT !.addr = plc2] >> : s \in TagSlaves, t \in TagSlaves}

PlainSlaves == << Slave("s1", "MODBUSTCP", TRUE, 0, plc1, << 1, 2 >>) >>

TriggerLists ==
  {<< >>, << trg1 >>, << trg2 >>, << trg1, trg2 >>, << trg2, trg1 >>, << trg2, trg3 >>,
   << trg1, trg2, trg1, trg3 >>}

File(t, d, s) == [dbType |-> d, triggers |-> t, slaves |-> s]

MCRestartConfigs ==
  {File(t, d, PlainSlaves) : t \in TriggerLists, d \in {"QMYSQL", "QSQLITE"}}

MCConfigs ==
  {File(<< >>, "QMYSQL", s) : s \in IdFiles \union TagFiles} \union MCRestartConfigs

MCBudget == [restart |-> 2, fail |-> 1]
=============================================================================
