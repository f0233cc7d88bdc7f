------------------------------ MODULE Delivery ------------------------------
(***************************************************************************)
(* What the modbus daemon promises for the writes posted to it, without    *)
(* threads, sockets or slaves: each is executed once at most, none before  *)
(* an older one, and those not executed yet are under way, or were posted  *)
(* before the daemon served, or fell to a fault.                           *)
(***************************************************************************)
EXTENDS Naturals, Sequences

VARIABLES
  newest,     \* the number of the last write posted
  underway,   \* the numbers of those under way
  executed,   \* those executed, in their order
  serving,    \* whether the daemon has begun to serve
  faulty      \* whether a fault has happened

vars == << newest, underway, executed, serving, faulty >>

(* A fault may come before the first write.                                *)
Init ==
  newest = 0 /\ underway = {} /\ executed = << >> /\ serving = FALSE /\ faulty \in BOOLEAN

(* A write that is refused is none under way, and a fault.                 *)
Post ==
  /\ newest' = newest + 1
  /\ \/ underway' = underway \union {newest'} /\ UNCHANGED faulty
     \/ UNCHANGED underway /\ faulty' = TRUE
  /\ UNCHANGED << executed, serving >>

Serve ==
  /\ ~serving /\ serving' = TRUE
  /\ underway' = {}
  /\ UNCHANGED << newest, executed, faulty >>

Execute(n) ==
  /\ serving /\ \A m \in underway : n <= m
  /\ executed' = Append(executed, n)
  /\ underway' = underway \ {n}
  /\ UNCHANGED << newest, serving, faulty >>

Fault(survivors) ==
  /\ faulty' = TRUE
  /\ underway' = survivors
  /\ UNCHANGED << newest, executed, serving >>

Next ==
  \/ Post \/ Serve
  \/ \E n \in underway : Execute(n)
  \/ \E survivors \in SUBSET underway : Fault(survivors)

Spec == Init /\ [][Next]_vars
=============================================================================
