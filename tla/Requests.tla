------------------------------ MODULE Requests ------------------------------
(***************************************************************************)
(* What the OPC promises an operator who raises triggers, without scans,   *)
(* fields or queries: a request is taken up, every table written on its    *)
(* trigger is sent once, and only then is the trigger down again.  A raise *)
(* that was not taken up stays.  A crash forgets what was taken up and may *)
(* drop requests.                                                          *)
(***************************************************************************)
EXTENDS Naturals

CONSTANTS
  Names,      \* the triggers
  Tables,     \* the tables
  TriggerOf   \* the trigger a table is written on, or none of Names

VARIABLES
  raised,     \* the triggers that are up
  taken,      \* those taken up
  served,     \* the tables sent since
  crashes     \* how often the process died

vars == << raised, taken, served, crashes >>

WrittenOn(n) == {t \in Tables : TriggerOf[t] = n}

Init == raised = {} /\ taken = {} /\ served = {} /\ crashes = 0

Raise(n) ==
  /\ raised' = raised \union {n}
  /\ UNCHANGED << taken, served, crashes >>

Take(N) ==
  /\ taken = {}
  /\ taken' = N /\ served' = {}
  /\ UNCHANGED << raised, crashes >>

Send(t) ==
  /\ TriggerOf[t] \in taken /\ t \notin served
  /\ served' = served \union {t}
  /\ UNCHANGED << raised, taken, crashes >>

Finish(N) ==
  /\ \A n \in N : WrittenOn(n) \subseteq served
  /\ raised' = raised \ N
  /\ taken' = {} /\ served' = {}
  /\ UNCHANGED crashes

Crash(N) ==
  /\ crashes' = crashes + 1
  /\ raised' = N /\ taken' = {} /\ served' = {}

Next ==
  \/ \E n \in Names : Raise(n)
  \/ \E N \in SUBSET raised : Take(N)
  \/ \E t \in Tables : Send(t)
  \/ \E N \in SUBSET taken : Finish(N)
  \/ \E N \in SUBSET raised : Crash(N)

Spec == Init /\ [][Next]_vars
=============================================================================
