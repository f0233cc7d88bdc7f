----------------------------- MODULE MCOPCClaims -----------------------------
(***************************************************************************)
(* One or two tables of one tag, and nothing more than a claim needs.      *)
(***************************************************************************)
EXTENDS OPCClaims, TLC

CONSTANTS none, null

MCDataType == 1 :> "INT"
MCLinks    == [t \in Tables |-> << [field |-> "f", reg |-> 1] >>]
LastValue  == [t \in Tables |-> "LASTVALUE"]
Log        == [t \in Tables |-> "LOG"]

\* table 0 is written on trigger 1
Written    == 0 :> 1
NotRead    == 0 :> none
\* table 0 is written on trigger 1, table 1 read on trigger 1, table 2 on trigger 2
Written3   == 0 :> 1 @@ 1 :> none @@ 2 :> none
Read3      == 0 :> none @@ 1 :> 1 @@ 2 :> 2

\* a word that is the INT -6
MinusSix   == {65530}

Nobody     == [poll |-> 0, edit |-> 0, raise |-> 0, fail |-> 0, restart |-> 0]
OnePoll    == [Nobody EXCEPT !["poll"] = 1]
OneEdit    == [Nobody EXCEPT !["edit"] = 2]
OneRaise   == [Nobody EXCEPT !["raise"] = 1]
EditRaise2 == [Nobody EXCEPT !["edit"] = 1, !["raise"] = 2]
==============================================================================
