---------------------------- MODULE WriteDelivery ----------------------------
(***************************************************************************)
(* What becomes of a write the OPC counts as sent: the modbus daemon with  *)
(* a history of its writes.  Post numbers them, and each number is         *)
(* followed through the mailbox, the hands of mailboxReadThread and the    *)
(* connection to the PLC that executes it, or to where it is lost.         *)
(*                                                                         *)
(* A PLC executes a request when it answers it.  The history variables     *)
(* follow the program's and never restrain them.                           *)
(***************************************************************************)
EXTENDS ModbusClient, Functions

VARIABLES
  next,    \* the number of the next write
  mail,    \* the numbers of the messages in mbx
  hand,    \* the number of the write mailboxReadThread last took
  wire,    \* the numbers of the requests in conn.sent, 0 for a read
  exec,    \* the writes the PLCs executed, in their order
  cleared, \* those in the mailbox when the daemon cleared it
  lost     \* those the mailbox refused or the connection dropped

fate == << exec, cleared, lost >>
hist == << next, mail, hand, wire, fate >>
hvars == << vars, hist >>

Writes(s) == Range(s) \ {0}

HInit ==
  /\ Init
  /\ next = 1 /\ mail = << >> /\ hand = 0 /\ wire = << >>
  /\ exec = << >> /\ cleared = {} /\ lost = {}

(* Request n is sent, on a connection made anew or on the one there was; a *)
(* connection that is not up takes nothing.                                *)
Sent(n, anew) ==
  /\ LET before == IF anew THEN << >> ELSE wire
     IN  wire' = IF conn'.up THEN Append(before, n) ELSE before
  /\ lost' = lost \union (IF anew THEN Writes(wire) ELSE {})
                  \union (IF conn'.up THEN {} ELSE {n} \ {0})
  /\ UNCHANGED << next, mail, hand, exec, cleared >>

(* Nothing is sent.  Requests under way are lost with their connection.    *)
Dropped ==
  /\ IF conn'.sent = conn.sent THEN UNCHANGED << wire, lost >>
                               ELSE wire' = << >> /\ lost' = lost \union Writes(wire)
  /\ UNCHANGED << next, mail, hand, exec, cleared >>

HMain ==
  \/ (PollSkipped \/ PollAnswered \/ Store \/ Wake) /\ UNCHANGED hist
  \/ PollRequest /\ Sent(0, SlaveOf[cycle] # actualSlave)
  \/ PollFailed /\ Dropped

HMailboxClear ==
  /\ MailboxClear
  /\ mail' = << >> /\ cleared' = cleared \union Writes(mail)
  /\ UNCHANGED << next, hand, wire, exec, lost >>

HMailboxRead ==
  /\ MailboxRead
  /\ hand' = Head(mail) /\ mail' = Tail(mail)
  /\ UNCHANGED << next, wire, fate >>

HMailboxReadFails == MailboxReadFails /\ UNCHANGED hist

HWrite == Write /\ Sent(hand, ChangesSocket(slave))

HWriteAnswered == WriteAnswered /\ Dropped

HWriteFailed == WriteFailed /\ Dropped

HPost(s) ==
  /\ Post(s)
  /\ mail' = Append(mail, next) /\ next' = next + 1
  /\ UNCHANGED << hand, wire, fate >>

HPostRefused ==
  /\ PostRefused
  /\ lost' = lost \union {next} /\ next' = next + 1
  /\ UNCHANGED << mail, hand, wire, exec, cleared >>

HPlcAnswers ==
  /\ PlcAnswers
  /\ wire' = Tail(wire)
  /\ exec' = IF Head(wire) = 0 THEN exec ELSE Append(exec, Head(wire))
  /\ UNCHANGED << next, mail, hand, cleared, lost >>

HNext ==
  \/ HMain
  \/ HMailboxClear \/ HMailboxRead \/ HMailboxReadFails
  \/ HWrite \/ HWriteAnswered \/ HWriteFailed
  \/ \E s \in Slaves : HPost(s)
  \/ HPostRefused \/ HPlcAnswers
  \/ (ExitHandler \/ Stopped) /\ UNCHANGED hist

HSpec == HInit /\ [][HNext]_hvars

(* As FairSpec of ModbusClient.                                            *)
HFairSpec ==
  /\ HSpec
  /\ WF_hvars(HMain) /\ WF_hvars(HPlcAnswers)
  /\ WF_hvars(HMailboxClear \/ HMailboxRead \/ HWriteAnswered \/ HWriteFailed)
  /\ SF_hvars(HWrite)

----------------------------------------------------------------------------
(* Writes are executed at most once and in the order of the OPC's scans,   *)
(* whatever slaves they go to and however often the threads change the     *)
(* socket between them: an older value never replaces a newer one          *)
(* (modbus_client2.cpp:172-251).                                           *)
ExecutedInOrder == \A i, j \in DOMAIN exec : i < j => exec[i] < exec[j]

(* Only a fault loses a write the daemon's start did not clear: the two    *)
(* threads alone never disconnect a socket on which a write is on its way, *)
(* though either changes the address for itself (222-251, 486-505).        *)
LostOnlyByFault == lost # {} => left["fault"] < Limits["fault"]

(* The daemon implements Delivery: in each step of either thread the       *)
(* oldest write there is gets executed, or writes fall to a fault, or each *)
(* stays on its way; none is there twice, none comes back and none         *)
(* vanishes between the mailbox, the hands of the thread and the socket    *)
(* (modbus_client2.cpp:172-251).                                           *)
UnderWay ==
  Writes(wire) \union Range(mail) \union (IF wpc = "write" THEN {hand} ELSE {})

Faulty == left["fault"] < Limits["fault"]

D == INSTANCE Delivery
     WITH newest <- next - 1, underway <- UnderWay, executed <- exec,
          serving <- wpc # "start", faulty <- Faulty

KeepsDelivery == D!Spec

(* A write is executed in the end, or lost in one of the ways there are,   *)
(* or the daemon or its writing thread ends: no message stays for ever     *)
(* behind a poll that fails.                                               *)
Settled(n) == n \in Range(exec) \union cleared \union lost

WriteArrives ==
  \A n \in 1 .. Limits["post"] : (next > n ~> Settled(n) \/ Ended)
=============================================================================
