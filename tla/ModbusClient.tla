---------------------------- MODULE ModbusClient ----------------------------
(***************************************************************************)
(* The modbus daemon, comm/modbus_client/modbus_client2.cpp, as the OPC    *)
(* configures it (USE_SOCKET=1): the main thread polls the cycles of all   *)
(* slaves, mailboxReadThread writes what the OPC puts in the mailbox.      *)
(* Both use one socket, which a mutex guards and which is pointed at one   *)
(* slave at a time.                                                        *)
(*                                                                         *)
(* rllib and the PLCs are external: a connection carries the requests sent *)
(* and the answers not yet read, in order; an answer may come after the    *)
(* one who asked stopped waiting, and response() gives whoever calls it    *)
(* the next answer of the connection.  A disconnect drops them all.  A PLC *)
(* echoes the slave of the request.                                        *)
(***************************************************************************)
EXTENDS Integers, Sequences

CONSTANTS
  NumSlaves,   \* NUM_SLAVES of the ini file: slave s has the address IPs
  NumCycles,   \* NUM_CYCLES
  SlaveOf,     \* namelist_slave
  NPoll,       \* N_POLL_SLAVE
  Limits       \* bounds: [post, fault |-> Nat]

Slaves == 1 .. NumSlaves
Cycles == 1 .. NumCycles

ASSUME NumSlavesAssumption == NumSlaves \in Nat \ {0}
ASSUME NumCyclesAssumption == NumCycles \in Nat \ {0}
ASSUME SlaveOfAssumption == SlaveOf \in [Cycles -> Slaves]
ASSUME NPollAssumption == NPoll \in Nat
ASSUME LimitsAssumption == Limits \in [{"post", "fault"} -> Nat]

VARIABLES
  mbx,         \* the mailbox: the slaves of the messages in it
  shm,         \* what the shared memory holds for the tags of each cycle
  conn,        \* mySocket: [adr, up, sent, answers, gaveUp]
  mutex,       \* thread->lock(): "free", "main" or "writer"
  actualSlave,
  poll_slave_counter,
  pc, cycle, data,   \* main thread; data is the result of modbusCycle
  wpc, slave,        \* mailboxReadThread
  mbexit,
  left         \* what is left of Limits

main   == << poll_slave_counter, pc, cycle, data >>
writer == << wpc, slave >>
vars   == << mbx, shm, conn, mutex, actualSlave, main, writer, mbexit, left >>

NONE == [slave |-> 0, of |-> 0]      \* the tag is not there yet
ERR  == [slave |-> 0, of |-> 1]      \* the string "ERR"

(* A request, and the answer to it: of is the cycle read, 0 for a write.   *)
Message == [slave : Slaves, of : Cycles \union {0}]

(* connect() after disconnect().  gaveUp tells whether a write stopped     *)
(* waiting for its answer on this connection; the code does not know.      *)
Connected(adr, ok) ==
  [adr |-> adr, up |-> ok, sent |-> << >>, answers |-> << >>, gaveUp |-> FALSE]

Send(c, m) == IF c.up THEN [c EXCEPT !.sent = Append(@, m)] ELSE c

Faults(n) == left["fault"] >= n /\ left' = [left EXCEPT !["fault"] = @ - n]

(* initModbus connects to the first slave; when it cannot, a warning is    *)
(* all that comes of it.                                                   *)
FirstConnection ==
  \/ conn = Connected(1, TRUE) /\ left = Limits
  \/ /\ Limits["fault"] > 0
     /\ conn = Connected(1, FALSE) /\ left = [Limits EXCEPT !["fault"] = @ - 1]

Init ==
  /\ mbx = << >>
  /\ shm = [c \in Cycles |-> NONE]
  /\ FirstConnection
  /\ mutex = "free" /\ actualSlave = 1
  /\ poll_slave_counter = [s \in Slaves |-> 0]
  /\ pc = "poll" /\ cycle = 1 /\ data = NONE
  /\ wpc = "start" /\ slave = 1
  /\ mbexit = FALSE

----------------------------------------------------------------------------
(* The main thread: modbusCycle and readModbus for each cycle.             *)

(* A slave that failed is not polled for N_POLL_SLAVE - 1 cycles.          *)
\* mutant: the counter is tested and not decremented
MutCounterKept(s) == poll_slave_counter[s]

CountedDown(s) == poll_slave_counter[s] - 1

PollSkipped ==
  LET s == SlaveOf[cycle]
  IN  /\ pc = "poll" /\ poll_slave_counter[s] > 0 /\ CountedDown(s) # 0
      /\ poll_slave_counter' = [poll_slave_counter EXCEPT ![s] = CountedDown(s)]
      /\ data' = ERR
      /\ pc' = "store"
      /\ UNCHANGED << mbx, shm, conn, mutex, actualSlave, cycle, writer, mbexit, left >>

(* The mutex is taken, the socket pointed at the slave, the request sent.  *)
PollRequest ==
  LET s == SlaveOf[cycle]
      request == [slave |-> s, of |-> cycle]
  IN  /\ pc = "poll" /\ mutex = "free"
      /\ poll_slave_counter[s] = 0 \/ CountedDown(s) = 0
      /\ mutex' = "main"
      /\ poll_slave_counter' = [poll_slave_counter EXCEPT ![s] = 0]
      /\ IF s # actualSlave
         THEN \E ok \in BOOLEAN :
                /\ Faults(IF ok THEN 0 ELSE 1)
                /\ conn' = Send(Connected(s, ok), request)
         ELSE conn' = Send(conn, request) /\ UNCHANGED left
      /\ actualSlave' = s
      /\ pc' = "response"
      /\ UNCHANGED << mbx, shm, cycle, data, writer, mbexit >>

PollAnswered ==
  /\ pc = "response"
  /\ conn.up /\ conn.answers # << >>
  /\ data' = Head(conn.answers)
  /\ conn' = [conn EXCEPT !.answers = Tail(@)]
  /\ mutex' = "free"
  /\ pc' = "store"
  /\ UNCHANGED << mbx, shm, actualSlave, poll_slave_counter, cycle, writer, mbexit, left >>

(* The request could not be sent, or no answer came in time: the slave is  *)
(* put off and the socket connected anew.                                  *)
\* mutant: the socket is left as it is
MutNotReconnected(ok) == conn

AfterFailure(ok) == Connected(conn.adr, ok)

PollFailed ==
  /\ pc = "response"
  /\ conn.up => conn.answers = << >>
  /\ \E ok \in BOOLEAN :
       /\ Faults((IF conn.up THEN 1 ELSE 0) + (IF ok THEN 0 ELSE 1))
       /\ conn' = AfterFailure(ok)
  /\ data' = ERR
  /\ poll_slave_counter' = [poll_slave_counter EXCEPT ![SlaveOf[cycle]] = NPoll]
  /\ mutex' = "free"
  /\ pc' = "store"
  /\ UNCHANGED << mbx, shm, actualSlave, cycle, writer, mbexit >>

(* readModbus stores the result of the cycle, without the mutex.           *)
Store ==
  /\ pc = "store"
  /\ shm' = [shm EXCEPT ![cycle] = data]
  /\ IF cycle < NumCycles THEN cycle' = cycle + 1 /\ pc' = "poll"
                          ELSE cycle' = 1 /\ pc' = "sleep"
  /\ UNCHANGED << mbx, conn, mutex, actualSlave, poll_slave_counter, data, writer, mbexit,
                  left >>

(* rlsleep(cycletime) is over: the loop goes on, or the process ends and   *)
(* cancels the other thread.                                               *)
Wake ==
  /\ pc = "sleep"
  /\ pc' = IF mbexit THEN "stopped" ELSE "poll"
  /\ UNCHANGED << mbx, shm, conn, mutex, actualSlave, poll_slave_counter, cycle, data,
                  writer, mbexit, left >>

----------------------------------------------------------------------------
(* mailboxReadThread.                                                      *)

MailboxClear ==
  /\ pc # "stopped" /\ wpc = "start"
  /\ mbx' = << >>
  /\ wpc' = "read"
  /\ UNCHANGED << shm, conn, mutex, actualSlave, main, slave, mbexit, left >>

MailboxRead ==
  /\ pc # "stopped" /\ wpc = "read" /\ mbx # << >>
  /\ slave' = Head(mbx)
  /\ mbx' = Tail(mbx)
  /\ wpc' = "write"
  /\ UNCHANGED << shm, conn, mutex, actualSlave, main, mbexit, left >>

(* read() returns an error: the loop and the thread end for good, the main *)
(* thread polls on.                                                        *)
MailboxReadFails ==
  /\ pc # "stopped" /\ wpc = "read" /\ Faults(1)
  /\ wpc' = "ended"
  /\ UNCHANGED << mbx, shm, conn, mutex, actualSlave, main, slave, mbexit >>

(* "Do we change socket?"                                                  *)
\* mutant: the socket is used wherever it points
MutNoChange(s) == FALSE

ChangesSocket(s) == s # actualSlave

\* mutant: the main thread may use the socket before the response is there
MutUnlockedEarly == "free"

MutexWhileWriting == "writer"

Write ==
  LET request == [slave |-> slave, of |-> 0]
  IN  /\ pc # "stopped" /\ wpc = "write" /\ mutex = "free"
      /\ mutex' = MutexWhileWriting
      /\ IF ChangesSocket(slave)
         THEN \E ok \in BOOLEAN :
                /\ Faults(IF ok THEN 0 ELSE 1)
                /\ conn' = Send(Connected(slave, ok), request)
         ELSE conn' = Send(conn, request) /\ UNCHANGED left
      /\ wpc' = "response"
      /\ UNCHANGED << mbx, shm, actualSlave, main, slave, mbexit >>

(* "return socket to normal": by the slave the answer named, when there    *)
(* was one.                                                                *)
\* mutant: the socket stays with the slave written to
MutStays(s) == FALSE

ReturnsSocket(s) == s # actualSlave

\* mutant: an early return when no answer came
MutLeftLocked(answered) == IF answered THEN "free" ELSE "writer"

MutexAfterWrite(answered) == "free"

(* A write is tried once.                                                  *)
\* mutant: it is tried again when no answer came
MutRetry(answered) == IF answered THEN "read" ELSE "write"

AfterWritePc(answered) == "read"

(* The end of the locked section: named is the slave of the answer, c the  *)
(* connection after it, faults what went wrong so far.                     *)
AfterWrite(answered, named, c, faults) ==
  /\ slave' = named
  /\ IF ReturnsSocket(named)
     THEN \E ok \in BOOLEAN :
            /\ Faults(faults + (IF ok THEN 0 ELSE 1))
            /\ conn' = Connected(actualSlave, ok)
     ELSE conn' = c /\ Faults(faults)
  /\ mutex' = MutexAfterWrite(answered)
  /\ wpc' = AfterWritePc(answered)
  /\ UNCHANGED << mbx, shm, actualSlave, main, mbexit >>

WriteAnswered ==
  /\ pc # "stopped" /\ wpc = "response"
  /\ conn.up /\ conn.answers # << >>
  /\ AfterWrite(TRUE, Head(conn.answers).slave, [conn EXCEPT !.answers = Tail(@)], 0)

(* No answer came in time, or none can come.                               *)
WriteFailed ==
  /\ pc # "stopped" /\ wpc = "response"
  /\ conn.up => conn.answers = << >>
  /\ AfterWrite(FALSE, slave, [conn EXCEPT !.gaveUp = @ \/ conn.up],
                IF conn.up THEN 1 ELSE 0)

----------------------------------------------------------------------------
(* The environment: the OPC writes to the mailbox, the PLC connected       *)
(* answers the oldest request, a signal arrives.                           *)

Post(s) ==
  /\ left["post"] > 0 /\ left' = [left EXCEPT !["post"] = @ - 1]
  /\ mbx' = Append(mbx, s)
  /\ UNCHANGED << shm, conn, mutex, actualSlave, main, writer, mbexit >>

(* The mailbox refuses the message: writeIntValue says so, and writeTag    *)
(* returns 0 all the same.                                                 *)
PostRefused ==
  /\ left["post"] > 0 /\ left["fault"] > 0
  /\ left' = [left EXCEPT !["post"] = @ - 1, !["fault"] = @ - 1]
  /\ UNCHANGED << mbx, shm, conn, mutex, actualSlave, main, writer, mbexit >>

PlcAnswers ==
  /\ conn.sent # << >>
  /\ conn' = [conn EXCEPT !.sent = Tail(@), !.answers = Append(@, Head(conn.sent))]
  /\ UNCHANGED << mbx, shm, mutex, actualSlave, main, writer, mbexit, left >>

ExitHandler ==
  /\ ~mbexit /\ mbexit' = TRUE
  /\ UNCHANGED << mbx, shm, conn, mutex, actualSlave, main, writer, left >>

Stopped == pc = "stopped" /\ UNCHANGED vars

Main == PollSkipped \/ PollRequest \/ PollAnswered \/ PollFailed \/ Store \/ Wake

Writer ==
  \/ MailboxClear \/ MailboxRead \/ MailboxReadFails
  \/ Write \/ WriteAnswered \/ WriteFailed

Next ==
  \/ Main \/ Writer
  \/ \E s \in Slaves : Post(s)
  \/ PostRefused \/ PlcAnswers \/ ExitHandler \/ Stopped

Spec == Init /\ [][Next]_vars

(* The threads run, and PLCs answer.  The mutex is free while the main     *)
(* thread sleeps, half a second in every round: a writer that waits for it *)
(* gets it in the end.                                                     *)
FairSpec ==
  /\ Spec
  /\ WF_vars(Main) /\ WF_vars(PlcAnswers)
  /\ WF_vars(MailboxClear \/ MailboxRead \/ WriteAnswered \/ WriteFailed)
  /\ SF_vars(Write)

----------------------------------------------------------------------------
(* Every variable stays in its range, and the mutex is held by the thread  *)
(* that waits for a response.                                              *)
TypeOK ==
  /\ mbx \in Seq(Slaves)
  /\ shm \in [Cycles -> Message \union {NONE, ERR}]
  /\ conn \in [adr : Slaves, up : BOOLEAN, sent : Seq(Message), answers : Seq(Message),
               gaveUp : BOOLEAN]
  /\ mutex \in {"free", "main", "writer"}
  /\ actualSlave \in Slaves
  /\ poll_slave_counter \in [Slaves -> 0 .. NPoll]
  /\ pc \in {"poll", "response", "store", "sleep", "stopped"}
  /\ cycle \in Cycles /\ data \in Message \union {NONE, ERR}
  /\ wpc \in {"start", "read", "write", "response", "ended"} /\ slave \in Slaves
  /\ mbexit \in BOOLEAN
  /\ left \in [{"post", "fault"} -> Nat]
  /\ mutex = "main" <=> pc = "response"
  /\ mutex = "writer" <=> wpc = "response"

(* Whoever takes the mutex finds the socket pointed at actualSlave, which  *)
(* is all that decides whether it changes the address                      *)
(* (modbus_client2.cpp:222, 238, 486).                                     *)
SocketAtActual == mutex = "free" => conn.adr = actualSlave

(* Every request on a connection, and every answer, is for the slave at    *)
(* the other end: neither thread's change of address sends what the other  *)
(* asks to the wrong PLC.                                                  *)
NothingMisdirected ==
  \A m \in {conn.sent[k] : k \in DOMAIN conn.sent} \union
           {conn.answers[k] : k \in DOMAIN conn.answers} : m.slave = conn.adr

(* A cycle takes its own answer and not one that came too late for someone *)
(* else: after a failed read the reconnection (538-547) drops what may     *)
(* come.  A write that got no answer does not reconnect, and all the reads *)
(* on that connection may be one answer behind.                            *)
ReadsOwnAnswer ==
  [][PollAnswered => \/ Head(conn.answers) = [slave |-> SlaveOf[cycle], of |-> cycle]
                     \/ conn.gaveUp]_vars

(* The messages in the mailbox are taken, though polls fail and time out,  *)
(* as long as reading it does not fail, which ends the thread              *)
(* (modbus_client2.cpp:173).                                               *)
Ended == pc = "stopped" \/ wpc = "ended"

MailboxServed == mbx # << >> ~> mbx = << >> \/ Ended

(* Once faults end, the tags of a cycle that failed are read again: the    *)
(* slave put off is polled, the lost connection made anew.                 *)
ErrRecovers ==
  \A c \in Cycles : (shm[c] = ERR ~> (shm[c] # ERR \/ pc = "stopped"))
=============================================================================
