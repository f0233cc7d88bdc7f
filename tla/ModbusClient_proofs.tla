------------------------- MODULE ModbusClient_proofs -------------------------
(***************************************************************************)
(* The two threads of the modbus daemon share one socket without sending a *)
(* request to the wrong slave, and a cycle reads its own answer as long as *)
(* no write gave up on the connection: for any slaves, cycles, and order   *)
(* in which the threads take the mutex and connections and answers fail.   *)
(***************************************************************************)
EXTENDS ModbusClient, SequenceTheorems, TLAPS

Connection ==
  [adr : Slaves, up : BOOLEAN, sent : Seq(Message), answers : Seq(Message), gaveUp : BOOLEAN]

AllTo(s, adr) == \A k \in DOMAIN s : s[k].slave = adr

(* What is in transit on a connection is for the slave it leads to, and    *)
(* nothing is when it is not up.                                           *)
Idle(c) == c.sent = << >> /\ c.answers = << >>

Good(c) ==
  /\ c \in Connection
  /\ AllTo(c.sent, c.adr) /\ AllTo(c.answers, c.adr)
  /\ ~c.up => Idle(c)

(* One message is in transit, as a request or as an answer.                *)
Waiting(c, m) ==
  \/ ~c.up /\ Idle(c)
  \/ c.sent = << m >> /\ c.answers = << >>
  \/ c.sent = << >> /\ c.answers = << m >>

(* What the owner of the mutex asked.                                      *)
ReadRequest  == [slave |-> SlaveOf[cycle], of |-> cycle]
WriteRequest == [slave |-> slave, of |-> 0]

(* The socket leads where the owner of the mutex wants it, and back to     *)
(* actualSlave when there is none.                                         *)
SocketInv ==
  /\ mutex = "free" => conn.adr = actualSlave
  /\ mutex = "main" => conn.adr = actualSlave /\ actualSlave = SlaveOf[cycle]
  /\ mutex = "writer" => conn.adr = slave

(* Without a write that gave up, nothing is left over when the mutex is    *)
(* released.                                                               *)
QueueInv ==
  \/ conn.gaveUp
  \/ mutex = "free" /\ Idle(conn)
  \/ mutex = "main" /\ Waiting(conn, ReadRequest)
  \/ mutex = "writer" /\ Waiting(conn, WriteRequest)

IInv == TypeOK /\ Good(conn) /\ SocketInv /\ QueueInv

----------------------------------------------------------------------------
(* Connections.                                                            *)

LEMMA ConnectedGood ==
  ASSUME NEW adr \in Slaves, NEW ok \in BOOLEAN
  PROVE  /\ Good(Connected(adr, ok)) /\ Idle(Connected(adr, ok))
         /\ Connected(adr, ok).adr = adr
<1>1. << >> \in Seq(Message) /\ DOMAIN << >> = {}
  OBVIOUS
<1>2. Connected(adr, ok) \in Connection
  BY <1>1 DEF Connected, Connection
<1>. QED
  BY <1>1, <1>2 DEF Good, Idle, AllTo, Connected

LEMMA AppendAll ==
  ASSUME NEW s \in Seq(Message), NEW m \in Message, AllTo(s, m.slave)
  PROVE  Append(s, m) \in Seq(Message) /\ AllTo(Append(s, m), m.slave)
BY AppendProperties, LenProperties DEF AllTo

LEMMA TailAll ==
  ASSUME NEW s \in Seq(Message), NEW adr, s # << >>, AllTo(s, adr)
  PROVE  /\ Tail(s) \in Seq(Message) /\ AllTo(Tail(s), adr)
         /\ Head(s) \in Message /\ Head(s).slave = adr
<1>1. Tail(s) \in Seq(Message) /\ Head(s) \in Message /\ Len(Tail(s)) = Len(s) - 1
      /\ \A k \in 1 .. Len(Tail(s)) : Tail(s)[k] = s[k + 1]
  BY HeadTailProperties
<1>2. DOMAIN s = 1 .. Len(s) /\ Len(s) \in Nat /\ DOMAIN Tail(s) = 1 .. Len(Tail(s))
  BY <1>1, LenProperties
<1>3. Len(s) > 0 /\ Head(s) = s[1]
  BY <1>2, EmptySeq
<1>. QED
  BY <1>1, <1>2, <1>3 DEF AllTo

LEMMA SendGood ==
  ASSUME NEW c, Good(c), NEW m \in Message, m.slave = c.adr
  PROVE  /\ Good(Send(c, m)) /\ Send(c, m).adr = c.adr /\ Send(c, m).gaveUp = c.gaveUp
         /\ Idle(c) => Waiting(Send(c, m), m)
<1>1. CASE c.up
  <2>. DEFINE s == Append(c.sent, m)
  <2>1. c.sent \in Seq(Message)
    BY DEF Good, Connection
  <2>2. s \in Seq(Message) /\ AllTo(s, c.adr)
    BY <2>1, AppendAll DEF Good
  <2>3. Idle(c) => s = << m >>
    BY <2>1 DEF Idle
  <2>4. Send(c, m) = [c EXCEPT !.sent = s]
    BY <1>1 DEF Send
  <2>. HIDE DEF s
  <2>5. Send(c, m) \in Connection
    BY <2>2, <2>4 DEF Good, Connection
  <2>6. /\ Send(c, m).sent = s /\ Send(c, m).answers = c.answers /\ Send(c, m).adr = c.adr
        /\ Send(c, m).up = c.up /\ Send(c, m).gaveUp = c.gaveUp
    BY <2>4 DEF Good, Connection
  <2>. QED
    BY <1>1, <2>2, <2>3, <2>5, <2>6 DEF Good, Idle, Waiting
<1>2. CASE ~c.up
  BY <1>2 DEF Send, Waiting
<1>. QED
  BY <1>1, <1>2

LEMMA AnswerTaken ==
  ASSUME NEW c, Good(c), c.up, c.answers # << >>
  PROVE  /\ Good([c EXCEPT !.answers = Tail(@)])
         /\ [c EXCEPT !.answers = Tail(@)].adr = c.adr
         /\ [c EXCEPT !.answers = Tail(@)].gaveUp = c.gaveUp
         /\ Head(c.answers) \in Message /\ Head(c.answers).slave = c.adr
         /\ \A m : Waiting(c, m) => /\ Idle([c EXCEPT !.answers = Tail(@)])
                                    /\ Head(c.answers) = m
<1>. DEFINE s == Tail(c.answers)
            d == [c EXCEPT !.answers = s]
<1>1. c \in Connection /\ c.answers \in Seq(Message)
  BY DEF Good, Connection
<1>2. /\ s \in Seq(Message) /\ AllTo(s, c.adr)
      /\ Head(c.answers) \in Message /\ Head(c.answers).slave = c.adr
  BY <1>1, TailAll DEF Good
<1>3. ASSUME NEW m, Waiting(c, m) PROVE s = << >> /\ c.sent = << >> /\ Head(c.answers) = m
  <2>1. c.answers = << m >> /\ c.sent = << >>
    BY <1>3 DEF Waiting, Idle
  <2>. QED
    BY <2>1
<1>. HIDE DEF s
<1>4. d \in Connection
  BY <1>1, <1>2 DEF Connection
<1>5. /\ d.sent = c.sent /\ d.answers = s /\ d.adr = c.adr /\ d.up = c.up
      /\ d.gaveUp = c.gaveUp
  BY <1>1 DEF Connection
<1>6. Good(d)
  BY <1>2, <1>4, <1>5 DEF Good
<1>7. \A m : Waiting(c, m) => Idle(d) /\ Head(c.answers) = m
  BY <1>3, <1>5 DEF Idle
<1>. QED
  BY <1>2, <1>5, <1>6, <1>7 DEF s

LEMMA AnswerGiven ==
  ASSUME NEW c, Good(c), c.sent # << >>,
         NEW d, d = [c EXCEPT !.sent = Tail(@), !.answers = Append(@, Head(c.sent))]
  PROVE  /\ Good(d) /\ d.adr = c.adr /\ d.gaveUp = c.gaveUp
         /\ ~Idle(c) /\ \A m : Waiting(c, m) => Waiting(d, m)
<1>. DEFINE s == Tail(c.sent)
            a == Append(c.answers, Head(c.sent))
<1>1. c \in Connection /\ c.sent \in Seq(Message) /\ c.answers \in Seq(Message)
  BY DEF Good, Connection
<1>2. /\ s \in Seq(Message) /\ AllTo(s, c.adr)
      /\ Head(c.sent) \in Message /\ Head(c.sent).slave = c.adr
  BY <1>1, TailAll DEF Good
<1>3. a \in Seq(Message) /\ AllTo(a, c.adr)
  BY <1>1, <1>2, AppendAll DEF Good
<1>4. ASSUME NEW m, Waiting(c, m) PROVE s = << >> /\ a = << m >>
  <2>1. c.sent = << m >> /\ c.answers = << >>
    BY <1>4 DEF Waiting, Idle
  <2>. QED
    BY <2>1
<1>. HIDE DEF s, a
<1>5. d = [c EXCEPT !.sent = s, !.answers = a]
  BY DEF s, a
<1>6. d \in Connection
  BY <1>1, <1>2, <1>3, <1>5 DEF Connection
<1>7. /\ d.sent = s /\ d.answers = a /\ d.adr = c.adr /\ d.up = c.up
      /\ d.gaveUp = c.gaveUp
  BY <1>1, <1>5 DEF Connection
<1>8. c.up
  BY DEF Good, Idle
<1>9. Good(d)
  BY <1>2, <1>3, <1>6, <1>7, <1>8 DEF Good
<1>10. \A m : Waiting(c, m) => Waiting(d, m)
  BY <1>4, <1>7 DEF Waiting
<1>. QED
  BY <1>7, <1>9, <1>10 DEF Idle

----------------------------------------------------------------------------
(* The steps of the main thread.                                           *)

LEMMA InitInv == Init => IInv
<1>. SUFFICES ASSUME Init PROVE IInv
  OBVIOUS
<1>1. 1 \in Slaves /\ 1 \in Cycles
  BY NumSlavesAssumption, NumCyclesAssumption DEF Slaves, Cycles
<1>2. Good(conn) /\ Idle(conn) /\ conn.adr = 1
  <2>1. conn = Connected(1, TRUE) \/ conn = Connected(1, FALSE)
    BY DEF Init, FirstConnection
  <2>. QED
    BY <1>1, <2>1, ConnectedGood
<1>3. TypeOK
  <2>1. conn \in Connection
    BY <1>2 DEF Good
  <2>2. poll_slave_counter \in [Slaves -> 0 .. NPoll]
    BY NPollAssumption DEF Init
  <2>3. mbx \in Seq(Slaves) /\ shm \in [Cycles -> Message \union {NONE, ERR}]
        /\ data \in Message \union {NONE, ERR}
    BY DEF Init
  <2>4. left \in [{"post", "fault"} -> Nat]
    <3>1. CASE left = Limits
      BY <3>1, LimitsAssumption
    <3>2. CASE Limits["fault"] > 0 /\ left = [Limits EXCEPT !["fault"] = @ - 1]
      BY <3>2, LimitsAssumption
    <3>. QED
      BY <3>1, <3>2 DEF Init, FirstConnection
  <2>. QED
    BY <1>1, <2>1, <2>2, <2>3, <2>4 DEF Init, TypeOK, Connection
<1>. QED
  BY <1>2, <1>3 DEF Init, IInv, SocketInv, QueueInv

(* A step that leaves the socket, the mutex and what they are for alone.   *)
LEMMA KeepsSocket ==
  ASSUME IInv, TypeOK', UNCHANGED << conn, mutex, actualSlave >>,
         mutex = "main" => cycle' = cycle, mutex = "writer" => slave' = slave
  PROVE  IInv'
BY DEF IInv, Good, Idle, AllTo, Waiting, Connection, SocketInv, QueueInv, ReadRequest,
       WriteRequest

LEMMA FaultsType ==
  ASSUME left \in [{"post", "fault"} -> Nat], NEW n \in 0 .. 2, Faults(n)
  PROVE  left' \in [{"post", "fault"} -> Nat]
BY DEF Faults

LEMMA PollRequestInv ==
  ASSUME IInv, PollRequest
  PROVE  IInv'
<1>. DEFINE s == SlaveOf[cycle]
            request == [slave |-> s, of |-> cycle]
<1>1. TypeOK /\ Good(conn) /\ mutex = "free" /\ pc = "poll"
  BY DEF IInv, PollRequest
<1>2. cycle \in Cycles /\ s \in Slaves /\ request \in Message /\ request.slave = s
  BY <1>1, SlaveOfAssumption DEF TypeOK, Message
<1>3. /\ Good(conn') /\ conn'.adr = s /\ left' \in [{"post", "fault"} -> Nat]
      /\ conn'.gaveUp \/ Waiting(conn', request)
  <2>1. CASE s # actualSlave
    <3>1. PICK ok \in BOOLEAN : /\ Faults(IF ok THEN 0 ELSE 1)
                                /\ conn' = Send(Connected(s, ok), request)
      BY <2>1 DEF PollRequest
    <3>2. Good(Connected(s, ok)) /\ Idle(Connected(s, ok)) /\ Connected(s, ok).adr = s
      BY <1>2, ConnectedGood
    <3>3. left' \in [{"post", "fault"} -> Nat]
      BY <1>1, <3>1, FaultsType DEF TypeOK
    <3>. QED
      BY <1>2, <3>1, <3>2, <3>3, SendGood
  <2>2. CASE s = actualSlave
    <3>1. conn' = Send(conn, request) /\ left' = left
      BY <2>2 DEF PollRequest
    <3>2. conn.adr = s /\ (conn.gaveUp \/ Idle(conn))
      BY <1>1, <2>2 DEF IInv, SocketInv, QueueInv
    <3>. QED
      BY <1>1, <1>2, <3>1, <3>2, SendGood DEF TypeOK
  <2>. QED
    BY <2>1, <2>2
<1>4. TypeOK'
  <2>1. conn' \in Connection
    BY <1>3 DEF Good
  <2>2. poll_slave_counter' \in [Slaves -> 0 .. NPoll]
    <3>1. 0 \in 0 .. NPoll /\ poll_slave_counter \in [Slaves -> 0 .. NPoll]
      BY <1>1, NPollAssumption DEF TypeOK
    <3>2. poll_slave_counter' = [poll_slave_counter EXCEPT ![s] = 0]
      BY DEF PollRequest
    <3>. QED
      BY <3>1, <3>2
  <2>. QED
    BY <1>1, <1>2, <1>3, <2>1, <2>2 DEF PollRequest, TypeOK, Connection, writer
<1>5. /\ mutex' = "main" /\ actualSlave' = s /\ cycle' = cycle
      /\ Waiting(conn', ReadRequest') <=> Waiting(conn', request)
  BY DEF PollRequest, ReadRequest, Waiting, Idle
<1>. QED
  BY <1>3, <1>4, <1>5 DEF IInv, SocketInv, QueueInv, Good

LEMMA PollAnsweredInv ==
  ASSUME IInv, PollAnswered
  PROVE  IInv'
<1>1. TypeOK /\ Good(conn) /\ pc = "response" /\ mutex = "main"
      /\ conn.up /\ conn.answers # << >>
  BY DEF IInv, PollAnswered, TypeOK
<1>2. conn' = [conn EXCEPT !.answers = Tail(@)]
  BY DEF PollAnswered
<1>3. /\ Good(conn') /\ conn'.adr = conn.adr /\ conn'.gaveUp = conn.gaveUp
      /\ Head(conn.answers) \in Message
      /\ Waiting(conn, ReadRequest) => Idle(conn')
  BY <1>1, <1>2, AnswerTaken
<1>4. TypeOK'
  <2>1. conn' \in Connection
    BY <1>3 DEF Good
  <2>. QED
    BY <1>1, <1>3, <2>1 DEF PollAnswered, TypeOK, Connection, writer
<1>5. mutex' = "free" /\ actualSlave' = actualSlave
  BY DEF PollAnswered
<1>6. conn.adr = actualSlave /\ (conn.gaveUp \/ Waiting(conn, ReadRequest))
  BY <1>1 DEF IInv, SocketInv, QueueInv
<1>. QED
  BY <1>3, <1>4, <1>5, <1>6 DEF IInv, SocketInv, QueueInv, Good

LEMMA PollFailedInv ==
  ASSUME IInv, PollFailed
  PROVE  IInv'
<1>1. TypeOK /\ Good(conn) /\ pc = "response" /\ mutex = "main"
  BY DEF IInv, PollFailed, TypeOK
<1>2. PICK ok \in BOOLEAN : /\ Faults((IF conn.up THEN 1 ELSE 0) + (IF ok THEN 0 ELSE 1))
                            /\ conn' = Connected(conn.adr, ok)
  BY DEF PollFailed, AfterFailure
<1>3. conn.adr \in Slaves
  BY <1>1 DEF TypeOK
<1>4. Good(conn') /\ Idle(conn') /\ conn'.adr = conn.adr
  BY <1>2, <1>3, ConnectedGood
<1>5. TypeOK'
  <2>1. conn' \in Connection
    BY <1>4 DEF Good
  <2>2. poll_slave_counter' \in [Slaves -> 0 .. NPoll]
    <3>1. NPoll \in 0 .. NPoll /\ poll_slave_counter \in [Slaves -> 0 .. NPoll]
      BY <1>1, NPollAssumption DEF TypeOK
    <3>2. poll_slave_counter' = [poll_slave_counter EXCEPT ![SlaveOf[cycle]] = NPoll]
      BY DEF PollFailed
    <3>. QED
      BY <3>1, <3>2
  <2>3. left' \in [{"post", "fault"} -> Nat]
    BY <1>1, <1>2, FaultsType DEF TypeOK
  <2>. QED
    BY <1>1, <2>1, <2>2, <2>3 DEF PollFailed, TypeOK, Connection, writer
<1>6. mutex' = "free" /\ actualSlave' = actualSlave
  BY DEF PollFailed
<1>7. conn.adr = actualSlave
  BY <1>1 DEF IInv, SocketInv
<1>. QED
  BY <1>4, <1>5, <1>6, <1>7 DEF IInv, SocketInv, QueueInv, Good

LEMMA OtherMainInv ==
  ASSUME IInv, PollSkipped \/ Store \/ Wake
  PROVE  IInv'
<1>1. TypeOK
  BY DEF IInv
<1>2. UNCHANGED << conn, mutex, actualSlave >> /\ (mutex = "main" => cycle' = cycle)
      /\ slave' = slave
  BY <1>1 DEF PollSkipped, Store, Wake, TypeOK, writer
<1>3. TypeOK'
  <2>1. CASE PollSkipped
    <3>1. poll_slave_counter' \in [Slaves -> 0 .. NPoll]
      <4>1. poll_slave_counter \in [Slaves -> 0 .. NPoll] /\ SlaveOf[cycle] \in Slaves
        BY <1>1, SlaveOfAssumption DEF TypeOK
      <4>2. CountedDown(SlaveOf[cycle]) \in 0 .. NPoll
        BY <2>1, <4>1, NPollAssumption DEF PollSkipped, CountedDown
      <4>. QED
        BY <2>1, <4>1, <4>2 DEF PollSkipped
    <3>. QED
      BY <1>1, <2>1, <3>1 DEF PollSkipped, TypeOK, writer
  <2>2. CASE Store
    <3>1. cycle' \in Cycles
      BY <1>1, <2>2, NumCyclesAssumption DEF Store, TypeOK, Cycles
    <3>2. shm' \in [Cycles -> Message \union {NONE, ERR}]
      BY <1>1, <2>2 DEF Store, TypeOK
    <3>. QED
      BY <1>1, <2>2, <3>1, <3>2 DEF Store, TypeOK, writer
  <2>3. CASE Wake
    BY <1>1, <2>3 DEF Wake, TypeOK, writer
  <2>. QED
    BY <2>1, <2>2, <2>3
<1>. QED
  BY <1>2, <1>3, KeepsSocket

----------------------------------------------------------------------------
(* The steps of mailboxReadThread.                                         *)

LEMMA WriteInv ==
  ASSUME IInv, Write
  PROVE  IInv'
<1>. DEFINE request == [slave |-> slave, of |-> 0]
<1>1. TypeOK /\ Good(conn) /\ mutex = "free" /\ wpc = "write" /\ pc # "response"
  BY DEF IInv, Write, TypeOK
<1>2. slave \in Slaves /\ actualSlave \in Slaves
      /\ request \in Message /\ request.slave = slave
  BY <1>1 DEF TypeOK, Message
<1>3. /\ Good(conn') /\ conn'.adr = slave /\ left' \in [{"post", "fault"} -> Nat]
      /\ conn'.gaveUp \/ Waiting(conn', request)
  <2>1. CASE ChangesSocket(slave)
    <3>1. PICK ok \in BOOLEAN : /\ Faults(IF ok THEN 0 ELSE 1)
                                /\ conn' = Send(Connected(slave, ok), request)
      BY <2>1 DEF Write
    <3>2. /\ Good(Connected(slave, ok)) /\ Idle(Connected(slave, ok))
          /\ Connected(slave, ok).adr = slave
      BY <1>2, ConnectedGood
    <3>3. left' \in [{"post", "fault"} -> Nat]
      BY <1>1, <3>1, FaultsType DEF TypeOK
    <3>. QED
      BY <1>2, <3>1, <3>2, <3>3, SendGood
  <2>2. CASE ~ChangesSocket(slave)
    <3>1. conn' = Send(conn, request) /\ left' = left
      BY <2>2 DEF Write
    <3>2. conn.adr = slave /\ (conn.gaveUp \/ Idle(conn))
      BY <1>1, <2>2 DEF IInv, SocketInv, QueueInv, ChangesSocket
    <3>. QED
      BY <1>1, <1>2, <3>1, <3>2, SendGood DEF TypeOK
  <2>. QED
    BY <2>1, <2>2
<1>4. TypeOK'
  <2>1. conn' \in Connection
    BY <1>3 DEF Good
  <2>. QED
    BY <1>1, <1>3, <2>1 DEF Write, MutexWhileWriting, TypeOK, Connection, main
<1>5. /\ mutex' = "writer" /\ slave' = slave
      /\ Waiting(conn', WriteRequest') <=> Waiting(conn', request)
  BY DEF Write, MutexWhileWriting, WriteRequest, Waiting, Idle
<1>. QED
  BY <1>3, <1>4, <1>5 DEF IInv, SocketInv, QueueInv, Good

(* The end of the locked section, on a connection c where nothing is in    *)
(* transit or a write gave up.                                             *)
LEMMA AfterWriteInv ==
  ASSUME IInv, wpc = "response", NEW answered, NEW named, NEW c, NEW faults \in 0 .. 1,
         Good(c), c.adr = named, c.gaveUp \/ Idle(c),
         AfterWrite(answered, named, c, faults)
  PROVE  IInv'
<1>1. TypeOK /\ pc # "response"
  BY DEF IInv, TypeOK
<1>2. named \in Slaves /\ actualSlave \in Slaves
  BY <1>1 DEF Good, Connection, TypeOK
<1>3. /\ Good(conn') /\ conn'.adr = actualSlave /\ left' \in [{"post", "fault"} -> Nat]
      /\ conn'.gaveUp \/ Idle(conn')
  <2>1. CASE ReturnsSocket(named)
    <3>1. PICK ok \in BOOLEAN : /\ Faults(faults + (IF ok THEN 0 ELSE 1))
                                /\ conn' = Connected(actualSlave, ok)
      BY <2>1 DEF AfterWrite
    <3>2. left' \in [{"post", "fault"} -> Nat]
      BY <1>1, <3>1, FaultsType DEF TypeOK
    <3>. QED
      BY <1>2, <3>1, <3>2, ConnectedGood
  <2>2. CASE ~ReturnsSocket(named)
    <3>1. conn' = c /\ Faults(faults)
      BY <2>2 DEF AfterWrite
    <3>2. left' \in [{"post", "fault"} -> Nat]
      BY <1>1, <3>1, FaultsType DEF TypeOK
    <3>. QED
      BY <2>2, <3>1, <3>2 DEF ReturnsSocket
  <2>. QED
    BY <2>1, <2>2
<1>4. mutex' = "free" /\ actualSlave' = actualSlave
  BY DEF AfterWrite, MutexAfterWrite
<1>5. TypeOK'
  <2>1. conn' \in Connection
    BY <1>3 DEF Good
  <2>. QED
    BY <1>1, <1>2, <1>3, <1>4, <2>1 DEF AfterWrite, AfterWritePc, TypeOK, Connection, main
<1>. QED
  BY <1>3, <1>4, <1>5 DEF IInv, SocketInv, QueueInv, Good

LEMMA WriteAnsweredInv ==
  ASSUME IInv, WriteAnswered
  PROVE  IInv'
<1>. DEFINE c == [conn EXCEPT !.answers = Tail(@)]
            named == Head(conn.answers).slave
<1>1. /\ wpc = "response" /\ conn.up /\ conn.answers # << >>
      /\ AfterWrite(TRUE, named, c, 0)
  BY DEF WriteAnswered
<1>2. Good(conn) /\ mutex = "writer"
  BY <1>1 DEF IInv, TypeOK
<1>3. /\ Good(c) /\ c.adr = conn.adr /\ c.gaveUp = conn.gaveUp /\ named = conn.adr
      /\ Waiting(conn, WriteRequest) => Idle(c)
  BY <1>1, <1>2, AnswerTaken
<1>4. (c.gaveUp \/ Idle(c)) /\ 0 \in 0 .. 1
  BY <1>2, <1>3 DEF IInv, QueueInv
<1>. HIDE DEF c, named
<1>. QED
  BY <1>1, <1>3, <1>4, AfterWriteInv

LEMMA WriteFailedInv ==
  ASSUME IInv, WriteFailed
  PROVE  IInv'
<1>. DEFINE c == [conn EXCEPT !.gaveUp = @ \/ conn.up]
            faults == IF conn.up THEN 1 ELSE 0
<1>1. wpc = "response" /\ AfterWrite(FALSE, slave, c, faults)
  BY DEF WriteFailed
<1>2. Good(conn) /\ mutex = "writer" /\ conn \in Connection
  BY <1>1 DEF IInv, TypeOK, Good
<1>3. c \in Connection /\ c.adr = conn.adr /\ c.up = conn.up /\ c.sent = conn.sent
      /\ c.answers = conn.answers /\ (conn.up => c.gaveUp)
  BY <1>2 DEF Connection
<1>4. Good(c) /\ (~conn.up => Idle(c))
  BY <1>2, <1>3 DEF Good, Idle
<1>5. c.adr = slave /\ (c.gaveUp \/ Idle(c)) /\ faults \in 0 .. 1
  BY <1>2, <1>3, <1>4 DEF IInv, SocketInv
<1>. HIDE DEF c, faults
<1>. QED
  BY <1>1, <1>4, <1>5, AfterWriteInv

LEMMA OtherWriterInv ==
  ASSUME IInv, MailboxClear \/ MailboxRead \/ MailboxReadFails
  PROVE  IInv'
<1>1. TypeOK
  BY DEF IInv
<1>2. UNCHANGED << conn, mutex, actualSlave >> /\ cycle' = cycle
      /\ (mutex = "writer" => slave' = slave)
  BY <1>1 DEF MailboxClear, MailboxRead, MailboxReadFails, TypeOK, main
<1>3. TypeOK'
  <2>1. CASE MailboxClear
    BY <1>1, <2>1 DEF MailboxClear, TypeOK, main
  <2>2. CASE MailboxRead
    <3>1. mbx' \in Seq(Slaves) /\ slave' \in Slaves
      BY <1>1, <2>2, HeadTailProperties DEF MailboxRead, TypeOK
    <3>. QED
      BY <1>1, <2>2, <3>1 DEF MailboxRead, TypeOK, main
  <2>3. CASE MailboxReadFails
    <3>1. left' \in [{"post", "fault"} -> Nat]
      BY <1>1, <2>3, FaultsType DEF MailboxReadFails, TypeOK
    <3>. QED
      BY <1>1, <2>3, <3>1 DEF MailboxReadFails, TypeOK, main
  <2>. QED
    BY <2>1, <2>2, <2>3
<1>. QED
  BY <1>2, <1>3, KeepsSocket

----------------------------------------------------------------------------
(* The steps of the environment.                                           *)

LEMMA PlcAnswersInv ==
  ASSUME IInv, PlcAnswers
  PROVE  IInv'
<1>1. TypeOK /\ Good(conn) /\ conn.sent # << >>
  BY DEF IInv, PlcAnswers
<1>2. conn' = [conn EXCEPT !.sent = Tail(@), !.answers = Append(@, Head(conn.sent))]
  BY DEF PlcAnswers
<1>3. /\ Good(conn') /\ conn'.adr = conn.adr /\ conn'.gaveUp = conn.gaveUp
      /\ ~Idle(conn) /\ \A m : Waiting(conn, m) => Waiting(conn', m)
  BY <1>1, <1>2, AnswerGiven
<1>4. TypeOK'
  <2>1. conn' \in Connection
    BY <1>3 DEF Good
  <2>. QED
    BY <1>1, <2>1 DEF PlcAnswers, TypeOK, Connection, main, writer
<1>5. /\ UNCHANGED << mutex, actualSlave, slave, cycle >>
      /\ ReadRequest' = ReadRequest /\ WriteRequest' = WriteRequest
  BY DEF PlcAnswers, main, writer, ReadRequest, WriteRequest
<1>6. QueueInv'
  BY <1>3, <1>5 DEF IInv, QueueInv
<1>7. SocketInv'
  BY <1>3, <1>5 DEF IInv, SocketInv
<1>. QED
  BY <1>3, <1>4, <1>6, <1>7 DEF IInv

LEMMA OtherInv ==
  ASSUME IInv, (\E s \in Slaves : Post(s)) \/ PostRefused \/ ExitHandler \/ UNCHANGED vars
  PROVE  IInv'
<1>1. TypeOK
  BY DEF IInv
<1>2. UNCHANGED << conn, mutex, actualSlave, cycle, slave >>
  BY DEF Post, PostRefused, ExitHandler, vars, main, writer
<1>3. TypeOK'
  <2>1. ASSUME NEW s \in Slaves, Post(s) PROVE TypeOK'
    <3>1. mbx' \in Seq(Slaves) /\ left' \in [{"post", "fault"} -> Nat]
      BY <1>1, <2>1 DEF Post, TypeOK
    <3>. QED
      BY <1>1, <2>1, <3>1 DEF Post, TypeOK, main, writer
  <2>2. CASE ExitHandler
    BY <1>1, <2>2 DEF ExitHandler, TypeOK, main, writer
  <2>3. CASE PostRefused
    <3>1. left' \in [{"post", "fault"} -> Nat]
      BY <1>1, <2>3 DEF PostRefused, TypeOK
    <3>. QED
      BY <1>1, <2>3, <3>1 DEF PostRefused, TypeOK, main, writer
  <2>4. CASE UNCHANGED vars
    BY <1>1, <2>4 DEF TypeOK, vars, main, writer
  <2>. QED
    BY <2>1, <2>2, <2>3, <2>4
<1>. QED
  BY <1>2, <1>3, KeepsSocket

LEMMA NextInv == IInv /\ [Next]_vars => IInv'
<1>. SUFFICES ASSUME IInv, [Next]_vars PROVE IInv'
  OBVIOUS
<1>1. CASE Main
  BY <1>1, PollRequestInv, PollAnsweredInv, PollFailedInv, OtherMainInv DEF Main
<1>2. CASE Writer
  BY <1>2, WriteInv, WriteAnsweredInv, WriteFailedInv, OtherWriterInv DEF Writer
<1>3. CASE PlcAnswers
  BY <1>3, PlcAnswersInv
<1>4. CASE (\E s \in Slaves : Post(s)) \/ PostRefused \/ ExitHandler \/ Stopped \/ UNCHANGED vars
  BY <1>4, OtherInv DEF Stopped
<1>. QED
  BY <1>1, <1>2, <1>3, <1>4 DEF Next

LEMMA SocketInvariant == Spec => []IInv
BY InitInv, NextInv, PTL DEF Spec

----------------------------------------------------------------------------
(* Every variable stays in its range, and the mutex is held by exactly the *)
(* thread that waits for a response (modbus_client2.cpp:215-245, 480-551). *)
THEOREM SocketTypeCorrect == Spec => []TypeOK
<1>1. IInv => TypeOK
  BY DEF IInv
<1>. QED
  BY <1>1, SocketInvariant, PTL

(* The socket leads where both threads believe whenever either may take    *)
(* the mutex, however connections and answers failed before                *)
(* (modbus_client2.cpp:222-238, 486-530).                                  *)
THEOREM SocketReturned == Spec => []SocketAtActual
<1>1. IInv => SocketAtActual
  BY DEF IInv, SocketInv, SocketAtActual
<1>. QED
  BY <1>1, SocketInvariant, PTL

(* No request goes to a slave it is not for, and no answer comes from one  *)
(* (modbus_client2.cpp:222-251, 486-505).                                  *)
THEOREM RightSlave == Spec => []NothingMisdirected
<1>1. IInv => NothingMisdirected
  BY DEF IInv, Good, AllTo, NothingMisdirected
<1>. QED
  BY <1>1, SocketInvariant, PTL

(* A cycle takes the answer to its own request, for any number of slaves   *)
(* and cycles, unless a write on the same connection gave up waiting       *)
(* (modbus_client2.cpp:505-547).                                           *)
THEOREM OwnAnswer == Spec => ReadsOwnAnswer
<1>. DEFINE Own == PollAnswered =>
                     \/ Head(conn.answers) = [slave |-> SlaveOf[cycle], of |-> cycle]
                     \/ conn.gaveUp
<1>1. IInv => Own
  <2>. SUFFICES ASSUME IInv, PollAnswered, ~conn.gaveUp
                PROVE  Head(conn.answers) = ReadRequest
    BY DEF ReadRequest
  <2>1. mutex = "main" /\ conn.up /\ conn.answers # << >> /\ Good(conn)
    BY DEF IInv, TypeOK, PollAnswered
  <2>2. Waiting(conn, ReadRequest)
    BY <2>1 DEF IInv, QueueInv
  <2>. QED
    BY <2>1, <2>2, AnswerTaken
<1>2. IInv /\ [Next]_vars => [Own]_vars
  BY <1>1
<1>. QED
  BY <1>2, SocketInvariant, PTL DEF Spec, ReadsOwnAnswer
=============================================================================
