------------------------ MODULE WriteDelivery_proofs ------------------------
(***************************************************************************)
(* The daemon executes the writes of the OPC in their order and loses none *)
(* without a fault: for any slaves, cycles and number of writes, and every *)
(* order in which the threads take the mutex and answers come or fail.     *)
(***************************************************************************)
EXTENDS WriteDelivery, ModbusClient_proofs

(* A zero in a sequence of numbers stands for a read.                      *)
Rising(s) == \A i, j \in DOMAIN s : i < j /\ s[j] # 0 => s[i] < s[j]

Below(s, n) == \A i \in DOMAIN s : s[i] < n

Ahead(s, t) == \A i \in DOMAIN s, j \in DOMAIN t : t[j] # 0 => s[i] < t[j]

HistoryType ==
  /\ next \in Nat \ {0} /\ hand \in Nat
  /\ mail \in Seq(Nat \ {0}) /\ wire \in Seq(Nat) /\ exec \in Seq(Nat \ {0})
  /\ Len(mail) = Len(mbx) /\ Len(wire) = Len(conn.sent)

(* Every write is ahead of those behind it on the way from the mailbox to  *)
(* the PLC: in each place, and from one place to the next.                 *)
OrderInv ==
  /\ Rising(mail) /\ Rising(wire) /\ Rising(exec)
  /\ Ahead(exec, wire) /\ Ahead(exec, mail) /\ Ahead(wire, mail)
  /\ Below(exec, next) /\ Below(wire, next) /\ Below(mail, next)

HandInv ==
  wpc = "write" => /\ hand # 0 /\ hand < next
                   /\ Below(exec, hand) /\ Below(wire, hand)
                   /\ \A j \in DOMAIN mail : hand < mail[j]

HInv == IInv /\ HistoryType /\ OrderInv /\ HandInv

----------------------------------------------------------------------------
(* Entries of a sequence that grows or shrinks.                            *)

LEMMA AppendEntries ==
  ASSUME NEW S, NEW s \in Seq(S), NEW n \in S
  PROVE  /\ Append(s, n) \in Seq(S) /\ Len(Append(s, n)) = Len(s) + 1
         /\ \A i \in DOMAIN Append(s, n) :
              \/ i \in DOMAIN s /\ Append(s, n)[i] = s[i]
              \/ i = Len(s) + 1 /\ Append(s, n)[i] = n
         /\ \A i \in DOMAIN s : i < Len(s) + 1 /\ i \in Nat
BY AppendProperties, LenProperties

LEMMA AppendRising ==
  ASSUME NEW s \in Seq(Nat), NEW n \in Nat, Rising(s), n # 0 => Below(s, n)
  PROVE  Rising(Append(s, n))
<1>. DEFINE t == Append(s, n)
<1>1. /\ \A i \in DOMAIN t :
           \/ i \in DOMAIN s /\ t[i] = s[i]
           \/ i = Len(s) + 1 /\ t[i] = n
      /\ \A i \in DOMAIN s : i < Len(s) + 1 /\ i \in Nat
  BY AppendEntries
<1>2. Len(s) \in Nat
  BY LenProperties
<1>. HIDE DEF t
<1>3. ASSUME NEW i \in DOMAIN t, NEW j \in DOMAIN t, i < j, t[j] # 0
      PROVE  t[i] < t[j]
  <2>1. i \in DOMAIN s /\ t[i] = s[i]
    BY <1>1, <1>2, <1>3
  <2>. QED
    BY <1>1, <1>3, <2>1 DEF Rising, Below
<1>. QED
  BY <1>3 DEF Rising, t

LEMMA TailEntries ==
  ASSUME NEW S, NEW s \in Seq(S), s # << >>
  PROVE  /\ Tail(s) \in Seq(S) /\ Len(Tail(s)) = Len(s) - 1
         /\ Head(s) = s[1] /\ 1 \in DOMAIN s /\ s[1] \in S
         /\ \A i \in DOMAIN Tail(s) : /\ i \in Nat /\ i + 1 \in DOMAIN s /\ 1 < i + 1
                                      /\ Tail(s)[i] = s[i + 1] /\ s[i + 1] \in S
<1>1. Tail(s) \in Seq(S) /\ Len(Tail(s)) = Len(s) - 1
      /\ \A k \in 1 .. Len(Tail(s)) : Tail(s)[k] = s[k + 1]
  BY HeadTailProperties
<1>2. DOMAIN s = 1 .. Len(s) /\ Len(s) \in Nat /\ DOMAIN Tail(s) = 1 .. Len(Tail(s))
      /\ \A k \in 1 .. Len(s) : s[k] \in S
  BY <1>1, LenProperties
<1>3. Len(s) > 0 /\ Head(s) = s[1]
  BY <1>2, EmptySeq
<1>. QED
  BY <1>1, <1>2, <1>3

LEMMA EmptyEntries ==
  /\ DOMAIN << >> = {} /\ Len(<< >>) = 0 /\ \A S : << >> \in Seq(S)
  /\ Rising(<< >>) /\ \A n : Below(<< >>, n)
  /\ \A s : Ahead(<< >>, s) /\ Ahead(s, << >>)
<1>1. DOMAIN << >> = {} /\ Len(<< >>) = 0 /\ \A S : << >> \in Seq(S)
  OBVIOUS
<1>. QED
  BY <1>1 DEF Rising, Below, Ahead

LEMMA HInitInv == HInit => HInv
<1>. SUFFICES ASSUME HInit PROVE HInv
  OBVIOUS
<1>1. IInv
  BY InitInv DEF HInit
<1>2. mbx = << >> /\ conn.sent = << >> /\ wpc = "start"
  BY DEF HInit, Init, FirstConnection, Connected
<1>3. HistoryType /\ OrderInv
  BY <1>2, EmptyEntries DEF HInit, HistoryType, OrderInv
<1>. QED
  BY <1>1, <1>2, <1>3 DEF HInv, HandInv

----------------------------------------------------------------------------
(* What a step does to the history.                                        *)

LEMMA KeepsHistory ==
  ASSUME HInv, IInv', UNCHANGED hist, UNCHANGED mbx, conn'.sent = conn.sent,
         wpc' # "write" \/ wpc' = wpc
  PROVE  HInv'
BY DEF HInv, HistoryType, OrderInv, HandInv, Rising, Below, Ahead, hist, fate

(* Sending n, a read or the write that is next.                            *)
LEMMA SentInv ==
  ASSUME HInv, IInv', NEW n \in Nat, NEW anew \in BOOLEAN, Sent(n, anew), UNCHANGED mbx,
         Len(conn'.sent) = (IF anew THEN 0 ELSE Len(conn.sent)) + (IF conn'.up THEN 1 ELSE 0),
         wpc' # "write" \/ (n = 0 /\ wpc' = wpc),
         n # 0 => /\ n < next /\ Below(exec, n) /\ Below(wire, n)
                  /\ \A j \in DOMAIN mail : n < mail[j]
  PROVE  HInv'
<1>. DEFINE before == IF anew THEN << >> ELSE wire
<1>1. HistoryType /\ OrderInv /\ HandInv
  BY DEF HInv
<1>2. UNCHANGED << next, mail, hand, exec >> /\ UNCHANGED mbx
  BY DEF Sent
<1>3. /\ before \in Seq(Nat) /\ Len(before) = IF anew THEN 0 ELSE Len(conn.sent)
      /\ Rising(before) /\ Ahead(exec, before) /\ Ahead(before, mail)
      /\ Below(before, next) /\ (n # 0 => Below(before, n))
      /\ (wpc = "write" => Below(before, hand))
  BY <1>1, EmptyEntries DEF HistoryType, OrderInv, HandInv
<1>4. wire' = IF conn'.up THEN Append(before, n) ELSE before
  BY DEF Sent
<1>. HIDE DEF before
<1>5. /\ wire' \in Seq(Nat) /\ Len(wire') = Len(conn'.sent)
      /\ \A i \in DOMAIN wire' :
           \/ i \in DOMAIN before /\ wire'[i] = before[i]
           \/ i = Len(before) + 1 /\ wire'[i] = n
      /\ \A i \in DOMAIN before : i < Len(before) + 1 /\ i \in Nat
  <2>1. CASE conn'.up
    BY <1>3, <1>4, <2>1, AppendEntries
  <2>2. CASE ~conn'.up
    <3>1. wire' = before /\ DOMAIN before = 1 .. Len(before) /\ Len(before) \in Nat
      BY <1>3, <1>4, <2>2, LenProperties
    <3>. QED
      BY <1>3, <2>2, <3>1
  <2>. QED
    BY <2>1, <2>2
<1>6. HistoryType'
  BY <1>1, <1>2, <1>5 DEF HistoryType
<1>7. /\ Len(before) \in Nat /\ \A i \in DOMAIN before : before[i] \in Nat
      /\ \A j \in DOMAIN mail : mail[j] \in Nat \ {0}
      /\ next \in Nat \ {0} /\ hand \in Nat
  BY <1>1, <1>3, LenProperties DEF HistoryType
<1>8. Rising(wire')
  <2>1. Rising(Append(before, n))
    BY <1>3, AppendRising
  <2>. QED
    BY <1>3, <1>4, <2>1
<1>9. Ahead(exec, wire')
  BY <1>3, <1>5 DEF Ahead, Below
<1>10. Ahead(wire', mail)
  <2>1. \A j \in DOMAIN mail : n < mail[j]
    BY <1>7
  <2>. QED
    BY <1>3, <1>5, <2>1 DEF Ahead
<1>11. Below(wire', next)
  <2>1. n < next
    BY <1>7
  <2>. QED
    BY <1>3, <1>5, <2>1 DEF Below
<1>12. wpc' = "write" => Below(wire', hand)
  <2>1. wpc' = "write" => wpc = "write" /\ n = 0 /\ n < hand
    BY <1>1, <1>7 DEF HandInv
  <2>. QED
    BY <1>3, <1>5, <2>1 DEF Below
<1>13. OrderInv'
  BY <1>1, <1>2, <1>8, <1>9, <1>10, <1>11 DEF OrderInv, Rising, Ahead, Below
<1>14. HandInv'
  BY <1>1, <1>2, <1>12 DEF HandInv, Below
<1>. QED
  BY <1>6, <1>13, <1>14 DEF HInv

LEMMA DroppedInv ==
  ASSUME HInv, IInv', Dropped, UNCHANGED mbx,
         conn'.sent = conn.sent \/ conn'.sent = << >>, wpc' # "write" \/ wpc' = wpc
  PROVE  HInv'
<1>1. CASE conn'.sent = conn.sent
  BY <1>1 DEF Dropped, HInv, HistoryType, OrderInv, HandInv, Rising, Below, Ahead
<1>2. CASE conn'.sent # conn.sent
  <2>1. HistoryType /\ OrderInv /\ HandInv
    BY DEF HInv
  <2>2. wire' = << >> /\ conn'.sent = << >> /\ UNCHANGED << next, mail, hand, exec, mbx >>
    BY <1>2 DEF Dropped
  <2>3. HistoryType'
    BY <2>1, <2>2, EmptyEntries DEF HistoryType
  <2>4. Rising(wire') /\ Ahead(exec, wire') /\ Ahead(wire', mail) /\ Below(wire', next)
        /\ Below(wire', hand)
    BY <2>2, EmptyEntries
  <2>5. OrderInv'
    BY <2>1, <2>2, <2>4 DEF OrderInv, Rising, Ahead, Below
  <2>6. HandInv'
    BY <2>1, <2>2, <2>4 DEF HandInv, Below
  <2>. QED
    BY <2>3, <2>5, <2>6 DEF HInv
<1>. QED
  BY <1>1, <1>2

LEMMA MailboxClearOrder ==
  ASSUME HInv, IInv', HMailboxClear
  PROVE  HInv'
<1>1. HistoryType /\ OrderInv
  BY DEF HInv
<1>2. /\ mail' = << >> /\ mbx' = << >> /\ wpc' = "read"
      /\ UNCHANGED << next, hand, wire, exec, conn >>
  BY DEF HMailboxClear, MailboxClear
<1>3. HistoryType'
  BY <1>1, <1>2, EmptyEntries DEF HistoryType
<1>4. Rising(mail') /\ Ahead(exec, mail') /\ Ahead(wire, mail') /\ Below(mail', next)
  BY <1>2, EmptyEntries
<1>5. OrderInv'
  BY <1>1, <1>2, <1>4 DEF OrderInv, Rising, Ahead, Below
<1>. QED
  BY <1>2, <1>3, <1>5 DEF HInv, HandInv

LEMMA MailboxReadOrder ==
  ASSUME HInv, IInv', HMailboxRead
  PROVE  HInv'
<1>1. HistoryType /\ OrderInv /\ mbx \in Seq(Slaves)
  BY DEF HInv, IInv, TypeOK
<1>2. /\ mbx # << >> /\ mbx' = Tail(mbx) /\ mail' = Tail(mail) /\ hand' = Head(mail)
      /\ UNCHANGED << next, wire, exec, conn >>
  BY DEF HMailboxRead, MailboxRead, fate
<1>3. mail # << >> /\ Len(mbx') = Len(mbx) - 1
  <2>1. Len(mbx) > 0 /\ Len(mbx') = Len(mbx) - 1
    BY <1>1, <1>2, TailEntries, EmptySeq, LenProperties
  <2>. QED
    BY <1>1, <2>1 DEF HistoryType
<1>4. /\ mail' \in Seq(Nat \ {0}) /\ Len(mail') = Len(mail) - 1
      /\ hand' = mail[1] /\ 1 \in DOMAIN mail /\ mail[1] \in Nat \ {0}
      /\ \A i \in DOMAIN mail' : /\ i \in Nat /\ i + 1 \in DOMAIN mail /\ 1 < i + 1
                                 /\ mail'[i] = mail[i + 1] /\ mail[i + 1] \in Nat \ {0}
  BY <1>1, <1>2, <1>3, TailEntries DEF HistoryType
<1>5. HistoryType'
  BY <1>1, <1>2, <1>3, <1>4 DEF HistoryType
<1>6. Rising(mail')
  BY <1>1, <1>4 DEF OrderInv, Rising
<1>7. Ahead(exec, mail') /\ Ahead(wire, mail') /\ Below(mail', next)
  BY <1>1, <1>4 DEF OrderInv, Ahead, Below
<1>8. OrderInv'
  BY <1>1, <1>2, <1>6, <1>7 DEF OrderInv, Rising, Ahead, Below
<1>9. /\ hand' # 0 /\ hand' < next /\ Below(exec, hand') /\ Below(wire, hand')
      /\ \A j \in DOMAIN mail' : hand' < mail'[j]
  BY <1>1, <1>4 DEF OrderInv, Rising, Ahead, Below
<1>10. HandInv'
  BY <1>2, <1>9 DEF HandInv, Below
<1>. QED
  BY <1>5, <1>8, <1>10 DEF HInv

LEMMA PostOrder ==
  ASSUME HInv, IInv', NEW s \in Slaves, HPost(s)
  PROVE  HInv'
<1>1. HistoryType /\ OrderInv /\ HandInv /\ mbx \in Seq(Slaves)
  BY DEF HInv, IInv, TypeOK
<1>2. /\ mbx' = Append(mbx, s) /\ mail' = Append(mail, next) /\ next' = next + 1
      /\ UNCHANGED << hand, wire, exec, conn, wpc >>
  BY DEF HPost, Post, fate, writer
<1>3. Len(mbx') = Len(mbx) + 1
  BY <1>1, <1>2, AppendEntries
<1>4. /\ mail' \in Seq(Nat \ {0}) /\ Len(mail') = Len(mail) + 1
      /\ \A i \in DOMAIN mail' :
           \/ i \in DOMAIN mail /\ mail'[i] = mail[i]
           \/ i = Len(mail) + 1 /\ mail'[i] = next
      /\ \A i \in DOMAIN mail : i < Len(mail) + 1 /\ i \in Nat
  BY <1>1, <1>2, AppendEntries DEF HistoryType
<1>5. HistoryType'
  BY <1>1, <1>2, <1>3, <1>4 DEF HistoryType
<1>6. Len(mail) \in Nat /\ next \in Nat
  BY <1>1, LenProperties DEF HistoryType
<1>7. Rising(mail')
  BY <1>1, <1>4, <1>6 DEF OrderInv, Rising, Below
<1>8. Ahead(exec, mail') /\ Ahead(wire, mail')
  BY <1>1, <1>4 DEF OrderInv, Ahead, Below
<1>9. Below(exec, next') /\ Below(wire, next') /\ Below(mail', next')
  <2>1. /\ \A i \in DOMAIN exec : exec[i] \in Nat
        /\ \A i \in DOMAIN wire : wire[i] \in Nat
        /\ \A i \in DOMAIN mail : mail[i] \in Nat
    BY <1>1, LenProperties DEF HistoryType
  <2>. QED
    BY <1>1, <1>2, <1>4, <1>6, <2>1 DEF OrderInv, Below
<1>10. OrderInv'
  BY <1>1, <1>2, <1>7, <1>8, <1>9 DEF OrderInv, Rising, Ahead, Below
<1>11. HandInv'
  <2>. SUFFICES ASSUME wpc = "write" PROVE hand < next' /\ \A j \in DOMAIN mail' : hand < mail'[j]
    BY <1>1, <1>2 DEF HandInv, Below
  <2>1. hand < next /\ hand \in Nat /\ \A j \in DOMAIN mail : hand < mail[j]
    BY <1>1 DEF HandInv, HistoryType
  <2>. QED
    BY <1>2, <1>4, <1>6, <2>1
<1>. QED
  BY <1>5, <1>10, <1>11 DEF HInv

LEMMA PostRefusedOrder ==
  ASSUME HInv, IInv', HPostRefused
  PROVE  HInv'
<1>1. HistoryType /\ OrderInv /\ HandInv
  BY DEF HInv
<1>2. next' = next + 1 /\ UNCHANGED << mbx, mail, hand, wire, exec, conn, wpc >>
  BY DEF HPostRefused, PostRefused, writer
<1>3. HistoryType'
  BY <1>1, <1>2 DEF HistoryType
<1>4. Below(exec, next') /\ Below(wire, next') /\ Below(mail, next')
  <2>1. /\ \A i \in DOMAIN exec : exec[i] \in Nat
        /\ \A i \in DOMAIN wire : wire[i] \in Nat
        /\ \A i \in DOMAIN mail : mail[i] \in Nat
        /\ next \in Nat
    BY <1>1, LenProperties DEF HistoryType
  <2>. QED
    BY <1>1, <1>2, <2>1 DEF OrderInv, Below
<1>5. OrderInv'
  BY <1>1, <1>2, <1>4 DEF OrderInv, Rising, Ahead, Below
<1>6. HandInv'
  BY <1>1, <1>2 DEF HandInv, Below, HistoryType
<1>. QED
  BY <1>3, <1>5, <1>6 DEF HInv

LEMMA PlcAnswersOrder ==
  ASSUME HInv, IInv', HPlcAnswers
  PROVE  HInv'
<1>. DEFINE n == Head(wire)
<1>1. HistoryType /\ OrderInv /\ HandInv /\ conn \in Connection
  BY DEF HInv, IInv, Good
<1>2. /\ conn.sent # << >> /\ conn'.sent = Tail(conn.sent) /\ wire' = Tail(wire)
      /\ UNCHANGED << next, mail, hand, mbx, wpc >>
      /\ exec' = IF n = 0 THEN exec ELSE Append(exec, n)
  BY <1>1 DEF HPlcAnswers, PlcAnswers, writer, Connection
<1>3. wire # << >> /\ Len(conn'.sent) = Len(conn.sent) - 1
  <2>1. conn.sent \in Seq(Message)
    BY <1>1 DEF Connection
  <2>2. Len(conn.sent) > 0 /\ Len(conn'.sent) = Len(conn.sent) - 1
    BY <1>2, <2>1, TailEntries, EmptySeq, LenProperties
  <2>. QED
    BY <1>1, <2>2 DEF HistoryType
<1>4. /\ wire' \in Seq(Nat) /\ Len(wire') = Len(wire) - 1
      /\ n = wire[1] /\ 1 \in DOMAIN wire /\ n \in Nat
      /\ \A i \in DOMAIN wire' : /\ i \in Nat /\ i + 1 \in DOMAIN wire /\ 1 < i + 1
                                 /\ wire'[i] = wire[i + 1] /\ wire[i + 1] \in Nat
  BY <1>1, <1>2, <1>3, TailEntries DEF HistoryType
<1>5. /\ exec' \in Seq(Nat \ {0})
      /\ \A i \in DOMAIN exec' :
           \/ i \in DOMAIN exec /\ exec'[i] = exec[i]
           \/ i = Len(exec) + 1 /\ exec'[i] = n /\ n # 0
      /\ \A i \in DOMAIN exec : i < Len(exec) + 1 /\ i \in Nat
  <2>1. exec \in Seq(Nat \ {0}) /\ Len(exec) \in Nat /\ DOMAIN exec = 1 .. Len(exec)
    BY <1>1, LenProperties DEF HistoryType
  <2>2. CASE n = 0
    BY <1>2, <2>1, <2>2
  <2>3. CASE n # 0
    <3>1. n \in Nat \ {0} /\ exec' = Append(exec, n)
      BY <1>2, <1>4, <2>3
    <3>. HIDE DEF n
    <3>. QED
      BY <2>1, <2>3, <3>1, AppendEntries
  <2>. QED
    BY <2>2, <2>3
<1>. HIDE DEF n
<1>6. HistoryType'
  BY <1>1, <1>2, <1>3, <1>4, <1>5 DEF HistoryType
<1>7. Rising(wire') /\ Ahead(wire', mail) /\ Below(wire', next)
  BY <1>1, <1>4 DEF OrderInv, Rising, Ahead, Below
<1>9. Rising(exec')
  <2>1. CASE n = 0
    BY <1>1, <1>2, <2>1 DEF OrderInv
  <2>2. CASE n # 0
    <3>1. Below(exec, n)
      BY <1>1, <1>4, <2>2 DEF OrderInv, Ahead, Below
    <3>2. exec \in Seq(Nat)
      BY <1>1, LenProperties DEF HistoryType
    <3>. QED
      BY <1>1, <1>2, <1>4, <2>2, <3>1, <3>2, AppendRising DEF OrderInv
  <2>. QED
    BY <2>1, <2>2
<1>10. Ahead(exec', wire')
  BY <1>1, <1>4, <1>5 DEF OrderInv, Rising, Ahead
<1>11. Ahead(exec', mail) /\ Below(exec', next)
  BY <1>1, <1>4, <1>5 DEF OrderInv, Ahead, Below
<1>12. OrderInv'
  BY <1>1, <1>2, <1>7, <1>9, <1>10, <1>11 DEF OrderInv, Rising, Ahead, Below
<1>13. HandInv'
  BY <1>1, <1>2, <1>4, <1>5 DEF HandInv, Below
<1>. QED
  BY <1>6, <1>12, <1>13 DEF HInv

----------------------------------------------------------------------------
(* The steps of the daemon, on the history.                                *)

LEMMA SentLength ==
  ASSUME NEW c, c \in Connection, NEW m \in Message
  PROVE  /\ Send(c, m).up = c.up /\ Send(c, m).gaveUp = c.gaveUp
         /\ Len(Send(c, m).sent) = Len(c.sent) + (IF c.up THEN 1 ELSE 0)
<1>1. c.sent \in Seq(Message) /\ Len(c.sent) \in Nat
  BY LenProperties DEF Connection
<1>2. CASE c.up
  <2>. DEFINE s == Append(c.sent, m)
  <2>1. Len(s) = Len(c.sent) + 1
    BY <1>1, AppendEntries
  <2>. HIDE DEF s
  <2>2. Send(c, m) = [c EXCEPT !.sent = s]
    BY <1>2 DEF Send, s
  <2>. QED
    BY <1>2, <2>1, <2>2 DEF Connection
<1>3. CASE ~c.up
  BY <1>1, <1>3 DEF Send
<1>. QED
  BY <1>2, <1>3

LEMMA ConnectedConnection ==
  ASSUME NEW adr \in Slaves, NEW ok \in BOOLEAN
  PROVE  /\ Connected(adr, ok) \in Connection /\ Connected(adr, ok).sent = << >>
         /\ Connected(adr, ok).up = ok /\ Connected(adr, ok).gaveUp = FALSE
         /\ Len(Connected(adr, ok).sent) = 0
BY ConnectedGood DEF Good, Connected

LEMMA FaultsUsed ==
  ASSUME left \in [{"post", "fault"} -> Nat], NEW n \in 0 .. 2, Faults(n)
  PROVE  /\ left'["fault"] = left["fault"] - n /\ left'["fault"] \in Nat
         /\ left["fault"] \in Nat
BY DEF Faults

(* What the two sends have in common.                                      *)
LEMMA SendStep ==
  ASSUME IInv, NEW s \in Slaves, NEW m \in Message, NEW anew \in BOOLEAN,
         IF anew
         THEN \E ok \in BOOLEAN :
                /\ Faults(IF ok THEN 0 ELSE 1)
                /\ conn' = Send(Connected(s, ok), m)
         ELSE conn' = Send(conn, m) /\ UNCHANGED left
  PROVE  /\ Len(conn'.sent) = (IF anew THEN 0 ELSE Len(conn.sent)) + (IF conn'.up THEN 1 ELSE 0)
         /\ left'["fault"] <= left["fault"]
         /\ \/ conn'.up /\ ~conn'.gaveUp
            \/ ~anew /\ conn'.up = conn.up /\ conn'.gaveUp = conn.gaveUp
            \/ left'["fault"] < left["fault"]
<1>1. TypeOK /\ conn \in Connection /\ left["fault"] \in Nat
  BY DEF IInv, TypeOK, Good
<1>2. CASE anew
  <2>1. PICK ok \in BOOLEAN : /\ Faults(IF ok THEN 0 ELSE 1)
                              /\ conn' = Send(Connected(s, ok), m)
    BY <1>2
  <2>2. /\ left'["fault"] = left["fault"] - (IF ok THEN 0 ELSE 1)
    BY <1>1, <2>1, FaultsUsed DEF TypeOK
  <2>3. /\ conn'.up = ok /\ conn'.gaveUp = FALSE
        /\ Len(conn'.sent) = 0 + (IF ok THEN 1 ELSE 0)
    <3>. DEFINE c == Connected(s, ok)
    <3>1. /\ c \in Connection /\ c.up = ok /\ c.gaveUp = FALSE /\ Len(c.sent) = 0
      BY ConnectedConnection
    <3>. HIDE DEF c
    <3>2. /\ Send(c, m).up = c.up /\ Send(c, m).gaveUp = c.gaveUp
          /\ Len(Send(c, m).sent) = Len(c.sent) + (IF c.up THEN 1 ELSE 0)
      BY <3>1, SentLength
    <3>3. conn' = Send(c, m)
      BY <2>1 DEF c
    <3>. QED
      BY ONLY <3>1, <3>2, <3>3
  <2>. QED
    BY <1>1, <1>2, <2>2, <2>3
<1>3. CASE ~anew
  <2>1. /\ conn'.up = conn.up /\ conn'.gaveUp = conn.gaveUp
        /\ Len(conn'.sent) = Len(conn.sent) + (IF conn.up THEN 1 ELSE 0)
    <3>1. conn' = Send(conn, m)
      BY <1>3
    <3>2. /\ Send(conn, m).up = conn.up /\ Send(conn, m).gaveUp = conn.gaveUp
          /\ Len(Send(conn, m).sent) = Len(conn.sent) + (IF conn.up THEN 1 ELSE 0)
      BY <1>1, SentLength
    <3>. QED
      BY ONLY <3>1, <3>2
  <2>. QED
    BY <1>1, <1>3, <2>1
<1>. QED
  BY <1>2, <1>3

LEMMA PollRequestSends ==
  ASSUME IInv, PollRequest
  PROVE  /\ mutex = "free" /\ UNCHANGED << mbx, wpc >>
         /\ LET anew == SlaveOf[cycle] # actualSlave
            IN  /\ Len(conn'.sent) = (IF anew THEN 0 ELSE Len(conn.sent))
                                      + (IF conn'.up THEN 1 ELSE 0)
                /\ left'["fault"] <= left["fault"]
                /\ \/ conn'.up /\ ~conn'.gaveUp
                   \/ ~anew /\ conn'.up = conn.up /\ conn'.gaveUp = conn.gaveUp
                   \/ left'["fault"] < left["fault"]
<1>. DEFINE m == [slave |-> SlaveOf[cycle], of |-> cycle]
            anew == SlaveOf[cycle] # actualSlave
<1>1. SlaveOf[cycle] \in Slaves /\ m \in Message
  BY SlaveOfAssumption DEF IInv, TypeOK, Message
<1>2. IF anew
      THEN \E ok \in BOOLEAN :
             /\ Faults(IF ok THEN 0 ELSE 1)
             /\ conn' = Send(Connected(SlaveOf[cycle], ok), m)
      ELSE conn' = Send(conn, m) /\ UNCHANGED left
  BY DEF PollRequest
<1>3. mutex = "free" /\ UNCHANGED << mbx, wpc >>
  BY DEF PollRequest, writer
<1>4. anew \in BOOLEAN
  OBVIOUS
<1>. HIDE DEF m, anew
<1>5. /\ Len(conn'.sent) = (IF anew THEN 0 ELSE Len(conn.sent)) + (IF conn'.up THEN 1 ELSE 0)
      /\ left'["fault"] <= left["fault"]
      /\ \/ conn'.up /\ ~conn'.gaveUp
         \/ ~anew /\ conn'.up = conn.up /\ conn'.gaveUp = conn.gaveUp
         \/ left'["fault"] < left["fault"]
  BY <1>1, <1>2, <1>4, SendStep
<1>. QED
  BY <1>3, <1>5 DEF anew

LEMMA WriteSends ==
  ASSUME IInv, Write
  PROVE  /\ mutex = "free" /\ wpc = "write" /\ wpc' = "response" /\ UNCHANGED mbx
         /\ LET anew == ChangesSocket(slave)
            IN  /\ Len(conn'.sent) = (IF anew THEN 0 ELSE Len(conn.sent))
                                      + (IF conn'.up THEN 1 ELSE 0)
                /\ left'["fault"] <= left["fault"]
                /\ \/ conn'.up /\ ~conn'.gaveUp
                   \/ ~anew /\ conn'.up = conn.up /\ conn'.gaveUp = conn.gaveUp
                   \/ left'["fault"] < left["fault"]
<1>. DEFINE m == [slave |-> slave, of |-> 0]
            anew == ChangesSocket(slave)
<1>1. slave \in Slaves /\ m \in Message
  BY DEF IInv, TypeOK, Message
<1>2. IF anew
      THEN \E ok \in BOOLEAN :
             /\ Faults(IF ok THEN 0 ELSE 1)
             /\ conn' = Send(Connected(slave, ok), m)
      ELSE conn' = Send(conn, m) /\ UNCHANGED left
  BY DEF Write
<1>3. mutex = "free" /\ wpc = "write" /\ wpc' = "response" /\ UNCHANGED mbx
  BY DEF Write
<1>4. anew \in BOOLEAN
  BY DEF ChangesSocket
<1>. HIDE DEF m, anew
<1>5. /\ Len(conn'.sent) = (IF anew THEN 0 ELSE Len(conn.sent)) + (IF conn'.up THEN 1 ELSE 0)
      /\ left'["fault"] <= left["fault"]
      /\ \/ conn'.up /\ ~conn'.gaveUp
         \/ ~anew /\ conn'.up = conn.up /\ conn'.gaveUp = conn.gaveUp
         \/ left'["fault"] < left["fault"]
  BY <1>1, <1>2, <1>4, SendStep
<1>. QED
  BY <1>3, <1>5 DEF anew

(* The end of a write leaves the requests under way or drops them, and the *)
(* connection is new, or the one there was after an answer or a failure.   *)
LEMMA AfterWriteKeeps ==
  ASSUME IInv, NEW answered, NEW named, NEW c, NEW faults \in 0 .. 1,
         c.sent = conn.sent, AfterWrite(answered, named, c, faults)
  PROVE  /\ UNCHANGED mbx /\ wpc' = "read"
         /\ left'["fault"] <= left["fault"] - faults
         /\ \/ conn' = c
            \/ /\ conn'.sent = << >> /\ ~conn'.gaveUp
               /\ conn'.up \/ left'["fault"] < left["fault"] - faults
<1>1. actualSlave \in Slaves /\ left \in [{"post", "fault"} -> Nat]
  BY DEF IInv, TypeOK
<1>2. UNCHANGED mbx /\ wpc' = "read"
  BY DEF AfterWrite, AfterWritePc
<1>3. CASE ReturnsSocket(named)
  <2>1. PICK ok \in BOOLEAN : /\ Faults(faults + (IF ok THEN 0 ELSE 1))
                              /\ conn' = Connected(actualSlave, ok)
    BY <1>3 DEF AfterWrite
  <2>2. /\ left'["fault"] = left["fault"] - (faults + (IF ok THEN 0 ELSE 1))
        /\ left["fault"] \in Nat
    BY <1>1, <2>1, FaultsUsed
  <2>3. conn'.sent = << >> /\ conn'.gaveUp = FALSE /\ conn'.up = ok
    BY <1>1, <2>1, ConnectedConnection
  <2>. QED
    BY <1>2, <2>2, <2>3
<1>4. CASE ~ReturnsSocket(named)
  <2>1. conn' = c /\ Faults(faults)
    BY <1>4 DEF AfterWrite
  <2>2. left'["fault"] = left["fault"] - faults /\ left["fault"] \in Nat
    BY <1>1, <2>1, FaultsUsed
  <2>. QED
    BY <1>2, <2>1, <2>2
<1>. QED
  BY <1>3, <1>4

(* A write that is answered had nothing more under way, unless one gave up *)
(* before; one that fails cost a fault, or nothing could be under way.     *)
LEMMA WriteEnds ==
  ASSUME IInv, WriteAnswered \/ WriteFailed
  PROVE  /\ UNCHANGED mbx /\ wpc' = "read"
         /\ conn'.sent = conn.sent \/ conn'.sent = << >>
         /\ left'["fault"] <= left["fault"]
         /\ \/ conn'.up = conn.up /\ conn'.gaveUp = conn.gaveUp
            \/ conn'.up /\ ~conn'.gaveUp
            \/ left'["fault"] < left["fault"]
         /\ \/ conn'.sent = conn.sent
            \/ conn.gaveUp
            \/ left'["fault"] < left["fault"]
<1>1. /\ TypeOK /\ conn \in Connection /\ left["fault"] \in Nat
      /\ Good(conn) /\ mutex = "writer"
  BY DEF IInv, TypeOK, Good, WriteAnswered, WriteFailed
<1>2. CASE WriteAnswered
  <2>. DEFINE c == [conn EXCEPT !.answers = Tail(@)]
  <2>1. c.sent = conn.sent /\ c.up = conn.up /\ c.gaveUp = conn.gaveUp
    BY <1>1 DEF Connection
  <2>2. AfterWrite(TRUE, Head(conn.answers).slave, c, 0) /\ conn.answers # << >> /\ conn.up
    BY <1>2 DEF WriteAnswered
  <2>. HIDE DEF c
  <2>3. /\ UNCHANGED mbx /\ wpc' = "read"
        /\ left'["fault"] <= left["fault"] - 0
        /\ \/ conn' = c
           \/ /\ conn'.sent = << >> /\ ~conn'.gaveUp
              /\ conn'.up \/ left'["fault"] < left["fault"] - 0
    <3>1. 0 \in 0 .. 1
      OBVIOUS
    <3>. QED
      BY <2>1, <2>2, <3>1, AfterWriteKeeps
  <2>4. conn.gaveUp \/ conn.sent = << >>
    BY <1>1, <2>2 DEF IInv, QueueInv, Waiting, Idle
  <2>. QED
    BY <1>1, <2>1, <2>3, <2>4
<1>3. CASE WriteFailed
  <2>. DEFINE c == [conn EXCEPT !.gaveUp = @ \/ conn.up]
              faults == IF conn.up THEN 1 ELSE 0
  <2>1. c.sent = conn.sent
    BY <1>1 DEF Connection
  <2>2. c.up = conn.up /\ (~conn.up => c.gaveUp = conn.gaveUp)
    BY <1>1 DEF Connection
  <2>3. AfterWrite(FALSE, slave, c, faults)
    BY <1>3 DEF WriteFailed
  <2>4. faults \in 0 .. 1 /\ (conn.up => faults = 1)
    OBVIOUS
  <2>. HIDE DEF c, faults
  <2>5. faults \in 0 .. 1
    BY <2>4
  <2>6. /\ UNCHANGED mbx /\ wpc' = "read"
        /\ left'["fault"] <= left["fault"] - faults
        /\ \/ conn' = c
           \/ /\ conn'.sent = << >> /\ ~conn'.gaveUp
              /\ conn'.up \/ left'["fault"] < left["fault"] - faults
    BY <2>1, <2>3, <2>5, AfterWriteKeeps
  <2>7. ~conn.up => conn.sent = << >>
    BY <1>1 DEF Good, Idle
  <2>8. left'["fault"] \in Int
    BY <1>3, NextInv DEF IInv, TypeOK, Next, Writer
  <2>9. CASE conn.up
    <3>1. faults = 1
      BY <2>4, <2>9
    <3>2. left'["fault"] < left["fault"]
      BY <1>1, <2>6, <2>8, <3>1
    <3>3. conn'.sent = conn.sent \/ conn'.sent = << >>
      BY <2>1, <2>6
    <3>4. left'["fault"] <= left["fault"]
      BY <1>1, <2>8, <3>2
    <3>. QED
      BY <2>6, <3>2, <3>3, <3>4, Zenon
  <2>10. CASE ~conn.up
    BY <1>1, <2>1, <2>2, <2>4, <2>6, <2>7, <2>8, <2>10
  <2>. QED
    BY <2>9, <2>10
<1>. QED
  BY <1>2, <1>3

LEMMA HNextNext == HNext => Next
BY DEF HNext, HMain, HMailboxClear, HMailboxRead, HMailboxReadFails, HWrite, HWriteAnswered,
       HWriteFailed, HPost, HPostRefused, HPlcAnswers, Next, Main, Writer

LEMMA HNextInv == HInv /\ [HNext]_hvars => HInv'
<1>. SUFFICES ASSUME HInv, [HNext]_hvars PROVE HInv'
  OBVIOUS
<1>1. IInv'
  <2>1. [Next]_vars
    BY HNextNext DEF hvars
  <2>. QED
    BY <2>1, NextInv DEF HInv
<1>2. IInv /\ HistoryType /\ HandInv /\ conn \in Connection
  BY DEF HInv, IInv, Good
<1>3. CASE UNCHANGED hist /\ (PollSkipped \/ Store \/ Wake \/ ExitHandler \/ Stopped)
  <2>1. UNCHANGED << mbx, conn, wpc >>
    BY <1>3 DEF PollSkipped, Store, Wake, ExitHandler, Stopped, vars, writer
  <2>. QED
    BY <1>1, <1>3, <2>1, KeepsHistory
<1>10. CASE HMailboxReadFails
  <2>1. UNCHANGED << hist, mbx, conn >> /\ wpc' # "write"
    BY <1>10 DEF HMailboxReadFails, MailboxReadFails
  <2>. QED
    BY <1>1, <2>1, KeepsHistory
<1>4. CASE UNCHANGED hist /\ PollAnswered
  <2>1. UNCHANGED << mbx, wpc >> /\ conn'.sent = conn.sent
    BY <1>2, <1>4 DEF PollAnswered, writer, Connection
  <2>. QED
    BY <1>1, <1>4, <2>1, KeepsHistory
<1>5. CASE PollRequest /\ Sent(0, SlaveOf[cycle] # actualSlave)
  <2>. DEFINE anew == SlaveOf[cycle] # actualSlave
  <2>1. /\ UNCHANGED << mbx, wpc >> /\ anew \in BOOLEAN /\ 0 \in Nat /\ Sent(0, anew)
        /\ Len(conn'.sent) = (IF anew THEN 0 ELSE Len(conn.sent)) + (IF conn'.up THEN 1 ELSE 0)
    BY <1>2, <1>5, PollRequestSends
  <2>. HIDE DEF anew
  <2>. QED
    BY <1>1, <2>1, SentInv
<1>6. CASE PollFailed /\ Dropped
  <2>1. UNCHANGED << mbx, wpc >> /\ conn'.sent = << >>
    BY <1>6 DEF PollFailed, AfterFailure, Connected, writer
  <2>. QED
    BY <1>1, <1>6, <2>1, DroppedInv
<1>7. CASE HWrite
  <2>. DEFINE anew == ChangesSocket(slave)
  <2>1. /\ UNCHANGED mbx /\ wpc = "write" /\ wpc' = "response"
        /\ anew \in BOOLEAN /\ Sent(hand, anew) /\ hand \in Nat
        /\ Len(conn'.sent) = (IF anew THEN 0 ELSE Len(conn.sent)) + (IF conn'.up THEN 1 ELSE 0)
    BY <1>2, <1>7, WriteSends DEF HWrite, ChangesSocket, HistoryType
  <2>2. /\ hand < next /\ Below(exec, hand) /\ Below(wire, hand)
        /\ \A j \in DOMAIN mail : hand < mail[j]
    BY <1>2, <2>1 DEF HandInv
  <2>. HIDE DEF anew
  <2>. QED
    BY <1>1, <2>1, <2>2, SentInv
<1>8. CASE HWriteAnswered \/ HWriteFailed
  <2>1. Dropped /\ (WriteAnswered \/ WriteFailed)
    BY <1>8 DEF HWriteAnswered, HWriteFailed
  <2>2. UNCHANGED mbx /\ wpc' = "read" /\ (conn'.sent = conn.sent \/ conn'.sent = << >>)
    BY <1>2, <2>1, WriteEnds
  <2>. QED
    BY <1>1, <2>1, <2>2, DroppedInv
<1>9. CASE UNCHANGED hvars
  <2>1. UNCHANGED hist /\ UNCHANGED << mbx, conn, wpc >>
    BY <1>9 DEF hvars, vars, writer
  <2>. QED
    BY <1>1, <2>1, KeepsHistory
<1>. QED
  BY <1>1, <1>3, <1>4, <1>5, <1>6, <1>7, <1>8, <1>9, <1>10, MailboxClearOrder, MailboxReadOrder,
     PostOrder, PostRefusedOrder, PlcAnswersOrder
     DEF HNext, HMain

LEMMA HistoryInvariant == HSpec => []HInv
BY HInitInv, HNextInv, PTL DEF HSpec

(* Writes are executed at most once and in the order the OPC made them,    *)
(* for any number of slaves, cycles, writes and faults                     *)
(* (modbus_client2.cpp:172-251).                                           *)
THEOREM WritesInOrder == HSpec => []ExecutedInOrder
<1>1. HInv => ExecutedInOrder
  <2>1. HInv => /\ Rising(exec) /\ exec \in Seq(Nat \ {0})
                /\ \A j \in DOMAIN exec : exec[j] # 0
    BY LenProperties DEF HInv, OrderInv, HistoryType
  <2>. QED
    BY <2>1 DEF Rising, ExecutedInOrder
<1>. QED
  BY <1>1, HistoryInvariant, PTL

----------------------------------------------------------------------------
(* What is lost, and what may lose more, came with a fault.                *)
FaultInv ==
  /\ left["fault"] <= Limits["fault"]
  /\ lost # {} \/ conn.gaveUp \/ ~conn.up => left["fault"] < Limits["fault"]

LInv == HInv /\ FaultInv

Faulted == left["fault"] < Limits["fault"]

LEMMA KeepsFaultInv ==
  ASSUME HInv, HInv', FaultInv, left'["fault"] <= left["fault"],
         \/ conn'.up /\ ~conn'.gaveUp
         \/ conn'.up = conn.up /\ conn'.gaveUp = conn.gaveUp
         \/ left'["fault"] < left["fault"],
         lost' # lost => Faulted \/ left'["fault"] < left["fault"]
  PROVE  FaultInv'
<1>1. left["fault"] \in Nat /\ left'["fault"] \in Nat /\ Limits["fault"] \in Nat
  BY LimitsAssumption DEF HInv, IInv, TypeOK
<1>2. left'["fault"] <= Limits["fault"]
  BY <1>1 DEF FaultInv
<1>3. ASSUME Faulted \/ left'["fault"] < left["fault"] PROVE left'["fault"] < Limits["fault"]
  BY <1>1, <1>3 DEF FaultInv, Faulted
<1>4. lost # {} \/ conn.gaveUp \/ ~conn.up => Faulted
  BY DEF FaultInv, Faulted
<1>5. lost' # {} \/ conn'.gaveUp \/ ~conn'.up => Faulted \/ left'["fault"] < left["fault"]
  BY <1>4, Zenon
<1>. QED
  BY <1>2, <1>3, <1>5 DEF FaultInv

(* With nothing under way there is no write to lose.                       *)
LEMMA NothingToLose ==
  ASSUME HInv
  PROVE  conn.sent = << >> => Writes(wire) = {}
<1>. SUFFICES ASSUME conn.sent = << >> PROVE Writes(wire) = {}
  OBVIOUS
<1>1. wire \in Seq(Nat) /\ Len(wire) = 0
  BY DEF HInv, HistoryType
<1>2. wire = << >>
  BY <1>1, EmptySeq
<1>. QED
  BY <1>2, EmptyEntries DEF Writes, Range

LEMMA HNextFaultInv == LInv /\ [HNext]_hvars => LInv'
<1>. SUFFICES ASSUME LInv, [HNext]_hvars PROVE LInv'
  OBVIOUS
<1>1. HInv /\ HInv' /\ FaultInv /\ IInv /\ Good(conn) /\ conn \in Connection
      /\ left["fault"] \in Nat /\ left \in [{"post", "fault"} -> Nat]
  BY HNextInv DEF LInv, HInv, IInv, Good, TypeOK
<1>2. conn.gaveUp => Faulted
  BY <1>1 DEF FaultInv, Faulted
<1>3. mutex = "free" => conn.gaveUp \/ Writes(wire) = {}
  BY <1>1, NothingToLose DEF IInv, QueueInv, Idle
<1>4. CASE PollRequest /\ Sent(0, SlaveOf[cycle] # actualSlave)
  <2>1. lost' # lost => Writes(wire) # {}
    BY <1>4 DEF Sent
  <2>2. mutex = "free" /\ left'["fault"] <= left["fault"]
        /\ \/ conn'.up /\ ~conn'.gaveUp
           \/ conn'.up = conn.up /\ conn'.gaveUp = conn.gaveUp
           \/ left'["fault"] < left["fault"]
    BY <1>1, <1>4, PollRequestSends
  <2>3. lost' # lost => Faulted
    BY <1>2, <1>3, <2>1, <2>2
  <2>4. FaultInv'
    BY <1>1, <2>2, <2>3, KeepsFaultInv
  <2>. QED
    BY <1>1, <2>4 DEF LInv
<1>5. CASE HWrite
  <2>1. lost' # lost => Writes(wire) # {} \/ ~conn'.up
    BY <1>5 DEF HWrite, Sent
  <2>2. mutex = "free" /\ left'["fault"] <= left["fault"]
        /\ \/ conn'.up /\ ~conn'.gaveUp
           \/ conn'.up = conn.up /\ conn'.gaveUp = conn.gaveUp
           \/ left'["fault"] < left["fault"]
    BY <1>1, <1>5, WriteSends DEF HWrite
  <2>3. ~conn.up => Faulted
    BY <1>1 DEF FaultInv, Faulted
  <2>4. lost' # lost => Faulted \/ left'["fault"] < left["fault"]
    BY <1>2, <1>3, <2>1, <2>2, <2>3
  <2>5. FaultInv'
    BY <1>1, <2>2, <2>4, KeepsFaultInv
  <2>. QED
    BY <1>1, <2>5 DEF LInv
<1>6. CASE PollFailed /\ Dropped
  <2>1. PICK ok \in BOOLEAN : /\ Faults((IF conn.up THEN 1 ELSE 0) + (IF ok THEN 0 ELSE 1))
                              /\ conn' = Connected(conn.adr, ok)
    BY <1>6 DEF PollFailed, AfterFailure
  <2>2. left'["fault"] = left["fault"] - ((IF conn.up THEN 1 ELSE 0) + (IF ok THEN 0 ELSE 1))
    BY <1>1, <2>1, FaultsUsed
  <2>3. conn'.up = ok /\ conn'.gaveUp = FALSE /\ conn'.sent = << >>
    BY <2>1 DEF Connected
  <2>4. left'["fault"] <= left["fault"]
        /\ (conn.up \/ ~ok => left'["fault"] < left["fault"])
    BY <1>1, <2>2
  <2>5. lost' # lost => conn.up
    BY <1>1, <1>6, <2>3 DEF Dropped, Good, Idle
  <2>6. \/ conn'.up /\ ~conn'.gaveUp
        \/ left'["fault"] < left["fault"]
    BY <2>3, <2>4
  <2>7. lost' # lost => left'["fault"] < left["fault"]
    BY <2>4, <2>5
  <2>8. FaultInv'
    BY <1>1, <2>4, <2>6, <2>7, KeepsFaultInv
  <2>. QED
    BY <1>1, <2>8 DEF LInv
<1>7. CASE HWriteAnswered \/ HWriteFailed
  <2>1. Dropped /\ (WriteAnswered \/ WriteFailed)
    BY <1>7 DEF HWriteAnswered, HWriteFailed
  <2>2. lost' # lost => conn'.sent # conn.sent
    BY <2>1 DEF Dropped
  <2>3. /\ left'["fault"] <= left["fault"]
        /\ \/ conn'.up = conn.up /\ conn'.gaveUp = conn.gaveUp
           \/ conn'.up /\ ~conn'.gaveUp
           \/ left'["fault"] < left["fault"]
        /\ \/ conn'.sent = conn.sent
           \/ conn.gaveUp
           \/ left'["fault"] < left["fault"]
    BY <1>1, <2>1, WriteEnds
  <2>4. lost' # lost => Faulted \/ left'["fault"] < left["fault"]
    BY <1>2, <2>2, <2>3
  <2>5. FaultInv'
    BY <1>1, <2>3, <2>4, KeepsFaultInv
  <2>. QED
    BY <1>1, <2>5 DEF LInv
<1>8. CASE HPostRefused
  <2>1. UNCHANGED conn
    BY <1>8 DEF HPostRefused, PostRefused
  <2>2. left'["fault"] = left["fault"] - 1
    BY <1>1, <1>8 DEF HPostRefused, PostRefused
  <2>3. left'["fault"] < left["fault"] /\ left'["fault"] <= left["fault"]
    BY <1>1, <2>2
  <2>4. FaultInv'
    BY <1>1, <2>1, <2>3, KeepsFaultInv
  <2>. QED
    BY <1>1, <2>4 DEF LInv
<1>10. CASE HMailboxReadFails
  <2>1. UNCHANGED << conn, lost >> /\ Faults(1)
    BY <1>10 DEF HMailboxReadFails, MailboxReadFails, hist, fate
  <2>2. left'["fault"] = left["fault"] - 1
    BY <1>1, <2>1, FaultsUsed
  <2>3. left'["fault"] < left["fault"] /\ left'["fault"] <= left["fault"]
    BY <1>1, <2>2
  <2>4. FaultInv'
    BY <1>1, <2>1, <2>3, KeepsFaultInv
  <2>. QED
    BY <1>1, <2>4 DEF LInv
<1>9. CASE \/ (PollSkipped \/ PollAnswered \/ Store \/ Wake) /\ UNCHANGED hist
           \/ HMailboxClear \/ HMailboxRead \/ HPlcAnswers
           \/ \E s \in Slaves : HPost(s)
           \/ (ExitHandler \/ Stopped) /\ UNCHANGED hist
           \/ UNCHANGED hvars
  <2>1. lost' = lost
    BY <1>9 DEF HMailboxClear, HMailboxRead, HPlcAnswers, HPost, hist, fate, hvars
  <2>2. left'["fault"] = left["fault"]
    BY <1>1, <1>9 DEF PollSkipped, PollAnswered, Store, Wake, HMailboxClear, MailboxClear,
       HMailboxRead, MailboxRead, HPlcAnswers, PlcAnswers, HPost, Post, ExitHandler, Stopped,
       hvars, vars
  <2>3. conn'.up = conn.up /\ conn'.gaveUp = conn.gaveUp
    BY <1>1, <1>9 DEF PollSkipped, PollAnswered, Store, Wake, HMailboxClear, MailboxClear,
       HMailboxRead, MailboxRead, HPlcAnswers, PlcAnswers, HPost, Post, ExitHandler, Stopped,
       hvars, vars, Connection
  <2>4. left'["fault"] <= left["fault"]
    BY <1>1, <2>2
  <2>5. FaultInv'
    BY <1>1, <2>1, <2>3, <2>4, KeepsFaultInv
  <2>. QED
    BY <1>1, <2>5 DEF LInv
<1>. QED
  BY <1>4, <1>5, <1>6, <1>7, <1>8, <1>9, <1>10 DEF HNext, HMain

LEMMA HInitFaultInv == HInit => LInv
<1>. SUFFICES ASSUME HInit PROVE LInv
  OBVIOUS
<1>1. HInv
  BY HInitInv
<1>2. lost = {} /\ conn.gaveUp = FALSE
  BY DEF HInit, Init, FirstConnection, Connected
<1>3. Limits["fault"] \in Nat
  BY LimitsAssumption
<1>4. \/ left["fault"] = Limits["fault"] /\ conn.up
      \/ left["fault"] = Limits["fault"] - 1
  BY LimitsAssumption DEF HInit, Init, FirstConnection, Connected
<1>. QED
  BY <1>1, <1>2, <1>3, <1>4 DEF LInv, FaultInv

(* The threads share the socket without ever dropping a write: every one   *)
(* that is lost was refused by the mailbox, or timed out, or met a         *)
(* connection that failed (modbus_client2.cpp:222-251, 486-551).           *)
THEOREM LossesAreFaults == HSpec => []LostOnlyByFault
<1>1. LInv => LostOnlyByFault
  BY DEF LInv, FaultInv, LostOnlyByFault
<1>. QED
  BY <1>1, HInitFaultInv, HNextFaultInv, PTL DEF HSpec

----------------------------------------------------------------------------
(* The daemon implements Delivery.  Before it serves no write is on the    *)
(* connection.                                                             *)
StartInv == wpc = "start" => Writes(wire) = {}

DInv == LInv /\ StartInv

LEMMA RangeAppend ==
  ASSUME NEW S, NEW s \in Seq(S), NEW n \in S
  PROVE  Range(Append(s, n)) = Range(s) \union {n}
<1>. DEFINE t == Append(s, n)
<1>1. /\ t \in Seq(S) /\ Len(t) = Len(s) + 1 /\ t[Len(s) + 1] = n
      /\ \A i \in 1 .. Len(s) : t[i] = s[i]
  BY AppendProperties
<1>2. DOMAIN t = 1 .. Len(s) + 1 /\ DOMAIN s = 1 .. Len(s) /\ Len(s) \in Nat
  BY <1>1, LenProperties
<1>. HIDE DEF t
<1>3. Range(t) = Range(s) \union {n}
  BY <1>1, <1>2 DEF Range
<1>. QED
  BY <1>3 DEF t

LEMMA RangeTail ==
  ASSUME NEW S, NEW s \in Seq(S), s # << >>
  PROVE  Range(s) = Range(Tail(s)) \union {Head(s)}
<1>. DEFINE t == Tail(s)
<1>1. /\ t \in Seq(S) /\ Len(t) = Len(s) - 1 /\ Head(s) = s[1] /\ 1 \in DOMAIN s
      /\ \A i \in DOMAIN t : i + 1 \in DOMAIN s /\ t[i] = s[i + 1]
  BY TailEntries
<1>2. DOMAIN t = 1 .. Len(s) - 1 /\ DOMAIN s = 1 .. Len(s) /\ Len(s) \in Nat
  BY <1>1, LenProperties
<1>. HIDE DEF t
<1>3. ASSUME NEW i \in DOMAIN s, i # 1 PROVE s[i] \in Range(t)
  <2>1. i - 1 \in DOMAIN t /\ (i - 1) + 1 = i
    BY <1>2, <1>3
  <2>. QED
    BY <1>1, <2>1 DEF Range
<1>4. Range(s) = Range(t) \union {Head(s)}
  BY <1>1, <1>3 DEF Range
<1>. QED
  BY <1>4 DEF t

LEMMA RangeEmpty == Range(<< >>) = {} /\ Writes(<< >>) = {}
BY DEF Range, Writes

(* Writes fall to a fault, or each stays on its way.                       *)
LEMMA FallsOrStays ==
  ASSUME LInv, LInv', UNCHANGED << next, exec >>, wpc' = "start" <=> wpc = "start",
         left'["fault"] <= left["fault"], UnderWay' \subseteq UnderWay,
         UnderWay' # UnderWay => lost' # {}
  PROVE  [D!Next]_D!vars
<1>1. left["fault"] \in Nat /\ left'["fault"] \in Nat /\ Limits["fault"] \in Nat
  BY LimitsAssumption DEF LInv, HInv, IInv, TypeOK
<1>2. Faulty => Faulty'
  BY <1>1 DEF Faulty
<1>3. (wpc # "start")' = (wpc # "start")
  OBVIOUS
<1>4. CASE Faulty'
  <2>1. D!Fault(UnderWay')
    BY <1>3, <1>4 DEF D!Fault
  <2>. QED
    BY <2>1 DEF D!Next
<1>5. CASE ~Faulty'
  <2>1. UnderWay' = UnderWay
    BY <1>5 DEF LInv, FaultInv, Faulty
  <2>2. Faulty' = Faulty
    BY <1>2, <1>5 DEF Faulty
  <2>. QED
    BY <1>3, <2>1, <2>2 DEF D!vars
<1>. QED
  BY <1>4, <1>5

(* Sending n, which was in no place but the thread's hands.                *)
LEMMA SentWrites ==
  ASSUME HInv, NEW n \in Nat, NEW anew \in BOOLEAN, Sent(n, anew)
  PROVE  /\ UNCHANGED << next, exec, mail, hand >>
         /\ Writes(wire') \subseteq Writes(wire) \union ({n} \ {0})
         /\ lost' = {} => Writes(wire') = Writes(wire) \union ({n} \ {0})
<1>. DEFINE before == IF anew THEN << >> ELSE wire
<1>1. before \in Seq(Nat) /\ Writes(before) \subseteq Writes(wire)
      /\ (lost' = {} => Writes(before) = Writes(wire))
  <2>1. CASE anew
    <3>1. before = << >> /\ << >> \in Seq(Nat) /\ Writes(wire) \subseteq lost'
      BY <2>1 DEF Sent
    <3>. QED
      BY <3>1, RangeEmpty
  <2>2. CASE ~anew
    BY <2>2 DEF HInv, HistoryType
  <2>. QED
    BY <2>1, <2>2
<1>2. wire' = (IF conn'.up THEN Append(before, n) ELSE before)
      /\ UNCHANGED << next, exec, mail, hand >> /\ (lost' = {} /\ ~conn'.up => n = 0)
  BY DEF Sent
<1>. HIDE DEF before
<1>3. Writes(Append(before, n)) = Writes(before) \union ({n} \ {0})
  BY <1>1, RangeAppend DEF Writes
<1>. QED
  BY <1>1, <1>2, <1>3

LEMMA DroppedWrites ==
  ASSUME Dropped
  PROVE  /\ UNCHANGED << next, exec, mail, hand >> /\ Writes(wire') \subseteq Writes(wire)
         /\ lost' = {} => Writes(wire') = Writes(wire)
BY RangeEmpty DEF Dropped

LEMMA PollRequestDelivers ==
  ASSUME DInv, DInv', PollRequest, Sent(0, SlaveOf[cycle] # actualSlave)
  PROVE  [D!Next]_D!vars
<1>1. UNCHANGED << next, exec, mail, hand >> /\ Writes(wire') \subseteq Writes(wire)
      /\ (lost' = {} => Writes(wire') = Writes(wire))
  <2>. DEFINE anew == SlaveOf[cycle] # actualSlave
  <2>1. anew \in BOOLEAN /\ 0 \in Nat /\ Sent(0, anew)
    OBVIOUS
  <2>. HIDE DEF anew
  <2>. QED
    BY <2>1, SentWrites DEF DInv, LInv
<1>2. wpc' = wpc /\ left'["fault"] <= left["fault"]
  BY PollRequestSends DEF DInv, LInv, HInv
<1>3. UnderWay' \subseteq UnderWay /\ (UnderWay' # UnderWay => lost' # {})
  BY <1>1, <1>2 DEF UnderWay
<1>. QED
  BY <1>1, <1>2, <1>3, FallsOrStays DEF DInv

LEMMA WriteDelivers ==
  ASSUME DInv, DInv', HWrite
  PROVE  [D!Next]_D!vars
<1>1. hand \in Nat /\ hand # 0 /\ wpc = "write" /\ wpc' = "response"
      /\ left'["fault"] <= left["fault"]
  BY WriteSends DEF DInv, LInv, HInv, HWrite, HandInv, HistoryType
<1>2. /\ UNCHANGED << next, exec, mail, hand >>
      /\ Writes(wire') \subseteq Writes(wire) \union ({hand} \ {0})
      /\ lost' = {} => Writes(wire') = Writes(wire) \union ({hand} \ {0})
  <2>. DEFINE anew == ChangesSocket(slave)
  <2>1. anew \in BOOLEAN /\ Sent(hand, anew)
    BY DEF HWrite, ChangesSocket
  <2>. HIDE DEF anew
  <2>. QED
    BY <1>1, <2>1, SentWrites DEF DInv, LInv
<1>3. UnderWay' \subseteq UnderWay /\ (UnderWay' # UnderWay => lost' # {})
  BY <1>1, <1>2 DEF UnderWay
<1>. QED
  BY <1>1, <1>2, <1>3, FallsOrStays DEF DInv

LEMMA DroppedDelivers ==
  ASSUME DInv, DInv', Dropped, PollFailed \/ WriteAnswered \/ WriteFailed
  PROVE  [D!Next]_D!vars
<1>1. /\ UNCHANGED << next, exec, mail, hand >> /\ Writes(wire') \subseteq Writes(wire)
      /\ lost' = {} => Writes(wire') = Writes(wire)
  BY DroppedWrites
<1>2. left'["fault"] <= left["fault"]
  <2>1. CASE PollFailed
    <3>1. PICK ok \in BOOLEAN : Faults((IF conn.up THEN 1 ELSE 0) + (IF ok THEN 0 ELSE 1))
      BY <2>1 DEF PollFailed
    <3>2. left \in [{"post", "fault"} -> Nat]
      BY DEF DInv, LInv, HInv, IInv, TypeOK
    <3>4. (IF conn.up THEN 1 ELSE 0) + (IF ok THEN 0 ELSE 1) \in 0 .. 2
      OBVIOUS
    <3>3. left'["fault"] = left["fault"] - ((IF conn.up THEN 1 ELSE 0) + (IF ok THEN 0 ELSE 1))
          /\ left["fault"] \in Nat
      BY <3>1, <3>2, <3>4, FaultsUsed
    <3>. QED
      BY <3>3
  <2>2. CASE WriteAnswered \/ WriteFailed
    BY <2>2, WriteEnds DEF DInv, LInv, HInv
  <2>. QED
    BY <2>1, <2>2
<1>3. wpc' = wpc \/ (wpc = "response" /\ wpc' = "read")
  BY DEF PollFailed, WriteAnswered, WriteFailed, AfterWrite, AfterWritePc, writer
<1>4. UnderWay' \subseteq UnderWay /\ (UnderWay' # UnderWay => lost' # {})
  BY <1>1, <1>3 DEF UnderWay
<1>. QED
  BY <1>1, <1>2, <1>3, <1>4, FallsOrStays DEF DInv

LEMMA MailboxDelivers ==
  ASSUME DInv, DInv', HMailboxRead
  PROVE  [D!Next]_D!vars
<1>1. /\ mail \in Seq(Nat \ {0}) /\ Len(mail) = Len(mbx) /\ mbx \in Seq(Slaves)
      /\ mbx # << >>
  BY DEF HMailboxRead, MailboxRead, DInv, LInv, HInv, HistoryType, IInv, TypeOK
<1>2. mail # << >>
  BY <1>1
<1>3. Range(mail) = Range(Tail(mail)) \union {Head(mail)}
  BY <1>1, <1>2, RangeTail
<1>4. /\ wpc = "read" /\ wpc' = "write" /\ hand' = Head(mail) /\ mail' = Tail(mail)
      /\ UNCHANGED << next, wire, exec, lost, left >>
  BY DEF HMailboxRead, MailboxRead, fate
<1>5. UnderWay' = UnderWay
  BY <1>3, <1>4 DEF UnderWay, Writes
<1>6. left'["fault"] <= left["fault"]
  BY <1>4 DEF DInv, LInv, HInv, IInv, TypeOK
<1>. QED
  BY <1>4, <1>5, <1>6, FallsOrStays DEF DInv

(* When the writing thread ends, what is in the mailbox stays there.       *)
LEMMA ReadFailsDelivers ==
  ASSUME DInv, DInv', HMailboxReadFails
  PROVE  [D!Next]_D!vars
<1>1. /\ wpc = "read" /\ wpc' = "ended" /\ UNCHANGED << next, mail, hand, wire, exec >>
      /\ Faults(1)
  BY DEF HMailboxReadFails, MailboxReadFails, hist, fate
<1>2. UnderWay' = UnderWay
  BY <1>1 DEF UnderWay, Writes
<1>3. left \in [{"post", "fault"} -> Nat]
  BY DEF DInv, LInv, HInv, IInv, TypeOK
<1>4. left["fault"] \in Nat /\ left'["fault"] = left["fault"] - 1
  BY <1>1, <1>3, FaultsUsed
<1>5. left'["fault"] <= left["fault"]
  BY <1>4
<1>. QED
  BY <1>1, <1>2, <1>5, FallsOrStays DEF DInv

LEMMA ClearDelivers ==
  ASSUME DInv, HMailboxClear
  PROVE  [D!Next]_D!vars
<1>1. /\ wpc = "start" /\ wpc' = "read" /\ mail' = << >>
      /\ UNCHANGED << next, wire, exec, left >>
  BY DEF HMailboxClear, MailboxClear
<1>2. UnderWay' = {}
  BY <1>1, RangeEmpty DEF UnderWay, DInv, StartInv, Writes
<1>3. Faulty' = Faulty
  BY <1>1 DEF Faulty
<1>4. D!Serve
  BY <1>1, <1>2, <1>3 DEF D!Serve
<1>. QED
  BY <1>4 DEF D!Next

LEMMA PostDelivers ==
  ASSUME DInv, DInv', (\E s \in Slaves : HPost(s)) \/ HPostRefused
  PROVE  [D!Next]_D!vars
<1>1. /\ next \in Nat \ {0} /\ mail \in Seq(Nat \ {0}) /\ next' = next + 1
      /\ UNCHANGED << hand, wire, exec, wpc >>
  BY DEF HPost, HPostRefused, Post, PostRefused, fate, writer, DInv, LInv, HInv, HistoryType
<1>2. next' - 1 = next /\ next' - 1 = (next - 1) + 1
  BY <1>1
<1>3. CASE \E s \in Slaves : HPost(s)
  <2>1. mail' = Append(mail, next) /\ left'["fault"] = left["fault"]
    BY <1>3 DEF HPost, Post, DInv, LInv, HInv, IInv, TypeOK
  <2>2. Range(mail') = Range(mail) \union {next}
    BY <1>1, <2>1, RangeAppend
  <2>3. UnderWay' = UnderWay \union {next' - 1} /\ Faulty' = Faulty
    BY <1>1, <1>2, <2>1, <2>2 DEF UnderWay, Faulty, Writes
  <2>4. D!Post
    BY <1>1, <1>2, <2>3 DEF D!Post
  <2>. QED
    BY <2>4 DEF D!Next
<1>4. CASE HPostRefused
  <2>1. mail' = mail /\ next \in lost'
    BY <1>4 DEF HPostRefused
  <2>2. UnderWay' = UnderWay /\ Faulty'
    BY <1>1, <2>1 DEF UnderWay, Writes, DInv, LInv, FaultInv, Faulty
  <2>3. D!Post
    BY <1>1, <1>2, <2>2 DEF D!Post
  <2>. QED
    BY <2>3 DEF D!Next
<1>. QED
  BY <1>3, <1>4

(* What a PLC executes is the oldest write there is.                       *)
LEMMA AnswerDelivers ==
  ASSUME DInv, DInv', HPlcAnswers
  PROVE  [D!Next]_D!vars
<1>. DEFINE n == Head(wire)
<1>1. HistoryType /\ OrderInv /\ HandInv /\ conn \in Connection /\ conn.sent # << >>
  BY DEF DInv, LInv, HInv, IInv, Good, HPlcAnswers, PlcAnswers
<1>2. /\ UNCHANGED << next, mail, hand, wpc, left, lost >> /\ wire' = Tail(wire)
      /\ exec' = IF n = 0 THEN exec ELSE Append(exec, n)
  BY DEF HPlcAnswers, PlcAnswers, writer
<1>3. wire \in Seq(Nat) /\ wire # << >>
  <2>1. conn.sent \in Seq(Message)
    BY <1>1 DEF Connection
  <2>2. Len(conn.sent) # 0
    BY <1>1, <2>1, EmptySeq
  <2>. QED
    BY <1>1, <2>2 DEF HistoryType
<1>4. Range(wire) = Range(wire') \union {n}
  BY <1>2, <1>3, RangeTail
<1>5. /\ n = wire[1] /\ 1 \in DOMAIN wire /\ n \in Nat
      /\ \A i \in DOMAIN wire' :
           i \in Nat /\ i + 1 \in DOMAIN wire /\ 1 < i + 1 /\ wire'[i] = wire[i + 1]
  BY <1>2, <1>3, TailEntries
<1>. HIDE DEF n
<1>6. Faulty' = Faulty
  BY <1>2 DEF Faulty
<1>7. CASE n = 0
  <2>1. UnderWay' = UnderWay
    BY <1>2, <1>4, <1>7 DEF UnderWay, Writes
  <2>. QED
    BY <1>2, <1>6, <1>7, <2>1 DEF D!vars
<1>8. CASE n # 0
  <2>1. \A m \in Writes(wire') : n < m /\ m \in Nat
    <3>1. \A k \in DOMAIN wire : wire[k] \in Nat
      BY <1>1, LenProperties DEF HistoryType
    <3>. QED
      BY <1>1, <1>5, <3>1 DEF OrderInv, Rising, Writes, Range
  <2>2. \A m \in Range(mail) : n < m /\ m \in Nat
    <3>1. \A k \in DOMAIN mail : mail[k] \in Nat \ {0}
      BY <1>1, LenProperties DEF HistoryType
    <3>. QED
      BY <1>1, <1>5, <3>1 DEF OrderInv, Ahead, Range
  <2>3. wpc = "write" => n < hand /\ hand \in Nat
    BY <1>1, <1>5 DEF HandInv, Below, HistoryType
  <2>4. UnderWay = UnderWay' \union {n} /\ \A m \in UnderWay' : n < m /\ m \in Nat
    BY <1>2, <1>4, <1>8, <2>1, <2>2, <2>3 DEF UnderWay, Writes
  <2>5. UnderWay' = UnderWay \ {n} /\ n \in UnderWay /\ \A m \in UnderWay : n <= m
    BY <1>5, <2>4
  <2>6. wpc # "start"
    BY <1>4, <1>8 DEF DInv, StartInv, Writes
  <2>7. D!Execute(n)
    BY <1>2, <1>6, <1>8, <2>5, <2>6 DEF D!Execute
  <2>. QED
    BY <2>5, <2>7 DEF D!Next
<1>. QED
  BY <1>7, <1>8

LEMMA DInvStep == DInv /\ [HNext]_hvars => DInv'
<1>. SUFFICES ASSUME DInv, [HNext]_hvars, wpc' = "start" PROVE Writes(wire') = {}
  BY HNextFaultInv DEF DInv, StartInv
<1>1. HInv
  BY DEF DInv, LInv
<1>2. wpc = "start" /\ Writes(wire') \subseteq Writes(wire)
  <2>1. CASE PollRequest /\ Sent(0, SlaveOf[cycle] # actualSlave)
    <3>. DEFINE anew == SlaveOf[cycle] # actualSlave
    <3>1. anew \in BOOLEAN /\ 0 \in Nat /\ Sent(0, anew) /\ wpc' = wpc
      BY <2>1 DEF PollRequest, writer
    <3>. HIDE DEF anew
    <3>. QED
      BY <1>1, <3>1, SentWrites
  <2>2. CASE PollFailed /\ Dropped
    BY <2>2, DroppedWrites DEF PollFailed, writer
  <2>3. CASE HWrite \/ HWriteAnswered \/ HWriteFailed \/ HMailboxClear \/ HMailboxRead
             \/ HMailboxReadFails
    BY <2>3 DEF HWrite, Write, HWriteAnswered, WriteAnswered, HWriteFailed, WriteFailed, AfterWrite,
                AfterWritePc, HMailboxClear, MailboxClear, HMailboxRead, MailboxRead,
                HMailboxReadFails, MailboxReadFails
  <2>4. CASE HPlcAnswers
    <3>1. wire \in Seq(Nat) /\ wire # << >>
      <4>1. conn.sent \in Seq(Message) /\ conn.sent # << >> /\ Len(wire) = Len(conn.sent)
        BY <1>1, <2>4 DEF HInv, IInv, Good, Connection, HistoryType, HPlcAnswers, PlcAnswers
      <4>2. Len(conn.sent) # 0
        BY <4>1, EmptySeq
      <4>. QED
        BY <1>1, <4>1, <4>2 DEF HInv, HistoryType
    <3>2. Range(wire) = Range(Tail(wire)) \union {Head(wire)}
      BY <3>1, RangeTail
    <3>. QED
      BY <2>4, <3>2 DEF HPlcAnswers, PlcAnswers, writer, Writes
  <2>5. CASE \/ (PollSkipped \/ PollAnswered \/ Store \/ Wake) /\ UNCHANGED hist
             \/ (\E s \in Slaves : HPost(s)) \/ HPostRefused
             \/ (ExitHandler \/ Stopped) /\ UNCHANGED hist
             \/ UNCHANGED hvars
    BY <2>5 DEF PollSkipped, PollAnswered, Store, Wake, HPost, Post, HPostRefused, PostRefused,
                ExitHandler, Stopped, hist, hvars, vars, writer
  <2>. QED
    BY <2>1, <2>2, <2>3, <2>4, <2>5 DEF HNext, HMain
<1>. QED
  BY <1>2 DEF DInv, StartInv

LEMMA DeliveryInit == HInit => DInv /\ D!Init
<1>. SUFFICES ASSUME HInit PROVE DInv /\ D!Init
  OBVIOUS
<1>1. LInv
  BY HInitFaultInv
<1>2. next = 1 /\ mail = << >> /\ wire = << >> /\ exec = << >> /\ wpc = "start"
  BY DEF HInit, Init
<1>3. UnderWay = {} /\ StartInv
  BY <1>2, RangeEmpty DEF UnderWay, StartInv
<1>. QED
  BY <1>1, <1>2, <1>3 DEF DInv, D!Init, Faulty

LEMMA DeliveryStep == DInv /\ DInv' /\ [HNext]_hvars => [D!Next]_D!vars
<1>. SUFFICES ASSUME DInv, DInv', [HNext]_hvars PROVE [D!Next]_D!vars
  OBVIOUS
<1>1. CASE PollRequest /\ Sent(0, SlaveOf[cycle] # actualSlave)
  BY <1>1, PollRequestDelivers
<1>2. CASE HWrite
  BY <1>2, WriteDelivers
<1>3. CASE (PollFailed /\ Dropped) \/ HWriteAnswered \/ HWriteFailed
  BY <1>3, DroppedDelivers DEF HWriteAnswered, HWriteFailed
<1>4. CASE HMailboxRead
  BY <1>4, MailboxDelivers
<1>9. CASE HMailboxReadFails
  BY <1>9, ReadFailsDelivers
<1>5. CASE HMailboxClear
  BY <1>5, ClearDelivers
<1>6. CASE (\E s \in Slaves : HPost(s)) \/ HPostRefused
  BY <1>6, PostDelivers
<1>7. CASE HPlcAnswers
  BY <1>7, AnswerDelivers
<1>8. CASE \/ /\ PollSkipped \/ PollAnswered \/ Store \/ Wake \/ ExitHandler \/ Stopped
              /\ UNCHANGED hist
           \/ UNCHANGED hvars
  <2>1. UNCHANGED << next, mail, hand, wire, exec, wpc, left >>
    BY <1>8 DEF PollSkipped, PollAnswered, Store, Wake, ExitHandler, Stopped, hist, fate, hvars,
                vars, writer
  <2>2. UnderWay' = UnderWay /\ Faulty' = Faulty /\ (wpc # "start")' = (wpc # "start")
    BY <2>1 DEF UnderWay, Faulty, Writes
  <2>. QED
    BY <2>1, <2>2 DEF D!vars
<1>. QED
  BY <1>1, <1>2, <1>3, <1>4, <1>5, <1>6, <1>7, <1>8, <1>9 DEF HNext, HMain

(* Two threads, one socket and a mailbox are, to the OPC, a queue that     *)
(* loses nothing but to a fault, for any slaves, cycles and bounds         *)
(* (modbus_client2.cpp:172-251, 486-551).                                  *)
THEOREM DaemonDelivers == HSpec => KeepsDelivery
BY DeliveryInit, DInvStep, DeliveryStep, PTL DEF HSpec, KeepsDelivery, D!Spec
=============================================================================
