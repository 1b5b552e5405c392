---------------------- MODULE ReliableMessagingProofs ----------------------
(***************************************************************************)
(* ExchangeInv is an invariant of ReliableMessaging for conversations of   *)
(* every length, every number of retransmissions, duplicates and refused   *)
(* sends, every size of the replay window and every behaviour of the       *)
(* applications.  With it messages are handed over once and in order, and  *)
(* a message that is given up is reported.                                 *)
(*                                                                         *)
(* The handlers are functions from records to records, so the lemmas are   *)
(* relations between a record and the next that compose as the handlers    *)
(* do.  Keeps: the ownership rules hold again and nothing but acks was     *)
(* said (timers, acks, closing, release of the session).  Says: one        *)
(* message, the next of the conversation, may have been sent too.          *)
(* Handles: one message may have been handed to the application as well.   *)
(* Landing then shows, once for all actions, that a node which ends its    *)
(* step in such a record fits its peer and the packets in flight; the      *)
(* replay window enters there, through CommitRefuses.                      *)
(***************************************************************************)
EXTENDS ReliableMessaging, SequenceTheorems, TLAPS

(* The rules of NodeInv that are about the exchange context alone.         *)
Owned(x) ==
    /\ RefCountExact(x) /\ CanAnswer(x) /\ EntryIsLastSent(x)
    /\ WaitFlagExact(x) /\ TimerArmed(x)

(* p is a standalone ack that z has sent.                                  *)
IsAckOf(p, z) == p.from = z.name /\ p.ctr \in 1 .. z.lastCtr /\ p.seq = 0 /\ p.needsAck = FALSE

(* From x to z a node has sent nothing but acks: the conversation stands   *)
(* where it stood, and the entry of the table is as it was or gone.        *)
Quiet(x, z) ==
    /\ z.name = x.name /\ z.timed = x.timed /\ z.peer = x.peer /\ z.arrived = x.arrived
    /\ z.delivered = x.delivered /\ z.next = x.next /\ z.ec.alloc = x.ec.alloc
    /\ x.lastCtr <= z.lastCtr
    /\ \A k \in AppMessage : IsSent(z, k) <=> IsSent(x, k)
    /\ x.out \subseteq z.out /\ \A p \in z.out \ x.out : IsAckOf(p, z)
    /\ WaitingForAck(z) => /\ WaitingForAck(x)
                           /\ z.ec.entry.seq = x.ec.entry.seq /\ z.ec.entry.ctr = x.ec.entry.ctr

(* No message was given up.                                                *)
Unexpired(x, z) == \A k \in AppMessage : z.fate[k] = "expired" => x.fate[k] = "expired"

(* From x to z only the pending ack, the counter and the state of the      *)
(* session may have changed.                                               *)
OnlyAcks(x, z) ==
    /\ z \in NodeStates
    /\ z.ec = [x.ec EXCEPT !.ackPending = z.ec.ackPending]
    /\ z.fate = x.fate
    /\ \/ z.session = x.session
       \/ z.session = "defunct" /\ x.session = "active"
    /\ Quiet(x, z)

(* The fields of the record of a node.                                     *)
LEMMA NodeType ==
    ASSUME NEW x \in NodeStates
    PROVE  /\ x.ec \in Contexts /\ x.name \in Node /\ x.timed \in BOOLEAN /\ x.lastCtr \in Counter /\ x.peer \in PeerCounters
           /\ x.session \in {"active", "defunct", "released"} /\ x.next \in 0 .. NumMessages
           /\ x.hang \in BOOLEAN /\ x.fate \in [AppMessage -> Fates] /\ x.arrived \in SUBSET AppMessage
           /\ x.delivered \in Seq(AppMessage) /\ x.dropped \in BOOLEAN /\ x.out \in SUBSET Packet
BY DEF NodeStates

(* The fields of an exchange context.                                      *)
LEMMA ContextType ==
    ASSUME NEW c \in Contexts
    PROVE  /\ c.alloc \in BOOLEAN /\ c.refs \in 0 .. 2 /\ c.closed \in BOOLEAN /\ c.willSend \in BOOLEAN
           /\ c.respExpected \in BOOLEAN /\ c.waitRespOrAck \in BOOLEAN /\ c.timer \in BOOLEAN
           /\ c.ackPending \in BOOLEAN /\ c.ackValid \in BOOLEAN /\ c.ackCtr \in Counter
           /\ c.entry \in Entries
BY DEF Contexts

(* c and d agree on all that counts for who owns an exchange.              *)
SameUse(c, d) ==
    /\ c.alloc = d.alloc /\ c.refs = d.refs /\ c.willSend = d.willSend
    /\ c.respExpected = d.respExpected /\ c.waitRespOrAck = d.waitRespOrAck /\ c.entry = d.entry

(* SendStandaloneAckMessage sends an ack or fails to, uses up a counter    *)
(* at most, and may mark the session defunct; nothing else changes.        *)
LEMMA AckIsQuiet ==
    ASSUME NEW x \in NodeStates, NEW ok \in Outcome
    PROVE  OnlyAcks(x, SendStandaloneAckMessage(x, ok))
<1> DEFINE t == TakeAck(x)
           f == [t EXCEPT !.lastCtr = @ + 1]
           p == NextPacket(x, 0, IF x.ec.ackValid THEN x.ec.ackCtr ELSE 0)
           s == Sent(t, p)
<1>0. x.ec \in Contexts /\ x.lastCtr \in Counter /\ x.out \subseteq Packet /\ x.name \in Node
  BY NodeType
<1>e. x.ec = [x.ec EXCEPT !.ackPending = x.ec.ackPending]
  BY <1>0 DEF Contexts
<1>1. OnlyAcks(x, x)
  BY <1>0, <1>e DEF OnlyAcks, Quiet, Counter
<1>2. t \in NodeStates /\ t.ec = [x.ec EXCEPT !.ackPending = FALSE]
  BY <1>0 DEF TakeAck, NodeStates, Contexts
<1>3. /\ t.ec.ackPending = FALSE /\ t.ec.entry = x.ec.entry /\ t.ec.alloc = x.ec.alloc
      /\ t.fate = x.fate /\ t.session = x.session /\ t.name = x.name /\ t.timed = x.timed /\ t.peer = x.peer /\ t.arrived = x.arrived
      /\ t.delivered = x.delivered /\ t.next = x.next /\ t.lastCtr = x.lastCtr /\ t.out = x.out
  BY <1>0 DEF TakeAck, NodeStates, Contexts
<1>4. OnlyAcks(x, t)
  BY <1>0, <1>2, <1>3 DEF OnlyAcks, Quiet, Counter, IsSent, WaitingForAck
<1> HIDE DEF t
<1>5. ASSUME x.lastCtr # CounterRange - 1
      PROVE  x.lastCtr + 1 \in Counter /\ OnlyAcks(x, f)
  <2>1. x.lastCtr + 1 \in Counter
    BY <1>0, <1>5, WindowAssumption DEF Counter, CounterRange
  <2>2. f \in NodeStates /\ f.ec = t.ec /\ f.lastCtr = x.lastCtr + 1 /\ f.out = x.out
    BY <1>2, <1>3, <2>1 DEF NodeStates
  <2>3. /\ f.fate = x.fate /\ f.session = x.session /\ f.name = x.name /\ f.timed = x.timed /\ f.peer = x.peer
        /\ f.arrived = x.arrived /\ f.delivered = x.delivered /\ f.next = x.next
    BY <1>2, <1>3 DEF NodeStates
  <2> HIDE DEF f
  <2>4. x.lastCtr <= f.lastCtr
    BY <1>0, <2>2 DEF Counter
  <2> QED
    BY <1>2, <1>3, <2>1, <2>2, <2>3, <2>4 DEF OnlyAcks, Quiet, IsSent, WaitingForAck
<1>6. ASSUME x.lastCtr # CounterRange - 1
      PROVE  OnlyAcks(x, s)
  <2>1. x.lastCtr + 1 \in Counter
    BY <1>5, <1>6
  <2>a. (IF x.ec.ackValid THEN x.ec.ackCtr ELSE 0) \in Counter
    BY <1>0, ContextType, WindowAssumption DEF Counter, CounterRange
  <2>3. p.needsAck = FALSE /\ p.ctr = x.lastCtr + 1 /\ p.seq = 0 /\ p.from = x.name
    BY DEF NextPacket
  <2>2. p \in Packet
    BY <1>0, <2>1, <2>a, ConversationAssumption DEF Packet, NextPacket
  <2> HIDE DEF p
  <2>4. s = [t EXCEPT !.lastCtr = p.ctr, !.out = @ \cup {p}]
    BY <2>3 DEF Sent
  <2> HIDE DEF s
  <2>5. s \in NodeStates /\ s.ec = t.ec /\ s.lastCtr = x.lastCtr + 1 /\ s.out = x.out \cup {p}
    BY <1>0, <1>2, <1>3, <2>1, <2>2, <2>3, <2>4 DEF NodeStates
  <2>6. /\ s.fate = x.fate /\ s.session = x.session /\ s.name = x.name /\ s.timed = x.timed /\ s.peer = x.peer
        /\ s.arrived = x.arrived /\ s.delivered = x.delivered /\ s.next = x.next
    BY <1>2, <1>3, <2>4 DEF NodeStates
  <2>7. x.lastCtr <= s.lastCtr
    BY <1>0, <2>5 DEF Counter
  <2>8. IsAckOf(p, s)
    BY <1>0, <2>3, <2>5, <2>6 DEF IsAckOf, Counter
  <2> QED
    BY <1>2, <1>3, <2>5, <2>6, <2>7, <2>8 DEF OnlyAcks, Quiet, IsSent, WaitingForAck
<1>7. ASSUME NEW z, OnlyAcks(x, z)
      PROVE  OnlyAcks(x, MarkAsDefunct(z))
  <2> DEFINE d == MarkAsDefunct(z)
  <2>1. z \in NodeStates /\ z.session \in {"active", "defunct", "released"}
    BY <1>7, NodeType DEF OnlyAcks
  <2>2. /\ d \in NodeStates /\ d.ec = z.ec
        /\ d.session = IF z.session = "active" THEN "defunct" ELSE z.session
    BY <2>1 DEF MarkAsDefunct, NodeStates
  <2>3. /\ d.fate = z.fate /\ d.name = z.name /\ d.timed = z.timed /\ d.peer = z.peer /\ d.out = z.out
        /\ d.arrived = z.arrived /\ d.delivered = z.delivered /\ d.next = z.next /\ d.lastCtr = z.lastCtr
    BY <2>1 DEF MarkAsDefunct, NodeStates
  <2> HIDE DEF d
  <2>4. Quiet(x, d)
    BY <1>7, <2>2, <2>3 DEF OnlyAcks, Quiet, IsSent, WaitingForAck, IsAckOf
  <2>5. d.session = x.session \/ (d.session = "defunct" /\ x.session = "active")
    BY <1>7, <2>2 DEF OnlyAcks
  <2>6. OnlyAcks(x, d)
    BY <1>7, <2>2, <2>3, <2>4, <2>5 DEF OnlyAcks
  <2> QED
    BY <2>6 DEF d
<1>8. Dispatch(x, 0, ok) \in {t, f, s} /\ (Dispatch(x, 0, ok) # t => x.lastCtr # CounterRange - 1)
  BY DEF Dispatch, CannotPrepare, t
<1>9. OnlyAcks(x, Dispatch(x, 0, ok))
  BY <1>4, <1>5, <1>6, <1>8
<1> HIDE DEF f, s, p
<1> QED
  BY <1>1, <1>7, <1>9 DEF SendStandaloneAckMessage

(* FlushAcks, likewise.                                                    *)
LEMMA FlushIsQuiet ==
    ASSUME NEW x \in NodeStates, NEW ok \in Outcome
    PROVE  OnlyAcks(x, FlushAcks(x, ok))
<1>0. x.ec \in Contexts /\ x.lastCtr \in Counter
  BY NodeType
<1>1. x.ec = [x.ec EXCEPT !.ackPending = x.ec.ackPending]
  BY <1>0 DEF Contexts
<1>2. OnlyAcks(x, x)
  BY <1>0, <1>1 DEF OnlyAcks, Quiet, Counter
<1> QED
  BY <1>2, AckIsQuiet DEF FlushAcks

(* z is sound, and comes from x without a word said.                       *)
Keeps(x, z) == z \in NodeStates /\ Owned(z) /\ Quiet(x, z) /\ Unexpired(x, z)

(* Saying nothing twice is saying nothing.                                 *)
LEMMA QuietTransitive ==
    ASSUME NEW x \in NodeStates, NEW y \in NodeStates, NEW z \in NodeStates,
           Quiet(x, y), Quiet(y, z)
    PROVE  Quiet(x, z)
<1>1. x.lastCtr \in Int /\ y.lastCtr \in Int /\ z.lastCtr \in Int
  BY NodeType DEF Counter
<1>2. ASSUME NEW p \in z.out \ x.out PROVE IsAckOf(p, z)
  BY <1>1, <1>2 DEF Quiet, IsAckOf
<1> QED
  BY <1>1, <1>2 DEF Quiet

(* Handlers that keep the ownership rules compose.                         *)
LEMMA KeepsTransitive ==
    ASSUME NEW x \in NodeStates, NEW y, NEW z, Keeps(x, y), Keeps(y, z)
    PROVE  Keeps(x, z)
BY QuietTransitive DEF Keeps, Unexpired

(* Sending acks disturbs no owner.                                         *)
LEMMA OnlyAcksKeeps ==
    ASSUME NEW x \in NodeStates, Owned(x), x.ec.alloc, NEW z, OnlyAcks(x, z)
    PROVE  Keeps(x, z)
<1> DEFINE b == z.ec.ackPending
<1>1. x.ec \in Contexts /\ z.ec \in Contexts /\ z.ec = [x.ec EXCEPT !.ackPending = b] /\ b \in BOOLEAN
  BY NodeType, ContextType DEF OnlyAcks
<1> HIDE DEF b
<1>2. /\ z.ec.alloc = x.ec.alloc /\ z.ec.refs = x.ec.refs /\ z.ec.closed = x.ec.closed
      /\ z.ec.willSend = x.ec.willSend /\ z.ec.respExpected = x.ec.respExpected
      /\ z.ec.waitRespOrAck = x.ec.waitRespOrAck /\ z.ec.timer = x.ec.timer
      /\ z.ec.entry = x.ec.entry
  BY <1>1 DEF Contexts
<1>3. z \in NodeStates /\ Quiet(x, z) /\ z.fate = x.fate
  BY DEF OnlyAcks
<1>4. x.lastCtr \in Int /\ z.lastCtr \in Int /\ x.lastCtr <= z.lastCtr
  BY <1>3, NodeType DEF Counter, Quiet
<1>5. RefCountExact(z)
  BY <1>2 DEF RefCountExact, WaitingForAck, Owned
<1>6. CanAnswer(z)
  BY <1>2, <1>3 DEF CanAnswer, NeverSent, WaitingForAck, HasSession, Owned, OnlyAcks, Quiet
<1>7. EntryIsLastSent(z)
  BY <1>2, <1>3, <1>4 DEF EntryIsLastSent, IsLastSent, IsSent, WaitingForAck, Owned
<1>8. WaitFlagExact(z) /\ TimerArmed(z)
  BY <1>2, <1>3 DEF WaitFlagExact, NeverSent, TimerArmed, IsLastSent, IsSent, WaitingForAck, Owned, Quiet
<1>9. Unexpired(x, z)
  BY <1>3 DEF Unexpired
<1> QED
  BY <1>3, <1>5, <1>6, <1>7, <1>8, <1>9 DEF Keeps, Owned

(* Taking an entry out of the table gives its reference back.  The message *)
(* was not acked.                                                          *)
LEMMA RemoveEntryKeeps ==
    ASSUME NEW x \in NodeStates, Owned(x), WaitingForAck(x), NEW f \in {"cleared", "refused", "expired"}
    PROVE  LET z == RemoveEntry(x, f)
           IN  /\ z \in NodeStates /\ Owned(z) /\ Quiet(x, z)
               /\ f # "expired" => Unexpired(x, z)
               /\ z.ec = [x.ec EXCEPT !.entry = NoEntry, !.refs = x.ec.refs - 1]
               /\ z.session = x.session /\ z.hang = x.hang /\ z.lastCtr = x.lastCtr
<1> DEFINE z == RemoveEntry(x, f)
           k == x.ec.entry.seq
<1>1. x.ec \in Contexts /\ x.fate \in [AppMessage -> Fates] /\ f \in Fates
  BY NodeType DEF Fates
<1>2. /\ k \in AppMessage /\ IsLastSent(x, k) /\ x.fate[k] = "waiting"
  BY DEF Owned, EntryIsLastSent, IsLastSent
<1>3. x.ec.alloc /\ x.ec.refs \in 1 .. 2
  <2>1. x.ec # NoExchange
    BY DEF NoExchange, WaitingForAck
  <2> QED
    BY <1>1, <2>1, ContextType DEF Owned, RefCountExact
<1>4. /\ z.ec = [x.ec EXCEPT !.entry = NoEntry, !.refs = x.ec.refs - 1]
      /\ z.fate = [x.fate EXCEPT ![k] = f]
  BY DEF RemoveEntry, NodeStates, Contexts
<1>5. /\ z.session = x.session /\ z.hang = x.hang /\ z.lastCtr = x.lastCtr /\ z.name = x.name /\ z.timed = x.timed
      /\ z.peer = x.peer /\ z.arrived = x.arrived /\ z.delivered = x.delivered /\ z.next = x.next
      /\ z.out = x.out
  BY DEF RemoveEntry, NodeStates
<1>6. NoEntry \in Entries
  BY ConversationAssumption, WindowAssumption DEF NoEntry, Entries, Counter, CounterRange
<1>7. z.ec \in Contexts
  <2>1. x.ec.refs - 1 \in 0 .. 2
    BY <1>3
  <2> HIDE DEF z
  <2> QED
    BY <1>1, <2>1, <1>4, <1>6 DEF Contexts
<1>8. z.fate \in [AppMessage -> Fates]
  BY <1>1, <1>4
<1>9. z \in NodeStates
  BY <1>4, <1>7, <1>8 DEF RemoveEntry, NodeStates
<1> HIDE DEF z
<1>10. /\ z.ec.alloc = x.ec.alloc /\ z.ec.refs = x.ec.refs - 1 /\ z.ec.closed = x.ec.closed
       /\ z.ec.willSend = x.ec.willSend /\ z.ec.respExpected = x.ec.respExpected
       /\ z.ec.waitRespOrAck = x.ec.waitRespOrAck /\ z.ec.entry = NoEntry
  BY <1>1, <1>4 DEF Contexts
<1>11. \A j \in AppMessage :
          /\ IsSent(z, j) <=> IsSent(x, j)
          /\ z.fate[j] = "acked" <=> x.fate[j] = "acked"
          /\ (f # "expired" /\ z.fate[j] = "expired") => x.fate[j] = "expired"
  BY <1>1, <1>2, <1>4 DEF IsSent
<1>12. ~WaitingForAck(z)
  BY <1>10 DEF WaitingForAck
<1>13. Quiet(x, z)
  BY <1>5, <1>10, <1>11, <1>12, NodeType DEF Quiet, Counter
<1>14. RefCountExact(z)
  BY <1>3, <1>10, <1>12 DEF RefCountExact, Owned
<1>15. CanAnswer(z)
  BY <1>5, <1>10, <1>12 DEF CanAnswer, NeverSent, HasSession, Owned
<1>16. WaitFlagExact(z)
  BY <1>10, <1>11 DEF WaitFlagExact, NeverSent, IsLastSent, Owned
<1>17. EntryIsLastSent(z) /\ TimerArmed(z)
  BY <1>12 DEF EntryIsLastSent, TimerArmed
<1>18. f # "expired" => Unexpired(x, z)
  BY <1>11 DEF Unexpired
<1> QED
  BY <1>4, <1>5, <1>9, <1>13, <1>14, <1>15, <1>16, <1>17, <1>18 DEF Owned, z

(* Close and Abort: the exchange layer gives up its reference.             *)
LEMMA CloseKeeps ==
    ASSUME NEW x \in NodeStates, Owned(x), x.ec.alloc, ~x.ec.closed, ~x.ec.willSend,
           NEW clear \in BOOLEAN, NEW ok \in Outcome,
           clear \/ ~x.ec.respExpected \/ "Close" \in AppCloses
    PROVE  Keeps(x, Release(DoClose(x, clear, ok)))
<1> DEFINE c == [x EXCEPT !.ec.closed = TRUE]
           f == FlushAcks(c, ok)
           z == [f EXCEPT !.ec.closed = FALSE]
           r == IF clear THEN ClearRetransTable(z) ELSE z
           g == IF clear THEN ClearRetransTable(f) ELSE f
           y == Release(DoClose(x, clear, ok))
<1>1. x.ec \in Contexts
  BY NodeType
<1>2. c \in NodeStates /\ c.ec = [x.ec EXCEPT !.closed = TRUE]
  BY <1>1 DEF NodeStates, Contexts
<1>3. /\ c.fate = x.fate /\ c.session = x.session /\ c.name = x.name /\ c.timed = x.timed /\ c.peer = x.peer /\ c.arrived = x.arrived
      /\ c.delivered = x.delivered /\ c.next = x.next /\ c.lastCtr = x.lastCtr /\ c.out = x.out
  BY <1>1 DEF NodeStates, Contexts
<1> HIDE DEF c
<1>4. OnlyAcks(c, f)
  BY <1>2, FlushIsQuiet
<1> HIDE DEF f
<1>5. f \in NodeStates /\ f.ec \in Contexts /\ f.ec.ackPending \in BOOLEAN
  BY <1>4, NodeType, ContextType DEF OnlyAcks
<1>6. z \in NodeStates /\ z.ec = [f.ec EXCEPT !.closed = FALSE]
  BY <1>5 DEF NodeStates, Contexts
<1>7. /\ z.fate = f.fate /\ z.session = f.session /\ z.name = f.name /\ z.timed = f.timed /\ z.peer = f.peer /\ z.arrived = f.arrived
      /\ z.delivered = f.delivered /\ z.next = f.next /\ z.lastCtr = f.lastCtr /\ z.out = f.out
  BY <1>5 DEF NodeStates, Contexts
<1> HIDE DEF z
<1>8. z.ec = [x.ec EXCEPT !.ackPending = z.ec.ackPending]
  <2>1. f.ec = [c.ec EXCEPT !.ackPending = f.ec.ackPending]
    BY <1>4 DEF OnlyAcks
  <2>2. z.ec.ackPending = f.ec.ackPending /\ z.ec.closed = FALSE
    BY <1>5, <1>6 DEF Contexts
  <2>3. z.ec \in Contexts
    BY <1>6, NodeType
  <2> QED
    BY <1>1, <1>2, <1>6, <2>1, <2>2 DEF Contexts
<1>9. Keeps(x, z)
  <2>1. z.session = x.session \/ (z.session = "defunct" /\ x.session = "active")
    BY <1>3, <1>4, <1>7 DEF OnlyAcks
  <2>2. z.ec.alloc = x.ec.alloc /\ z.ec.entry = x.ec.entry
    BY <1>1, <1>8 DEF Contexts
  <2>3. Quiet(x, z)
    BY <1>3, <1>4, <1>7, <2>2 DEF OnlyAcks, Quiet, IsSent, IsAckOf, WaitingForAck
  <2>4. OnlyAcks(x, z)
    BY <1>3, <1>4, <1>6, <1>7, <1>8, <2>1, <2>3 DEF OnlyAcks
  <2> QED
    BY <2>4, OnlyAcksKeeps
<1>10. /\ z.ec \in Contexts /\ z.ec.closed = FALSE /\ z.ec.willSend = FALSE /\ z.ec.alloc
       /\ z.ec.respExpected = x.ec.respExpected /\ f.ec.entry = z.ec.entry /\ f.ec.closed = TRUE
       /\ f.ec = [z.ec EXCEPT !.closed = TRUE]
  <2>1. f.ec.closed = TRUE
    <3>1. c.ec.closed = TRUE /\ c.ec \in Contexts
      BY <1>1, <1>2 DEF Contexts
    <3>2. f.ec = [c.ec EXCEPT !.ackPending = f.ec.ackPending]
      BY <1>4 DEF OnlyAcks
    <3> QED
      BY <1>5, <3>1, <3>2 DEF Contexts
  <2>2. f.ec = [z.ec EXCEPT !.closed = TRUE]
    BY <1>5, <1>6, <2>1 DEF Contexts
  <2>3. z.ec \in Contexts /\ z.ec.closed = FALSE /\ f.ec.entry = z.ec.entry
    BY <1>5, <1>6 DEF Contexts
  <2>4. z.ec.willSend = x.ec.willSend /\ z.ec.alloc = x.ec.alloc /\ z.ec.respExpected = x.ec.respExpected
    BY <1>1, <1>8 DEF Contexts
  <2>5. x.ec.willSend = FALSE
    BY <1>1, ContextType
  <2> QED
    BY <2>1, <2>2, <2>3, <2>4, <2>5
<1>11. /\ Keeps(z, r) /\ r.session = z.session
       /\ r.ec = IF clear /\ WaitingForAck(z) THEN [z.ec EXCEPT !.entry = NoEntry, !.refs = z.ec.refs - 1] ELSE z.ec
  <2>1. CASE clear /\ WaitingForAck(z)
    BY <1>6, <1>9, <2>1, RemoveEntryKeeps DEF Keeps, ClearRetransTable
  <2>2. CASE ~(clear /\ WaitingForAck(z))
    <3>1. r = z
      BY <2>2 DEF ClearRetransTable
    <3>2. Quiet(z, z)
      BY <1>6, NodeType DEF Quiet, Counter
    <3> QED
      BY <1>9, <2>2, <3>1, <3>2 DEF Keeps, Unexpired
  <2> QED
    BY <2>1, <2>2
<1>12. /\ g \in NodeStates /\ g.ec \in Contexts /\ SameUse(g.ec, r.ec) /\ g.ec.closed = TRUE
       /\ g.fate = r.fate /\ g.session = r.session /\ g.name = r.name /\ g.timed = r.timed /\ g.peer = r.peer
       /\ g.arrived = r.arrived /\ g.delivered = r.delivered /\ g.next = r.next
       /\ g.lastCtr = r.lastCtr /\ g.out = r.out
  <2>0. r \in NodeStates /\ r.ec \in Contexts
    BY <1>11, NodeType DEF Keeps
  <2>1. CASE clear /\ WaitingForAck(z)
    <3>1. g = RemoveEntry(f, "cleared") /\ r = RemoveEntry(z, "cleared")
      BY <1>10, <2>1 DEF ClearRetransTable, WaitingForAck
    <3>2. /\ g.fate = [f.fate EXCEPT ![f.ec.entry.seq] = "cleared"]
          /\ g.ec = [f.ec EXCEPT !.entry = NoEntry, !.refs = f.ec.refs - 1]
          /\ g.session = f.session /\ g.name = f.name /\ g.timed = f.timed /\ g.peer = f.peer
          /\ g.arrived = f.arrived /\ g.delivered = f.delivered /\ g.next = f.next
          /\ g.lastCtr = f.lastCtr /\ g.out = f.out
      BY <1>5, <3>1 DEF RemoveEntry, NodeStates, Contexts
    <3>3. /\ r.fate = [z.fate EXCEPT ![z.ec.entry.seq] = "cleared"]
          /\ r.session = z.session /\ r.name = z.name /\ r.timed = z.timed /\ r.peer = z.peer
          /\ r.arrived = z.arrived /\ r.delivered = z.delivered /\ r.next = z.next
          /\ r.lastCtr = z.lastCtr /\ r.out = z.out
      BY <1>6, <3>1 DEF RemoveEntry, NodeStates, Contexts
    <3>4. r.ec = [z.ec EXCEPT !.entry = NoEntry, !.refs = z.ec.refs - 1]
      BY <1>11, <2>1
    <3> HIDE DEF g, r
    <3>5. f.ec.refs = z.ec.refs
      BY <1>10 DEF Contexts
    <3>6. SameUse(g.ec, r.ec) /\ g.ec.closed = TRUE
      BY <1>5, <1>10, <3>2, <3>4, <3>5 DEF Contexts, SameUse
    <3>a. r.ec.refs = f.ec.refs - 1 /\ r.ec.entry = NoEntry
      BY <1>10, <3>4, <3>5 DEF Contexts
    <3>7. g.ec \in Contexts
      <4>1. f.ec.refs - 1 \in 0 .. 2 /\ NoEntry \in Entries
        BY <2>0, <3>a, ContextType
      <4> QED
        BY <1>5, <3>2, <4>1 DEF Contexts
    <3>8. /\ g.fate = r.fate /\ g.session = r.session /\ g.name = r.name /\ g.timed = r.timed /\ g.peer = r.peer
          /\ g.arrived = r.arrived /\ g.delivered = r.delivered /\ g.next = r.next
          /\ g.lastCtr = r.lastCtr /\ g.out = r.out
      BY <1>7, <1>10, <3>2, <3>3
    <3>9. r.fate \in [AppMessage -> Fates]
      BY <2>0, NodeType
    <3>10. g \in NodeStates
      BY <1>5, <3>1, <3>7, <3>8, <3>9 DEF RemoveEntry, NodeStates
    <3> QED
      BY <3>6, <3>7, <3>8, <3>10
  <2>2. CASE ~(clear /\ WaitingForAck(z))
    <3>1. g = f /\ r = z
      BY <1>10, <2>2 DEF ClearRetransTable, WaitingForAck
    <3>2. SameUse(f.ec, z.ec)
      BY <1>10 DEF SameUse, Contexts
    <3> QED
      BY <1>5, <1>7, <1>10, <3>1, <3>2
  <2> QED
    BY <2>1, <2>2
<1> HIDE DEF g, r
<1>13. y = [[g EXCEPT !.ec.timer = FALSE] EXCEPT !.ec.refs = @ - 1]
  BY DEF DoClose, Release, f, g, c
<1>14. r \in NodeStates /\ r.ec \in Contexts /\ r.lastCtr \in Int /\ Owned(r)
  BY <1>11, NodeType DEF Keeps, Counter
<1>15. /\ r.ec.closed = FALSE /\ r.ec.willSend = FALSE /\ r.ec.alloc
       /\ r.ec.respExpected = x.ec.respExpected /\ (clear => ~WaitingForAck(r))
  BY <1>10, <1>11 DEF Contexts, WaitingForAck
<1>16. r.ec.refs = (IF WaitingForAck(r) THEN 1 ELSE 0) + 1
  BY <1>14, <1>15 DEF Owned, RefCountExact
<1>17. y.ec = [g.ec EXCEPT !.timer = FALSE, !.refs = g.ec.refs - 1]
  BY <1>12, <1>13 DEF NodeStates, Contexts
<1>18. y.ec \in Contexts
  <2>1. g.ec.refs - 1 \in 0 .. 2
    BY <1>12, <1>16 DEF SameUse
  <2> HIDE DEF y
  <2> QED
    BY <1>12, <1>17, <2>1 DEF Contexts
<1>19. /\ y.fate = r.fate /\ y.session = r.session /\ y.name = r.name /\ y.timed = r.timed /\ y.peer = r.peer
       /\ y.arrived = r.arrived /\ y.delivered = r.delivered /\ y.next = r.next
       /\ y.lastCtr = r.lastCtr /\ y.out = r.out
  BY <1>12, <1>13 DEF NodeStates
<1>20. y \in NodeStates
  BY <1>12, <1>13, <1>18 DEF NodeStates
<1> HIDE DEF y
<1>21. /\ y.ec.alloc /\ y.ec.closed = TRUE /\ y.ec.willSend = FALSE /\ y.ec.refs = r.ec.refs - 1
       /\ y.ec.respExpected = r.ec.respExpected /\ y.ec.waitRespOrAck = r.ec.waitRespOrAck
       /\ y.ec.entry = r.ec.entry
  <2>1. /\ y.ec.alloc = g.ec.alloc /\ y.ec.closed = g.ec.closed /\ y.ec.willSend = g.ec.willSend
        /\ y.ec.refs = g.ec.refs - 1 /\ y.ec.respExpected = g.ec.respExpected
        /\ y.ec.waitRespOrAck = g.ec.waitRespOrAck /\ y.ec.entry = g.ec.entry
    BY <1>12, <1>17 DEF Contexts
  <2> QED
    BY <1>12, <1>15, <2>1 DEF SameUse
<1>22. RefCountExact(y)
  BY <1>14, <1>16, <1>21 DEF RefCountExact, WaitingForAck
<1>23. EntryIsLastSent(y) /\ WaitFlagExact(y)
  BY <1>14, <1>19, <1>21 DEF Owned, EntryIsLastSent, WaitFlagExact, NeverSent, IsLastSent, IsSent, WaitingForAck
<1>24. CanAnswer(y) /\ TimerArmed(y)
  BY <1>15, <1>21 DEF CanAnswer, NeverSent, TimerArmed, WaitingForAck
<1>25. Quiet(r, y)
  BY <1>14, <1>15, <1>19, <1>21 DEF Quiet, IsSent, WaitingForAck
<1>26. Keeps(r, y)
  BY <1>19, <1>20, <1>22, <1>23, <1>24, <1>25 DEF Keeps, Owned, Unexpired
<1>27. Keeps(x, y)
  BY <1>6, <1>9, <1>11, <1>14, <1>26, KeepsTransitive
<1> QED
  BY <1>27 DEF y

(* A handler that returns early keeps them.                                *)
LEMMA KeepsReflexive ==
    ASSUME NEW x \in NodeStates, Owned(x)
    PROVE  Keeps(x, x)
<1>1. Quiet(x, x)
  BY NodeType DEF Quiet, Counter
<1> QED
  BY <1>1 DEF Keeps, Unexpired

(* ExchangeContext::MessageHandled closes the exchange only when nobody    *)
(* needs it any more.                                                      *)
LEMMA MessageHandledKeeps ==
    ASSUME NEW x \in NodeStates, Owned(x), x.ec.alloc, NEW ok \in Outcome
    PROVE  Keeps(x, MessageHandled(x, ok))
<1>1. CASE x.ec.closed \/ x.ec.respExpected \/ x.ec.willSend
  BY <1>1, KeepsReflexive DEF MessageHandled
<1>2. CASE ~(x.ec.closed \/ x.ec.respExpected \/ x.ec.willSend)
  <2>1. Keeps(x, Release(DoClose(x, FALSE, ok)))
    BY <1>2, CloseKeeps
  <2> QED
    BY <1>2, <2>1 DEF MessageHandled, Close
<1> QED
  BY <1>1, <1>2

(* x and z differ in their contexts at most.                               *)
SameRest(x, z) ==
    /\ z.fate = x.fate /\ z.session = x.session /\ z.name = x.name /\ z.timed = x.timed /\ z.peer = x.peer
    /\ z.arrived = x.arrived /\ z.delivered = x.delivered /\ z.next = x.next
    /\ z.lastCtr = x.lastCtr /\ z.out = x.out

(* A node whose context alone has changed has said nothing.                *)
LEMMA SameRestQuiet ==
    ASSUME NEW x \in NodeStates, NEW z, SameRest(x, z),
           z.ec.alloc = x.ec.alloc, z.ec.entry = x.ec.entry
    PROVE  Quiet(x, z)
BY NodeType DEF SameRest, Quiet, IsSent, WaitingForAck, Counter

(* The ack fields of a context belong to no owner.                         *)
LEMMA AckFieldsKeep ==
    ASSUME NEW x \in NodeStates, NEW z \in NodeStates, Owned(x), x.ec.alloc,
           SameUse(z.ec, x.ec), z.ec.closed = x.ec.closed, z.ec.timer = x.ec.timer, SameRest(x, z)
    PROVE  Keeps(x, z)
<1>1. x.lastCtr \in Int
  BY NodeType DEF Counter
<1>2. Quiet(x, z)
  BY <1>1 DEF SameRest, SameUse, Quiet, IsSent, WaitingForAck
<1>3. RefCountExact(z) /\ CanAnswer(z) /\ TimerArmed(z)
  BY DEF SameRest, SameUse, Owned, RefCountExact, CanAnswer, NeverSent, TimerArmed, WaitingForAck, HasSession
<1>4. EntryIsLastSent(z) /\ WaitFlagExact(z)
  BY DEF SameRest, SameUse, Owned, EntryIsLastSent, WaitFlagExact, NeverSent, IsLastSent, IsSent, WaitingForAck
<1> QED
  BY <1>2, <1>3, <1>4 DEF Keeps, Owned, Unexpired, SameRest

(* SetPendingPeerAckMessageCounter changes the ack fields only.            *)
LEMMA SetPendingAckKeeps ==
    ASSUME NEW x \in NodeStates, Owned(x), x.ec.alloc, NEW ctr \in Counter
    PROVE  Keeps(x, SetPendingAck(x, ctr))
<1> DEFINE z == SetPendingAck(x, ctr)
<1>1. x.ec \in Contexts
  BY NodeType
<1>2. z.ec = [x.ec EXCEPT !.ackCtr = ctr, !.ackPending = TRUE, !.ackValid = TRUE]
  BY <1>1 DEF SetPendingAck, NodeStates, Contexts
<1>3. z \in NodeStates /\ SameRest(x, z)
  BY <1>1, <1>2 DEF SetPendingAck, NodeStates, Contexts, SameRest
<1> HIDE DEF z
<1>4. SameUse(z.ec, x.ec) /\ z.ec.closed = x.ec.closed /\ z.ec.timer = x.ec.timer
  <2>1. /\ z.ec.alloc = x.ec.alloc /\ z.ec.refs = x.ec.refs /\ z.ec.willSend = x.ec.willSend
        /\ z.ec.closed = x.ec.closed /\ z.ec.timer = x.ec.timer
    BY <1>1, <1>2, ZenonT(30) DEF Contexts
  <2>2. /\ z.ec.respExpected = x.ec.respExpected /\ z.ec.waitRespOrAck = x.ec.waitRespOrAck
        /\ z.ec.entry = x.ec.entry
    BY <1>1, <1>2 DEF Contexts
  <2> QED
    BY <2>1, <2>2 DEF SameUse
<1>5. Keeps(x, z)
  BY <1>3, <1>4, AckFieldsKeep
<1> QED
  BY <1>5 DEF z

(* A standalone ack leaves the owners of its exchange alone.               *)
LEMMA SendAckKeeps ==
    ASSUME NEW x \in NodeStates, Owned(x), x.ec.alloc, NEW ok \in Outcome
    PROVE  Keeps(x, SendStandaloneAckMessage(x, ok)) /\ Keeps(x, FlushAcks(x, ok))
BY AckIsQuiet, FlushIsQuiet, OnlyAcksKeeps

(* ReliableMessageContext::HandleNeedsAck, for a duplicate and for a new   *)
(* message, with an ack owed before or not.                                *)
LEMMA HandleNeedsAckKeeps ==
    ASSUME NEW x \in NodeStates, Owned(x), x.ec.alloc, NEW ctr \in Counter,
           NEW dup \in BOOLEAN, NEW ok \in Outcome
    PROVE  Keeps(x, HandleNeedsAck(x, ctr, dup, ok))
<1>0. x.ec.ackCtr \in Counter
  BY NodeType, ContextType
<1>1. ASSUME NEW y, Keeps(x, y), NEW c \in Counter
      PROVE  Keeps(x, SetPendingAck(y, c)) /\ Keeps(x, [y EXCEPT !.ec.ackCtr = c])
  <2>1. y \in NodeStates /\ Owned(y) /\ y.ec.alloc /\ y.ec \in Contexts
    BY <1>1, NodeType DEF Keeps, Quiet
  <2>2. Keeps(x, SetPendingAck(y, c))
    BY <1>1, <2>1, SetPendingAckKeeps, KeepsTransitive
  <2> DEFINE z == [y EXCEPT !.ec.ackCtr = c]
  <2>3. z.ec = [y.ec EXCEPT !.ackCtr = c] /\ z \in NodeStates /\ SameRest(y, z)
    BY <2>1 DEF NodeStates, Contexts, SameRest
  <2> HIDE DEF z
  <2>4. SameUse(z.ec, y.ec) /\ z.ec.closed = y.ec.closed /\ z.ec.timer = y.ec.timer
    BY <2>1, <2>3 DEF Contexts, SameUse
  <2>5. Keeps(x, z)
    BY <1>1, <2>1, <2>3, <2>4, AckFieldsKeep, KeepsTransitive
  <2> QED
    BY <2>2, <2>5 DEF z
<1>2. ASSUME NEW y, Keeps(x, y)
      PROVE  Keeps(x, SendStandaloneAckMessage(y, ok))
  <2>1. y \in NodeStates /\ Owned(y) /\ y.ec.alloc
    BY <1>2 DEF Keeps, Quiet
  <2> QED
    BY <1>2, <2>1, SendAckKeeps, KeepsTransitive
<1>3. Keeps(x, x)
  BY KeepsReflexive
<1>4. CASE dup
  BY <1>0, <1>1, <1>2, <1>3, <1>4 DEF HandleNeedsAck
<1>5. CASE ~dup
  BY <1>1, <1>2, <1>3, <1>5 DEF HandleNeedsAck
<1> QED
  BY <1>4, <1>5

(* An ack takes its message out of the table and is remembered.            *)
LEMMA HandleRcvdAckKeeps ==
    ASSUME NEW x \in NodeStates, Owned(x), NEW ack
    PROVE  Keeps(x, HandleRcvdAck(x, ack))
<1> SUFFICES ASSUME WaitingForAck(x), x.ec.entry.ctr = ack
             PROVE  Keeps(x, [RemoveEntry(x, "acked") EXCEPT !.ec.waitRespOrAck = FALSE])
  BY KeepsReflexive DEF HandleRcvdAck
<1> DEFINE z == [RemoveEntry(x, "acked") EXCEPT !.ec.waitRespOrAck = FALSE]
           k == x.ec.entry.seq
<1>1. x.ec \in Contexts /\ x.fate \in [AppMessage -> Fates] /\ "acked" \in Fates /\ x.lastCtr \in Int
  BY NodeType DEF Fates, Counter
<1>2. k \in AppMessage /\ IsLastSent(x, k)
  BY DEF Owned, EntryIsLastSent, IsLastSent
<1>3. x.ec.alloc /\ x.ec.refs \in 1 .. 2
  <2>1. x.ec # NoExchange
    BY DEF NoExchange, WaitingForAck
  <2> QED
    BY <1>1, <2>1, ContextType DEF Owned, RefCountExact
<1>4. /\ z.ec = [x.ec EXCEPT !.entry = NoEntry, !.refs = x.ec.refs - 1, !.waitRespOrAck = FALSE]
      /\ z.fate = [x.fate EXCEPT ![k] = "acked"]
  BY <1>1 DEF RemoveEntry, NodeStates, Contexts
<1>5. /\ z.session = x.session /\ z.lastCtr = x.lastCtr /\ z.name = x.name /\ z.timed = x.timed
      /\ z.peer = x.peer /\ z.arrived = x.arrived /\ z.delivered = x.delivered /\ z.next = x.next
      /\ z.out = x.out
  BY DEF RemoveEntry, NodeStates
<1>6. NoEntry \in Entries
  BY ConversationAssumption, WindowAssumption DEF NoEntry, Entries, Counter, CounterRange
<1>7. z.ec \in Contexts
  <2>1. x.ec.refs - 1 \in 0 .. 2
    BY <1>3
  <2> HIDE DEF z
  <2> QED
    BY <1>1, <2>1, <1>4, <1>6 DEF Contexts
<1>8. z.fate \in [AppMessage -> Fates]
  BY <1>1, <1>4
<1>9. z \in NodeStates
  BY <1>4, <1>7, <1>8 DEF RemoveEntry, NodeStates
<1> HIDE DEF z
<1>10. /\ z.ec.alloc = x.ec.alloc /\ z.ec.refs = x.ec.refs - 1 /\ z.ec.closed = x.ec.closed
       /\ z.ec.willSend = x.ec.willSend /\ z.ec.respExpected = x.ec.respExpected
       /\ z.ec.waitRespOrAck = FALSE /\ z.ec.entry = NoEntry
  BY <1>1, <1>4 DEF Contexts
<1>11. /\ \A j \in AppMessage : IsSent(z, j) <=> IsSent(x, j)
       /\ \A j \in AppMessage : z.fate[j] = "expired" => x.fate[j] = "expired"
       /\ z.fate[k] = "acked"
  BY <1>1, <1>2, <1>4 DEF IsSent, IsLastSent
<1>12. ~WaitingForAck(z)
  BY <1>10 DEF WaitingForAck
<1>13. Quiet(x, z)
  BY <1>1, <1>5, <1>10, <1>11, <1>12 DEF Quiet
<1>14. RefCountExact(z)
  BY <1>3, <1>10, <1>12 DEF RefCountExact, Owned
<1>15. CanAnswer(z)
  BY <1>5, <1>10, <1>12 DEF CanAnswer, NeverSent, HasSession, Owned
<1>16. WaitFlagExact(z)
  BY <1>2, <1>10, <1>11 DEF WaitFlagExact, NeverSent, IsLastSent, Owned
<1>17. EntryIsLastSent(z) /\ TimerArmed(z) /\ Unexpired(x, z)
  BY <1>11, <1>12 DEF EntryIsLastSent, TimerArmed, Unexpired
<1>18. Keeps(x, z)
  BY <1>9, <1>13, <1>14, <1>15, <1>16, <1>17 DEF Keeps, Owned
<1> QED
  BY <1>18 DEF z

(* A context that no longer waits for a response: its fields, then what    *)
(* they mean to its owners.                                                *)
LEMMA StopWaitingFields ==
    ASSUME NEW x \in NodeStates
    PROVE  LET z == [SetResponseExpected(x, FALSE) EXCEPT !.ec.timer = FALSE]
           IN  /\ z \in NodeStates /\ SameRest(x, z) /\ z.hang = x.hang
               /\ z.ec.alloc = x.ec.alloc /\ z.ec.refs = x.ec.refs /\ z.ec.closed = x.ec.closed
               /\ z.ec.willSend = x.ec.willSend /\ z.ec.respExpected = FALSE
               /\ z.ec.waitRespOrAck = FALSE /\ z.ec.entry = x.ec.entry
<1> DEFINE z == [SetResponseExpected(x, FALSE) EXCEPT !.ec.timer = FALSE]
<1>1. x.ec \in Contexts
  BY NodeType
<1>2. z.ec = [x.ec EXCEPT !.respExpected = FALSE, !.waitRespOrAck = FALSE, !.timer = FALSE]
  BY <1>1 DEF SetResponseExpected, NodeStates, Contexts
<1>3. z \in NodeStates /\ SameRest(x, z) /\ z.hang = x.hang
  BY <1>1, <1>2 DEF SetResponseExpected, NodeStates, Contexts, SameRest
<1> HIDE DEF z
<1>4. /\ z.ec.alloc = x.ec.alloc /\ z.ec.refs = x.ec.refs /\ z.ec.closed = x.ec.closed
      /\ z.ec.willSend = x.ec.willSend /\ z.ec.respExpected = FALSE
      /\ z.ec.waitRespOrAck = FALSE /\ z.ec.entry = x.ec.entry
  BY <1>1, <1>2 DEF Contexts
<1> QED
  BY <1>3, <1>4 DEF z

(* An answer or a timeout ends the wait, and the context stays as owned    *)
(* as it was.                                                              *)
LEMMA StopWaiting ==
    ASSUME NEW x \in NodeStates, Owned(x), x.ec.alloc
    PROVE  LET z == [SetResponseExpected(x, FALSE) EXCEPT !.ec.timer = FALSE]
           IN  /\ Keeps(x, z) /\ z.ec.respExpected = FALSE /\ z.ec.closed = x.ec.closed
               /\ z.ec.willSend = x.ec.willSend /\ z.ec.entry = x.ec.entry
               /\ z.session = x.session /\ z.hang = x.hang
<1> DEFINE z == [SetResponseExpected(x, FALSE) EXCEPT !.ec.timer = FALSE]
<1>1. x.lastCtr \in Int
  BY NodeType DEF Counter
<1>2. /\ z \in NodeStates /\ SameRest(x, z) /\ z.hang = x.hang
      /\ z.ec.alloc = x.ec.alloc /\ z.ec.refs = x.ec.refs /\ z.ec.closed = x.ec.closed
      /\ z.ec.willSend = x.ec.willSend /\ z.ec.respExpected = FALSE
      /\ z.ec.waitRespOrAck = FALSE /\ z.ec.entry = x.ec.entry
  BY StopWaitingFields
<1>3. z \in NodeStates /\ SameRest(x, z) /\ z.hang = x.hang
  BY <1>2
<1>4. /\ z.ec.alloc = x.ec.alloc /\ z.ec.refs = x.ec.refs /\ z.ec.closed = x.ec.closed
      /\ z.ec.willSend = x.ec.willSend /\ z.ec.respExpected = FALSE
      /\ z.ec.waitRespOrAck = FALSE /\ z.ec.entry = x.ec.entry
  BY <1>2
<1> HIDE DEF z
<1>5. Quiet(x, z)
  BY <1>1, <1>3, <1>4 DEF SameRest, Quiet, IsSent, WaitingForAck
<1>6. RefCountExact(z) /\ CanAnswer(z) /\ TimerArmed(z) /\ WaitFlagExact(z)
  BY <1>3, <1>4
  DEF SameRest, Owned, RefCountExact, CanAnswer, NeverSent, TimerArmed, WaitFlagExact, WaitingForAck, HasSession
<1>7. EntryIsLastSent(z)
  BY <1>3, <1>4 DEF SameRest, Owned, EntryIsLastSent, IsLastSent, IsSent, WaitingForAck
<1>8. Keeps(x, z)
  BY <1>3, <1>5, <1>6, <1>7 DEF Keeps, Owned, Unexpired, SameRest
<1> QED
  BY <1>3, <1>4, <1>8 DEF z, SameRest

(* Marking a session defunct, and reporting it.                            *)
LEMMA MarkKeeps ==
    ASSUME NEW x \in NodeStates, Owned(x)
    PROVE  /\ Keeps(x, MarkAsDefunct(x)) /\ MarkAsDefunct(x).ec = x.ec
           /\ LET z == [MarkAsDefunct(x) EXCEPT !.hang = TRUE]
              IN  Keeps(x, z) /\ z.ec = x.ec /\ z.hang /\ z.fate = x.fate
                  /\ (z.session = "released" <=> x.session = "released")
<1> DEFINE d == MarkAsDefunct(x)
           z == [d EXCEPT !.hang = TRUE]
<1>1. x.lastCtr \in Int /\ x.session \in {"active", "defunct", "released"}
  BY NodeType DEF Counter
<1>2. /\ d \in NodeStates /\ d.ec = x.ec /\ (d.session = "released" <=> x.session = "released")
      /\ d.fate = x.fate /\ d.name = x.name /\ d.timed = x.timed /\ d.peer = x.peer /\ d.out = x.out
      /\ d.arrived = x.arrived /\ d.delivered = x.delivered /\ d.next = x.next /\ d.lastCtr = x.lastCtr
  BY <1>1 DEF MarkAsDefunct, NodeStates
<1>3. /\ z \in NodeStates /\ z.ec = x.ec /\ (z.session = "released" <=> x.session = "released")
      /\ z.fate = x.fate /\ z.name = x.name /\ z.timed = x.timed /\ z.peer = x.peer /\ z.out = x.out
      /\ z.arrived = x.arrived /\ z.delivered = x.delivered /\ z.next = x.next /\ z.lastCtr = x.lastCtr
      /\ z.hang = TRUE
  <2> HIDE DEF d
  <2> QED
    BY <1>2 DEF NodeStates
<1> HIDE DEF d, z
<1>4. ASSUME NEW y \in {d, z} PROVE Keeps(x, y)
  <2>1. /\ y \in NodeStates /\ y.ec = x.ec /\ (y.session = "released" <=> x.session = "released")
        /\ y.fate = x.fate /\ y.name = x.name /\ y.timed = x.timed /\ y.peer = x.peer /\ y.out = x.out
        /\ y.arrived = x.arrived /\ y.delivered = x.delivered /\ y.next = x.next /\ y.lastCtr = x.lastCtr
    BY <1>2, <1>3
  <2>2. Quiet(x, y) /\ Unexpired(x, y)
    BY <1>1, <2>1 DEF Quiet, IsSent, WaitingForAck, Unexpired
  <2>3. RefCountExact(y) /\ CanAnswer(y) /\ TimerArmed(y)
    BY <2>1 DEF Owned, RefCountExact, CanAnswer, NeverSent, TimerArmed, WaitingForAck, HasSession
  <2>4. EntryIsLastSent(y) /\ WaitFlagExact(y)
    BY <2>1 DEF Owned, EntryIsLastSent, WaitFlagExact, NeverSent, IsLastSent, IsSent, WaitingForAck
  <2> QED
    BY <2>1, <2>2, <2>3, <2>4 DEF Keeps, Owned
<1>5. Keeps(x, d) /\ Keeps(x, z)
  BY <1>4
<1>6. d = MarkAsDefunct(x) /\ z = [MarkAsDefunct(x) EXCEPT !.hang = TRUE]
  BY DEF d, z
<1> QED
  BY <1>2, <1>3, <1>5, <1>6

----------------------------------------------------------------------------
(* Message k leaves x, or is on its way from it, with counter c.           *)
Bears(x, k, c) ==
    \/ \E p \in x.out : p.seq = k /\ p.ctr = c
    \/ WaitingForAck(x) /\ x.ec.entry.seq = k /\ x.ec.entry.ctr = c

(* The packets sent in this step are sound.                                *)
OutInv(x) ==
    /\ \A p \in x.out :
          /\ p.from = x.name /\ p.ctr \in 1 .. x.lastCtr /\ (p.needsAck <=> p.seq # 0)
          /\ p.seq # 0 => IsSent(x, p.seq)
    /\ \A k \in AppMessage, c, d \in Counter : (Bears(x, k, c) /\ Bears(x, k, d)) => c = d

Fine(x) == x \in NodeStates /\ Owned(x) /\ TakesTurns(x) /\ OutInv(x)

(* What a step of a node may do to the conversation.                       *)
Moves(x, z) ==
    /\ z.name = x.name /\ z.timed = x.timed /\ x.lastCtr <= z.lastCtr
    /\ \A k \in AppMessage : IsSent(x, k) => IsSent(z, k)
    /\ \A k \in AppMessage, c \in Counter : Bears(z, k, c) => (Bears(x, k, c) \/ ~IsSent(x, k))

(* ... while it handles what it was handed.                                *)
Says(x, z) ==
    /\ Fine(z) /\ Moves(x, z)
    /\ z.peer = x.peer /\ z.arrived = x.arrived /\ z.delivered = x.delivered /\ z.ec.alloc = x.ec.alloc

(* Says composes.                                                          *)
LEMMA SaysTransitive ==
    ASSUME NEW x \in NodeStates, NEW y, NEW z, Says(x, y), Says(y, z)
    PROVE  Says(x, z)
<1>1. x.lastCtr \in Int /\ y.lastCtr \in Int /\ z.lastCtr \in Int
  BY NodeType DEF Counter, Says, Fine
<1>2. ASSUME NEW k \in AppMessage, NEW c \in Counter, Bears(z, k, c)
      PROVE  Bears(x, k, c) \/ ~IsSent(x, k)
  BY <1>2 DEF Says, Moves
<1> QED
  BY <1>1, <1>2 DEF Says, Moves

(* A handler that is quiet leaves the conversation where it is.            *)
LEMMA QuietSays ==
    ASSUME NEW x, Fine(x), NEW z \in NodeStates, Owned(z), Quiet(x, z)
    PROVE  Says(x, z)
<1>0. x \in NodeStates /\ z \in NodeStates /\ Quiet(x, z) /\ Owned(z)
  BY DEF Fine
<1>1. x.lastCtr \in Int /\ z.lastCtr \in Int
  BY <1>0, NodeType DEF Counter
<1>2. ASSUME NEW k \in AppMessage, NEW c \in Counter, Bears(z, k, c)
      PROVE  Bears(x, k, c)
  <2>1. ASSUME NEW p \in z.out, p.seq = k PROVE p \in x.out
    BY <1>0, <2>1 DEF Quiet, IsAckOf, AppMessage
  <2> QED
    BY <1>0, <1>2, <2>1 DEF Quiet, Bears
<1>3. TakesTurns(z)
  <2>1. Heard(z) = Heard(x)
    BY <1>0 DEF Quiet, Heard
  <2>2. x.next \in 0 .. NumMessages
    BY <1>0, NodeType
  <2>3. x.next # 0 => x.next \in AppMessage
    BY <2>2, ConversationAssumption DEF AppMessage
  <2> QED
    BY <1>0, <2>1, <2>3 DEF TakesTurns, Quiet, Fine
<1>4. ASSUME NEW p \in z.out
      PROVE  /\ p.from = z.name /\ p.ctr \in 1 .. z.lastCtr /\ (p.needsAck <=> p.seq # 0)
             /\ p.seq # 0 => IsSent(z, p.seq)
  <2>1. CASE p \in x.out
    <3>1. p \in Packet
      BY <1>0, <2>1, NodeType
    <3>2. p.seq # 0 => p.seq \in AppMessage
      BY <3>1, ConversationAssumption DEF Packet, AppMessage
    <3> QED
      BY <1>0, <1>1, <2>1, <3>2 DEF Fine, OutInv, Quiet
  <2>2. CASE p \notin x.out
    BY <1>0, <2>2 DEF Quiet, IsAckOf
  <2> QED
    BY <2>1, <2>2
<1>5. OutInv(z)
  BY <1>2, <1>4 DEF OutInv, Fine
<1>6. Moves(x, z)
  BY <1>0, <1>2 DEF Moves, Quiet
<1> QED
  BY <1>0, <1>3, <1>5, <1>6 DEF Says, Fine, Quiet

(* The same, of a handler that keeps the ownership rules.                  *)
LEMMA KeepsSays ==
    ASSUME NEW x, Fine(x), NEW z, Keeps(x, z)
    PROVE  Says(x, z)
BY QuietSays DEF Keeps

(* A node's next answer is its own to send.                                *)
LEMMA NextIsMine ==
    ASSUME NEW x \in NodeStates, NEW k \in AppMessage, k = Heard(x) + 1
    PROVE  Sender(k) = x.name
<1>1. x.name \in Node /\ Len(x.delivered) \in Nat
  BY NodeType, LenProperties
<1>2. CASE x.name = "I"
  <2>1. k = 2 * Len(x.delivered) + 1
    BY <1>1, <1>2 DEF Heard
  <2> QED
    BY <1>1, <1>2, <2>1 DEF Sender
<1>3. CASE x.name = "R"
  <2>1. k = 2 * Len(x.delivered)
    BY <1>1, <1>3 DEF Heard
  <2> QED
    BY <1>1, <1>3, <2>1 DEF Sender
<1> QED
  BY <1>1, <1>2, <1>3 DEF Node

(* The context that is about to send: e expects a response or not, and its *)
(* pending ack is taken.                                                   *)
Expecting(x, k) ==
    IF ExpectsResponse(k) THEN [SetResponseExpected(x, TRUE) EXCEPT !.ec.timer = x.timed] ELSE x

(* The fields of a context that is about to send message k.                *)
LEMMA ExpectingFacts ==
    ASSUME NEW x \in NodeStates, Owned(x), x.ec.respExpected => NeverSent(x), NEW k \in AppMessage
    PROVE  LET e == Expecting(x, k)
               t == TakeAck(e)
               asks == ExpectsResponse(k) \/ x.ec.respExpected
           IN  /\ e \in NodeStates /\ e.ec \in Contexts /\ SameRest(x, e) /\ e.ec.entry = x.ec.entry
               /\ t \in NodeStates /\ t.ec \in Contexts /\ SameRest(x, t)
               /\ t.ec.alloc = x.ec.alloc /\ t.ec.refs = x.ec.refs /\ t.ec.closed = x.ec.closed
               /\ t.ec.willSend = x.ec.willSend /\ t.ec.entry = x.ec.entry
               /\ t.ec.respExpected = asks
               /\ t.ec.waitRespOrAck = asks
               /\ ExpectsResponse(k) => t.ec.timer = x.timed
               /\ t.ec.ackPending = FALSE
<1> DEFINE e == Expecting(x, k)
           t == TakeAck(e)
           asks == ExpectsResponse(k) \/ x.ec.respExpected
<1>1. /\ x.ec \in Contexts /\ x.ec.respExpected \in BOOLEAN /\ x.timed \in BOOLEAN
      /\ x.ec.waitRespOrAck = x.ec.respExpected
  BY NodeType, ContextType DEF Owned, WaitFlagExact, NeverSent
<1>2. ExpectsResponse(k) \in BOOLEAN
  BY DEF ExpectsResponse
<1>3. /\ e \in NodeStates /\ e.ec \in Contexts /\ SameRest(x, e)
      /\ e.ec.alloc = x.ec.alloc /\ e.ec.refs = x.ec.refs /\ e.ec.closed = x.ec.closed
      /\ e.ec.willSend = x.ec.willSend /\ e.ec.entry = x.ec.entry
      /\ e.ec.respExpected = asks /\ e.ec.waitRespOrAck = asks
      /\ ExpectsResponse(k) => e.ec.timer = x.timed
  <2>1. CASE ExpectsResponse(k)
    <3>1. e = [SetResponseExpected(x, TRUE) EXCEPT !.ec.timer = x.timed]
      BY <2>1 DEF Expecting
    <3>2. e.ec = [x.ec EXCEPT !.respExpected = TRUE, !.waitRespOrAck = TRUE, !.timer = x.timed]
      BY <1>1, <3>1 DEF SetResponseExpected, NodeStates, Contexts
    <3>3. e \in NodeStates /\ SameRest(x, e)
      BY <1>1, <3>1, <3>2 DEF SetResponseExpected, NodeStates, Contexts, SameRest
    <3> HIDE DEF e
    <3>4. /\ e.ec.alloc = x.ec.alloc /\ e.ec.refs = x.ec.refs /\ e.ec.closed = x.ec.closed
          /\ e.ec.willSend = x.ec.willSend /\ e.ec.entry = x.ec.entry
          /\ e.ec.respExpected = TRUE /\ e.ec.waitRespOrAck = TRUE /\ e.ec.timer = x.timed
      BY <1>1, <3>2 DEF Contexts
    <3> QED
      BY <2>1, <3>3, <3>4, NodeType
  <2>2. CASE ~ExpectsResponse(k)
    <3>1. e = x
      BY <2>2 DEF Expecting
    <3> QED
      BY <1>1, <1>2, <2>2, <3>1 DEF SameRest
  <2> QED
    BY <2>1, <2>2
<1> HIDE DEF e, asks
<1>4. t.ec = [e.ec EXCEPT !.ackPending = FALSE]
  BY <1>3 DEF TakeAck, NodeStates, Contexts
<1>5. t \in NodeStates /\ SameRest(e, t)
  BY <1>3, <1>4 DEF TakeAck, NodeStates, Contexts, SameRest
<1> HIDE DEF t
<1>6. /\ t.ec.alloc = e.ec.alloc /\ t.ec.refs = e.ec.refs /\ t.ec.closed = e.ec.closed
      /\ t.ec.willSend = e.ec.willSend /\ t.ec.entry = e.ec.entry
      /\ t.ec.respExpected = e.ec.respExpected /\ t.ec.waitRespOrAck = e.ec.waitRespOrAck
      /\ t.ec.timer = e.ec.timer /\ t.ec.ackPending = FALSE
  BY <1>3, <1>4 DEF Contexts
<1>7. SameRest(x, t)
  BY <1>3, <1>5 DEF SameRest
<1>8. t.ec \in Contexts
  BY <1>5, NodeType
<1> QED
  BY <1>3, <1>5, <1>6, <1>7, <1>8 DEF t, e, asks

(* A message that cannot be sent leaves everything but the counter, the    *)
(* session and, without a response timeout, the response expected as it    *)
(* was.                                                                    *)
LEMMA SendFailsKeeps ==
    ASSUME NEW x \in NodeStates, Owned(x), x.ec.alloc, ~x.ec.closed, x.ec.respExpected => NeverSent(x),
           NEW k \in AppMessage, ~(ExpectsResponse(k) /\ x.ec.respExpected),
           NEW ok \in Outcome, DispatchFails(x, k, ok)
    PROVE  LET sent == Dispatch(Expecting(x, k), k, ok)
               undone == IF ExpectsResponse(k) /\ x.timed
                         THEN [SetResponseExpected(sent, FALSE) EXCEPT !.ec.timer = FALSE] ELSE sent
           IN  Keeps(x, MarkAsDefunct(undone))
<1> DEFINE e == Expecting(x, k)
           t == TakeAck(e)
           sent == Dispatch(e, k, ok)
           u == IF ExpectsResponse(k) /\ x.timed
                THEN [SetResponseExpected(sent, FALSE) EXCEPT !.ec.timer = FALSE] ELSE sent
           asks == ExpectsResponse(k) \/ x.ec.respExpected
<1>1. /\ x.ec \in Contexts /\ x.lastCtr \in Counter /\ x.timed \in BOOLEAN
  BY NodeType
<1>2. /\ t \in NodeStates /\ t.ec \in Contexts /\ SameRest(x, t)
      /\ t.ec.alloc = x.ec.alloc /\ t.ec.refs = x.ec.refs /\ t.ec.closed = x.ec.closed
      /\ t.ec.willSend = x.ec.willSend /\ t.ec.entry = x.ec.entry
      /\ t.ec.respExpected = asks /\ t.ec.waitRespOrAck = asks
  BY ExpectingFacts
<1> HIDE DEF t
<1>3. /\ sent \in NodeStates /\ sent.ec = t.ec /\ x.lastCtr <= sent.lastCtr
      /\ sent.fate = x.fate /\ sent.session = x.session /\ sent.name = x.name /\ sent.timed = x.timed
      /\ sent.peer = x.peer /\ sent.arrived = x.arrived /\ sent.delivered = x.delivered
      /\ sent.next = x.next /\ sent.out = x.out
  <2>0. CannotPrepare(e, k, ok) <=> CannotPrepare(x, k, ok)
    <3>1. e.ec.entry = x.ec.entry /\ e.lastCtr = x.lastCtr
      BY ExpectingFacts DEF SameRest
    <3> QED
      BY <3>1 DEF CannotPrepare, WaitingForAck
  <2>1. CASE CannotPrepare(x, k, ok)
    <3>1. sent = t
      BY <2>0, <2>1 DEF Dispatch, t
    <3> QED
      BY <1>1, <1>2, <3>1 DEF SameRest, Counter
  <2>2. CASE ~CannotPrepare(x, k, ok)
    <3>1. sent = [t EXCEPT !.lastCtr = @ + 1]
      BY <2>0, <2>2 DEF Dispatch, DispatchFails, t
    <3>2. x.lastCtr + 1 \in Counter /\ t.lastCtr = x.lastCtr
      BY <1>1, <1>2, <2>2, WindowAssumption DEF CannotPrepare, Counter, CounterRange, SameRest
    <3> HIDE DEF sent
    <3>3. sent \in NodeStates /\ sent.lastCtr = x.lastCtr + 1
      BY <1>2, <3>1, <3>2 DEF NodeStates
    <3>4. x.lastCtr <= sent.lastCtr
      BY <1>1, <3>3 DEF Counter
    <3> QED
      BY <1>2, <3>1, <3>3, <3>4 DEF SameRest, NodeStates
  <2> QED
    BY <2>1, <2>2
<1> HIDE DEF sent
<1> DEFINE left == asks /\ ~x.timed
<1>4. /\ u \in NodeStates /\ u.ec \in Contexts /\ u.ec.alloc = x.ec.alloc /\ u.ec.refs = x.ec.refs
      /\ u.ec.closed = x.ec.closed /\ u.ec.willSend = x.ec.willSend /\ u.ec.entry = x.ec.entry
      /\ u.ec.respExpected = left /\ u.ec.waitRespOrAck = left
      /\ u.lastCtr = sent.lastCtr /\ u.fate = x.fate /\ u.session = x.session /\ u.name = x.name
      /\ u.timed = x.timed
      /\ u.peer = x.peer /\ u.arrived = x.arrived /\ u.delivered = x.delivered /\ u.next = x.next
      /\ u.out = x.out
  <2>1. CASE ExpectsResponse(k) /\ x.timed
    <3>1. u = [SetResponseExpected(sent, FALSE) EXCEPT !.ec.timer = FALSE]
      BY <2>1
    <3>2. sent \in NodeStates
      BY <1>3
    <3>3. /\ u \in NodeStates /\ SameRest(sent, u)
          /\ u.ec.alloc = sent.ec.alloc /\ u.ec.refs = sent.ec.refs /\ u.ec.closed = sent.ec.closed
          /\ u.ec.willSend = sent.ec.willSend /\ u.ec.entry = sent.ec.entry
          /\ u.ec.respExpected = FALSE /\ u.ec.waitRespOrAck = FALSE
      BY <3>1, <3>2, StopWaitingFields
    <3> HIDE DEF u
    <3>5. u.ec \in Contexts
      BY <3>3, NodeType
    <3>6. left = FALSE
      BY <2>1
    <3>7. /\ u.ec.respExpected = left /\ u.ec.waitRespOrAck = left
      BY <3>3, <3>6
    <3> HIDE DEF left, asks
    <3> QED
      BY <1>2, <1>3, <3>3, <3>5, <3>7 DEF SameRest
  <2>2. CASE ~(ExpectsResponse(k) /\ x.timed)
    <3>1. u = sent
      BY <2>2
    <3>2. asks = left
      BY <1>1, <2>2 DEF NeverSent
    <3> QED
      BY <1>2, <1>3, <3>1, <3>2
  <2> QED
    BY <2>1, <2>2
<1> HIDE DEF u
<1>5. x.lastCtr \in Int /\ u.lastCtr \in Int /\ x.lastCtr <= u.lastCtr
  BY <1>1, <1>3, <1>4, NodeType DEF Counter
<1>6. Quiet(x, u) /\ Unexpired(x, u)
  BY <1>4, <1>5 DEF Quiet, IsSent, WaitingForAck, Unexpired
<1>7. RefCountExact(u) /\ TimerArmed(u)
  BY <1>1, <1>4 DEF Owned, RefCountExact, TimerArmed, WaitingForAck
<1>8. EntryIsLastSent(u)
  BY <1>4, <1>5 DEF Owned, EntryIsLastSent, IsLastSent, IsSent, WaitingForAck
<1>a. left => u.ec.waitRespOrAck = TRUE /\ ~u.timed
  BY <1>4
<1>b. CanAnswer(u)
  BY <1>4, <1>a DEF Owned, CanAnswer, NeverSent, WaitingForAck, HasSession
<1>c. WaitFlagExact(u)
  <2>1. CASE ~WaitingForAck(u) \/ ~left
    BY <1>4, <1>a, <2>1 DEF WaitFlagExact, NeverSent
  <2>2. CASE WaitingForAck(u) /\ left
    <3>1. IsLastSent(u, u.ec.entry.seq) /\ u.fate[u.ec.entry.seq] = "waiting"
      BY <1>8, <2>2 DEF EntryIsLastSent
    <3> QED
      BY <1>4, <1>a, <2>2, <3>1 DEF WaitFlagExact, IsLastSent
  <2> QED
    BY <2>1, <2>2
<1>9. Keeps(x, u)
  BY <1>4, <1>6, <1>7, <1>8, <1>b, <1>c DEF Keeps, Owned
<1>10. Keeps(x, MarkAsDefunct(u))
  BY <1>4, <1>9, MarkKeeps, KeepsTransitive DEF Keeps
<1> QED
  BY <1>10 DEF u, sent, e

(* ExchangeContext::SendMessage says one message at most, the next one.    *)
LEMMA SendMessageSays ==
    ASSUME NEW x, Fine(x), x.ec.alloc, HasSession(x) => ~x.ec.closed, x.ec.respExpected => NeverSent(x),
           NEW k \in AppMessage, k = Heard(x) + 1, ~IsSent(x, k), NEW ok \in Outcome
    PROVE  Says(x, SendMessage(x, k, ok)) /\ Unexpired(x, SendMessage(x, k, ok))
<1> DEFINE asks == ExpectsResponse(k) \/ x.ec.respExpected
<1>0. x \in NodeStates /\ Owned(x) /\ x.ec \in Contexts /\ x.timed \in BOOLEAN
  BY NodeType DEF Fine
<1>1. CASE ~HasSession(x) \/ (ExpectsResponse(k) /\ x.ec.respExpected)
  BY <1>0, <1>1, KeepsReflexive, KeepsSays DEF SendMessage, Keeps
<1>2. CASE HasSession(x) /\ ~(ExpectsResponse(k) /\ x.ec.respExpected) /\ DispatchFails(x, k, ok)
  <2>1. Keeps(x, SendMessage(x, k, ok))
    BY <1>0, <1>2, SendFailsKeeps DEF SendMessage, Expecting
  <2> QED
    BY <2>1, KeepsSays DEF Keeps
<1>3. CASE HasSession(x) /\ ~(ExpectsResponse(k) /\ x.ec.respExpected) /\ ~DispatchFails(x, k, ok)
  <2> DEFINE e == Expecting(x, k)
             t == TakeAck(e)
             p == NextPacket(e, k, IF e.ec.ackValid THEN e.ec.ackCtr ELSE 0)
             s == Sent(t, p)
             z == [s EXCEPT !.ec.willSend = FALSE, !.next = 0]
  <2>0. ~WaitingForAck(x) /\ x.lastCtr # CounterRange - 1 /\ ok # "tableFull" /\ ~Refused(ok)
    BY <1>3, ConversationAssumption DEF DispatchFails, CannotPrepare, AppMessage
  <2>1. /\ t \in NodeStates /\ t.ec \in Contexts /\ SameRest(x, t)
        /\ t.ec.alloc = x.ec.alloc /\ t.ec.refs = x.ec.refs /\ t.ec.closed = x.ec.closed
        /\ t.ec.willSend = x.ec.willSend /\ t.ec.entry = x.ec.entry
        /\ t.ec.respExpected = asks /\ t.ec.waitRespOrAck = asks
        /\ ExpectsResponse(k) => t.ec.timer = x.timed
    BY <1>0, ExpectingFacts
  <2>2. e \in NodeStates /\ e.ec \in Contexts /\ e.lastCtr = x.lastCtr /\ e.name = x.name /\ e.timed = x.timed /\ e.ec.entry = x.ec.entry
    BY <1>0, ExpectingFacts DEF SameRest
  <2> HIDE DEF asks
  <2>3. SendMessage(x, k, ok) = MessageHandled(z, ok)
    <3>1. Dispatch(e, k, ok) = s
      BY <2>0, <2>2 DEF Dispatch, CannotPrepare, WaitingForAck
    <3>2. SendMessage(x, k, ok) = MessageHandled([Dispatch(e, k, ok) EXCEPT !.ec.willSend = FALSE, !.next = 0], ok)
      BY <1>0, <1>3 DEF SendMessage, Expecting
    <3> QED
      BY <3>1, <3>2
  <2>4. x.lastCtr \in Counter /\ x.lastCtr + 1 \in Counter
    BY <1>0, <2>0, NodeType, WindowAssumption DEF Counter, CounterRange
  <2>5. p.ctr = x.lastCtr + 1 /\ p.seq = k /\ p.from = x.name /\ p.needsAck = TRUE
    <3>1. k # 0
      BY ConversationAssumption DEF AppMessage
    <3> QED
      BY <2>2, <3>1 DEF NextPacket
  <2>6. p \in Packet /\ p.ack \in Counter
    <3>1. (IF e.ec.ackValid THEN e.ec.ackCtr ELSE 0) \in Counter
      BY <2>2, ContextType, WindowAssumption DEF Counter, CounterRange
    <3>2. k \in 0 .. NumMessages /\ x.name \in Node
      BY <1>0, NodeType, ConversationAssumption DEF AppMessage
    <3> QED
      BY <2>2, <2>4, <3>1, <3>2 DEF NextPacket, Packet
  <2> HIDE DEF p, t, e
  <2> DEFINE entry == [ctr |-> p.ctr, seq |-> p.seq, ack |-> p.ack, sendCount |-> 0]
  <2>7. entry \in Entries /\ entry # NoEntry /\ entry.seq = k /\ entry.ctr = x.lastCtr + 1
    <3>1. k \in 0 .. NumMessages /\ k # 0 /\ 0 \in 0 .. MaxRetrans
      BY ConversationAssumption DEF AppMessage
    <3> QED
      BY <2>4, <2>5, <2>6, <3>1 DEF Entries, NoEntry
  <2> HIDE DEF entry
  <2>8. x.ec.refs = 1 /\ x.ec.closed = FALSE
    BY <1>0, <1>3, <2>0, ContextType DEF Owned, RefCountExact
  <2>9. z = [t EXCEPT !.lastCtr = p.ctr, !.out = @ \cup {p}, !.ec.entry = entry, !.ec.refs = @ + 1,
                      !.fate[p.seq] = "waiting", !.ec.willSend = FALSE, !.next = 0]
    BY <2>1, <2>5 DEF Sent, entry, NodeStates, Contexts
  <2> HIDE DEF z
  <2>10. z.ec = [t.ec EXCEPT !.entry = entry, !.refs = t.ec.refs + 1, !.willSend = FALSE]
    BY <2>1, <2>9 DEF NodeStates, Contexts
  <2>11. z.ec \in Contexts
    <3>1. t.ec.refs + 1 \in 0 .. 2
      BY <2>1, <2>8
    <3> QED
      BY <2>1, <2>7, <2>10, <3>1 DEF Contexts
  <2>12. /\ z.lastCtr = x.lastCtr + 1 /\ z.out = x.out \cup {p} /\ z.next = 0
         /\ z.fate = [x.fate EXCEPT ![k] = "waiting"]
    BY <2>1, <2>5, <2>9 DEF NodeStates, SameRest
  <2>13. /\ z.session = x.session /\ z.name = x.name /\ z.timed = x.timed /\ z.peer = x.peer
         /\ z.arrived = x.arrived /\ z.delivered = x.delivered
    BY <2>1, <2>9 DEF NodeStates, SameRest
  <2>14. z \in NodeStates
    <3>1. z.fate \in [AppMessage -> Fates] /\ z.out \in SUBSET Packet /\ z.lastCtr \in Counter /\ z.next \in 0 .. NumMessages
      BY <1>0, <2>4, <2>6, <2>12, NodeType, ConversationAssumption DEF Fates
    <3> QED
      BY <2>1, <2>9, <2>11, <3>1 DEF NodeStates
  <2>15. /\ z.ec.alloc = x.ec.alloc /\ z.ec.refs = 2 /\ z.ec.closed = FALSE
         /\ z.ec.willSend = FALSE /\ z.ec.entry = entry
         /\ z.ec.respExpected = asks /\ z.ec.waitRespOrAck = asks
         /\ ExpectsResponse(k) => z.ec.timer = x.timed
    <3>1. /\ z.ec.alloc = t.ec.alloc /\ z.ec.refs = t.ec.refs + 1 /\ z.ec.closed = t.ec.closed
          /\ z.ec.willSend = FALSE /\ z.ec.entry = entry /\ z.ec.timer = t.ec.timer
          /\ z.ec.respExpected = t.ec.respExpected /\ z.ec.waitRespOrAck = t.ec.waitRespOrAck
      BY <2>1, <2>10 DEF Contexts
    <3>2. z.ec.refs = 2
      BY <2>1, <2>8, <3>1
    <3> QED
      BY <2>1, <2>8, <3>1, <3>2
  <2>16. \A j \in AppMessage : IsSent(z, j) <=> (IsSent(x, j) \/ j = k)
    BY <1>0, <2>12, NodeType DEF IsSent
  <2>17. IsLastSent(z, k) /\ z.fate[k] = "waiting"
    <3>1. \A j \in AppMessage : IsSent(x, j) => j <= k
      BY DEF Fine, TakesTurns
    <3>2. k <= k
      BY DEF AppMessage
    <3> QED
      BY <1>0, <2>12, <2>16, <3>1, <3>2, NodeType DEF IsLastSent
  <2>18. Owned(z)
    <3>1. WaitingForAck(z)
      BY <2>7, <2>15 DEF WaitingForAck
    <3>2. RefCountExact(z) /\ CanAnswer(z)
      BY <2>15, <3>1 DEF RefCountExact, CanAnswer
    <3>5. TimerArmed(z)
      BY <1>0, <2>13, <2>15 DEF TimerArmed, NeverSent, asks
    <3>3. EntryIsLastSent(z)
      <4>1. entry.ctr \in 1 .. z.lastCtr
        BY <2>4, <2>7, <2>12 DEF Counter
      <4> QED
        BY <2>7, <2>15, <2>17, <4>1 DEF EntryIsLastSent
    <3>4. WaitFlagExact(z)
      BY <2>15, <2>17 DEF WaitFlagExact
    <3> QED
      BY <3>2, <3>3, <3>4, <3>5 DEF Owned
  <2>19. TakesTurns(z)
    <3>1. Heard(z) = Heard(x) /\ k <= Heard(x) + 1
      BY <2>13 DEF Heard, AppMessage
    <3>2. Sender(k) = x.name
      BY <1>0, NextIsMine
    <3> QED
      BY <2>12, <2>13, <2>16, <3>1, <3>2 DEF TakesTurns, Fine
  <2>20. ASSUME NEW j \in AppMessage, NEW c \in Counter, Bears(z, j, c)
         PROVE  (j = k /\ c = p.ctr) \/ (j # k /\ Bears(x, j, c) /\ \E q \in x.out : q.seq = j /\ q.ctr = c)
    <3>1. ASSUME NEW q \in x.out PROVE q.seq # k
      <4>1. k # 0
        BY ConversationAssumption DEF AppMessage
      <4> QED
        BY <4>1 DEF Fine, OutInv
    <3> QED
      BY <2>5, <2>7, <2>12, <2>15, <2>20, <3>1 DEF Bears
  <2>21. OutInv(z)
    <3>1. ASSUME NEW q \in z.out
          PROVE  /\ q.from = z.name /\ q.ctr \in 1 .. z.lastCtr /\ (q.needsAck <=> q.seq # 0)
                 /\ q.seq # 0 => IsSent(z, q.seq)
      <4>1. CASE q = p
        <5>1. p.ctr \in 1 .. z.lastCtr
          BY <2>4, <2>5, <2>12 DEF Counter
        <5>2. k # 0
          BY ConversationAssumption DEF AppMessage
        <5> QED
          BY <2>5, <2>13, <2>16, <4>1, <5>1, <5>2
      <4>2. CASE q \in x.out
        <5>1. q \in Packet
          BY <1>0, <4>2, NodeType
        <5>2. q.seq # 0 => q.seq \in AppMessage
          BY <5>1, ConversationAssumption DEF Packet, AppMessage
        <5>3. \A n \in 1 .. x.lastCtr : n \in 1 .. z.lastCtr
          BY <2>4, <2>12 DEF Counter
        <5> QED
          BY <2>13, <2>16, <4>2, <5>2, <5>3 DEF Fine, OutInv
      <4> QED
        BY <2>12, <4>1, <4>2
    <3>2. \A j \in AppMessage, c, d \in Counter : (Bears(z, j, c) /\ Bears(z, j, d)) => c = d
      BY <2>20 DEF Fine, OutInv
    <3> QED
      BY <3>1, <3>2 DEF OutInv
  <2>22. Moves(x, z)
    <3>1. x.lastCtr <= z.lastCtr
      BY <2>4, <2>12 DEF Counter
    <3> QED
      BY <2>13, <2>16, <2>20, <3>1 DEF Moves
  <2>23. Says(x, z) /\ Unexpired(x, z)
    BY <1>0, <2>12, <2>13, <2>14, <2>15, <2>18, <2>19, <2>21, <2>22, NodeType DEF Says, Fine, Unexpired
  <2>24. Keeps(z, MessageHandled(z, ok))
    BY <2>14, <2>15, <2>18, MessageHandledKeeps
  <2>25. Says(z, MessageHandled(z, ok))
    BY <2>23, <2>24, KeepsSays DEF Says
  <2> QED
    BY <1>0, <2>3, <2>23, <2>24, <2>25, SaysTransitive DEF Keeps, Unexpired
<1> QED
  BY <1>1, <1>2, <1>3

----------------------------------------------------------------------------
(* Reception.  The application may be handed one message.                  *)
Handles(x, z) ==
    /\ Fine(z) /\ Moves(x, z) /\ Unexpired(x, z)
    /\ z.peer = x.peer /\ z.arrived = x.arrived /\ z.ec.alloc = x.ec.alloc

(* A handler that keeps the ownership rules may be part of a reception.    *)
LEMMA KeepsHandles ==
    ASSUME NEW x, Fine(x), NEW z, Keeps(x, z)
    PROVE  Handles(x, z)
BY KeepsSays DEF Keeps, Says, Handles

(* Handles composes.                                                       *)
LEMMA HandlesTransitive ==
    ASSUME NEW x \in NodeStates, NEW y, NEW z, Handles(x, y), Handles(y, z)
    PROVE  Handles(x, z)
<1>1. x.lastCtr \in Int /\ y.lastCtr \in Int /\ z.lastCtr \in Int
  BY NodeType DEF Counter, Handles, Fine
<1>2. ASSUME NEW k \in AppMessage, NEW c \in Counter, Bears(z, k, c)
      PROVE  Bears(x, k, c) \/ ~IsSent(x, k)
  BY <1>2 DEF Handles, Moves
<1>3. Moves(x, z)
  BY <1>1, <1>2 DEF Handles, Moves
<1> QED
  BY <1>3 DEF Handles, Unexpired

(* The application is handed the message after the one it answered last.   *)
LEMMA DeliverHandles ==
    ASSUME NEW x, Fine(x), NEW k \in x.arrived, k = Heard(x) + 2, x.next = 0
    PROVE  LET z == [x EXCEPT !.delivered = Append(@, k)]
           IN  Handles(x, z) /\ z.ec = x.ec /\ Heard(z) = k /\ z.session = x.session
               /\ z.next = 0 /\ z.fate = x.fate
<1> DEFINE z == [x EXCEPT !.delivered = Append(@, k)]
           L == Len(x.delivered)
<1>1. /\ x \in NodeStates /\ x.lastCtr \in Int /\ x.delivered \in Seq(AppMessage) /\ x.arrived \subseteq AppMessage
      /\ L \in Nat /\ k \in AppMessage /\ x.name \in Node
  BY NodeType, LenProperties DEF Fine, Counter
<1>2. /\ z.delivered = Append(x.delivered, k) /\ z.delivered \in Seq(AppMessage)
      /\ Len(z.delivered) = L + 1 /\ DOMAIN z.delivered = 1 .. L + 1
      /\ z.delivered[L + 1] = k
      /\ \A i \in 1 .. L : z.delivered[i] = x.delivered[i]
  BY <1>1, AppendProperties, LenProperties DEF NodeStates
<1>3. /\ z.ec = x.ec /\ z.session = x.session /\ z.fate = x.fate /\ z.name = x.name /\ z.timed = x.timed /\ z.peer = x.peer
      /\ z.arrived = x.arrived /\ z.next = x.next /\ z.lastCtr = x.lastCtr /\ z.out = x.out
  BY <1>1 DEF NodeStates
<1>4. z \in NodeStates
  BY <1>1, <1>2 DEF NodeStates
<1> HIDE DEF z
<1>5. Heard(x) \in Int /\ Heard(z) = Heard(x) + 2
  BY <1>1, <1>2, <1>3 DEF Heard
<1>6. RefCountExact(z) /\ CanAnswer(z) /\ TimerArmed(z)
  BY <1>3 DEF Fine, Owned, RefCountExact, CanAnswer, NeverSent, TimerArmed, WaitingForAck, HasSession
<1>7. EntryIsLastSent(z) /\ WaitFlagExact(z)
  BY <1>3 DEF Fine, Owned, EntryIsLastSent, WaitFlagExact, NeverSent, IsLastSent, IsSent, WaitingForAck
<1>8. TakesTurns(z)
  <2>1. ASSUME NEW i \in DOMAIN z.delivered
        PROVE  /\ z.delivered[i] = 2 * i - (IF z.name = "I" THEN 0 ELSE 1)
               /\ z.delivered[i] \in z.arrived
    <3>1. CASE i = L + 1
      <4>1. k = 2 * i - (IF x.name = "I" THEN 0 ELSE 1)
        BY <1>1, <3>1 DEF Heard
      <4> QED
        BY <1>2, <1>3, <3>1, <4>1
    <3>2. CASE i # L + 1
      <4>1. i \in 1 .. L /\ i \in DOMAIN x.delivered
        BY <1>1, <1>2, <3>2, LenProperties
      <4> QED
        BY <1>2, <1>3, <4>1 DEF Fine, TakesTurns
    <3> QED
      BY <3>1, <3>2
  <2>2. ASSUME NEW j \in AppMessage, IsSent(z, j)
        PROVE  Sender(j) = z.name /\ j <= Heard(z) + 1
    <3>1. Sender(j) = x.name /\ j <= Heard(x) + 1
      BY <1>3, <2>2 DEF Fine, TakesTurns, IsSent
    <3> QED
      BY <1>3, <1>5, <3>1 DEF AppMessage
  <2> QED
    BY <1>3, <2>1, <2>2 DEF TakesTurns
<1>9. OutInv(z) /\ Moves(x, z)
  BY <1>1, <1>3 DEF Fine, OutInv, Bears, IsSent, WaitingForAck, Moves
<1>10. Handles(x, z)
  BY <1>3, <1>4, <1>6, <1>7, <1>8, <1>9 DEF Handles, Fine, Owned, Unexpired
<1> QED
  BY <1>3, <1>5, <1>10 DEF z

(* The application promises to answer later.                               *)
LEMMA WillSendHandles ==
    ASSUME NEW x, Fine(x), x.ec.alloc, ~WaitingForAck(x), ~x.ec.respExpected, ~x.ec.closed,
           NEW k \in AppMessage, k = Heard(x) + 1, ~IsSent(x, k)
    PROVE  Handles(x, [x EXCEPT !.ec.willSend = TRUE, !.next = k])
<1> DEFINE z == [x EXCEPT !.ec.willSend = TRUE, !.next = k]
<1>1. x \in NodeStates /\ x.lastCtr \in Int /\ x.ec \in Contexts /\ k \in 0 .. NumMessages
  BY NodeType, ConversationAssumption DEF Fine, Counter, AppMessage
<1>2. z.ec = [x.ec EXCEPT !.willSend = TRUE] /\ z.next = k
  BY <1>1 DEF NodeStates, Contexts
<1>3. /\ z.session = x.session /\ z.fate = x.fate /\ z.name = x.name /\ z.timed = x.timed /\ z.peer = x.peer
      /\ z.arrived = x.arrived /\ z.delivered = x.delivered /\ z.lastCtr = x.lastCtr /\ z.out = x.out
  BY <1>1 DEF NodeStates
<1>4. z \in NodeStates
  BY <1>1 DEF NodeStates, Contexts
<1> HIDE DEF z
<1>5. /\ z.ec.alloc = x.ec.alloc /\ z.ec.refs = x.ec.refs /\ z.ec.closed = x.ec.closed
      /\ z.ec.respExpected = x.ec.respExpected /\ z.ec.waitRespOrAck = x.ec.waitRespOrAck
      /\ z.ec.timer = x.ec.timer /\ z.ec.entry = x.ec.entry
  BY <1>1, <1>2 DEF Contexts
<1>6. RefCountExact(z) /\ CanAnswer(z) /\ TimerArmed(z)
  BY <1>5 DEF Fine, Owned, RefCountExact, CanAnswer, NeverSent, TimerArmed, WaitingForAck
<1>7. EntryIsLastSent(z) /\ WaitFlagExact(z)
  BY <1>3, <1>5 DEF Fine, Owned, EntryIsLastSent, WaitFlagExact, NeverSent, IsLastSent, IsSent, WaitingForAck
<1>8. TakesTurns(z)
  <2>1. Heard(z) = Heard(x)
    BY <1>3 DEF Heard
  <2> QED
    BY <1>2, <1>3, <2>1 DEF TakesTurns, Fine, IsSent
<1>9. OutInv(z) /\ Moves(x, z)
  BY <1>1, <1>3, <1>5 DEF Fine, OutInv, Bears, IsSent, WaitingForAck, Moves
<1>10. Handles(x, z)
  BY <1>3, <1>4, <1>5, <1>6, <1>7, <1>8, <1>9 DEF Handles, Fine, Owned, Unexpired
<1> QED
  BY <1>10 DEF z

(* The application is handed the message and answers now, later or never.  *)
LEMMA OnMessageReceivedHandles ==
    ASSUME NEW x, Fine(x), x.ec.alloc, ~WaitingForAck(x), ~x.ec.respExpected, ~x.ec.closed,
           NEW k \in x.arrived, k = Heard(x) + 2, x.next = 0, NEW app, NEW ok \in Outcome
    PROVE  Handles(x, OnMessageReceived(x, k, app, ok))
<1> DEFINE g == [x EXCEPT !.delivered = Append(@, k)]
<1>1. /\ Handles(x, g) /\ g.ec = x.ec /\ Heard(g) = k /\ g.fate = x.fate
  BY DeliverHandles
<1>2. x \in NodeStates /\ k \in AppMessage
  BY NodeType DEF Fine
<1> HIDE DEF g
<1>3. Fine(g) /\ g.ec.alloc /\ ~WaitingForAck(g) /\ ~g.ec.respExpected /\ ~g.ec.closed
  BY <1>1 DEF Handles, WaitingForAck
<1>4. ASSUME k < NumMessages
      PROVE  k + 1 \in AppMessage /\ k + 1 = Heard(g) + 1 /\ ~IsSent(g, k + 1)
  <2>1. k + 1 \in AppMessage
    BY <1>2, <1>4, ConversationAssumption DEF AppMessage
  <2>2. k \in Int /\ Heard(x) = k - 2
    <3>1. Len(x.delivered) \in Nat
      BY <1>2, NodeType, LenProperties
    <3>2. Heard(x) \in Int
      BY <3>1 DEF Heard
    <3> QED
      BY <3>2
  <2>3. ~(k + 1 <= Heard(x) + 1)
    BY <2>2
  <2>4. ~IsSent(x, k + 1)
    BY <2>1, <2>3 DEF Fine, TakesTurns
  <2> QED
    BY <1>1, <2>1, <2>4 DEF IsSent
<1>5. CASE app = "now" /\ k < NumMessages
  <2>1. Handles(g, SendMessage(g, k + 1, ok))
    <3>1. Says(g, SendMessage(g, k + 1, ok)) /\ Unexpired(g, SendMessage(g, k + 1, ok))
      BY <1>3, <1>4, <1>5, SendMessageSays
    <3> QED
      BY <3>1 DEF Says, Handles
  <2>2. OnMessageReceived(x, k, app, ok) = SendMessage(g, k + 1, ok)
    BY <1>5 DEF OnMessageReceived, g
  <2> QED
    BY <1>1, <1>2, <2>1, <2>2, HandlesTransitive
<1>6. CASE app = "later" /\ k < NumMessages
  <2>1. Handles(g, [g EXCEPT !.ec.willSend = TRUE, !.next = k + 1])
    BY <1>3, <1>4, <1>6, WillSendHandles
  <2>2. OnMessageReceived(x, k, app, ok) = [g EXCEPT !.ec.willSend = TRUE, !.next = k + 1]
    BY <1>6 DEF OnMessageReceived, g
  <2> QED
    BY <1>1, <1>2, <2>1, <2>2, HandlesTransitive
<1>7. CASE ~(app = "now" /\ k < NumMessages) /\ ~(app = "later" /\ k < NumMessages)
  <2>1. OnMessageReceived(x, k, app, ok) = g
    BY <1>7 DEF OnMessageReceived, g
  <2> QED
    BY <1>1, <2>1
<1> QED
  BY <1>5, <1>6, <1>7

(* ExchangeContext::HandleMessage as a whole.                              *)
LEMMA HandleMessageHandles ==
    ASSUME NEW x, Fine(x), x.ec.alloc, NEW p \in Packet,
           NEW dup \in BOOLEAN, NEW app, NEW ok \in Outcome,
           (~dup /\ p.seq # 0) => (p.seq \in x.arrived /\ p.seq = Heard(x) + 2 /\ x.next = 0)
    PROVE  Handles(x, HandleMessage(x, p, dup, app, ok))
<1> DEFINE a == IF ~dup /\ p.ack # 0 THEN HandleRcvdAck(x, p.ack) ELSE x
           b == IF p.needsAck THEN HandleNeedsAck(a, p.ctr, dup, ok) ELSE a
           f == IF b.ec.closed THEN FlushAcks(b, ok) ELSE b
           w == IF f.ec.respExpected
                THEN [SetResponseExpected(f, FALSE) EXCEPT !.ec.timer = FALSE]
                ELSE f
           over == p.seq = 0 \/ dup \/ (b.ec.closed /\ b.ec.ackPending /\ AckFails(b, ok))
<1>1. x \in NodeStates /\ Owned(x) /\ p.ctr \in Counter
  BY DEF Fine, Packet
<1>2. Keeps(x, a)
  BY <1>1, HandleRcvdAckKeeps, KeepsReflexive
<1>3. a \in NodeStates /\ Owned(a) /\ a.ec.alloc
  BY <1>2 DEF Keeps, Quiet
<1> HIDE DEF a
<1>4. Keeps(a, b)
  BY <1>1, <1>3, HandleNeedsAckKeeps, KeepsReflexive
<1>5. b \in NodeStates /\ Owned(b) /\ b.ec.alloc
  BY <1>3, <1>4 DEF Keeps, Quiet
<1> HIDE DEF b
<1>6. Keeps(b, f)
  BY <1>5, SendAckKeeps, KeepsReflexive
<1>7. f \in NodeStates /\ Owned(f) /\ f.ec.alloc
  BY <1>5, <1>6 DEF Keeps, Quiet
<1> HIDE DEF f
<1>8. Keeps(x, f)
  BY <1>1, <1>2, <1>3, <1>4, <1>5, <1>6, KeepsTransitive
<1>9. Keeps(f, w) /\ w.ec.respExpected = FALSE /\ w.ec.closed = f.ec.closed /\ w.ec.entry = f.ec.entry
  <2>1. CASE f.ec.respExpected
    BY <1>7, <2>1, StopWaiting
  <2>2. CASE ~f.ec.respExpected
    <3>1. f.ec.respExpected = FALSE
      BY <1>7, <2>2, NodeType, ContextType
    <3> QED
      BY <1>7, <3>1, KeepsReflexive
  <2> QED
    BY <2>1, <2>2
<1> HIDE DEF w
<1>10. Keeps(x, w)
  BY <1>1, <1>7, <1>8, <1>9, KeepsTransitive
<1>11. w \in NodeStates /\ w.ec.alloc
  BY <1>10 DEF Keeps, Quiet
<1>12. CASE over
  <2>1. HandleMessage(x, p, dup, app, ok) = f
    BY <1>12 DEF HandleMessage, f, b, a
  <2> QED
    BY <1>8, <2>1, KeepsHandles
<1>13. CASE ~over /\ WaitingForAck(f)
  <2> DEFINE d == [f EXCEPT !.dropped = TRUE]
  <2>1. d \in NodeStates /\ d.ec = f.ec /\ SameRest(f, d)
    BY <1>7 DEF NodeStates, SameRest
  <2>2. Keeps(f, d)
    BY <1>7, <2>1, AckFieldsKeep DEF SameUse
  <2>3. HandleMessage(x, p, dup, app, ok) = MessageHandled(d, ok)
    BY <1>13 DEF HandleMessage, f, b, a
  <2> HIDE DEF d
  <2>4. Keeps(d, MessageHandled(d, ok))
    BY <1>7, <2>1, <2>2, MessageHandledKeeps DEF Keeps
  <2>5. Keeps(x, MessageHandled(d, ok))
    BY <1>1, <1>7, <1>8, <2>1, <2>2, <2>4, KeepsTransitive
  <2> QED
    BY <2>3, <2>5, KeepsHandles
<1>14. CASE ~over /\ ~WaitingForAck(f) /\ w.ec.closed
  <2>1. HandleMessage(x, p, dup, app, ok) = w
    BY <1>14 DEF HandleMessage, f, b, a, w
  <2> QED
    BY <1>10, <2>1, KeepsHandles
<1>15. CASE ~over /\ ~WaitingForAck(f) /\ ~w.ec.closed
  <2> DEFINE m == OnMessageReceived(w, p.seq, app, ok)
  <2>1. HandleMessage(x, p, dup, app, ok) = MessageHandled(m, ok)
    BY <1>15 DEF HandleMessage, f, b, a, w
  <2>2. Handles(x, w)
    BY <1>10, KeepsHandles
  <2>3. /\ w.arrived = x.arrived /\ w.next = x.next /\ w.delivered = x.delivered /\ w.name = x.name /\ w.timed = x.timed
    BY <1>10 DEF Keeps, Quiet
  <2>4. p.seq \in w.arrived /\ p.seq = Heard(w) + 2 /\ w.next = 0
    BY <1>15, <2>3 DEF Heard
  <2>5. ~WaitingForAck(w) /\ Fine(w)
    BY <1>9, <1>15, <2>2 DEF WaitingForAck, Handles
  <2>6. Handles(w, m)
    BY <1>9, <1>11, <1>15, <2>4, <2>5, OnMessageReceivedHandles
  <2> HIDE DEF m
  <2>7. Fine(m) /\ m.ec.alloc /\ m \in NodeStates /\ Owned(m)
    BY <1>11, <2>6 DEF Handles, Fine
  <2>8. Handles(m, MessageHandled(m, ok))
    BY <2>7, MessageHandledKeeps, KeepsHandles
  <2> QED
    BY <1>1, <1>11, <2>1, <2>2, <2>6, <2>7, <2>8, HandlesTransitive
<1> QED
  BY <1>12, <1>13, <1>14, <1>15

----------------------------------------------------------------------------
(* The replay window: what it has refused or taken it refuses from then on.*)
LEMMA CommitRefuses ==
    ASSUME NEW pc \in PeerCounters, NEW c \in Counter, VerifyEncryptedUnicast(pc, c)
    PROVE  /\ CommitEncryptedUnicast(pc, c) \in PeerCounters
           /\ ~VerifyEncryptedUnicast(CommitEncryptedUnicast(pc, c), c)
           /\ \A d \in Counter : ~VerifyEncryptedUnicast(pc, d)
                 => ~VerifyEncryptedUnicast(CommitEncryptedUnicast(pc, c), d)
<1> DEFINE q == CommitEncryptedUnicast(pc, c)
           refused(r, d) == d = r.max \/ (d < r.max /\ (r.max - d > WindowSize \/ (r.max - d) - 1 \in r.window))
<1>1. pc.max \in Counter /\ pc.window \in SUBSET (0 .. WindowSize - 1) /\ pc.status \in {"NotSynced", "Synced"}
  BY DEF PeerCounters
<1>2. ASSUME NEW r \in PeerCounters, NEW d \in Counter
      PROVE  ~VerifyEncryptedUnicast(r, d) <=> refused(r, d)
  <2>1. r.max \in Int /\ d \in Int
    BY DEF PeerCounters, Counter
  <2>2. CASE d > r.max
    <3>1. ClassifyWithoutRollover(r, d) = "FutureCounter"
      BY <2>2 DEF ClassifyWithoutRollover
    <3> QED
      BY <2>1, <2>2, <3>1 DEF VerifyEncryptedUnicast, VerifyPositionEncrypted
  <2>3. CASE d = r.max
    <3>1. ClassifyWithoutRollover(r, d) = "MaxCounter"
      BY <2>1, <2>3 DEF ClassifyWithoutRollover, ClassifyNonFutureCounter
    <3> QED
      BY <2>3, <3>1 DEF VerifyEncryptedUnicast, VerifyPositionEncrypted
  <2>4. CASE d < r.max
    <3>1. Minus(r.max, d) = r.max - d
      BY <2>1, <2>4 DEF Minus
    <3>2. ClassifyWithoutRollover(r, d) = IF r.max - d <= WindowSize THEN "InWindow" ELSE "BeforeWindow"
      BY <2>1, <2>4, <3>1 DEF ClassifyWithoutRollover, ClassifyNonFutureCounter
    <3>3. (r.max - d > WindowSize) <=> ~(r.max - d <= WindowSize)
      BY <2>1, WindowAssumption
    <3>4. d # r.max
      BY <2>1, <2>4
    <3> QED
      BY <2>4, <3>1, <3>2, <3>3, <3>4 DEF VerifyEncryptedUnicast, VerifyPositionEncrypted, WindowBit
  <2> QED
    BY <2>1, <2>2, <2>3, <2>4
<1>3. pc.max \in Int /\ c \in Int /\ WindowSize \in Nat \ {0}
  BY <1>1, WindowAssumption DEF Counter
<1>4. CASE c > pc.max
  <2> DEFINE s == c - pc.max
             sh == {b \in 0 .. WindowSize - 1 : b - s \in pc.window}
             win == IF s > WindowSize THEN {} ELSE sh \cup {s - 1}
  <2>1. q = [pc EXCEPT !.max = c, !.window = win]
    <3>1. Minus(c, pc.max) = s /\ ClassifyWithoutRollover(pc, c) = "FutureCounter"
      BY <1>3, <1>4 DEF ClassifyWithoutRollover, Minus
    <3> QED
      BY <3>1 DEF CommitEncryptedUnicast, CommitWithPosition
  <2>2. win \in SUBSET (0 .. WindowSize - 1)
    BY <1>3, <1>4
  <2>3. q \in PeerCounters /\ q.max = c /\ q.window = win
    <3> HIDE DEF win
    <3> QED
      BY <2>1, <2>2 DEF PeerCounters
  <2> HIDE DEF q
  <2>4. ~VerifyEncryptedUnicast(q, c)
    BY <1>2, <2>3
  <2>5. ASSUME NEW d \in Counter, refused(pc, d) PROVE refused(q, d)
    <3>1. d \in Int /\ d <= pc.max /\ d < c
      BY <1>3, <1>4, <2>5 DEF Counter
    <3>2. CASE c - d > WindowSize
      BY <2>3, <3>1, <3>2
    <3>3. CASE c - d <= WindowSize
      <4>1. (c - d) - 1 \in win
        <5>1. s <= WindowSize /\ s \in Int /\ s > 0
          BY <1>3, <1>4, <3>1, <3>3
        <5>a. win = sh \cup {s - 1}
          BY <5>1, <1>3
        <5>2. CASE d = pc.max
          <6>1. (c - d) - 1 = s - 1
            BY <1>3, <5>2
          <6> QED
            BY <5>a, <6>1
        <5>3. CASE d < pc.max
          <6>1. (pc.max - d) - 1 \in pc.window
            BY <1>3, <1>4, <2>5, <3>1, <3>3, <5>3
          <6>2. ((c - d) - 1) - s = (pc.max - d) - 1 /\ (c - d) - 1 \in 0 .. WindowSize - 1
            BY <1>3, <1>4, <3>1, <3>3
          <6> HIDE DEF s
          <6>3. (c - d) - 1 \in sh
            BY <6>1, <6>2
          <6> QED
            BY <5>a, <6>3
        <5> QED
          BY <1>3, <3>1, <5>2, <5>3
      <4> QED
        BY <2>3, <3>1, <4>1
    <3> QED
      BY <1>3, <3>1, <3>2, <3>3
  <2>6. ASSUME NEW d \in Counter, ~VerifyEncryptedUnicast(pc, d)
        PROVE  ~VerifyEncryptedUnicast(q, d)
    BY <1>2, <2>3, <2>5, <2>6
  <2> QED
    BY <2>3, <2>4, <2>6 DEF q
<1>5. CASE c <= pc.max
  <2> DEFINE b == (pc.max - c) - 1
  <2>1. c # pc.max /\ pc.max - c <= WindowSize
    <3>1. ~refused(pc, c)
      BY <1>2
    <3> QED
      BY <1>3, <1>5, <3>1
  <2>2. q = [pc EXCEPT !.window = @ \cup {b}]
    BY <1>3, <1>5, <2>1
    DEF CommitEncryptedUnicast, CommitWithPosition, ClassifyWithoutRollover, ClassifyNonFutureCounter, Minus
  <2>3. b \in 0 .. WindowSize - 1
    BY <1>3, <1>5, <2>1
  <2> HIDE DEF b
  <2>4. q \in PeerCounters /\ q.max = pc.max /\ q.window = pc.window \cup {b}
    BY <1>1, <2>2, <2>3 DEF PeerCounters
  <2> HIDE DEF q
  <2>5. refused(q, c)
    BY <1>3, <1>5, <2>1, <2>4 DEF b
  <2>6. ASSUME NEW d \in Counter, refused(pc, d) PROVE refused(q, d)
    BY <2>4, <2>6
  <2>7. ASSUME NEW d \in Counter, ~VerifyEncryptedUnicast(pc, d)
        PROVE  ~VerifyEncryptedUnicast(q, d)
    BY <1>2, <2>4, <2>6, <2>7
  <2>8. ~VerifyEncryptedUnicast(q, c)
    BY <1>2, <2>4, <2>5
  <2> QED
    BY <2>4, <2>7, <2>8 DEF q
<1> QED
  BY <1>3, <1>4, <1>5

----------------------------------------------------------------------------
(* Steps.  What a node may take from the network: a packet p, when it does.*)
Takes(x, z, p) ==
    \/ z.peer = x.peer /\ z.arrived = x.arrived
    \/ /\ p \in net /\ p.from = Peer(x.name)
       /\ VerifyEncryptedUnicast(x.peer, p.ctr)
       /\ z.peer = CommitEncryptedUnicast(x.peer, p.ctr)
       /\ z.arrived = IF p.seq = 0 THEN x.arrived ELSE x.arrived \cup {p.seq}

(* The invariant, as it concerns one node.                                 *)
LEMMA InvFacts ==
    ASSUME ExchangeInv, NEW n \in Node
    PROVE  /\ node[n] \in NodeStates /\ node[n].name = n /\ node[n].out = {} /\ Fine(node[n])
           /\ Peer(n) \in Node /\ Peer(n) # n /\ Peer(Peer(n)) = n
           /\ \A j \in Node : j = n \/ j = Peer(n)
<1>1. /\ node[n] \in NodeStates /\ node[n].name = n /\ node[n].out = {} /\ NodeInv(node[n])
  BY DEF ExchangeInv, TypeOK
<1>2. /\ Peer(n) \in Node /\ Peer(n) # n /\ Peer(Peer(n)) = n
      /\ \A j \in Node : j = n \/ j = Peer(n)
  BY DEF Peer, Node
<1>3. OutInv(node[n])
  BY <1>1 DEF OutInv, Bears
<1> QED
  BY <1>1, <1>2, <1>3 DEF Fine, NodeInv, Owned

(* Who carries a message has it from its sender.                           *)
LEMMA CarriedIsSent ==
    ASSUME ExchangeInv, NEW k \in AppMessage, NEW c, Carries(k, c)
    PROVE  \E n \in Node : IsSent(node[n], k) /\ Sender(k) = n
<1>1. \E n \in Node : IsSent(node[n], k)
  <2>1. CASE \E p \in net : p.seq = k /\ p.ctr = c
    <3>1. PICK p \in net : p.seq = k
      BY <2>1
    <3>2. p.from \in Node /\ k # 0
      BY ConversationAssumption DEF ExchangeInv, TypeOK, Packet, AppMessage
    <3> QED
      BY <3>1, <3>2 DEF ExchangeInv, PacketsAreSent
  <2>2. CASE \E n \in Node : WaitingForAck(node[n]) /\ node[n].ec.entry.seq = k /\ node[n].ec.entry.ctr = c
    BY <2>2 DEF ExchangeInv, NodeInv, EntryIsLastSent, IsLastSent
  <2> QED
    BY <2>1, <2>2 DEF Carries
<1> QED
  BY <1>1 DEF ExchangeInv, NodeInv, TakesTurns, TypeOK

(* A node that ends its step in v, with packets v.out, keeps the invariant.*)
LEMMA Landing ==
    ASSUME ExchangeInv, NEW n \in Node, NEW v, NEW left \in SUBSET net, NEW p,
           Fine(v), Moves(node[n], v), Takes(node[n], v, p),
           node' = [node EXCEPT ![n] = [v EXCEPT !.out = {}]],
           net' = left \cup v.out,
           dups' \in 0 .. MaxDups, errors' \in 0 .. MaxErrors
    PROVE  ExchangeInv'
<1> DEFINE x == node[n]
           m == Peer(n)
           w == node[m]
           z == [v EXCEPT !.out = {}]
<1>1. /\ x \in NodeStates /\ w \in NodeStates /\ x.name = n /\ w.name = m /\ x.out = {} /\ w.out = {}
      /\ m \in Node /\ m # n /\ Peer(m) = n /\ \A j \in Node : j = n \/ j = m
      /\ NodeInv(w) /\ node \in [Node -> NodeStates] /\ net \subseteq Packet
  BY InvFacts DEF ExchangeInv, TypeOK
<1>2. v \in NodeStates /\ v.name = n /\ v.out \subseteq Packet
  BY <1>1, NodeType DEF Fine, Moves
<1>3. /\ z \in NodeStates /\ z.out = {} /\ z.ec = v.ec /\ z.name = n /\ z.timed = v.timed /\ z.lastCtr = v.lastCtr /\ z.peer = v.peer
      /\ z.session = v.session /\ z.next = v.next /\ z.fate = v.fate /\ z.arrived = v.arrived
      /\ z.delivered = v.delivered
  BY <1>2 DEF NodeStates
<1> HIDE DEF z
<1>4. /\ node' \in [Node -> NodeStates] /\ node'[n] = z /\ node'[m] = w
  BY <1>1, <1>3 DEF z
<1> HIDE DEF m
<1>5. TypeOK'
  <2>1. net' \subseteq Packet
    BY <1>1, <1>2
  <2>2. \A j \in Node : node'[j].name = j /\ node'[j].out = {}
    BY <1>1, <1>3, <1>4
  <2> QED
    BY <1>4, <2>1, <2>2 DEF TypeOK
<1>6. NodeInv(z)
  <2>1. RefCountExact(z) /\ CanAnswer(z) /\ TimerArmed(z)
    BY <1>3 DEF Fine, Owned, RefCountExact, CanAnswer, NeverSent, TimerArmed, WaitingForAck, HasSession
  <2>2. EntryIsLastSent(z) /\ WaitFlagExact(z)
    BY <1>3 DEF Fine, Owned, EntryIsLastSent, WaitFlagExact, NeverSent, IsLastSent, IsSent, WaitingForAck
  <2>3. TakesTurns(z)
    <3>1. Heard(z) = Heard(v)
      BY <1>2, <1>3 DEF Heard
    <3> QED
      BY <1>2, <1>3, <3>1 DEF Fine, TakesTurns, IsSent
  <2> QED
    BY <2>1, <2>2, <2>3 DEF NodeInv
<1>7. \A j \in Node : NodeInv(node'[j])
  BY <1>1, <1>4, <1>6
<1>8. /\ \A k \in AppMessage : IsSent(x, k) => IsSent(z, k)
      /\ \A k \in AppMessage : IsSent(v, k) <=> IsSent(z, k)
      /\ \A k \in AppMessage : IsSent(z, k) => Sender(k) = n
      /\ \A k \in AppMessage : IsSent(w, k) => Sender(k) = m
  BY <1>1, <1>3, <1>6 DEF Moves, IsSent, NodeInv, TakesTurns
<1>9. PacketsAreSent'
  <2> SUFFICES ASSUME NEW q \in net'
               PROVE  /\ q.ctr \in 1 .. node'[q.from].lastCtr /\ (q.needsAck <=> q.seq # 0)
                      /\ q.seq # 0 => IsSent(node'[q.from], q.seq)
    BY DEF PacketsAreSent, IsSent
  <2>0. q \in Packet /\ q.from \in Node /\ (q.seq # 0 => q.seq \in AppMessage)
    BY <1>5, ConversationAssumption DEF TypeOK, Packet, AppMessage
  <2>1. CASE q \in v.out
    <3>1. /\ q.from = n /\ q.ctr \in 1 .. v.lastCtr /\ (q.needsAck <=> q.seq # 0)
          /\ q.seq # 0 => IsSent(v, q.seq)
      BY <1>2, <2>1 DEF Fine, OutInv
    <3> QED
      BY <1>3, <1>4, <1>8, <2>0, <3>1
  <2>2. CASE q \in net
    <3>1. /\ q.ctr \in 1 .. node[q.from].lastCtr /\ (q.needsAck <=> q.seq # 0)
          /\ q.seq # 0 => IsSent(node[q.from], q.seq)
      BY <2>2 DEF ExchangeInv, PacketsAreSent
    <3>2. CASE q.from = n
      <4>1. x.lastCtr \in Int /\ z.lastCtr \in Int /\ x.lastCtr <= z.lastCtr
        BY <1>1, <1>3, NodeType DEF Moves, Counter
      <4>2. q.ctr \in 1 .. x.lastCtr
        BY <3>1, <3>2
      <4>3. q.ctr \in 1 .. z.lastCtr
        BY <4>1, <4>2
      <4>4. q.seq # 0 => IsSent(z, q.seq)
        BY <1>8, <2>0, <3>1, <3>2
      <4> QED
        BY <1>4, <3>1, <3>2, <4>3, <4>4
    <3>3. CASE q.from = m
      BY <1>4, <3>1, <3>3
    <3> QED
      BY <1>1, <2>0, <3>2, <3>3
  <2> QED
    BY <2>1, <2>2
<1>10. ASSUME NEW k \in AppMessage, NEW c \in Counter, Carries(k, c)'
       PROVE  Carries(k, c) \/ (Bears(v, k, c) /\ ~IsSent(x, k))
  <2>1. \/ \E q \in net' : q.seq = k /\ q.ctr = c
        \/ \E j \in Node : WaitingForAck(node'[j]) /\ node'[j].ec.entry.seq = k /\ node'[j].ec.entry.ctr = c
    BY <1>10 DEF Carries, WaitingForAck
  <2>2. Bears(v, k, c) \/ Carries(k, c)
    <3>1. CASE \E q \in net' : q.seq = k /\ q.ctr = c
      BY <3>1 DEF Bears, Carries
    <3>2. CASE \E j \in Node : WaitingForAck(node'[j]) /\ node'[j].ec.entry.seq = k /\ node'[j].ec.entry.ctr = c
      BY <1>1, <1>3, <1>4, <3>2 DEF Bears, Carries, WaitingForAck
    <3> QED
      BY <2>1, <3>1, <3>2
  <2>3. Bears(x, k, c) => Carries(k, c)
    BY <1>1 DEF Bears, Carries
  <2> QED
    BY <2>2, <2>3 DEF Moves
<1>11. ASSUME NEW k \in AppMessage, NEW c \in Counter, Bears(v, k, c)
       PROVE  IsSent(z, k) /\ Sender(k) = n
  <2>1. k # 0
    BY ConversationAssumption DEF AppMessage
  <2>2. IsSent(v, k)
    BY <1>11, <2>1 DEF Bears, Fine, OutInv, Owned, EntryIsLastSent, IsLastSent
  <2> QED
    BY <1>8, <2>2
<1>12. ASSUME NEW k \in AppMessage, NEW j \in Node, k \in node'[j].arrived
       PROVE  IsSent(node'[Peer(j)], k)
  <2>1. CASE j = m
    BY <1>1, <1>4, <1>8, <1>12, <2>1 DEF ExchangeInv, ArrivesOnce
  <2>2. CASE j = n
    <3>1. CASE k \in x.arrived
      BY <1>1, <1>4, <2>2, <3>1 DEF ExchangeInv, ArrivesOnce, m
    <3>2. CASE k \notin x.arrived
      <4>1. p \in net /\ p.from = m /\ p.seq = k
        BY <1>1, <1>3, <1>4, <1>12, <2>2, <3>2 DEF Takes, m
      <4>2. k # 0
        BY ConversationAssumption DEF AppMessage
      <4> QED
        BY <1>4, <2>2, <4>1, <4>2 DEF ExchangeInv, PacketsAreSent, m
    <3> QED
      BY <3>1, <3>2
  <2> QED
    BY <1>1, <2>1, <2>2
<1>13. ASSUME NEW k \in AppMessage, NEW c \in Counter, NEW d \in Counter, Carries(k, c)', Carries(k, d)'
       PROVE  c = d
  <2>1. CASE Carries(k, c) /\ Carries(k, d)
    BY <2>1 DEF ExchangeInv, ArrivesOnce
  <2>2. CASE Bears(v, k, c) /\ Bears(v, k, d)
    BY <2>2 DEF Fine, OutInv
  <2>3. ASSUME NEW e \in Counter, NEW f \in Counter, Carries(k, e), Bears(v, k, f), ~IsSent(x, k)
        PROVE  FALSE
    <3>1. PICK j \in Node : IsSent(node[j], k) /\ Sender(k) = j
      BY <2>3, CarriedIsSent
    <3>2. Sender(k) = n
      BY <1>11, <2>3
    <3> QED
      BY <2>3, <3>1, <3>2
  <2> QED
    BY <1>10, <1>13, <2>1, <2>2, <2>3
<1>14. ASSUME NEW k \in AppMessage, NEW c \in Counter, NEW j \in Node, Carries(k, c)', k \in node'[j].arrived
       PROVE  ~VerifyEncryptedUnicast(node'[j].peer, c)
  <2>1. IsSent(node'[Peer(j)], k)
    BY <1>12, <1>14
  <2>2. CASE j = m
    <3>1. k \in w.arrived /\ IsSent(x, k)
      BY <1>1, <1>4, <1>14, <2>2 DEF ExchangeInv, ArrivesOnce
    <3>2. Carries(k, c)
      BY <1>10, <1>14, <3>1
    <3> QED
      BY <1>4, <2>2, <3>1, <3>2 DEF ExchangeInv, ArrivesOnce
  <2>3. CASE j = n
    <3>1. IsSent(w, k) /\ Sender(k) = m
      BY <1>4, <1>8, <2>1, <2>3 DEF m
    <3>2. Carries(k, c)
      BY <1>1, <1>10, <1>11, <1>14, <3>1
    <3>3. k \in x.arrived => ~VerifyEncryptedUnicast(x.peer, c)
      BY <3>2 DEF ExchangeInv, ArrivesOnce
    <3>4. CASE v.peer = x.peer /\ v.arrived = x.arrived
      BY <1>3, <1>4, <1>14, <2>3, <3>3, <3>4
    <3>5. CASE ~(v.peer = x.peer /\ v.arrived = x.arrived)
      <4>1. /\ p \in net /\ VerifyEncryptedUnicast(x.peer, p.ctr)
            /\ v.peer = CommitEncryptedUnicast(x.peer, p.ctr)
            /\ k \in x.arrived \/ k = p.seq
        BY <1>3, <1>4, <1>14, <2>3, <3>5 DEF Takes
      <4>2. p.ctr \in Counter /\ x.peer \in PeerCounters
        BY <1>1, <4>1, NodeType DEF Packet
      <4>3. CASE k \in x.arrived
        BY <1>3, <1>4, <2>3, <3>3, <4>1, <4>2, <4>3, CommitRefuses
      <4>4. CASE k = p.seq
        <5>1. Carries(k, p.ctr)
          BY <4>1, <4>4 DEF Carries
        <5>2. c = p.ctr
          BY <3>2, <4>2, <5>1 DEF ExchangeInv, ArrivesOnce
        <5> QED
          BY <1>3, <1>4, <2>3, <4>1, <4>2, <5>2, CommitRefuses
      <4> QED
        BY <4>1, <4>3, <4>4
    <3> QED
      BY <3>4, <3>5
  <2> QED
    BY <1>1, <2>2, <2>3
<1>15. ArrivesOnce'
  BY <1>12, <1>13, <1>14 DEF ArrivesOnce, IsSent, VerifyEncryptedUnicast
<1> QED
  BY <1>5, <1>7, <1>9, <1>15 DEF ExchangeInv

(* The context goes back to the pool with its last reference.              *)
LEMMA FreeFine ==
    ASSUME NEW x \in NodeStates, NEW y, Fine(y), Moves(x, y)
    PROVE  /\ Fine(Free(y)) /\ Moves(x, Free(y)) /\ Free(y).out = y.out /\ Free(y).fate = y.fate
           /\ Free(y).peer = y.peer /\ Free(y).arrived = y.arrived
           /\ Free(y).hang = y.hang
           /\ (Free(y).ec = y.ec \/ y.ec.refs = 0)
<1>1. CASE ~(y.ec.alloc /\ y.ec.refs = 0)
  BY <1>1 DEF Free
<1>2. CASE y.ec.alloc /\ y.ec.refs = 0
  <2> DEFINE z == [y EXCEPT !.ec = NoExchange]
  <2>1. Free(y) = z /\ y \in NodeStates
    BY <1>2 DEF Free, Fine
  <2>2. NoExchange \in Contexts
    BY ConversationAssumption, WindowAssumption
    DEF NoExchange, Contexts, NoEntry, Entries, Counter, CounterRange
  <2>3. /\ z \in NodeStates /\ z.ec = NoExchange /\ z.name = y.name /\ z.timed = y.timed /\ z.lastCtr = y.lastCtr /\ z.peer = y.peer
        /\ z.session = y.session /\ z.next = y.next /\ z.fate = y.fate /\ z.arrived = y.arrived
        /\ z.delivered = y.delivered /\ z.out = y.out /\ z.hang = y.hang
    BY <2>1, <2>2 DEF NodeStates
  <2> HIDE DEF z
  <2>4. Owned(z) /\ ~WaitingForAck(z)
    BY <2>3 DEF Owned, RefCountExact, CanAnswer, NeverSent, EntryIsLastSent, WaitFlagExact, TimerArmed,
                WaitingForAck, NoExchange
  <2>5. TakesTurns(z)
    <3>1. Heard(z) = Heard(y)
      BY <2>3 DEF Heard
    <3> QED
      BY <2>3, <3>1 DEF Fine, TakesTurns, IsSent
  <2>6. \A k \in AppMessage, c \in Counter : Bears(z, k, c) => Bears(y, k, c)
    BY <2>3, <2>4 DEF Bears
  <2>7. OutInv(z) /\ Moves(x, z)
    BY <2>3, <2>6 DEF Fine, OutInv, Moves, IsSent
  <2>8. Fine(z)
    BY <2>3, <2>4, <2>5, <2>7 DEF Fine
  <2> QED
    BY <1>2, <2>1, <2>3, <2>7, <2>8
<1> QED
  BY <1>1, <1>2

(* The end of an action: a node that has become y keeps the invariant.     *)
LEMMA BecomeKeeps ==
    ASSUME ExchangeInv, NEW n \in Node, NEW y, NEW ok \in Outcome, NEW left \in SUBSET net, NEW p,
           Fine(y), Moves(node[n], y), Takes(node[n], y, p),
           Become(n, y, ok, left), dups' \in 0 .. MaxDups
    PROVE  ExchangeInv'
<1> DEFINE v == Free(y)
<1>1. /\ Fine(v) /\ Moves(node[n], v) /\ v.out = y.out /\ v.peer = y.peer /\ v.arrived = y.arrived
  BY InvFacts, FreeFine
<1>2. Takes(node[n], v, p)
  BY <1>1 DEF Takes
<1>3. errors' \in 0 .. MaxErrors
  BY ConversationAssumption DEF Become, ExchangeInv, TypeOK
<1>4. node' = [node EXCEPT ![n] = [v EXCEPT !.out = {}]] /\ net' = left \cup v.out
  BY <1>1 DEF Become
<1> HIDE DEF v
<1> QED
  BY <1>1, <1>2, <1>3, <1>4, Landing

(* What ExpiredIsReported asks of a step.                                  *)
Reports ==
    \A n \in Node : \A k \in AppMessage :
        node[n].fate[k] # "expired" /\ node'[n].fate[k] = "expired" =>
            \/ node'[n].hang \/ node'[n].ec.timer
            \/ ~node[n].timed /\ node[n].ec.respExpected

(* A step in which no message expires has nothing to report.               *)
LEMMA BecomeReports ==
    ASSUME ExchangeInv, NEW n \in Node, NEW y, NEW ok, NEW left,
           y \in NodeStates, Unexpired(node[n], y), Become(n, y, ok, left)
    PROVE  Reports
<1>1. node'[n].fate = y.fate /\ \A j \in Node : j # n => node'[j] = node[j]
  <2>1. Free(y) \in NodeStates /\ Free(y).fate = y.fate
    <3>1. NoExchange \in Contexts
      BY ConversationAssumption, WindowAssumption
      DEF NoExchange, Contexts, NoEntry, Entries, Counter, CounterRange
    <3> QED
      BY <3>1 DEF Free, NodeStates
  <2>2. [Free(y) EXCEPT !.out = {}].fate = y.fate
    BY <2>1 DEF NodeStates
  <2> QED
    BY <2>2 DEF Become, ExchangeInv, TypeOK
<1> QED
  BY <1>1 DEF Reports, Unexpired

(* Most actions end like this.                                             *)
LEMMA StepKeeps ==
    ASSUME ExchangeInv, NEW n \in Node, NEW y, NEW ok \in Outcome, NEW left \in SUBSET net,
           Fine(y), Moves(node[n], y), y.peer = node[n].peer, y.arrived = node[n].arrived,
           Unexpired(node[n], y), Become(n, y, ok, left), dups' \in 0 .. MaxDups
    PROVE  ExchangeInv' /\ Reports
<1>1. Takes(node[n], y, y)
  BY DEF Takes
<1>2. ExchangeInv'
  BY <1>1, BecomeKeeps
<1>3. Reports
  BY BecomeReports DEF Fine
<1> QED
  BY <1>2, <1>3

(* The actions that send nothing but acks end like this.                   *)
LEMMA QuietStepKeeps ==
    ASSUME ExchangeInv, NEW n \in Node, NEW y, NEW ok \in Outcome,
           Keeps(node[n], y), Become(n, y, ok, net), UNCHANGED dups
    PROVE  ExchangeInv' /\ Reports
<1>1. Handles(node[n], y)
  BY InvFacts, KeepsHandles
<1>2. dups' \in 0 .. MaxDups
  BY DEF ExchangeInv, TypeOK
<1> QED
  BY <1>1, <1>2, StepKeeps DEF Handles

(* A new context.                                                          *)
LEMMA OpenFine ==
    ASSUME NEW x, Fine(x), ~x.ec.alloc
    PROVE  LET z == [x EXCEPT !.ec = NewExchange(x.name)]
           IN  /\ Fine(z) /\ Moves(x, z) /\ Unexpired(x, z) /\ z.ec.alloc
               /\ z.peer = x.peer /\ z.arrived = x.arrived /\ z.delivered = x.delivered
               /\ z.name = x.name /\ z.timed = x.timed /\ z.next = x.next /\ z.out = x.out
<1> DEFINE b == (x.name = "I")
           e == NewExchange(x.name)
           z == [x EXCEPT !.ec = e]
<1>1. x \in NodeStates /\ x.lastCtr \in Int
  BY NodeType DEF Fine, Counter
<1>2. e \in Contexts
  <2>1. NoExchange \in Contexts
    BY ConversationAssumption, WindowAssumption
    DEF NoExchange, Contexts, NoEntry, Entries, Counter, CounterRange
  <2>2. e = [NoExchange EXCEPT !.alloc = TRUE, !.refs = 1, !.willSend = b]
    BY DEF NewExchange
  <2>3. b \in BOOLEAN /\ 1 \in 0 .. 2
    OBVIOUS
  <2> HIDE DEF b, e
  <2> QED
    BY <2>1, <2>2, <2>3 DEF Contexts
<1>3. /\ e.alloc = TRUE /\ e.refs = 1 /\ e.closed = FALSE /\ e.respExpected = FALSE
      /\ e.waitRespOrAck = FALSE /\ e.entry = NoEntry
  BY DEF NewExchange, NoExchange
<1> HIDE DEF e
<1>4. /\ z \in NodeStates /\ z.ec = e /\ z.name = x.name /\ z.timed = x.timed /\ z.lastCtr = x.lastCtr /\ z.peer = x.peer
      /\ z.session = x.session /\ z.next = x.next /\ z.fate = x.fate /\ z.arrived = x.arrived
      /\ z.delivered = x.delivered /\ z.out = x.out
  BY <1>1, <1>2 DEF NodeStates
<1> HIDE DEF z
<1>5. Owned(z) /\ ~WaitingForAck(z)
  BY <1>3, <1>4 DEF Owned, RefCountExact, CanAnswer, NeverSent, EntryIsLastSent, WaitFlagExact, TimerArmed, WaitingForAck
<1>6. TakesTurns(z)
  <2>1. Heard(z) = Heard(x)
    BY <1>4 DEF Heard
  <2> QED
    BY <1>4, <2>1 DEF Fine, TakesTurns, IsSent
<1>7. \A k \in AppMessage, c \in Counter : Bears(z, k, c) => Bears(x, k, c)
  BY <1>4, <1>5 DEF Bears
<1>8. OutInv(z) /\ Moves(x, z) /\ Unexpired(x, z)
  BY <1>1, <1>4, <1>7 DEF Fine, OutInv, Moves, IsSent, Unexpired
<1>9. /\ Fine(z) /\ Moves(x, z) /\ Unexpired(x, z) /\ z.ec.alloc
      /\ z.peer = x.peer /\ z.arrived = x.arrived /\ z.delivered = x.delivered
      /\ z.name = x.name /\ z.timed = x.timed /\ z.next = x.next /\ z.out = x.out
  BY <1>3, <1>4, <1>5, <1>6, <1>8 DEF Fine
<1> QED
  BY <1>9 DEF z, e

(* ExchangeManager::NewContext.                                            *)
LEMMA NewContextKeeps == ExchangeInv /\ NewContext => ExchangeInv' /\ Reports
<1> SUFFICES ASSUME ExchangeInv, NewContext PROVE ExchangeInv' /\ Reports
  OBVIOUS
<1> DEFINE x == node["I"]
           v == [x EXCEPT !.ec = NewExchange(x.name)]
<1>0. "I" \in Node
  BY DEF Node
<1>1. Fine(x) /\ x.name = "I" /\ x.out = {} /\ ~x.ec.alloc
  BY <1>0, InvFacts DEF NewContext
<1>2. /\ Fine(v) /\ Moves(x, v) /\ Unexpired(x, v) /\ v.peer = x.peer /\ v.arrived = x.arrived /\ v.out = x.out
  BY <1>1, OpenFine
<1>3. node' = [node EXCEPT !["I"] = v] /\ node \in [Node -> NodeStates]
  BY <1>0, <1>1 DEF NewContext, ExchangeInv, TypeOK
<1> HIDE DEF v
<1>4. v = [v EXCEPT !.out = {}] /\ net' = net \cup v.out
  BY <1>1, <1>2 DEF Fine, NodeStates, NewContext
<1>5. Takes(x, v, v)
  BY <1>2 DEF Takes
<1>6. dups' \in 0 .. MaxDups /\ errors' \in 0 .. MaxErrors
  BY DEF NewContext, ExchangeInv, TypeOK
<1>7. ExchangeInv'
  BY <1>0, <1>2, <1>3, <1>4, <1>5, <1>6, Landing
<1>8. Reports
  BY <1>0, <1>2, <1>3 DEF Reports, Unexpired
<1> QED
  BY <1>7, <1>8

(* The application sends what it owes: the table has room for it.          *)
LEMMA AppSendKeeps ==
    ASSUME ExchangeInv, NEW n \in Node, NEW ok \in Outcome, AppSend(n, ok)
    PROVE  ExchangeInv' /\ Reports
<1> DEFINE x == node[n]
           y == SendMessage(x, x.next, ok)
<1>1. Fine(x) /\ x \in NodeStates
  BY InvFacts
<1>2. x.ec.alloc /\ x.ec.willSend /\ x.next # 0 /\ Become(n, y, ok, net) /\ UNCHANGED dups
  BY DEF AppSend
<1>3. x.next \in AppMessage
  BY <1>1, <1>2, NodeType, ConversationAssumption DEF AppMessage
<1>4. /\ HasSession(x) => ~x.ec.closed
      /\ x.ec.respExpected => NeverSent(x)
      /\ x.next = Heard(x) + 1 /\ ~IsSent(x, x.next)
  BY <1>1, <1>2 DEF Fine, Owned, CanAnswer, TakesTurns
<1>5. Says(x, y) /\ Unexpired(x, y)
  BY <1>1, <1>2, <1>3, <1>4, SendMessageSays
<1>6. dups' \in 0 .. MaxDups
  BY <1>2 DEF ExchangeInv, TypeOK
<1> QED
  BY <1>2, <1>5, <1>6, StepKeeps DEF Says

(* The application closes or aborts an exchange that awaits a response.    *)
LEMMA AppLeaveKeeps ==
    ASSUME ExchangeInv, NEW n \in Node, NEW how \in AppCloses, NEW ok \in Outcome, AppLeave(n, how, ok)
    PROVE  ExchangeInv' /\ Reports
<1> DEFINE x == node[n]
           clear == (how # "Close")
<1>1. Fine(x) /\ x \in NodeStates /\ Owned(x)
  BY InvFacts DEF Fine
<1>2. x.ec.alloc /\ x.ec.respExpected /\ ~x.ec.willSend /\ ~x.ec.closed /\ UNCHANGED dups
  BY DEF AppLeave
<1>3. Become(n, Release(DoClose(x, clear, ok)), ok, net)
  BY DEF AppLeave, Close, Abort
<1>4. Keeps(x, Release(DoClose(x, clear, ok)))
  BY <1>1, <1>2, CloseKeeps
<1> QED
  BY <1>2, <1>3, <1>4, QuietStepKeeps

(* ExecuteActions sends an ack that is due.                                *)
LEMMA AckTimeoutKeeps ==
    ASSUME ExchangeInv, NEW n \in Node, NEW ok \in Outcome, AckTimeout(n, ok)
    PROVE  ExchangeInv' /\ Reports
<1>1. node[n] \in NodeStates /\ Owned(node[n])
  BY InvFacts DEF Fine
<1>2. node[n].ec.alloc
  BY <1>1 DEF AckTimeout, Owned, RefCountExact, NoExchange
<1> QED
  BY <1>1, <1>2, SendAckKeeps, QuietStepKeeps DEF AckTimeout

(* NotifyResponseTimeout, with and without the closing at its end.         *)
LEMMA NotifyKeeps ==
    ASSUME NEW x \in NodeStates, Owned(x), x.ec.alloc, NEW close \in BOOLEAN, NEW ok \in Outcome
    PROVE  LET z == NotifyResponseTimeout(x, close, ok)
           IN  /\ Keeps(x, z)
               /\ ~close => z.ec.closed = x.ec.closed /\ z.ec.willSend = x.ec.willSend
<1> DEFINE e == [SetResponseExpected(x, FALSE) EXCEPT !.ec.timer = FALSE]
           t == IF HasSession(x) /\ x.ec.waitRespOrAck
                THEN [MarkAsDefunct(e) EXCEPT !.hang = TRUE] ELSE e
<1>1. Keeps(x, e) /\ e.ec.closed = x.ec.closed /\ e.ec.willSend = x.ec.willSend
  BY StopWaiting
<1>2. e \in NodeStates /\ Owned(e)
  BY <1>1 DEF Keeps
<1> HIDE DEF e
<1>3. Keeps(e, t) /\ t.ec = e.ec
  BY <1>2, MarkKeeps, KeepsReflexive
<1>4. NotifyResponseTimeout(x, close, ok) = IF close THEN MessageHandled(t, ok) ELSE t
  BY DEF NotifyResponseTimeout, e
<1> HIDE DEF t
<1>5. Keeps(x, t) /\ t \in NodeStates /\ Owned(t) /\ t.ec.alloc
  <2>1. Keeps(x, t)
    BY <1>1, <1>3, KeepsTransitive
  <2> QED
    BY <2>1 DEF Keeps, Quiet
<1>6. Keeps(x, MessageHandled(t, ok))
  BY <1>5, MessageHandledKeeps, KeepsTransitive
<1> QED
  BY <1>1, <1>3, <1>4, <1>5, <1>6

(* The response timer fires.                                               *)
LEMMA ResponseTimeoutKeeps ==
    ASSUME ExchangeInv, NEW n \in Node, NEW ok \in Outcome, ResponseTimeout(n, ok)
    PROVE  ExchangeInv' /\ Reports
<1>1. node[n] \in NodeStates /\ Owned(node[n])
  BY InvFacts DEF Fine
<1>2. node[n].ec.alloc
  BY <1>1 DEF ResponseTimeout, Owned, RefCountExact, NoExchange
<1>3. Keeps(node[n], NotifyResponseTimeout(node[n], TRUE, ok))
  BY <1>1, <1>2, NotifyKeeps
<1> QED
  BY <1>3, QuietStepKeeps DEF ResponseTimeout

(* A session that comes back to life, and one that goes.                   *)
LEMMA SessionKeeps ==
    ASSUME NEW x \in NodeStates, Owned(x), NEW s \in {"active", "released"},
           s = "active" => HasSession(x)
    PROVE  LET z == [x EXCEPT !.session = s]
           IN  Keeps(x, z) /\ z.ec = x.ec /\ z.session = s
<1> DEFINE z == [x EXCEPT !.session = s]
<1>1. x.lastCtr \in Int
  BY NodeType DEF Counter
<1>2. /\ z \in NodeStates /\ z.ec = x.ec /\ z.session = s /\ z.fate = x.fate /\ z.name = x.name /\ z.timed = x.timed /\ z.peer = x.peer
      /\ z.arrived = x.arrived /\ z.delivered = x.delivered /\ z.next = x.next
      /\ z.lastCtr = x.lastCtr /\ z.out = x.out
  BY DEF NodeStates
<1> HIDE DEF z
<1>3. Quiet(x, z) /\ Unexpired(x, z)
  BY <1>1, <1>2 DEF Quiet, IsSent, WaitingForAck, Unexpired
<1>4. RefCountExact(z) /\ CanAnswer(z) /\ TimerArmed(z)
  BY <1>2 DEF Owned, RefCountExact, CanAnswer, NeverSent, TimerArmed, WaitingForAck, HasSession
<1>5. EntryIsLastSent(z) /\ WaitFlagExact(z)
  BY <1>2 DEF Owned, EntryIsLastSent, WaitFlagExact, NeverSent, IsLastSent, IsSent, WaitingForAck
<1>6. Keeps(x, z)
  BY <1>2, <1>3, <1>4, <1>5 DEF Keeps, Owned
<1> QED
  BY <1>2, <1>6 DEF z

(* An exchange whose application owes a message loses its session: it is   *)
(* closed, and the application keeps its reference.                        *)
LEMMA CloseOwedKeeps ==
    ASSUME NEW x \in NodeStates, Owned(x), x.ec.alloc, x.ec.willSend, x.session = "released",
           NEW ok \in Outcome
    PROVE  Keeps(x, DoClose(x, TRUE, ok))
<1> SUFFICES ASSUME ~x.ec.closed PROVE Keeps(x, DoClose(x, TRUE, ok))
  BY KeepsReflexive DEF DoClose
<1> DEFINE c == [x EXCEPT !.ec.closed = TRUE]
           y == [c EXCEPT !.ec.timer = FALSE]
<1>1. x.ec \in Contexts /\ x.lastCtr \in Int /\ ~WaitingForAck(x)
  BY NodeType DEF Counter, Owned, CanAnswer
<1>2. /\ c \in NodeStates /\ c.ec = [x.ec EXCEPT !.closed = TRUE] /\ SameRest(x, c)
      /\ c.session = "released" /\ c.ec.entry = x.ec.entry
  BY <1>1 DEF NodeStates, Contexts, SameRest
<1> HIDE DEF c
<1>3. DoClose(x, TRUE, ok) = y
  <2>1. FlushAcks(c, ok) = c
    BY <1>2 DEF FlushAcks, SendStandaloneAckMessage, HasSession
  <2>2. ClearRetransTable(c) = c
    BY <1>1, <1>2 DEF ClearRetransTable, WaitingForAck
  <2> QED
    BY <2>1, <2>2 DEF DoClose, c
<1>4. y.ec = [x.ec EXCEPT !.closed = TRUE, !.timer = FALSE]
  BY <1>1, <1>2 DEF NodeStates, Contexts
<1>5. y \in NodeStates /\ SameRest(c, y)
  BY <1>1, <1>2, NodeType DEF NodeStates, Contexts, SameRest
<1> HIDE DEF y
<1>6. /\ y.ec.alloc = x.ec.alloc /\ y.ec.refs = x.ec.refs /\ y.ec.closed = TRUE
      /\ y.ec.willSend = x.ec.willSend /\ y.ec.respExpected = x.ec.respExpected
      /\ y.ec.waitRespOrAck = x.ec.waitRespOrAck /\ y.ec.entry = x.ec.entry
  BY <1>1, <1>4 DEF Contexts
<1>7. SameRest(x, y)
  BY <1>2, <1>5 DEF SameRest
<1>8. Quiet(x, y) /\ Unexpired(x, y)
  BY <1>1, <1>6, <1>7 DEF SameRest, Quiet, IsSent, WaitingForAck, Unexpired
<1>9. RefCountExact(y) /\ CanAnswer(y) /\ TimerArmed(y)
  BY <1>1, <1>6, <1>7 DEF SameRest, Owned, RefCountExact, CanAnswer, NeverSent, TimerArmed, WaitingForAck, HasSession
<1>10. EntryIsLastSent(y) /\ WaitFlagExact(y)
  BY <1>6, <1>7 DEF SameRest, Owned, EntryIsLastSent, WaitFlagExact, NeverSent, IsLastSent, IsSent, WaitingForAck
<1>11. Keeps(x, y)
  BY <1>5, <1>8, <1>9, <1>10 DEF Keeps, Owned
<1> QED
  BY <1>3, <1>11

(* OnSessionReleased: an exchange closed before is not released again.     *)
LEMMA ReleaseSessionKeeps ==
    ASSUME ExchangeInv, NEW n \in Node, ReleaseSession(n)
    PROVE  ExchangeInv' /\ Reports
<1> DEFINE x == node[n]
           l == [x EXCEPT !.session = "released"]
           t == IF x.ec.respExpected THEN NotifyResponseTimeout(l, FALSE, "taken") ELSE l
<1>0. "taken" \in Outcome
  BY DEF Outcome
<1>1. x \in NodeStates /\ Owned(x)
  BY InvFacts DEF Fine
<1>2. Keeps(x, l) /\ l.ec = x.ec /\ l.session = "released"
  BY <1>1, SessionKeeps
<1>3. l \in NodeStates /\ Owned(l)
  BY <1>2 DEF Keeps
<1> HIDE DEF l
<1>4. Keeps(x, OnSessionReleased(x, "taken"))
  <2>1. CASE ~x.ec.alloc
    BY <1>2, <2>1 DEF OnSessionReleased, l
  <2>2. CASE x.ec.alloc /\ x.ec.closed
    <3>1. Keeps(l, ClearRetransTable(l))
      BY <1>3, RemoveEntryKeeps, KeepsReflexive DEF ClearRetransTable, Keeps
    <3>2. OnSessionReleased(x, "taken") = ClearRetransTable(l)
      BY <2>2 DEF OnSessionReleased, l
    <3> QED
      BY <1>1, <1>2, <3>1, <3>2, KeepsTransitive
  <2>3. CASE x.ec.alloc /\ ~x.ec.closed /\ x.ec.willSend
    <3>1. Keeps(l, DoClose(l, TRUE, "taken"))
      BY <1>0, <1>2, <1>3, <2>3, CloseOwedKeeps
    <3>2. OnSessionReleased(x, "taken") = DoClose(l, TRUE, "taken")
      BY <2>3 DEF OnSessionReleased, l
    <3> QED
      BY <1>1, <1>2, <3>1, <3>2, KeepsTransitive
  <2>4. CASE x.ec.alloc /\ ~x.ec.closed /\ ~x.ec.willSend
    <3>1. Keeps(l, t) /\ ~t.ec.closed /\ ~t.ec.willSend
      BY <1>0, <1>2, <1>3, <2>4, NotifyKeeps, KeepsReflexive
    <3> HIDE DEF t
    <3>2. t \in NodeStates /\ Owned(t) /\ t.ec.alloc
      BY <1>2, <2>4, <3>1 DEF Keeps, Quiet
    <3>3. Keeps(t, Release(DoClose(t, TRUE, "taken")))
      BY <1>0, <3>1, <3>2, CloseKeeps
    <3>4. OnSessionReleased(x, "taken") = Release(DoClose(t, TRUE, "taken"))
      BY <2>4 DEF OnSessionReleased, Abort, t, l
    <3> QED
      BY <1>1, <1>2, <1>3, <3>1, <3>2, <3>3, <3>4, KeepsTransitive
  <2> QED
    BY <2>1, <2>2, <2>3, <2>4
<1> QED
  BY <1>0, <1>4, QuietStepKeeps DEF ReleaseSession

(* An application that owes a message holds the only reference: when it    *)
(* closes, the context goes back to the pool.                              *)
LEMMA GiveUpFine ==
    ASSUME NEW x, Fine(x), x.out = {}, x.ec.alloc, x.ec.willSend, NEW ok \in Outcome
    PROVE  LET y == [Close(x, ok) EXCEPT !.next = 0]
               v == Free(y)
           IN  /\ y.out = v.out /\ Fine(v) /\ Moves(x, v)
               /\ v.peer = x.peer /\ v.arrived = x.arrived /\ v.fate = x.fate
<1> DEFINE c == [x EXCEPT !.ec.closed = TRUE]
           f == FlushAcks(c, ok)
           d == DoClose(x, FALSE, ok)
           y == [Close(x, ok) EXCEPT !.next = 0]
           v == Free(y)
<1>1. /\ x \in NodeStates /\ Owned(x) /\ x.ec \in Contexts /\ x.lastCtr \in Int
      /\ ~WaitingForAck(x) /\ x.ec.refs = 1
  BY NodeType DEF Fine, Counter, Owned, CanAnswer, NeverSent, RefCountExact
<1>2. d \in NodeStates /\ d.ec.alloc /\ d.ec.refs = 1 /\ d.fate = x.fate /\ Quiet(x, d)
  <2>1. CASE x.ec.closed
    <3>1. d = x /\ Quiet(x, x)
      BY <1>1, <2>1, KeepsReflexive DEF DoClose, Keeps
    <3> HIDE DEF d
    <3> QED
      BY <1>1, <3>1
  <2>2. CASE ~x.ec.closed
    <3> DEFINE t == [f EXCEPT !.ec.timer = FALSE]
    <3>1. c \in NodeStates /\ c.ec = [x.ec EXCEPT !.closed = TRUE] /\ SameRest(x, c)
      BY <1>1 DEF NodeStates, Contexts, SameRest
    <3>2. c.ec.alloc /\ c.ec.refs = 1 /\ c.ec.entry = x.ec.entry
      BY <1>1, <3>1 DEF Contexts
    <3> HIDE DEF c
    <3>3. OnlyAcks(c, f)
      BY <3>1, FlushIsQuiet
    <3> HIDE DEF f
    <3>4. /\ f \in NodeStates /\ f.ec \in Contexts /\ f.ec.alloc /\ f.ec.refs = 1 /\ f.ec.entry = x.ec.entry
          /\ f.fate = x.fate /\ Quiet(c, f)
      <4>1. f \in NodeStates /\ f.ec \in Contexts /\ c.ec \in Contexts
        BY <3>1, <3>3, NodeType DEF OnlyAcks
      <4>2. f.ec = [c.ec EXCEPT !.ackPending = f.ec.ackPending]
        BY <3>3 DEF OnlyAcks
      <4>3. f.ec.alloc /\ f.ec.refs = 1 /\ f.ec.entry = x.ec.entry
        BY <3>2, <4>1, <4>2 DEF Contexts
      <4> QED
        BY <3>1, <3>3, <4>1, <4>3 DEF OnlyAcks, SameRest
    <3>5. t.ec = [f.ec EXCEPT !.timer = FALSE] /\ t \in NodeStates /\ SameRest(f, t)
      BY <3>4 DEF NodeStates, Contexts, SameRest
    <3>6. d = t
      BY <2>2 DEF DoClose, f, c
    <3> HIDE DEF t, d
    <3>7. t.ec.alloc /\ t.ec.refs = 1 /\ t.ec.entry = x.ec.entry
      BY <3>4, <3>5 DEF Contexts
    <3>8. Quiet(x, t)
      <4>1. Quiet(x, c)
        <5>1. c.ec.alloc = x.ec.alloc /\ c.ec.entry = x.ec.entry
          BY <1>1, <3>1 DEF Contexts
        <5> QED
          BY <1>1, <3>1, <5>1, SameRestQuiet
      <4>2. t.ec.alloc = f.ec.alloc /\ t.ec.entry = f.ec.entry
        BY <3>4, <3>5 DEF Contexts
      <4>3. Quiet(f, t)
        BY <3>4, <3>5, <4>2, SameRestQuiet
      <4> QED
        BY <1>1, <3>1, <3>4, <3>5, <4>1, <4>3, QuietTransitive
    <3> QED
      BY <3>4, <3>5, <3>6, <3>7, <3>8 DEF SameRest
  <2> QED
    BY <2>1, <2>2
<1>3. Close(x, ok) = Release(d)
  BY DEF Close
<1> HIDE DEF d
<1>4. v = [y EXCEPT !.ec = NoExchange] /\ y.ec.refs = 0
  <2>1. d.ec \in Contexts
    BY <1>2, NodeType
  <2>2. y.ec = [d.ec EXCEPT !.refs = d.ec.refs - 1]
    BY <1>2, <1>3, <2>1 DEF Release, NodeStates, Contexts
  <2> HIDE DEF y
  <2>3. y.ec.refs = d.ec.refs - 1 /\ y.ec.alloc = d.ec.alloc
    BY <2>1, <2>2 DEF Contexts
  <2>4. y.ec.refs = 0
    BY <1>2, <2>3
  <2> QED
    BY <1>2, <2>3, <2>4 DEF Free
<1>5. /\ v \in NodeStates /\ v.ec = NoExchange /\ v.next = 0 /\ v.fate = d.fate /\ v.name = d.name /\ v.timed = d.timed
      /\ v.peer = d.peer /\ v.arrived = d.arrived /\ v.delivered = d.delivered
      /\ v.lastCtr = d.lastCtr /\ v.out = d.out /\ y.out = d.out
  <2>1. NoExchange \in Contexts /\ 0 \in 0 .. NumMessages
    BY ConversationAssumption, WindowAssumption
    DEF NoExchange, Contexts, NoEntry, Entries, Counter, CounterRange
  <2>2. v = [[[d EXCEPT !.ec.refs = @ - 1] EXCEPT !.next = 0] EXCEPT !.ec = NoExchange]
    BY <1>3, <1>4 DEF Release
  <2>3. y.out = d.out
    BY <1>2, <1>3 DEF Release, NodeStates
  <2> HIDE DEF v, y
  <2> QED
    BY <1>2, <2>1, <2>2, <2>3 DEF NodeStates
<1> HIDE DEF v, y
<1>6. Owned(v) /\ ~WaitingForAck(v)
  BY <1>5 DEF Owned, RefCountExact, CanAnswer, NeverSent, EntryIsLastSent, WaitFlagExact, TimerArmed,
              WaitingForAck, NoExchange
<1>7. TakesTurns(v)
  <2>1. Heard(v) = Heard(x)
    BY <1>2, <1>5 DEF Quiet, Heard
  <2> QED
    BY <1>2, <1>5, <2>1 DEF TakesTurns, Quiet, Fine, IsSent
<1>8. \A p \in v.out : IsAckOf(p, v)
  BY <1>2, <1>5 DEF Quiet, IsAckOf
<1>9. ASSUME NEW k \in AppMessage, NEW c1 PROVE ~Bears(v, k, c1)
  <2>1. k # 0
    BY DEF AppMessage
  <2> QED
    BY <1>6, <1>8, <2>1 DEF Bears, IsAckOf
<1>10. OutInv(v) /\ Moves(x, v)
  BY <1>2, <1>5, <1>8, <1>9 DEF OutInv, Moves, IsAckOf, Quiet, IsSent
<1>11. Fine(v)
  BY <1>5, <1>6, <1>7, <1>10 DEF Fine
<1> QED
  BY <1>2, <1>5, <1>10, <1>11 DEF Quiet, v, y

(* The application that owes a message closes its exchange instead.        *)
LEMMA AppGiveUpKeeps ==
    ASSUME ExchangeInv, NEW n \in Node, NEW ok \in Outcome, AppGiveUp(n, ok)
    PROVE  ExchangeInv' /\ Reports
<1> DEFINE x == node[n]
           y == [Close(x, ok) EXCEPT !.next = 0]
           v == Free(y)
<1>1. Fine(x) /\ x.out = {} /\ x.ec.alloc /\ x.ec.willSend /\ Become(n, y, ok, net) /\ UNCHANGED dups
  BY InvFacts DEF AppGiveUp
<1>2. /\ y.out = v.out /\ Fine(v) /\ Moves(x, v)
      /\ v.peer = x.peer /\ v.arrived = x.arrived /\ v.fate = x.fate
  BY <1>1, GiveUpFine
<1>3. node' = [node EXCEPT ![n] = [v EXCEPT !.out = {}]] /\ net' = net \cup v.out
  BY <1>1, <1>2 DEF Become
<1>4. dups' \in 0 .. MaxDups /\ errors' \in 0 .. MaxErrors
  BY <1>1, ConversationAssumption DEF Become, ExchangeInv, TypeOK
<1> HIDE DEF v
<1>5. Takes(x, v, v)
  BY <1>2 DEF Takes
<1>6. ExchangeInv'
  BY <1>2, <1>3, <1>4, <1>5, Landing
<1>7. Reports
  <2>1. [v EXCEPT !.out = {}].fate = v.fate
    BY <1>2 DEF Fine, NodeStates
  <2>2. node'[n].fate = x.fate /\ \A j \in Node : j # n => node'[j] = node[j]
    BY <1>2, <1>3, <2>1 DEF ExchangeInv, TypeOK
  <2> QED
    BY <2>2 DEF Reports
<1> QED
  BY <1>6, <1>7

(* ExecuteActions gives a message up.  Unless an application closed the    *)
(* exchange while it awaited a response, the session is reported or the    *)
(* response timer, if there is a timeout, is still armed.                  *)
LEMMA ExpiryKeeps ==
    ASSUME ExchangeInv, NEW n \in Node, WaitingForAck(node[n]),
           Become(n, GiveUp(node[n]), "taken", net), UNCHANGED dups
    PROVE  ExchangeInv' /\ ("Close" \notin AppCloses => Reports)
<1> DEFINE x == node[n]
           t == IF x.ec.respExpected THEN x ELSE [MarkAsDefunct(x) EXCEPT !.hang = TRUE]
           y == RemoveEntry(t, "expired")
           v == Free(y)
<1>1. Fine(x) /\ x \in NodeStates /\ Owned(x) /\ x.ec \in Contexts /\ x.ec.respExpected \in BOOLEAN
  BY InvFacts, NodeType, ContextType DEF Fine
<1>2. Keeps(x, t) /\ t.ec = x.ec /\ (x.ec.respExpected \/ t.hang)
  BY <1>1, MarkKeeps, KeepsReflexive
<1>3. GiveUp(x) = y
  BY DEF GiveUp
<1> HIDE DEF t
<1>4. /\ y \in NodeStates /\ Owned(y) /\ Quiet(t, y) /\ y.hang = t.hang
      /\ y.ec = [x.ec EXCEPT !.entry = NoEntry, !.refs = x.ec.refs - 1]
  BY <1>2, RemoveEntryKeeps DEF Keeps, WaitingForAck
<1> HIDE DEF y
<1>5. Quiet(x, y)
  BY <1>1, <1>2, <1>4, QuietTransitive DEF Keeps
<1>6. Says(x, y)
  BY <1>1, <1>4, <1>5, QuietSays
<1>7. ExchangeInv'
  <2>1. Takes(x, y, y)
    BY <1>6 DEF Takes, Says
  <2>2. dups' \in 0 .. MaxDups
    BY DEF ExchangeInv, TypeOK
  <2> QED
    BY <1>3, <1>6, <2>1, <2>2, BecomeKeeps DEF Says, Outcome
<1>8. ASSUME "Close" \notin AppCloses PROVE Reports
  <2>1. /\ v \in NodeStates /\ v.hang = y.hang /\ (v.ec = y.ec \/ y.ec.refs = 0)
    BY <1>1, <1>6, FreeFine DEF Says, Fine
  <2>2. v.hang \/ v.ec.timer \/ (~x.timed /\ x.ec.respExpected)
    <3>1. CASE x.ec.respExpected /\ x.timed
      <4>1. x.ec.timer /\ ~x.ec.closed
        BY <1>1, <1>8, <3>1 DEF Owned, TimerArmed
      <4>2. x.ec.alloc
        BY <3>1, <1>1 DEF Owned, RefCountExact, NoExchange
      <4>3. x.ec.refs = 2
        BY <1>1, <4>1, <4>2 DEF Owned, RefCountExact
      <4>4. y.ec.timer /\ y.ec.refs = x.ec.refs - 1
        BY <1>1, <1>4, <4>1 DEF Contexts
      <4> QED
        BY <2>1, <4>3, <4>4
    <3>2. CASE ~x.ec.respExpected
      BY <1>2, <1>4, <2>1, <3>2
    <3> QED
      BY <1>1, <3>1, <3>2
  <2> HIDE DEF v
  <2>3. node'[n].hang = v.hang /\ node'[n].ec = v.ec /\ \A j \in Node : j # n => node'[j] = node[j]
    <3>1. [v EXCEPT !.out = {}].hang = v.hang /\ [v EXCEPT !.out = {}].ec = v.ec
      BY <2>1 DEF NodeStates
    <3>2. node' = [node EXCEPT ![n] = [v EXCEPT !.out = {}]]
      BY <1>3 DEF Become, v
    <3> QED
      BY <3>1, <3>2 DEF ExchangeInv, TypeOK
  <2> QED
    BY <2>2, <2>3 DEF Reports
<1> QED
  BY <1>7, <1>8

(* A retransmission has the counter, the message and the ack of the        *)
(* first.                                                                  *)
LEMMA AgainFine ==
    ASSUME NEW x, Fine(x), x.out = {}, WaitingForAck(x), x.ec.entry.sendCount # MaxRetrans
    PROVE  LET e == x.ec.entry
               p == [from |-> x.name, ctr |-> e.ctr, seq |-> e.seq, ack |-> e.ack, needsAck |-> TRUE]
               z == [x EXCEPT !.ec.entry.sendCount = @ + 1, !.out = {p}]
           IN  Fine(z) /\ Moves(x, z) /\ z.peer = x.peer /\ z.arrived = x.arrived /\ z.fate = x.fate
<1> DEFINE e == x.ec.entry
           p == [from |-> x.name, ctr |-> e.ctr, seq |-> e.seq, ack |-> e.ack, needsAck |-> TRUE]
           g == [e EXCEPT !.sendCount = @ + 1]
           z == [x EXCEPT !.ec.entry.sendCount = @ + 1, !.out = {p}]
<1>1. /\ x \in NodeStates /\ Owned(x) /\ x.ec \in Contexts /\ x.name \in Node /\ x.timed \in BOOLEAN /\ x.lastCtr \in Int
      /\ e \in Entries
  BY NodeType, ContextType DEF Fine, Counter
<1>2. e.seq \in AppMessage /\ IsLastSent(x, e.seq) /\ e.ctr \in 1 .. x.lastCtr /\ e.seq # 0
  BY <1>1 DEF Owned, EntryIsLastSent, IsLastSent, AppMessage
<1>3. g \in Entries /\ g.ctr = e.ctr /\ g.seq = e.seq
  <2>1. e.sendCount + 1 \in 0 .. MaxRetrans
    BY <1>1, ConversationAssumption DEF Entries
  <2> QED
    BY <1>1, <2>1 DEF Entries
<1>4. p \in Packet
  BY <1>1 DEF Packet, Entries
<1>5. p.from = x.name /\ p.ctr = e.ctr /\ p.seq = e.seq /\ p.needsAck = TRUE
  OBVIOUS
<1> HIDE DEF p
<1>6. z.ec = [x.ec EXCEPT !.entry = g] /\ z.out = {p}
  BY <1>1 DEF NodeStates, Contexts
<1> HIDE DEF g
<1>7. z.ec \in Contexts
  BY <1>1, <1>3, <1>6 DEF Contexts
<1>8. /\ z.fate = x.fate /\ z.session = x.session /\ z.name = x.name /\ z.timed = x.timed /\ z.peer = x.peer
      /\ z.arrived = x.arrived /\ z.delivered = x.delivered /\ z.next = x.next /\ z.lastCtr = x.lastCtr
  BY <1>1 DEF NodeStates
<1>9. z \in NodeStates
  BY <1>1, <1>4, <1>6, <1>7 DEF NodeStates
<1> HIDE DEF z
<1>10. /\ z.ec.alloc = x.ec.alloc /\ z.ec.refs = x.ec.refs /\ z.ec.closed = x.ec.closed
       /\ z.ec.willSend = x.ec.willSend /\ z.ec.respExpected = x.ec.respExpected
       /\ z.ec.waitRespOrAck = x.ec.waitRespOrAck /\ z.ec.timer = x.ec.timer /\ z.ec.entry = g
  BY <1>1, <1>6 DEF Contexts
<1>11. WaitingForAck(z) /\ x.ec.alloc
  <2>1. g # NoEntry
    BY <1>2, <1>3 DEF NoEntry
  <2>2. x.ec # NoExchange
    BY DEF WaitingForAck, NoExchange
  <2> QED
    BY <1>1, <1>10, <2>1, <2>2 DEF WaitingForAck, Owned, RefCountExact
<1>12. RefCountExact(z) /\ CanAnswer(z) /\ TimerArmed(z)
  BY <1>1, <1>8, <1>10, <1>11 DEF Owned, RefCountExact, CanAnswer, NeverSent, TimerArmed, HasSession
<1>13. EntryIsLastSent(z) /\ WaitFlagExact(z)
  BY <1>1, <1>3, <1>8, <1>10, <1>11 DEF Owned, EntryIsLastSent, WaitFlagExact, NeverSent, IsLastSent, IsSent
<1>14. TakesTurns(z)
  <2>1. Heard(z) = Heard(x)
    BY <1>8 DEF Heard
  <2> QED
    BY <1>8, <2>1 DEF Fine, TakesTurns, IsSent
<1>15. \A k \in AppMessage, c \in Counter : Bears(z, k, c) => (Bears(x, k, c) /\ c = e.ctr)
  BY <1>3, <1>5, <1>6, <1>10, <1>11 DEF Bears
<1>16. IsSent(z, e.seq)
  BY <1>2, <1>8 DEF IsLastSent, IsSent
<1>17. OutInv(z)
  BY <1>2, <1>5, <1>6, <1>8, <1>15, <1>16 DEF OutInv
<1>18. Moves(x, z)
  BY <1>1, <1>8, <1>15 DEF Moves, IsSent
<1>19. Fine(z)
  BY <1>9, <1>12, <1>13, <1>14, <1>17 DEF Fine, Owned
<1> QED
  BY <1>8, <1>18, <1>19 DEF z, p

(* ExecuteActions and SendFromRetransTable for an entry that is due.       *)
LEMMA RetransmitKeeps ==
    ASSUME ExchangeInv, NEW n \in Node, NEW ok \in Outcome, Retransmit(n, ok)
    PROVE  ExchangeInv' /\ ("Close" \notin AppCloses => Reports)
<1> DEFINE x == node[n]
           e == x.ec.entry
           p == [from |-> n, ctr |-> e.ctr, seq |-> e.seq, ack |-> e.ack, needsAck |-> TRUE]
           z == [x EXCEPT !.ec.entry.sendCount = @ + 1, !.out = {p}]
<1>1. Fine(x) /\ x \in NodeStates /\ Owned(x) /\ x.name = n /\ x.out = {} /\ e.sendCount \in 0 .. MaxRetrans
  BY InvFacts, NodeType, ContextType DEF Fine, Entries
<1>2. /\ WaitingForAck(x) /\ (e.sendCount = MaxRetrans => ok = "taken") /\ UNCHANGED dups
      /\ Become(n, IF e.sendCount = MaxRetrans THEN GiveUp(x)
                   ELSE IF Refused(ok) THEN RemoveEntry(x, "refused") ELSE z, ok, net)
  BY DEF Retransmit
<1>3. CASE e.sendCount = MaxRetrans
  <2>1. ok = "taken"
    BY <1>2, <1>3
  <2> QED
    BY <1>2, <1>3, <2>1, ExpiryKeeps
<1>4. CASE e.sendCount # MaxRetrans /\ ~Refused(ok)
  <2>1. Fine(z) /\ Moves(x, z) /\ z.peer = x.peer /\ z.arrived = x.arrived /\ z.fate = x.fate
    BY <1>1, <1>2, <1>4, AgainFine
  <2>2. Become(n, z, ok, net)
    BY <1>2, <1>4
  <2> HIDE DEF z
  <2>3. Unexpired(x, z) /\ dups' \in 0 .. MaxDups
    BY <1>2, <2>1 DEF Unexpired, ExchangeInv, TypeOK
  <2> QED
    BY <2>1, <2>2, <2>3, StepKeeps
<1>5. CASE e.sendCount # MaxRetrans /\ Refused(ok)
  <2>1. Keeps(x, RemoveEntry(x, "refused"))
    BY <1>1, <1>2, RemoveEntryKeeps DEF Keeps
  <2> QED
    BY <1>2, <1>5, <2>1, QuietStepKeeps
<1> QED
  BY <1>3, <1>4, <1>5

(* What was handed to an application was sent by its peer.                 *)
LEMMA HeardIsSent ==
    ASSUME ExchangeInv, NEW n \in Node, Len(node[n].delivered) # 0
    PROVE  Heard(node[n]) \in AppMessage /\ IsSent(node[Peer(n)], Heard(node[n]))
<1> DEFINE x == node[n]
           L == Len(x.delivered)
           h == x.delivered[L]
<1>1. x \in NodeStates /\ TakesTurns(x)
  BY InvFacts DEF Fine
<1>2. L \in Nat /\ L \in DOMAIN x.delivered /\ x.arrived \subseteq AppMessage
  <2>1. x.delivered \in Seq(AppMessage) /\ x.arrived \subseteq AppMessage
    BY <1>1, NodeType
  <2> QED
    BY <2>1, LenProperties
<1>3. h = 2 * L - (IF x.name = "I" THEN 0 ELSE 1) /\ h \in x.arrived
  BY <1>1, <1>2 DEF TakesTurns
<1>4. Heard(x) = h
  BY <1>3 DEF Heard
<1> HIDE DEF h
<1>5. h \in AppMessage
  BY <1>2, <1>3
<1> QED
  BY <1>3, <1>4, <1>5 DEF ExchangeInv, ArrivesOnce

(* A message that the session takes as new is the next one its application *)
(* is to hear, and the application has answered all it heard before.       *)
LEMMA NewIsNext ==
    ASSUME ExchangeInv, NEW n \in Node, NEW p \in net, p.from = Peer(n), p.seq # 0,
           VerifyEncryptedUnicast(node[n].peer, p.ctr)
    PROVE  p.seq \in AppMessage /\ p.seq = Heard(node[n]) + 2 /\ node[n].next = 0
<1> DEFINE x == node[n]
           m == Peer(n)
           w == node[m]
           k == p.seq
           L == Len(x.delivered)
           M == Len(w.delivered)
<1>1. /\ x \in NodeStates /\ w \in NodeStates /\ x.name = n /\ w.name = m
      /\ m \in Node /\ m # n /\ Peer(m) = n /\ TakesTurns(x) /\ TakesTurns(w)
  <2>1. m \in Node /\ m # n /\ Peer(m) = n /\ x \in NodeStates /\ x.name = n /\ Fine(x)
    BY InvFacts
  <2>2. w \in NodeStates /\ w.name = m /\ Fine(w)
    BY <2>1, InvFacts
  <2> QED
    BY <2>1, <2>2 DEF Fine
<1>2. k \in AppMessage /\ p.ctr \in Counter /\ k \in Nat
  BY ConversationAssumption DEF ExchangeInv, TypeOK, Packet, AppMessage
<1>3. k \notin x.arrived
  <2>1. Carries(k, p.ctr)
    BY DEF Carries
  <2> QED
    BY <1>2, <2>1 DEF ExchangeInv, ArrivesOnce
<1>4. IsSent(w, k)
  BY DEF ExchangeInv, PacketsAreSent
<1>5. Sender(k) = m /\ k <= Heard(w) + 1
  BY <1>1, <1>2, <1>4 DEF TakesTurns
<1>6. /\ L \in Nat /\ M \in Nat /\ DOMAIN x.delivered = 1 .. L
  <2>1. x.delivered \in Seq(AppMessage) /\ w.delivered \in Seq(AppMessage)
    BY <1>1, NodeType
  <2> QED
    BY <2>1, LenProperties
<1>7. M # 0 => Heard(w) \in AppMessage /\ IsSent(x, Heard(w)) /\ Heard(w) <= Heard(x) + 1
  BY <1>1, HeardIsSent DEF TakesTurns
<1>8. /\ n = "I" => Heard(x) = 2 * L /\ Heard(w) = 2 * M - 1
      /\ n = "R" => Heard(x) = 2 * L - 1 /\ Heard(w) = 2 * M
      /\ n = "I" \/ n = "R"
  <2>1. CASE n = "I"
    <3>1. x.name = "I" /\ w.name = "R"
      BY <1>1, <2>1 DEF Peer
    <3> QED
      BY <1>6, <2>1, <3>1 DEF Heard
  <2>2. CASE n = "R"
    <3>1. x.name = "R" /\ w.name = "I"
      BY <1>1, <2>2 DEF Peer
    <3> QED
      BY <1>6, <2>2, <3>1 DEF Heard
  <2> QED
    BY <2>1, <2>2 DEF Node
<1>9. Heard(w) <= Heard(x) + 1
  BY <1>6, <1>7, <1>8
<1>10. Heard(x) \in Int /\ Heard(w) \in Int
  BY <1>6, <1>8
<1>11. k <= Heard(x) + 2
  BY <1>2, <1>5, <1>9, <1>10
<1> HIDE DEF k, L, M
<1>12. ASSUME NEW j \in 1 .. L PROVE k # 2 * j - (IF n = "I" THEN 0 ELSE 1)
  <2>1. x.delivered[j] = 2 * j - (IF n = "I" THEN 0 ELSE 1) /\ x.delivered[j] \in x.arrived
    BY <1>1, <1>6 DEF TakesTurns
  <2> QED
    BY <1>3, <2>1
<1>13. k = Heard(x) + 2
  <2>1. CASE n = "I"
    <3>1. k % 2 # 1
      BY <1>1, <1>5, <2>1 DEF Sender, Peer
    <3>2. PICK j \in Int : k = 2 * j
      <4>1. k = 2 * (k \div 2)
        BY <1>2, <3>1
      <4>2. k \div 2 \in Int
        BY <1>2
      <4> QED
        BY <4>1, <4>2
    <3>3. j >= 1 /\ j <= L + 1
      BY <1>2, <1>6, <1>8, <1>11, <2>1, <3>2 DEF AppMessage
    <3>4. j \notin 1 .. L
      BY <1>12, <2>1, <3>2
    <3> QED
      BY <1>6, <1>8, <2>1, <3>2, <3>3, <3>4
  <2>2. CASE n = "R"
    <3>1. k % 2 = 1
      BY <1>1, <1>5, <2>2 DEF Sender, Peer
    <3>2. PICK j \in Int : k = 2 * j - 1
      <4>1. k = 2 * ((k \div 2) + 1) - 1
        BY <1>2, <3>1
      <4>2. (k \div 2) + 1 \in Int
        BY <1>2
      <4> QED
        BY <4>1, <4>2
    <3>3. j >= 1 /\ j <= L + 1
      BY <1>2, <1>6, <1>8, <1>11, <2>2, <3>2 DEF AppMessage
    <3>4. j \notin 1 .. L
      BY <1>12, <2>2, <3>2
    <3> QED
      BY <1>6, <1>8, <2>2, <3>2, <3>3, <3>4
  <2> QED
    BY <1>8, <2>1, <2>2
<1>14. x.next = 0
  <2> SUFFICES ASSUME x.next # 0 PROVE FALSE
    OBVIOUS
  <2>1. x.next = Heard(x) + 1 /\ ~IsSent(x, Heard(x) + 1) /\ Heard(x) + 1 # 0
    BY <1>1 DEF TakesTurns
  <2>2. Heard(w) = Heard(x) + 1
    BY <1>2, <1>5, <1>9, <1>10, <1>13 DEF k
  <2>3. M # 0
    BY <1>6, <1>8, <2>1, <2>2
  <2> QED
    BY <1>7, <2>1, <2>2, <2>3
<1> QED
  BY <1>2, <1>13, <1>14 DEF k

(* A step of a node that takes nothing new from the network.               *)
Ends(x, z) ==
    Fine(z) /\ Moves(x, z) /\ Unexpired(x, z) /\ z.peer = x.peer /\ z.arrived = x.arrived

(* Without an exchange, a duplicate is acked from an ephemeral one.        *)
LEMMA EphemeralAckKeeps ==
    ASSUME NEW x \in NodeStates, Owned(x), ~x.ec.alloc, NEW p \in Packet, NEW ok \in Outcome
    PROVE  Keeps(x, EphemeralAck(x, p, ok))
<1> SUFFICES ASSUME p.needsAck PROVE Keeps(x, EphemeralAck(x, p, ok))
  BY KeepsReflexive DEF EphemeralAck
<1> DEFINE b == [x EXCEPT !.ec = NoExchange]
           e == SetPendingAck(b, p.ctr).ec
           c == [x EXCEPT !.ec = e]
           s == SendStandaloneAckMessage(c, ok)
           z == [s EXCEPT !.ec = x.ec]
<1>1. x.ec = NoExchange /\ x.ec \in Contexts /\ x.lastCtr \in Int /\ p.ctr \in Counter
  BY NodeType DEF Owned, RefCountExact, Counter, Packet
<1>2. e \in Contexts
  <2>1. b = x /\ b \in NodeStates
    BY <1>1 DEF NodeStates
  <2> HIDE DEF b
  <2>2. e = [x.ec EXCEPT !.ackCtr = p.ctr, !.ackPending = TRUE, !.ackValid = TRUE]
    BY <1>1, <2>1 DEF SetPendingAck, NodeStates, Contexts
  <2> HIDE DEF e
  <2> QED
    BY <1>1, <2>2 DEF Contexts
<1> HIDE DEF e
<1>3. c \in NodeStates /\ SameRest(x, c)
  BY <1>2 DEF NodeStates, SameRest
<1>4. EphemeralAck(x, p, ok) = z
  BY DEF EphemeralAck, e
<1> HIDE DEF c
<1>5. OnlyAcks(c, s)
  BY <1>3, AckIsQuiet
<1> HIDE DEF s
<1>6. s \in NodeStates /\ Quiet(c, s) /\ s.fate = x.fate
  BY <1>3, <1>5 DEF OnlyAcks, SameRest
<1>7. /\ z \in NodeStates /\ z.ec = NoExchange /\ z.fate = x.fate /\ z.name = s.name /\ z.timed = s.timed /\ z.peer = s.peer
      /\ z.arrived = s.arrived /\ z.delivered = s.delivered /\ z.next = s.next
      /\ z.lastCtr = s.lastCtr /\ z.out = s.out
  BY <1>1, <1>6 DEF NodeStates
<1> HIDE DEF z
<1>8. Owned(z) /\ ~WaitingForAck(z)
  BY <1>7 DEF Owned, RefCountExact, CanAnswer, NeverSent, EntryIsLastSent, WaitFlagExact, TimerArmed,
              WaitingForAck, NoExchange
<1>9. Quiet(x, z)
  BY <1>1, <1>3, <1>6, <1>7, <1>8 DEF Quiet, SameRest, IsSent, IsAckOf
<1>10. Unexpired(x, z)
  BY <1>7 DEF Unexpired
<1> QED
  BY <1>4, <1>7, <1>8, <1>9, <1>10 DEF Keeps

(* ExchangeManager::OnMessageReceived as a whole.                          *)
LEMMA OnPacketEnds ==
    ASSUME NEW x, Fine(x), NEW p \in Packet, NEW dup \in BOOLEAN, NEW app,
           NEW open \in {"Opened"} \cup Refusals, NEW ok \in Outcome,
           (~dup /\ p.seq # 0) => (p.seq \in x.arrived /\ p.seq = Heard(x) + 2 /\ x.next = 0)
    PROVE  Ends(x, OnPacket(x, p, dup, app, open, ok))
<1>1. x \in NodeStates /\ Owned(x) /\ open \in {"Opened", "HandlerError", "PoolFull"}
  BY ConversationAssumption DEF Fine
<1>2. ASSUME NEW z, Handles(x, z) PROVE Ends(x, z)
  BY <1>2 DEF Handles, Ends
<1>3. Ends(x, x)
  BY <1>1, <1>2, KeepsReflexive, KeepsHandles
<1>4. CASE x.ec.alloc
  BY <1>2, <1>4, HandleMessageHandles DEF OnPacket
<1>5. ASSUME ~x.ec.alloc PROVE Ends(x, EphemeralAck(x, p, ok))
  BY <1>1, <1>2, <1>5, EphemeralAckKeeps, KeepsHandles
<1>6. ASSUME ~x.ec.alloc
      PROVE  Ends(x, HandleMessage([x EXCEPT !.ec = NewExchange(x.name)], p, dup, app, ok))
  <2> DEFINE o == [x EXCEPT !.ec = NewExchange(x.name)]
             z == HandleMessage(o, p, dup, app, ok)
  <2>1. /\ Fine(o) /\ Moves(x, o) /\ Unexpired(x, o) /\ o.ec.alloc
        /\ o.peer = x.peer /\ o.arrived = x.arrived /\ o.delivered = x.delivered
        /\ o.name = x.name /\ o.timed = x.timed /\ o.next = x.next
    BY <1>6, OpenFine
  <2> HIDE DEF o
  <2>2. Heard(o) = Heard(x)
    BY <2>1 DEF Heard
  <2>3. Handles(o, z)
    BY <2>1, <2>2, HandleMessageHandles
  <2> HIDE DEF z
  <2>4. x.lastCtr \in Int /\ o.lastCtr \in Int /\ z.lastCtr \in Int
    BY <1>1, <2>1, <2>3, NodeType DEF Handles, Fine, Counter
  <2>5. ASSUME NEW k \in AppMessage, NEW c \in Counter, Bears(z, k, c)
        PROVE  Bears(x, k, c) \/ ~IsSent(x, k)
    BY <2>1, <2>3, <2>5 DEF Handles, Moves
  <2>6. Moves(x, z)
    BY <2>1, <2>3, <2>4, <2>5 DEF Handles, Moves
  <2>7. Ends(x, z)
    BY <2>1, <2>3, <2>6 DEF Handles, Ends, Unexpired
  <2> QED
    BY <2>7 DEF z, o
<1>7. CASE ~x.ec.alloc
  BY <1>1, <1>3, <1>5, <1>6, <1>7 DEF OnPacket
<1> QED
  BY <1>4, <1>7

(* The session takes a packet as new.                                      *)
LEMMA CommitFine ==
    ASSUME NEW x, Fine(x), NEW z \in NodeStates, z.ec = x.ec, z.session = x.session, z.fate = x.fate,
           z.name = x.name /\ z.timed = x.timed, z.delivered = x.delivered, z.next = x.next, z.lastCtr = x.lastCtr,
           z.out = x.out, x.arrived \subseteq z.arrived
    PROVE  Fine(z) /\ Moves(x, z) /\ Heard(z) = Heard(x)
<1>1. x \in NodeStates /\ x.lastCtr \in Int
  BY NodeType DEF Fine, Counter
<1>2. /\ z \in NodeStates /\ z.ec = x.ec /\ z.session = x.session /\ z.fate = x.fate /\ z.name = x.name /\ z.timed = x.timed
      /\ z.delivered = x.delivered /\ z.next = x.next /\ z.lastCtr = x.lastCtr /\ z.out = x.out
      /\ x.arrived \subseteq z.arrived
  OBVIOUS
<1>3. RefCountExact(z) /\ CanAnswer(z) /\ TimerArmed(z)
  BY <1>2 DEF Fine, Owned, RefCountExact, CanAnswer, NeverSent, TimerArmed, WaitingForAck, HasSession
<1>4. EntryIsLastSent(z) /\ WaitFlagExact(z)
  BY <1>2 DEF Fine, Owned, EntryIsLastSent, WaitFlagExact, NeverSent, IsLastSent, IsSent, WaitingForAck
<1>5. Heard(z) = Heard(x)
  BY <1>2 DEF Heard
<1>6. TakesTurns(z)
  BY <1>2, <1>5 DEF Fine, TakesTurns, IsSent
<1>7. OutInv(z) /\ Moves(x, z)
  BY <1>1, <1>2 DEF Fine, OutInv, Bears, IsSent, WaitingForAck, Moves
<1>8. Fine(z)
  BY <1>2, <1>3, <1>4, <1>6, <1>7 DEF Fine, Owned
<1> QED
  BY <1>2, <1>5, <1>7, <1>8

(* SessionManager::SecureUnicastMessageDispatch and all that it calls.     *)
LEMMA ReceiveKeeps ==
    ASSUME ExchangeInv, NEW n \in Node, NEW p \in net, NEW keep \in BOOLEAN, NEW app,
           NEW open \in {"Opened"} \cup Refusals, NEW ok \in Outcome,
           Receive(n, p, keep, app, open, ok)
    PROVE  ExchangeInv' /\ Reports
<1> DEFINE x == node[n]
           dup == ~VerifyEncryptedUnicast(x.peer, p.ctr)
           l == [x EXCEPT !.session = "active"]
           a == IF p.seq = 0 THEN x.arrived ELSE x.arrived \cup {p.seq}
           q == CommitEncryptedUnicast(x.peer, p.ctr)
           c == [l EXCEPT !.peer = q, !.arrived = a]
           left == IF keep THEN net ELSE net \ {p}
           y == SecureUnicastMessageDispatch(x, p, app, open, ok)
<1>1. /\ Fine(x) /\ x \in NodeStates /\ Owned(x) /\ x.name = n /\ p \in Packet /\ p.ctr \in Counter
      /\ x.peer \in PeerCounters /\ x.arrived \subseteq AppMessage /\ p.seq \in 0 .. NumMessages
  <2>1. p \in Packet
    BY DEF ExchangeInv, TypeOK
  <2> QED
    BY <2>1, InvFacts, NodeType DEF Fine, Packet
<1>2. /\ p.from = Peer(n) /\ HasSession(x) /\ Become(n, y, ok, left) /\ dups' <= MaxDups
      /\ dups' = IF keep THEN dups + 1 ELSE dups
  BY DEF Receive
<1>3. dups' \in 0 .. MaxDups
  BY <1>2, ConversationAssumption DEF ExchangeInv, TypeOK
<1>4. dup \in BOOLEAN /\ left \in SUBSET net
  OBVIOUS
<1>5. Handles(x, l)
  BY <1>1, <1>2, SessionKeeps, KeepsHandles
<1>6. /\ l.peer = x.peer /\ l.arrived = x.arrived /\ l.delivered = x.delivered /\ l.name = x.name /\ l.timed = x.timed
      /\ l.next = x.next
  BY <1>1 DEF NodeStates
<1>7. c = [l EXCEPT !.peer = CommitEncryptedUnicast(@, p.ctr),
                    !.arrived = IF p.seq = 0 THEN @ ELSE @ \cup {p.seq}]
  BY <1>6
<1>8. y = IF ~dup THEN OnPacket(c, p, dup, app, open, ok)
          ELSE IF p.needsAck THEN OnPacket(l, p, dup, app, open, ok)
          ELSE l
  BY <1>7 DEF SecureUnicastMessageDispatch
<1> HIDE DEF l, c
<1>9. l \in NodeStates /\ Fine(l) /\ Heard(l) = Heard(x)
  BY <1>5, <1>6 DEF Handles, Fine, Heard
<1>10. Fine(y) /\ Moves(x, y) /\ Unexpired(x, y) /\ Takes(x, y, p)
  <2>1. ASSUME NEW u, Moves(x, u), Unexpired(x, u), Ends(u, y), u \in NodeStates
        PROVE  Fine(y) /\ Moves(x, y) /\ Unexpired(x, y)
    <3>1. x.lastCtr \in Int /\ u.lastCtr \in Int /\ y.lastCtr \in Int
      BY <1>1, <2>1, NodeType DEF Ends, Fine, Counter
    <3>2. ASSUME NEW k \in AppMessage, NEW d \in Counter, Bears(y, k, d)
          PROVE  Bears(x, k, d) \/ ~IsSent(x, k)
      BY <2>1, <3>2 DEF Ends, Moves
    <3>3. Moves(x, y)
      BY <2>1, <3>1, <3>2 DEF Ends, Moves
    <3> QED
      BY <2>1, <3>3 DEF Ends, Unexpired
  <2>2. CASE dup
    <3>1. Ends(l, l)
      BY <1>9, KeepsReflexive, KeepsHandles DEF Fine, Handles, Ends
    <3>2. Ends(l, OnPacket(l, p, dup, app, open, ok))
      BY <1>1, <1>4, <1>9, <2>2, OnPacketEnds
    <3>3. Ends(l, y)
      BY <1>8, <2>2, <3>1, <3>2
    <3>4. y.peer = x.peer /\ y.arrived = x.arrived
      BY <1>6, <3>3 DEF Ends
    <3> QED
      BY <1>5, <1>9, <2>1, <3>3, <3>4 DEF Handles, Takes
  <2>3. CASE ~dup
    <3>1. q \in PeerCounters
      BY <1>1, <2>3, CommitRefuses
    <3>2. a \in SUBSET AppMessage /\ x.arrived \subseteq a
      BY <1>1, ConversationAssumption DEF AppMessage
    <3>3. p.seq # 0 => (p.seq \in a /\ p.seq = Heard(x) + 2 /\ x.next = 0)
      BY <1>2, <2>3, NewIsNext
    <3> HIDE DEF q, a
    <3>4. /\ Fine(c) /\ Moves(l, c) /\ c.peer = q /\ c.arrived = a
          /\ c.fate = l.fate /\ c.next = l.next /\ Heard(c) = Heard(l)
      <4>1. /\ c \in NodeStates /\ c.ec = l.ec /\ c.session = l.session /\ c.fate = l.fate
            /\ c.name = l.name /\ c.timed = l.timed /\ c.delivered = l.delivered /\ c.next = l.next
            /\ c.lastCtr = l.lastCtr /\ c.out = l.out /\ c.peer = q /\ c.arrived = a
        BY <1>9, <3>1, <3>2 DEF NodeStates, c
      <4>2. l.arrived \subseteq c.arrived
        BY <1>6, <3>2, <4>1
      <4> QED
        BY <1>9, <4>1, <4>2, CommitFine
    <3>5. Ends(c, y)
      <4>1. Ends(c, OnPacket(c, p, dup, app, open, ok))
        BY <1>1, <1>4, <1>6, <1>9, <3>3, <3>4, OnPacketEnds
      <4> QED
        BY <1>8, <2>3, <4>1
    <3>6. Moves(x, c) /\ Unexpired(x, c)
      <4>1. x.lastCtr \in Int /\ l.lastCtr \in Int /\ c.lastCtr \in Int
        BY <1>1, <1>9, <3>4, NodeType DEF Fine, Counter
      <4>2. ASSUME NEW k \in AppMessage, NEW d \in Counter, Bears(c, k, d)
            PROVE  Bears(x, k, d) \/ ~IsSent(x, k)
        BY <1>5, <3>4, <4>2 DEF Handles, Moves
      <4> QED
        BY <1>5, <3>4, <4>1, <4>2 DEF Handles, Moves, Unexpired
    <3>7. Takes(x, y, p)
      BY <1>1, <1>2, <2>3, <3>4, <3>5 DEF Ends, Takes, q, a
    <3> QED
      BY <2>1, <3>4, <3>5, <3>6, <3>7 DEF Fine
  <2> QED
    BY <2>2, <2>3
<1> HIDE DEF y
<1>11. ExchangeInv'
  BY <1>2, <1>3, <1>4, <1>10, BecomeKeeps
<1>12. Reports
  BY <1>2, <1>10, BecomeReports DEF Fine
<1> QED
  BY <1>11, <1>12

----------------------------------------------------------------------------
(* Nothing has been sent at first.                                         *)
LEMMA InitFine == Init => ExchangeInv
<1> SUFFICES ASSUME Init PROVE ExchangeInv
  OBVIOUS
<1>0. NoExchange \in Contexts /\ 0 \in Counter
  BY ConversationAssumption, WindowAssumption
  DEF NoExchange, Contexts, NoEntry, Entries, Counter, CounterRange
<1>1. SetCounter(InitialSyncValue) \in PeerCounters
  BY WindowAssumption DEF SetCounter, InitialSyncValue, PeerCounters, Counter, CounterRange
<1>2. /\ 0 \in 0 .. NumMessages /\ 1 \in 0 .. NumMessages
      /\ [k \in AppMessage |-> "unsent"] \in [AppMessage -> Fates]
      /\ <<>> \in Seq(AppMessage) /\ {} \in SUBSET AppMessage /\ {} \in SUBSET Packet
  BY ConversationAssumption DEF Fates
<1>t. PICK timeouts \in Timeouts :
          node = [n \in Node |->
                [ec |-> NoExchange, name |-> n, lastCtr |-> 0,
                 peer |-> SetCounter(InitialSyncValue), session |-> "active",
                 next |-> IF n = "I" THEN 1 ELSE 0, timed |-> n \in timeouts,
                 hang |-> FALSE, fate |-> [k \in AppMessage |-> "unsent"],
                 arrived |-> {}, delivered |-> <<>>, dropped |-> FALSE, out |-> {}]]
  BY DEF Init
<1>3. ASSUME NEW n \in Node
      PROVE  /\ node[n] \in NodeStates /\ node[n].name = n /\ node[n].out = {} /\ node[n].ec = NoExchange
             /\ node[n].arrived = {} /\ node[n].delivered = <<>>
             /\ node[n].next = IF n = "I" THEN 1 ELSE 0
             /\ \A k \in AppMessage : ~IsSent(node[n], k)
  <2>1. node[n] = [ec |-> NoExchange, name |-> n, lastCtr |-> 0,
                   peer |-> SetCounter(InitialSyncValue), session |-> "active",
                   next |-> IF n = "I" THEN 1 ELSE 0, timed |-> n \in timeouts,
                   hang |-> FALSE, fate |-> [k \in AppMessage |-> "unsent"],
                   arrived |-> {}, delivered |-> <<>>, dropped |-> FALSE, out |-> {}]
    BY <1>t
  <2>2. node[n] \in NodeStates
    BY <1>0, <1>1, <1>2, <2>1 DEF NodeStates
  <2> QED
    BY <2>1, <2>2 DEF IsSent
<1>4. TypeOK
  <2>1. node \in [Node -> NodeStates]
    <3>1. node = [n \in Node |-> node[n]]
      BY <1>t
    <3> QED
      BY <1>3, <3>1
  <2> QED
    BY <1>3, <2>1, ConversationAssumption DEF TypeOK, Init
<1>5. ASSUME NEW n \in Node PROVE NodeInv(node[n]) /\ ~WaitingForAck(node[n])
  <2> DEFINE x == node[n]
  <2>1. /\ x.ec = NoExchange /\ x.delivered = <<>> /\ x.name = n
        /\ x.next = (IF n = "I" THEN 1 ELSE 0) /\ \A k \in AppMessage : ~IsSent(x, k)
    BY <1>3
  <2> HIDE DEF x
  <2>2. /\ RefCountExact(x) /\ CanAnswer(x) /\ EntryIsLastSent(x) /\ WaitFlagExact(x) /\ TimerArmed(x)
        /\ ~WaitingForAck(x)
    BY <2>1 DEF RefCountExact, CanAnswer, NeverSent, EntryIsLastSent, WaitFlagExact, TimerArmed,
                WaitingForAck, NoExchange
  <2>3. TakesTurns(x)
    <3>1. Len(x.delivered) = 0 /\ DOMAIN x.delivered = {}
      BY <2>1
    <3>2. x.next # 0 => x.next = Heard(x) + 1 /\ x.next \in AppMessage
      BY <2>1, <3>1, ConversationAssumption DEF Heard, AppMessage
    <3> QED
      BY <2>1, <3>1, <3>2 DEF TakesTurns
  <2>4. NodeInv(x) /\ ~WaitingForAck(x)
    BY <2>2, <2>3 DEF NodeInv
  <2> QED
    BY <2>4 DEF x
<1>6. net = {}
  BY DEF Init
<1>7. PacketsAreSent /\ ArrivesOnce
  BY <1>3, <1>5, <1>6 DEF PacketsAreSent, ArrivesOnce, Carries
<1> QED
  BY <1>4, <1>5, <1>7 DEF ExchangeInv

(* Every step keeps the invariant, and reports what expires in it.         *)
LEMMA StepKeepsInv ==
    ASSUME ExchangeInv, [Next]_vars
    PROVE  ExchangeInv' /\ ("Close" \notin AppCloses => Reports)
<1>1. CASE NewContext
  BY <1>1, NewContextKeeps
<1>2. ASSUME NEW n \in Node, NEW ok \in Outcome, AppSend(n, ok)
      PROVE  ExchangeInv' /\ Reports
  BY <1>2, AppSendKeeps
<1>3. ASSUME NEW n \in Node, NEW ok \in Outcome, AppGiveUp(n, ok)
      PROVE  ExchangeInv' /\ Reports
  BY <1>3, AppGiveUpKeeps
<1>4. ASSUME NEW n \in Node, NEW ok \in Outcome, NEW how \in AppCloses, AppLeave(n, how, ok)
      PROVE  ExchangeInv' /\ Reports
  BY <1>4, AppLeaveKeeps
<1>5. ASSUME NEW n \in Node, NEW ok \in Outcome, NEW p \in net, NEW keep \in BOOLEAN,
             NEW app \in Replies(p), NEW open \in Openings(n),
             Receive(n, p, keep, app, open, ok)
      PROVE  ExchangeInv' /\ Reports
  BY <1>5, ReceiveKeeps DEF Openings
<1>6. ASSUME NEW n \in Node, NEW ok \in Outcome, AckTimeout(n, ok)
      PROVE  ExchangeInv' /\ Reports
  BY <1>6, AckTimeoutKeeps
<1>7. ASSUME NEW n \in Node, NEW ok \in Outcome, Retransmit(n, ok)
      PROVE  ExchangeInv' /\ ("Close" \notin AppCloses => Reports)
  BY <1>7, RetransmitKeeps
<1>8. ASSUME NEW n \in Node, NEW ok \in Outcome, ResponseTimeout(n, ok)
      PROVE  ExchangeInv' /\ Reports
  BY <1>8, ResponseTimeoutKeeps
<1>9. ASSUME NEW n \in Releasing, ReleaseSession(n)
      PROVE  ExchangeInv' /\ Reports
  BY <1>9, ReleaseSessionKeeps, ConversationAssumption DEF Node
<1>10. CASE UNCHANGED vars
  <2>1. node' = node /\ net' = net /\ dups' = dups /\ errors' = errors
    BY <1>10 DEF vars
  <2>2. TypeOK'
    BY <2>1 DEF ExchangeInv, TypeOK
  <2>3. (\A n \in Node : NodeInv(node[n]))'
    BY <2>1 DEF ExchangeInv
  <2>4. PacketsAreSent'
    BY <2>1 DEF ExchangeInv, PacketsAreSent, IsSent
  <2>5. ArrivesOnce'
    BY <2>1 DEF ExchangeInv, ArrivesOnce, Carries, IsSent, WaitingForAck, VerifyEncryptedUnicast
  <2> QED
    BY <2>1, <2>2, <2>3, <2>4, <2>5 DEF ExchangeInv, Reports
<1> QED
  BY <1>1, <1>2, <1>3, <1>4, <1>5, <1>6, <1>7, <1>8, <1>9, <1>10 DEF Next

\* Exchange contexts are released exactly once and never left without an owner,
\* their flags agree with the retransmission table and with what was sent, and
\* the two ends are at the same place of the conversation, for every length of
\* it, every number of retransmissions, losses, duplicates and refused sends.
THEOREM ExchangeInvTheorem == Spec => []ExchangeInv
<1>1. ExchangeInv /\ [Next]_vars => ExchangeInv'
  BY StepKeepsInv
<1> QED
  BY <1>1, InitFine, PTL DEF Spec

\* HandleMessage hands the application its messages in the order of the
\* conversation and none of them twice.
THEOREM InOrderOnceTheorem == Spec => []InOrderOnce
<1>1. ASSUME ExchangeInv PROVE InOrderOnce
  <2> SUFFICES ASSUME NEW n \in Node, NEW i \in DOMAIN node[n].delivered,
                      NEW j \in DOMAIN node[n].delivered, i < j
               PROVE  node[n].delivered[i] < node[n].delivered[j]
    BY DEF InOrderOnce
  <2> DEFINE d == node[n].delivered
             s == IF node[n].name = "I" THEN 0 ELSE 1
  <2>1. d \in Seq(AppMessage)
    BY <1>1, NodeType, InvFacts
  <2>2. i \in Nat /\ j \in Nat
    BY <2>1, LenProperties
  <2>3. d[i] = 2 * i - s /\ d[j] = 2 * j - s
    BY <1>1 DEF ExchangeInv, NodeInv, TakesTurns
  <2>4. s \in Nat
    OBVIOUS
  <2> HIDE DEF d, s
  <2> QED
    BY <2>2, <2>3, <2>4 DEF d
<1>2. ExchangeInv => InOrderOnce
  BY <1>1
<1> QED
  BY <1>2, ExchangeInvTheorem, PTL

\* A message given up by ExecuteActions is reported as a hung session at once,
\* or a response timer is left that will report it, unless it is a request that
\* was sent without a response timeout, and as long as no application closes an
\* exchange that awaits a response.
THEOREM ExpiredIsReportedTheorem ==
    ASSUME "Close" \notin AppCloses
    PROVE  Spec => ExpiredIsReported
<1> DEFINE Step == \A n \in Node : \A k \in AppMessage :
               node[n].fate[k] # "expired" /\ node'[n].fate[k] = "expired" =>
                   \/ node'[n].hang \/ node'[n].ec.timer
                   \/ ~node[n].timed /\ node[n].ec.respExpected
<1>1. ExchangeInv /\ [Next]_vars => [Step]_vars
  BY StepKeepsInv DEF Reports
<1>2. Spec => [][Step]_vars
  BY <1>1, ExchangeInvTheorem, PTL DEF Spec
<1> QED
  BY <1>2 DEF ExpiredIsReported
=============================================================================
