------------------------- MODULE BdxTransferProofs -------------------------
(***************************************************************************)
(* TurnInv is an invariant of BdxTransfer for files of every length, every *)
(* choice of control modes on the two sides, skips of every size and every *)
(* number of faults and transfers.  With it every unit is written where it *)
(* belongs, success is reported only for the whole file, and the two sides *)
(* drive a transfer the same way.                                          *)
(*                                                                         *)
(* The steps fall into four kinds, with one lemma for each.  Weaken: a     *)
(* session ends, a message is lost or refused, and nothing is added.       *)
(* Polls: an output is polled.  DataSays: the side that has the turn       *)
(* prepares a message, and the turn goes with it.  DataHears: a side hears *)
(* the first message that its peer has said and takes the turn if it is    *)
(* passed.  Inits and accepts, which are said and heard outside of turns,  *)
(* have lemmas of their own.                                               *)
(***************************************************************************)
EXTENDS BdxTransfer, FiniteSetTheorems, SequenceTheorems, TLAPS

(* The other side of a side.                                               *)
LEMMA PeerFacts ==
    /\ "Sender" \in Roles /\ "Receiver" \in Roles
    /\ Peer("Sender") = "Receiver" /\ Peer("Receiver") = "Sender"
    /\ \A r \in Roles : Peer(r) \in Roles /\ Peer(Peer(r)) = r /\ Peer(r) # r
BY DEF Roles, Peer

(* What is left of a sequence of messages without its first.               *)
LEMMA TailFacts ==
    ASSUME NEW c \in Seq(Messages), c # <<>>
    PROVE  /\ Head(c) = c[1] /\ Head(c) \in Messages /\ 1 \in 1 .. Len(c)
           /\ Tail(c) \in Seq(Messages) /\ Len(Tail(c)) = Len(c) - 1
           /\ \A i \in 1 .. Len(Tail(c)) : i + 1 \in 1 .. Len(c) /\ Tail(c)[i] = c[i + 1]
<1>1. Len(c) \in Nat \ {0}
  BY EmptySeq, LenProperties
<1>2. /\ Tail(c) \in Seq(Messages) /\ Len(Tail(c)) = Len(c) - 1
      /\ \A i \in 1 .. Len(Tail(c)) : Tail(c)[i] = c[i + 1]
  BY HeadTailProperties
<1>3. Head(c) = c[1] /\ Head(c) \in Messages
  BY HeadTailProperties
<1> QED
  BY <1>1, <1>2, <1>3

(* A sequence of messages with one more at its end.                        *)
LEMMA AppendFacts ==
    ASSUME NEW c \in Seq(Messages), NEW m \in Messages
    PROVE  /\ Append(c, m) \in Seq(Messages) /\ Len(Append(c, m)) = Len(c) + 1
           /\ Append(c, m)[Len(c) + 1] = m
           /\ \A i \in 1 .. Len(c) : Append(c, m)[i] = c[i]
BY AppendProperties, LenProperties

(* A session that is over: nothing more is awaited, accepted or said but   *)
(* a report.                                                               *)
Over(s) ==
    /\ s.state \in {"Unitialized", "ErrorState", "TransferDone"} /\ ~s.awaiting
    /\ s.out \in {"None", "StatusReceived", "MsgToSend"}
    /\ s.out = "MsgToSend" => s.msg.type = "StatusReport"
    /\ s.state = "Unitialized" => s.out = "None"

(* d holds messages of c, in their order, and reports.                     *)
Thins(c, d) ==
    \E k \in {0, 1} : \A i \in 1 .. Len(d) :
        \/ d[i].type = "StatusReport"
        \/ i + k \in 1 .. Len(c) /\ d[i] = c[i + k]

(* What a side has said, before a step.                                    *)
LEMMA PipeType ==
    ASSUME TypeOK, NEW r \in Roles
    PROVE  /\ Pipe(r) \in Seq(Messages) /\ Len(Pipe(r)) \in Nat
           /\ \A i \in Heard(r) : i \in Nat \ {0} /\ Pipe(r)[i] \in Messages
<1>1. chan[Peer(r)] \in Seq(Messages) /\ sess[r].msg \in Messages
  BY PeerFacts DEF TypeOK, Sessions
<1>2. Pipe(r) \in Seq(Messages)
  BY <1>1, AppendFacts DEF Pipe
<1> QED
  BY <1>2, LenProperties, ElementOfSeq DEF Heard

(* What a side has said, after a step.                                     *)
LEMMA NextPipeType ==
    ASSUME TypeOK', NEW r \in Roles
    PROVE  /\ Pipe(r)' \in Seq(Messages) /\ Len(Pipe(r)') \in Nat
           /\ \A i \in Heard(r)' : i \in Nat \ {0} /\ Pipe(r)'[i] \in Messages
<1>1. chan'[Peer(r)] \in Seq(Messages) /\ sess'[r].msg \in Messages
  BY PeerFacts DEF TypeOK, Sessions
<1>2. Pipe(r)' \in Seq(Messages)
  BY <1>1, AppendFacts DEF Pipe
<1> QED
  BY <1>2, LenProperties, ElementOfSeq DEF Heard

(* A step that ends sessions, lets messages go and moves no data.          *)
LEMMA Weaken ==
    ASSUME TurnInv, TypeOK',
           UNCHANGED <<cursor, image, skipped, fresh>>,
           \A r \in Roles : sess'[r] = sess[r] \/ Over(sess'[r]),
           \A r \in Roles : sess'[r].mode = sess[r].mode,
           \A r \in Roles : Thins(Pipe(r), Pipe(r)'),
           \A i \in 1 .. Len(chan'["Sender"]) :
               chan'["Sender"][i].type = "BlockAckEOF" => app'["Receiver"] = "success",
           \A r \in Roles : app'[r] # "busy" => sess'[r].state = "Unitialized",
           app["Receiver"] = "success" => app'["Receiver"] = "success",
           app'["Receiver"] = "success" => cursor["Receiver"] = FileLen,
           app'["Sender"] = "success" => app'["Receiver"] = "success"
    PROVE  TurnInv'
<1>0. TypeOK /\ TypeOK' /\ OneTurn /\ SameDrive /\ CursorsMeet /\ ImageReaches /\ ImageFaithful
  BY DEF TurnInv
<1>1. \A m : PassesTurn(m)' <=> PassesTurn(m)
  BY PeerFacts DEF PassesTurn
<1>2. \A r \in Roles : /\ HasTurn(r)' => HasTurn(r) /\ sess'[r] = sess[r]
                       /\ InTransfer(r)' => InTransfer(r) /\ sess'[r] = sess[r]
                       /\ Early(r)' => Early(r) /\ sess'[r] = sess[r]
                       /\ Responding(r)' => Responding(r) /\ sess'[r] = sess[r]
  BY DEF HasTurn, InTransfer, Early, Responding, Over
<1>3. \A r \in Roles : \E k \in {0, 1} : \A i \in Heard(r)' :
          \/ Pipe(r)'[i].type = "StatusReport"
          \/ i + k \in Heard(r) /\ Pipe(r)'[i] = Pipe(r)[i + k]
  BY DEF Thins, Heard
<1>4. \A r \in Roles : /\ Len(Pipe(r)) \in Nat /\ Len(Pipe(r)') \in Nat
                       /\ \A i \in Heard(r) : Pipe(r)[i] \in Messages
                       /\ \A i \in Heard(r)' : Pipe(r)'[i] \in Messages
  BY <1>0, PipeType, NextPipeType
<1>5. \A r \in Roles : \A i \in Heard(r)' :
          \/ Pipe(r)'[i].type = "StatusReport"
          \/ \E j \in Heard(r) : Pipe(r)'[i] = Pipe(r)[j]
  BY <1>3
<1>6. \A r \in Roles : TurnOnItsWay(r)' => TurnOnItsWay(r)
  BY <1>1, <1>5 DEF TurnOnItsWay, PassesTurn, Blocks, Queries
<1>7. OneTurn'
  <2>1. ASSUME NEW r \in Roles, NEW i \in Heard(r)', NEW j \in Heard(r)',
               PassesTurn(Pipe(r)'[i]), PassesTurn(Pipe(r)'[j])
        PROVE  i = j
    <3>1. PICK k \in {0, 1} : \A x \in Heard(r)' :
              \/ Pipe(r)'[x].type = "StatusReport"
              \/ x + k \in Heard(r) /\ Pipe(r)'[x] = Pipe(r)[x + k]
      BY <1>3
    <3>2. /\ i + k \in Heard(r) /\ Pipe(r)'[i] = Pipe(r)[i + k]
          /\ j + k \in Heard(r) /\ Pipe(r)'[j] = Pipe(r)[j + k]
      BY <2>1, <3>1 DEF PassesTurn, Blocks, Queries
    <3>3. i + k = j + k
      BY <1>0, <2>1, <3>2 DEF OneTurn
    <3> QED
      BY <3>3, <1>4 DEF Heard
  <2> QED
    BY <1>0, <1>1, <1>2, <1>6, <2>1, PeerFacts DEF OneTurn
<1>8. SameDrive'
  <2>1. Acknowledges' => Acknowledges
    BY <1>5, PeerFacts DEF Acknowledges
  <2>2. sess'["Receiver"].out = "BlockReceived" => sess["Receiver"].out = "BlockReceived"
    BY PeerFacts DEF Over
  <2>3. sess'["Receiver"].state = "TransferInProgress" => sess'["Receiver"] = sess["Receiver"]
    BY PeerFacts DEF Over
  <2> QED
    BY <1>0, <1>2, <2>1, <2>2, <2>3, PeerFacts DEF SameDrive
<1>9. CursorsMeet'
  <2>1. sess'["Receiver"].state = "ReceivedEOF" => sess'["Receiver"] = sess["Receiver"]
    BY PeerFacts DEF Over
  <2> QED
    BY <1>0, <1>1, <1>2, <1>5, <2>1, PeerFacts DEF CursorsMeet, Blocks, Accepts, Queries
<1>10. ImageReaches'
  BY <1>0, <1>5, PeerFacts DEF ImageReaches
<1>11. ASSUME NEW r \in Roles PROVE OutputFits(r)'
  <2>0. OutputFits(r) /\ Peer(r) \in Roles
    BY PeerFacts DEF TurnInv
  <2>1. \A i \in Heard(r)' : Pipe(r)'[i].type \in Says(r)
    BY <1>5, <2>0 DEF OutputFits, Says
  <2>2. CASE sess'[r] = sess[r]
    BY <2>0, <2>1, <2>2 DEF OutputFits, Responding, HasTurn
  <2>3. CASE Over(sess'[r])
    <3>1. sess[r].state = "Unitialized" => sess[r].out = "None"
      BY <2>0 DEF OutputFits
    <3> QED
      BY <2>0, <2>1, <2>3 DEF OutputFits, Over
  <2> QED
    BY <2>2, <2>3
<1>12. ASSUME NEW r \in Roles PROVE Greeted(r)'
  <2>0. Greeted(r) /\ Peer(r) \in Roles
    BY PeerFacts DEF TurnInv
  <2>1. ASSUME NEW i \in Heard(r)', Pipe(r)'[i].type \in Inits \cup Accepts
        PROVE  /\ ~InTransfer(Peer(r))' /\ sess'[Peer(r)].state # "NegotiateTransferParams"
               /\ \E d \in Modes : Pipe(r)'[i].modes = {d}
               /\ \A j \in Heard(r)' : Pipe(r)'[j].type \in Inits \cup Accepts => i = j
    <3>1. PICK k \in {0, 1} : \A x \in Heard(r)' :
              \/ Pipe(r)'[x].type = "StatusReport"
              \/ x + k \in Heard(r) /\ Pipe(r)'[x] = Pipe(r)[x + k]
      BY <1>3
    <3>2. i + k \in Heard(r) /\ Pipe(r)'[i] = Pipe(r)[i + k]
      BY <2>1, <3>1 DEF Inits, Accepts
    <3>3. /\ ~InTransfer(Peer(r)) /\ sess[Peer(r)].state # "NegotiateTransferParams"
          /\ \E d \in Modes : Pipe(r)[i + k].modes = {d}
          /\ \A j \in Heard(r) : Pipe(r)[j].type \in Inits \cup Accepts => i + k = j
      BY <2>0, <2>1, <3>2 DEF Greeted
    <3>4. ASSUME NEW j \in Heard(r)', Pipe(r)'[j].type \in Inits \cup Accepts
          PROVE  i = j
      <4>1. j + k \in Heard(r) /\ Pipe(r)'[j] = Pipe(r)[j + k]
        BY <3>1, <3>4 DEF Inits, Accepts
      <4>2. i + k = j + k
        BY <3>3, <3>4, <4>1
      <4> QED
        BY <4>2, <1>4 DEF Heard
    <3>5. sess'[Peer(r)].state # "NegotiateTransferParams"
      BY <2>0, <3>3 DEF Over
    <3> QED
      BY <1>2, <2>0, <3>2, <3>3, <3>4, <3>5
  <2>2. \A i \in Heard(r)' : Pipe(r)'[i].type \in Accepts =>
            ~Early(r)' /\ (InTransfer(r)' => Pipe(r)'[i].modes = {sess'[r].mode})
    BY <1>2, <1>5, <2>0 DEF Greeted, Accepts
  <2>3. /\ Early(r)' =>
              ~fresh' /\ \A i \in Heard(r)' : Pipe(r)'[i].type \in Inits \cup {"StatusReport"}
        /\ Responding(r)' => \A i \in Heard(Peer(r))' :
                Pipe(Peer(r))'[i].type \in Inits \cup {"StatusReport"}
        /\ Responding(r)' => \A i \in Heard(r)' : Pipe(r)'[i].type = "StatusReport"
    BY <1>2, <1>5, <2>0 DEF Greeted
  <2>4. Responding(r)' => /\ ~InTransfer(Peer(r))' /\ ~Responding(Peer(r))'
                         /\ cursor'["Sender"] = cursor'["Receiver"]
    BY <1>2, <2>0 DEF Greeted
  <2>5. /\ sess'[r].state = "AwaitingInitMsg" => sess'[r].supported = Supported[r]
        /\ sess'[r].state = "NegotiateTransferParams" =>
              sess'[r].request \cap Supported[r] \subseteq {sess'[r].mode}
    BY <2>0 DEF Greeted, Over
  <2> QED
    BY <2>1, <2>2, <2>3, <2>4, <2>5 DEF Greeted
<1>13. ImageFaithful'
  BY <1>0 DEF ImageFaithful
<1> QED
  BY <1>0, <1>7, <1>8, <1>9, <1>10, <1>11, <1>12, <1>13 DEF TurnInv

(* When r hears a message, what its peer has said is shorter by its first. *)
LEMMA PipeHeard ==
    ASSUME TypeOK, NEW r \in Roles, chan[r] # <<>>,
           chan'[r] = Tail(chan[r]), sess'[Peer(r)] = sess[Peer(r)]
    PROVE  /\ Pipe(Peer(r))[1] = Head(chan[r]) /\ 1 \in Heard(Peer(r))
           /\ Len(Pipe(Peer(r))') = Len(Pipe(Peer(r))) - 1
           /\ \A i \in Heard(Peer(r))' :
                  i + 1 \in Heard(Peer(r)) /\ Pipe(Peer(r))'[i] = Pipe(Peer(r))[i + 1]
<1> DEFINE c == chan[r]
           d == chan'[r]
           m == sess[Peer(r)].msg
<1>1. /\ c \in Seq(Messages) /\ m \in Messages /\ Len(c) \in Nat \ {0}
      /\ d \in Seq(Messages) /\ Len(d) = Len(c) - 1 /\ Head(c) = c[1]
      /\ \A i \in 1 .. Len(d) : i + 1 \in 1 .. Len(c) /\ d[i] = c[i + 1]
  <2>1. c \in Seq(Messages) /\ m \in Messages
    BY PeerFacts DEF TypeOK, Sessions
  <2>2. Len(c) \in Nat \ {0}
    BY <2>1, EmptySeq, LenProperties
  <2> QED
    BY <2>1, <2>2, TailFacts
<1>2. /\ Pipe(Peer(r)) = IF sess[Peer(r)].out = "MsgToSend" THEN Append(c, m) ELSE c
      /\ Pipe(Peer(r))' = IF sess[Peer(r)].out = "MsgToSend" THEN Append(d, m) ELSE d
  BY PeerFacts DEF Pipe
<1>3. /\ Len(Append(c, m)) = Len(c) + 1 /\ Append(c, m)[Len(c) + 1] = m
      /\ \A i \in 1 .. Len(c) : Append(c, m)[i] = c[i]
  BY <1>1, AppendFacts
<1>4. /\ Len(Append(d, m)) = Len(d) + 1 /\ Append(d, m)[Len(d) + 1] = m
      /\ \A i \in 1 .. Len(d) : Append(d, m)[i] = d[i]
  BY <1>1, AppendFacts
<1> HIDE DEF c, d, m
<1>5. CASE sess[Peer(r)].out = "MsgToSend"
  <2>1. Pipe(Peer(r)) = Append(c, m) /\ Pipe(Peer(r))' = Append(d, m)
    BY <1>2, <1>5
  <2>2. Append(c, m)[1] = c[1]
    BY <1>1, <1>3
  <2>3. ASSUME NEW i \in 1 .. Len(Append(d, m))
        PROVE  i + 1 \in 1 .. Len(Append(c, m)) /\ Append(d, m)[i] = Append(c, m)[i + 1]
    <3>1. CASE i \in 1 .. Len(d)
      BY <1>1, <1>3, <1>4, <3>1
    <3>2. CASE i = Len(d) + 1
      BY <1>1, <1>3, <1>4, <3>2
    <3> QED
      BY <1>1, <1>4, <3>1, <3>2
  <2> QED
    BY <1>1, <1>3, <1>4, <2>1, <2>2, <2>3 DEF Heard, c
<1>6. CASE sess[Peer(r)].out # "MsgToSend"
  BY <1>1, <1>2, <1>6 DEF Heard, c
<1> QED
  BY <1>5, <1>6

(* r hears a message, or not; its session is over or as it was.            *)
LEMMA Drop ==
    ASSUME TurnInv, TypeOK', UNCHANGED <<cursor, image, skipped, fresh>>,
           NEW r \in Roles, NEW t, sess' = [sess EXCEPT ![r] = t],
           t = sess[r] \/ Over(t), t.mode = sess[r].mode,
           \/ chan' = chan
           \/ chan[r] # <<>> /\ chan' = [chan EXCEPT ![r] = Tail(@)],
           app'[r] # "busy" => t.state = "Unitialized",
           app'[Peer(r)] = app[Peer(r)],
           app'["Receiver"] = "success" <=> app["Receiver"] = "success",
           app'["Sender"] = "success" => app["Receiver"] = "success"
    PROVE  TurnInv'
<1> DEFINE q == Peer(r)
<1>0. /\ TypeOK /\ q \in Roles /\ q # r /\ Peer(q) = r /\ Roles = {r, q}
      /\ OutputFits(q) /\ ImageReaches
  BY PeerFacts DEF TurnInv, Roles, Peer
<1>1. sess'[r] = t /\ sess'[q] = sess[q]
  BY <1>0 DEF TypeOK
<1>2. chan'[q] = chan[q] /\ (chan'[r] = chan[r] \/ (chan[r] # <<>> /\ chan'[r] = Tail(chan[r])))
  BY <1>0 DEF TypeOK
<1>3. Thins(Pipe(q), Pipe(q)')
  <2>1. CASE chan'[r] = chan[r]
    <3>1. Pipe(q)' = Pipe(q) /\ Len(Pipe(q)) \in Nat
      BY <1>0, <1>1, <2>1, PipeType DEF Pipe
    <3> QED
      BY <3>1 DEF Thins
  <2>2. CASE chan[r] # <<>> /\ chan'[r] = Tail(chan[r])
    <3>1. \A i \in 1 .. Len(Pipe(q)') :
              i + 1 \in 1 .. Len(Pipe(q)) /\ Pipe(q)'[i] = Pipe(q)[i + 1]
      BY <1>0, <1>1, <2>2, PipeHeard DEF Heard
    <3> QED
      BY <3>1 DEF Thins
  <2> QED
    BY <1>2, <2>1, <2>2
<1>4. Thins(Pipe(r), Pipe(r)')
  <2>1. /\ chan[q] \in Seq(Messages) /\ Len(chan[q]) \in Nat
        /\ sess[r].msg \in Messages /\ sess'[r].msg \in Messages
    BY <1>0, LenProperties DEF TypeOK, Sessions
  <2>2. /\ Pipe(r) = IF sess[r].out = "MsgToSend" THEN Append(chan[q], sess[r].msg) ELSE chan[q]
        /\ Pipe(r)' = IF t.out = "MsgToSend" THEN Append(chan[q], t.msg) ELSE chan[q]
    BY <1>1, <1>2 DEF Pipe
  <2>3. CASE t = sess[r]
    <3>1. Pipe(r)' = Pipe(r) /\ Len(Pipe(r)) \in Nat
      BY <1>0, <2>2, <2>3, PipeType
    <3> QED
      BY <3>1 DEF Thins
  <2>4. CASE Over(t)
    <3>1. /\ Len(Append(chan[q], t.msg)) = Len(chan[q]) + 1
          /\ Append(chan[q], t.msg)[Len(chan[q]) + 1] = t.msg
          /\ \A i \in 1 .. Len(chan[q]) : Append(chan[q], t.msg)[i] = chan[q][i]
      BY <1>1, <2>1, AppendFacts
    <3>2. /\ Len(Append(chan[q], sess[r].msg)) = Len(chan[q]) + 1
          /\ \A i \in 1 .. Len(chan[q]) : Append(chan[q], sess[r].msg)[i] = chan[q][i]
      BY <2>1, AppendFacts
    <3>3. ASSUME NEW i \in 1 .. Len(Pipe(r)')
          PROVE  Pipe(r)'[i].type = "StatusReport" \/ (i + 0 \in 1 .. Len(Pipe(r)) /\ Pipe(r)'[i] = Pipe(r)[i + 0])
      <4>1. CASE i \in 1 .. Len(chan[q])
        BY <2>1, <2>2, <3>1, <3>2, <4>1
      <4>2. CASE i \notin 1 .. Len(chan[q])
        <5>1. t.out = "MsgToSend" /\ i = Len(chan[q]) + 1
          BY <2>1, <2>2, <3>1, <4>2
        <5> QED
          BY <2>2, <2>4, <3>1, <5>1 DEF Over
      <4> QED
        BY <4>1, <4>2
    <3> QED
      BY <3>3 DEF Thins
  <2> QED
    BY <2>3, <2>4
<1>5. Thins(chan["Sender"], chan'["Sender"])
  <2>1. chan["Sender"] \in Seq(Messages) /\ Len(chan["Sender"]) \in Nat
    BY PeerFacts, <1>0, LenProperties DEF TypeOK
  <2>2. CASE chan'["Sender"] = chan["Sender"]
    BY <2>1, <2>2 DEF Thins
  <2>3. CASE chan["Sender"] # <<>> /\ chan'["Sender"] = Tail(chan["Sender"])
    <3>1. \A i \in 1 .. Len(chan'["Sender"]) :
              i + 1 \in 1 .. Len(chan["Sender"]) /\ chan'["Sender"][i] = chan["Sender"][i + 1]
      BY <2>1, <2>3, TailFacts
    <3> QED
      BY <3>1 DEF Thins
  <2> QED
    BY <1>0, <1>2, <2>2, <2>3, PeerFacts DEF Roles
<1>6. \A x \in Roles : /\ sess'[x] = sess[x] \/ Over(sess'[x])
                       /\ sess'[x].mode = sess[x].mode
                       /\ Thins(Pipe(x), Pipe(x)')
                       /\ app'[x] # "busy" => sess'[x].state = "Unitialized"
  <2>1. app'[q] # "busy" => sess'[q].state = "Unitialized"
    BY <1>0, <1>1 DEF OutputFits
  <2> HIDE DEF q
  <2>2. \A x \in Roles : x = r \/ x = q
    BY <1>0
  <2> QED
    BY <1>1, <1>3, <1>4, <2>1, <2>2
<1>7. \A i \in 1 .. Len(chan'["Sender"]) :
          chan'["Sender"][i].type = "BlockAckEOF" => app'["Receiver"] = "success"
  BY <1>0, <1>5 DEF Thins, ImageReaches
<1>8. /\ app["Receiver"] = "success" => app'["Receiver"] = "success"
      /\ app'["Receiver"] = "success" => cursor["Receiver"] = FileLen
      /\ app'["Sender"] = "success" => app'["Receiver"] = "success"
  BY <1>0 DEF ImageReaches
<1> QED
  BY <1>6, <1>7, <1>8, Weaken

(* The messages a session makes.                                           *)
LEMMA MsgType ==
    ASSUME NEW type \in MsgTypes, NEW n \in Nat, NEW data \in Nat, NEW len \in Nat,
           NEW modes \in SUBSET Modes
    PROVE  Msg(type, n, data, len, modes) \in Messages /\ Counter(type, n) \in Messages
BY DEF Msg, Counter, Messages

(* The methods that end a session.                                         *)
LEMMA Ends ==
    ASSUME NEW s \in Sessions,
           NEW t \in {Reset(s), PrepareStatusReport(s), RejectTransfer(s),
                      HandleStatusReportMessage(s)}
    PROVE  t \in Sessions /\ Over(t) /\ t.mode = s.mode /\ t.role = s.role
<1>0. /\ "StatusReport" \in MsgTypes
      /\ Counter("StatusReport", 0) \in Messages
      /\ Counter("StatusReport", 0).type = "StatusReport"
  BY MsgType DEF MsgTypes, Counter, Msg
<1>1. ASSUME t = Reset(s) PROVE t \in Sessions /\ Over(t) /\ t.mode = s.mode /\ t.role = s.role
  BY <1>0, <1>1 DEF Reset, Blank, Sessions, Over, States, Outputs
<1>2. /\ PrepareStatusReport(s) \in Sessions /\ Over(PrepareStatusReport(s))
      /\ PrepareStatusReport(s).mode = s.mode /\ PrepareStatusReport(s).role = s.role
  BY <1>0 DEF PrepareStatusReport, PrepareOutgoing, Sessions, Over, States, Outputs
<1>3. ASSUME t = RejectTransfer(s)
      PROVE  t \in Sessions /\ Over(t) /\ t.mode = s.mode /\ t.role = s.role
  BY <1>2, <1>3 DEF RejectTransfer, Sessions, Over, States
<1>4. ASSUME t = HandleStatusReportMessage(s)
      PROVE  t \in Sessions /\ Over(t) /\ t.mode = s.mode /\ t.role = s.role
  BY <1>4 DEF HandleStatusReportMessage, Sessions, Over, States, Outputs
<1> QED
  BY <1>1, <1>2, <1>3, <1>4

(* Reset leaves nothing behind.                                            *)
LEMMA ResetState ==
    ASSUME NEW s \in Sessions
    PROVE  Reset(s).state = "Unitialized" /\ Reset(s).out = "None" /\ ~Reset(s).awaiting
BY DEF Reset, Blank

(* The types of the channels when r hears a message, or none.              *)
LEMMA ChanType ==
    ASSUME TypeOK, NEW r \in Roles,
           chan' = chan \/ (chan[r] # <<>> /\ chan' = [chan EXCEPT ![r] = Tail(@)])
    PROVE  chan' \in [Roles -> Seq(Messages)]
<1>1. chan \in [Roles -> Seq(Messages)] /\ chan[r] \in Seq(Messages)
  BY DEF TypeOK
<1>2. CASE chan[r] # <<>> /\ chan' = [chan EXCEPT ![r] = Tail(@)]
  <2>1. Tail(chan[r]) \in Seq(Messages)
    BY <1>1, <1>2, TailFacts
  <2> QED
    BY <1>1, <1>2, <2>1
<1> QED
  BY <1>1, <1>2

(* A session of r that is over or as it was: the steps that end it.        *)
LEMMA EndStep ==
    ASSUME TurnInv, UNCHANGED <<cursor, image, skipped, fresh>>,
           NEW r \in Roles, NEW t, sess' = [sess EXCEPT ![r] = t],
           t = sess[r] \/ t \in {Reset(sess[r]), PrepareStatusReport(sess[r]),
                                 RejectTransfer(sess[r]), HandleStatusReportMessage(sess[r])},
           chan' = chan \/ (chan[r] # <<>> /\ chan' = [chan EXCEPT ![r] = Tail(@)]),
           \/ app' = app /\ (t = sess[r] \/ app[r] = "busy")
           \/ /\ app[r] = "busy" /\ t = Reset(sess[r])
              /\ \/ app' = [app EXCEPT ![r] = "failure"]
                 \/ /\ r = "Sender" /\ app["Receiver"] = "success"
                    /\ app' = [app EXCEPT ![r] = "success"],
           {disturbed', released'} \subseteq BOOLEAN,
           faults' \in 0 .. MaxFaults, transfers' \in 0 .. MaxTransfers
    PROVE  TurnInv'
<1>0. TypeOK /\ OutputFits(r) /\ ImageReaches
  BY DEF TurnInv
<1>1. sess[r] \in Sessions /\ sess[r].role = r
  BY <1>0 DEF TypeOK
<1>2. /\ t \in Sessions /\ t.role = r /\ t.mode = sess[r].mode
      /\ t = sess[r] \/ Over(t)
  BY <1>1, Ends
<1>3. TypeOK'
  <2>1. sess' \in [Roles -> Sessions] /\ \A x \in Roles : sess'[x].role = x
    BY <1>0, <1>2 DEF TypeOK
  <2>2. chan' \in [Roles -> Seq(Messages)]
    BY <1>0, ChanType
  <2>3. app' \in [Roles -> {"idle", "busy", "success", "failure"}]
    BY <1>0 DEF TypeOK
  <2>4. {fresh', disturbed', released'} \subseteq BOOLEAN
    BY <1>0 DEF TypeOK
  <2> QED
    BY <1>0, <2>1, <2>2, <2>3, <2>4 DEF TypeOK
<1>4. app'[r] # "busy" => t.state = "Unitialized"
  <2>1. CASE app' = app /\ (t = sess[r] \/ app[r] = "busy")
    BY <1>0, <2>1 DEF OutputFits
  <2>2. CASE t = Reset(sess[r])
    BY <1>1, <2>2, ResetState
  <2> QED
    BY <2>1, <2>2
<1>5. /\ app'[Peer(r)] = app[Peer(r)]
      /\ app'["Receiver"] = "success" <=> app["Receiver"] = "success"
      /\ app'["Sender"] = "success" => app["Receiver"] = "success"
  BY <1>0, PeerFacts DEF TypeOK, ImageReaches
<1> QED
  BY <1>2, <1>3, <1>4, <1>5, Drop

(* The steps at which r only loses: it is told the end, gives up, aborts,  *)
(* rejects, or a message to it is lost.                                    *)
LEMMA EndSteps ==
    ASSUME TurnInv, NEW r \in Roles,
           \/ PollEnd(r) \/ EndRejected(r) \/ PollTimeout(r) \/ Reject(r)
           \/ Abort(r) \/ GiveUp(r) \/ Lose(r) \/ (r = "Sender" /\ OnResponseTimeout)
           \/ (r = "Receiver" /\ OnDownloadTimeout)
    PROVE  TurnInv'
<1>0. TypeOK /\ OutputFits(r) /\ faults \in 0 .. MaxFaults /\ transfers \in 0 .. MaxTransfers
      /\ disturbed \in BOOLEAN /\ released \in BOOLEAN /\ MaxFaults \in Nat
  BY BoundsAssumption DEF TurnInv, TypeOK
<1>1. /\ disturbed' \in BOOLEAN /\ released' \in BOOLEAN /\ faults' \in 0 .. MaxFaults
      /\ transfers' \in 0 .. MaxTransfers /\ UNCHANGED <<cursor, image, skipped, fresh>>
  <2>1. /\ released' = released \/ released' = TRUE
        /\ transfers' = transfers /\ UNCHANGED <<cursor, image, skipped, fresh>>
    BY DEF PollEnd, EndRejected, PollTimeout, Reject, Abort, GiveUp, Lose, OnResponseTimeout,
           OnDownloadTimeout, Calm, Data, Book
  <2>2. faults' = faults \/ (faults < MaxFaults /\ faults' = faults + 1)
    BY DEF PollEnd, EndRejected, PollTimeout, Reject, Abort, GiveUp, Lose, OnResponseTimeout,
           OnDownloadTimeout, Calm, Fault
  <2>3. \/ disturbed' = disturbed \/ disturbed' = TRUE \/ disturbed' = (disturbed \/ Underway)
        \/ disturbed' = (disturbed \/ Underway \/ ~sess["Receiver"].awaiting)
    BY DEF PollEnd, EndRejected, PollTimeout, Reject, Abort, GiveUp, Lose, OnResponseTimeout,
           OnDownloadTimeout, Calm, Fault
  <2>4. disturbed' \in BOOLEAN
    BY <1>0, <2>3, Zenon
  <2>5. released' \in BOOLEAN
    BY <1>0, <2>1, Zenon
  <2>6. faults' \in 0 .. MaxFaults
    BY <1>0, <2>2
  <2> QED
    BY <1>0, <2>1, <2>4, <2>5, <2>6
<1>2. CASE \/ PollEnd(r) \/ EndRejected(r) \/ PollTimeout(r) \/ GiveUp(r)
           \/ (r = "Receiver" /\ OnDownloadTimeout)
  <2>1. /\ app[r] = "busy" /\ chan' = chan /\ sess' = [sess EXCEPT ![r] = Reset(sess[r])]
        /\ \/ app' = [app EXCEPT ![r] = "failure"]
           \/ r = "Sender" /\ app["Receiver"] = "success" /\ app' = [app EXCEPT ![r] = "success"]
    BY <1>0, <1>2
       DEF PollEnd, EndRejected, PollTimeout, GiveUp, OnDownloadTimeout, Tell, OutputFits
  <2> QED
    BY <1>1, <2>1, EndStep
<1>3. CASE Reject(r)
  BY <1>1, <1>3, EndStep DEF Reject
<1>4. CASE Abort(r)
  BY <1>1, <1>4, EndStep DEF Abort, AbortTransfer
<1>5. CASE Lose(r)
  <2>1. sess' = [sess EXCEPT ![r] = sess[r]]
    BY <1>0, <1>5 DEF Lose, TypeOK
  <2> QED
    BY <1>1, <1>5, <2>1, EndStep DEF Lose
<1>6. CASE r = "Sender" /\ OnResponseTimeout
  BY <1>1, <1>6, EndStep DEF OnResponseTimeout
<1> QED
  BY <1>2, <1>3, <1>4, <1>5, <1>6

(* A message to send, or a notice, is polled: nothing changes but that the *)
(* output is gone and that a sender asked to skip has moved its cursor.    *)
LEMMA Polls ==
    ASSUME TurnInv, TypeOK', UNCHANGED <<app, image, skipped, fresh>>,
           NEW r \in Roles, sess' = [sess EXCEPT ![r].out = "None"],
           sess[r].out # "BlockReceived",
           \A x \in Roles : Pipe(x)' = Pipe(x),
           \A i \in 1 .. Len(chan'["Sender"]) :
               chan'["Sender"][i].type = "BlockAckEOF" => app["Receiver"] = "success",
           \/ sess[r].out # "QueryWithSkipReceived" /\ cursor' = cursor
           \/ /\ sess[r].out = "QueryWithSkipReceived"
              /\ cursor' = [cursor EXCEPT ![r] = Least(FileLen, @ + sess[r].msg.len)]
    PROVE  TurnInv'
<1>0. /\ TypeOK /\ OneTurn /\ SameDrive /\ CursorsMeet /\ ImageReaches /\ ImageFaithful
      /\ \A x \in Roles : OutputFits(x) /\ Greeted(x)
  BY DEF TurnInv
<1>1. \A x \in Roles :
          /\ sess'[x].state = sess[x].state /\ sess'[x].awaiting = sess[x].awaiting
          /\ sess'[x].mode = sess[x].mode /\ sess'[x].msg = sess[x].msg
          /\ sess'[x].supported = sess[x].supported /\ sess'[x].request = sess[x].request
          /\ IF x = r THEN sess'[x].out = "None" ELSE sess'[x].out = sess[x].out
  <2>1. /\ sess[r] \in Sessions /\ sess'[r] = [sess[r] EXCEPT !.out = "None"]
        /\ \A x \in Roles : x # r => sess'[x] = sess[x]
    BY <1>0 DEF TypeOK
  <2>2. /\ sess'[r].state = sess[r].state /\ sess'[r].awaiting = sess[r].awaiting
        /\ sess'[r].mode = sess[r].mode /\ sess'[r].msg = sess[r].msg
        /\ sess'[r].supported = sess[r].supported /\ sess'[r].request = sess[r].request
        /\ sess'[r].out = "None"
    BY <2>1 DEF Sessions
  <2> QED
    BY <2>1, <2>2
<1>2. /\ \A m : PassesTurn(m)' <=> PassesTurn(m)
      /\ \A x \in Roles : Heard(x)' = Heard(x)
  BY <1>1, PeerFacts DEF PassesTurn, Heard
<1>3. \A x \in Roles : /\ HasTurn(x)' <=> HasTurn(x)
                       /\ InTransfer(x)' <=> InTransfer(x)
                       /\ Early(x)' <=> Early(x)
                       /\ Responding(x)' <=> Responding(x)
                       /\ TurnOnItsWay(x)' <=> TurnOnItsWay(x)
  BY <1>1, <1>2 DEF HasTurn, InTransfer, Early, Responding, TurnOnItsWay
<1>4. sess[r].out = "QueryWithSkipReceived" => r = "Sender" /\ HasTurn("Sender")
  BY <1>0 DEF OutputFits
<1>5. OneTurn'
  BY <1>0, <1>2, <1>3, PeerFacts DEF OneTurn
<1>6. SameDrive'
  <2>1. Acknowledges' <=> Acknowledges
    BY <1>2, PeerFacts DEF Acknowledges
  <2> QED
    BY <1>0, <1>1, <1>3, <2>1, PeerFacts DEF SameDrive
<1>7. cursor'["Receiver"] = cursor["Receiver"]
  BY <1>0, <1>4, PeerFacts, SMTT(30) DEF TypeOK
<1>8. CursorsMeet'
  <2>1. CASE cursor' = cursor /\ sess[r].out # "QueryWithSkipReceived"
    <3>1. /\ HasTurn("Sender")' =>
               cursor'["Receiver"] = IF sess'["Sender"].out = "QueryWithSkipReceived"
                   THEN Least(FileLen, cursor'["Sender"] + sess'["Sender"].msg.len)
                   ELSE cursor'["Sender"]
          /\ HasTurn("Receiver")' =>
               IF sess'["Receiver"].out = "BlockReceived"
               THEN Carries(sess'["Receiver"].msg, cursor'["Sender"], cursor'["Receiver"])
               ELSE cursor'["Sender"] = cursor'["Receiver"]
      BY <1>0, <1>1, <1>3, <2>1, PeerFacts DEF CursorsMeet
    <3> QED
      BY <1>0, <1>1, <1>2, <2>1, <3>1, PeerFacts DEF CursorsMeet
  <2>2. CASE sess[r].out = "QueryWithSkipReceived"
    <3>1. /\ HasTurn("Sender") /\ ~HasTurn("Receiver") /\ sess["Receiver"].state # "ReceivedEOF"
          /\ \A x \in Roles : \A i \in Heard(x) : ~PassesTurn(Pipe(x)[i])
      BY <1>0, <1>4, <2>2, PeerFacts DEF OneTurn, TurnOnItsWay, HasTurn
    <3>2. cursor'["Sender"] = cursor'["Receiver"]
      BY <1>0, <1>4, <1>7, <2>2, <3>1, PeerFacts DEF TypeOK, CursorsMeet
    <3>3. \A x \in Roles : \A i \in Heard(x) : Pipe(x)[i].type \notin Blocks \cup Queries
      BY <3>1 DEF PassesTurn
    <3>4. r = "Sender" /\ sess'["Sender"].out = "None"
      BY <1>1, <1>4, <2>2, PeerFacts
    <3> QED
      BY <1>1, <1>2, <1>3, <3>1, <3>2, <3>3, <3>4, PeerFacts DEF CursorsMeet, Blocks, Queries
  <2> QED
    BY <2>1, <2>2
<1>9. ImageReaches'
  BY <1>0, <1>2, <1>7, PeerFacts DEF ImageReaches
<1>10. ASSUME NEW x \in Roles PROVE OutputFits(x)'
  BY <1>0, <1>1, <1>2, <1>3 DEF OutputFits, Says
<1>11. ASSUME NEW x \in Roles PROVE Greeted(x)'
  <2>1. Responding(x) => cursor'["Sender"] = cursor'["Receiver"]
    <3>1. HasTurn("Sender") => InTransfer("Sender")
      BY DEF HasTurn, InTransfer
    <3>2. Responding(x) => ~InTransfer("Sender")
      BY <1>0, PeerFacts DEF Greeted, Responding, InTransfer, Roles
    <3>3. Responding(x) => cursor["Sender"] = cursor["Receiver"]
      BY <1>0 DEF Greeted
    <3> QED
      BY <1>4, <3>1, <3>2, <3>3
  <2> QED
    BY <1>0, <1>1, <1>2, <1>3, <2>1, PeerFacts DEF Greeted
<1>12. ImageFaithful'
  BY <1>0 DEF ImageFaithful
<1> QED
  BY <1>5, <1>6, <1>8, <1>9, <1>10, <1>11, <1>12 DEF TurnInv

(* PollMessage: what was said is on its way.                               *)
LEMMA PollMessageStep ==
    ASSUME TurnInv, NEW r \in Roles, PollMessage(r)
    PROVE  TurnInv'
<1> DEFINE m == sess[r].msg
<1>0. /\ TypeOK /\ ImageReaches /\ OutputFits(r) /\ OutputFits("Receiver") /\ Peer(r) \in Roles
      /\ sess[r] \in Sessions /\ sess[r].role = r /\ m \in Messages
      /\ chan \in [Roles -> Seq(Messages)] /\ chan[Peer(r)] \in Seq(Messages)
  BY PeerFacts DEF TurnInv, TypeOK, Sessions
<1>1. /\ app[r] = "busy" /\ sess[r].out = "MsgToSend"
      /\ chan' = [chan EXCEPT ![Peer(r)] = Append(@, m)]
      /\ UNCHANGED <<faults, disturbed, cursor, image, skipped, fresh, released, transfers>>
  BY DEF PollMessage, Calm, Data, Book
<1>2. /\ Pipe(r) = Append(chan[Peer(r)], m) /\ chan'[Peer(r)] = Pipe(r)
      /\ chan'[r] = chan[r]
  BY <1>0, <1>1, PeerFacts DEF Pipe
<1>3. chan' \in [Roles -> Seq(Messages)] /\ Len(chan[Peer(r)]) \in Nat
  <2>1. Append(chan[Peer(r)], m) \in Seq(Messages)
    BY <1>0, AppendFacts
  <2> QED
    BY <1>0, <1>1, <2>1, LenProperties
<1>4. /\ Len(Pipe(r)) = Len(chan[Peer(r)]) + 1 /\ Pipe(r)[Len(chan[Peer(r)]) + 1] = m
      /\ \A i \in 1 .. Len(chan[Peer(r)]) : Pipe(r)[i] = chan[Peer(r)][i]
  BY <1>0, <1>2, AppendFacts
<1>5. Len(chan[Peer(r)]) + 1 \in Heard(r)
  BY <1>3, <1>4 DEF Heard
<1>6. m.type = "BlockAckEOF" => r = "Receiver" /\ cursor["Receiver"] = FileLen
  <2>1. m.type \in Says(r)
    BY <1>0, <1>4, <1>5 DEF OutputFits
  <2>2. m.type = "BlockAckEOF" => r = "Receiver"
    BY <2>1 DEF Says, Blocks, Roles
  <2> QED
    BY <1>0, <1>4, <1>5, <2>2 DEF ImageReaches
<1>7. CASE m.type # "BlockAckEOF"
  <2>1. app' = app /\ sess' = [sess EXCEPT ![r].out = "None"]
    BY <1>7 DEF PollMessage, Polled
  <2>2. TypeOK'
    <3>1. [sess[r] EXCEPT !.out = "None"] \in Sessions /\ [sess[r] EXCEPT !.out = "None"].role = r
      BY <1>0 DEF Sessions, Outputs
    <3>2. sess' \in [Roles -> Sessions] /\ \A x \in Roles : sess'[x].role = x
      BY <1>0, <2>1, <3>1 DEF TypeOK
    <3> QED
      BY <1>0, <1>1, <1>3, <2>1, <3>2 DEF TypeOK
  <2>3. \A x \in Roles : Pipe(x)' = Pipe(x)
    <3>1. sess'[r].out = "None" /\ sess'[Peer(r)] = sess[Peer(r)]
      BY <1>0, <2>1, PeerFacts DEF TypeOK, Sessions
    <3>2. Pipe(r)' = Pipe(r)
      BY <1>2, <3>1 DEF Pipe
    <3>3. Pipe(Peer(r))' = Pipe(Peer(r))
      BY <1>2, <3>1, PeerFacts DEF Pipe
    <3>4. \A x \in Roles : x = r \/ x = Peer(r)
      BY DEF Roles, Peer
    <3> QED
      BY <3>2, <3>3, <3>4
  <2>4. \A i \in 1 .. Len(chan'["Sender"]) :
            chan'["Sender"][i].type = "BlockAckEOF" => app["Receiver"] = "success"
    <3>1. CASE r = "Sender"
      BY <1>0, <1>2, <3>1 DEF ImageReaches
    <3>2. CASE r = "Receiver"
      <4>1. chan'["Sender"] = Pipe(r) /\ Peer(r) = "Sender"
        BY <1>2, <3>2, PeerFacts
      <4>2. \A i \in 1 .. Len(Pipe(r)) : i \in 1 .. Len(chan["Sender"]) \/ Pipe(r)[i] = m
        BY <1>3, <1>4, <4>1
      <4> QED
        BY <1>0, <1>4, <1>7, <4>1, <4>2 DEF ImageReaches
    <3> QED
      BY <3>1, <3>2 DEF Roles
  <2> QED
    BY <1>1, <2>1, <2>2, <2>3, <2>4, Polls
<1>8. CASE m.type = "BlockAckEOF"
  <2>0. r = "Receiver" /\ Peer(r) = "Sender" /\ cursor["Receiver"] = FileLen
    BY <1>6, <1>8, PeerFacts
  <2>1. app' = [app EXCEPT ![r] = "success"] /\ sess' = [sess EXCEPT ![r] = Reset(sess[r])]
    BY <1>8 DEF PollMessage
  <2>2. /\ Reset(sess[r]) \in Sessions /\ Over(Reset(sess[r])) /\ Reset(sess[r]).role = r
        /\ Reset(sess[r]).mode = sess[r].mode
        /\ Reset(sess[r]).state = "Unitialized" /\ Reset(sess[r]).out = "None"
    BY <1>0, Ends, ResetState
  <2>3. sess' \in [Roles -> Sessions] /\ \A x \in Roles : sess'[x].role = x
    BY <1>0, <2>1, <2>2 DEF TypeOK
  <2>4. TypeOK'
    <3>1. app' \in [Roles -> {"idle", "busy", "success", "failure"}]
      BY <1>0, <2>1 DEF TypeOK
    <3> QED
      BY <1>0, <1>1, <1>3, <2>3, <3>1 DEF TypeOK
  <2>5. sess'["Receiver"] = Reset(sess["Receiver"]) /\ sess'["Sender"] = sess["Sender"]
    BY <1>0, <2>0, <2>1, PeerFacts DEF TypeOK
  <2>6. Pipe("Receiver")' = Pipe("Receiver") /\ Pipe("Sender")' = Pipe("Sender")
    BY <1>2, <2>0, <2>2, <2>5, PeerFacts DEF Pipe
  <2>7. \A x \in Roles : Thins(Pipe(x), Pipe(x)')
    <3>1. \A x \in Roles : Pipe(x)' = Pipe(x) /\ Len(Pipe(x)) \in Nat
      BY <1>0, <2>6, PipeType DEF Roles
    <3> QED
      BY <3>1 DEF Thins
  <2>8. /\ app'["Receiver"] = "success"
        /\ \A x \in Roles : app'[x] # "busy" => sess'[x].state = "Unitialized"
    <3>1. app'["Receiver"] = "success" /\ app'["Sender"] = app["Sender"]
      BY <1>0, <2>0, <2>1, PeerFacts DEF TypeOK
    <3>2. app["Sender"] # "busy" => sess["Sender"].state = "Unitialized"
      BY PeerFacts DEF TurnInv, OutputFits
    <3> QED
      BY <2>0, <2>2, <2>5, <3>1, <3>2 DEF Roles
  <2>9. \A x \in Roles : (sess'[x] = sess[x] \/ Over(sess'[x])) /\ sess'[x].mode = sess[x].mode
    BY <2>0, <2>2, <2>5 DEF Roles
  <2> QED
    BY <1>1, <2>0, <2>4, <2>7, <2>8, <2>9, Weaken
<1> QED
  BY <1>7, <1>8

(* PollNotice: the output is gone, a skip moves the sender's cursor.       *)
LEMMA PollNoticeStep ==
    ASSUME TurnInv, NEW r \in Roles, PollNotice(r)
    PROVE  TurnInv'
<1>0. /\ TypeOK /\ ImageReaches /\ OutputFits(r) /\ sess[r] \in Sessions /\ sess[r].role = r
      /\ sess[r].msg.len \in Nat /\ cursor[r] \in 0 .. FileLen /\ FileLen \in Nat
  BY FileLenAssumption DEF TurnInv, TypeOK, Sessions, Messages
<1>1. /\ sess' = [sess EXCEPT ![r].out = "None"]
      /\ UNCHANGED <<chan, app, image, skipped, fresh, faults, disturbed, released, transfers>>
      /\ sess[r].out \notin {"BlockReceived", "MsgToSend"}
      /\ \/ sess[r].out # "QueryWithSkipReceived" /\ cursor' = cursor
         \/ /\ sess[r].out = "QueryWithSkipReceived"
            /\ cursor' = [cursor EXCEPT ![r] = Least(FileLen, @ + sess[r].msg.len)]
  BY DEF PollNotice, Polled, Calm, Book
<1>2. sess' \in [Roles -> Sessions] /\ \A x \in Roles : sess'[x].role = x
  <2>1. [sess[r] EXCEPT !.out = "None"] \in Sessions /\ [sess[r] EXCEPT !.out = "None"].role = r
    BY <1>0 DEF Sessions, Outputs
  <2> QED
    BY <1>0, <1>1, <2>1 DEF TypeOK
<1>3. cursor' \in [Roles -> 0 .. FileLen]
  <2>1. Least(FileLen, cursor[r] + sess[r].msg.len) \in 0 .. FileLen
    BY <1>0 DEF Least
  <2> QED
    BY <1>0, <1>1, <2>1 DEF TypeOK
<1>4. TypeOK'
  BY <1>0, <1>1, <1>2, <1>3 DEF TypeOK
<1>5. \A x \in Roles : Pipe(x)' = Pipe(x)
  <2>1. /\ sess'[r].out = "None" /\ sess[r].out # "MsgToSend"
        /\ \A x \in Roles : x # r => sess'[x] = sess[x]
    BY <1>0, <1>1 DEF TypeOK, Sessions
  <2> QED
    BY <1>1, <2>1 DEF Pipe
<1>6. \A i \in 1 .. Len(chan'["Sender"]) :
          chan'["Sender"][i].type = "BlockAckEOF" => app["Receiver"] = "success"
  BY <1>0, <1>1 DEF ImageReaches
<1> QED
  BY <1>1, <1>4, <1>5, <1>6, Polls

(* PollBlock: the block is written at the receiver's cursor, which then    *)
(* meets the sender's.                                                     *)
LEMMA PollBlockStep ==
    ASSUME TurnInv, PollBlock
    PROVE  TurnInv'
<1> DEFINE R == "Receiver"
           m == sess[R].msg
           s == cursor["Sender"]
           c == cursor[R]
<1>0. /\ TypeOK /\ OneTurn /\ SameDrive /\ CursorsMeet /\ ImageReaches /\ ImageFaithful
      /\ \A x \in Roles : OutputFits(x) /\ Greeted(x)
      /\ sess[R] \in Sessions /\ sess[R].role = R
      /\ m.len \in Nat /\ s \in 0 .. FileLen /\ c \in 0 .. FileLen /\ FileLen \in Nat
  BY PeerFacts, FileLenAssumption DEF TurnInv, TypeOK, Sessions, Messages
<1>1. /\ app[R] = "busy" /\ sess[R].out = "BlockReceived"
      /\ image' = (IF m.len = 0 THEN image ELSE image \cup {<<c, m.data>>})
      /\ cursor' = [cursor EXCEPT ![R] = @ + m.len] /\ fresh' = TRUE
      /\ sess' = [sess EXCEPT ![R].out = "None"]
      /\ UNCHANGED <<chan, app, skipped, faults, disturbed, released, transfers>>
  BY DEF PollBlock, Polled, Calm, Book
<1>2. /\ sess'[R] = [sess[R] EXCEPT !.out = "None"] /\ sess'["Sender"] = sess["Sender"]
      /\ cursor'[R] = c + m.len /\ cursor'["Sender"] = s
  BY <1>0, <1>1, PeerFacts DEF TypeOK
<1>3. /\ sess'[R].state = sess[R].state /\ sess'[R].awaiting = sess[R].awaiting
      /\ sess'[R].mode = sess[R].mode /\ sess'[R].out = "None"
      /\ sess'[R].supported = sess[R].supported /\ sess'[R].request = sess[R].request
      /\ sess'[R] \in Sessions /\ sess'[R].role = R
  BY <1>0, <1>2 DEF Sessions, Outputs
<1>4. /\ HasTurn(R) /\ ~HasTurn("Sender")
      /\ m.data = c /\ m.len \in {0, 1} /\ s = c + m.len
      /\ \A x \in Roles : \A i \in Heard(x) : ~PassesTurn(Pipe(x)[i])
  BY <1>0, <1>1, PeerFacts DEF OutputFits, CursorsMeet, Carries, OneTurn, TurnOnItsWay
<1>5. \A x \in Roles : Pipe(x)' = Pipe(x) /\ Heard(x)' = Heard(x)
  <2>1. Pipe(R)' = Pipe(R) /\ Pipe("Sender")' = Pipe("Sender")
    BY <1>1, <1>2, <1>3 DEF Pipe
  <2> QED
    BY <2>1 DEF Roles, Heard
<1>6. \A m_1 : PassesTurn(m_1)' <=> PassesTurn(m_1)
  BY <1>3 DEF PassesTurn
<1>7. \A x \in Roles : /\ HasTurn(x)' <=> HasTurn(x)
                       /\ InTransfer(x)' <=> InTransfer(x)
                       /\ Early(x)' <=> Early(x)
                       /\ Responding(x)' <=> Responding(x)
                       /\ TurnOnItsWay(x)' <=> TurnOnItsWay(x)
  <2>1. \A x \in Roles : sess'[x].state = sess[x].state /\ sess'[x].awaiting = sess[x].awaiting
    BY <1>2, <1>3 DEF Roles
  <2> QED
    BY <1>5, <1>6, <2>1 DEF HasTurn, InTransfer, Early, Responding, TurnOnItsWay
<1>8. ~Early("Sender") /\ ~Early(R)
  BY <1>0, <1>1, <1>4 DEF SameDrive, HasTurn, Early, Responding
<1>9. TypeOK'
  <2>1. sess' \in [Roles -> Sessions] /\ \A x \in Roles : sess'[x].role = x
    BY <1>0, <1>1, <1>2, <1>3 DEF TypeOK, Roles
  <2>2. cursor' \in [Roles -> 0 .. FileLen]
    BY <1>0, <1>1, <1>4 DEF TypeOK
  <2>3. image' \in SUBSET ((0 .. FileLen) \X (0 .. FileLen))
    BY <1>0, <1>1, <1>4 DEF TypeOK
  <2>4. {fresh', disturbed', released'} \subseteq BOOLEAN
    BY <1>0, <1>1 DEF TypeOK
  <2> QED
    BY <1>0, <1>1, <2>1, <2>2, <2>3, <2>4 DEF TypeOK
<1>10. OneTurn'
  BY <1>0, <1>5, <1>6, <1>7, PeerFacts DEF OneTurn
<1>11. SameDrive'
  <2>1. Acknowledges' <=> Acknowledges
    BY <1>5, PeerFacts DEF Acknowledges
  <2>2. sess'[R].state = "TransferInProgress" => ~sess'[R].awaiting
    BY <1>3, <1>4 DEF HasTurn
  <2> QED
    BY <1>0, <1>2, <1>3, <1>7, <1>8, <2>1, <2>2, PeerFacts DEF SameDrive
<1>12. CursorsMeet'
  <2>1. \A x \in Roles : \A i \in Heard(x)' :
            ~PassesTurn(Pipe(x)[i])' /\ Pipe(x)'[i].type \notin Blocks \cup Queries
    BY <1>4, <1>5, <1>6 DEF PassesTurn
  <2>2. sess'[R].state = "ReceivedEOF" => cursor'["Sender"] = FileLen
    BY <1>0, <1>2, <1>3 DEF CursorsMeet
  <2> QED
    BY <1>2, <1>3, <1>4, <1>7, <2>1, <2>2, PeerFacts DEF CursorsMeet, Blocks, Queries
<1>13. ImageReaches'
  <2>1. {p[1] : p \in image'} \cup skipped' = 0 .. cursor'[R] - 1
    <3>1. {p[1] : p \in image} \cup skipped = 0 .. c - 1
      BY <1>0 DEF ImageReaches
    <3>2. CASE m.len = 0
      BY <1>0, <1>1, <1>2, <3>1, <3>2
    <3>3. CASE m.len = 1
      <4>1. image' = image \cup {<<c, m.data>>} /\ cursor'[R] - 1 = c
        BY <1>0, <1>1, <1>2, <3>3
      <4>2. {p[1] : p \in image'} = {p[1] : p \in image} \cup {c}
        <5>1. <<c, m.data>>[1] = c
          OBVIOUS
        <5> DEFINE new == <<c, m.data>>
                   G(S) == {p[1] : p \in S}
        <5> SUFFICES G(image \cup {new}) = G(image) \cup {c}
          BY <4>1
        <5>2. new[1] = c
          BY <5>1
        <5> HIDE DEF new, c
        <5>3. \A S, v : G(S \cup {v}) = G(S) \cup {v[1]}
          OBVIOUS
        <5> HIDE DEF G
        <5> QED
          BY <5>2, <5>3
      <4>3. 0 .. c = (0 .. c - 1) \cup {c}
        BY <1>0
      <4> HIDE DEF c
      <4> QED
        BY <1>1, <3>1, <4>1, <4>2, <4>3
    <3> QED
      BY <1>4, <3>2, <3>3
  <2>2. c = FileLen => cursor'[R] = FileLen
    BY <1>0, <1>2, <1>4
  <2> QED
    BY <1>0, <1>1, <1>5, <2>1, <2>2, PeerFacts DEF ImageReaches
<1>14. ASSUME NEW x \in Roles PROVE OutputFits(x)'
  <2>1. OutputFits(x)
    BY <1>0
  <2> QED
    BY <1>1, <1>2, <1>3, <1>5, <1>7, <2>1 DEF OutputFits, Roles, Says
<1>15. ASSUME NEW x \in Roles PROVE Greeted(x)'
  <2>1. Greeted(x) /\ Peer(x) \in Roles /\ ~Early(x) /\ ~Responding(x)
    BY <1>0, <1>8, PeerFacts DEF Roles, Early
  <2>2. \A y \in Roles : /\ sess'[y].state = sess[y].state /\ sess'[y].mode = sess[y].mode
                         /\ sess'[y].supported = sess[y].supported
                         /\ sess'[y].request = sess[y].request
    BY <1>2, <1>3 DEF Roles
  <2> QED
    BY <1>5, <1>7, <2>1, <2>2 DEF Greeted
<1>16. ImageFaithful'
  BY <1>0, <1>1, <1>4 DEF ImageFaithful
<1> QED
  BY <1>9, <1>10, <1>11, <1>12, <1>13, <1>14, <1>15, <1>16 DEF TurnInv

(* When r has something to say, what it has said is longer by it.          *)
LEMMA PipeSays ==
    ASSUME TypeOK, NEW r \in Roles, NEW t \in Sessions,
           sess' = [sess EXCEPT ![r] = t], chan' = chan,
           sess[r].out # "MsgToSend", t.out = "MsgToSend"
    PROVE  /\ sess'[r] = t /\ sess'[Peer(r)] = sess[Peer(r)]
           /\ Pipe(Peer(r))' = Pipe(Peer(r)) /\ Heard(Peer(r))' = Heard(Peer(r))
           /\ Len(Pipe(r)) + 1 \notin Heard(r)
           /\ \A i \in Heard(r)' : \/ i \in Heard(r) /\ Pipe(r)'[i] = Pipe(r)[i]
                                   \/ i = Len(Pipe(r)) + 1 /\ Pipe(r)'[i] = t.msg
<1>1. sess'[r] = t /\ sess'[Peer(r)] = sess[Peer(r)]
  BY PeerFacts DEF TypeOK
<1>2. Pipe(Peer(r))' = Pipe(Peer(r)) /\ Heard(Peer(r))' = Heard(Peer(r))
  BY <1>1 DEF Pipe, Heard
<1>3. Pipe(r) = chan[Peer(r)] /\ Pipe(r)' = Append(chan[Peer(r)], t.msg)
  BY <1>1 DEF Pipe
<1>4. chan[Peer(r)] \in Seq(Messages) /\ t.msg \in Messages /\ Len(chan[Peer(r)]) \in Nat
  BY PeerFacts, LenProperties DEF TypeOK, Sessions
<1>5. /\ Len(Append(chan[Peer(r)], t.msg)) = Len(chan[Peer(r)]) + 1
      /\ Append(chan[Peer(r)], t.msg)[Len(chan[Peer(r)]) + 1] = t.msg
      /\ \A i \in 1 .. Len(chan[Peer(r)]) : Append(chan[Peer(r)], t.msg)[i] = chan[Peer(r)][i]
  BY <1>4, AppendFacts
<1> QED
  BY <1>1, <1>2, <1>3, <1>4, <1>5 DEF Heard

(* AcceptTransfer on a session that may accept.                            *)
LEMMA AcceptFacts ==
    ASSUME NEW s \in Sessions, NEW mode \in Modes, NEW len \in Nat,
           s.state = "NegotiateTransferParams"
    PROVE  LET t == AcceptTransfer(s, mode, len)
           IN  /\ t \in Sessions /\ t.role = s.role /\ t.mode = s.mode
               /\ t.state = "TransferInProgress" /\ t.out = "MsgToSend"
               /\ t.awaiting <=> (s.awaiting \/ s.mode = (IF s.role = "Sender" THEN "ReceiverDrive"
                                                         ELSE "SenderDrive"))
               /\ t.msg.type = (IF s.role = "Sender" THEN "ReceiveAccept" ELSE "SendAccept")
               /\ t.msg.modes = {mode}
<1> DEFINE m == Msg(IF s.role = "Sender" THEN "ReceiveAccept" ELSE "SendAccept",
                    0, 0, IF s.role = "Sender" THEN len ELSE 0, {mode})
           u == IF s.role = "Sender" THEN [s EXCEPT !.length = len] ELSE s
           waits == s.mode = (IF s.role = "Sender" THEN "ReceiverDrive" ELSE "SenderDrive")
           v == [u EXCEPT !.state = "TransferInProgress", !.awaiting = @ \/ waits]
<1>1. /\ m \in Messages /\ m.modes = {mode}
      /\ m.type = (IF s.role = "Sender" THEN "ReceiveAccept" ELSE "SendAccept")
  <2>1. m \in Messages
    BY MsgType DEF MsgTypes
  <2> QED
    BY <2>1 DEF Msg
<1>2. u \in Sessions /\ u.role = s.role /\ u.mode = s.mode /\ u.awaiting = s.awaiting
  BY DEF Sessions
<1>3. (u.awaiting \/ waits) \in BOOLEAN
  OBVIOUS
<1> HIDE DEF u, m, waits
<1>4. /\ v \in Sessions /\ v.role = s.role /\ v.mode = s.mode
      /\ v.state = "TransferInProgress" /\ v.awaiting = (s.awaiting \/ waits)
  BY <1>2, <1>3 DEF Sessions, States
<1> HIDE DEF v
<1>5. AcceptTransfer(s, mode, len) = PrepareOutgoing(v, m)
  BY DEF AcceptTransfer, v, u, m, waits
<1>6. LET t == PrepareOutgoing(v, m)
      IN  /\ t \in Sessions /\ t.role = s.role /\ t.mode = s.mode
          /\ t.state = "TransferInProgress" /\ t.out = "MsgToSend"
          /\ t.awaiting = (s.awaiting \/ waits) /\ t.msg = m
  BY <1>1, <1>4 DEF PrepareOutgoing, Sessions, Outputs
<1> QED
  BY <1>1, <1>5, <1>6 DEF waits

(* Accept: the responder has the turn, or its accept passes it on.         *)
LEMMA AcceptStep ==
    ASSUME TurnInv, NEW r \in Roles, Accept(r)
    PROVE  TurnInv'
<1> DEFINE q == Peer(r)
<1>0. /\ TypeOK /\ OneTurn /\ SameDrive /\ CursorsMeet /\ ImageReaches /\ ImageFaithful
      /\ \A x \in Roles : OutputFits(x) /\ Greeted(x)
      /\ sess[r] \in Sessions /\ sess[r].role = r
      /\ q \in Roles /\ Peer(q) = r /\ q # r /\ \A x \in Roles : x = r \/ x = q
  BY PeerFacts DEF TurnInv, TypeOK, Roles, Peer
<1>1. PICK mode \in Supported[r], len \in {0, FileLen} :
          CanAccept(sess[r], mode) /\ sess' = [sess EXCEPT ![r] = AcceptTransfer(@, mode, len)]
  BY DEF Accept
<1>2. /\ app[r] = "busy"
      /\ UNCHANGED <<chan, app, cursor, image, skipped, fresh, faults, disturbed, released, transfers>>
  BY DEF Accept, Calm, Data, Book
<1> DEFINE t == AcceptTransfer(sess[r], mode, len)
<1>3. /\ sess[r].state = "NegotiateTransferParams" /\ sess[r].out = "None" /\ ~sess[r].awaiting
      /\ mode = sess[r].mode /\ mode \in Modes /\ len \in Nat
  BY <1>0, <1>1, ModesAssumption, FileLenAssumption DEF CanAccept, Greeted, OutputFits, Responding, Supported
<1>4. /\ t \in Sessions /\ t.role = r /\ t.mode = mode
      /\ t.state = "TransferInProgress" /\ t.out = "MsgToSend"
      /\ t.awaiting <=> (mode = (IF r = "Sender" THEN "ReceiverDrive" ELSE "SenderDrive"))
      /\ t.msg.type = (IF r = "Sender" THEN "ReceiveAccept" ELSE "SendAccept")
      /\ t.msg.modes = {mode}
  BY <1>0, <1>3, AcceptFacts
<1>5. sess' = [sess EXCEPT ![r] = t]
  BY <1>1
<1> HIDE DEF t, q
<1>6. /\ sess'[r] = t /\ sess'[q] = sess[q] /\ Pipe(q)' = Pipe(q) /\ Heard(q)' = Heard(q)
      /\ Len(Pipe(r)) + 1 \notin Heard(r)
      /\ \A i \in Heard(r)' : \/ i \in Heard(r) /\ Pipe(r)'[i] = Pipe(r)[i]
                              \/ i = Len(Pipe(r)) + 1 /\ Pipe(r)'[i] = t.msg
  BY <1>0, <1>2, <1>3, <1>4, <1>5, PipeSays DEF q
<1>7. /\ ~InTransfer(q) /\ ~Responding(q) /\ cursor["Sender"] = cursor["Receiver"] /\ ~fresh
      /\ \A i \in Heard(r) : Pipe(r)[i].type = "StatusReport"
      /\ \A i \in Heard(q) : Pipe(q)[i].type = "StatusReport"
  <2>1. Responding(r) /\ Early(r)
    BY <1>3 DEF Responding, Early
  <2>2. /\ ~InTransfer(q) /\ ~Responding(q) /\ cursor["Sender"] = cursor["Receiver"] /\ ~fresh
        /\ \A i \in Heard(r) : Pipe(r)[i].type = "StatusReport"
        /\ \A i \in Heard(q) : Pipe(q)[i].type \in Inits \cup {"StatusReport"}
    BY <1>0, <2>1 DEF Greeted, q
  <2>3. \A i \in Heard(q) : Pipe(q)[i].type \notin Inits
    BY <1>0, <1>3 DEF Greeted
  <2> QED
    BY <2>2, <2>3
<1>8. /\ ~InTransfer(q)' /\ ~HasTurn(q)' /\ ~Responding(q)' /\ ~Responding(r)' /\ ~Early(r)'
      /\ InTransfer(r)' /\ (HasTurn(r)' <=> ~t.awaiting) /\ Early(q)' = Early(q)
  <2>1. ~HasTurn(q)
    BY <1>7 DEF InTransfer, HasTurn
  <2> QED
    BY <1>4, <1>6, <1>7, <2>1 DEF InTransfer, HasTurn, Responding, Early
<1>9. /\ sess'["Receiver"].mode = sess["Receiver"].mode
      /\ \A x \in Roles : sess'[x].mode = sess[x].mode
  BY <1>0, <1>3, <1>4, <1>6, PeerFacts
<1>10. /\ \A i \in Heard(q)' : Pipe(q)'[i].type = "StatusReport"
       /\ \A i \in Heard(r)' : \/ Pipe(r)'[i].type = "StatusReport"
                               \/ i = Len(Pipe(r)) + 1 /\ Pipe(r)'[i] = t.msg
  BY <1>6, <1>7
<1>11. /\ PassesTurn(t.msg) <=> t.awaiting
       /\ \A m : m.type = "StatusReport" => ~PassesTurn(m)
       /\ \A m : PassesTurn(m)' <=> PassesTurn(m)
  <2>1. PassesTurn(t.msg) <=> t.awaiting
    BY <1>4 DEF PassesTurn, Blocks, Queries, Roles
  <2>2. \A m : m.type = "StatusReport" => ~PassesTurn(m)
    BY DEF PassesTurn, Blocks, Queries
  <2> QED
    BY <1>9, <2>1, <2>2 DEF PassesTurn
<1>12. TypeOK'
  <2>1. sess' \in [Roles -> Sessions] /\ \A x \in Roles : sess'[x].role = x
    BY <1>0, <1>4, <1>5 DEF TypeOK
  <2> QED
    BY <1>0, <1>2, <2>1 DEF TypeOK
<1>13. OneTurn'
  <2>1. ~TurnOnItsWay(q)' /\ (TurnOnItsWay(r)' => t.awaiting)
    BY <1>10, <1>11 DEF TurnOnItsWay
  <2>2. \A x \in Roles : \A i, j \in Heard(x)' :
            PassesTurn(Pipe(x)[i])' /\ PassesTurn(Pipe(x)[j])' => i = j
    BY <1>0, <1>10, <1>11
  <2>3. \A x \in Roles : HasTurn(x)' => x = r /\ ~t.awaiting
    BY <1>0, <1>8
  <2>4. \A x \in Roles : TurnOnItsWay(x)' => x = r /\ t.awaiting
    BY <1>0, <2>1
  <2> QED
    BY <2>2, <2>3, <2>4, PeerFacts DEF OneTurn
<1>14. \A i \in Heard("Receiver")' : Pipe("Receiver")'[i].type \in {"StatusReport", "SendAccept"}
  BY <1>0, <1>4, <1>10 DEF Roles
<1>15. \A i \in Heard("Sender")' : Pipe("Sender")'[i].type \in {"StatusReport", "ReceiveAccept"}
  BY <1>0, <1>4, <1>10 DEF Roles
<1>16. SameDrive'
  <2>1. ~Acknowledges'
    BY <1>14 DEF Acknowledges
  <2>2. ~(InTransfer("Sender")' /\ InTransfer("Receiver")')
    BY <1>8 DEF q, Peer, Roles
  <2>3. Early("Sender")' => sess'["Receiver"].out # "BlockReceived"
    BY <1>4, <1>6, <1>8 DEF q, Peer, Roles
  <2> QED
    BY <1>2, <1>7, <2>1, <2>2, <2>3 DEF SameDrive
<1>17. CursorsMeet'
  <2>1. cursor'["Sender"] = cursor'["Receiver"]
    BY <1>2, <1>7
  <2>2. \A x \in Roles : HasTurn(x)' => sess'[x].out = "MsgToSend"
    BY <1>0, <1>4, <1>6, <1>8
  <2>3. sess'["Receiver"].state # "ReceivedEOF"
    BY <1>0, <1>4, <1>6, <1>7, PeerFacts DEF InTransfer
  <2> QED
    BY <1>14, <1>15, <2>1, <2>2, <2>3, PeerFacts DEF CursorsMeet, Blocks, Queries
<1>18. ImageReaches'
  BY <1>0, <1>2, <1>14 DEF ImageReaches
<1>19. OutputFits(r)'
  BY <1>0, <1>2, <1>4, <1>6, <1>10 DEF OutputFits, Responding, Says, Roles
<1>20. OutputFits(q)'
  <2>1. HasTurn(q)' = HasTurn(q) /\ OutputFits(q)
    BY <1>0, <1>6 DEF HasTurn
  <2> QED
    BY <1>2, <1>6, <2>1 DEF OutputFits, Responding, Says
<1>21. Greeted(r)'
  <2>1. sess'[q].state # "NegotiateTransferParams"
    BY <1>8 DEF Responding
  <2>2. \A i \in Heard(r)' : Pipe(r)'[i].type \in Inits \cup Accepts =>
            i = Len(Pipe(r)) + 1 /\ Pipe(r)'[i].modes = {mode}
    BY <1>4, <1>10 DEF Inits, Accepts
  <2> QED
    BY <1>3, <1>4, <1>6, <1>8, <2>1, <2>2 DEF Greeted, q, Responding, Early, Accepts
<1>22. Greeted(q)'
  <2>1. Greeted(q)
    BY <1>0
  <2> QED
    BY <1>2, <1>6, <1>7, <1>8, <1>10, <2>1 DEF Greeted, Responding, Early, Inits, Accepts
<1>23. ImageFaithful'
  BY <1>0, <1>2 DEF ImageFaithful
<1> QED
  BY <1>0, <1>12, <1>13, <1>16, <1>17, <1>18, <1>19, <1>20, <1>21, <1>22, <1>23 DEF TurnInv

(* r has the turn and says a block, a query or an acknowledgement.         *)
LEMMA DataSays ==
    ASSUME TurnInv, TypeOK', CursorsMeet', ImageReaches', ImageFaithful',
           NEW r \in Roles, NEW t \in Sessions, sess' = [sess EXCEPT ![r] = t],
           UNCHANGED <<chan, app>>, app[r] = "busy",
           HasTurn(r), sess[r].out = "None", t.mode = sess[r].mode, t.out = "MsgToSend",
           t.msg.type \in Says(r) \ ({"StatusReport"} \cup Inits \cup Accepts),
           t.state \in {"TransferInProgress", "AwaitingEOFAck", "TransferDone"},
           t.state = "AwaitingEOFAck" => t.awaiting,
           PassesTurn(t.msg) /\ t.state = "TransferInProgress" => t.awaiting,
           t.msg.type = "BlockAck" => fresh,
           fresh' = FALSE \/ (fresh' = fresh /\ r = "Sender")
    PROVE  TurnInv'
<1> DEFINE q == Peer(r)
<1>0. /\ TypeOK /\ OneTurn /\ SameDrive
      /\ \A x \in Roles : OutputFits(x) /\ Greeted(x)
      /\ q \in Roles /\ Peer(q) = r /\ q # r /\ \A x \in Roles : x = r \/ x = q
  BY PeerFacts DEF TurnInv, TypeOK, Roles, Peer
<1>1. /\ sess'[r] = t /\ sess'[q] = sess[q] /\ Pipe(q)' = Pipe(q) /\ Heard(q)' = Heard(q)
      /\ Len(Pipe(r)) + 1 \notin Heard(r)
      /\ \A i \in Heard(r)' : \/ i \in Heard(r) /\ Pipe(r)'[i] = Pipe(r)[i]
                              \/ i = Len(Pipe(r)) + 1 /\ Pipe(r)'[i] = t.msg
  BY <1>0, PipeSays
<1> HIDE DEF q
<1>2. \A x \in Roles : sess'[x].mode = sess[x].mode
  BY <1>0, <1>1
<1>3. \A m : PassesTurn(m)' <=> PassesTurn(m)
  BY <1>2, PeerFacts DEF PassesTurn
<1>4. /\ InTransfer(r) /\ ~Early(r) /\ ~HasTurn(q) /\ ~Responding(q)
      /\ \A x \in Roles : \A i \in Heard(x) : ~PassesTurn(Pipe(x)[i])
  <2>1. InTransfer(r) /\ ~Early(r)
    BY DEF HasTurn, InTransfer, Early, Responding
  <2>2. ~HasTurn(q) /\ \A x \in Roles : \A i \in Heard(x) : ~PassesTurn(Pipe(x)[i])
    BY <1>0 DEF OneTurn, TurnOnItsWay, q
  <2>3. ~Responding(q)
    BY <1>0, <2>1 DEF Greeted
  <2> QED
    BY <2>1, <2>2, <2>3
<1>5. /\ ~HasTurn(q)' /\ (InTransfer(q)' <=> InTransfer(q)) /\ (Early(q)' <=> Early(q))
      /\ ~Responding(q)' /\ ~Early(r)' /\ ~Responding(r)'
      /\ HasTurn(r)' => ~PassesTurn(t.msg)
  BY <1>1, <1>4 DEF HasTurn, InTransfer, Early, Responding
<1>6. OneTurn'
  <2>1. ~TurnOnItsWay(q)'
    BY <1>0, <1>1, <1>3, <1>4 DEF TurnOnItsWay
  <2>2. \A i \in Heard(r)' : PassesTurn(Pipe(r)[i])' => i = Len(Pipe(r)) + 1 /\ PassesTurn(t.msg)
    BY <1>1, <1>3, <1>4
  <2>3. TurnOnItsWay(r)' => PassesTurn(t.msg)
    BY <2>2 DEF TurnOnItsWay
  <2>4. \A i \in Heard(q)' : ~PassesTurn(Pipe(q)[i])'
    BY <2>1 DEF TurnOnItsWay
  <2>5. \A x \in Roles : \A i, j \in Heard(x)' :
            PassesTurn(Pipe(x)[i])' /\ PassesTurn(Pipe(x)[j])' => i = j
    BY <1>0, <2>2, <2>4
  <2>6. \A x \in Roles : /\ HasTurn(x)' => x = r /\ ~PassesTurn(t.msg)
                         /\ TurnOnItsWay(x)' => x = r /\ PassesTurn(t.msg)
    BY <1>0, <1>5, <2>1, <2>3
  <2> QED
    BY <2>5, <2>6, PeerFacts DEF OneTurn
<1>7. fresh' => fresh /\ r = "Sender"
  OBVIOUS
<1>8. SameDrive'
  <2>1. Acknowledges' => Acknowledges \/ (r = "Receiver" /\ t.msg.type = "BlockAck")
    BY <1>0, <1>1, PeerFacts DEF Acknowledges
  <2>2. InTransfer("Sender")' /\ (InTransfer("Receiver")' \/ Acknowledges') =>
            InTransfer("Sender") /\ (InTransfer("Receiver") \/ Acknowledges)
    BY <1>0, <1>4, <1>5, <2>1 DEF Roles
  <2>3. Early("Sender")' => Early("Sender") /\ q = "Sender" /\ ~fresh
    BY <1>0, <1>5 DEF Greeted, Roles
  <2>4. Early("Sender")' => ~Acknowledges' /\ sess'["Receiver"].out # "BlockReceived"
    BY <1>0, <1>1, <2>1, <2>3 DEF SameDrive, Roles
  <2>5. fresh' /\ sess'["Receiver"].state = "TransferInProgress" => ~sess'["Receiver"].awaiting
    BY <1>0, <1>1, <1>7, PeerFacts DEF SameDrive
  <2> QED
    BY <1>0, <1>2, <2>2, <2>4, <2>5, PeerFacts DEF SameDrive
<1>9. OutputFits(r)'
  <2>1. \A i \in Heard(r)' : Pipe(r)'[i].type \in Says(r)
    BY <1>0, <1>1 DEF OutputFits
  <2> QED
    BY <1>1, <2>1 DEF OutputFits, Responding, Says
<1>10. OutputFits(q)'
  <2>1. HasTurn(q)' = HasTurn(q) /\ OutputFits(q)
    BY <1>0, <1>1 DEF HasTurn
  <2> QED
    BY <1>1, <2>1 DEF OutputFits, Responding, Says
<1>11. Greeted(r)'
  <2>1. Greeted(r) /\ Peer(r) = q
    BY <1>0 DEF q
  <2>2. \A i \in Heard(r)' : Pipe(r)'[i].type \in Inits \cup Accepts =>
            i \in Heard(r) /\ Pipe(r)'[i] = Pipe(r)[i]
    BY <1>1
  <2>3. \A i \in Heard(r)' : Pipe(r)'[i].type \in Inits \cup Accepts =>
           /\ ~InTransfer(q)' /\ sess'[q].state # "NegotiateTransferParams"
           /\ \E d \in Modes : Pipe(r)'[i].modes = {d}
           /\ \A j \in Heard(r)' : Pipe(r)'[j].type \in Inits \cup Accepts => i = j
    BY <1>1, <1>5, <2>1, <2>2 DEF Greeted
  <2>4. \A i \in Heard(r)' : Pipe(r)'[i].type \in Accepts =>
            (InTransfer(r)' => Pipe(r)'[i].modes = {sess'[r].mode})
    BY <1>2, <1>4, <2>1, <2>2 DEF Greeted
  <2>5. sess'[r].state \notin {"AwaitingInitMsg", "NegotiateTransferParams"}
    BY <1>1
  <2> QED
    BY <1>5, <2>1, <2>3, <2>4, <2>5 DEF Greeted
<1>12. Greeted(q)'
  <2>1. Greeted(q)
    BY <1>0
  <2>2. \A i \in Heard(q) : Pipe(q)[i].type \notin Inits \cup Accepts
    BY <1>0, <1>4, <2>1 DEF Greeted
  <2>3. sess'[q].state \notin {"AwaitingInitMsg", "NegotiateTransferParams"}
    BY <1>5 DEF Responding
  <2> QED
    BY <1>1, <1>5, <1>7, <2>1, <2>2, <2>3 DEF Greeted
<1> QED
  BY <1>0, <1>6, <1>8, <1>9, <1>10, <1>11, <1>12 DEF TurnInv

(* Where the cursors are when r has the turn and nothing to be polled: no  *)
(* message passes the turn on, so none says anything about the cursors.    *)
LEMMA TurnFacts ==
    ASSUME TurnInv, NEW r \in Roles, HasTurn(r), sess[r].out = "None"
    PROVE  /\ cursor["Sender"] = cursor["Receiver"] /\ ~HasTurn(Peer(r))
           /\ \A x \in Roles : \A i \in Heard(x) :
                  ~PassesTurn(Pipe(x)[i]) /\ Pipe(x)[i].type \notin Blocks \cup Queries
           /\ cursor["Sender"] \in 0 .. FileLen /\ cursor["Receiver"] \in 0 .. FileLen
           /\ FileLen \in Nat \ {0}
<1>0. TypeOK /\ OneTurn /\ CursorsMeet
  BY DEF TurnInv
<1>1. ~HasTurn(Peer(r)) /\ \A x \in Roles : \A i \in Heard(x) : ~PassesTurn(Pipe(x)[i])
  BY <1>0 DEF OneTurn, TurnOnItsWay
<1>2. cursor["Sender"] = cursor["Receiver"]
  BY <1>0 DEF CursorsMeet, Roles
<1>3. \A m : m.type \in Blocks \cup Queries => PassesTurn(m)
  BY DEF PassesTurn
<1> QED
  BY <1>0, <1>1, <1>2, <1>3, PeerFacts, FileLenAssumption DEF TypeOK

(* A session with a message to send.                                       *)
LEMMA OutgoingFacts ==
    ASSUME NEW s \in Sessions, NEW m \in Messages
    PROVE  /\ PrepareOutgoing(s, m) \in Sessions
           /\ PrepareOutgoing(s, m).role = s.role /\ PrepareOutgoing(s, m).mode = s.mode
           /\ PrepareOutgoing(s, m).state = s.state /\ PrepareOutgoing(s, m).awaiting = s.awaiting
           /\ PrepareOutgoing(s, m).out = "MsgToSend" /\ PrepareOutgoing(s, m).msg = m
BY DEF PrepareOutgoing, Sessions, Outputs

(* SendBlock: the block carries the turn and the unit at both cursors.     *)
LEMMA SendBlockStep ==
    ASSUME TurnInv, SendBlock
    PROVE  TurnInv'
<1> DEFINE S == "Sender"
           s == cursor[S]
           len == IF s < FileLen THEN 1 ELSE 0
<1>0. /\ TypeOK /\ OneTurn /\ CursorsMeet /\ ImageReaches /\ ImageFaithful
      /\ sess[S] \in Sessions /\ sess[S].role = S
  BY PeerFacts DEF TurnInv, TypeOK
<1>1. PICK eof \in BOOLEAN :
          /\ eof => s + 1 >= FileLen
          /\ s >= FileLen => eof
          /\ sess' = [sess EXCEPT ![S] = PrepareBlock(@, s, len, eof)]
  BY DEF SendBlock
<1>2. /\ app[S] = "busy" /\ cursor' = [cursor EXCEPT ![S] = @ + len]
      /\ sess[S].state = "TransferInProgress" /\ sess[S].out = "None" /\ ~sess[S].awaiting
      /\ UNCHANGED <<chan, app, image, skipped, fresh, faults, disturbed, released, transfers>>
  BY DEF SendBlock, MyTurn, Calm, Book
<1>3. HasTurn(S)
  BY <1>2 DEF HasTurn
<1>4. /\ s = cursor["Receiver"] /\ ~HasTurn("Receiver") /\ s \in 0 .. FileLen
      /\ FileLen \in Nat \ {0}
      /\ \A x \in Roles : \A i \in Heard(x) :
             ~PassesTurn(Pipe(x)[i]) /\ Pipe(x)[i].type \notin Blocks \cup Queries
  BY <1>2, <1>3, TurnFacts, PeerFacts
<1>5. len \in {0, 1} /\ s + len \in 0 .. FileLen /\ (eof => s + len = FileLen)
  BY <1>1, <1>4
<1> DEFINE st == IF eof THEN "AwaitingEOFAck" ELSE "TransferInProgress"
           u == [sess[S] EXCEPT !.state = st, !.awaiting = TRUE,
                                !.lastBlock = sess[S].nextBlock, !.nextBlock = @ + 1]
           m == Msg(IF eof THEN "BlockEOF" ELSE "Block", sess[S].nextBlock, s, len, {})
           t == PrepareOutgoing(u, m)
<1>6. /\ t \in Sessions /\ t.role = S /\ t.mode = sess[S].mode
      /\ t.state = (IF eof THEN "AwaitingEOFAck" ELSE "TransferInProgress")
      /\ t.awaiting = TRUE /\ t.out = "MsgToSend"
      /\ t.msg.type = (IF eof THEN "BlockEOF" ELSE "Block") /\ t.msg.data = s /\ t.msg.len = len
  <2>1. sess[S].nextBlock \in Nat /\ sess[S].nextBlock + 1 \in Nat /\ st \in States
    BY <1>0 DEF Sessions, States
  <2>2. /\ m \in Messages /\ m.type = (IF eof THEN "BlockEOF" ELSE "Block")
        /\ m.data = s /\ m.len = len
    <3>1. (IF eof THEN "BlockEOF" ELSE "Block") \in MsgTypes /\ s \in Nat /\ len \in Nat
      BY <1>4, <1>5 DEF MsgTypes
    <3> HIDE DEF s, len
    <3> QED
      BY <2>1, <3>1 DEF Msg, Messages
  <2> HIDE DEF st, m
  <2>3. u \in Sessions /\ u.role = S /\ u.mode = sess[S].mode /\ u.awaiting = TRUE /\ u.state = st
    BY <1>0, <2>1 DEF Sessions
  <2> HIDE DEF u
  <2>4. /\ t \in Sessions /\ t.role = u.role /\ t.mode = u.mode /\ t.state = st
        /\ t.awaiting = TRUE /\ t.out = "MsgToSend" /\ t.msg = m
    BY <2>2, <2>3, OutgoingFacts
  <2> QED
    BY <2>2, <2>3, <2>4 DEF st
<1>7. sess' = [sess EXCEPT ![S] = t]
  BY <1>1, <1>2 DEF PrepareBlock
<1> HIDE DEF t, len
<1>8. cursor'[S] = s + len /\ cursor'["Receiver"] = s
  BY <1>0, <1>2, <1>4, PeerFacts DEF TypeOK
<1>9. TypeOK'
  <2>1. sess' \in [Roles -> Sessions] /\ \A x \in Roles : sess'[x].role = x
    BY <1>0, <1>6, <1>7 DEF TypeOK
  <2>2. cursor' \in [Roles -> 0 .. FileLen]
    BY <1>0, <1>2, <1>5 DEF TypeOK
  <2> QED
    BY <1>0, <1>2, <2>1, <2>2 DEF TypeOK
<1>10. /\ sess'[S] = t /\ sess'["Receiver"] = sess["Receiver"]
       /\ Pipe("Receiver")' = Pipe("Receiver") /\ Heard("Receiver")' = Heard("Receiver")
       /\ \A i \in Heard(S)' : (i \in Heard(S) /\ Pipe(S)'[i] = Pipe(S)[i]) \/ Pipe(S)'[i] = t.msg
  BY <1>0, <1>2, <1>6, <1>7, PipeSays, PeerFacts, ZenonT(60)
<1>11. CursorsMeet'
  <2>1. ~HasTurn(S)' /\ ~HasTurn("Receiver")' /\ sess'["Receiver"].state # "ReceivedEOF"
    BY <1>4, <1>6, <1>10 DEF HasTurn
  <2>2. \A n : PassesTurn(n)' <=> PassesTurn(n)
    BY <1>10 DEF PassesTurn
  <2>3. \A i \in Heard("Receiver")' : /\ Pipe("Receiver")'[i].type \notin Queries
                                      /\ ~PassesTurn(Pipe("Receiver")[i])'
    BY <1>4, <1>10, <2>2, PeerFacts
  <2>4. ASSUME NEW i \in Heard(S)'
        PROVE  /\ Pipe(S)'[i].type \in Blocks =>
                      Carries(Pipe(S)'[i], cursor'[S], cursor'["Receiver"])
               /\ Pipe(S)'[i].type = "BlockEOF" => cursor'[S] = FileLen
               /\ Pipe(S)'[i].type \in Accepts => ~PassesTurn(Pipe(S)[i])'
    <3>1. CASE i \in Heard(S) /\ Pipe(S)'[i] = Pipe(S)[i]
      BY <1>4, <2>2, <3>1, PeerFacts DEF Blocks
    <3>2. CASE Pipe(S)'[i] = t.msg
      BY <1>5, <1>6, <1>8, <3>2 DEF Carries, Accepts
    <3> QED
      BY <1>10, <3>1, <3>2
  <2> QED
    BY <2>1, <2>3, <2>4 DEF CursorsMeet, Queries
<1>12. ImageReaches'
  BY <1>0, <1>2, <1>4, <1>8, <1>10 DEF ImageReaches
<1>13. ImageFaithful'
  BY <1>0, <1>2 DEF ImageFaithful
<1>14. t.msg.type \in Says(S) \ ({"StatusReport"} \cup Inits \cup Accepts)
  BY <1>6 DEF Says, Inits, Accepts, Blocks
<1>15. t.msg.type # "BlockAck"
  BY <1>6
<1>16. fresh' = fresh
  BY <1>2
<1> QED
  BY <1>2, <1>3, <1>6, <1>7, <1>9, <1>11, <1>12, <1>13, <1>14, <1>15, <1>16, PeerFacts, DataSays

(* SendQuery: the query carries the turn and how far the receiver moved.   *)
LEMMA SendQueryStep ==
    ASSUME TurnInv, SendQuery
    PROVE  TurnInv'
<1> DEFINE R == "Receiver"
           c == cursor[R]
<1>0. /\ TypeOK /\ OneTurn /\ CursorsMeet /\ ImageReaches /\ ImageFaithful
      /\ sess[R] \in Sessions /\ sess[R].role = R /\ MaxSkip \in Nat
  BY PeerFacts, BoundsAssumption DEF TurnInv, TypeOK
<1>1. PICK skip \in 0 .. MaxSkip :
          /\ sess' = [sess EXCEPT ![R] = PrepareBlockQuery(@, skip)]
          /\ cursor' = [cursor EXCEPT ![R] = Least(FileLen, c + skip)]
          /\ skipped' = skipped \cup {p \in c .. c + skip - 1 : p < FileLen}
  BY DEF SendQuery
<1>2. /\ app[R] = "busy" /\ fresh' = FALSE
      /\ sess[R].state = "TransferInProgress" /\ sess[R].out = "None" /\ ~sess[R].awaiting
      /\ UNCHANGED <<chan, app, image, faults, disturbed, released, transfers>>
  BY DEF SendQuery, MyTurn, Calm, Book
<1>3. HasTurn(R)
  BY <1>2 DEF HasTurn
<1>4. /\ c = cursor["Sender"] /\ ~HasTurn("Sender") /\ c \in 0 .. FileLen
      /\ FileLen \in Nat \ {0}
      /\ \A x \in Roles : \A i \in Heard(x) :
             ~PassesTurn(Pipe(x)[i]) /\ Pipe(x)[i].type \notin Blocks \cup Queries
  BY <1>2, <1>3, TurnFacts, PeerFacts
<1> DEFINE next == Least(FileLen, c + skip)
<1>5. /\ skip \in Nat /\ next \in 0 .. FileLen /\ (skip = 0 => next = c)
      /\ c = FileLen => next = FileLen
  BY <1>0, <1>4 DEF Least
<1> DEFINE u == [sess[R] EXCEPT !.awaiting = TRUE, !.lastQuery = sess[R].nextQuery,
                                !.nextQuery = @ + 1]
           type == IF skip = 0 THEN "BlockQuery" ELSE "BlockQueryWithSkip"
           m == Msg(type, sess[R].nextQuery, 0, skip, {})
           t == PrepareOutgoing(u, m)
<1>6. /\ t \in Sessions /\ t.role = R /\ t.mode = sess[R].mode /\ t.state = "TransferInProgress"
      /\ t.awaiting = TRUE /\ t.out = "MsgToSend" /\ t.msg.type = type /\ t.msg.len = skip
  <2>1. /\ sess[R].nextQuery \in Nat /\ sess[R].nextQuery + 1 \in Nat /\ type \in MsgTypes
    BY <1>0 DEF Sessions, MsgTypes
  <2> HIDE DEF type
  <2>2. m \in Messages /\ m.type = type /\ m.len = skip
    BY <1>5, <2>1 DEF Msg, Messages
  <2> HIDE DEF m
  <2>3. /\ u \in Sessions /\ u.role = R /\ u.mode = sess[R].mode /\ u.awaiting = TRUE
        /\ u.state = "TransferInProgress"
    BY <1>0, <1>2, <2>1 DEF Sessions
  <2> HIDE DEF u
  <2>4. /\ t \in Sessions /\ t.role = u.role /\ t.mode = u.mode /\ t.state = u.state
        /\ t.awaiting = TRUE /\ t.out = "MsgToSend" /\ t.msg = m
    BY <2>2, <2>3, OutgoingFacts
  <2> QED
    BY <2>2, <2>3, <2>4
<1>7. sess' = [sess EXCEPT ![R] = t]
  BY <1>1 DEF PrepareBlockQuery
<1> HIDE DEF t
<1>8. cursor'[R] = next /\ cursor'["Sender"] = c
  BY <1>0, <1>1, <1>4, PeerFacts DEF TypeOK
<1>9. type \in {"BlockQuery", "BlockQueryWithSkip"} /\ (type = "BlockQuery" => skip = 0)
  OBVIOUS
<1> HIDE DEF type
<1>10. /\ sess'[R] = t /\ sess'["Sender"] = sess["Sender"]
       /\ Pipe("Sender")' = Pipe("Sender") /\ Heard("Sender")' = Heard("Sender")
       /\ \A i \in Heard(R)' : (i \in Heard(R) /\ Pipe(R)'[i] = Pipe(R)[i]) \/ Pipe(R)'[i] = t.msg
  BY <1>0, <1>2, <1>6, <1>7, PipeSays, PeerFacts, ZenonT(60)
<1>11. \A x : PassesTurn(x)' <=> PassesTurn(x)
  BY <1>6, <1>10 DEF PassesTurn
<1>12. TypeOK'
  <2>1. sess' \in [Roles -> Sessions] /\ \A x \in Roles : sess'[x].role = x
    BY <1>0, <1>6, <1>7 DEF TypeOK
  <2>2. cursor' \in [Roles -> 0 .. FileLen]
    BY <1>0, <1>1, <1>5 DEF TypeOK
  <2>3. skipped' \subseteq 0 .. FileLen - 1
    <3>1. \A p \in c .. c + skip - 1 : p < FileLen => p \in 0 .. FileLen - 1
      BY <1>4, <1>5
    <3>2. skipped \subseteq 0 .. FileLen - 1
      BY <1>0 DEF TypeOK
    <3> HIDE DEF c
    <3> QED
      BY <1>1, <3>1, <3>2
  <2>4. {fresh', disturbed', released'} \subseteq BOOLEAN
    BY <1>0, <1>2 DEF TypeOK
  <2> QED
    BY <1>0, <1>2, <2>1, <2>2, <2>3, <2>4 DEF TypeOK
<1>13. CursorsMeet'
  <2>1. ~HasTurn(R)' /\ ~HasTurn("Sender")' /\ sess'[R].state # "ReceivedEOF"
    BY <1>4, <1>6, <1>10 DEF HasTurn
  <2>2. \A i \in Heard("Sender")' : /\ Pipe("Sender")'[i].type \notin Blocks
                                    /\ ~PassesTurn(Pipe("Sender")[i])'
    BY <1>4, <1>10, <1>11, PeerFacts
  <2>3. ASSUME NEW i \in Heard(R)'
        PROVE  /\ Pipe(R)'[i].type \in Queries =>
                      cursor'[R] = Least(FileLen, cursor'["Sender"] + Pipe(R)'[i].len)
               /\ Pipe(R)'[i].type = "BlockQuery" => cursor'["Sender"] = cursor'[R]
               /\ Pipe(R)'[i].type \in Accepts \cup {"BlockAck"} => ~PassesTurn(Pipe(R)[i])'
    <3>1. CASE i \in Heard(R) /\ Pipe(R)'[i] = Pipe(R)[i]
      BY <1>4, <1>11, <3>1, PeerFacts DEF Queries
    <3>2. CASE Pipe(R)'[i] = t.msg
      BY <1>5, <1>6, <1>8, <1>9, <3>2 DEF Accepts
    <3> QED
      BY <1>10, <3>1, <3>2
  <2> QED
    BY <2>1, <2>2, <2>3 DEF CursorsMeet, Blocks
<1>14. ImageReaches'
  <2>1. {p[1] : p \in image} \cup skipped = 0 .. c - 1
    BY <1>0 DEF ImageReaches
  <2>2. (0 .. c - 1) \cup {p \in c .. c + skip - 1 : p < FileLen} = 0 .. next - 1
    BY <1>4, <1>5 DEF Least
  <2>3. {p[1] : p \in image'} \cup skipped' = 0 .. cursor'[R] - 1
    BY <1>1, <1>2, <1>8, <2>1, <2>2
  <2>4. \A i \in Heard(R)' : Pipe(R)'[i].type = "BlockAckEOF" => cursor'[R] = FileLen
    BY <1>0, <1>5, <1>6, <1>8, <1>9, <1>10 DEF ImageReaches
  <2> QED
    BY <1>0, <1>2, <2>3, <2>4 DEF ImageReaches
<1>15. ImageFaithful'
  BY <1>0, <1>2 DEF ImageFaithful
<1>16. t.msg.type \in Says(R) \ ({"StatusReport"} \cup Inits \cup Accepts)
  BY <1>6, <1>9 DEF Says, Inits, Accepts, Queries
<1>17. t.msg.type # "BlockAck"
  BY <1>6, <1>9
<1> QED
  BY <1>2, <1>3, <1>6, <1>7, <1>12, <1>13, <1>14, <1>15, <1>16, <1>17, PeerFacts, DataSays

(* SendAck: passes the turn on when the sender drives, ends the transfer   *)
(* after the last block, and leaves the turn with the receiver otherwise.  *)
LEMMA SendAckStep ==
    ASSUME TurnInv, SendAck
    PROVE  TurnInv'
<1> DEFINE R == "Receiver"
           eof == sess[R].state = "ReceivedEOF"
           drives == sess[R].mode = "SenderDrive"
           u == IF eof THEN [sess[R] EXCEPT !.state = "TransferDone", !.awaiting = FALSE]
                ELSE IF drives
                THEN [sess[R] EXCEPT !.lastQuery = sess[R].lastBlock + 1, !.awaiting = TRUE]
                ELSE sess[R]
           type == IF eof THEN "BlockAckEOF" ELSE "BlockAck"
           m == Counter(type, sess[R].lastBlock)
           t == PrepareOutgoing(u, m)
<1>0. /\ TypeOK /\ OneTurn /\ CursorsMeet /\ ImageReaches /\ ImageFaithful /\ SameDrive
      /\ sess[R] \in Sessions /\ sess[R].role = R
  BY PeerFacts DEF TurnInv, TypeOK
<1>1. /\ app[R] = "busy" /\ fresh /\ fresh' = FALSE
      /\ sess[R].state \in {"TransferInProgress", "ReceivedEOF"} /\ sess[R].out = "None"
      /\ UNCHANGED <<chan, app, cursor, image, skipped, faults, disturbed, released, transfers>>
  BY DEF SendAck, CanAck, Calm, Book
<1>2. HasTurn(R)
  BY <1>0, <1>1 DEF HasTurn, SameDrive
<1>3. /\ cursor["Sender"] = cursor[R] /\ ~HasTurn("Sender") /\ cursor[R] \in 0 .. FileLen
      /\ \A x \in Roles : \A i \in Heard(x) :
             ~PassesTurn(Pipe(x)[i]) /\ Pipe(x)[i].type \notin Blocks \cup Queries
  BY <1>1, <1>2, TurnFacts, PeerFacts
<1>4. eof => cursor[R] = FileLen
  BY <1>0, <1>3 DEF CursorsMeet
<1>5. /\ t \in Sessions /\ t.role = R /\ t.mode = sess[R].mode
      /\ t.state = (IF eof THEN "TransferDone" ELSE "TransferInProgress")
      /\ ~eof /\ drives => t.awaiting
      /\ t.out = "MsgToSend" /\ t.msg.type = type
  <2>1. /\ sess[R].lastBlock \in Nat /\ sess[R].lastBlock + 1 \in Nat /\ type \in MsgTypes
    BY <1>0 DEF Sessions, MsgTypes
  <2>2. m \in Messages /\ m.type = type
    BY <2>1, MsgType DEF Counter, Msg, Messages
  <2>3. /\ u \in Sessions /\ u.role = R /\ u.mode = sess[R].mode
        /\ u.state = (IF eof THEN "TransferDone" ELSE "TransferInProgress")
        /\ ~eof /\ drives => u.awaiting
    <3>1. CASE eof
      BY <1>0, <3>1 DEF Sessions, States
    <3>2. CASE ~eof /\ drives
      BY <1>0, <1>1, <2>1, <3>2 DEF Sessions
    <3>3. CASE ~eof /\ ~drives
      BY <1>0, <1>1, <3>3
    <3> QED
      BY <3>1, <3>2, <3>3
  <2> HIDE DEF u, m, type
  <2>4. /\ t \in Sessions /\ t.role = u.role /\ t.mode = u.mode /\ t.state = u.state
        /\ t.awaiting = u.awaiting /\ t.out = "MsgToSend" /\ t.msg = m
    BY <2>2, <2>3, OutgoingFacts
  <2> QED
    BY <2>2, <2>3, <2>4
<1>6. sess' = [sess EXCEPT ![R] = t]
  BY DEF SendAck, PrepareBlockAck
<1> HIDE DEF t
<1>7. /\ sess'[R] = t /\ sess'["Sender"] = sess["Sender"]
      /\ Pipe("Sender")' = Pipe("Sender") /\ Heard("Sender")' = Heard("Sender")
      /\ \A i \in Heard(R)' : (i \in Heard(R) /\ Pipe(R)'[i] = Pipe(R)[i]) \/ Pipe(R)'[i] = t.msg
  BY <1>0, <1>1, <1>5, <1>6, PipeSays, PeerFacts, ZenonT(60)
<1>8. \A x : PassesTurn(x)' <=> PassesTurn(x)
  BY <1>5, <1>7 DEF PassesTurn
<1>9. TypeOK'
  <2>1. sess' \in [Roles -> Sessions] /\ \A x \in Roles : sess'[x].role = x
    BY <1>0, <1>5, <1>6 DEF TypeOK
  <2>2. {fresh', disturbed', released'} \subseteq BOOLEAN
    BY <1>0, <1>1 DEF TypeOK
  <2> QED
    BY <1>0, <1>1, <2>1, <2>2 DEF TypeOK
<1>10. t.msg.type \in {"BlockAck", "BlockAckEOF"} /\ (t.msg.type = "BlockAckEOF" => eof)
  BY <1>5
<1>11. CursorsMeet'
  <2>1. ~HasTurn("Sender")' /\ sess'[R].state # "ReceivedEOF" /\ sess'[R].out # "BlockReceived"
    BY <1>3, <1>5, <1>7 DEF HasTurn
  <2>2. \A i \in Heard("Sender")' : /\ Pipe("Sender")'[i].type \notin Blocks
                                    /\ ~PassesTurn(Pipe("Sender")[i])'
    BY <1>3, <1>7, <1>8, PeerFacts
  <2>3. \A i \in Heard(R)' : Pipe(R)'[i].type \notin Queries
    BY <1>3, <1>7, <1>10, PeerFacts DEF Queries
  <2>4. cursor'["Sender"] = cursor'[R]
    BY <1>1, <1>3
  <2> QED
    BY <2>1, <2>2, <2>3, <2>4 DEF CursorsMeet, Blocks, Queries
<1>12. ImageReaches'
  <2>1. \A i \in Heard(R)' : Pipe(R)'[i].type = "BlockAckEOF" => cursor'[R] = FileLen
    BY <1>0, <1>1, <1>4, <1>7, <1>10 DEF ImageReaches
  <2> QED
    BY <1>0, <1>1, <2>1 DEF ImageReaches
<1>13. ImageFaithful'
  BY <1>0, <1>1 DEF ImageFaithful
<1>14. t.msg.type \in Says(R) \ ({"StatusReport"} \cup Inits \cup Accepts)
  BY <1>10 DEF Says, Inits, Accepts
<1>15. PassesTurn(t.msg) /\ t.state = "TransferInProgress" => t.awaiting
  BY <1>5, <1>10 DEF PassesTurn, Blocks, Queries
<1> QED
  BY <1>1, <1>2, <1>5, <1>6, <1>9, <1>11, <1>12, <1>13, <1>14, <1>15, PeerFacts, DataSays

(* Begin: the initiator's init is all that is said.                        *)
LEMMA BeginStep ==
    ASSUME TurnInv, NEW r \in Roles, Begin(r)
    PROVE  TurnInv'
<1> DEFINE q == Peer(r)
<1>0. /\ TypeOK /\ q \in Roles /\ Peer(q) = r /\ q # r /\ \A x \in Roles : x = r \/ x = q
      /\ \A x \in Roles : sess[x] \in Sessions /\ sess[x].role = x /\ Supported[x] \subseteq Modes
      /\ FileLen \in Nat \ {0} /\ transfers \in 0 .. MaxTransfers
  BY PeerFacts, ModesAssumption, FileLenAssumption DEF TurnInv, TypeOK, Roles, Peer, Supported
<1>1. PICK mode \in Supported[r], len \in {0, FileLen} :
          sess' = [x \in Roles |->
                       IF x = r THEN StartTransfer(Reset(sess[x]), mode, len)
                       ELSE WaitForTransfer(Reset(sess[x]), Supported[x])]
  BY DEF Begin
<1>2. /\ app' = [x \in Roles |-> "busy"] /\ chan' = [x \in Roles |-> <<>>]
      /\ cursor' = [x \in Roles |-> 0] /\ image' = {} /\ skipped' = {} /\ fresh' = FALSE
      /\ disturbed' = FALSE /\ released' = FALSE /\ faults' = faults
      /\ transfers < MaxTransfers /\ transfers' = transfers + 1
  BY DEF Begin
<1> DEFINE b == Reset(sess[r])
           u == [b EXCEPT !.supported = {mode}, !.length = len,
                          !.state = "AwaitingAccept", !.awaiting = TRUE]
           m == Msg(IF r = "Sender" THEN "SendInit" ELSE "ReceiveInit", 0, 0, len, {mode})
           t == PrepareOutgoing(u, m)
           w == [Reset(sess[q]) EXCEPT !.supported = Supported[q], !.state = "AwaitingInitMsg"]
<1>3. mode \in Modes /\ len \in Nat
  BY <1>0, <1>1
<1>4. /\ t \in Sessions /\ t.role = r /\ t.state = "AwaitingAccept" /\ t.out = "MsgToSend"
      /\ t.msg = m /\ m \in Messages /\ m.modes = {mode}
      /\ m.type = (IF r = "Sender" THEN "SendInit" ELSE "ReceiveInit")
  <2>1. /\ m \in Messages /\ m.modes = {mode}
        /\ m.type = (IF r = "Sender" THEN "SendInit" ELSE "ReceiveInit")
    <3>1. (IF r = "Sender" THEN "SendInit" ELSE "ReceiveInit") \in MsgTypes /\ {mode} \in SUBSET Modes
      BY <1>3 DEF MsgTypes
    <3> QED
      BY <1>3, <3>1 DEF Msg, Messages
  <2>2. b \in Sessions /\ b.role = r
    BY <1>0, Ends
  <2> HIDE DEF b, m
  <2>3. u \in Sessions /\ u.role = r /\ u.state = "AwaitingAccept"
    BY <1>3, <2>2 DEF Sessions, States
  <2> HIDE DEF u
  <2> QED
    BY <2>1, <2>3, OutgoingFacts
<1>5. /\ w \in Sessions /\ w.role = q /\ w.state = "AwaitingInitMsg" /\ w.out = "None"
      /\ w.supported = Supported[q] /\ ~w.awaiting
  <2>1. /\ Reset(sess[q]) \in Sessions /\ Reset(sess[q]).role = q /\ Reset(sess[q]).out = "None"
        /\ ~Reset(sess[q]).awaiting
    BY <1>0, Ends, ResetState, ZenonT(60)
  <2> QED
    BY <1>0, <2>1 DEF Sessions, States
<1>6. sess'[r] = t /\ sess'[q] = w
  <2>1. b.role = r
    BY <1>0, Ends
  <2> QED
    BY <1>0, <1>1, <2>1 DEF StartTransfer, WaitForTransfer
<1> HIDE DEF t, w, m, q
<1>7. TypeOK'
  <2>1. sess' \in [Roles -> Sessions] /\ \A x \in Roles : sess'[x].role = x
    <3>1. \A x \in Roles : sess'[x] \in Sessions /\ sess'[x].role = x
      BY <1>0, <1>4, <1>5, <1>6
    <3>2. sess' = [x \in Roles |-> sess'[x]]
      BY <1>1
    <3> QED
      BY <3>1, <3>2
  <2>2. chan' \in [Roles -> Seq(Messages)]
    BY <1>2
  <2>3. app' \in [Roles -> {"idle", "busy", "success", "failure"}] /\ cursor' \in [Roles -> 0 .. FileLen]
    BY <1>0, <1>2
  <2>4. faults' \in 0 .. MaxFaults /\ transfers' \in 0 .. MaxTransfers
    BY <1>0, <1>2, BoundsAssumption DEF TypeOK
  <2> QED
    BY <1>2, <2>1, <2>2, <2>3, <2>4 DEF TypeOK
<1>8. /\ \A i \in Heard(q)' : FALSE
      /\ \A i \in Heard(r)' : i = 1 /\ Pipe(r)'[i] = m
  <2>1. Pipe(q)' = <<>> /\ Pipe(r)' = Append(<<>>, m)
    BY <1>0, <1>2, <1>4, <1>5, <1>6 DEF Pipe, q
  <2>2. Heard(q)' = 1 .. 0 /\ Heard(r)' = 1 .. 1 /\ Append(<<>>, m)[1] = m
    <3>1. Len(<<>>) = 0 /\ <<>> \in Seq(Messages)
      OBVIOUS
    <3>2. Len(Append(<<>>, m)) = 0 + 1 /\ Append(<<>>, m)[0 + 1] = m
      BY <1>4, <3>1, AppendFacts
    <3> QED
      BY <2>1, <3>1, <3>2 DEF Heard
  <2> QED
    BY <2>1, <2>2
<1>9. /\ \A x \in Roles : ~HasTurn(x)' /\ ~InTransfer(x)' /\ sess'[x].state # "NegotiateTransferParams"
      /\ Responding(q)' /\ ~Responding(r)' /\ Early(r)' /\ Early(q)'
  BY <1>0, <1>4, <1>5, <1>6 DEF HasTurn, InTransfer, Responding, Early
<1>10. ~PassesTurn(m)'
  BY <1>4 DEF PassesTurn, Blocks, Queries
<1>11. \A x \in Roles : \A i \in Heard(x)' : x = r /\ i = 1 /\ Pipe(x)'[i] = m
  BY <1>0, <1>8
<1>12. OneTurn'
  <2>1. \A x \in Roles : \A i \in Heard(x)' : i = 1 /\ ~PassesTurn(Pipe(x)[i])'
    BY <1>10, <1>11
  <2> QED
    BY <1>9, <2>1, PeerFacts DEF OneTurn, TurnOnItsWay
<1>13. SameDrive'
  <2>1. \A x \in Roles : sess'[x].out # "BlockReceived"
    BY <1>0, <1>4, <1>5, <1>6
  <2> QED
    BY <1>2, <1>4, <1>9, <1>11, <2>1, PeerFacts DEF SameDrive, Acknowledges
<1>14. m.type \in Inits /\ m.type \notin Accepts \cup Blocks \cup Queries \cup {"BlockAck", "BlockAckEOF"}
  BY <1>4 DEF Inits, Accepts, Blocks, Queries
<1>15. CursorsMeet'
  <2>1. sess'["Receiver"].state # "ReceivedEOF"
    BY <1>9, PeerFacts DEF InTransfer
  <2> QED
    BY <1>9, <1>11, <1>14, <2>1, PeerFacts DEF CursorsMeet, Blocks, Queries
<1>16. ImageReaches'
  <2>1. {p[1] : p \in image'} \cup skipped' = {}
    BY <1>2
  <2>2. 0 .. cursor'["Receiver"] - 1 = {}
    BY <1>2, PeerFacts
  <2>3. \A i \in 1 .. Len(chan'["Sender"]) : FALSE
    BY <1>2, PeerFacts
  <2> QED
    BY <1>2, <1>11, <1>14, <2>1, <2>2, <2>3, PeerFacts DEF ImageReaches
<1>17. ASSUME NEW x \in Roles PROVE OutputFits(x)'
  <2>1. /\ sess'[x].state \in {"AwaitingAccept", "AwaitingInitMsg"}
        /\ sess'[x].out \in {"None", "MsgToSend"} /\ app'[x] = "busy"
        /\ sess'[x].state = "AwaitingInitMsg" => ~sess'[x].awaiting
    BY <1>0, <1>2, <1>4, <1>5, <1>6
  <2>2. \A i \in Heard(x)' : Pipe(x)'[i].type \in Says(x)
    BY <1>4, <1>11 DEF Says, Roles
  <2> QED
    BY <2>1, <2>2 DEF OutputFits, Says, Responding
<1>18. ASSUME NEW x \in Roles PROVE Greeted(x)'
  <2>1. cursor'["Sender"] = cursor'["Receiver"] /\ ~fresh'
    BY <1>2, PeerFacts
  <2>2. Peer(x) \in Roles /\ (Responding(x)' => x = q) /\ ~Responding(Peer(q))'
    BY <1>0, <1>9, PeerFacts
  <2>3. sess'[x].state = "AwaitingInitMsg" => sess'[x].supported = Supported[x]
    BY <1>0, <1>4, <1>5, <1>6
  <2>4. \A i \in Heard(x)' : \A y : y = x \/ y = Peer(x) => \E d \in Modes : Pipe(x)'[i].modes = {d}
    BY <1>3, <1>4, <1>11
  <2>5. \A i \in Heard(x)' : Pipe(x)'[i].type \in Inits /\ Pipe(x)'[i].type \notin Accepts
    BY <1>11, <1>14
  <2>6. Responding(x)' => \A i \in Heard(x)' : FALSE
    BY <1>0, <1>11, <2>2
  <2>7. \A i \in Heard(Peer(x))' : Pipe(Peer(x))'[i].type \in Inits
    BY <1>11, <1>14, <2>2
  <2> QED
    BY <1>9, <1>11, <2>1, <2>2, <2>3, <2>4, <2>5, <2>6, <2>7 DEF Greeted
<1>19. ImageFaithful'
  BY <1>2 DEF ImageFaithful
<1> QED
  BY <1>7, <1>12, <1>13, <1>15, <1>16, <1>17, <1>18, <1>19 DEF TurnInv

(* When r hears a message and has nothing to say.                          *)
LEMMA Hears ==
    ASSUME TypeOK, NEW r \in Roles, NEW t \in Sessions, chan[r] # <<>>,
           chan' = [chan EXCEPT ![r] = Tail(@)], sess' = [sess EXCEPT ![r] = t],
           sess[r].out # "MsgToSend", t.out # "MsgToSend"
    PROVE  /\ sess'[r] = t /\ sess'[Peer(r)] = sess[Peer(r)]
           /\ Pipe(r)' = Pipe(r) /\ Heard(r)' = Heard(r)
           /\ Pipe(Peer(r))[1] = Head(chan[r]) /\ 1 \in Heard(Peer(r))
           /\ \A i \in Heard(Peer(r))' :
                  /\ i + 1 \in Heard(Peer(r)) /\ Pipe(Peer(r))'[i] = Pipe(Peer(r))[i + 1]
                  /\ i \in Nat \ {0}
           /\ \A i \in 1 .. Len(chan'["Sender"]) : \E j \in 1 .. Len(chan["Sender"]) :
                  chan'["Sender"][i] = chan["Sender"][j]
<1>1. sess'[r] = t /\ sess'[Peer(r)] = sess[Peer(r)]
  BY PeerFacts DEF TypeOK
<1>2. chan'[r] = Tail(chan[r]) /\ chan'[Peer(r)] = chan[Peer(r)] /\ chan[r] \in Seq(Messages)
  BY PeerFacts DEF TypeOK
<1>3. Pipe(r)' = Pipe(r) /\ Heard(r)' = Heard(r)
  BY <1>1, <1>2 DEF Pipe, Heard
<1>4. /\ Pipe(Peer(r))[1] = Head(chan[r]) /\ 1 \in Heard(Peer(r))
      /\ Len(Pipe(Peer(r))') = Len(Pipe(Peer(r))) - 1
      /\ \A i \in Heard(Peer(r))' :
             i + 1 \in Heard(Peer(r)) /\ Pipe(Peer(r))'[i] = Pipe(Peer(r))[i + 1]
  BY <1>1, <1>2, PipeHeard
<1>5. \A i \in Heard(Peer(r))' : i \in Nat \ {0}
  BY <1>4, PipeType, PeerFacts DEF Heard
<1>6. \A i \in 1 .. Len(chan'["Sender"]) : \E j \in 1 .. Len(chan["Sender"]) :
          chan'["Sender"][i] = chan["Sender"][j]
  <2>1. CASE r = "Sender"
    BY <1>2, <2>1, TailFacts
  <2>2. CASE r = "Receiver"
    BY <1>2, <2>2, PeerFacts
  <2> QED
    BY <2>1, <2>2 DEF Roles
<1> QED
  BY <1>1, <1>3, <1>4, <1>5, <1>6

(* r hears a message of the transfer and takes the turn if it is passed.   *)
LEMMA DataHears ==
    ASSUME TurnInv, TypeOK', NEW r \in Roles, NEW t \in Sessions, chan[r] # <<>>,
           chan' = [chan EXCEPT ![r] = Tail(@)], sess' = [sess EXCEPT ![r] = t],
           UNCHANGED <<app, cursor, image, skipped, fresh>>, app[r] = "busy",
           sess[r].out = "None", sess[r].awaiting, t.mode = sess[r].mode,
           t.out \in {"QueryReceived", "QueryWithSkipReceived", "AckReceived",
                      "AckEOFReceived", "BlockReceived"},
           sess[r].state = "TransferInProgress" \/ (r = "Sender" /\ sess[r].state = "AwaitingEOFAck"),
           \/ t.state = "TransferInProgress"
           \/ t.state = "ReceivedEOF" /\ ~t.awaiting /\ r = "Receiver"
           \/ t.state = "TransferDone" /\ t.out = "AckEOFReceived",
           t.state = "TransferDone" \/ (~t.awaiting <=> PassesTurn(Head(chan[r]))),
           t.out \in {"QueryReceived", "QueryWithSkipReceived"} => r = "Sender" /\ ~t.awaiting,
           t.out = "BlockReceived" =>
               r = "Receiver" /\ ~t.awaiting /\ Head(chan[r]).type \in Blocks,
           t.out = "AckEOFReceived" => r = "Sender" /\ app["Receiver"] = "success",
           r = "Sender" /\ ~t.awaiting /\ t.state = "TransferInProgress" =>
               cursor["Receiver"] = IF t.out = "QueryWithSkipReceived"
                                    THEN Least(FileLen, cursor["Sender"] + t.msg.len)
                                    ELSE cursor["Sender"],
           r = "Receiver" => /\ t.out = "BlockReceived"
                             /\ Carries(t.msg, cursor["Sender"], cursor["Receiver"])
                             /\ t.state = "ReceivedEOF" => cursor["Sender"] = FileLen
    PROVE  TurnInv'
<1> DEFINE q == Peer(r)
           m == Head(chan[r])
<1>0. /\ TypeOK /\ OneTurn /\ SameDrive /\ CursorsMeet /\ ImageReaches /\ ImageFaithful
      /\ \A x \in Roles : OutputFits(x) /\ Greeted(x)
      /\ q \in Roles /\ Peer(q) = r /\ q # r /\ \A x \in Roles : x = r \/ x = q
  BY PeerFacts DEF TurnInv, TypeOK, Roles, Peer
<1>1. /\ sess'[r] = t /\ sess'[q] = sess[q] /\ Pipe(r)' = Pipe(r) /\ Heard(r)' = Heard(r)
      /\ Pipe(q)[1] = m /\ 1 \in Heard(q)
      /\ \A i \in Heard(q)' : /\ i + 1 \in Heard(q) /\ Pipe(q)'[i] = Pipe(q)[i + 1]
                              /\ i \in Nat \ {0}
      /\ \A i \in 1 .. Len(chan'["Sender"]) : \E j \in 1 .. Len(chan["Sender"]) :
                  chan'["Sender"][i] = chan["Sender"][j]
  BY <1>0, Hears, ZenonT(60)
<1> HIDE DEF q, m
<1>2. \A x \in Roles : sess'[x].mode = sess[x].mode
  BY <1>0, <1>1
<1>3. \A n : PassesTurn(n)' <=> PassesTurn(n)
  BY <1>2, PeerFacts DEF PassesTurn
<1>4. /\ InTransfer(r) /\ ~Early(r) /\ ~Responding(r) /\ ~HasTurn(r) /\ ~Responding(q)
      /\ \A i \in Heard(q) : Pipe(q)[i].type \notin Inits \cup Accepts
  <2>1. InTransfer(r) /\ ~Early(r) /\ ~Responding(r) /\ ~HasTurn(r)
    BY DEF HasTurn, InTransfer, Early, Responding
  <2> QED
    BY <1>0, <2>1 DEF Greeted
<1>5. /\ HasTurn(q)' <=> HasTurn(q)
      /\ InTransfer(q)' <=> InTransfer(q)
      /\ Early(q)' <=> Early(q)
      /\ ~Responding(q)' /\ ~Early(r)' /\ ~Responding(r)' /\ (HasTurn(r)' => PassesTurn(m))
  BY <1>1, <1>4 DEF HasTurn, InTransfer, Early, Responding, m
<1>6. \A x \in Roles : \A i \in Heard(x)' : \E j \in Heard(x) : Pipe(x)'[i] = Pipe(x)[j]
  BY <1>0, <1>1
<1>7. OneTurn'
  <2>1. \A x \in Roles : \A i, j \in Heard(x)' :
            PassesTurn(Pipe(x)[i])' /\ PassesTurn(Pipe(x)[j])' => i = j
    <3>1. \A i, j \in Heard(r)' : PassesTurn(Pipe(r)[i])' /\ PassesTurn(Pipe(r)[j])' => i = j
      BY <1>0, <1>1, <1>3 DEF OneTurn
    <3>2. \A i, j \in Heard(q)' : PassesTurn(Pipe(q)[i])' /\ PassesTurn(Pipe(q)[j])' => i + 1 = j + 1
      BY <1>0, <1>1, <1>3 DEF OneTurn
    <3>3. \A i, j \in Heard(q)' : i + 1 = j + 1 => i = j
      BY <1>1
    <3> QED
      BY <1>0, <3>1, <3>2, <3>3
  <2>2. \A x \in Roles : TurnOnItsWay(x)' => TurnOnItsWay(x)
    BY <1>3, <1>6 DEF TurnOnItsWay
  <2>3. ASSUME PassesTurn(m)
        PROVE  ~HasTurn(q) /\ ~TurnOnItsWay(q)' /\ ~TurnOnItsWay(r)'
    <3>1. TurnOnItsWay(q)
      BY <1>1, <2>3 DEF TurnOnItsWay
    <3>2. ~HasTurn(q) /\ ~TurnOnItsWay(r)
      BY <1>0, <3>1 DEF OneTurn, Roles
    <3>3. \A i \in Heard(q)' : ~PassesTurn(Pipe(q)[i])'
      <4>1. \A i \in Heard(q)' : PassesTurn(Pipe(q)[i])' => i + 1 = 1
        BY <1>0, <1>1, <1>3, <2>3 DEF OneTurn
      <4>2. \A i \in Heard(q)' : i + 1 # 1
        BY <1>1
      <4> QED
        BY <4>1, <4>2
    <3> QED
      BY <1>0, <2>2, <3>2, <3>3 DEF TurnOnItsWay
  <2>4. \A x, y \in Roles : HasTurn(x)' => ~TurnOnItsWay(y)' /\ ~HasTurn(Peer(x))'
    <3>1. ASSUME HasTurn(r)' PROVE \A y \in Roles : ~TurnOnItsWay(y)' /\ ~HasTurn(q)'
      BY <1>0, <1>5, <2>3, <3>1
    <3>2. ASSUME HasTurn(q)' PROVE \A y \in Roles : ~TurnOnItsWay(y)' /\ ~HasTurn(r)'
      <4>1. HasTurn(q)
        BY <1>5, <3>2
      <4>2. \A y \in Roles : ~TurnOnItsWay(y)
        BY <1>0, <4>1 DEF OneTurn
      <4> QED
        BY <1>5, <2>2, <2>3, <4>1, <4>2
    <3> QED
      BY <1>0, <3>1, <3>2 DEF q
  <2>5. ~(TurnOnItsWay("Sender")' /\ TurnOnItsWay("Receiver")')
    BY <1>0, <2>2, PeerFacts DEF OneTurn
  <2> QED
    BY <2>1, <2>4, <2>5 DEF OneTurn
<1>8. SameDrive'
  <2>1. Acknowledges' => Acknowledges
    BY <1>6, PeerFacts DEF Acknowledges
  <2>2. \A x \in Roles : InTransfer(x)' => InTransfer(x)
    BY <1>0, <1>4, <1>5
  <2>3. ASSUME Early("Sender")' PROVE ~Acknowledges' /\ sess'["Receiver"].out # "BlockReceived"
    <3>1. q = "Sender" /\ r = "Receiver" /\ Early("Sender")
      BY <1>0, <1>5, <2>3 DEF Roles
    <3>2. m.type \notin Blocks
      BY <1>0, <1>1, <3>1, PeerFacts DEF Greeted, Inits, Blocks
    <3> QED
      BY <1>0, <1>1, <2>1, <3>1, <3>2 DEF SameDrive, m
  <2>4. fresh' /\ sess'["Receiver"].state = "TransferInProgress" => ~sess'["Receiver"].awaiting
    <3>1. CASE r = "Receiver"
      BY <1>1, <3>1
    <3>2. CASE q = "Receiver"
      BY <1>0, <1>1, <3>2 DEF SameDrive
    <3> QED
      BY <1>0, <3>1, <3>2, PeerFacts
  <2> QED
    BY <1>0, <1>2, <2>1, <2>2, <2>3, <2>4, PeerFacts DEF SameDrive
<1>9. CursorsMeet'
  <2>1. HasTurn("Sender")' =>
            cursor'["Receiver"] = IF sess'["Sender"].out = "QueryWithSkipReceived"
               THEN Least(FileLen, cursor'["Sender"] + sess'["Sender"].msg.len) ELSE cursor'["Sender"]
    <3>1. CASE r = "Sender"
      BY <1>1, <3>1 DEF HasTurn
    <3>2. CASE q = "Sender"
      BY <1>0, <1>1, <1>5, <3>2 DEF CursorsMeet
    <3> QED
      BY <1>0, <3>1, <3>2, PeerFacts
  <2>2. /\ HasTurn("Receiver")' =>
               IF sess'["Receiver"].out = "BlockReceived"
               THEN Carries(sess'["Receiver"].msg, cursor'["Sender"], cursor'["Receiver"])
               ELSE cursor'["Sender"] = cursor'["Receiver"]
        /\ sess'["Receiver"].state = "ReceivedEOF" => cursor'["Sender"] = FileLen
    <3>1. CASE r = "Receiver"
      BY <1>1, <3>1 DEF HasTurn
    <3>2. CASE q = "Receiver"
      BY <1>0, <1>1, <1>5, <3>2 DEF CursorsMeet
    <3> QED
      BY <1>0, <3>1, <3>2, PeerFacts
  <2> QED
    BY <1>0, <1>3, <1>6, <2>1, <2>2, PeerFacts DEF CursorsMeet
<1>10. ImageReaches'
  <2>1. \A i \in Heard("Receiver")' :
            Pipe("Receiver")'[i].type = "BlockAckEOF" => cursor["Receiver"] = FileLen
    BY <1>0, <1>6, PeerFacts DEF ImageReaches
  <2>2. \A i \in 1 .. Len(chan'["Sender"]) :
            chan'["Sender"][i].type = "BlockAckEOF" => app["Receiver"] = "success"
    BY <1>0, <1>1 DEF ImageReaches
  <2> QED
    BY <1>0, <2>1, <2>2 DEF ImageReaches
<1>11. OutputFits(r)'
  <2>1. HasTurn(r)' <=> t.state = "ReceivedEOF" \/ (t.state = "TransferInProgress" /\ ~t.awaiting)
    BY <1>1 DEF HasTurn
  <2>2. \A i \in Heard(r)' : Pipe(r)'[i].type \in Says(r)
    BY <1>0, <1>1 DEF OutputFits
  <2> QED
    BY <1>1, <1>5, <2>1, <2>2 DEF OutputFits, Says
<1>12. OutputFits(q)'
  <2>1. OutputFits(q) /\ (Responding(q)' <=> Responding(q))
    BY <1>0, <1>4, <1>5
  <2>2. \A i \in Heard(q)' : Pipe(q)'[i].type \in Says(q)
    BY <1>1, <2>1 DEF OutputFits
  <2> QED
    BY <1>1, <1>5, <2>1, <2>2 DEF OutputFits, Says
<1>13. Greeted(r)'
  <2>1. Greeted(r) /\ Peer(r) = q
    BY <1>0 DEF q
  <2>2. InTransfer(r)' => InTransfer(r)
    BY <1>4
  <2>3. sess'[r].state \notin {"AwaitingInitMsg", "NegotiateTransferParams"}
    BY <1>1
  <2> QED
    BY <1>1, <1>2, <1>4, <1>5, <2>1, <2>3 DEF Greeted
<1>14. Greeted(q)'
  <2>1. Greeted(q)
    BY <1>0
  <2>2. \A i \in Heard(q)' : Pipe(q)'[i].type \notin Inits \cup Accepts
    BY <1>1, <1>4
  <2>3. sess'[q].state \notin {"AwaitingInitMsg", "NegotiateTransferParams"}
    BY <1>5 DEF Responding
  <2>4. Early(q)' => /\ ~fresh'
                     /\ \A i \in Heard(q)' : Pipe(q)'[i].type \in Inits \cup {"StatusReport"}
    BY <1>1, <1>5, <2>1 DEF Greeted
  <2> QED
    BY <1>5, <2>2, <2>3, <2>4 DEF Greeted
<1>15. ImageFaithful'
  BY <1>0 DEF ImageFaithful
<1> QED
  BY <1>0, <1>7, <1>8, <1>9, <1>10, <1>11, <1>12, <1>13, <1>14, <1>15 DEF TurnInv

(* HandleTransferInit: the responder has the init that was on its way.     *)
LEMMA HearsInit ==
    ASSUME TurnInv, TypeOK', NEW r \in Roles, NEW t \in Sessions, chan[r] # <<>>,
           chan' = [chan EXCEPT ![r] = Tail(@)], sess' = [sess EXCEPT ![r] = t],
           UNCHANGED <<app, cursor, image, skipped, fresh>>, app[r] = "busy",
           sess[r].out = "None", sess[r].state = "AwaitingInitMsg",
           Head(chan[r]).type \in Inits,
           t.out = "InitReceived", t.state = "NegotiateTransferParams", ~t.awaiting,
           t.request \cap Supported[r] \subseteq {t.mode}
    PROVE  TurnInv'
<1> DEFINE q == Peer(r)
<1>0. /\ TypeOK /\ OneTurn /\ SameDrive /\ CursorsMeet /\ ImageReaches /\ ImageFaithful
      /\ \A x \in Roles : OutputFits(x) /\ Greeted(x)
      /\ q \in Roles /\ Peer(q) = r /\ q # r /\ \A x \in Roles : x = r \/ x = q
  BY PeerFacts DEF TurnInv, TypeOK, Roles, Peer
<1>1. /\ sess'[r] = t /\ sess'[q] = sess[q] /\ Pipe(r)' = Pipe(r) /\ Heard(r)' = Heard(r)
      /\ Pipe(q)[1] = Head(chan[r]) /\ 1 \in Heard(q)
      /\ \A i \in Heard(q)' : /\ i + 1 \in Heard(q) /\ Pipe(q)'[i] = Pipe(q)[i + 1]
                              /\ i \in Nat \ {0}
      /\ \A i \in 1 .. Len(chan'["Sender"]) : \E j \in 1 .. Len(chan["Sender"]) :
                  chan'["Sender"][i] = chan["Sender"][j]
  BY <1>0, Hears
<1> HIDE DEF q
<1>2. /\ ~InTransfer(q) /\ ~Responding(q) /\ cursor["Sender"] = cursor["Receiver"] /\ ~fresh
      /\ \A i \in Heard(r) : Pipe(r)[i].type = "StatusReport"
      /\ \A i \in Heard(q) : Pipe(q)[i].type \in Inits \cup {"StatusReport"}
      /\ Responding(r) /\ Early(r)
  <2>1. Responding(r) /\ Early(r)
    BY DEF Responding, Early
  <2> QED
    BY <1>0, <2>1 DEF Greeted, q
<1>3. \A x \in Roles : \A i \in Heard(x)' : Pipe(x)'[i].type = "StatusReport"
  <2>1. ASSUME NEW i \in Heard(q)' PROVE Pipe(q)'[i].type = "StatusReport"
    <3>1. i + 1 \in Heard(q) /\ Pipe(q)'[i] = Pipe(q)[i + 1] /\ i + 1 # 1
      BY <1>1
    <3>2. Pipe(q)[i + 1].type \notin Inits
      BY <1>0, <1>1, <3>1 DEF Greeted
    <3> QED
      BY <1>2, <3>1, <3>2
  <2> QED
    BY <1>0, <1>1, <1>2, <2>1
<1>4. /\ \A x \in Roles : ~InTransfer(x)' /\ ~HasTurn(x)'
      /\ ~Responding(q)' /\ Responding(r)' /\ Early(r)' /\ (Early(q)' <=> Early(q))
  <2>1. ~HasTurn(q)
    BY <1>2 DEF InTransfer, HasTurn
  <2> QED
    BY <1>0, <1>1, <1>2, <2>1 DEF InTransfer, HasTurn, Responding, Early
<1>5. \A m : m.type = "StatusReport" => ~PassesTurn(m)'
  BY DEF PassesTurn, Blocks, Queries
<1>6. OneTurn'
  BY <1>3, <1>4, <1>5, PeerFacts DEF OneTurn, TurnOnItsWay
<1>7. SameDrive'
  <2>1. ~Acknowledges'
    BY <1>3, PeerFacts DEF Acknowledges
  <2>2. Early("Sender")' => sess'["Receiver"].out # "BlockReceived"
    <3>1. CASE r = "Receiver"
      BY <1>1, <3>1
    <3>2. CASE r = "Sender"
      BY <1>0, <1>1, <1>2, <3>2, PeerFacts DEF SameDrive
    <3> QED
      BY <3>1, <3>2 DEF Roles
  <2> QED
    BY <1>2, <1>4, <2>1, <2>2, PeerFacts DEF SameDrive
<1>8. CursorsMeet'
  <2>1. sess'["Receiver"].state # "ReceivedEOF"
    BY <1>4, PeerFacts DEF InTransfer
  <2> QED
    BY <1>3, <1>4, <2>1, PeerFacts DEF CursorsMeet, Blocks, Queries, Accepts
<1>9. ImageReaches'
  <2>1. \A i \in 1 .. Len(chan'["Sender"]) :
            chan'["Sender"][i].type = "BlockAckEOF" => app["Receiver"] = "success"
    BY <1>0, <1>1 DEF ImageReaches
  <2> QED
    BY <1>0, <1>3, <2>1, PeerFacts DEF ImageReaches
<1>10. OutputFits(r)'
  BY <1>0, <1>1, <1>3 DEF OutputFits, Says
<1>11. OutputFits(q)'
  <2>1. OutputFits(q) /\ (Responding(q)' <=> Responding(q)) /\ (HasTurn(q)' <=> HasTurn(q))
    BY <1>0, <1>1 DEF Responding, HasTurn
  <2> QED
    BY <1>0, <1>1, <1>3, <2>1 DEF OutputFits, Says
<1>12. Greeted(r)'
  <2>1. Peer(r) = q
    BY DEF q
  <2> QED
    BY <1>0, <1>1, <1>2, <1>3, <1>4, <2>1 DEF Greeted, Inits, Accepts
<1>13. Greeted(q)'
  <2>1. sess'[q].state \notin {"AwaitingInitMsg", "NegotiateTransferParams"}
    BY <1>4 DEF Responding
  <2> QED
    BY <1>0, <1>2, <1>3, <1>4, <2>1 DEF Greeted, Inits, Accepts
<1>14. ImageFaithful'
  BY <1>0 DEF ImageFaithful
<1> QED
  BY <1>0, <1>6, <1>7, <1>8, <1>9, <1>10, <1>11, <1>12, <1>13, <1>14 DEF TurnInv

(* HandleAccept: the initiator takes the responder's control mode, and the *)
(* turn if the accept passes it.                                           *)
LEMMA HearsAccept ==
    ASSUME TurnInv, TypeOK', NEW r \in Roles, NEW t \in Sessions, chan[r] # <<>>,
           chan' = [chan EXCEPT ![r] = Tail(@)], sess' = [sess EXCEPT ![r] = t],
           UNCHANGED <<app, cursor, image, skipped, fresh>>, app[r] = "busy",
           sess[r].out = "None", sess[r].state = "AwaitingAccept",
           Head(chan[r]).type \in Accepts, Head(chan[r]).modes = {t.mode},
           t.out = "AcceptReceived", t.state = "TransferInProgress",
           ~t.awaiting <=> PassesTurn(Head(chan[r]))
    PROVE  TurnInv'
<1> DEFINE q == Peer(r)
           m == Head(chan[r])
<1>0. /\ TypeOK /\ OneTurn /\ SameDrive /\ CursorsMeet /\ ImageReaches /\ ImageFaithful
      /\ \A x \in Roles : OutputFits(x) /\ Greeted(x)
      /\ q \in Roles /\ Peer(q) = r /\ q # r /\ \A x \in Roles : x = r \/ x = q
  BY PeerFacts DEF TurnInv, TypeOK, Roles, Peer
<1>1. /\ sess'[r] = t /\ sess'[q] = sess[q] /\ Pipe(r)' = Pipe(r) /\ Heard(r)' = Heard(r)
      /\ Pipe(q)[1] = m /\ 1 \in Heard(q)
      /\ \A i \in Heard(q)' : /\ i + 1 \in Heard(q) /\ Pipe(q)'[i] = Pipe(q)[i + 1]
                              /\ i \in Nat \ {0}
      /\ \A i \in 1 .. Len(chan'["Sender"]) : \E j \in 1 .. Len(chan["Sender"]) :
                  chan'["Sender"][i] = chan["Sender"][j]
  BY <1>0, Hears
<1> HIDE DEF q
<1>2. /\ Early(r) /\ ~Responding(r) /\ ~HasTurn(r) /\ ~fresh /\ ~Early(q) /\ ~Responding(q)
      /\ InTransfer(q) => sess[q].mode = t.mode
      /\ \A i \in Heard(r) : Pipe(r)[i].type \in Inits \cup {"StatusReport"}
      /\ \A i \in Heard(q) : Pipe(q)[i].type \in Inits \cup Accepts => i = 1
  <2>1. Early(r) /\ ~Responding(r) /\ ~HasTurn(r)
    BY DEF Early, Responding, HasTurn
  <2>2. ~Early(q) /\ (InTransfer(q) => m.modes = {sess[q].mode})
    BY <1>0, <1>1 DEF Greeted
  <2>3. \A i \in Heard(q) : Pipe(q)[i].type \in Inits \cup Accepts => i = 1
    BY <1>0, <1>1 DEF Greeted
  <2>4. /\ ~fresh
        /\ \A i \in Heard(r) : Pipe(r)[i].type \in Inits \cup {"StatusReport"}
    BY <1>0, <2>1 DEF Greeted
  <2> QED
    BY <2>1, <2>2, <2>3, <2>4 DEF Early
<1>3. \A x \in Roles : \A i \in Heard(x)' : \E j \in Heard(x) : Pipe(x)'[i] = Pipe(x)[j]
  BY <1>0, <1>1
<1>4. /\ HasTurn(q)' <=> HasTurn(q)
      /\ InTransfer(q)' <=> InTransfer(q)
      /\ ~Early(q)' /\ ~Responding(q)' /\ ~Early(r)' /\ ~Responding(r)'
      /\ HasTurn(r)' <=> PassesTurn(m)
  BY <1>1, <1>2 DEF HasTurn, InTransfer, Early, Responding
<1>5. /\ \A i \in Heard(r)' : ~PassesTurn(Pipe(r)[i])'
      /\ \A i \in Heard(q)' : PassesTurn(Pipe(q)[i])' => PassesTurn(Pipe(q)[i + 1])
  <2>1. \A i \in Heard(r)' : ~PassesTurn(Pipe(r)[i])'
    BY <1>1, <1>2 DEF PassesTurn, Inits, Blocks, Queries
  <2>2. ASSUME NEW i \in Heard(q)' PROVE PassesTurn(Pipe(q)[i])' => PassesTurn(Pipe(q)[i + 1])
    <3>1. CASE r = "Receiver"
      <4>1. Pipe(q)[i + 1].type \in Says("Sender")
        BY <1>0, <1>1, <3>1, PeerFacts DEF OutputFits
      <4> QED
        BY <1>1, <4>1 DEF PassesTurn, Says, Blocks
    <3>2. CASE r = "Sender"
      <4>1. sess'["Receiver"].mode = sess["Receiver"].mode
        BY <1>0, <1>1, <3>2 DEF Roles
      <4> QED
        BY <1>1, <4>1 DEF PassesTurn
    <3> QED
      BY <3>1, <3>2 DEF Roles
  <2> QED
    BY <2>1, <2>2
<1>6. /\ PassesTurn(m) => ~HasTurn(q) /\ \A i \in Heard(q)' : ~PassesTurn(Pipe(q)[i])'
      /\ HasTurn(q) => ~PassesTurn(m) /\ \A i \in Heard(q)' : ~PassesTurn(Pipe(q)[i])'
  <2>1. ASSUME PassesTurn(m)
        PROVE  ~HasTurn(q) /\ \A i \in Heard(q)' : ~PassesTurn(Pipe(q)[i])'
    <3>1. TurnOnItsWay(q)
      BY <1>1, <2>1 DEF TurnOnItsWay
    <3>2. \A i \in Heard(q)' : PassesTurn(Pipe(q)[i + 1]) => i + 1 = 1
      BY <1>0, <1>1, <2>1 DEF OneTurn
    <3>3. \A i \in Heard(q)' : i + 1 # 1
      BY <1>1
    <3> QED
      BY <1>0, <1>5, <3>1, <3>2, <3>3 DEF OneTurn
  <2>2. ASSUME HasTurn(q) PROVE \A i \in Heard(q)' : ~PassesTurn(Pipe(q)[i])'
    BY <1>0, <1>1, <1>5, <2>2 DEF OneTurn, TurnOnItsWay
  <2> QED
    BY <2>1, <2>2
<1>7. OneTurn'
  <2>1. \A i, j \in Heard(q)' : PassesTurn(Pipe(q)[i])' /\ PassesTurn(Pipe(q)[j])' => i = j
    <3>1. \A i, j \in Heard(q)' : PassesTurn(Pipe(q)[i + 1]) /\ PassesTurn(Pipe(q)[j + 1]) => i + 1 = j + 1
      BY <1>0, <1>1 DEF OneTurn
    <3>2. \A i, j \in Heard(q)' : i + 1 = j + 1 => i = j
      BY <1>1
    <3> QED
      BY <1>5, <3>1, <3>2
  <2>2. /\ ~TurnOnItsWay(r)'
        /\ HasTurn(r)' => ~HasTurn(q)' /\ ~TurnOnItsWay(q)'
        /\ HasTurn(q)' => ~HasTurn(r)' /\ ~TurnOnItsWay(q)'
    BY <1>4, <1>5, <1>6 DEF TurnOnItsWay
  <2>3. \A x \in Roles : \A i, j \in Heard(x)' :
            PassesTurn(Pipe(x)[i])' /\ PassesTurn(Pipe(x)[j])' => i = j
    BY <1>0, <1>5, <2>1
  <2>4. \A x, y \in Roles : HasTurn(x)' => ~TurnOnItsWay(y)' /\ ~HasTurn(Peer(x))'
    BY <1>0, <2>2 DEF q
  <2>5. ~(TurnOnItsWay("Sender")' /\ TurnOnItsWay("Receiver")')
    BY <2>2 DEF Roles
  <2> QED
    BY <2>3, <2>4, <2>5 DEF OneTurn
<1>8. SameDrive'
  <2>1. CASE r = "Sender"
    <3>1. ~Acknowledges' /\ q = "Receiver"
      BY <1>0, <1>2, <1>3, <2>1, PeerFacts DEF SameDrive, Acknowledges, q
    <3> QED
      BY <1>1, <1>2, <1>4, <2>1, <3>1 DEF SameDrive
  <2>2. CASE r = "Receiver"
    <3>1. q = "Sender"
      BY <2>2, PeerFacts DEF q
    <3> QED
      BY <1>1, <1>2, <1>4, <2>2, <3>1 DEF SameDrive
  <2> QED
    BY <2>1, <2>2 DEF Roles
<1>9. PassesTurn(m) => cursor["Sender"] = cursor["Receiver"]
  BY <1>0, <1>1, PeerFacts DEF CursorsMeet, Roles
<1>10. CursorsMeet'
  <2>1. HasTurn("Sender")' =>
            cursor'["Receiver"] = IF sess'["Sender"].out = "QueryWithSkipReceived"
               THEN Least(FileLen, cursor'["Sender"] + sess'["Sender"].msg.len) ELSE cursor'["Sender"]
    <3>1. CASE r = "Sender"
      BY <1>1, <1>4, <1>9, <3>1
    <3>2. CASE q = "Sender"
      BY <1>0, <1>1, <1>4, <3>2 DEF CursorsMeet
    <3> QED
      BY <1>0, <3>1, <3>2, PeerFacts
  <2>2. /\ HasTurn("Receiver")' =>
               IF sess'["Receiver"].out = "BlockReceived"
               THEN Carries(sess'["Receiver"].msg, cursor'["Sender"], cursor'["Receiver"])
               ELSE cursor'["Sender"] = cursor'["Receiver"]
        /\ sess'["Receiver"].state = "ReceivedEOF" => cursor'["Sender"] = FileLen
    <3>1. CASE r = "Receiver"
      BY <1>1, <1>4, <1>9, <3>1
    <3>2. CASE q = "Receiver"
      BY <1>0, <1>1, <1>4, <3>2 DEF CursorsMeet
    <3> QED
      BY <1>0, <3>1, <3>2, PeerFacts
  <2>3. \A x \in Roles : \A i \in Heard(x)' : \E j \in Heard(x) :
            Pipe(x)'[i] = Pipe(x)[j] /\ (PassesTurn(Pipe(x)[i])' => PassesTurn(Pipe(x)[j]))
    BY <1>0, <1>1, <1>5
  <2> QED
    BY <1>0, <2>1, <2>2, <2>3, PeerFacts DEF CursorsMeet
<1>11. ImageReaches'
  <2>1. \A i \in Heard("Receiver")' :
            Pipe("Receiver")'[i].type = "BlockAckEOF" => cursor["Receiver"] = FileLen
    BY <1>0, <1>3, PeerFacts DEF ImageReaches
  <2>2. \A i \in 1 .. Len(chan'["Sender"]) :
            chan'["Sender"][i].type = "BlockAckEOF" => app["Receiver"] = "success"
    BY <1>0, <1>1 DEF ImageReaches
  <2> QED
    BY <1>0, <2>1, <2>2 DEF ImageReaches
<1>12. OutputFits(r)'
  <2>1. \A i \in Heard(r)' : Pipe(r)'[i].type \in Says(r)
    BY <1>0, <1>1 DEF OutputFits
  <2> QED
    BY <1>1, <1>4, <2>1 DEF OutputFits, Says
<1>13. OutputFits(q)'
  <2>1. OutputFits(q) /\ (Responding(q)' <=> Responding(q))
    BY <1>0, <1>2, <1>4
  <2>2. \A i \in Heard(q)' : Pipe(q)'[i].type \in Says(q)
    BY <1>1, <2>1 DEF OutputFits
  <2> QED
    BY <1>1, <1>4, <2>1, <2>2 DEF OutputFits, Says
<1>14. Greeted(r)'
  <2>1. Greeted(r) /\ Peer(r) = q
    BY <1>0 DEF q
  <2>2. sess'[r].state \notin {"AwaitingInitMsg", "NegotiateTransferParams"}
    BY <1>1
  <2>3. \A i \in Heard(r)' : Pipe(r)'[i].type \notin Accepts
    BY <1>1, <1>2 DEF Inits, Accepts
  <2>4. \A i \in Heard(r)' : Pipe(r)'[i].type \in Inits \cup Accepts =>
           /\ ~InTransfer(q)' /\ sess'[q].state # "NegotiateTransferParams"
           /\ \E d \in Modes : Pipe(r)'[i].modes = {d}
           /\ \A j \in Heard(r)' : Pipe(r)'[j].type \in Inits \cup Accepts => i = j
    <3>1. \A i \in Heard(r) : Pipe(r)[i].type \in Inits \cup Accepts =>
             /\ ~InTransfer(q) /\ sess[q].state # "NegotiateTransferParams"
             /\ \E d \in Modes : Pipe(r)[i].modes = {d}
             /\ \A j \in Heard(r) : Pipe(r)[j].type \in Inits \cup Accepts => i = j
      BY <2>1 DEF Greeted
    <3>2. Pipe(r)' = Pipe(r) /\ Heard(r)' = Heard(r) /\ sess'[q].state = sess[q].state
      BY <1>1
    <3>3. InTransfer(q)' <=> InTransfer(q)
      BY <1>4
    <3>4. ASSUME NEW i \in Heard(r)', Pipe(r)'[i].type \in Inits \cup Accepts
          PROVE  /\ ~InTransfer(q)' /\ sess'[q].state # "NegotiateTransferParams"
                 /\ \E d \in Modes : Pipe(r)'[i].modes = {d}
                 /\ \A j \in Heard(r)' : Pipe(r)'[j].type \in Inits \cup Accepts => i = j
      <4>1. i \in Heard(r) /\ Pipe(r)[i].type \in Inits \cup Accepts
        BY <3>2, <3>4
      <4>2. ~InTransfer(q) /\ sess[q].state # "NegotiateTransferParams"
        BY <3>1, <4>1
      <4>3. \E d \in Modes : Pipe(r)'[i].modes = {d}
        BY <3>1, <3>2, <4>1
      <4>4. \A j \in Heard(r)' : Pipe(r)'[j].type \in Inits \cup Accepts => i = j
        BY <3>1, <3>2, <4>1
      <4> QED
        BY <3>2, <3>3, <4>2, <4>3, <4>4
    <3> QED
      BY <3>4
  <2> QED
    BY <1>4, <2>1, <2>2, <2>3, <2>4 DEF Greeted
<1>15. Greeted(q)'
  <2>1. \A i \in Heard(q)' : Pipe(q)'[i].type \notin Inits \cup Accepts
    <3>1. \A i \in Heard(q)' : Pipe(q)'[i].type \in Inits \cup Accepts => i + 1 = 1
      BY <1>1, <1>2
    <3>2. \A i \in Heard(q)' : i + 1 # 1
      BY <1>1
    <3> QED
      BY <3>1, <3>2
  <2>2. sess'[q].state \notin {"AwaitingInitMsg", "NegotiateTransferParams"}
    BY <1>4 DEF Responding
  <2> QED
    BY <1>4, <2>1, <2>2 DEF Greeted
<1>16. ImageFaithful'
  BY <1>0 DEF ImageFaithful
<1> QED
  BY <1>0, <1>7, <1>8, <1>10, <1>11, <1>12, <1>13, <1>14, <1>15, <1>16 DEF TurnInv

(* The session that HandleTransferInit leaves when the init is expected:   *)
(* it can be accepted only with the mode that was resolved.                *)
LEMMA InitFacts ==
    ASSUME NEW s \in Sessions, NEW m \in Messages, NEW d \in Modes, m.modes = {d}, ~s.awaiting,
           s.state = "AwaitingInitMsg",
           m.type = (IF s.role = "Sender" THEN "ReceiveInit" ELSE "SendInit")
    PROVE  LET t == HandleTransferInit(s, m)
           IN  /\ t \in Sessions /\ t.role = s.role /\ ~t.awaiting
               /\ t.out = "InitReceived" /\ t.state = "NegotiateTransferParams"
               /\ t.request \cap s.supported \subseteq {t.mode}
<1> DEFINE v == ResolveTransferControlOptions(s, {d})
<1>1. /\ v \in Sessions /\ v.role = s.role /\ ~v.awaiting
      /\ d \in s.supported => v.mode = d
  <2>1. CASE d \in s.supported
    <3>1. {d} \cap s.supported = {d}
      BY <2>1
    <3>2. Cardinality({d}) = 1
      BY FS_Singleton
    <3>3. (CHOOSE x \in Modes : x \in {d}) = d
      OBVIOUS
    <3>4. v = [s EXCEPT !.mode = d]
      BY <3>1, <3>2, <3>3 DEF ResolveTransferControlOptions
    <3> QED
      BY <3>4 DEF Sessions
  <2>2. CASE d \notin s.supported
    <3>1. {d} \cap s.supported = {}
      BY <2>2
    <3>2. Cardinality({}) # 1
      BY FS_EmptySet
    <3>3. v = PrepareStatusReport(s)
      BY <3>1, <3>2 DEF ResolveTransferControlOptions
    <3>4. v \in Sessions /\ v.role = s.role /\ Over(v)
      BY <3>3, Ends
    <3> QED
      BY <2>2, <3>4 DEF Over
  <2> QED
    BY <2>1, <2>2
<1> HIDE DEF v
<1>2. m.len \in Nat /\ m.modes \in SUBSET Modes
  BY DEF Messages
<1> DEFINE t == [v EXCEPT !.length = m.len, !.request = {d},
                          !.out = "InitReceived", !.state = "NegotiateTransferParams"]
<1>3. /\ t \in Sessions /\ t.role = v.role /\ t.awaiting = v.awaiting /\ t.mode = v.mode
      /\ t.out = "InitReceived" /\ t.state = "NegotiateTransferParams" /\ t.request = {d}
  BY <1>1, <1>2 DEF Sessions, States, Outputs
<1>4. HandleTransferInit(s, m) = t
  BY DEF HandleTransferInit, Verify, v
<1> HIDE DEF t
<1> QED
  BY <1>1, <1>3, <1>4

(* The session that HandleAccept leaves when the accept is expected.       *)
LEMMA AcceptedFacts ==
    ASSUME NEW s \in Sessions, NEW m \in Messages, NEW d \in Modes, m.modes = {d},
           s.state = "AwaitingAccept", m.modes \subseteq s.supported,
           m.type = (IF s.role = "Sender" THEN "SendAccept" ELSE "ReceiveAccept")
    PROVE  LET t == HandleAccept(s, m)
           IN  /\ t \in Sessions /\ t.role = s.role /\ t.mode = d
               /\ t.out = "AcceptReceived" /\ t.state = "TransferInProgress"
               /\ t.awaiting <=> d = (IF s.role = "Sender" THEN "ReceiverDrive" ELSE "SenderDrive")
<1> DEFINE l == IF s.role = "Sender" THEN s.length ELSE m.len
           w == d = (IF s.role = "Sender" THEN "ReceiverDrive" ELSE "SenderDrive")
           t == [s EXCEPT !.mode = d, !.length = l, !.out = "AcceptReceived",
                          !.awaiting = w, !.state = "TransferInProgress"]
<1>1. (CHOOSE x \in Modes : x \in m.modes) = d
  OBVIOUS
<1>2. l \in Nat /\ w \in BOOLEAN
  BY DEF Sessions, Messages
<1>3. HandleAccept(s, m) = t
  <2>1. Cardinality(m.modes) = 1
    BY FS_Singleton
  <2> QED
    BY <1>1, <2>1 DEF HandleAccept, Verify
<1> HIDE DEF l, w
<1>4. /\ t \in Sessions /\ t.role = s.role /\ t.mode = d /\ t.awaiting = w
      /\ t.out = "AcceptReceived" /\ t.state = "TransferInProgress"
  BY <1>2 DEF Sessions, States, Outputs
<1> HIDE DEF t
<1> QED
  BY <1>3, <1>4 DEF w

(* Deliver: HandleMessageReceived on a session whose output is polled, on  *)
(* one that refuses the message, and on a side that is gone.               *)
LEMMA DeliverStep ==
    ASSUME TurnInv, NEW r \in Roles, Deliver(r)
    PROVE  TurnInv'
<1> DEFINE s == sess[r]
           m == Head(chan[r])
           q == Peer(r)
           ignored == r = "Receiver" /\ Preparing
           open == app[r] = "busy" /\ ~(released /\ r = "Sender") /\ ~ignored
<1>0. /\ TypeOK /\ OneTurn /\ SameDrive /\ CursorsMeet /\ ImageReaches
      /\ \A x \in Roles : OutputFits(x) /\ Greeted(x)
      /\ s \in Sessions /\ s.role = r /\ q \in Roles /\ Peer(q) = r
  BY PeerFacts DEF TurnInv, TypeOK
<1>1. /\ chan[r] # <<>> /\ chan' = [chan EXCEPT ![r] = Tail(@)]
      /\ sess' = (IF open THEN [sess EXCEPT ![r] = HandleMessageReceived(@, m)] ELSE sess)
      /\ UNCHANGED <<app, cursor, image, skipped, fresh, released, transfers, faults>>
  BY DEF Deliver, Data, Book
<1>2. {disturbed', released'} \subseteq BOOLEAN /\ faults' \in 0 .. MaxFaults /\ transfers' \in 0 .. MaxTransfers
  <2>1. disturbed' = (disturbed \/ ignored \/ (open /\ Refuses(s, m)))
    BY DEF Deliver
  <2>2. disturbed' \in BOOLEAN
    BY <2>1, Zenon
  <2>3. released' \in BOOLEAN /\ faults' \in 0 .. MaxFaults /\ transfers' \in 0 .. MaxTransfers
    BY <1>0, <1>1 DEF TypeOK
  <2> QED
    BY <2>2, <2>3
<1>3. /\ Pipe(q)[1] = m /\ 1 \in Heard(q) /\ m \in Messages /\ m.type \in MsgTypes
      /\ m.n \in Nat /\ m.len \in Nat /\ m.type \in Says(q)
  <2>1. chan[r] \in Seq(Messages)
    BY <1>0 DEF TypeOK
  <2>2. m = chan[r][1] /\ m \in Messages /\ 1 \in 1 .. Len(chan[r]) /\ Len(chan[r]) \in Nat
    BY <1>1, <2>1, TailFacts, LenProperties
  <2>3. /\ Len(Append(chan[r], sess[q].msg)) = Len(chan[r]) + 1
        /\ Append(chan[r], sess[q].msg)[1] = chan[r][1]
    <3>1. sess[q].msg \in Messages
      BY <1>0 DEF TypeOK, Sessions
    <3> QED
      BY <2>1, <2>2, <3>1, AppendFacts
  <2>4. Pipe(q) = IF sess[q].out = "MsgToSend" THEN Append(chan[r], sess[q].msg) ELSE chan[r]
    BY <1>0 DEF Pipe
  <2>5. Pipe(q)[1] = m /\ 1 \in Heard(q)
    BY <2>2, <2>3, <2>4 DEF Heard
  <2>6. m.type \in Says(q)
    BY <1>0, <2>5 DEF OutputFits
  <2> QED
    BY <2>2, <2>5, <2>6 DEF Messages
<1>4. CASE ~open
  <2>1. sess' = [sess EXCEPT ![r] = sess[r]]
    BY <1>0, <1>1, <1>4 DEF TypeOK
  <2> QED
    BY <1>1, <1>2, <2>1, EndStep
<1>5. CASE open /\ m.type = "StatusReport"
  <2>1. sess' = [sess EXCEPT ![r] = HandleStatusReportMessage(sess[r])]
    BY <1>1, <1>5 DEF HandleMessageReceived
  <2> QED
    BY <1>1, <1>2, <1>5, <2>1, EndStep
<1>6. CASE open /\ m.type # "StatusReport" /\ s.out # "None"
  <2>1. sess' = [sess EXCEPT ![r] = sess[r]]
    BY <1>1, <1>6 DEF HandleMessageReceived, Refuses
  <2> QED
    BY <1>1, <1>2, <2>1, EndStep
<1>7. CASE open /\ m.type # "StatusReport" /\ s.out = "None"
  <2>0. sess' = [sess EXCEPT ![r] = HandleBdxMessage(s, m)] /\ app[r] = "busy"
    BY <1>1, <1>7 DEF HandleMessageReceived, Refuses
  <2> HIDE DEF s, m, q, open
  <2>1. ASSUME sess' = [sess EXCEPT ![r] = PrepareStatusReport(s)]
        PROVE  TurnInv'
    BY <1>1, <1>2, <2>0, <2>1, EndStep DEF s
  <2>2. ASSUME NEW t \in Sessions, t.role = r, sess' = [sess EXCEPT ![r] = t]
        PROVE  TypeOK'
    <3>1. sess' \in [Roles -> Sessions] /\ \A x \in Roles : sess'[x].role = x
      BY <1>0, <2>2 DEF TypeOK
    <3>2. chan' \in [Roles -> Seq(Messages)]
      BY <1>0, <1>1, ChanType
    <3> QED
      BY <1>0, <1>1, <1>2, <3>1, <3>2 DEF TypeOK
  <2>3. CASE m.type \in {"SendInit", "ReceiveInit"}
    <3>0. HandleBdxMessage(s, m) = HandleTransferInit(s, m)
      BY <2>3 DEF HandleBdxMessage
    <3>1. CASE s.state = "AwaitingInitMsg"
               /\ m.type = (IF s.role = "Sender" THEN "ReceiveInit" ELSE "SendInit")
      <4>1. PICK d \in Modes : m.modes = {d}
        BY <1>0, <1>3, <2>3 DEF Greeted, Inits
      <4> DEFINE t == HandleTransferInit(s, m)
      <4>2. ~s.awaiting /\ s.supported = Supported[r]
        BY <1>0, <3>1 DEF OutputFits, Responding, Greeted, s
      <4>3. /\ t \in Sessions /\ t.role = r /\ ~t.awaiting
            /\ t.out = "InitReceived" /\ t.state = "NegotiateTransferParams"
            /\ t.request \cap Supported[r] \subseteq {t.mode}
        BY <1>0, <1>3, <3>1, <4>1, <4>2, InitFacts
      <4>4. sess' = [sess EXCEPT ![r] = t]
        BY <2>0, <3>0
      <4> HIDE DEF t
      <4>5. TypeOK'
        BY <2>2, <4>3, <4>4
      <4> QED
        BY <1>1, <1>7, <2>0, <2>3, <3>1, <4>3, <4>4, <4>5, HearsInit DEF Inits, s, m
    <3> QED
      BY <2>0, <2>1, <3>0, <3>1 DEF HandleTransferInit, Verify
  <2>4. CASE m.type \in {"SendAccept", "ReceiveAccept"}
    <3>0. HandleBdxMessage(s, m) = HandleAccept(s, m)
      BY <2>4 DEF HandleBdxMessage
    <3>1. CASE /\ m.type = (IF s.role = "Sender" THEN "SendAccept" ELSE "ReceiveAccept")
               /\ s.state = "AwaitingAccept"
               /\ Cardinality(m.modes) = 1 /\ m.modes \subseteq s.supported
      <4>1. PICK d \in Modes : m.modes = {d}
        BY <1>0, <1>3, <2>4 DEF Greeted, Accepts
      <4> DEFINE t == HandleAccept(s, m)
      <4>2. /\ t \in Sessions /\ t.role = r /\ t.mode = d
            /\ t.out = "AcceptReceived" /\ t.state = "TransferInProgress"
            /\ t.awaiting <=> d = (IF r = "Sender" THEN "ReceiverDrive" ELSE "SenderDrive")
        BY <1>0, <1>3, <3>1, <4>1, AcceptedFacts
      <4>3. sess' = [sess EXCEPT ![r] = t]
        BY <2>0, <3>0
      <4> HIDE DEF t
      <4>4. TypeOK'
        BY <2>2, <4>2, <4>3
      <4>5. ~t.awaiting <=> PassesTurn(m)
        BY <1>0, <3>1, <4>1, <4>2 DEF PassesTurn, Blocks, Queries, Modes, Roles
      <4>6. m.type \in Accepts /\ m.modes = {t.mode} /\ s.out = "None" /\ s.state = "AwaitingAccept"
        BY <1>7, <2>4, <3>1, <4>1, <4>2 DEF Accepts
      <4> QED
        BY <1>1, <2>0, <4>2, <4>3, <4>4, <4>5, <4>6, HearsAccept DEF s, m
    <3> QED
      BY <2>0, <2>1, <3>0, <3>1 DEF HandleAccept, Verify
  <2>5. CASE m.type \in {"BlockQuery", "BlockQueryWithSkip"}
    <3>0. HandleBdxMessage(s, m) = HandleBlockQuery(s, m)
      BY <2>5 DEF HandleBdxMessage
    <3>1. CASE /\ s.role = "Sender" /\ s.state = "TransferInProgress" /\ s.awaiting
               /\ m.n = s.nextBlock
      <4> DEFINE o == IF m.type = "BlockQuery" THEN "QueryReceived" ELSE "QueryWithSkipReceived"
                 t == [s EXCEPT !.out = o, !.msg = m, !.awaiting = FALSE, !.lastQuery = m.n]
      <4>1. o \in Outputs
        BY DEF Outputs
      <4> HIDE DEF o
      <4>2. /\ t \in Sessions /\ t.role = r /\ t.mode = s.mode /\ t.state = s.state
            /\ t.out = o /\ t.msg = m /\ ~t.awaiting
        BY <1>0, <1>3, <4>1 DEF Sessions
      <4>3. sess' = [sess EXCEPT ![r] = t]
        BY <2>0, <3>0, <3>1 DEF HandleBlockQuery, Verify, o
      <4> HIDE DEF t
      <4>4. TypeOK'
        BY <2>2, <4>2, <4>3
      <4>5. r = "Sender" /\ q = "Receiver" /\ PassesTurn(m)
        BY <1>0, <2>5, <3>1, PeerFacts DEF q, PassesTurn, Queries
      <4>6. cursor["Receiver"] = IF t.out = "QueryWithSkipReceived"
                                 THEN Least(FileLen, cursor["Sender"] + t.msg.len)
                                 ELSE cursor["Sender"]
        BY <1>0, <1>3, <2>5, <4>2, <4>5 DEF CursorsMeet, Queries, o
      <4>7. t.out \in {"QueryReceived", "QueryWithSkipReceived"}
        BY <4>2 DEF o
      <4>8. s.out = "None" /\ s.awaiting /\ s.state = "TransferInProgress"
        BY <1>7, <3>1
      <4> QED
        BY <1>1, <2>0, <4>2, <4>3, <4>4, <4>5, <4>6, <4>7, <4>8, DataHears DEF s, m
    <3> QED
      BY <2>0, <2>1, <3>0, <3>1 DEF HandleBlockQuery, Verify
  <2>6. CASE m.type \in {"Block", "BlockEOF"}
    <3>0. HandleBdxMessage(s, m) = HandleBlock(s, m)
      BY <2>6 DEF HandleBdxMessage
    <3> DEFINE eof == m.type = "BlockEOF"
               ok == /\ s.role = "Receiver" /\ s.state = "TransferInProgress" /\ s.awaiting
                     /\ m.n = s.lastQuery
                     /\ eof \/ (m.len > 0 /\ (s.length > 0 => s.bytes + m.len <= s.length))
               st == IF eof THEN "ReceivedEOF" ELSE s.state
               t == [s EXCEPT !.out = "BlockReceived", !.msg = m, !.bytes = @ + m.len,
                              !.lastBlock = m.n, !.awaiting = FALSE, !.state = st]
    <3>1. CASE ok
      <4>1. st \in States /\ s.bytes + m.len \in Nat
        BY <1>0, <1>3 DEF Sessions, States
      <4>2. sess' = [sess EXCEPT ![r] = t]
        BY <2>0, <3>0, <3>1 DEF HandleBlock, Verify
      <4>3. /\ r = "Receiver" /\ q = "Sender" /\ PassesTurn(m)
            /\ st \in {"TransferInProgress", "ReceivedEOF"} /\ (st = "ReceivedEOF" => m.type = "BlockEOF")
            /\ s.state = "TransferInProgress" /\ s.awaiting /\ s.out = "None" /\ m.type \in Blocks
        BY <1>0, <1>7, <2>6, <3>1, PeerFacts DEF q, PassesTurn, Blocks
      <4> HIDE DEF st
      <4>4. /\ t \in Sessions /\ t.role = r /\ t.mode = s.mode /\ t.state = st
            /\ t.out = "BlockReceived" /\ t.msg = m /\ ~t.awaiting
        BY <1>0, <1>3, <4>1 DEF Sessions, Outputs
      <4> HIDE DEF t
      <4>5. TypeOK'
        BY <2>2, <4>2, <4>4
      <4>6. /\ Carries(t.msg, cursor["Sender"], cursor["Receiver"])
            /\ t.state = "ReceivedEOF" => cursor["Sender"] = FileLen
        BY <1>0, <1>3, <4>3, <4>4 DEF CursorsMeet
      <4> QED
        BY <1>1, <2>0, <4>2, <4>3, <4>4, <4>5, <4>6, DataHears DEF s, m
    <3>2. CASE ~ok
      <4>1. HandleBlock(s, m) = PrepareStatusReport(s)
        BY <3>2 DEF HandleBlock, Verify
      <4> QED
        BY <2>0, <2>1, <3>0, <4>1
    <3> QED
      BY <3>1, <3>2
  <2>7. CASE m.type = "BlockAck"
    <3>0. HandleBdxMessage(s, m) = HandleBlockAck(s, m)
      BY <2>7 DEF HandleBdxMessage
    <3>1. CASE /\ s.role = "Sender" /\ s.state = "TransferInProgress" /\ s.awaiting
               /\ m.n = s.lastBlock
      <4> DEFINE w == s.mode = "ReceiverDrive"
                 t == [s EXCEPT !.out = "AckReceived", !.awaiting = w]
      <4>1. w \in BOOLEAN
        OBVIOUS
      <4>2. sess' = [sess EXCEPT ![r] = t]
        BY <2>0, <3>0, <3>1 DEF HandleBlockAck, Verify
      <4> HIDE DEF w
      <4>3. /\ t \in Sessions /\ t.role = r /\ t.mode = s.mode /\ t.state = s.state
            /\ t.out = "AckReceived" /\ t.awaiting = w
        BY <1>0, <4>1 DEF Sessions, Outputs
      <4> HIDE DEF t
      <4>4. TypeOK'
        BY <2>2, <4>2, <4>3
      <4>5. r = "Sender" /\ q = "Receiver" /\ s.mode \in Modes
        BY <1>0, <3>1, PeerFacts DEF q, Sessions
      <4>6. sess["Sender"].mode = sess["Receiver"].mode
        <5>1. InTransfer("Sender") /\ Acknowledges
          BY <1>3, <2>7, <3>1, <4>5 DEF InTransfer, Acknowledges, s
        <5> QED
          BY <1>0, <5>1 DEF SameDrive
      <4>7. ~t.awaiting <=> PassesTurn(m)
        <5>1. PassesTurn(m) <=> sess["Receiver"].mode = "SenderDrive"
          BY <2>7 DEF PassesTurn, Blocks, Queries
        <5>2. w <=> s.mode # "SenderDrive"
          BY <4>5 DEF w, Modes
        <5> QED
          BY <4>3, <4>5, <4>6, <5>1, <5>2 DEF s
      <4>8. ~t.awaiting => cursor["Receiver"] = cursor["Sender"]
        BY <1>0, <1>3, <2>7, <4>5, <4>7 DEF CursorsMeet
      <4>9. s.out = "None" /\ s.awaiting /\ s.state = "TransferInProgress"
        BY <1>7, <3>1
      <4> QED
        BY <1>1, <2>0, <4>2, <4>3, <4>4, <4>5, <4>7, <4>8, <4>9, DataHears DEF s, m
    <3> QED
      BY <2>0, <2>1, <3>0, <3>1 DEF HandleBlockAck, Verify
  <2>8. CASE m.type = "BlockAckEOF"
    <3>0. HandleBdxMessage(s, m) = HandleBlockAckEOF(s, m)
      BY <2>8 DEF HandleBdxMessage
    <3>1. CASE /\ s.role = "Sender" /\ s.state = "AwaitingEOFAck" /\ s.awaiting
               /\ m.n = s.lastBlock
      <4> DEFINE t == [s EXCEPT !.out = "AckEOFReceived", !.awaiting = FALSE, !.state = "TransferDone"]
      <4>1. sess' = [sess EXCEPT ![r] = t]
        BY <2>0, <3>0, <3>1 DEF HandleBlockAckEOF, Verify
      <4>2. /\ t \in Sessions /\ t.role = r /\ t.mode = s.mode /\ t.state = "TransferDone"
            /\ t.out = "AckEOFReceived" /\ ~t.awaiting
        BY <1>0 DEF Sessions, Outputs, States
      <4> HIDE DEF t
      <4>3. TypeOK'
        BY <2>2, <4>1, <4>2
      <4>4. r = "Sender" /\ app["Receiver"] = "success"
        <5>1. r = "Sender" /\ chan[r] \in Seq(Messages)
          BY <1>0, <3>1 DEF TypeOK
        <5>2. m = chan["Sender"][1] /\ 1 \in 1 .. Len(chan["Sender"])
          BY <1>1, <5>1, TailFacts DEF m
        <5> QED
          BY <1>0, <2>8, <5>1, <5>2 DEF ImageReaches
      <4>5. s.out = "None" /\ s.awaiting /\ s.state = "AwaitingEOFAck"
        BY <1>7, <3>1
      <4> QED
        BY <1>1, <2>0, <4>1, <4>2, <4>3, <4>4, <4>5, DataHears DEF s, m
    <3> QED
      BY <2>0, <2>1, <3>0, <3>1 DEF HandleBlockAckEOF, Verify
  <2> QED
    BY <1>3, <1>7, <2>3, <2>4, <2>5, <2>6, <2>7, <2>8 DEF MsgTypes
<1> QED
  BY <1>4, <1>5, <1>6, <1>7

(* Nothing has been said when the sessions are constructed.                *)
LEMMA InitInv ==
    ASSUME Init
    PROVE  TurnInv
<1>1. PICK modes \in [Roles -> Modes] : sess = [r \in Roles |-> Blank(r, modes[r])]
  BY DEF Init
<1>2. /\ chan = [r \in Roles |-> <<>>] /\ app = [r \in Roles |-> "idle"]
      /\ cursor = [r \in Roles |-> 0] /\ image = {} /\ skipped = {} /\ fresh = FALSE
      /\ disturbed = FALSE /\ released = FALSE /\ faults = 0 /\ transfers = 0
  BY DEF Init
<1>3. \A r \in Roles : /\ sess[r] \in Sessions /\ sess[r].role = r /\ sess[r].state = "Unitialized"
                       /\ sess[r].out = "None" /\ ~sess[r].awaiting
  <2>1. Counter("StatusReport", 0) \in Messages
    BY DEF Counter, Msg, Messages, MsgTypes
  <2>2. \A r \in Roles : sess[r] = Blank(r, modes[r]) /\ modes[r] \in Modes
    BY <1>1
  <2>3. \A r \in Roles, d \in Modes :
            /\ Blank(r, d) \in Sessions /\ Blank(r, d).role = r
            /\ Blank(r, d).state = "Unitialized"
            /\ Blank(r, d).out = "None" /\ ~Blank(r, d).awaiting
    BY <2>1 DEF Blank, Sessions, States, Outputs
  <2> QED
    BY <2>2, <2>3
<1>4. TypeOK
  <2>1. sess \in [Roles -> Sessions]
    BY <1>1, <1>3
  <2>2. chan \in [Roles -> Seq(Messages)]
    BY <1>2
  <2>3. app \in [Roles -> {"idle", "busy", "success", "failure"}] /\ cursor \in [Roles -> 0 .. FileLen]
    BY <1>2, FileLenAssumption
  <2>4. faults \in 0 .. MaxFaults /\ transfers \in 0 .. MaxTransfers
    BY <1>2, BoundsAssumption
  <2> QED
    BY <1>2, <1>3, <2>1, <2>2, <2>3, <2>4 DEF TypeOK
<1>5. \A r \in Roles : \A i \in Heard(r) : FALSE
  <2>1. \A r \in Roles : Pipe(r) = <<>>
    BY <1>2, <1>3, PeerFacts DEF Pipe
  <2> QED
    BY <2>1 DEF Heard
<1>6. \A r \in Roles : ~HasTurn(r) /\ ~InTransfer(r) /\ ~Early(r) /\ ~Responding(r)
  BY <1>3 DEF HasTurn, InTransfer, Early, Responding
<1>7. OneTurn /\ SameDrive
  BY <1>2, <1>5, <1>6, PeerFacts DEF OneTurn, TurnOnItsWay, SameDrive
<1>8. CursorsMeet
  BY <1>3, <1>5, <1>6, PeerFacts DEF CursorsMeet
<1>9. ImageReaches
  <2>1. {p[1] : p \in image} \cup skipped = {} /\ 0 .. cursor["Receiver"] - 1 = {}
    BY <1>2, PeerFacts
  <2>2. \A i \in 1 .. Len(chan["Sender"]) : FALSE
    BY <1>2, PeerFacts
  <2> QED
    BY <1>2, <1>5, <2>1, <2>2, PeerFacts DEF ImageReaches
<1>10. \A r \in Roles : OutputFits(r) /\ Greeted(r)
  BY <1>3, <1>5, <1>6 DEF OutputFits, Greeted
<1>11. ImageFaithful
  BY <1>2 DEF ImageFaithful
<1> QED
  BY <1>4, <1>7, <1>8, <1>9, <1>10, <1>11 DEF TurnInv

(* Every step keeps the turn, the cursors and the image in order.          *)
LEMMA NextInv ==
    ASSUME TurnInv, [Next]_vars
    PROVE  TurnInv'
<1>1. ASSUME NEW r \in Roles,
             \/ Begin(r) \/ Poll(r) \/ PollTimeout(r) \/ Reply(r) \/ Deliver(r)
             \/ Reject(r) \/ Abort(r) \/ GiveUp(r) \/ Lose(r)
      PROVE  TurnInv'
  <2>1. CASE Begin(r)
    BY <2>1, BeginStep
  <2>2. CASE PollMessage(r)
    BY <2>2, PollMessageStep
  <2>3. CASE PollNotice(r)
    BY <2>3, PollNoticeStep
  <2>4. CASE PollBlock
    BY <2>4, PollBlockStep
  <2>5. CASE Accept(r)
    BY <2>5, AcceptStep
  <2>6. CASE SendBlock
    BY <2>6, SendBlockStep
  <2>7. CASE SendQuery
    BY <2>7, SendQueryStep
  <2>8. CASE SendAck
    BY <2>8, SendAckStep
  <2>9. CASE Deliver(r)
    BY <2>9, DeliverStep
  <2>10. CASE \/ PollEnd(r) \/ EndRejected(r) \/ PollTimeout(r) \/ Reject(r)
              \/ Abort(r) \/ GiveUp(r) \/ Lose(r)
    BY <2>10, EndSteps
  <2> QED
    BY <1>1, <2>1, <2>2, <2>3, <2>4, <2>5, <2>6, <2>7, <2>8, <2>9, <2>10 DEF Poll, Reply
<1>2. CASE OnResponseTimeout
  BY <1>2, EndSteps, PeerFacts
<1>3. CASE OnDownloadTimeout
  BY <1>3, EndSteps, PeerFacts
<1>4. CASE TimeoutCheckPasses \/ CheckIsLost \/ UNCHANGED vars
  <2>1. UNCHANGED <<sess, chan, app, cursor, image, skipped, fresh, disturbed, released,
                    faults, transfers>>
    BY <1>4 DEF TimeoutCheckPasses, CheckIsLost, Calm, Data, vars
  <2>2. TypeOK'
    BY <2>1 DEF TurnInv, TypeOK
  <2>3. \A r \in Roles : /\ Pipe(r)' = Pipe(r) /\ Len(Pipe(r)) \in Nat
                         /\ app'[r] # "busy" => sess'[r].state = "Unitialized"
    BY <2>1, PipeType DEF Pipe, TurnInv, OutputFits
  <2>4. \A r \in Roles : Thins(Pipe(r), Pipe(r)')
    BY <2>3 DEF Thins
  <2>5. ImageReaches
    BY DEF TurnInv
  <2> QED
    BY <2>1, <2>2, <2>3, <2>4, <2>5, Weaken DEF ImageReaches
<1> QED
  BY <1>1, <1>2, <1>3, <1>4 DEF Next, TransferTimeoutCheckHandler

(* The inductive invariant of a transfer: at most one side has the turn or *)
(* is on its way to get it, both drive the same way, the cursors are apart *)
(* by what is on its way, and the image reaches up to the receiver's       *)
(* cursor - whatever is lost, refused, aborted or given up (the handlers   *)
(* and Prepare methods of TransferSession).                                *)
THEOREM TurnInvTheorem == Spec => []TurnInv
<1>1. Init => TurnInv
  BY InitInv
<1>2. TurnInv /\ [Next]_vars => TurnInv'
  BY NextInv
<1> QED
  BY <1>1, <1>2, PTL DEF Spec

(* Every unit that the receiver ever writes is written where it belongs,   *)
(* for files of any length, any skips and any number of faults: a block is *)
(* accepted only by a session to which it passes the turn (HandleBlock,    *)
(* PrepareBlock).                                                          *)
THEOREM ImageFaithfulTheorem == Spec => []ImageFaithful
<1>1. TurnInv => ImageFaithful
  BY DEF TurnInv
<1> QED
  BY <1>1, TurnInvTheorem, PTL

(* A receiver that reports success has the whole file but for what it      *)
(* asked to skip, and a sender reports success only after it               *)
(* (PrepareBlockAck, HandleBlockAckEOF).                                   *)
THEOREM SuccessMeansWholeTheorem == Spec => []SuccessMeansWhole
<1>1. TurnInv => SuccessMeansWhole
  BY DEF TurnInv, ImageReaches, SuccessMeansWhole
<1> QED
  BY <1>1, TurnInvTheorem, PTL

(* Two sides that are both in the transfer have the same control mode, at  *)
(* most one of them has the turn, and only acknowledgements and reports    *)
(* are on their way to it, also after losses and refusals (AcceptTransfer, *)
(* HandleAccept, HandleBlockAck).                                          *)
THEOREM OneDriverTheorem == Spec => []OneDriver
<1>1. TurnInv => OneDriver
  <2> SUFFICES ASSUME TurnInv, \A x \in Roles : InTransfer(x)
               PROVE  /\ sess["Sender"].mode = sess["Receiver"].mode
                      /\ \A r \in Roles : InTransfer(r) /\ ~sess[r].awaiting =>
                            /\ sess[Peer(r)].awaiting
                            /\ \A i \in 1 .. Len(chan[r]) :
                                   chan[r][i].type \in {"StatusReport", "BlockAck"}
    BY DEF OneDriver
  <2>0. /\ TypeOK /\ OneTurn /\ SameDrive /\ ImageReaches
        /\ \A x \in Roles : OutputFits(x) /\ Greeted(x)
    BY DEF TurnInv
  <2>1. sess["Sender"].mode = sess["Receiver"].mode
    BY <2>0, PeerFacts DEF SameDrive
  <2>2. ASSUME NEW r \in Roles, ~sess[r].awaiting
        PROVE  /\ sess[Peer(r)].awaiting
               /\ \A i \in 1 .. Len(chan[r]) :
                      chan[r][i].type \in {"StatusReport", "BlockAck"}
    <3> DEFINE q == Peer(r)
    <3>1. q \in Roles /\ Peer(q) = r /\ InTransfer(q) /\ InTransfer(r)
      BY PeerFacts
    <3>2. HasTurn(r)
      BY <2>0, <2>2, <3>1 DEF HasTurn, InTransfer, OutputFits
    <3>3. ~HasTurn(q) /\ \A i \in Heard(q) : ~PassesTurn(Pipe(q)[i])
      BY <2>0, <3>1, <3>2 DEF OneTurn, TurnOnItsWay
    <3>4. sess[q].awaiting
      BY <2>0, <3>1, <3>3 DEF HasTurn, InTransfer, OutputFits
    <3>5. ASSUME NEW i \in 1 .. Len(chan[r])
          PROVE  chan[r][i].type \in {"StatusReport", "BlockAck"}
      <4>1. chan[r] \in Seq(Messages) /\ sess[q].msg \in Messages
        BY <2>0, <3>1 DEF TypeOK, Sessions
      <4>2. /\ Len(chan[r]) \in Nat /\ Len(Append(chan[r], sess[q].msg)) = Len(chan[r]) + 1
            /\ Append(chan[r], sess[q].msg)[i] = chan[r][i]
        BY <4>1, AppendFacts, LenProperties
      <4>3. i \in Heard(q) /\ Pipe(q)[i] = chan[r][i]
        BY <3>1, <4>2 DEF Heard, Pipe
      <4>4. chan[r][i].type \in Says(q)
        BY <2>0, <3>1, <4>3 DEF OutputFits
      <4>5. chan[r][i].type \notin Blocks \cup Queries
        BY <3>3, <4>3 DEF PassesTurn
      <4>6. chan[r][i].type \notin Inits \cup Accepts
        BY <2>0, <3>1, <4>3 DEF Greeted
      <4>7. chan[r][i].type # "BlockAckEOF"
        <5>1. app["Receiver"] # "success"
          BY <2>0, PeerFacts DEF OutputFits, InTransfer
        <5>2. CASE r = "Sender"
          BY <2>0, <5>1, <5>2 DEF ImageReaches
        <5>3. CASE r = "Receiver"
          BY <4>4, <5>3, PeerFacts DEF Says, Blocks
        <5> QED
          BY <5>2, <5>3 DEF Roles
      <4> QED
        BY <4>4, <4>5, <4>6, <4>7 DEF Says, Inits, Accepts
    <3> QED
      BY <3>4, <3>5
  <2> QED
    BY <2>1, <2>2
<1> QED
  BY <1>1, TurnInvTheorem, PTL
=============================================================================
