--------------------------- MODULE BdxCalmProofs ---------------------------
(***************************************************************************)
(* CalmInv is an invariant of BdxTransfer for files of every length, every *)
(* choice of control modes, skips of every size and every number of        *)
(* transfers: as long as nothing disturbs a transfer, no handler of a      *)
(* TransferSession finds a message unexpected, misnumbered or too long.    *)
(*                                                                         *)
(* TurnInv holds whatever happens, so it says at most where the turn is.   *)
(* CalmInv says that it is somewhere (InStep), that a message on its way   *)
(* finds the session that waits for it (Introduced, Ready), and that the   *)
(* four block counters agree with where the turn is (Numbered).            *)
(*                                                                         *)
(* Again one lemma for each kind of step.  CalmPolled: an output is        *)
(* polled.  CalmSays: the side that has the turn prepares a message.       *)
(* CalmHears: a side hears the first thing its peer has said; then it has  *)
(* itself said nothing that is still on its way, and its handler finds     *)
(* every check met.  Disturbs: the others make the transfer a disturbed    *)
(* one, PollTimeout because nothing times out unless something is under    *)
(* way (CalmUnderway).                                                     *)
(***************************************************************************)
EXTENDS BdxTransferProofs

(* The sides, by name.                                                     *)
LEMMA Sides ==
    \A r \in Roles : /\ Peer(r) \in Roles /\ Peer(Peer(r)) = r /\ Peer(r) # r
                     /\ \A x \in Roles : x = r \/ x = Peer(r)
BY DEF Roles, Peer

(* What r has said when it says one thing more.                            *)
LEMMA SaysMore ==
    ASSUME TypeOK, NEW r \in Roles, NEW t \in Sessions,
           sess' = [sess EXCEPT ![r] = t], chan' = chan,
           sess[r].out # "MsgToSend", t.out = "MsgToSend"
    PROVE  /\ Len(Pipe(r)) \in Nat /\ Len(Pipe(r)') = Len(Pipe(r)) + 1
           /\ Len(Pipe(r)) + 1 \in Heard(r)' /\ Pipe(r)'[Len(Pipe(r)) + 1] = t.msg
           /\ \A i \in Heard(r) : /\ i \in Nat \ {0} /\ i <= Len(Pipe(r))
                                  /\ i \in Heard(r)' /\ Pipe(r)'[i] = Pipe(r)[i]
<1>1. sess'[r] = t
  BY DEF TypeOK
<1>2. Pipe(r) = chan[Peer(r)] /\ Pipe(r)' = Append(chan[Peer(r)], t.msg)
  BY <1>1 DEF Pipe
<1>3. chan[Peer(r)] \in Seq(Messages) /\ t.msg \in Messages /\ Len(chan[Peer(r)]) \in Nat
  BY PeerFacts, LenProperties DEF TypeOK, Sessions
<1>4. /\ Len(Append(chan[Peer(r)], t.msg)) = Len(chan[Peer(r)]) + 1
      /\ Append(chan[Peer(r)], t.msg)[Len(chan[Peer(r)]) + 1] = t.msg
      /\ \A i \in 1 .. Len(chan[Peer(r)]) : Append(chan[Peer(r)], t.msg)[i] = chan[Peer(r)][i]
  BY <1>3, AppendFacts
<1> QED
  BY <1>2, <1>3, <1>4 DEF Heard

(* What the sides have said when r says one thing more.                    *)
SaidLast(r, q, t) ==
    /\ sess'[r] = t /\ sess'[q] = sess[q] /\ Pipe(q)' = Pipe(q) /\ Heard(q)' = Heard(q)
    /\ \A i \in Heard(r)' : \/ i \in Heard(r) /\ Pipe(r)'[i] = Pipe(r)[i]
                            \/ i = Len(Pipe(r)) + 1 /\ Pipe(r)'[i] = t.msg

(* A message that r prepares comes after all it has said.                  *)
LEMMA SaysLast ==
    ASSUME TypeOK, NEW r \in Roles, NEW q, q = Peer(r), NEW t \in Sessions,
           sess' = [sess EXCEPT ![r] = t], chan' = chan,
           sess[r].out # "MsgToSend", t.out = "MsgToSend"
    PROVE  SaidLast(r, q, t)
<1>1. SaidLast(r, Peer(r), t)
  BY PipeSays DEF SaidLast
<1> QED
  BY <1>1

(* What the peer of r has said when r has heard the first of it.           *)
LEMMA HearsMore ==
    ASSUME TypeOK, TypeOK', NEW r \in Roles, chan[r] # <<>>,
           chan' = [chan EXCEPT ![r] = Tail(@)], sess'[Peer(r)] = sess[Peer(r)]
    PROVE  /\ Len(Pipe(Peer(r))) \in Nat /\ Len(Pipe(Peer(r))') = Len(Pipe(Peer(r))) - 1
           /\ \A i \in Heard(Peer(r)) :
                  /\ i \in Nat \ {0} /\ i <= Len(Pipe(Peer(r)))
                  /\ i # 1 => i - 1 \in Heard(Peer(r))' /\ Pipe(Peer(r))'[i - 1] = Pipe(Peer(r))[i]
<1>1. chan'[r] = Tail(chan[r])
  BY DEF TypeOK
<1>2. /\ Len(Pipe(Peer(r))') = Len(Pipe(Peer(r))) - 1
      /\ \A i \in Heard(Peer(r))' :
             i + 1 \in Heard(Peer(r)) /\ Pipe(Peer(r))'[i] = Pipe(Peer(r))[i + 1]
  BY <1>1, PipeHeard
<1>3. Len(Pipe(Peer(r))) \in Nat /\ \A i \in Heard(Peer(r)) : i \in Nat \ {0} /\ i <= Len(Pipe(Peer(r)))
  BY PipeType, Sides DEF Heard
<1>4. ASSUME NEW i \in Heard(Peer(r)), i # 1
      PROVE  i - 1 \in Heard(Peer(r))' /\ Pipe(Peer(r))'[i - 1] = Pipe(Peer(r))[i]
  <2>1. i \in Nat /\ i > 1 /\ i <= Len(Pipe(Peer(r)))
    BY <1>3, <1>4
  <2>2. i - 1 \in Heard(Peer(r))'
    BY <1>2, <1>3, <2>1 DEF Heard
  <2>3. (i - 1) + 1 = i
    BY <2>1
  <2> QED
    BY <1>2, <2>2, <2>3
<1> QED
  BY <1>2, <1>3, <1>4

(* An output is polled and what the sides have said stays.                 *)
LEMMA CalmPolled ==
    ASSUME TypeOK, CalmInv, ~disturbed, ~disturbed', UNCHANGED <<app, released>>, NEW r \in Roles,
           sess' = [sess EXCEPT ![r].out = "None"], sess[r].state # "TransferDone",
           \A x \in Roles : Pipe(x)' = Pipe(x),
           Unanswered' => Unanswered,
           sess["Receiver"].bytes <= cursor'["Receiver"]
               + (IF sess'["Receiver"].out = "BlockReceived" THEN sess["Receiver"].msg.len ELSE 0)
    PROVE  CalmInv'
<1>0. ~released /\ InStep /\ Numbered /\ \A x \in Roles : Unhurt(x) /\ Introduced(x)
  BY DEF CalmInv
<1>1. \A x \in Roles :
          /\ sess'[x].state = sess[x].state /\ sess'[x].awaiting = sess[x].awaiting
          /\ sess'[x].mode = sess[x].mode /\ sess'[x].msg = sess[x].msg
          /\ sess'[x].supported = sess[x].supported /\ sess'[x].request = sess[x].request
          /\ sess'[x].length = sess[x].length /\ sess'[x].bytes = sess[x].bytes
          /\ sess'[x].lastBlock = sess[x].lastBlock /\ sess'[x].nextBlock = sess[x].nextBlock
          /\ sess'[x].lastQuery = sess[x].lastQuery /\ sess'[x].nextQuery = sess[x].nextQuery
          /\ sess'[x].out = sess[x].out \/ (sess'[x].out = "None" /\ x = r)
  <2> DEFINE t == [sess[r] EXCEPT !.out = "None"]
  <2>1. sess[r] \in Sessions /\ sess'[r] = t /\ \A x \in Roles : x # r => sess'[x] = sess[x]
    BY DEF TypeOK
  <2>2. /\ t.state = sess[r].state /\ t.awaiting = sess[r].awaiting
        /\ t.mode = sess[r].mode /\ t.msg = sess[r].msg
        /\ t.supported = sess[r].supported /\ t.request = sess[r].request
        /\ t.length = sess[r].length /\ t.bytes = sess[r].bytes
        /\ t.lastBlock = sess[r].lastBlock /\ t.nextBlock = sess[r].nextBlock
        /\ t.lastQuery = sess[r].lastQuery /\ t.nextQuery = sess[r].nextQuery
        /\ t.out = "None"
    BY <2>1 DEF Sessions
  <2> HIDE DEF t
  <2> QED
    BY <2>1, <2>2
<1>2. \A x \in Roles : Heard(x)' = Heard(x) /\ Pipe(x)' = Pipe(x)
  BY DEF Heard
<1>3. /\ \A m : PassesTurn(m)' <=> PassesTurn(m)
      /\ \A x \in Roles : /\ HasTurn(x)' <=> HasTurn(x)
                          /\ Transfers(x)' <=> Transfers(x)
                          /\ Waits(x)' <=> Waits(x)
                          /\ InTransfer(x)' <=> InTransfer(x)
                          /\ Responding(x)' <=> Responding(x)
                          /\ Early(x)' <=> Early(x)
                          /\ Zeroed(sess[x])' <=> Zeroed(sess[x])
  BY <1>1, PeerFacts DEF PassesTurn, HasTurn, Transfers, Waits, InTransfer, Responding, Early, Zeroed
<1>4. \A x \in Roles : /\ TurnOnItsWay(x)' <=> TurnOnItsWay(x)
                       /\ Silent(x)' <=> Silent(x)
                       /\ \A T : Said(x, T)' <=> Said(x, T)
  BY <1>2, <1>3 DEF TurnOnItsWay, Silent, Said
<1>5. \A x \in Roles : Moves(x)' <=> Moves(x)
  BY <1>3, <1>4 DEF Moves
<1>6. \A x \in Roles : \A i : Ready(x, i)' <=> Ready(x, i)
  BY <1>2, <1>3, Sides DEF Ready
<1>7. \A x \in Roles : Unhurt(x)'
  BY <1>0, <1>1, <1>4 DEF Unhurt
<1>8. \A x \in Roles : Introduced(x)'
  BY <1>0, <1>1, <1>2, <1>3, <1>4, Sides DEF Introduced
<1>9. InStep'
  BY <1>0, <1>1, <1>2, <1>3, <1>4, <1>5, Sides, PeerFacts DEF InStep
<1>10. Numbered'
  BY <1>0, <1>1, <1>2, <1>3, <1>4, <1>5, <1>6, PeerFacts DEF Numbered
<1> QED
  BY <1>0, <1>7, <1>8, <1>9, <1>10 DEF CalmInv

(* Both sessions are reset and neither side has anything to hear.          *)
LEMMA CalmRest ==
    ASSUME TypeOK, ~released, \A x \in Roles : Pipe(x) = <<>> /\ app[x] # "failure",
           \A x \in Roles : \E s \in Sessions : sess[x] = Reset(s)
    PROVE  CalmInv
<1>1. \A x \in Roles : /\ sess[x].state = "Unitialized" /\ sess[x].out = "None"
                       /\ ~sess[x].awaiting /\ sess[x].length = 0 /\ sess[x].bytes = 0
  <2>1. \A s : /\ Reset(s).state = "Unitialized" /\ Reset(s).out = "None"
               /\ ~Reset(s).awaiting /\ Reset(s).length = 0 /\ Reset(s).bytes = 0
    BY DEF Reset, Blank
  <2> QED
    BY <2>1
<1>2. \A x \in Roles : \A i \in Heard(x) : FALSE
  BY DEF Heard
<1>3. \A x \in Roles : /\ ~HasTurn(x) /\ ~InTransfer(x) /\ ~Early(x) /\ ~Responding(x) /\ ~Waits(x)
                       /\ ~TurnOnItsWay(x) /\ \A T : ~Said(x, T)
  BY <1>1, <1>2 DEF HasTurn, InTransfer, Early, Responding, Waits, TurnOnItsWay, Said
<1>4. \A x \in Roles : Unhurt(x)
  BY <1>1, <1>3 DEF Unhurt
<1>5. \A x \in Roles : Introduced(x)
  BY <1>1, <1>2, <1>3 DEF Introduced, Lengths
<1>6. InStep
  BY <1>1, <1>2, <1>3, PeerFacts DEF InStep, Moves
<1>7. Numbered
  BY <1>1, <1>2, <1>3, PeerFacts DEF Numbered, Unanswered, TypeOK
<1> QED
  BY <1>4, <1>5, <1>6, <1>7 DEF CalmInv

(* A step that disturbs the transfer.                                      *)
LEMMA Disturbs ==
    ASSUME disturbed'
    PROVE  CalmInv'
BY DEF CalmInv

(* The last acknowledgement is on its way, and nothing else is.            *)
LEMMA OnlyLastAck ==
    ASSUME TurnInv, CalmInv, ~disturbed, Said("Receiver", {"BlockAckEOF"})
    PROVE  /\ sess["Sender"].state = "AwaitingEOFAck"
           /\ sess["Receiver"].state \in {"TransferDone", "Unitialized"}
           /\ Silent("Sender")
           /\ \A i \in Heard("Receiver") : Pipe("Receiver")[i].type = "BlockAckEOF"
<1>0. /\ \A x \in Roles : OutputFits(x) /\ Greeted(x) /\ Unhurt(x) /\ Introduced(x)
      /\ Numbered
  BY DEF TurnInv, CalmInv
<1>1. /\ sess["Sender"].state = "AwaitingEOFAck"
      /\ sess["Receiver"].state \in {"TransferDone", "Unitialized"}
  BY <1>0 DEF Numbered, Said
<1>2. \A x \in Roles : ~Transfers(x) /\ ~Waits(x)
  BY <1>1 DEF Transfers, Waits, Roles
<1>3. \A x \in Roles : \A i \in Heard(x) : Pipe(x)[i].type \notin {"StatusReport"} \cup Inits \cup Accepts
  BY <1>0, <1>1, <1>2, Sides, PeerFacts DEF Unhurt, Said, Introduced, Roles
<1>4. \A x \in Roles : \A i : ~Ready(x, i)
  BY <1>2, <1>3, Sides DEF Ready
<1>5. Silent("Sender")
  BY <1>0, <1>3, <1>4, PeerFacts DEF Numbered, Silent, OutputFits, Says, Inits, Accepts
<1>6. \A i \in Heard("Receiver") : Pipe("Receiver")[i].type = "BlockAckEOF"
  BY <1>0, <1>2, <1>3, <1>4, PeerFacts DEF Numbered, OutputFits, Says, Inits, Accepts
<1> QED
  BY <1>1, <1>5, <1>6

(* Nothing is on its way when the sender has heard it.                     *)
LEMMA AllHeard ==
    ASSUME TurnInv, CalmInv, ~disturbed, sess["Sender"].state = "TransferDone",
           sess["Receiver"].state = "Unitialized", NEW x \in Roles
    PROVE  Silent(x)
<1>0. /\ \A y \in Roles : OutputFits(y) /\ Greeted(y) /\ Unhurt(y) /\ Introduced(y)
      /\ Numbered
  BY DEF TurnInv, CalmInv
<1>2. \A y \in Roles : ~Transfers(y) /\ ~Waits(y)
  BY DEF Transfers, Waits, Roles
<1>3. \A y \in Roles : \A i \in Heard(y) : Pipe(y)[i].type \notin {"StatusReport"} \cup Inits \cup Accepts
  BY <1>0, <1>2, Sides, PeerFacts DEF Unhurt, Said, Introduced, Roles
<1>4. \A y \in Roles : \A i : ~Ready(y, i)
  BY <1>2, <1>3, Sides DEF Ready
<1>5. Silent("Sender")
  BY <1>0, <1>3, <1>4, PeerFacts DEF Numbered, Silent, OutputFits, Says, Inits, Accepts
<1>6. Silent("Receiver")
  BY <1>0, <1>2, <1>3, <1>4, PeerFacts DEF Numbered, Silent, OutputFits, Says, Inits, Accepts
<1> QED
  BY <1>5, <1>6 DEF Roles

(* An output that is no message to send is polled.                         *)
LEMMA PipesAtPoll ==
    ASSUME TypeOK, NEW r \in Roles, sess' = [sess EXCEPT ![r].out = "None"],
           sess[r].out # "MsgToSend", chan' = chan
    PROVE  \A x \in Roles : Pipe(x)' = Pipe(x)
<1>1. \A x \in Roles : /\ sess'[x].msg = sess[x].msg
                       /\ sess'[x].out = "MsgToSend" <=> sess[x].out = "MsgToSend"
  <2> DEFINE t == [sess[r] EXCEPT !.out = "None"]
  <2>1. sess[r] \in Sessions /\ sess'[r] = t /\ \A x \in Roles : x # r => sess'[x] = sess[x]
    BY DEF TypeOK
  <2>2. t.out = "None" /\ t.msg = sess[r].msg
    BY <2>1 DEF Sessions
  <2> HIDE DEF t
  <2> QED
    BY <2>1, <2>2
<1> QED
  BY <1>1 DEF Pipe

(* PollNotice takes an output and, for a skip, moves the sender's cursor.  *)
LEMMA CalmPollNotice ==
    ASSUME TurnInv, CalmInv, ~disturbed, NEW r \in Roles, PollNotice(r)
    PROVE  CalmInv'
<1>0. TypeOK /\ OutputFits(r) /\ Unhurt(r) /\ Numbered
  BY DEF TurnInv, CalmInv
<1>1. /\ sess' = [sess EXCEPT ![r].out = "None"] /\ sess[r] \in Sessions
      /\ sess[r].out \notin {"MsgToSend", "BlockReceived", "AckEOFReceived"}
      /\ UNCHANGED <<chan, app, fresh, disturbed, released>>
      /\ cursor'["Receiver"] = cursor["Receiver"]
  BY <1>0, PeerFacts DEF PollNotice, Polled, Calm, Book, OutputFits, TypeOK
<1>2. sess[r].state # "TransferDone"
  BY <1>0, <1>1 DEF Unhurt
<1>3. \A x \in Roles : Pipe(x)' = Pipe(x)
  BY <1>0, <1>1, PipesAtPoll
<1>4. /\ sess'["Receiver"].state = sess["Receiver"].state
      /\ sess'["Receiver"].awaiting = sess["Receiver"].awaiting
      /\ sess'["Receiver"].out = "BlockReceived" <=> sess["Receiver"].out = "BlockReceived"
  <2>1. CASE r = "Receiver"
    BY <1>0, <1>1, <2>1 DEF TypeOK, Sessions
  <2>2. CASE r = "Sender"
    BY <1>0, <1>1, <2>2, PeerFacts DEF TypeOK
  <2> QED
    BY <2>1, <2>2 DEF Roles
<1>5. Unanswered' => Unanswered
  BY <1>1, <1>4 DEF Unanswered, HasTurn
<1> QED
  BY <1>0, <1>1, <1>2, <1>3, <1>4, <1>5, CalmPolled DEF Numbered

(* PollBlock writes what the block carries.                                *)
LEMMA CalmPollBlock ==
    ASSUME TurnInv, CalmInv, ~disturbed, PollBlock
    PROVE  CalmInv'
<1> DEFINE R == "Receiver"
<1>0. TypeOK /\ OutputFits(R) /\ Unhurt(R) /\ Numbered /\ R \in Roles
  BY PeerFacts DEF TurnInv, CalmInv
<1>1. /\ sess' = [sess EXCEPT ![R].out = "None"] /\ sess[R] \in Sessions
      /\ sess[R].out = "BlockReceived" /\ UNCHANGED <<chan, app, disturbed, released>>
      /\ cursor'[R] = cursor[R] + sess[R].msg.len
  BY <1>0, PeerFacts DEF PollBlock, Polled, Calm, Book, TypeOK
<1>2. sess[R].state # "TransferDone"
  BY <1>0, <1>1 DEF Unhurt
<1>3. \A x \in Roles : Pipe(x)' = Pipe(x)
  BY <1>0, <1>1, PipesAtPoll
<1>4. sess'[R].out = "None" /\ sess[R].msg.len \in Nat /\ cursor[R] \in Nat /\ sess[R].bytes \in Nat
  BY <1>0, <1>1, FileLenAssumption DEF TypeOK, Sessions, Messages
<1>5. sess[R].bytes <= cursor[R] + sess[R].msg.len
  BY <1>0, <1>1 DEF Numbered
<1>6. sess[R].bytes <= cursor'[R] + (IF sess'[R].out = "BlockReceived" THEN sess[R].msg.len ELSE 0)
  BY <1>1, <1>4, <1>5
<1> QED
  BY <1>0, <1>1, <1>2, <1>3, <1>6, CalmPolled DEF Unanswered

(* PollMessage gives what was said to the exchange; the receiver is done   *)
(* once its last acknowledgement is sent.                                  *)
LEMMA CalmPollMessage ==
    ASSUME TurnInv, CalmInv, ~disturbed, NEW r \in Roles, PollMessage(r)
    PROVE  CalmInv'
<1> DEFINE m == sess[r].msg
           R == "Receiver"
           S == "Sender"
<1>0. /\ TypeOK /\ OutputFits(r) /\ Unhurt(r) /\ Numbered /\ sess[r] \in Sessions /\ ~released
      /\ m \in Messages /\ chan[Peer(r)] \in Seq(Messages)
  BY PeerFacts DEF TurnInv, CalmInv, TypeOK, Sessions
<1>1. /\ sess[r].out = "MsgToSend" /\ UNCHANGED <<cursor, fresh, disturbed, released>>
      /\ chan' = [chan EXCEPT ![Peer(r)] = Append(@, m)]
  BY DEF PollMessage, Calm, Data, Book
<1>2. /\ Pipe(r) = Append(chan[Peer(r)], m) /\ chan'[Peer(r)] = Pipe(r) /\ chan'[r] = chan[r]
  BY <1>0, <1>1, Sides DEF Pipe, TypeOK
<1>3. ASSUME sess'[r].out # "MsgToSend", sess'[Peer(r)] = sess[Peer(r)]
      PROVE  \A x \in Roles : Pipe(x)' = Pipe(x)
  BY <1>2, <1>3, Sides DEF Pipe
<1>4. CASE m.type # "BlockAckEOF"
  <2>1. app' = app /\ sess' = [sess EXCEPT ![r].out = "None"]
    BY <1>4 DEF PollMessage, Polled
  <2>2. sess[r].state # "TransferDone"
    BY <1>0, <1>1, <1>4 DEF Unhurt
  <2>3. /\ sess'[r] = [sess[r] EXCEPT !.out = "None"] /\ sess'[Peer(r)] = sess[Peer(r)]
        /\ sess'[r].out = "None" /\ sess'[r].state = sess[r].state
        /\ sess'[r].awaiting = sess[r].awaiting
    BY <1>0, <2>1, Sides DEF TypeOK, Sessions
  <2>4. /\ sess'[R].state = sess[R].state /\ sess'[R].awaiting = sess[R].awaiting
        /\ sess'[R].out = "BlockReceived" <=> sess[R].out = "BlockReceived"
    BY <1>1, <2>3, Sides, PeerFacts
  <2>5. Unanswered' => Unanswered
    BY <1>1, <2>4 DEF Unanswered, HasTurn
  <2> QED
    BY <1>0, <1>1, <1>3, <2>1, <2>2, <2>3, <2>4, <2>5, CalmPolled DEF Numbered
<1>5. CASE m.type = "BlockAckEOF"
  <2>1. /\ Len(chan[Peer(r)]) + 1 \in Heard(r) /\ Pipe(r)[Len(chan[Peer(r)]) + 1] = m
    BY <1>0, <1>2, AppendFacts, LenProperties DEF Heard
  <2>2. r = R
    BY <1>0, <1>5, <2>1 DEF OutputFits, Says, Blocks, Roles
  <2>3. Said(R, {"BlockAckEOF"})
    BY <1>5, <2>1, <2>2 DEF Said
  <2>4. /\ sess[S].state = "AwaitingEOFAck" /\ sess[S].awaiting /\ Silent(S)
        /\ \A i \in Heard(R) : Pipe(R)[i].type = "BlockAckEOF"
    BY <2>3, OnlyLastAck, PeerFacts DEF TurnInv, OutputFits
  <2>5. /\ app' = [app EXCEPT ![R] = "success"] /\ sess' = [sess EXCEPT ![R] = Reset(sess[R])]
    BY <1>5, <2>2 DEF PollMessage
  <2>6. /\ sess'[R] = Reset(sess[R]) /\ sess'[S] = sess[S]
        /\ app'[R] = "success" /\ app'[S] = app[S]
    BY <1>0, <2>5, PeerFacts DEF TypeOK
  <2>7. /\ sess'[R].state = "Unitialized" /\ sess'[R].out = "None" /\ ~sess'[R].awaiting
        /\ sess'[R].length = 0 /\ sess'[R].bytes = 0
    BY <2>6 DEF Reset, Blank
  <2>8. \A x \in Roles : Pipe(x)' = Pipe(x) /\ Heard(x)' = Heard(x)
    BY <1>3, <2>2, <2>6, <2>7, PeerFacts DEF Heard
  <2>9. \A x \in Roles : Silent(S)' /\ \A T : Said(x, T)' <=> Said(x, T)
    BY <2>4, <2>8, PeerFacts DEF Silent, Said
  <2>10. /\ ~InTransfer(R)' /\ \A x \in Roles :
            /\ ~HasTurn(x)' /\ ~Early(x)' /\ ~Responding(x)' /\ ~Waits(x)' /\ ~Transfers(x)'
            /\ sess'[x].state \notin {"NegotiateTransferParams", "ReceivedEOF"}
    BY <2>4, <2>6, <2>7 DEF InTransfer, HasTurn, Early, Responding, Waits, Transfers, Roles
  <2>11. \A x \in Roles : ~TurnOnItsWay(x)' /\ ~Moves(x)'
         /\ \A i \in Heard(x)' : ~PassesTurn(Pipe(x)[i])'
    <3>1. \A i \in Heard(R) : ~PassesTurn(Pipe(R)[i])'
      BY <2>4, <2>8, PeerFacts DEF PassesTurn, Blocks, Queries
    <3>2. \A x \in Roles : \A i \in Heard(x)' : ~PassesTurn(Pipe(x)[i])'
      BY <2>4, <2>8, <3>1 DEF Silent, Roles
    <3> QED
      BY <2>8, <2>10, <3>2 DEF TurnOnItsWay, Moves
  <2>12. \A x \in Roles : Unhurt(x)'
    <3>1. Unhurt(S)
      BY PeerFacts DEF CalmInv
    <3>2. Unhurt(S)'
      BY <2>6, <2>9, <3>1, PeerFacts DEF Unhurt
    <3>3. Unhurt(R)'
      BY <1>0, <2>2, <2>6, <2>7, <2>9, PeerFacts DEF Unhurt
    <3> QED
      BY <3>2, <3>3 DEF Roles
  <2>13. \A x \in Roles : Introduced(x)'
    <3>1. sess[S].length \in Lengths
      BY PeerFacts DEF CalmInv, Introduced
    <3>2. \A x \in Roles : sess'[x].length \in Lengths
      BY <2>6, <2>7, <3>1 DEF Roles, Lengths
    <3>3. \A x \in Roles : \A i \in Heard(x)' : Pipe(x)'[i].type \notin Inits \cup Accepts
      BY <2>4, <2>8 DEF Silent, Roles, Inits, Accepts
    <3> QED
      BY <2>10, <3>2, <3>3 DEF Introduced
  <2>14. InStep'
    <3>1. \A x \in Roles : \A i \in Heard(x)' : Pipe(x)'[i].type = "BlockAckEOF" => i = Len(Pipe(x)')
      BY <2>8 DEF CalmInv, InStep
    <3> QED
      BY <2>3, <2>9, <2>10, <2>11, <3>1, PeerFacts DEF InStep
  <2>15. Numbered'
    <3>1. \A i \in Heard(S)' : FALSE
      BY <2>9, PeerFacts DEF Silent
    <3>2. \A i \in Heard(R)' : Pipe(R)'[i].type = "BlockAckEOF" /\ Pipe(R)'[i].n = sess[S].lastBlock
      BY <1>0, <2>4, <2>8, PeerFacts DEF Numbered
    <3>3. ~Unanswered'
      BY <2>7, <2>10, PeerFacts DEF Unanswered
    <3>4. sess'[R].bytes <= cursor'[R]
                 + (IF sess'[R].out = "BlockReceived" THEN sess'[R].msg.len ELSE 0)
      BY <1>0, <1>1, <2>7, PeerFacts DEF TypeOK
    <3> QED
      BY <2>4, <2>6, <2>7, <2>10, <2>11, <3>1, <3>2, <3>3, <3>4, PeerFacts DEF Numbered, Queries
  <2> QED
    BY <1>0, <1>1, <2>12, <2>13, <2>14, <2>15 DEF CalmInv
<1> QED
  BY <1>4, <1>5

(* PollEnd: in a calm transfer only the sender is told an end, and it is   *)
(* success; both sides have then come to rest.                             *)
LEMMA CalmPollEnd ==
    ASSUME TurnInv, TurnInv', CalmInv, ~disturbed, NEW r \in Roles, PollEnd(r) \/ EndRejected(r)
    PROVE  CalmInv'
<1> DEFINE R == "Receiver"
           S == "Sender"
<1>0. /\ TypeOK /\ TypeOK' /\ ~released /\ \A x \in Roles : OutputFits(x) /\ Unhurt(x)
      /\ sess[r] \in Sessions
  BY DEF TurnInv, CalmInv, TypeOK
<1>1. sess[r].out = "AckEOFReceived" /\ Tell(r, "success") /\ released' = released
  BY <1>0 DEF PollEnd, EndRejected, Unhurt, Book
<1>2. /\ r = S /\ sess[S].state = "TransferDone" /\ app[R] = "success"
      /\ sess[R].state = "Unitialized" /\ sess[R].out = "None"
  BY <1>0, <1>1, PeerFacts DEF OutputFits, Unhurt
<1>3. \A x \in Roles : Silent(x)
  BY <1>2, AllHeard
<1>4. /\ chan' = chan /\ sess'[S] = Reset(sess[S]) /\ sess'[R] = sess[R]
      /\ app'[S] = "success" /\ app'[R] = app[R]
  BY <1>0, <1>1, <1>2, PeerFacts DEF Tell, TypeOK
<1>5. sess'[S].out = "None" /\ sess'[S].state = "Unitialized" /\ ~sess'[S].awaiting
      /\ sess'[S].length = 0 /\ sess'[S].bytes = 0
  BY <1>4 DEF Reset, Blank
<1>6. \A x \in Roles : Pipe(x)' = Pipe(x) /\ \A i \in Heard(x)' : FALSE
  BY <1>1, <1>2, <1>3, <1>4, <1>5 DEF Pipe, Heard, Silent, Roles, Peer
<1>7. \A x \in Roles : /\ ~HasTurn(x)' /\ ~InTransfer(x)' /\ ~Early(x)' /\ ~Responding(x)'
                       /\ ~Waits(x)' /\ ~TurnOnItsWay(x)' /\ \A T : ~Said(x, T)'
  BY <1>2, <1>4, <1>5, <1>6
     DEF HasTurn, InTransfer, Early, Responding, Waits, TurnOnItsWay, Said, Roles
<1>8. \A x \in Roles : Unhurt(x)'
  BY <1>0, <1>2, <1>4, <1>5, <1>7 DEF Unhurt, Roles
<1>9. \A x \in Roles : Introduced(x)'
  <2>1. sess[R].length \in Lengths
    BY PeerFacts DEF CalmInv, Introduced
  <2>2. \A x \in Roles : sess'[x].length \in Lengths /\ sess'[x].state = "Unitialized"
    BY <1>2, <1>4, <1>5, <2>1 DEF Roles, Lengths
  <2> QED
    BY <1>6, <1>7, <2>2 DEF Introduced
<1>10. InStep'
  BY <1>2, <1>4, <1>6, <1>7, PeerFacts DEF InStep, Moves
<1>11. Numbered'
  <2>1. sess[R].bytes <= cursor[R] + (IF sess[R].out = "BlockReceived" THEN sess[R].msg.len ELSE 0)
    BY DEF CalmInv, Numbered
  <2>2. cursor' = cursor
    BY DEF PollEnd, EndRejected, Data
  <2> QED
    BY <1>2, <1>4, <1>6, <1>7, <2>1, <2>2, PeerFacts DEF Numbered, Unanswered
<1> QED
  BY <1>0, <1>1, <1>8, <1>9, <1>10, <1>11 DEF CalmInv

(* In a calm transfer, what is awaited is under way: somebody has          *)
(* something to hear, to poll or to do.  So no timer runs out that did not *)
(* run too fast.                                                           *)
LEMMA CalmUnderway ==
    ASSUME TurnInv, CalmInv, ~disturbed, NEW r \in Roles, sess[r].awaiting
    PROVE  Underway
<1>0. /\ TypeOK /\ InStep
      /\ \A x \in Roles : OutputFits(x) /\ Unhurt(x) /\ Introduced(x) /\ sess[x].state \in States
  BY DEF TurnInv, CalmInv, TypeOK, Sessions
<1> SUFFICES ASSUME ~Underway
             PROVE  FALSE
  OBVIOUS
<1>1. \A x \in Roles : /\ chan[x] = <<>> /\ sess[x].out = "None"
                       /\ CanAbort(sess[x]) => sess[x].awaiting
  BY DEF Underway
<1>2. \A x \in Roles : \A i \in Heard(x) : FALSE
  <2>1. \A x \in Roles : Pipe(x) = <<>>
    BY <1>1, Sides DEF Pipe
  <2> QED
    BY <2>1 DEF Heard
<1>3. \A x \in Roles : ~HasTurn(x) /\ ~Responding(x) /\ ~Moves(x) /\ \A T : ~Said(x, T)
  BY <1>0, <1>1, <1>2 DEF HasTurn, Responding, Moves, TurnOnItsWay, Said, CanAbort, OutputFits
<1>4. ~InTransfer(r) /\ ~Waits(r)
  BY <1>0, <1>3, Sides, PeerFacts DEF InStep, Introduced
<1> QED
  BY <1>0, <1>1, <1>3, <1>4 DEF States, InTransfer, Waits, Unhurt, OutputFits, Responding

(* The side that has the turn says something.  What is left to show is     *)
(* that the counters fit.                                                  *)
LEMMA CalmSays ==
    ASSUME TurnInv, CalmInv, ~disturbed, ~disturbed', Numbered',
           NEW r \in Roles, NEW t \in Sessions, sess' = [sess EXCEPT ![r] = t],
           UNCHANGED <<chan, app, released>>,
           HasTurn(r), sess[r].out = "None", t.mode = sess[r].mode, t.out = "MsgToSend",
           t.length = sess[r].length,
           t.msg.type \in Says(r) \ ({"StatusReport"} \cup Inits \cup Accepts),
           t.state \in {"TransferInProgress", "AwaitingEOFAck", "TransferDone"},
           t.state = "TransferDone" => t.msg.type = "BlockAckEOF",
           \/ PassesTurn(t.msg) /\ t.awaiting
           \/ t.msg.type = "BlockAckEOF" /\ t.state = "TransferDone"
           \/ t.state = "TransferInProgress" /\ ~t.awaiting /\ sess[r].state = "TransferInProgress"
    PROVE  CalmInv'
<1> DEFINE q == Peer(r)
<1>0. /\ TypeOK /\ OneTurn /\ ~released /\ InStep
      /\ \A x \in Roles : Unhurt(x) /\ Introduced(x) /\ OutputFits(x)
      /\ q \in Roles /\ Peer(q) = r /\ q # r /\ \A x \in Roles : x = r \/ x = q
  BY Sides DEF TurnInv, CalmInv
<1>1. /\ sess'[r] = t /\ sess'[q] = sess[q] /\ Pipe(q)' = Pipe(q) /\ Heard(q)' = Heard(q)
      /\ \A i \in Heard(r)' : \/ i \in Heard(r) /\ Pipe(r)'[i] = Pipe(r)[i]
                              \/ i = Len(Pipe(r)) + 1 /\ Pipe(r)'[i] = t.msg
  <2>1. /\ r \in Roles /\ q = Peer(r) /\ t \in Sessions /\ TypeOK /\ chan' = chan
        /\ sess' = [sess EXCEPT ![r] = t] /\ sess[r].out # "MsgToSend" /\ t.out = "MsgToSend"
    BY <1>0
  <2>2. SaidLast(r, q, t)
    BY <2>1, SaysLast, Zenon
  <2> QED
    BY <2>2 DEF SaidLast
<1>2. /\ Len(Pipe(r)) \in Nat /\ Len(Pipe(r)') = Len(Pipe(r)) + 1
      /\ Len(Pipe(r)) + 1 \in Heard(r)' /\ Pipe(r)'[Len(Pipe(r)) + 1] = t.msg
      /\ \A i \in Heard(r) : /\ i \in Nat \ {0} /\ i <= Len(Pipe(r))
                             /\ i \in Heard(r)' /\ Pipe(r)'[i] = Pipe(r)[i]
  BY <1>0, SaysMore
<1> HIDE DEF q
<1>3. \A m : PassesTurn(m)' <=> PassesTurn(m)
  BY <1>0, <1>1, PeerFacts DEF PassesTurn
<1>4. /\ ~HasTurn(q) /\ \A x \in Roles : \A i \in Heard(x) : ~PassesTurn(Pipe(x)[i])
  BY <1>0 DEF OneTurn, TurnOnItsWay, q
<1>5. Silent(q) /\ Silent(q)' /\ ~Waits(r) /\ ~Responding(r) /\ InTransfer(r)
  BY <1>0, <1>1 DEF InStep, Moves, Silent, Waits, Responding, HasTurn, InTransfer, q
<1>6. ~Responding(q) /\ ~Responding(q)' /\ (Waits(q)' <=> Waits(q)) /\ (Transfers(q)' <=> Transfers(q))
      /\ (Early(q)' <=> Early(q)) /\ (HasTurn(q)' <=> HasTurn(q))
      /\ sess[q].state \notin {"NegotiateTransferParams", "AwaitingInitMsg"}
  BY <1>0, <1>1, <1>5 DEF Introduced, Responding, Waits, Transfers, Early, HasTurn
<1>7. /\ ~Early(r)' /\ ~Waits(r)' /\ ~Responding(r)'
      /\ t.state # "NegotiateTransferParams" /\ t.state # "ReceivedEOF" /\ t.state # "ErrorState"
  BY <1>1 DEF Early, Waits, Responding
<1>8. \A x \in Roles : Unhurt(x)'
  <2>1. Unhurt(q)'
    BY <1>0, <1>1 DEF Unhurt, Said
  <2>2. Unhurt(r)'
    BY <1>0, <1>1, <1>7 DEF Unhurt, Said
  <2> QED
    BY <1>0, <2>1, <2>2
<1>9. Said(r, Accepts) => Said(r, Accepts)'
  BY <1>2 DEF Said
<1>10. Introduced(q)'
  BY <1>0, <1>1, <1>5, <1>6, <1>7, <1>9 DEF Introduced, Silent, Zeroed
<1>11. Introduced(r)'
  <2>1. sess[r].length \in Lengths
    BY <1>0 DEF Introduced
  <2>2. ASSUME NEW i \in Heard(r)', Pipe(r)'[i].type \in Inits \cup Accepts
        PROVE  /\ Pipe(r)'[i].len \in Lengths /\ Pipe(r)'[i].type \notin Inits
               /\ Said(r, Accepts) /\ Waits(q) /\ Pipe(r)'[i].modes = sess[q].supported
               /\ ~PassesTurn(Pipe(r)[i])'
    <3>1. i \in Heard(r) /\ Pipe(r)'[i] = Pipe(r)[i]
      BY <1>1, <2>2
    <3> QED
      BY <1>0, <1>3, <1>4, <1>6, <2>2, <3>1 DEF Introduced, Said, q
  <2>3. Said(r, Accepts) => t.state # "TransferDone"
    <3>1. SUFFICES ASSUME Said(r, Accepts), t.msg.type = "BlockAckEOF"
                   PROVE  FALSE
      OBVIOUS
    <3>2. Waits(q) /\ r = "Receiver" /\ q = "Sender"
      BY <1>0, <3>1 DEF Introduced, Said, q, Says, Blocks, Roles, Peer
    <3>3. Said("Receiver", {"BlockAckEOF"})'
      BY <1>2, <3>1, <3>2 DEF Said
    <3>4. sess'["Sender"].state = "AwaitingEOFAck"
      BY <3>3 DEF Numbered, Said
    <3> QED
      BY <1>1, <3>2, <3>4 DEF Waits
  <2>4. Said(r, Accepts) => InTransfer(r)'
    BY <1>1, <2>3 DEF InTransfer
  <2> QED
    BY <1>0, <1>1, <1>6, <1>7, <2>1, <2>2, <2>4 DEF Introduced, q
<1>12. \A x \in Roles : Introduced(x)'
  BY <1>0, <1>10, <1>11
<1>13. InStep'
  <2>1. \A x \in Roles : Moves(x)' => Silent(Peer(x))'
    <3>1. ~HasTurn(q)' /\ ~TurnOnItsWay(q)'
      BY <1>4, <1>5, <1>6 DEF TurnOnItsWay, Silent
    <3> QED
      BY <1>0, <1>5, <3>1 DEF Moves, q
  <2>2. \A x \in Roles : \A i \in Heard(x)' :
            PassesTurn(Pipe(x)[i])' \/ Pipe(x)'[i].type = "BlockAckEOF" => i = Len(Pipe(x)')
    <3>0. \A i \in Heard(r) : Pipe(r)[i].type # "BlockAckEOF"
      <4>1. \A x \in Roles : \A i \in Heard(x) : Pipe(x)[i].type = "BlockAckEOF" => x = "Receiver"
        BY <1>0 DEF OutputFits, Says, Blocks, Roles
      <4>2. ~Said("Receiver", {"BlockAckEOF"})
        BY OnlyLastAck DEF HasTurn, Roles
      <4> QED
        BY <4>1, <4>2 DEF Said
    <3>1. \A i \in Heard(r)' :
              PassesTurn(Pipe(r)[i])' \/ Pipe(r)'[i].type = "BlockAckEOF" => i = Len(Pipe(r)')
      BY <1>0, <1>1, <1>2, <1>3, <1>4, <3>0
    <3> QED
      BY <1>0, <1>5, <3>1 DEF Silent
  <2>3. Moves(r)' \/ Said("Receiver", {"BlockAckEOF"})'
    <3>1. CASE PassesTurn(t.msg)
      BY <1>2, <1>3, <3>1 DEF Moves, TurnOnItsWay
    <3>2. CASE t.msg.type = "BlockAckEOF"
      <4>1. r = "Receiver"
        BY <3>2 DEF Says, Blocks, Roles
      <4> QED
        BY <1>2, <3>2, <4>1 DEF Said
    <3>3. CASE t.state = "TransferInProgress" /\ ~t.awaiting
      BY <1>1, <3>3 DEF Moves, HasTurn
    <3> QED
      BY <3>1, <3>2, <3>3
  <2>4. \A x \in Roles : HasTurn(x)' /\ Transfers(x)' => Transfers(Peer(x))' \/ Said(x, Accepts)'
    <3>1. HasTurn(r)' => ~t.awaiting /\ t.state = "TransferInProgress" /\ Transfers(r)
      BY <1>1 DEF HasTurn, Transfers
    <3> QED
      BY <1>0, <1>4, <1>6, <1>9, <3>1 DEF InStep, q
  <2>5. sess'["Receiver"].state = "ReceivedEOF" => sess'["Sender"].state = "AwaitingEOFAck"
    <3>1. CASE r = "Receiver"
      BY <1>1, <1>7, <3>1
    <3>2. CASE r = "Sender"
      <4>1. sess["Receiver"].state # "ReceivedEOF"
        BY <1>4, <3>2, PeerFacts DEF HasTurn, q
      <4> QED
        BY <1>1, <3>2, <4>1, PeerFacts DEF q
    <3> QED
      BY <3>1, <3>2 DEF Roles
  <2> QED
    BY <2>1, <2>2, <2>3, <2>4, <2>5 DEF InStep
<1> QED
  BY <1>0, <1>8, <1>12, <1>13 DEF CalmInv

(* The session that PrepareBlock leaves.                                   *)
BlockReady(s, t, len, eof) ==
    /\ t \in Sessions /\ t.mode = s.mode /\ t.length = s.length
    /\ t.state = (IF eof THEN "AwaitingEOFAck" ELSE s.state)
    /\ t.awaiting /\ t.out = "MsgToSend"
    /\ t.lastBlock = s.nextBlock /\ t.nextBlock = s.nextBlock + 1
    /\ t.msg.type = (IF eof THEN "BlockEOF" ELSE "Block")
    /\ t.msg.n = s.nextBlock /\ t.msg.len = len

(* PrepareBlock prepares the next block and awaits an answer.              *)
LEMMA BlockFacts ==
    ASSUME NEW s \in Sessions, NEW data \in Nat, NEW len \in Nat, NEW eof \in BOOLEAN
    PROVE  BlockReady(s, PrepareBlock(s, data, len, eof), len, eof)
<1> DEFINE st == IF eof THEN "AwaitingEOFAck" ELSE s.state
           u == [s EXCEPT !.state = st, !.awaiting = TRUE,
                          !.lastBlock = s.nextBlock, !.nextBlock = @ + 1]
           ty == IF eof THEN "BlockEOF" ELSE "Block"
           m == Msg(ty, s.nextBlock, data, len, {})
<1>1. s.nextBlock \in Nat /\ s.nextBlock + 1 \in Nat /\ st \in States /\ ty \in MsgTypes
  BY DEF Sessions, States, MsgTypes
<1>2. PrepareBlock(s, data, len, eof) = PrepareOutgoing(u, m)
  BY DEF PrepareBlock
<1> HIDE DEF st, ty
<1>3. m \in Messages /\ m.type = ty /\ m.n = s.nextBlock /\ m.len = len
  BY <1>1 DEF Msg, Messages
<1>4. /\ u \in Sessions /\ u.mode = s.mode /\ u.length = s.length /\ u.state = st /\ u.awaiting
      /\ u.lastBlock = s.nextBlock /\ u.nextBlock = s.nextBlock + 1
  BY <1>1 DEF Sessions
<1> HIDE DEF u, m
<1>5. LET t == PrepareOutgoing(u, m)
      IN  /\ t \in Sessions /\ t.mode = u.mode /\ t.length = u.length /\ t.state = u.state
          /\ t.awaiting = u.awaiting /\ t.out = "MsgToSend" /\ t.msg = m
          /\ t.lastBlock = u.lastBlock /\ t.nextBlock = u.nextBlock
  BY <1>3, <1>4 DEF PrepareOutgoing, Sessions, Outputs
<1> QED
  BY <1>2, <1>3, <1>4, <1>5 DEF st, ty, BlockReady

(* The session that PrepareBlockQuery leaves.                              *)
LEMMA QueryFacts ==
    ASSUME NEW s \in Sessions, NEW skip \in Nat
    PROVE  LET t == PrepareBlockQuery(s, skip)
           IN  /\ t \in Sessions /\ t.mode = s.mode /\ t.length = s.length /\ t.state = s.state
               /\ t.awaiting /\ t.out = "MsgToSend" /\ t.bytes = s.bytes
               /\ t.lastBlock = s.lastBlock
               /\ t.lastQuery = s.nextQuery /\ t.nextQuery = s.nextQuery + 1
               /\ t.msg.type \in Queries /\ t.msg.n = s.nextQuery
<1> DEFINE u == [s EXCEPT !.awaiting = TRUE, !.lastQuery = s.nextQuery, !.nextQuery = @ + 1]
           ty == IF skip = 0 THEN "BlockQuery" ELSE "BlockQueryWithSkip"
           m == Msg(ty, s.nextQuery, 0, skip, {})
<1>1. s.nextQuery \in Nat /\ s.nextQuery + 1 \in Nat /\ ty \in MsgTypes /\ ty \in Queries
  BY DEF Sessions, MsgTypes, Queries
<1>2. PrepareBlockQuery(s, skip) = PrepareOutgoing(u, m)
  BY DEF PrepareBlockQuery
<1> HIDE DEF ty
<1>3. m \in Messages /\ m.type = ty /\ m.n = s.nextQuery
  BY <1>1 DEF Msg, Messages
<1>4. /\ u \in Sessions /\ u.mode = s.mode /\ u.length = s.length /\ u.state = s.state /\ u.awaiting
      /\ u.bytes = s.bytes /\ u.lastBlock = s.lastBlock
      /\ u.lastQuery = s.nextQuery /\ u.nextQuery = s.nextQuery + 1
  BY <1>1 DEF Sessions
<1> HIDE DEF u, m
<1>5. LET t == PrepareOutgoing(u, m)
      IN  /\ t \in Sessions /\ t.mode = u.mode /\ t.length = u.length /\ t.state = u.state
          /\ t.awaiting = u.awaiting /\ t.out = "MsgToSend" /\ t.msg = m /\ t.bytes = u.bytes
          /\ t.lastBlock = u.lastBlock /\ t.lastQuery = u.lastQuery /\ t.nextQuery = u.nextQuery
  BY <1>3, <1>4 DEF PrepareOutgoing, Sessions, Outputs
<1> QED
  BY <1>1, <1>2, <1>3, <1>4, <1>5

(* The session that PrepareBlockAck leaves.                                *)
LEMMA AckFacts ==
    ASSUME NEW s \in Sessions
    PROVE  LET t == PrepareBlockAck(s)
               eof == s.state = "ReceivedEOF"
           IN  /\ t \in Sessions /\ t.mode = s.mode /\ t.length = s.length /\ t.bytes = s.bytes
               /\ t.state = (IF eof THEN "TransferDone" ELSE s.state)
               /\ t.out = "MsgToSend" /\ t.nextQuery = s.nextQuery /\ t.lastBlock = s.lastBlock
               /\ t.msg.type = (IF eof THEN "BlockAckEOF" ELSE "BlockAck") /\ t.msg.n = s.lastBlock
               /\ ~eof /\ s.mode = "SenderDrive" => t.awaiting /\ t.lastQuery = s.lastBlock + 1
               /\ ~eof /\ s.mode # "SenderDrive" => t.awaiting = s.awaiting
<1> DEFINE eof == s.state = "ReceivedEOF"
           u == IF eof THEN [s EXCEPT !.state = "TransferDone", !.awaiting = FALSE]
                ELSE IF s.mode = "SenderDrive"
                THEN [s EXCEPT !.lastQuery = s.lastBlock + 1, !.awaiting = TRUE]
                ELSE s
           ty == IF eof THEN "BlockAckEOF" ELSE "BlockAck"
           m == Counter(ty, s.lastBlock)
<1>1. s.lastBlock \in Nat /\ s.lastBlock + 1 \in Nat /\ ty \in MsgTypes
  BY DEF Sessions, MsgTypes
<1>2. PrepareBlockAck(s) = PrepareOutgoing(u, m)
  BY DEF PrepareBlockAck
<1>3. m \in Messages /\ m.type = ty /\ m.n = s.lastBlock
  <2> HIDE DEF ty
  <2> QED
    BY <1>1 DEF Msg, Counter, Messages
<1>4. /\ u \in Sessions /\ u.mode = s.mode /\ u.length = s.length /\ u.bytes = s.bytes
      /\ u.state = (IF eof THEN "TransferDone" ELSE s.state)
      /\ u.nextQuery = s.nextQuery /\ u.lastBlock = s.lastBlock
      /\ ~eof /\ s.mode = "SenderDrive" => u.awaiting /\ u.lastQuery = s.lastBlock + 1
      /\ ~eof /\ s.mode # "SenderDrive" => u.awaiting = s.awaiting
  <2>1. CASE eof
    BY <1>1, <2>1 DEF Sessions, States
  <2>2. CASE ~eof /\ s.mode = "SenderDrive"
    BY <1>1, <2>2 DEF Sessions, States
  <2>3. CASE ~eof /\ s.mode # "SenderDrive"
    BY <2>3
  <2> QED
    BY <2>1, <2>2, <2>3
<1> HIDE DEF u, m
<1>5. LET t == PrepareOutgoing(u, m)
      IN  /\ t \in Sessions /\ t.mode = u.mode /\ t.length = u.length /\ t.state = u.state
          /\ t.awaiting = u.awaiting /\ t.out = "MsgToSend" /\ t.msg = m /\ t.bytes = u.bytes
          /\ t.lastBlock = u.lastBlock /\ t.lastQuery = u.lastQuery /\ t.nextQuery = u.nextQuery
  BY <1>3, <1>4 DEF PrepareOutgoing, Sessions, Outputs
<1> QED
  BY <1>2, <1>3, <1>4, <1>5

(* SendBlock: the block has the number that the receiver asked for.        *)
LEMMA CalmSendBlock ==
    ASSUME TurnInv, CalmInv, ~disturbed, SendBlock
    PROVE  CalmInv'
<1> DEFINE S == "Sender"
           R == "Receiver"
           c == cursor[S]
           len == IF c < FileLen THEN 1 ELSE 0
<1>0. /\ TypeOK /\ InStep /\ Numbered /\ OutputFits(R) /\ sess[S] \in Sessions /\ sess[R] \in Sessions
      /\ S \in Roles /\ R \in Roles /\ Peer(S) = R /\ Peer(R) = S
  BY PeerFacts DEF TurnInv, CalmInv, TypeOK
<1>1. PICK eof \in BOOLEAN :
          /\ c >= FileLen => eof
          /\ sess' = [sess EXCEPT ![S] = PrepareBlock(@, c, len, eof)]
  BY DEF SendBlock
<1>2. /\ sess[S].state = "TransferInProgress" /\ sess[S].out = "None" /\ ~sess[S].awaiting
      /\ UNCHANGED <<chan, app, fresh, disturbed, released>> /\ cursor'[R] = cursor[R]
  BY <1>0 DEF SendBlock, MyTurn, Calm, Book, TypeOK
<1>3. HasTurn(S) /\ Transfers(S)
  BY <1>2 DEF HasTurn, Transfers
<1>4. /\ ~HasTurn(R) /\ c \in 0 .. FileLen /\ FileLen \in Nat
      /\ \A x \in Roles : \A i \in Heard(x) :
             ~PassesTurn(Pipe(x)[i]) /\ Pipe(x)[i].type \notin Blocks \cup Queries
  BY <1>0, <1>2, <1>3, TurnFacts
<1> DEFINE t == PrepareBlock(sess[S], c, len, eof)
<1>5. /\ t \in Sessions /\ t.mode = sess[S].mode /\ t.length = sess[S].length
      /\ t.state = (IF eof THEN "AwaitingEOFAck" ELSE "TransferInProgress")
      /\ t.awaiting /\ t.out = "MsgToSend"
      /\ t.lastBlock = sess[S].nextBlock /\ t.nextBlock = sess[S].nextBlock + 1
      /\ t.msg.type = (IF eof THEN "BlockEOF" ELSE "Block")
      /\ t.msg.n = sess[S].nextBlock /\ t.msg.len = len
  <2>1. c \in Nat /\ len \in Nat
    BY <1>4
  <2> HIDE DEF c, len
  <2>2. BlockReady(sess[S], t, len, eof)
    BY <1>0, <2>1, BlockFacts, Zenon
  <2> HIDE DEF t
  <2> QED
    BY <1>2, <2>2 DEF BlockReady
<1>6. sess' = [sess EXCEPT ![S] = t] /\ (~eof => len = 1) /\ sess[S].nextBlock \in Nat
  BY <1>0, <1>1, <1>4 DEF Sessions
<1> HIDE DEF t, len, c
<1>7. /\ sess'[S] = t /\ sess'[R] = sess[R] /\ Pipe(R)' = Pipe(R) /\ Heard(R)' = Heard(R)
      /\ \A i \in Heard(S)' : \/ i \in Heard(S) /\ Pipe(S)'[i] = Pipe(S)[i]
                              \/ i = Len(Pipe(S)) + 1 /\ Pipe(S)'[i] = t.msg
  <2>1. /\ S \in Roles /\ R = Peer(S) /\ t \in Sessions /\ TypeOK /\ chan' = chan
        /\ sess' = [sess EXCEPT ![S] = t] /\ sess[S].out # "MsgToSend" /\ t.out = "MsgToSend"
    BY <1>0, <1>2, <1>5, <1>6
  <2>2. SaidLast(S, R, t)
    BY <2>1, SaysLast, Zenon
  <2> QED
    BY <2>2 DEF SaidLast
<1>8. /\ Len(Pipe(S)) \in Nat
      /\ \A i \in Heard(S) : /\ i \in Nat \ {0} /\ i <= Len(Pipe(S))
                             /\ i \in Heard(S)' /\ Pipe(S)'[i] = Pipe(S)[i]
  BY <1>0, <1>2, <1>5, <1>6, SaysMore
<1>9. Silent(R) /\ \A i \in Heard(R)' : FALSE
  BY <1>0, <1>3, <1>7 DEF InStep, Moves, Silent
<1>10. /\ ~HasTurn(S)' /\ ~HasTurn(R)' /\ ~Waits(S)' /\ ~TurnOnItsWay(R)' /\ ~Unanswered'
       /\ (Transfers(R)' <=> Transfers(R))
  <2>1. ~HasTurn(S)' /\ ~HasTurn(R)' /\ ~Waits(S)' /\ (Transfers(R)' <=> Transfers(R))
    BY <1>4, <1>5, <1>7 DEF HasTurn, Waits, Transfers
  <2>2. sess[R].out # "BlockReceived"
    BY <1>0, <1>4 DEF OutputFits
  <2> QED
    BY <1>7, <1>9, <2>1, <2>2 DEF TurnOnItsWay, Unanswered
<1>11. ASSUME NEW i, i = Len(Pipe(S)) + 1
       PROVE  Ready(S, i)'
  <2>1. Transfers(R) \/ Said(S, Accepts)
    BY <1>0, <1>3 DEF InStep
  <2>2. CASE Transfers(R)
    BY <1>0, <1>10, <2>2 DEF Ready
  <2>3. CASE Said(S, Accepts)
    <3>1. PICK j \in Heard(S) : Pipe(S)[j].type \in Accepts
      BY <2>3 DEF Said
    <3>2. j \in Heard(S)' /\ Pipe(S)'[j].type \in Accepts /\ j < i
      BY <1>8, <1>11, <3>1
    <3> QED
      BY <3>2 DEF Ready
  <2> QED
    BY <2>1, <2>2, <2>3
<1>12. sess[R].lastQuery = sess[S].nextBlock
       /\ (sess[S].mode = "ReceiverDrive" => sess[R].nextQuery = sess[S].nextBlock + 1)
       /\ sess[R].bytes <= cursor[R] + (IF sess[R].out = "BlockReceived" THEN sess[R].msg.len ELSE 0)
  BY <1>0, <1>3 DEF Numbered
<1>13. ASSUME NEW i \in Heard(S)'
       PROVE  LET m == Pipe(S)'[i]
              IN  /\ m.type \in Blocks =>
                         /\ Ready(S, i)'
                         /\ m.n = sess'[R].lastQuery /\ m.n = sess'[S].lastBlock
                         /\ m.n + 1 = sess'[S].nextBlock
                  /\ m.type = "Block" => Transfers(S)' /\ m.len = 1
                  /\ m.type = "BlockEOF" => sess'[S].state = "AwaitingEOFAck"
  <2>1. CASE i \in Heard(S) /\ Pipe(S)'[i] = Pipe(S)[i]
    BY <1>0, <1>4, <2>1 DEF Blocks
  <2>2. CASE i = Len(Pipe(S)) + 1 /\ Pipe(S)'[i] = t.msg
    BY <1>5, <1>6, <1>7, <1>11, <1>12, <2>2 DEF Transfers
  <2> QED
    BY <1>7, <2>1, <2>2
<1>14. Numbered'
  BY <1>2, <1>5, <1>7, <1>9, <1>10, <1>12, <1>13 DEF Numbered
<1>15. PassesTurn(t.msg) /\ t.msg.type \in Says(S) \ ({"StatusReport"} \cup Inits \cup Accepts)
  BY <1>5 DEF PassesTurn, Blocks, Says, Inits, Accepts
<1> QED
  BY <1>0, <1>2, <1>3, <1>5, <1>6, <1>14, <1>15, CalmSays

(* SendQuery: the query has the number of the sender's next block.         *)
LEMMA CalmSendQuery ==
    ASSUME TurnInv, CalmInv, ~disturbed, SendQuery
    PROVE  CalmInv'
<1> DEFINE S == "Sender"
           R == "Receiver"
<1>0. /\ TypeOK /\ InStep /\ Numbered /\ SameDrive /\ OutputFits(R)
      /\ sess[S] \in Sessions /\ sess[R] \in Sessions /\ cursor[R] \in 0 .. FileLen
      /\ Introduced(R) /\ S \in Roles /\ R \in Roles /\ Peer(S) = R /\ Peer(R) = S
  BY PeerFacts DEF TurnInv, CalmInv, TypeOK
<1>1. PICK skip \in 0 .. MaxSkip :
          /\ sess' = [sess EXCEPT ![R] = PrepareBlockQuery(@, skip)]
          /\ cursor' = [cursor EXCEPT ![R] = Least(FileLen, cursor[R] + skip)]
  BY DEF SendQuery
<1>2. /\ sess[R].state = "TransferInProgress" /\ sess[R].out = "None" /\ ~sess[R].awaiting
      /\ sess[R].mode = "ReceiverDrive" /\ fresh' = FALSE
      /\ UNCHANGED <<chan, app, disturbed, released>>
  BY DEF SendQuery, MyTurn, Calm, Book
<1>3. HasTurn(R) /\ Transfers(R)
  BY <1>2 DEF HasTurn, Transfers
<1>4. /\ ~HasTurn(S) /\ \A x \in Roles : \A i \in Heard(x) :
             ~PassesTurn(Pipe(x)[i]) /\ Pipe(x)[i].type \notin Blocks \cup Queries
  BY <1>0, <1>2, <1>3, TurnFacts
<1> DEFINE t == PrepareBlockQuery(sess[R], skip)
<1>5. /\ t \in Sessions /\ t.mode = sess[R].mode /\ t.length = sess[R].length
      /\ t.state = "TransferInProgress" /\ t.awaiting /\ t.out = "MsgToSend" /\ t.bytes = sess[R].bytes
      /\ t.lastBlock = sess[R].lastBlock
      /\ t.lastQuery = sess[R].nextQuery /\ t.nextQuery = sess[R].nextQuery + 1
      /\ t.msg.type \in Queries /\ t.msg.n = sess[R].nextQuery
  <2>1. skip \in Nat
    BY BoundsAssumption
  <2> QED
    BY <1>0, <1>2, <2>1, QueryFacts
<1>6. /\ sess' = [sess EXCEPT ![R] = t] /\ cursor[R] <= cursor'[R]
      /\ cursor[R] \in Nat /\ cursor'[R] \in Nat /\ sess[R].bytes \in Nat
  <2>1. Least(FileLen, cursor[R] + skip) >= cursor[R] /\ Least(FileLen, cursor[R] + skip) \in Nat
    BY <1>0, FileLenAssumption, BoundsAssumption DEF Least
  <2>2. cursor'[R] = Least(FileLen, cursor[R] + skip)
    BY <1>0, <1>1 DEF TypeOK
  <2> QED
    BY <1>0, <1>1, <2>1, <2>2, FileLenAssumption DEF Sessions
<1> HIDE DEF t
<1>7. /\ sess'[R] = t /\ sess'[S] = sess[S] /\ Pipe(S)' = Pipe(S) /\ Heard(S)' = Heard(S)
      /\ \A i \in Heard(R)' : \/ i \in Heard(R) /\ Pipe(R)'[i] = Pipe(R)[i]
                              \/ i = Len(Pipe(R)) + 1 /\ Pipe(R)'[i] = t.msg
  <2>1. /\ R \in Roles /\ S = Peer(R) /\ t \in Sessions /\ TypeOK /\ chan' = chan
        /\ sess' = [sess EXCEPT ![R] = t] /\ sess[R].out # "MsgToSend" /\ t.out = "MsgToSend"
    BY <1>0, <1>2, <1>5, <1>6
  <2>2. SaidLast(R, S, t)
    BY <2>1, SaysLast, Zenon
  <2> QED
    BY <2>2 DEF SaidLast
<1>8. /\ Len(Pipe(R)) \in Nat /\ Len(Pipe(R)) + 1 \in Heard(R)' /\ Pipe(R)'[Len(Pipe(R)) + 1] = t.msg
      /\ \A i \in Heard(R) : /\ i \in Nat \ {0} /\ i <= Len(Pipe(R))
                             /\ i \in Heard(R)' /\ Pipe(R)'[i] = Pipe(R)[i]
  BY <1>0, <1>2, <1>5, <1>6, SaysMore
<1>9. Silent(S) /\ \A i \in Heard(S)' : FALSE
  BY <1>0, <1>3, <1>7 DEF InStep, Moves, Silent
<1>10. /\ ~HasTurn(S)' /\ ~HasTurn(R)' /\ ~TurnOnItsWay(S)' /\ ~Unanswered'
       /\ (Transfers(S)' <=> Transfers(S)) /\ Transfers(R)'
  <2>1. ~HasTurn(S)' /\ ~HasTurn(R)' /\ (Transfers(S)' <=> Transfers(S)) /\ Transfers(R)'
    BY <1>4, <1>5, <1>7 DEF HasTurn, Transfers
  <2> QED
    BY <1>5, <1>7, <1>9, <2>1 DEF TurnOnItsWay, Unanswered
<1>11. ASSUME NEW i, i = Len(Pipe(R)) + 1
       PROVE  Ready(R, i)'
  <2>1. Transfers(S) \/ Said(R, Accepts)
    BY <1>0, <1>3 DEF InStep
  <2>2. CASE Transfers(S)
    BY <1>0, <1>10, <2>2 DEF Ready
  <2>3. CASE Said(R, Accepts)
    <3>1. PICK j \in Heard(R) : Pipe(R)[j].type \in Accepts
      BY <2>3 DEF Said
    <3>2. j \in Heard(R)' /\ Pipe(R)'[j].type \in Accepts /\ j < i
      BY <1>8, <1>11, <3>1
    <3> QED
      BY <3>2 DEF Ready
  <2> QED
    BY <2>1, <2>2, <2>3
<1>12. sess[R].nextQuery = sess[S].nextBlock
  <2>1. CASE Transfers(S)
    <3>1. sess[S].mode = "ReceiverDrive"
      BY <1>0, <1>2, <2>1 DEF SameDrive, InTransfer, Transfers
    <3> QED
      BY <1>0, <1>3, <3>1 DEF Numbered
  <2>2. CASE Said(R, Accepts)
    BY <1>0, <1>3, <2>2 DEF Numbered, Introduced, Said
  <2> QED
    BY <1>0, <1>3, <2>1, <2>2 DEF InStep
<1>13. t.bytes <= cursor'[R] + (IF t.out = "BlockReceived" THEN t.msg.len ELSE 0)
  <2>1. sess[R].bytes <= cursor[R] + 0
    BY <1>0, <1>2 DEF Numbered
  <2> QED
    BY <1>5, <1>6, <2>1
<1>14. /\ PassesTurn(t.msg) /\ \A m : PassesTurn(m) /\ m.type \in Queries => PassesTurn(m)'
       /\ t.msg.type \in Says(R) \ ({"StatusReport"} \cup Inits \cup Accepts)
  BY <1>5 DEF PassesTurn, Queries, Says, Inits, Accepts
<1>15. TurnOnItsWay(R)' /\ Moves(R)'
  BY <1>5, <1>8, <1>14 DEF TurnOnItsWay, Moves
<1>16. ASSUME NEW i \in Heard(R)'
       PROVE  LET m == Pipe(R)'[i]
              IN  /\ m.type \in Queries => Ready(R, i)' /\ Transfers(R)' /\ m.n = sess'[S].nextBlock
                  /\ m.type = "BlockAck" => /\ Transfers(R)' /\ Transfers(S)' /\ sess'[S].awaiting
                                            /\ Moves(R)' /\ m.n = sess'[S].lastBlock
                  /\ m.type # "BlockAckEOF"
  <2>1. CASE i \in Heard(R) /\ Pipe(R)'[i] = Pipe(R)[i]
    BY <1>0, <1>2, <1>4, <1>7, <1>10, <1>15, <2>1 DEF Numbered
  <2>2. CASE i = Len(Pipe(R)) + 1 /\ Pipe(R)'[i] = t.msg
    BY <1>5, <1>7, <1>10, <1>11, <1>12, <2>2 DEF Queries
  <2> QED
    BY <1>7, <2>1, <2>2
<1>17. Numbered'
  BY <1>5, <1>7, <1>9, <1>10, <1>12, <1>13, <1>16 DEF Numbered
<1> QED
  BY <1>0, <1>2, <1>3, <1>5, <1>6, <1>14, <1>17, CalmSays

(* SendAck: the acknowledgement has the number of the sender's last block, *)
(* and when the sender drives it asks for its next.                        *)
LEMMA CalmSendAck ==
    ASSUME TurnInv, CalmInv, ~disturbed, SendAck
    PROVE  CalmInv'
<1> DEFINE S == "Sender"
           R == "Receiver"
           eof == sess[R].state = "ReceivedEOF"
           drives == sess[R].mode = "SenderDrive"
<1>0. /\ TypeOK /\ InStep /\ Numbered /\ SameDrive /\ OutputFits(R) /\ OutputFits(S)
      /\ sess[S] \in Sessions /\ sess[R] \in Sessions
      /\ S \in Roles /\ R \in Roles /\ Peer(S) = R /\ Peer(R) = S
  BY PeerFacts DEF TurnInv, CalmInv, TypeOK
<1>1. /\ fresh /\ ~fresh' /\ sess' = [sess EXCEPT ![R] = PrepareBlockAck(sess[R])]
      /\ sess[R].state \in {"TransferInProgress", "ReceivedEOF"} /\ sess[R].out = "None"
      /\ UNCHANGED <<chan, app, cursor, disturbed, released>>
  BY DEF SendAck, CanAck, Calm, Book
<1>2. HasTurn(R) /\ Unanswered
  BY <1>0, <1>1 DEF HasTurn, SameDrive, Unanswered
<1>3. /\ ~HasTurn(S) /\ \A x \in Roles : \A i \in Heard(x) :
             ~PassesTurn(Pipe(x)[i]) /\ Pipe(x)[i].type \notin Blocks \cup Queries
  BY <1>0, <1>1, <1>2, TurnFacts
<1>4. /\ Silent(S) /\ Silent(R) /\ sess[R].lastBlock = sess[S].lastBlock
      /\ sess[R].lastBlock + 1 = sess[S].nextBlock
      /\ sess[R].bytes <= cursor[R] + 0
      /\ sess[S].mode = "ReceiverDrive" \/ Waits(S) => sess[R].nextQuery = sess[S].nextBlock
  BY <1>0, <1>1, <1>2 DEF InStep, Moves, Numbered
<1>5. /\ eof => sess[S].state = "AwaitingEOFAck"
      /\ ~eof => sess[S].state = "TransferInProgress" /\ sess[S].awaiting /\ ~sess[R].awaiting
  <2>1. eof => sess[S].state = "AwaitingEOFAck"
    BY <1>0 DEF InStep
  <2>2. ~eof => Transfers(R) /\ ~sess[R].awaiting
    BY <1>1, <1>2 DEF Transfers, HasTurn
  <2>3. ~eof => Transfers(S)
    BY <1>0, <1>2, <1>4, <2>2 DEF InStep, Said, Silent
  <2> QED
    BY <1>3, <2>1, <2>2, <2>3 DEF Transfers, HasTurn
<1> DEFINE t == PrepareBlockAck(sess[R])
<1>6. /\ t \in Sessions /\ t.mode = sess[R].mode /\ t.length = sess[R].length
      /\ t.bytes = sess[R].bytes /\ t.state = (IF eof THEN "TransferDone" ELSE sess[R].state)
      /\ t.out = "MsgToSend" /\ t.nextQuery = sess[R].nextQuery /\ t.lastBlock = sess[R].lastBlock
      /\ t.msg.type = (IF eof THEN "BlockAckEOF" ELSE "BlockAck") /\ t.msg.n = sess[R].lastBlock
      /\ ~eof /\ drives => t.awaiting /\ t.lastQuery = sess[R].lastBlock + 1
      /\ ~eof /\ ~drives => t.awaiting = sess[R].awaiting
  BY <1>0, AckFacts
<1>7. sess' = [sess EXCEPT ![R] = t]
  BY <1>1
<1> HIDE DEF t
<1>8. /\ sess'[R] = t /\ sess'[S] = sess[S] /\ Pipe(S)' = Pipe(S) /\ Heard(S)' = Heard(S)
      /\ \A i \in Heard(R)' : \/ i \in Heard(R) /\ Pipe(R)'[i] = Pipe(R)[i]
                              \/ i = Len(Pipe(R)) + 1 /\ Pipe(R)'[i] = t.msg
  <2>1. /\ R \in Roles /\ S = Peer(R) /\ t \in Sessions /\ TypeOK /\ chan' = chan
        /\ sess' = [sess EXCEPT ![R] = t] /\ sess[R].out # "MsgToSend" /\ t.out = "MsgToSend"
    BY <1>0, <1>1, <1>6, <1>7
  <2>2. SaidLast(R, S, t)
    BY <2>1, SaysLast, Zenon
  <2> QED
    BY <2>2 DEF SaidLast
<1>9. Len(Pipe(R)) + 1 \in Heard(R)' /\ Pipe(R)'[Len(Pipe(R)) + 1] = t.msg
  BY <1>0, <1>1, <1>6, <1>7, SaysMore
<1>10. (\A i \in Heard(S)' : FALSE) /\ \A i \in Heard(R)' : Pipe(R)'[i] = t.msg
  BY <1>4, <1>8 DEF Silent
<1>11. \A m : (PassesTurn(m)' <=> PassesTurn(m))
  BY <1>6, <1>8 DEF PassesTurn
<1>12. /\ PassesTurn(t.msg) <=> ~eof /\ drives
       /\ t.msg.type \in Says(R) \ ({"StatusReport"} \cup Inits \cup Accepts)
  BY <1>6 DEF PassesTurn, Says, Blocks, Queries, Inits, Accepts
<1>13. ~HasTurn(S)' /\ ~TurnOnItsWay(S)' /\ ~Unanswered' /\ (Waits(S)' <=> Waits(S))
  BY <1>1, <1>3, <1>6, <1>8, <1>10 DEF HasTurn, TurnOnItsWay, Unanswered, Waits
<1>14. (TurnOnItsWay(R)' <=> ~eof /\ drives) /\ (HasTurn(R)' => ~eof /\ ~drives)
  <2>1. TurnOnItsWay(R)' <=> ~eof /\ drives
    BY <1>9, <1>10, <1>11, <1>12 DEF TurnOnItsWay
  <2> QED
    BY <1>1, <1>6, <1>8, <2>1 DEF HasTurn
<1>15. ~eof => Transfers(R)' /\ Transfers(S)' /\ sess'[S].awaiting /\ Moves(R)'
  <2>1. ~eof /\ ~drives => HasTurn(R)'
    BY <1>1, <1>5, <1>6, <1>8 DEF HasTurn
  <2> QED
    BY <1>1, <1>5, <1>6, <1>8, <1>14, <2>1 DEF Moves, Transfers
<1>16. ASSUME NEW i \in Heard(R)'
       PROVE  LET m == Pipe(R)'[i]
              IN  /\ m.type \notin Queries
                  /\ m.type = "BlockAck" => /\ Transfers(R)' /\ Transfers(S)' /\ sess'[S].awaiting
                                            /\ Moves(R)' /\ m.n = sess'[S].lastBlock
                  /\ m.type = "BlockAckEOF" =>
                         /\ sess'[R].state \in {"TransferDone", "Unitialized"}
                         /\ sess'[S].state = "AwaitingEOFAck" /\ m.n = sess'[S].lastBlock
  BY <1>4, <1>5, <1>6, <1>8, <1>10, <1>15 DEF Queries
<1>17. t.bytes <= cursor'[R] + (IF t.out = "BlockReceived" THEN t.msg.len ELSE 0)
  BY <1>1, <1>4, <1>6
<1>18. Numbered'
  <2>1. HasTurn(S)' \/ TurnOnItsWay(R)' => sess'[R].lastQuery = sess'[S].nextBlock
    BY <1>4, <1>6, <1>8, <1>13, <1>14
  <2>2. ~(HasTurn(S)' /\ sess'[S].mode = "ReceiverDrive")
        /\ ~(TurnOnItsWay(R)' /\ sess'[R].mode = "ReceiverDrive")
    BY <1>6, <1>8, <1>13, <1>14
  <2>3. (HasTurn(R)' \/ TurnOnItsWay(S)') /\ (sess'[S].mode = "ReceiverDrive" \/ Waits(S)') =>
            sess'[R].nextQuery = sess'[S].nextBlock
    BY <1>4, <1>6, <1>8, <1>13
  <2> QED
    BY <1>8, <1>10, <1>13, <1>16, <1>17, <2>1, <2>2, <2>3 DEF Numbered
<1>19. \/ PassesTurn(t.msg) /\ t.awaiting
       \/ t.msg.type = "BlockAckEOF" /\ t.state = "TransferDone"
       \/ t.state = "TransferInProgress" /\ ~t.awaiting /\ sess[R].state = "TransferInProgress"
  BY <1>1, <1>5, <1>6, <1>12
<1>20. t.state \in {"TransferInProgress", "AwaitingEOFAck", "TransferDone"}
       /\ (t.state = "TransferDone" => t.msg.type = "BlockAckEOF")
  BY <1>1, <1>6
<1>21. ~disturbed' /\ UNCHANGED <<chan, app, released>>
  BY <1>1
<1> HIDE DEF eof, drives
<1> QED
  BY <1>0, <1>1, <1>2, <1>6, <1>7, <1>12, <1>18, <1>19, <1>20, <1>21, CalmSays

(* AcceptTransfer leaves the counters alone.                               *)
AcceptReady(s, t, len) ==
    /\ t.length \in {s.length, len} /\ t.msg.len \in {0, len}
    /\ t.bytes = s.bytes /\ t.lastBlock = s.lastBlock /\ t.nextBlock = s.nextBlock
    /\ t.lastQuery = s.lastQuery /\ t.nextQuery = s.nextQuery

(* AcceptTransfer changes the length at most.                              *)
LEMMA AcceptCounters ==
    ASSUME NEW s \in Sessions, NEW mode \in Modes, NEW len \in Nat
    PROVE  AcceptReady(s, AcceptTransfer(s, mode, len), len)
<1> DEFINE m == Msg(IF s.role = "Sender" THEN "ReceiveAccept" ELSE "SendAccept",
                    0, 0, IF s.role = "Sender" THEN len ELSE 0, {mode})
           u == IF s.role = "Sender" THEN [s EXCEPT !.length = len] ELSE s
           waits == s.mode = (IF s.role = "Sender" THEN "ReceiverDrive" ELSE "SenderDrive")
           v == [u EXCEPT !.state = "TransferInProgress", !.awaiting = @ \/ waits]
<1>1. m.len \in {0, len}
  BY DEF Msg
<1>2. /\ u \in Sessions /\ u.length \in {s.length, len} /\ u.awaiting = s.awaiting
      /\ u.bytes = s.bytes /\ u.lastBlock = s.lastBlock /\ u.nextBlock = s.nextBlock
      /\ u.lastQuery = s.lastQuery /\ u.nextQuery = s.nextQuery
  BY DEF Sessions
<1>3. (u.awaiting \/ waits) \in BOOLEAN
  OBVIOUS
<1> HIDE DEF u, m, waits
<1>4. /\ v \in Sessions /\ v.length = u.length
      /\ v.bytes = u.bytes /\ v.lastBlock = u.lastBlock /\ v.nextBlock = u.nextBlock
      /\ v.lastQuery = u.lastQuery /\ v.nextQuery = u.nextQuery
  BY <1>2, <1>3 DEF Sessions, States
<1> HIDE DEF v
<1>5. AcceptTransfer(s, mode, len) = PrepareOutgoing(v, m)
  BY DEF AcceptTransfer, v, u, m, waits
<1>6. LET t == PrepareOutgoing(v, m)
      IN  /\ t.length = v.length /\ t.msg = m
          /\ t.bytes = v.bytes /\ t.lastBlock = v.lastBlock /\ t.nextBlock = v.nextBlock
          /\ t.lastQuery = v.lastQuery /\ t.nextQuery = v.nextQuery
  BY <1>4 DEF PrepareOutgoing, Sessions
<1> QED
  BY <1>1, <1>2, <1>4, <1>5, <1>6 DEF AcceptReady

(* Accept: the accept is for the control mode that the initiator offers.   *)
LEMMA CalmAccept ==
    ASSUME TurnInv, CalmInv, ~disturbed, NEW r \in Roles, Accept(r)
    PROVE  CalmInv'
<1> DEFINE q == Peer(r)
           S == "Sender"
           R == "Receiver"
<1>0. /\ TypeOK /\ InStep /\ Numbered /\ ~released
      /\ \A x \in Roles : OutputFits(x) /\ Greeted(x) /\ Unhurt(x) /\ Introduced(x)
      /\ sess[r] \in Sessions /\ sess[r].role = r
      /\ q \in Roles /\ Peer(q) = r /\ q # r /\ \A x \in Roles : x = r \/ x = q
  BY Sides DEF TurnInv, CalmInv, TypeOK
<1>1. PICK mode \in Supported[r], len \in {0, FileLen} :
          CanAccept(sess[r], mode) /\ sess' = [sess EXCEPT ![r] = AcceptTransfer(@, mode, len)]
  BY DEF Accept
<1>2. UNCHANGED <<chan, app, cursor, fresh, disturbed, released>>
  BY DEF Accept, Calm, Data, Book
<1> DEFINE t == AcceptTransfer(sess[r], mode, len)
<1>3. /\ sess[r].state = "NegotiateTransferParams" /\ sess[r].out = "None" /\ ~sess[r].awaiting
      /\ mode = sess[r].mode /\ mode \in Modes /\ len \in Nat /\ mode \in sess[r].request
  BY <1>0, <1>1, ModesAssumption, FileLenAssumption
     DEF CanAccept, Greeted, OutputFits, Responding, Supported
<1>4. /\ t \in Sessions /\ t.role = r /\ t.mode = mode
      /\ t.state = "TransferInProgress" /\ t.out = "MsgToSend"
      /\ t.awaiting <=> (mode = (IF r = "Sender" THEN "ReceiverDrive" ELSE "SenderDrive"))
      /\ t.msg.type = (IF r = "Sender" THEN "ReceiveAccept" ELSE "SendAccept")
      /\ t.msg.modes = {mode}
  BY <1>0, <1>3, AcceptFacts
<1>5. AcceptReady(sess[r], t, len)
  BY <1>0, <1>3, AcceptCounters
<1>6. sess' = [sess EXCEPT ![r] = t]
  BY <1>1
<1> HIDE DEF t
<1>7. /\ Responding(r) /\ Early(r) /\ Waits(q) /\ Early(q) /\ Silent(q) /\ Silent(r) /\ ~fresh
      /\ Zeroed(sess[r]) /\ Zeroed(sess[q]) /\ sess[q].supported = {mode}
  <2>1. Responding(r) /\ Early(r) /\ Waits(q) /\ Early(q)
    BY <1>0, <1>3 DEF Responding, Early, Introduced, Waits
  <2>2. Silent(q) /\ Zeroed(sess[r]) /\ Zeroed(sess[q]) /\ sess[q].supported = {mode}
    BY <1>0, <1>3, <2>1 DEF Introduced
  <2>3. Silent(r) /\ ~fresh
    BY <1>0, <2>1 DEF Greeted, Unhurt, Silent, Said
  <2> QED
    BY <2>1, <2>2, <2>3
<1>8. /\ sess'[r] = t /\ sess'[q] = sess[q] /\ Pipe(q)' = Pipe(q) /\ Heard(q)' = Heard(q)
      /\ \A i \in Heard(r)' : \/ i \in Heard(r) /\ Pipe(r)'[i] = Pipe(r)[i]
                              \/ i = Len(Pipe(r)) + 1 /\ Pipe(r)'[i] = t.msg
  <2>1. /\ r \in Roles /\ q = Peer(r) /\ t \in Sessions /\ TypeOK /\ chan' = chan
        /\ sess' = [sess EXCEPT ![r] = t] /\ sess[r].out # "MsgToSend" /\ t.out = "MsgToSend"
    BY <1>0, <1>2, <1>3, <1>4, <1>6
  <2>2. SaidLast(r, q, t)
    BY <2>1, SaysLast, Zenon
  <2> QED
    BY <2>2 DEF SaidLast
<1>9. /\ Len(Pipe(r)') = Len(Pipe(r)) + 1
      /\ Len(Pipe(r)) + 1 \in Heard(r)' /\ Pipe(r)'[Len(Pipe(r)) + 1] = t.msg
  BY <1>0, <1>2, <1>3, <1>4, <1>6, SaysMore
<1> HIDE DEF q
<1>10. /\ \A i \in Heard(q)' : FALSE
       /\ \A i \in Heard(r)' : i = Len(Pipe(r)') /\ Pipe(r)'[i] = t.msg
  BY <1>7, <1>8, <1>9 DEF Silent
<1>11. /\ \A i \in Heard(r)' : (PassesTurn(Pipe(r)[i])' <=> t.awaiting)
       /\ t.msg.type \in Accepts /\ t.msg.type \notin Inits \cup Blocks \cup Queries
       /\ t.msg.type \notin {"StatusReport", "BlockAck", "BlockAckEOF"}
  BY <1>3, <1>4, <1>10 DEF PassesTurn, Accepts, Inits, Blocks, Queries, Modes, Roles
<1>12. /\ ~HasTurn(q)' /\ Waits(q)' /\ ~Responding(q)' /\ Early(q)' /\ ~InTransfer(q)'
       /\ sess'[q].state \notin {"NegotiateTransferParams", "ReceivedEOF"}
       /\ ~Early(r)' /\ ~Waits(r)' /\ ~Responding(r)' /\ InTransfer(r)' /\ Transfers(r)'
       /\ (HasTurn(r)' <=> ~t.awaiting)
  BY <1>4, <1>7, <1>8 DEF HasTurn, Waits, Responding, Early, InTransfer, Transfers
<1>13. /\ ~TurnOnItsWay(q)' /\ (TurnOnItsWay(r)' <=> t.awaiting) /\ Moves(r)' /\ ~Moves(q)'
       /\ Said(r, Accepts)'
  <2>1. ~TurnOnItsWay(q)' /\ (TurnOnItsWay(r)' <=> t.awaiting) /\ Said(r, Accepts)'
    BY <1>9, <1>10, <1>11 DEF TurnOnItsWay, Said
  <2> QED
    BY <1>12, <2>1 DEF Moves
<1>14. \A x \in Roles : Unhurt(x)'
  <2>1. Unhurt(q)'
    BY <1>0, <1>2, <1>8, <1>10 DEF Unhurt, Said
  <2>2. Unhurt(r)'
    BY <1>0, <1>2, <1>4, <1>8, <1>10, <1>11 DEF Unhurt, Said
  <2> QED
    BY <1>0, <2>1, <2>2
<1>15. \A x \in Roles : Introduced(x)'
  <2>1. Introduced(q)'
    <3>1. /\ Peer(q) = r /\ Zeroed(sess'[q]) /\ sess'[q].supported = {mode}
          /\ sess'[q].length \in Lengths
      BY <1>0, <1>7, <1>8 DEF Introduced
    <3> QED
      BY <1>3, <1>10, <1>12, <1>13, <3>1 DEF Introduced, Zeroed
  <2>2. t.length \in Lengths /\ t.msg.len \in Lengths
    BY <1>0, <1>5 DEF AcceptReady, Introduced, Lengths
  <2>3. Introduced(r)'
    BY <1>4, <1>7, <1>8, <1>10, <1>11, <1>12, <2>2 DEF Introduced, q
  <2> QED
    BY <1>0, <2>1, <2>3
<1>16. InStep'
  <2>1. sess'[R].state # "ReceivedEOF"
    BY <1>0, <1>4, <1>8, <1>12, PeerFacts
  <2> QED
    BY <1>0, <1>10, <1>12, <1>13, <2>1 DEF InStep, Silent, q
<1>17. Numbered'
  <2>1. /\ sess'[S].nextBlock = 0 /\ sess'[R].lastQuery = 0 /\ sess'[R].nextQuery = 0
        /\ sess'[R].bytes = 0
    BY <1>0, <1>5, <1>7, <1>8, PeerFacts DEF AcceptReady, Zeroed
  <2>2. ~(HasTurn(S)' /\ sess'[S].mode = "ReceiverDrive")
        /\ ~(TurnOnItsWay(R)' /\ sess'[R].mode = "ReceiverDrive")
    <3>1. CASE r = S
      BY <1>4, <1>8, <1>12, <1>13, <3>1, PeerFacts DEF q
    <3>2. CASE r = R
      BY <1>4, <1>8, <1>12, <1>13, <3>2, PeerFacts DEF q
    <3> QED
      BY <3>1, <3>2 DEF Roles
  <2>3. ~Unanswered' /\ sess'[R].out # "BlockReceived"
    <3>1. sess[q].out # "BlockReceived"
      BY <1>0, <1>7 DEF OutputFits, HasTurn, Waits
    <3>2. sess'[R].out # "BlockReceived"
      BY <1>0, <1>4, <1>8, <3>1, PeerFacts
    <3> QED
      BY <1>2, <1>7, <3>2 DEF Unanswered
  <2>4. \A x \in Roles : \A i \in Heard(x)' :
            Pipe(x)'[i].type \notin
                Blocks \cup Queries \cup {"Block", "BlockEOF", "BlockAck", "BlockAckEOF"}
    BY <1>0, <1>10, <1>11 DEF Blocks
  <2>5. cursor'[R] \in Nat
    BY <1>0, <1>2, PeerFacts, FileLenAssumption DEF TypeOK
  <2> QED
    BY <2>1, <2>2, <2>3, <2>4, <2>5, PeerFacts DEF Numbered
<1> QED
  BY <1>0, <1>2, <1>14, <1>15, <1>16, <1>17 DEF CalmInv

(* The sessions that StartTransfer and WaitForTransfer make of a reset one.*)
Started(s, mode, len) ==
    /\ s.state = "AwaitingAccept" /\ s.out = "MsgToSend" /\ s.supported = {mode}
    /\ s.length = len /\ Zeroed(s)
    /\ s.msg.type \in Inits /\ s.msg.modes = {mode} /\ s.msg.len = len

Awaits(s) == s.state = "AwaitingInitMsg" /\ s.out = "None" /\ s.length = 0 /\ Zeroed(s)

(* StartTransfer says the init, WaitForTransfer says nothing.              *)
LEMMA StartFacts ==
    ASSUME NEW s \in Sessions, NEW mode \in Modes, NEW len \in Nat, NEW modes \in SUBSET Modes
    PROVE  /\ Started(StartTransfer(Reset(s), mode, len), mode, len)
           /\ Awaits(WaitForTransfer(Reset(s), modes))
<1> DEFINE b == Reset(s)
           u == [b EXCEPT !.supported = {mode}, !.length = len,
                          !.state = "AwaitingAccept", !.awaiting = TRUE]
           m == Msg(IF b.role = "Sender" THEN "SendInit" ELSE "ReceiveInit", 0, 0, len, {mode})
           w == [b EXCEPT !.supported = modes, !.state = "AwaitingInitMsg"]
<1>1. b \in Sessions /\ b.length = 0 /\ Zeroed(b) /\ b.out = "None"
  <2>1. b \in Sessions
    BY Ends
  <2> QED
    BY <2>1 DEF Reset, Blank, Zeroed
<1>2. m.type \in Inits /\ m.modes = {mode} /\ m.len = len
  BY DEF Msg, Inits
<1> HIDE DEF b, m
<1>3. /\ u \in Sessions /\ u.state = "AwaitingAccept" /\ u.supported = {mode} /\ u.length = len
      /\ u.bytes = b.bytes /\ u.nextBlock = b.nextBlock
      /\ u.lastQuery = b.lastQuery /\ u.nextQuery = b.nextQuery
  BY <1>1 DEF Sessions, States
<1>4. /\ w.state = "AwaitingInitMsg" /\ w.out = b.out /\ w.length = b.length
      /\ w.bytes = b.bytes /\ w.nextBlock = b.nextBlock
      /\ w.lastQuery = b.lastQuery /\ w.nextQuery = b.nextQuery
  BY <1>1 DEF Sessions
<1> HIDE DEF u, w
<1>5. LET t == PrepareOutgoing(u, m)
      IN  /\ t.state = u.state /\ t.supported = u.supported /\ t.length = u.length
          /\ t.out = "MsgToSend" /\ t.msg = m
          /\ t.bytes = u.bytes /\ t.nextBlock = u.nextBlock
          /\ t.lastQuery = u.lastQuery /\ t.nextQuery = u.nextQuery
  BY <1>3 DEF PrepareOutgoing, Sessions
<1>6. StartTransfer(b, mode, len) = PrepareOutgoing(u, m) /\ WaitForTransfer(b, modes) = w
  BY DEF StartTransfer, WaitForTransfer, u, m, w
<1> QED
  BY <1>1, <1>2, <1>3, <1>4, <1>5, <1>6 DEF Started, Awaits, Zeroed, b

(* Begin: the initiator has said its init to a session that waits for it.  *)
LEMMA CalmBegin ==
    ASSUME TurnInv, TurnInv', NEW r \in Roles, Begin(r)
    PROVE  CalmInv'
<1> DEFINE q == Peer(r)
           R == "Receiver"
<1>0. /\ TypeOK /\ TypeOK' /\ q \in Roles /\ Peer(q) = r /\ q # r /\ \A x \in Roles : x = r \/ x = q
      /\ \A x \in Roles : sess[x] \in Sessions /\ Supported[x] \in SUBSET Modes
      /\ FileLen \in Nat
  BY Sides, ModesAssumption, FileLenAssumption DEF TurnInv, TypeOK, Roles, Supported
<1>1. PICK mode \in Supported[r], len \in {0, FileLen} :
          sess' = [x \in Roles |->
                       IF x = r THEN StartTransfer(Reset(sess[x]), mode, len)
                       ELSE WaitForTransfer(Reset(sess[x]), Supported[x])]
  BY DEF Begin
<1>2. /\ app' = [x \in Roles |-> "busy"] /\ chan' = [x \in Roles |-> <<>>]
      /\ cursor' = [x \in Roles |-> 0] /\ released' = FALSE
  BY DEF Begin
<1>3. mode \in Modes /\ len \in Nat /\ len \in Lengths
  BY <1>0, <1>1 DEF Lengths
<1>4. Started(sess'[r], mode, len) /\ Awaits(sess'[q])
  <2>1. /\ sess'[r] = StartTransfer(Reset(sess[r]), mode, len)
        /\ sess'[q] = WaitForTransfer(Reset(sess[q]), Supported[q])
    BY <1>0, <1>1
  <2>2. Started(StartTransfer(Reset(sess[r]), mode, len), mode, len)
    BY <1>0, <1>3, StartFacts
  <2>3. Awaits(WaitForTransfer(Reset(sess[q]), Supported[q]))
    BY <1>0, <1>3, StartFacts
  <2> QED
    BY <2>1, <2>2, <2>3
<1>5. /\ \A i \in Heard(q)' : FALSE
      /\ \A i \in Heard(r)' : Pipe(r)'[i] = sess'[r].msg
  <2>1. Pipe(q)' = <<>> /\ Pipe(r)' = Append(<<>>, sess'[r].msg)
    BY <1>0, <1>2, <1>4 DEF Pipe, Started, Awaits
  <2>2. sess'[r].msg \in Messages /\ <<>> \in Seq(Messages) /\ Len(<<>>) = 0
    BY <1>0 DEF TypeOK, Sessions
  <2>3. Len(Append(<<>>, sess'[r].msg)) = 1 /\ Append(<<>>, sess'[r].msg)[1] = sess'[r].msg
    BY <2>2, AppendFacts
  <2> QED
    BY <2>1, <2>2, <2>3 DEF Heard
<1> HIDE DEF q
<1>6. \A x \in Roles :
          /\ ~HasTurn(x)' /\ ~InTransfer(x)' /\ Early(x)'
          /\ sess'[x].state \notin {"NegotiateTransferParams", "ReceivedEOF", "ErrorState", "TransferDone"}
          /\ sess'[x].out \notin {"BlockReceived", "StatusReceived", "AckEOFReceived"}
          /\ Zeroed(sess[x])' /\ sess'[x].length \in Lengths
  BY <1>0, <1>3, <1>4
     DEF Started, Awaits, HasTurn, InTransfer, Early, Responding, Zeroed, Lengths
<1>7. Waits(r)' /\ ~Waits(q)' /\ Responding(q)' /\ ~Responding(r)' /\ sess'[q].state = "AwaitingInitMsg"
      /\ sess'[r].supported = {mode}
  BY <1>4 DEF Started, Awaits, Waits, Responding
<1>8. \A x \in Roles : \A i \in Heard(x)' :
          /\ Pipe(x)'[i].type \in Inits /\ x = r
          /\ ~PassesTurn(Pipe(x)[i])' /\ Pipe(x)'[i].len \in Lengths /\ Pipe(x)'[i].modes = {mode}
  <2>1. \A i \in Heard(r)' : ~PassesTurn(Pipe(r)[i])'
    BY <1>4, <1>5 DEF Started, PassesTurn, Inits, Blocks, Queries
  <2> QED
    BY <1>0, <1>3, <1>4, <1>5, <2>1 DEF Started
<1>9. \A x \in Roles : /\ ~TurnOnItsWay(x)' /\ ~Moves(x)'
                       /\ ~Said(x, {"StatusReport"})' /\ ~Said(x, Accepts)'
  BY <1>6, <1>8 DEF TurnOnItsWay, Moves, Said, Inits, Accepts
<1>10. \A x \in Roles : Unhurt(x)'
  BY <1>2, <1>6, <1>9 DEF Unhurt
<1>11. \A x \in Roles : Introduced(x)'
  <2>1. Introduced(r)'
    BY <1>3, <1>6, <1>7, <1>8 DEF Introduced, Inits, Accepts, q
  <2>2. Introduced(q)'
    BY <1>0, <1>5, <1>6, <1>7 DEF Introduced
  <2> QED
    BY <1>0, <2>1, <2>2
<1>12. InStep'
  BY <1>6, <1>8, <1>9, PeerFacts DEF InStep, Inits
<1>13. Numbered'
  <2>1. sess'[R].bytes = 0 /\ cursor'[R] = 0 /\ sess'[R].out # "BlockReceived"
    BY <1>2, <1>6, PeerFacts DEF Zeroed
  <2>2. ~Unanswered'
    BY <1>6, PeerFacts DEF Unanswered
  <2> QED
    BY <1>6, <1>8, <1>9, <2>1, <2>2, PeerFacts DEF Numbered, Inits, Blocks, Queries
<1> QED
  BY <1>2, <1>10, <1>11, <1>12, <1>13 DEF CalmInv

(* The session that HandleTransferInit leaves: the counters are as they    *)
(* were.                                                                   *)
InitHeard(s, t, m) ==
    /\ t.request = m.modes /\ t.length = m.len
    /\ t.bytes = s.bytes /\ t.nextBlock = s.nextBlock
    /\ t.lastQuery = s.lastQuery /\ t.nextQuery = s.nextQuery

(* HandleTransferInit takes the length and the modes of the init.          *)
LEMMA InitCounters ==
    ASSUME NEW s \in Sessions, NEW m \in Messages, s.state = "AwaitingInitMsg",
           m.type = (IF s.role = "Sender" THEN "ReceiveInit" ELSE "SendInit")
    PROVE  InitHeard(s, HandleTransferInit(s, m), m)
<1> DEFINE v == ResolveTransferControlOptions(s, m.modes)
           t == [v EXCEPT !.length = m.len, !.request = m.modes,
                          !.out = "InitReceived", !.state = "NegotiateTransferParams"]
<1>1. /\ v \in Sessions /\ v.bytes = s.bytes /\ v.nextBlock = s.nextBlock
      /\ v.lastQuery = s.lastQuery /\ v.nextQuery = s.nextQuery
  <2> DEFINE c == m.modes \cap s.supported
             d == CHOOSE x \in Modes : x \in c
  <2>1. CASE Cardinality(c) = 1
    <3>1. d \in Modes
      <4>1. c # {}
        BY <2>1, FS_EmptySet
      <4>2. c \subseteq Modes
        BY DEF Messages
      <4> HIDE DEF c
      <4> QED
        BY <4>1, <4>2
    <3>2. v = [s EXCEPT !.mode = d]
      BY <2>1 DEF ResolveTransferControlOptions
    <3> HIDE DEF d
    <3> QED
      BY <3>1, <3>2 DEF Sessions
  <2>2. CASE Cardinality(c) # 1 /\ c = {}
    <3>1. v = PrepareStatusReport(s)
      BY <2>2 DEF ResolveTransferControlOptions
    <3>2. v \in Sessions
      BY <3>1, Ends
    <3> QED
      BY <3>1, <3>2 DEF PrepareStatusReport, PrepareOutgoing, Sessions
  <2>3. CASE Cardinality(c) # 1 /\ c # {}
    BY <2>3 DEF ResolveTransferControlOptions
  <2> QED
    BY <2>1, <2>2, <2>3
<1>2. HandleTransferInit(s, m) = t
  BY DEF HandleTransferInit, Verify
<1> HIDE DEF v
<1>3. /\ t.length = m.len /\ t.request = m.modes /\ t.bytes = v.bytes /\ t.nextBlock = v.nextBlock
      /\ t.lastQuery = v.lastQuery /\ t.nextQuery = v.nextQuery
  BY <1>1 DEF Sessions
<1> QED
  BY <1>1, <1>2, <1>3 DEF InitHeard

(* An init is heard by the session that waits for it.                      *)
LEMMA CalmHearsInit ==
    ASSUME TurnInv, TypeOK', CalmInv, ~disturbed, ~disturbed',
           NEW r \in Roles, NEW t \in Sessions, chan[r] # <<>>,
           chan' = [chan EXCEPT ![r] = Tail(@)], sess' = [sess EXCEPT ![r] = t],
           UNCHANGED <<app, cursor, fresh, released>>,
           sess[r].out = "None", sess[r].state = "AwaitingInitMsg",
           Head(chan[r]).type \in Inits,
           t.out = "InitReceived", t.state = "NegotiateTransferParams", ~t.awaiting,
           InitHeard(sess[r], t, Head(chan[r]))
    PROVE  CalmInv'
<1> DEFINE q == Peer(r)
           m == Head(chan[r])
           R == "Receiver"
<1>0. /\ TypeOK /\ InStep /\ Numbered /\ ~released
      /\ \A x \in Roles : OutputFits(x) /\ Greeted(x) /\ Unhurt(x) /\ Introduced(x)
      /\ q \in Roles /\ Peer(q) = r /\ q # r /\ \A x \in Roles : x = r \/ x = q
  BY Sides DEF TurnInv, CalmInv
<1>1. /\ sess'[r] = t /\ sess'[q] = sess[q] /\ Pipe(r)' = Pipe(r) /\ Heard(r)' = Heard(r)
      /\ Pipe(q)[1] = m /\ 1 \in Heard(q)
      /\ \A i \in Heard(q)' : /\ i + 1 \in Heard(q) /\ Pipe(q)'[i] = Pipe(q)[i + 1]
                              /\ i \in Nat \ {0}
  BY <1>0, Hears
<1> HIDE DEF q
<1>2. /\ Responding(r) /\ Early(r) /\ Waits(q) /\ Early(q) /\ ~Responding(q)
      /\ Zeroed(sess[r]) /\ Zeroed(sess[q]) /\ m.modes = sess[q].supported /\ m.len \in Lengths
      /\ \E d \in Modes : sess[q].supported = {d}
  <2>1. Responding(r) /\ Early(r) /\ Waits(q) /\ Early(q) /\ ~Responding(q)
    BY <1>0 DEF Responding, Early, Introduced, Waits, q
  <2> QED
    BY <1>0, <1>1, <2>1 DEF Introduced
<1>3. Silent(r) /\ \A i \in Heard(q)' : FALSE
  <2>1. Silent(r)
    BY <1>0, <1>2 DEF Greeted, Unhurt, Silent, Said
  <2>2. ASSUME NEW i \in Heard(q)' PROVE FALSE
    <3>1. i + 1 \in Heard(q) /\ i + 1 # 1
      BY <1>1
    <3>2. Pipe(q)[i + 1].type \in Inits
      BY <1>0, <1>2, <3>1 DEF Greeted, Unhurt, Said
    <3> QED
      BY <1>0, <1>1, <3>1, <3>2 DEF Greeted
  <2> QED
    BY <2>1, <2>2
<1>4. \A x \in Roles : (\A i \in Heard(x)' : FALSE) /\ ~TurnOnItsWay(x)' /\ \A T : ~Said(x, T)'
  BY <1>0, <1>1, <1>3 DEF TurnOnItsWay, Said, Silent
<1>5. /\ Responding(r)' /\ ~Waits(r)' /\ Waits(q)' /\ ~Responding(q)'
      /\ \A x \in Roles : /\ ~HasTurn(x)' /\ ~InTransfer(x)' /\ Zeroed(sess[x])' /\ ~Moves(x)'
                          /\ sess'[x].length \in Lengths
                          /\ sess'[x].state \notin {"ReceivedEOF", "ErrorState", "TransferDone"}
                          /\ sess'[x].out # "BlockReceived"
  <2>1. Responding(r)' /\ ~Waits(r)' /\ Waits(q)' /\ ~Responding(q)'
    BY <1>1, <1>2 DEF Responding, Waits
  <2>2. \A x \in Roles : /\ ~HasTurn(x)' /\ ~InTransfer(x)' /\ ~Moves(x)'
                         /\ sess'[x].state \notin {"ReceivedEOF", "ErrorState", "TransferDone"}
    BY <1>0, <1>1, <1>2, <1>4 DEF HasTurn, InTransfer, Waits, Moves
  <2>3. \A x \in Roles : Zeroed(sess[x])' /\ sess'[x].length \in Lengths
    BY <1>0, <1>1, <1>2 DEF InitHeard, Zeroed, Introduced
  <2>4. \A x \in Roles : sess'[x].out # "BlockReceived"
    BY <1>0, <1>1, <1>2 DEF OutputFits, HasTurn, Waits
  <2> QED
    BY <2>1, <2>2, <2>3, <2>4
<1>6. \A x \in Roles : Unhurt(x)'
  BY <1>0, <1>1, <1>4, <1>5 DEF Unhurt
<1>7. \A x \in Roles : Introduced(x)'
  <2>1. Introduced(r)'
    <3>1. sess'[r].request = sess'[q].supported
      BY <1>1, <1>2 DEF InitHeard
    <3>2. /\ Peer(r) = q /\ Silent(q)' /\ \A i \in Heard(r)' : FALSE
          /\ Zeroed(sess[r])' /\ sess'[r].length \in Lengths
      BY <1>0, <1>4, <1>5 DEF q, Silent
    <3> QED
      BY <1>5, <3>1, <3>2 DEF Introduced
  <2>2. Introduced(q)'
    BY <1>0, <1>1, <1>2, <1>4, <1>5 DEF Introduced, Waits
  <2> QED
    BY <1>0, <2>1, <2>2
<1>8. InStep'
  BY <1>4, <1>5, PeerFacts DEF InStep
<1>9. Numbered'
  <2>1. cursor'[R] \in Nat /\ sess'[R].bytes = 0 /\ ~Unanswered'
    BY <1>0, <1>5, PeerFacts, FileLenAssumption DEF TypeOK, Zeroed, Unanswered
  <2> QED
    BY <1>4, <1>5, <2>1, PeerFacts DEF Numbered
<1> QED
  BY <1>0, <1>6, <1>7, <1>8, <1>9 DEF CalmInv

(* What is left on its way when r, which has said nothing that is still on *)
(* its way, hears a message of q.                                          *)
HeardFirst(r, q, t, m) ==
    /\ sess'[r] = t /\ sess'[q] = sess[q]
    /\ Pipe(q)[1] = m /\ 1 \in Heard(q)
    /\ \A i \in Heard(r)' : FALSE
    /\ ~TurnOnItsWay(r)'
    /\ \A i \in Heard(q)' :
           /\ i + 1 \in Heard(q) /\ i + 1 # 1
           /\ Pipe(q)'[i] = Pipe(q)[i + 1]
           /\ PassesTurn(Pipe(q)[i])' <=> PassesTurn(Pipe(q)[i + 1])
           /\ i + 1 = Len(Pipe(q)) => i = Len(Pipe(q)')
    /\ PassesTurn(m) \/ m.type = "BlockAckEOF" => \A i \in Heard(q)' : FALSE
    /\ TurnOnItsWay(q)' => TurnOnItsWay(q)
    /\ TurnOnItsWay(q) /\ ~PassesTurn(m) => TurnOnItsWay(q)'

(* What r hears is gone from what q has said, and the rest of it stays.    *)
LEMMA HearsRest ==
    ASSUME TurnInv, TypeOK', CalmInv, ~disturbed, NEW r \in Roles, NEW q, q = Peer(r),
           NEW t \in Sessions, chan[r] # <<>>,
           chan' = [chan EXCEPT ![r] = Tail(@)], sess' = [sess EXCEPT ![r] = t],
           sess[r].out # "MsgToSend", t.out # "MsgToSend", Silent(r)
    PROVE  HeardFirst(r, q, t, Head(chan[r]))
<1> DEFINE m == Head(chan[r])
<1>0. /\ TypeOK /\ InStep /\ OutputFits(q)
      /\ q \in Roles /\ Peer(q) = r /\ q # r /\ \A x \in Roles : x = r \/ x = q
  BY Sides DEF TurnInv, CalmInv
<1>1. /\ sess'[r] = t /\ sess'[q] = sess[q] /\ Pipe(r)' = Pipe(r) /\ Heard(r)' = Heard(r)
      /\ Pipe(q)[1] = m /\ 1 \in Heard(q)
      /\ \A i \in Heard(q)' : /\ i + 1 \in Heard(q) /\ Pipe(q)'[i] = Pipe(q)[i + 1]
                              /\ i \in Nat \ {0}
  BY <1>0, Hears
<1>2. /\ Len(Pipe(q)) \in Nat /\ Len(Pipe(q)') = Len(Pipe(q)) - 1
      /\ \A i \in Heard(q) :
             /\ i \in Nat \ {0} /\ i <= Len(Pipe(q))
             /\ i # 1 => i - 1 \in Heard(q)' /\ Pipe(q)'[i - 1] = Pipe(q)[i]
  BY <1>0, <1>1, HearsMore
<1>3. /\ \A i \in Heard(r)' : FALSE
      /\ ~TurnOnItsWay(r)'
  BY <1>1 DEF Silent, TurnOnItsWay
<1>4. ASSUME NEW a, a.type \in Says(q) PROVE PassesTurn(a)' <=> PassesTurn(a)
  <2>1. CASE r = "Receiver"
    BY <1>4, <2>1, PeerFacts DEF PassesTurn, Says, Blocks
  <2>2. CASE r = "Sender"
    <3>1. sess'["Receiver"].mode = sess["Receiver"].mode
      BY <1>1, <2>2, PeerFacts
    <3> QED
      BY <3>1 DEF PassesTurn
  <2> QED
    BY <2>1, <2>2 DEF Roles
<1>5. \A i \in Heard(q)' :
          /\ i + 1 \in Heard(q) /\ i + 1 # 1 /\ Pipe(q)'[i] = Pipe(q)[i + 1]
          /\ i + 1 = Len(Pipe(q)) => i = Len(Pipe(q)')
  BY <1>1, <1>2
<1>6. ASSUME NEW i \in Heard(q)'
      PROVE  PassesTurn(Pipe(q)[i])' <=> PassesTurn(Pipe(q)[i + 1])
  <2>1. Pipe(q)[i + 1].type \in Says(q) /\ Pipe(q)'[i] = Pipe(q)[i + 1]
    BY <1>0, <1>5 DEF OutputFits
  <2> QED
    BY <1>4, <2>1
<1>7. ASSUME PassesTurn(m) \/ m.type = "BlockAckEOF", NEW i \in Heard(q)'
      PROVE  FALSE
  <2>1. 1 = Len(Pipe(q))
    BY <1>0, <1>1, <1>7 DEF InStep
  <2>2. i + 1 \in Heard(q) /\ i \in Nat \ {0}
    BY <1>1
  <2>3. i + 1 <= 1
    BY <1>2, <2>1, <2>2
  <2> QED
    BY <2>2, <2>3
<1>8. TurnOnItsWay(q)' => TurnOnItsWay(q)
  BY <1>5, <1>6 DEF TurnOnItsWay
<1>9. ASSUME TurnOnItsWay(q), ~PassesTurn(m) PROVE TurnOnItsWay(q)'
  <2>1. PICK i \in Heard(q) : PassesTurn(Pipe(q)[i])
    BY <1>9 DEF TurnOnItsWay
  <2>2. i # 1
    BY <1>1, <1>9, <2>1
  <2>3. i - 1 \in Heard(q)' /\ (i - 1) + 1 = i
    BY <1>2, <2>1, <2>2
  <2>4. PassesTurn(Pipe(q)[(i - 1) + 1])
    BY <2>1, <2>3
  <2> DEFINE k == i - 1
  <2>5. k \in Heard(q)' /\ PassesTurn(Pipe(q)[k + 1])
    BY <2>3, <2>4
  <2> HIDE DEF k
  <2> QED
    BY <1>6, <2>5 DEF TurnOnItsWay
<1> QED
  BY <1>1, <1>3, <1>5, <1>6, <1>7, <1>8, <1>9 DEF HeardFirst

(* r hears a message of the transfer, or the accept, and the counters are  *)
(* in order: the turn is taken, or stays on its way, or is no longer       *)
(* needed.                                                                 *)
LEMMA CalmHears ==
    ASSUME TurnInv, TypeOK', CalmInv, ~disturbed, ~disturbed', Numbered',
           NEW r \in Roles, NEW t \in Sessions,
           chan[r] # <<>>, chan' = [chan EXCEPT ![r] = Tail(@)], sess' = [sess EXCEPT ![r] = t],
           UNCHANGED <<app, released>>,
           sess[r].out = "None", Silent(r), Head(chan[r]).type \notin Inits,
           Head(chan[r]).type \in Accepts \/ InTransfer(r),
           t.out \notin {"MsgToSend", "StatusReceived"}, t.length \in Lengths,
           t.out = "AckEOFReceived" <=> t.state = "TransferDone",
           \/ /\ PassesTurn(Head(chan[r]))
              /\ \/ t.state = "TransferInProgress" /\ ~t.awaiting /\ Transfers(Peer(r))
                 \/ r = "Receiver" /\ t.state = "ReceivedEOF" /\ sess["Sender"].state = "AwaitingEOFAck"
           \/ /\ ~PassesTurn(Head(chan[r])) /\ Moves(Peer(r))
              /\ t.state = "TransferInProgress" /\ t.awaiting /\ sess[r].state # "AwaitingEOFAck"
           \/ /\ Head(chan[r]).type = "BlockAckEOF" /\ t.state = "TransferDone"
              /\ ~InTransfer(Peer(r))
    PROVE  CalmInv'
<1> DEFINE q == Peer(r)
           m == Head(chan[r])
<1>0. /\ TypeOK /\ InStep /\ ~released /\ OneTurn
      /\ \A x \in Roles : OutputFits(x) /\ Greeted(x) /\ Unhurt(x) /\ Introduced(x)
      /\ q \in Roles /\ Peer(q) = r /\ q # r /\ \A x \in Roles : x = r \/ x = q
  BY Sides DEF TurnInv, CalmInv
<1>1. /\ sess'[r] = t /\ sess'[q] = sess[q]
      /\ Pipe(q)[1] = m /\ 1 \in Heard(q)
      /\ \A i \in Heard(r)' : FALSE
      /\ ~TurnOnItsWay(r)'
      /\ \A i \in Heard(q)' :
             /\ i + 1 \in Heard(q) /\ i + 1 # 1
             /\ Pipe(q)'[i] = Pipe(q)[i + 1]
             /\ PassesTurn(Pipe(q)[i])' <=> PassesTurn(Pipe(q)[i + 1])
             /\ i + 1 = Len(Pipe(q)) => i = Len(Pipe(q)')
      /\ PassesTurn(m) \/ m.type = "BlockAckEOF" => \A i \in Heard(q)' : FALSE
      /\ TurnOnItsWay(q)' => TurnOnItsWay(q)
      /\ TurnOnItsWay(q) /\ ~PassesTurn(m) => TurnOnItsWay(q)'
  BY <1>0, HearsRest DEF HeardFirst
<1> HIDE DEF q
<1>2. /\ ~Early(r)' /\ ~Responding(r)' /\ ~Waits(r)'
      /\ (HasTurn(r)' <=> t.state = "ReceivedEOF" \/ (t.state = "TransferInProgress" /\ ~t.awaiting))
      /\ (HasTurn(q)' <=> HasTurn(q)) /\ (Transfers(q)' <=> Transfers(q))
      /\ (InTransfer(q)' <=> InTransfer(q))
      /\ t.state \notin {"NegotiateTransferParams", "ErrorState", "AwaitingInitMsg"}
      /\ (Transfers(r)' <=> t.state = "TransferInProgress")
  BY <1>1 DEF Early, Responding, Waits, HasTurn, Transfers, InTransfer
<1>3. ~Early(q) /\ ~Early(q)' /\ ~Responding(q)' /\ ~Waits(q)'
  <2>1. ~Early(q)
    BY <1>0, <1>1 DEF Greeted, Unhurt, Said
  <2> QED
    BY <1>1, <2>1 DEF Early, Responding, Waits
<1>4. \A i \in Heard(q)' : Pipe(q)'[i].type \notin Inits \cup Accepts
  <2>1. CASE m.type \in Accepts
    BY <1>0, <1>1, <2>1 DEF Greeted
  <2>2. CASE InTransfer(r)
    <3>1. ~Waits(r) /\ sess[r].state # "AwaitingInitMsg"
      BY <2>2 DEF InTransfer, Waits
    <3> QED
      BY <1>0, <1>1, <3>1 DEF Introduced
  <2> QED
    BY <2>1, <2>2
<1>5. \A x \in Roles : Unhurt(x)'
  <2>1. Unhurt(r)'
    BY <1>0, <1>1, <1>2 DEF Unhurt, Said
  <2>2. Unhurt(q)'
    BY <1>0, <1>1 DEF Unhurt, Said
  <2> QED
    BY <1>0, <2>1, <2>2
<1>6. \A x \in Roles : Introduced(x)'
  <2>1. Introduced(r)'
    BY <1>1, <1>2 DEF Introduced
  <2>2. Introduced(q)'
    <3>1. sess'[q].length \in Lengths /\ sess'[q].state # "NegotiateTransferParams"
      BY <1>0, <1>1, <1>3 DEF Introduced, Early, Responding
    <3> QED
      BY <1>3, <1>4, <3>1 DEF Introduced
  <2> QED
    BY <1>0, <2>1, <2>2
<1>7. HasTurn(r)' => PassesTurn(m)
  BY <1>2
<1>8. PassesTurn(m) => ~HasTurn(q) /\ ~HasTurn(r)
  BY <1>0, <1>1 DEF OneTurn, TurnOnItsWay
<1>9. InStep'
  <2>1. \A x \in Roles : Moves(x)' => Silent(Peer(x))'
    <3>1. Moves(r)' => \A i \in Heard(q)' : FALSE
      BY <1>1, <1>7 DEF Moves
    <3> QED
      BY <1>0, <1>1, <3>1 DEF Silent, q
  <2>2. \A x \in Roles : \A i \in Heard(x)' :
            PassesTurn(Pipe(x)[i])' \/ Pipe(x)'[i].type = "BlockAckEOF" => i = Len(Pipe(x)')
    <3>1. \A i \in Heard(q)' :
              PassesTurn(Pipe(q)[i])' \/ Pipe(q)'[i].type = "BlockAckEOF" => i = Len(Pipe(q)')
      BY <1>0, <1>1 DEF InStep
    <3> QED
      BY <1>0, <1>1, <3>1
  <2>3. \A x \in Roles : InTransfer(x)' => \E y \in Roles : Moves(y)'
    <3>1. CASE PassesTurn(m) /\ t.state # "TransferDone"
      BY <1>2, <3>1 DEF Moves
    <3>2. CASE ~PassesTurn(m) /\ Moves(q)
      BY <1>0, <1>1, <1>2, <3>2 DEF Moves
    <3>3. CASE t.state = "TransferDone" /\ ~InTransfer(q)
      BY <1>0, <1>1, <1>2, <3>3 DEF InTransfer
    <3> QED
      BY <3>1, <3>2, <3>3 DEF q
  <2>4. \A x \in Roles : HasTurn(x)' /\ Transfers(x)' => Transfers(Peer(x))' \/ Said(x, Accepts)'
    <3>1. HasTurn(r)' /\ Transfers(r)' => Transfers(q)'
      BY <1>2 DEF q
    <3>2. HasTurn(q)' => t.state = "TransferInProgress"
      BY <1>2, <1>8 DEF HasTurn, InTransfer, q
    <3> QED
      BY <1>0, <1>2, <3>1, <3>2 DEF q
  <2>5. sess'["Receiver"].state = "ReceivedEOF" => sess'["Sender"].state = "AwaitingEOFAck"
    <3>1. CASE r = "Receiver"
      <4>1. q = "Sender"
        BY <3>1, PeerFacts DEF q
      <4> QED
        BY <1>1, <3>1, <4>1
    <3>2. CASE r = "Sender"
      <4>1. q = "Receiver"
        BY <3>2, PeerFacts DEF q
      <4> SUFFICES ASSUME sess["Receiver"].state = "ReceivedEOF" PROVE FALSE
        BY <1>1, <4>1
      <4>2. HasTurn(q) /\ InTransfer(q) /\ sess[r].state = "AwaitingEOFAck"
        BY <1>0, <3>2, <4>1 DEF HasTurn, InTransfer, InStep
      <4> QED
        BY <1>8, <4>2 DEF q
    <3> QED
      BY <3>1, <3>2 DEF Roles
  <2> QED
    BY <2>1, <2>2, <2>3, <2>4, <2>5 DEF InStep
<1> QED
  BY <1>0, <1>5, <1>6, <1>9 DEF CalmInv

(* The counters when the sender hears an accept, a query or an             *)
(* acknowledgement.                                                        *)
LEMMA SenderHears ==
    ASSUME TurnInv, TypeOK', CalmInv, ~disturbed, NEW t \in Sessions,
           chan["Sender"] # <<>>, chan' = [chan EXCEPT !["Sender"] = Tail(@)],
           sess' = [sess EXCEPT !["Sender"] = t], UNCHANGED <<cursor, fresh>>,
           sess["Sender"].out = "None", t.out # "MsgToSend", Silent("Sender"),
           t.nextBlock = sess["Sender"].nextBlock, t.lastBlock = sess["Sender"].lastBlock,
           t.state \in {"TransferInProgress", "TransferDone"},
           t.state = "TransferInProgress" =>
               sess["Sender"].state # "AwaitingEOFAck" /\ (~t.awaiting => PassesTurn(Head(chan["Sender"]))),
           t.state = "TransferDone" => Head(chan["Sender"]).type = "BlockAckEOF",
           t.state = "TransferInProgress" /\ ~t.awaiting /\ t.mode = "ReceiverDrive" =>
               sess["Receiver"].mode = "ReceiverDrive",
           t.mode = sess["Sender"].mode \/ Waits("Sender")
    PROVE  Numbered'
<1> DEFINE S == "Sender"
           R == "Receiver"
           m == Head(chan[S])
<1>0. /\ TypeOK /\ Numbered /\ OneTurn /\ S \in Roles /\ R \in Roles /\ Peer(S) = R /\ Peer(R) = S
  BY PeerFacts DEF TurnInv, CalmInv
<1>1. /\ sess'[S] = t /\ sess'[R] = sess[R]
      /\ Pipe(R)[1] = m /\ 1 \in Heard(R)
      /\ \A i \in Heard(S)' : FALSE
      /\ ~TurnOnItsWay(S)'
      /\ \A i \in Heard(R)' :
             /\ i + 1 \in Heard(R) /\ i + 1 # 1
             /\ Pipe(R)'[i] = Pipe(R)[i + 1]
      /\ PassesTurn(m) \/ m.type = "BlockAckEOF" => \A i \in Heard(R)' : FALSE
      /\ TurnOnItsWay(R)' => TurnOnItsWay(R)
      /\ TurnOnItsWay(R) /\ ~PassesTurn(m) => TurnOnItsWay(R)'
  <2>1. sess[S].out # "MsgToSend" /\ S \in Roles /\ R = Peer(S)
    BY <1>0
  <2>2. HeardFirst(S, R, t, m)
    BY <2>1, HearsRest, Zenon
  <2> QED
    BY <2>2 DEF HeardFirst
<1>2. /\ (HasTurn(R)' <=> HasTurn(R)) /\ (Transfers(R)' <=> Transfers(R)) /\ ~Waits(S)'
      /\ (HasTurn(S)' => t.state = "TransferInProgress" /\ ~t.awaiting)
      /\ (HasTurn(S)' => TurnOnItsWay(R))
      /\ (Transfers(S)' <=> t.state = "TransferInProgress")
  <2>1. /\ (HasTurn(R)' <=> HasTurn(R)) /\ (Transfers(R)' <=> Transfers(R)) /\ ~Waits(S)'
        /\ (HasTurn(S)' => t.state = "TransferInProgress" /\ ~t.awaiting)
        /\ (Transfers(S)' <=> t.state = "TransferInProgress")
    BY <1>1 DEF HasTurn, Transfers, Waits
  <2> QED
    BY <1>1, <2>1 DEF TurnOnItsWay
<1>3. ~Unanswered'
  <2>1. ~Unanswered
    BY <1>0, <1>1 DEF Numbered, Silent
  <2> QED
    BY <1>1, <1>2, <2>1 DEF Unanswered
<1>4. HasTurn(S)' \/ TurnOnItsWay(R)' => sess'[R].lastQuery = sess'[S].nextBlock
  BY <1>0, <1>1, <1>2 DEF Numbered
<1>5. (\/ HasTurn(S)' /\ sess'[S].mode = "ReceiverDrive"
       \/ TurnOnItsWay(R)' /\ sess'[R].mode = "ReceiverDrive") =>
          sess'[R].nextQuery = sess'[S].nextBlock + 1
  BY <1>0, <1>1, <1>2 DEF Numbered
<1>6. (HasTurn(R)' \/ TurnOnItsWay(S)') /\ (sess'[S].mode = "ReceiverDrive" \/ Waits(S)') =>
          sess'[R].nextQuery = sess'[S].nextBlock
  BY <1>0, <1>1, <1>2 DEF Numbered
<1>7. sess'[R].bytes <= cursor'[R] + (IF sess'[R].out = "BlockReceived" THEN sess'[R].msg.len ELSE 0)
  BY <1>0, <1>1 DEF Numbered
<1>8. ASSUME NEW i \in Heard(R)'
      PROVE  LET a == Pipe(R)'[i]
             IN  /\ a.type \in Queries => Ready(R, i)' /\ Transfers(R)' /\ a.n = sess'[S].nextBlock
                 /\ a.type = "BlockAck" => /\ Transfers(R)' /\ Transfers(S)' /\ sess'[S].awaiting
                                           /\ Moves(R)' /\ a.n = sess'[S].lastBlock
                 /\ a.type # "BlockAckEOF"
  <2>1. ~PassesTurn(m) /\ t.state = "TransferInProgress" /\ t.awaiting /\ sess[S].state # "AwaitingEOFAck"
    BY <1>1, <1>8
  <2>2. i + 1 \in Heard(R) /\ Pipe(R)'[i] = Pipe(R)[i + 1]
    BY <1>1, <1>8
  <2>3. Ready(R, i)' /\ Transfers(S)'
    BY <1>0, <1>2, <2>1 DEF Ready
  <2>4. Moves(R) => Moves(R)'
    BY <1>1, <1>2, <2>1 DEF Moves
  <2> QED
    BY <1>0, <1>1, <1>2, <2>1, <2>2, <2>3, <2>4 DEF Numbered
<1> QED
  BY <1>1, <1>3, <1>4, <1>5, <1>6, <1>7, <1>8 DEF Numbered

(* The counters when the receiver hears an accept or a block.              *)
LEMMA ReceiverHears ==
    ASSUME TurnInv, TypeOK', CalmInv, ~disturbed, NEW t \in Sessions,
           chan["Receiver"] # <<>>, chan' = [chan EXCEPT !["Receiver"] = Tail(@)],
           sess' = [sess EXCEPT !["Receiver"] = t], UNCHANGED <<cursor, fresh>>,
           sess["Receiver"].out = "None", t.out # "MsgToSend", Silent("Receiver"),
           t.lastQuery = sess["Receiver"].lastQuery, t.nextQuery = sess["Receiver"].nextQuery,
           t.state \in {"TransferInProgress", "ReceivedEOF"},
           t.state = "ReceivedEOF" \/ ~t.awaiting => PassesTurn(Head(chan["Receiver"])),
           t.out = "BlockReceived" \/ fresh =>
               t.lastBlock = sess["Sender"].lastBlock /\ t.lastBlock + 1 = sess["Sender"].nextBlock,
           t.bytes <= cursor["Receiver"] + (IF t.out = "BlockReceived" THEN t.msg.len ELSE 0)
    PROVE  Numbered'
<1> DEFINE S == "Sender"
           R == "Receiver"
           m == Head(chan[R])
<1>0. /\ TypeOK /\ Numbered /\ OneTurn /\ S \in Roles /\ R \in Roles /\ Peer(S) = R /\ Peer(R) = S
  BY PeerFacts DEF TurnInv, CalmInv
<1>1. /\ sess'[R] = t /\ sess'[S] = sess[S]
      /\ Pipe(S)[1] = m /\ 1 \in Heard(S)
      /\ \A i \in Heard(R)' : FALSE
      /\ ~TurnOnItsWay(R)'
      /\ \A i \in Heard(S)' :
             /\ i + 1 \in Heard(S) /\ i + 1 # 1
             /\ Pipe(S)'[i] = Pipe(S)[i + 1]
      /\ PassesTurn(m) \/ m.type = "BlockAckEOF" => \A i \in Heard(S)' : FALSE
      /\ TurnOnItsWay(S)' => TurnOnItsWay(S)
  <2>1. sess[R].out # "MsgToSend" /\ R \in Roles /\ S = Peer(R)
    BY <1>0
  <2>2. HeardFirst(R, S, t, m)
    BY <2>1, HearsRest, Zenon
  <2> QED
    BY <2>2 DEF HeardFirst
<1>2. /\ (HasTurn(S)' <=> HasTurn(S)) /\ (Transfers(S)' <=> Transfers(S)) /\ (Waits(S)' <=> Waits(S))
      /\ (HasTurn(R)' => TurnOnItsWay(S))
      /\ (Transfers(R)' <=> t.state = "TransferInProgress")
  <2>1. /\ (HasTurn(S)' <=> HasTurn(S)) /\ (Transfers(S)' <=> Transfers(S)) /\ (Waits(S)' <=> Waits(S))
        /\ (HasTurn(R)' => t.state = "ReceivedEOF" \/ ~t.awaiting)
        /\ (Transfers(R)' <=> t.state = "TransferInProgress")
    BY <1>1 DEF HasTurn, Transfers, Waits
  <2> QED
    BY <1>1, <2>1 DEF TurnOnItsWay
<1>3. Unanswered' => /\ Silent(R)' /\ sess'[R].lastBlock = sess'[S].lastBlock
                     /\ sess'[R].lastBlock + 1 = sess'[S].nextBlock
  BY <1>1 DEF Unanswered, Silent
<1>4. HasTurn(S)' \/ TurnOnItsWay(R)' => sess'[R].lastQuery = sess'[S].nextBlock
  BY <1>0, <1>1, <1>2 DEF Numbered
<1>5. (\/ HasTurn(S)' /\ sess'[S].mode = "ReceiverDrive"
       \/ TurnOnItsWay(R)' /\ sess'[R].mode = "ReceiverDrive") =>
          sess'[R].nextQuery = sess'[S].nextBlock + 1
  BY <1>0, <1>1, <1>2 DEF Numbered
<1>6. (HasTurn(R)' \/ TurnOnItsWay(S)') /\ (sess'[S].mode = "ReceiverDrive" \/ Waits(S)') =>
          sess'[R].nextQuery = sess'[S].nextBlock
  BY <1>0, <1>1, <1>2 DEF Numbered
<1>7. sess'[R].bytes <= cursor'[R] + (IF sess'[R].out = "BlockReceived" THEN sess'[R].msg.len ELSE 0)
  BY <1>1
<1>8. ASSUME NEW i \in Heard(S)'
      PROVE  LET a == Pipe(S)'[i]
             IN  /\ a.type \in Blocks =>
                        /\ Ready(S, i)'
                        /\ a.n = sess'[R].lastQuery /\ a.n = sess'[S].lastBlock
                        /\ a.n + 1 = sess'[S].nextBlock
                 /\ a.type = "Block" => Transfers(S)' /\ a.len = 1
                 /\ a.type = "BlockEOF" => sess'[S].state = "AwaitingEOFAck"
  <2>1. t.state = "TransferInProgress"
    BY <1>1, <1>8
  <2>2. i + 1 \in Heard(S) /\ Pipe(S)'[i] = Pipe(S)[i + 1]
    BY <1>1, <1>8
  <2>3. Ready(S, i)'
    BY <1>0, <1>2, <2>1 DEF Ready
  <2> QED
    BY <1>0, <1>1, <1>2, <2>1, <2>2, <2>3 DEF Numbered
<1> QED
  BY <1>1, <1>3, <1>4, <1>5, <1>6, <1>7, <1>8 DEF Numbered

(* The session that HandleAccept leaves: the counters are as they were.    *)
AcceptHeard(s, t, m) ==
    /\ t.length = (IF s.role = "Sender" THEN s.length ELSE m.len)
    /\ t.bytes = s.bytes /\ t.lastBlock = s.lastBlock /\ t.nextBlock = s.nextBlock
    /\ t.lastQuery = s.lastQuery /\ t.nextQuery = s.nextQuery

(* HandleAccept takes the length of a ReceiveAccept.                       *)
LEMMA AcceptedCounters ==
    ASSUME NEW s \in Sessions, NEW m \in Messages, NEW d \in Modes, m.modes = {d},
           s.state = "AwaitingAccept", m.modes \subseteq s.supported,
           m.type = (IF s.role = "Sender" THEN "SendAccept" ELSE "ReceiveAccept")
    PROVE  AcceptHeard(s, HandleAccept(s, m), m)
<1> DEFINE l == IF s.role = "Sender" THEN s.length ELSE m.len
           w == d = (IF s.role = "Sender" THEN "ReceiverDrive" ELSE "SenderDrive")
           t == [s EXCEPT !.mode = d, !.length = l, !.out = "AcceptReceived",
                          !.awaiting = w, !.state = "TransferInProgress"]
<1>1. (CHOOSE x \in Modes : x \in m.modes) = d
  OBVIOUS
<1>2. HandleAccept(s, m) = t
  <2>1. Cardinality(m.modes) = 1
    BY FS_Singleton
  <2> QED
    BY <1>1, <2>1 DEF HandleAccept, Verify
<1> HIDE DEF l, w
<1>3. /\ t.length = l
      /\ t.bytes = s.bytes /\ t.lastBlock = s.lastBlock /\ t.nextBlock = s.nextBlock
      /\ t.lastQuery = s.lastQuery /\ t.nextQuery = s.nextQuery
  BY DEF Sessions
<1> HIDE DEF t
<1> QED
  BY <1>2, <1>3 DEF AcceptHeard, l

(* An accept is heard by the session that waits for it.                    *)
LEMMA CalmHearsAccept ==
    ASSUME TurnInv, TypeOK', CalmInv, ~disturbed, ~disturbed',
           NEW r \in Roles, NEW t \in Sessions, chan[r] # <<>>,
           chan' = [chan EXCEPT ![r] = Tail(@)], sess' = [sess EXCEPT ![r] = t],
           UNCHANGED <<app, cursor, fresh, released>>,
           sess[r].out = "None", sess[r].state = "AwaitingAccept",
           Head(chan[r]).type \in Accepts,
           t.out = "AcceptReceived", t.state = "TransferInProgress",
           ~t.awaiting <=> PassesTurn(Head(chan[r])),
           r = "Sender" /\ ~t.awaiting => t.mode # "ReceiverDrive",
           AcceptHeard(sess[r], t, Head(chan[r]))
    PROVE  CalmInv'
<1> DEFINE q == Peer(r)
           m == Head(chan[r])
           S == "Sender"
           R == "Receiver"
<1>0. /\ TypeOK /\ InStep /\ Numbered
      /\ \A x \in Roles : OutputFits(x) /\ Greeted(x) /\ Unhurt(x) /\ Introduced(x)
      /\ q \in Roles /\ Peer(q) = r /\ q # r /\ \A x \in Roles : x = r \/ x = q
      /\ sess[r].role = r
  BY Sides DEF TurnInv, CalmInv, TypeOK
<1>1. Pipe(q)[1] = m /\ 1 \in Heard(q)
  BY <1>0, Hears
<1> HIDE DEF q
<1>2. /\ InTransfer(q) /\ m.len \in Lengths /\ (PassesTurn(m) => Transfers(q))
      /\ Early(r) /\ Waits(r) /\ ~HasTurn(r)
  BY <1>0, <1>1 DEF Introduced, Early, Waits, HasTurn
<1>3. Silent(r) /\ ~fresh
  <2>1. ~fresh /\ \A i \in Heard(r) : Pipe(r)[i].type \in Inits
    BY <1>0, <1>2 DEF Greeted, Unhurt, Said
  <2>2. sess[q].state # "AwaitingInitMsg"
    BY <1>2 DEF InTransfer
  <2> QED
    BY <1>0, <2>1, <2>2 DEF Introduced, Silent, q
<1>4. Moves(q)
  <2>1. ~Said(R, {"BlockAckEOF"})
    BY OnlyLastAck DEF Roles
  <2>2. ~Moves(r)
    BY <1>2, <1>3 DEF Moves, TurnOnItsWay, Silent
  <2> QED
    BY <1>0, <1>2, <2>1, <2>2 DEF InStep
<1>5. Numbered'
  <2>1. CASE r = S
    BY <1>2, <1>3, <2>1, SenderHears DEF AcceptHeard
  <2>2. CASE r = R
    <3>1. sess[R].bytes <= cursor[R] + 0
      BY <1>0, <2>2 DEF Numbered
    <3>2. t.bytes <= cursor[R] + (IF t.out = "BlockReceived" THEN t.msg.len ELSE 0)
      BY <2>2, <3>1 DEF AcceptHeard
    <3> QED
      BY <1>3, <2>2, <3>2, ReceiverHears DEF AcceptHeard
  <2> QED
    BY <2>1, <2>2 DEF Roles
<1>6. t.length \in Lengths
  BY <1>0, <1>2 DEF AcceptHeard, Introduced
<1>7. m.type \notin Inits
  BY DEF Inits, Accepts
<1> QED
  BY <1>0, <1>2, <1>3, <1>4, <1>5, <1>6, <1>7, CalmHears DEF q

(* The first of what the peer of r has said is what r hears next.          *)
LEMMA FirstSaid ==
    ASSUME TypeOK, NEW r \in Roles, NEW q, q = Peer(r), chan[r] # <<>>
    PROVE  Pipe(q)[1] = Head(chan[r]) /\ 1 \in Heard(q) /\ Head(chan[r]) \in Messages
<1>1. chan[r] \in Seq(Messages) /\ q \in Roles /\ Peer(q) = r
  BY Sides DEF TypeOK
<1>2. /\ Head(chan[r]) = chan[r][1] /\ Head(chan[r]) \in Messages
      /\ 1 \in 1 .. Len(chan[r]) /\ Len(chan[r]) \in Nat
  BY <1>1, TailFacts, LenProperties
<1>3. sess[q].msg \in Messages
  BY <1>1 DEF TypeOK, Sessions
<1>4. /\ Len(Append(chan[r], sess[q].msg)) = Len(chan[r]) + 1
      /\ Append(chan[r], sess[q].msg)[1] = chan[r][1]
  BY <1>1, <1>2, <1>3, AppendFacts
<1>5. Pipe(q) = IF sess[q].out = "MsgToSend" THEN Append(chan[r], sess[q].msg) ELSE chan[r]
  BY <1>1 DEF Pipe
<1> QED
  BY <1>2, <1>4, <1>5 DEF Heard

(* The session that HandleBlock leaves when the block is expected.         *)
BlockHeard(s, t, m) ==
    /\ t \in Sessions /\ t.out = "BlockReceived" /\ t.msg = m /\ ~t.awaiting
    /\ t.state = (IF m.type = "BlockEOF" THEN "ReceivedEOF" ELSE s.state)
    /\ t.bytes = s.bytes + m.len /\ t.lastBlock = m.n /\ t.length = s.length
    /\ t.lastQuery = s.lastQuery /\ t.nextQuery = s.nextQuery

(* HandleBlock hands over a block that is expected and fits.               *)
LEMMA BlockTaken ==
    ASSUME NEW s \in Sessions, NEW m \in Messages, s.role = "Receiver", s.awaiting,
           s.state = "TransferInProgress", m.n = s.lastQuery,
           m.type = "BlockEOF" \/ (m.len > 0 /\ (s.length > 0 => s.bytes + m.len <= s.length))
    PROVE  BlockHeard(s, HandleBlock(s, m), m)
<1> DEFINE st == IF m.type = "BlockEOF" THEN "ReceivedEOF" ELSE s.state
           t == [s EXCEPT !.out = "BlockReceived", !.msg = m, !.bytes = @ + m.len,
                          !.lastBlock = m.n, !.awaiting = FALSE, !.state = st]
<1>1. HandleBlock(s, m) = t
  BY DEF HandleBlock, Verify
<1>2. st \in States /\ s.bytes + m.len \in Nat /\ m.n \in Nat
  BY DEF Sessions, Messages, States
<1> HIDE DEF st
<1>3. /\ t \in Sessions /\ t.out = "BlockReceived" /\ t.msg = m /\ ~t.awaiting /\ t.state = st
      /\ t.bytes = s.bytes + m.len /\ t.lastBlock = m.n /\ t.length = s.length
      /\ t.lastQuery = s.lastQuery /\ t.nextQuery = s.nextQuery
  BY <1>2 DEF Sessions, Outputs
<1> HIDE DEF t
<1> QED
  BY <1>1, <1>3 DEF BlockHeard, st

(* What the handlers of the sender leave alone.                            *)
SenderHeard(s, t) ==
    /\ t \in Sessions /\ t.mode = s.mode /\ t.length = s.length
    /\ t.lastBlock = s.lastBlock /\ t.nextBlock = s.nextBlock

(* HandleBlockQuery gives the turn to a sender that awaits a query.        *)
LEMMA QueryTaken ==
    ASSUME NEW s \in Sessions, NEW m \in Messages, s.role = "Sender", s.awaiting,
           s.state = "TransferInProgress", m.n = s.nextBlock
    PROVE  LET t == HandleBlockQuery(s, m)
           IN  /\ SenderHeard(s, t) /\ t.out \in {"QueryReceived", "QueryWithSkipReceived"}
               /\ t.state = "TransferInProgress" /\ ~t.awaiting
<1> DEFINE o == IF m.type = "BlockQuery" THEN "QueryReceived" ELSE "QueryWithSkipReceived"
           t == [s EXCEPT !.out = o, !.msg = m, !.awaiting = FALSE, !.lastQuery = m.n]
<1>1. HandleBlockQuery(s, m) = t
  BY DEF HandleBlockQuery, Verify
<1>2. o \in Outputs /\ m.n \in Nat /\ o \in {"QueryReceived", "QueryWithSkipReceived"}
  BY DEF Outputs, Messages
<1> HIDE DEF o
<1>3. SenderHeard(s, t) /\ t.out = o /\ t.state = s.state /\ ~t.awaiting
  BY <1>2 DEF Sessions, SenderHeard
<1> HIDE DEF t
<1> QED
  BY <1>1, <1>2, <1>3

(* HandleBlockAck gives the turn to a sender that drives.                  *)
LEMMA AckTaken ==
    ASSUME NEW s \in Sessions, NEW m \in Messages, s.role = "Sender", s.awaiting,
           s.state = "TransferInProgress", m.n = s.lastBlock
    PROVE  LET t == HandleBlockAck(s, m)
           IN  /\ SenderHeard(s, t) /\ t.out = "AckReceived" /\ t.state = "TransferInProgress"
               /\ t.awaiting <=> s.mode = "ReceiverDrive"
<1> DEFINE w == s.mode = "ReceiverDrive"
           t == [s EXCEPT !.out = "AckReceived", !.awaiting = w]
<1>1. HandleBlockAck(s, m) = t
  BY DEF HandleBlockAck, Verify
<1>2. w \in BOOLEAN
  OBVIOUS
<1> HIDE DEF w
<1>3. SenderHeard(s, t) /\ t.out = "AckReceived" /\ t.state = s.state /\ t.awaiting = w
  BY <1>2 DEF Sessions, Outputs, SenderHeard
<1> HIDE DEF t
<1> QED
  BY <1>1, <1>3 DEF w

(* HandleBlockAckEOF ends the transfer.                                    *)
LEMMA LastAckTaken ==
    ASSUME NEW s \in Sessions, NEW m \in Messages, s.role = "Sender", s.awaiting,
           s.state = "AwaitingEOFAck", m.n = s.lastBlock
    PROVE  LET t == HandleBlockAckEOF(s, m)
           IN  SenderHeard(s, t) /\ t.out = "AckEOFReceived" /\ t.state = "TransferDone"
<1> DEFINE t == [s EXCEPT !.out = "AckEOFReceived", !.awaiting = FALSE, !.state = "TransferDone"]
<1>1. HandleBlockAckEOF(s, m) = t
  BY DEF HandleBlockAckEOF, Verify
<1>2. SenderHeard(s, t) /\ t.out = "AckEOFReceived" /\ t.state = "TransferDone"
  BY DEF Sessions, Outputs, States, SenderHeard
<1> HIDE DEF t
<1> QED
  BY <1>1, <1>2

(* A block is heard by a receiver that asked for it: it has the number and *)
(* the room that HandleBlock checks.                                       *)
LEMMA CalmHearsBlock ==
    ASSUME TurnInv, TypeOK', CalmInv, ~disturbed, ~disturbed', chan["Receiver"] # <<>>,
           chan' = [chan EXCEPT !["Receiver"] = Tail(@)],
           sess' = [sess EXCEPT !["Receiver"] = HandleBlock(@, Head(chan["Receiver"]))],
           UNCHANGED <<app, cursor, fresh, released>>,
           sess["Receiver"].out = "None", Head(chan["Receiver"]).type \in Blocks
    PROVE  CalmInv'
<1> DEFINE S == "Sender"
           R == "Receiver"
           m == Head(chan[R])
           t == HandleBlock(sess[R], m)
<1>0. /\ TypeOK /\ InStep /\ Numbered /\ OneTurn /\ CursorsMeet /\ Introduced(R)
      /\ S \in Roles /\ R \in Roles /\ Peer(S) = R /\ Peer(R) = S
      /\ sess[R] \in Sessions /\ sess[R].role = R /\ FileLen \in Nat \ {0}
      /\ cursor[R] \in Nat /\ cursor[S] \in 0 .. FileLen
  <2>1. /\ TypeOK /\ InStep /\ Numbered /\ OneTurn /\ CursorsMeet /\ Introduced(R)
        /\ S \in Roles /\ R \in Roles /\ Peer(S) = R /\ Peer(R) = S
    BY PeerFacts DEF TurnInv, CalmInv
  <2>2. FileLen \in Nat \ {0} /\ \A x \in Roles : cursor[x] \in 0 .. FileLen
    BY <2>1, FileLenAssumption DEF TypeOK
  <2>3. sess[R] \in Sessions /\ sess[R].role = R
    BY <2>1 DEF TypeOK
  <2> QED
    BY <2>1, <2>2, <2>3
<1>1. Pipe(S)[1] = m /\ 1 \in Heard(S) /\ m \in Messages
  BY <1>0, FirstSaid
<1>2. PassesTurn(m) /\ TurnOnItsWay(S) /\ Silent(R) /\ ~HasTurn(R)
  <2>1. PassesTurn(m)
    BY DEF PassesTurn
  <2>2. TurnOnItsWay(S)
    BY <1>1, <2>1 DEF TurnOnItsWay
  <2> QED
    BY <1>0, <2>1, <2>2 DEF InStep, Moves, OneTurn
<1>3. /\ Transfers(R) /\ m.n = sess[R].lastQuery
      /\ m.n = sess[S].lastBlock /\ m.n + 1 = sess[S].nextBlock
      /\ m.type = "Block" => Transfers(S) /\ m.len = 1
      /\ m.type = "BlockEOF" => sess[S].state = "AwaitingEOFAck"
  <2>1. Ready(S, 1)
    BY <1>0, <1>1 DEF Numbered
  <2>2. Transfers(R)
    <3>1. \A j \in Heard(S) : ~(j < 1)
      BY DEF Heard
    <3> QED
      BY <1>0, <2>1, <3>1 DEF Ready
  <2> QED
    BY <1>0, <1>1, <2>2 DEF Numbered
<1>4. sess[R].state = "TransferInProgress" /\ sess[R].awaiting
  BY <1>2, <1>3 DEF Transfers, HasTurn
<1>5. sess[R].bytes <= cursor[R] /\ sess[R].bytes \in Nat /\ sess[R].length \in Lengths
  <2>1. sess[R].bytes <= cursor[R] + 0
    BY <1>0 DEF Numbered
  <2> QED
    BY <1>0, <2>1 DEF Introduced, Sessions
<1>6. m.type = "BlockEOF" \/ (m.len > 0 /\ (sess[R].length > 0 => sess[R].bytes + m.len <= sess[R].length))
  <2> SUFFICES ASSUME m.type = "Block"
               PROVE  m.len > 0 /\ (sess[R].length > 0 => sess[R].bytes + m.len <= sess[R].length)
    BY DEF Blocks
  <2>1. m.len = 1 /\ cursor[S] = cursor[R] + m.len
    BY <1>0, <1>1, <1>3 DEF CursorsMeet, Carries
  <2>2. cursor[R] + 1 <= FileLen
    BY <1>0, <2>1
  <2> QED
    BY <1>0, <1>5, <2>1, <2>2 DEF Lengths
<1>7. BlockHeard(sess[R], t, m)
  BY <1>0, <1>1, <1>3, <1>4, <1>6, BlockTaken
<1>8. sess' = [sess EXCEPT ![R] = t]
  OBVIOUS
<1> HIDE DEF t, m
<1>9. /\ t \in Sessions /\ t.out = "BlockReceived" /\ t.msg = m /\ ~t.awaiting
      /\ t.state = (IF m.type = "BlockEOF" THEN "ReceivedEOF" ELSE "TransferInProgress")
      /\ t.bytes = sess[R].bytes + m.len /\ t.lastBlock = m.n /\ t.length \in Lengths
      /\ t.lastQuery = sess[R].lastQuery /\ t.nextQuery = sess[R].nextQuery
  BY <1>4, <1>5, <1>7 DEF BlockHeard
<1>10. t.bytes <= cursor[R] + (IF t.out = "BlockReceived" THEN t.msg.len ELSE 0)
  <2>1. m.len \in Nat
    BY <1>1 DEF Messages
  <2> QED
    BY <1>0, <1>5, <1>9, <2>1
<1>11. Numbered'
  BY <1>2, <1>3, <1>8, <1>9, <1>10, ReceiverHears DEF m
<1>12. /\ InTransfer(R) /\ m.type \notin Inits
       /\ \/ t.state = "TransferInProgress" /\ ~t.awaiting /\ Transfers(S)
          \/ t.state = "ReceivedEOF" /\ sess[S].state = "AwaitingEOFAck"
       /\ t.out \notin {"MsgToSend", "StatusReceived"}
       /\ t.out = "AckEOFReceived" <=> t.state = "TransferDone"
  BY <1>3, <1>4, <1>9 DEF InTransfer, Inits, Blocks, m
<1> QED
  BY <1>0, <1>2, <1>8, <1>9, <1>11, <1>12, CalmHears DEF m

(* A query is heard by a sender that waits for one, and asks for the block *)
(* that is its next.                                                       *)
LEMMA CalmHearsQuery ==
    ASSUME TurnInv, TypeOK', CalmInv, ~disturbed, ~disturbed', chan["Sender"] # <<>>,
           chan' = [chan EXCEPT !["Sender"] = Tail(@)],
           sess' = [sess EXCEPT !["Sender"] = HandleBlockQuery(@, Head(chan["Sender"]))],
           UNCHANGED <<app, cursor, fresh, released>>,
           sess["Sender"].out = "None", Head(chan["Sender"]).type \in Queries
    PROVE  CalmInv'
<1> DEFINE S == "Sender"
           R == "Receiver"
           m == Head(chan[S])
           t == HandleBlockQuery(sess[S], m)
<1>0. /\ TypeOK /\ InStep /\ Numbered /\ OneTurn /\ SameDrive /\ Introduced(S)
      /\ S \in Roles /\ R \in Roles /\ Peer(S) = R /\ Peer(R) = S
      /\ sess[S] \in Sessions /\ sess[S].role = S
  BY PeerFacts DEF TurnInv, CalmInv, TypeOK
<1>1. Pipe(R)[1] = m /\ 1 \in Heard(R) /\ m \in Messages
  BY <1>0, FirstSaid
<1>2. PassesTurn(m) /\ TurnOnItsWay(R) /\ Silent(S) /\ ~HasTurn(S)
  <2>1. PassesTurn(m)
    BY DEF PassesTurn
  <2>2. TurnOnItsWay(R)
    BY <1>1, <2>1 DEF TurnOnItsWay
  <2> QED
    BY <1>0, <2>1, <2>2 DEF InStep, Moves, OneTurn
<1>3. Transfers(S) /\ Transfers(R) /\ m.n = sess[S].nextBlock
  <2>1. Ready(R, 1)
    BY <1>0, <1>1 DEF Numbered
  <2>2. Transfers(S)
    <3>1. \A j \in Heard(R) : ~(j < 1)
      BY DEF Heard
    <3> QED
      BY <1>0, <2>1, <3>1 DEF Ready
  <2> QED
    BY <1>0, <1>1, <2>2 DEF Numbered
<1>4. sess[S].state = "TransferInProgress" /\ sess[S].awaiting /\ InTransfer(S) /\ InTransfer(R)
  BY <1>2, <1>3 DEF Transfers, HasTurn, InTransfer
<1>5. sess[S].mode = sess[R].mode
  BY <1>0, <1>4 DEF SameDrive
<1>6. /\ SenderHeard(sess[S], t) /\ t.out \in {"QueryReceived", "QueryWithSkipReceived"}
      /\ t.state = "TransferInProgress" /\ ~t.awaiting
  BY <1>0, <1>1, <1>3, <1>4, QueryTaken
<1>7. sess' = [sess EXCEPT ![S] = t]
  OBVIOUS
<1> HIDE DEF t, m
<1>8. Numbered'
  BY <1>2, <1>4, <1>5, <1>6, <1>7, SenderHears DEF m, SenderHeard
<1>9. m.type \notin Inits /\ t.length \in Lengths
  BY <1>0, <1>6 DEF Inits, Queries, m, SenderHeard, Introduced
<1> QED
  BY <1>0, <1>2, <1>3, <1>4, <1>6, <1>7, <1>8, <1>9, CalmHears DEF m, SenderHeard

(* An acknowledgement is heard by a sender that waits for it, and gives it *)
(* the turn if the sender drives.                                          *)
LEMMA CalmHearsAck ==
    ASSUME TurnInv, TypeOK', CalmInv, ~disturbed, ~disturbed', chan["Sender"] # <<>>,
           chan' = [chan EXCEPT !["Sender"] = Tail(@)],
           sess' = [sess EXCEPT !["Sender"] = HandleBlockAck(@, Head(chan["Sender"]))],
           UNCHANGED <<app, cursor, fresh, released>>,
           sess["Sender"].out = "None", Head(chan["Sender"]).type = "BlockAck"
    PROVE  CalmInv'
<1> DEFINE S == "Sender"
           R == "Receiver"
           m == Head(chan[S])
           t == HandleBlockAck(sess[S], m)
<1>0. /\ TypeOK /\ InStep /\ Numbered /\ SameDrive /\ Introduced(S)
      /\ S \in Roles /\ R \in Roles /\ Peer(S) = R /\ Peer(R) = S
      /\ sess[S] \in Sessions /\ sess[S].role = S
  BY PeerFacts DEF TurnInv, CalmInv, TypeOK
<1>1. Pipe(R)[1] = m /\ 1 \in Heard(R) /\ m \in Messages
  BY <1>0, FirstSaid
<1>2. /\ Transfers(R) /\ Transfers(S) /\ sess[S].awaiting /\ Moves(R) /\ m.n = sess[S].lastBlock
      /\ Silent(S)
  BY <1>0, <1>1 DEF Numbered, InStep
<1>3. sess[S].state = "TransferInProgress" /\ InTransfer(S) /\ InTransfer(R)
  BY <1>2 DEF Transfers, InTransfer
<1>4. sess[S].mode = sess[R].mode /\ sess[S].mode \in Modes
  BY <1>0, <1>3 DEF SameDrive, Sessions
<1>5. PassesTurn(m) <=> sess[S].mode # "ReceiverDrive"
  BY <1>4 DEF PassesTurn, Blocks, Queries, Modes
<1>6. /\ SenderHeard(sess[S], t) /\ t.out = "AckReceived" /\ t.state = "TransferInProgress"
      /\ t.awaiting <=> sess[S].mode = "ReceiverDrive"
  BY <1>0, <1>1, <1>2, <1>3, AckTaken
<1>7. sess' = [sess EXCEPT ![S] = t]
  OBVIOUS
<1> HIDE DEF t, m
<1>8. Numbered'
  BY <1>2, <1>3, <1>4, <1>5, <1>6, <1>7, SenderHears DEF m, SenderHeard
<1>9. m.type \notin Inits /\ t.length \in Lengths
  BY <1>0, <1>6 DEF Inits, m, SenderHeard, Introduced
<1>10. t.awaiting <=> ~PassesTurn(m)
  BY <1>5, <1>6
<1> QED
  BY <1>0, <1>2, <1>3, <1>6, <1>7, <1>8, <1>9, <1>10, CalmHears DEF m, SenderHeard

(* The last acknowledgement is heard by a sender that waits for it, and    *)
(* nothing is left to be heard.                                            *)
LEMMA CalmHearsLastAck ==
    ASSUME TurnInv, TypeOK', CalmInv, ~disturbed, ~disturbed', chan["Sender"] # <<>>,
           chan' = [chan EXCEPT !["Sender"] = Tail(@)],
           sess' = [sess EXCEPT !["Sender"] = HandleBlockAckEOF(@, Head(chan["Sender"]))],
           UNCHANGED <<app, cursor, fresh, released>>,
           sess["Sender"].out = "None", Head(chan["Sender"]).type = "BlockAckEOF"
    PROVE  CalmInv'
<1> DEFINE S == "Sender"
           R == "Receiver"
           m == Head(chan[S])
           t == HandleBlockAckEOF(sess[S], m)
<1>0. /\ TypeOK /\ Numbered /\ Introduced(S) /\ OutputFits(S)
      /\ S \in Roles /\ R \in Roles /\ Peer(S) = R /\ Peer(R) = S
      /\ sess[S] \in Sessions /\ sess[S].role = S
  BY PeerFacts DEF TurnInv, CalmInv, TypeOK
<1>1. Pipe(R)[1] = m /\ 1 \in Heard(R) /\ m \in Messages
  BY <1>0, FirstSaid
<1>2. Said(R, {"BlockAckEOF"})
  BY <1>1 DEF Said
<1>3. /\ sess[S].state = "AwaitingEOFAck" /\ sess[S].awaiting /\ Silent(S)
      /\ m.n = sess[S].lastBlock /\ InTransfer(S) /\ ~InTransfer(R)
  <2>1. /\ sess[S].state = "AwaitingEOFAck" /\ Silent(S)
        /\ sess[R].state \in {"TransferDone", "Unitialized"}
    BY <1>2, OnlyLastAck
  <2> QED
    BY <1>0, <1>1, <2>1 DEF OutputFits, Numbered, InTransfer
<1>4. SenderHeard(sess[S], t) /\ t.out = "AckEOFReceived" /\ t.state = "TransferDone"
  BY <1>0, <1>1, <1>3, LastAckTaken
<1>5. sess' = [sess EXCEPT ![S] = t]
  OBVIOUS
<1> HIDE DEF t, m
<1>6. Numbered'
  BY <1>3, <1>4, <1>5, SenderHears DEF m, SenderHeard
<1>7. m.type \notin Inits /\ t.length \in Lengths
  BY <1>0, <1>4 DEF Inits, m, SenderHeard, Introduced
<1> QED
  BY <1>0, <1>3, <1>4, <1>5, <1>6, <1>7, CalmHears DEF m, SenderHeard

(* What r hears next is for the state that r is in.                        *)
LEMMA Expected ==
    ASSUME TurnInv, CalmInv, ~disturbed, NEW r \in Roles, chan[r] # <<>>
    PROVE  LET m == Head(chan[r])
           IN  /\ sess[r].state # "Unitialized" /\ m.type \in Says(Peer(r)) \ {"StatusReport"}
               /\ m.type \in Inits \cup Accepts => \E d \in Modes : m.modes = {d}
               /\ m.type \in Inits => sess[r].state = "AwaitingInitMsg"
               /\ m.type \in Accepts => sess[r].state = "AwaitingAccept" /\ m.modes = sess[r].supported
<1> DEFINE q == Peer(r)
           m == Head(chan[r])
           S == "Sender"
           R == "Receiver"
<1>0. /\ TypeOK /\ Numbered /\ q \in Roles /\ Peer(q) = r
      /\ OutputFits(q) /\ Greeted(q) /\ Unhurt(q) /\ Introduced(q)
  BY Sides DEF TurnInv, CalmInv
<1>1. Pipe(q)[1] = m /\ 1 \in Heard(q)
  BY <1>0, FirstSaid
<1> HIDE DEF m
<1>2. m.type \in Says(q) \ {"StatusReport"}
  BY <1>0, <1>1 DEF OutputFits, Unhurt, Said
<1>3. /\ m.type \in Inits \cup Accepts => \E d \in Modes : m.modes = {d}
      /\ m.type \in Inits => sess[r].state = "AwaitingInitMsg"
      /\ m.type \in Accepts => sess[r].state = "AwaitingAccept" /\ m.modes = sess[r].supported
  BY <1>0, <1>1 DEF Greeted, Introduced, Waits
<1>4. sess[r].state # "Unitialized"
  <2> SUFFICES ASSUME sess[r].state = "Unitialized" PROVE FALSE
    OBVIOUS
  <2>1. ~Transfers(r) /\ m.type \notin Inits \cup Accepts
    BY <1>3 DEF Transfers
  <2>2. ~Ready(q, 1)
    <3>1. \A j \in Heard(q) : ~(j < 1)
      BY DEF Heard
    <3> QED
      BY <1>0, <2>1, <3>1 DEF Ready
  <2>3. CASE r = R
    <3>1. q = S /\ m.type \in Blocks
      BY <1>2, <2>1, <2>3, PeerFacts DEF Says, Inits, Accepts
    <3> QED
      BY <1>0, <1>1, <2>2, <3>1 DEF Numbered
  <2>4. CASE r = S
    <3>1. q = R /\ m.type \in Queries \cup {"BlockAck", "BlockAckEOF"}
      BY <1>2, <2>1, <2>4, PeerFacts DEF Says, Inits, Accepts
    <3> QED
      BY <1>0, <1>1, <2>1, <2>2, <2>4, <3>1 DEF Numbered
  <2> QED
    BY <2>3, <2>4 DEF Roles
<1> QED
  BY <1>2, <1>3, <1>4 DEF m

(* Deliver: every message is expected, or met by an output that waits to   *)
(* be polled.                                                              *)
LEMMA CalmDeliver ==
    ASSUME TurnInv, TurnInv', CalmInv, ~disturbed, NEW r \in Roles, Deliver(r)
    PROVE  CalmInv'
<1> DEFINE s == sess[r]
           m == Head(chan[r])
           ignored == r = "Receiver" /\ Preparing
           open == app[r] = "busy" /\ ~(released /\ r = "Sender") /\ ~ignored
           S == "Sender"
           R == "Receiver"
<1>0. /\ TypeOK /\ TypeOK' /\ ~released /\ OutputFits(r)
      /\ s \in Sessions /\ s.role = r
  BY DEF TurnInv, CalmInv, TypeOK
<1>1. /\ chan[r] # <<>> /\ chan' = [chan EXCEPT ![r] = Tail(@)]
      /\ sess' = (IF open THEN [sess EXCEPT ![r] = HandleMessageReceived(@, m)] ELSE sess)
      /\ disturbed' = (disturbed \/ ignored \/ (open /\ Refuses(s, m)))
      /\ UNCHANGED <<app, cursor, fresh, released>>
  BY DEF Deliver, Data, Book
<1>2. m \in Messages
  BY <1>0, <1>1, FirstSaid
<1>3. /\ s.state # "Unitialized" /\ m.type \in Says(Peer(r)) \ {"StatusReport"}
      /\ m.type \in Inits \cup Accepts => \E d \in Modes : m.modes = {d}
      /\ m.type \in Inits => s.state = "AwaitingInitMsg"
      /\ m.type \in Accepts => s.state = "AwaitingAccept" /\ m.modes = s.supported
  BY <1>1, Expected
<1>4. CASE ignored
  BY <1>1, <1>4, Disturbs
<1> SUFFICES ASSUME ~ignored PROVE CalmInv'
  BY <1>4
<1>5. open
  BY <1>0, <1>3 DEF OutputFits
<1>6. CASE s.out # "None"
  <2>1. Refuses(s, m)
    BY <1>3, <1>6 DEF Refuses
  <2>2. disturbed'
    BY <1>1, <1>5, <2>1
  <2> QED
    BY <2>2, Disturbs
<1>7. CASE s.out = "None"
  <2>1. ~Refuses(s, m)
    BY <1>7 DEF Refuses
  <2>2. ~disturbed' /\ sess' = [sess EXCEPT ![r] = HandleBdxMessage(s, m)]
    BY <1>1, <1>3, <1>5, <2>1 DEF HandleMessageReceived
  <2>3. CASE m.type \in Inits
    <3> DEFINE t == HandleTransferInit(s, m)
    <3>1. sess' = [sess EXCEPT ![r] = t]
      BY <2>2, <2>3 DEF HandleBdxMessage, Inits
    <3>2. m.type = (IF s.role = S THEN "ReceiveInit" ELSE "SendInit")
      BY <1>0, <1>3, <2>3, PeerFacts DEF Says, Inits, Blocks, Queries, Roles
    <3>3. PICK d \in Modes : m.modes = {d}
      BY <1>3, <2>3
    <3>4. ~s.awaiting /\ s.state = "AwaitingInitMsg"
      BY <1>0, <1>3, <2>3 DEF OutputFits, Responding
    <3>5. /\ t \in Sessions /\ ~t.awaiting
          /\ t.out = "InitReceived" /\ t.state = "NegotiateTransferParams"
      BY <1>0, <1>2, <3>2, <3>3, <3>4, InitFacts
    <3>6. InitHeard(s, t, m)
      BY <1>0, <1>2, <3>2, <3>4, InitCounters
    <3> HIDE DEF t
    <3> QED
      BY <1>0, <1>1, <1>7, <2>2, <2>3, <3>1, <3>4, <3>5, <3>6, CalmHearsInit
  <2>4. CASE m.type \in Accepts
    <3> DEFINE t == HandleAccept(s, m)
    <3>1. sess' = [sess EXCEPT ![r] = t]
      BY <2>2, <2>4 DEF HandleBdxMessage, Accepts
    <3>2. m.type = (IF s.role = S THEN "SendAccept" ELSE "ReceiveAccept")
      BY <1>0, <1>3, <2>4, PeerFacts DEF Says, Accepts, Blocks, Queries, Roles
    <3>3. PICK d \in Modes : m.modes = {d}
      BY <1>3, <2>4
    <3>4. s.state = "AwaitingAccept" /\ m.modes \subseteq s.supported
      BY <1>3, <2>4
    <3>5. /\ t \in Sessions /\ t.mode = d
          /\ t.out = "AcceptReceived" /\ t.state = "TransferInProgress"
          /\ t.awaiting <=> d = (IF r = S THEN "ReceiverDrive" ELSE "SenderDrive")
      BY <1>0, <1>2, <3>2, <3>3, <3>4, AcceptedFacts
    <3>6. AcceptHeard(s, t, m)
      BY <1>0, <1>2, <3>2, <3>3, <3>4, AcceptedCounters
    <3> HIDE DEF t
    <3>7. ~t.awaiting <=> PassesTurn(m)
      BY <1>0, <3>2, <3>3, <3>5 DEF PassesTurn, Blocks, Queries, Modes, Roles
    <3>8. r = S /\ ~t.awaiting => t.mode # "ReceiverDrive"
      BY <3>5
    <3> QED
      BY <1>0, <1>1, <1>7, <2>2, <2>4, <3>1, <3>4, <3>5, <3>6, <3>7, <3>8, CalmHearsAccept
  <2>5. CASE m.type \in Blocks
    <3>1. r = R
      BY <1>3, <2>5, PeerFacts DEF Says, Blocks, Queries, Roles
    <3>2. sess' = [sess EXCEPT ![R] = HandleBlock(@, m)]
      BY <2>2, <2>5, <3>1 DEF HandleBdxMessage, Blocks
    <3> QED
      BY <1>0, <1>1, <1>7, <2>2, <2>5, <3>1, <3>2, CalmHearsBlock
  <2>6. CASE m.type \in Queries
    <3>1. r = S
      BY <1>3, <2>6, PeerFacts DEF Says, Blocks, Queries, Roles
    <3>2. sess' = [sess EXCEPT ![S] = HandleBlockQuery(@, m)]
      BY <2>2, <2>6, <3>1 DEF HandleBdxMessage, Queries
    <3> QED
      BY <1>0, <1>1, <1>7, <2>2, <2>6, <3>1, <3>2, CalmHearsQuery
  <2>7. CASE m.type = "BlockAck"
    <3>1. r = S
      BY <1>3, <2>7, PeerFacts DEF Says, Blocks, Roles
    <3>2. sess' = [sess EXCEPT ![S] = HandleBlockAck(@, m)]
      BY <2>2, <2>7, <3>1 DEF HandleBdxMessage
    <3> QED
      BY <1>0, <1>1, <1>7, <2>2, <2>7, <3>1, <3>2, CalmHearsAck
  <2>8. CASE m.type = "BlockAckEOF"
    <3>1. r = S
      BY <1>3, <2>8, PeerFacts DEF Says, Blocks, Roles
    <3>2. sess' = [sess EXCEPT ![S] = HandleBlockAckEOF(@, m)]
      BY <2>2, <2>8, <3>1 DEF HandleBdxMessage
    <3> QED
      BY <1>0, <1>1, <1>7, <2>2, <2>8, <3>1, <3>2, CalmHearsLastAck
  <2> QED
    BY <1>3, <2>3, <2>4, <2>5, <2>6, <2>7, <2>8 DEF Says, Inits, Accepts, Blocks, Queries
<1> QED
  BY <1>6, <1>7

(* Nothing has been said when the sessions are constructed.                *)
LEMMA CalmInit ==
    ASSUME Init
    PROVE  CalmInv
<1>0. TypeOK
  BY InitInv DEF TurnInv
<1>1. PICK modes \in [Roles -> Modes] : sess = [r \in Roles |-> Blank(r, modes[r])]
  BY DEF Init
<1>2. ~released /\ chan = [r \in Roles |-> <<>>] /\ app = [r \in Roles |-> "idle"]
  BY DEF Init
<1>3. \A x \in Roles : sess[x] = Reset(sess[x]) /\ sess[x] \in Sessions /\ sess[x].out = "None"
  <2>1. \A x \in Roles, d \in Modes : Blank(x, d) = Reset(Blank(x, d)) /\ Blank(x, d).out = "None"
    BY DEF Blank, Reset
  <2>2. \A x \in Roles : sess[x] = Blank(x, modes[x]) /\ modes[x] \in Modes /\ sess[x] \in Sessions
    BY <1>0, <1>1 DEF TypeOK
  <2> QED
    BY <2>1, <2>2
<1>4. \A x \in Roles : Pipe(x) = <<>> /\ app[x] # "failure"
  BY <1>2, <1>3, Sides DEF Pipe
<1> QED
  BY <1>0, <1>2, <1>3, <1>4, CalmRest

(* Every step of an undisturbed transfer keeps the counters in order, or   *)
(* disturbs it.                                                            *)
LEMMA CalmNext ==
    ASSUME TurnInv, CalmInv, [Next]_vars
    PROVE  CalmInv'
<1>0. TurnInv'
  BY NextInv
<1>1. ASSUME NEW r \in Roles, Begin(r)
      PROVE  CalmInv'
  BY <1>0, <1>1, CalmBegin
<1>2. ASSUME disturbed, ~\E r \in Roles : Begin(r)
      PROVE  CalmInv'
  <2>1. disturbed'
    BY <1>2
       DEF Next, Poll, PollMessage, PollNotice, PollEnd, EndRejected, PollBlock, PollTimeout, Reply,
           Accept, SendBlock, SendQuery, SendAck, Deliver, Reject, Abort, GiveUp, Lose,
           OnResponseTimeout, TransferTimeoutCheckHandler, TimeoutCheckPasses, OnDownloadTimeout,
           CheckIsLost, Fault, Calm, vars
  <2> QED
    BY <2>1, Disturbs
<1>3. ASSUME ~disturbed, NEW r \in Roles,
             \/ Poll(r) \/ PollTimeout(r) \/ Reply(r) \/ Deliver(r)
             \/ Reject(r) \/ Abort(r) \/ GiveUp(r) \/ Lose(r)
      PROVE  CalmInv'
  <2>1. CASE PollMessage(r)
    BY <1>3, <2>1, CalmPollMessage
  <2>2. CASE PollNotice(r)
    BY <1>3, <2>2, CalmPollNotice
  <2>3. CASE PollBlock
    BY <1>3, <2>3, CalmPollBlock
  <2>4. CASE PollEnd(r) \/ EndRejected(r)
    BY <1>0, <1>3, <2>4, CalmPollEnd
  <2>5. CASE PollTimeout(r)
    <3>1. sess[r].awaiting /\ disturbed' = (disturbed \/ Underway)
      BY <2>5 DEF PollTimeout
    <3>2. disturbed'
      BY <1>3, <3>1, CalmUnderway
    <3> QED
      BY <3>2, Disturbs
  <2>6. CASE Accept(r)
    BY <1>3, <2>6, CalmAccept
  <2>7. CASE SendBlock
    BY <1>3, <2>7, CalmSendBlock
  <2>8. CASE SendQuery
    BY <1>3, <2>8, CalmSendQuery
  <2>9. CASE SendAck
    BY <1>3, <2>9, CalmSendAck
  <2>10. CASE Deliver(r)
    BY <1>0, <1>3, <2>10, CalmDeliver
  <2>11. CASE Reject(r) \/ Abort(r) \/ GiveUp(r) \/ Lose(r)
    BY <2>11, Disturbs DEF Reject, Abort, GiveUp, Lose, Fault
  <2> QED
    BY <1>3, <2>1, <2>2, <2>3, <2>4, <2>5, <2>6, <2>7, <2>8, <2>9, <2>10, <2>11 DEF Poll, Reply
<1>4. CASE OnResponseTimeout
  BY <1>4, Disturbs DEF OnResponseTimeout, Fault
<1>5. ASSUME ~disturbed, OnDownloadTimeout
      PROVE  CalmInv'
  <2>1. disturbed' = (disturbed \/ Underway \/ ~sess["Receiver"].awaiting)
    BY <1>5 DEF OnDownloadTimeout
  <2>2. disturbed'
    BY <1>5, <2>1, CalmUnderway, PeerFacts
  <2> QED
    BY <2>2, Disturbs
<1>6. CASE TimeoutCheckPasses \/ CheckIsLost \/ UNCHANGED vars
  <2>1. UNCHANGED <<sess, chan, app, cursor, fresh, disturbed, released>>
    BY <1>6 DEF TimeoutCheckPasses, CheckIsLost, Calm, Data, vars
  <2>2. \A x \in Roles : Pipe(x)' = Pipe(x) /\ Heard(x)' = Heard(x)
    BY <2>1 DEF Pipe, Heard
  <2>3. /\ \A m : PassesTurn(m)' <=> PassesTurn(m)
        /\ \A x \in Roles : /\ HasTurn(x)' <=> HasTurn(x)
                            /\ Transfers(x)' <=> Transfers(x)
                            /\ Waits(x)' <=> Waits(x)
                            /\ InTransfer(x)' <=> InTransfer(x)
                            /\ Responding(x)' <=> Responding(x)
                            /\ Early(x)' <=> Early(x)
                            /\ Zeroed(sess[x])' <=> Zeroed(sess[x])
    BY <2>1 DEF PassesTurn, HasTurn, Transfers, Waits, InTransfer, Responding, Early, Zeroed
  <2>4. \A x \in Roles : /\ TurnOnItsWay(x)' <=> TurnOnItsWay(x)
                         /\ Silent(x)' <=> Silent(x)
                         /\ \A T : Said(x, T)' <=> Said(x, T)
    BY <2>2, <2>3 DEF TurnOnItsWay, Silent, Said
  <2>5. \A x \in Roles : Moves(x)' <=> Moves(x)
    BY <2>3, <2>4 DEF Moves
  <2>6. (\A x \in Roles : \A i : Ready(x, i)' <=> Ready(x, i)) /\ (Unanswered' <=> Unanswered)
    BY <2>1, <2>2, <2>3, Sides, PeerFacts DEF Ready, Unanswered
  <2> SUFFICES ASSUME ~disturbed PROVE CalmInv'
    BY <2>1 DEF CalmInv
  <2>7. ~released /\ InStep /\ Numbered /\ \A x \in Roles : Unhurt(x) /\ Introduced(x)
    BY DEF CalmInv
  <2>8. \A x \in Roles : Unhurt(x)'
    BY <2>1, <2>4, <2>7 DEF Unhurt
  <2>9. \A x \in Roles : Introduced(x)'
    BY <2>1, <2>2, <2>3, <2>4, <2>7, Sides DEF Introduced
  <2>10. InStep'
    BY <2>1, <2>2, <2>3, <2>4, <2>5, <2>7, Sides, PeerFacts DEF InStep
  <2>11. Numbered'
    BY <2>1, <2>2, <2>3, <2>4, <2>5, <2>6, <2>7, PeerFacts DEF Numbered
  <2> QED
    BY <2>1, <2>7, <2>8, <2>9, <2>10, <2>11 DEF CalmInv
<1> QED
  BY <1>1, <1>2, <1>3, <1>4, <1>5, <1>6 DEF Next, TransferTimeoutCheckHandler

(* Only the receiver's first poll says something to the sender, and then   *)
(* it has prepared.                                                        *)
LEMMA WatchStep ==
    ASSUME TypeOK, WatchFits, [Next]_vars
    PROVE  WatchFits'
<1>1. ASSUME NEW r \in Roles, Begin(r)
      PROVE  WatchFits'
  <2>1. chan'["Sender"] = <<>> /\ seen' = 0 /\ watch' \in {"Clock", "Preparing"}
    BY <1>1, PeerFacts DEF Begin
  <2> QED
    BY <2>1 DEF WatchFits, Watches
<1>2. ASSUME NEW r \in Roles, PollMessage(r)
      PROVE  WatchFits'
  <2>1. /\ seen' = seen /\ OnPreparedForDownload(r)
        /\ chan' = [chan EXCEPT ![Peer(r)] = Append(@, sess[r].msg)]
    BY <1>2 DEF PollMessage
  <2>2. CASE r = "Receiver"
    BY <2>1, <2>2 DEF OnPreparedForDownload, WatchFits, Watches, Preparing
  <2>3. CASE r = "Sender"
    <3>1. watch' = watch /\ chan'["Sender"] = chan["Sender"]
      BY <2>1, <2>3, PeerFacts DEF OnPreparedForDownload, TypeOK
    <3> QED
      BY <2>1, <3>1 DEF WatchFits, Preparing
  <2> QED
    BY <2>2, <2>3 DEF Roles
<1>3. ASSUME NEW r \in Roles, Deliver(r) \/ Lose(r)
      PROVE  WatchFits'
  <2>1. /\ UNCHANGED <<watch, seen>> /\ chan[r] # <<>>
        /\ chan'["Sender"] = chan["Sender"] \/ r = "Sender"
    BY <1>3, PeerFacts DEF Deliver, Lose, Book, TypeOK
  <2> QED
    BY <2>1 DEF WatchFits, Preparing
<1>4. CASE TimeoutCheckPasses \/ CheckIsLost
  <2>1. /\ watch' \in Watches /\ seen' \in Nat /\ (Preparing' => Preparing) /\ chan' = chan
    BY <1>4, PeerFacts
       DEF TimeoutCheckPasses, CheckIsLost, WatchFits, Watches, Preparing, TypeOK, Sessions
  <2> QED
    BY <2>1 DEF WatchFits
<1>5. ASSUME NEW r \in Roles,
             \/ PollNotice(r) \/ PollEnd(r) \/ EndRejected(r) \/ PollBlock \/ PollTimeout(r)
             \/ Accept(r) \/ SendBlock \/ SendQuery \/ SendAck
             \/ Reject(r) \/ Abort(r) \/ GiveUp(r) \/ OnResponseTimeout \/ OnDownloadTimeout
             \/ UNCHANGED vars
      PROVE  WatchFits'
  <2>1. UNCHANGED <<chan, watch, seen>>
    BY <1>5
       DEF PollNotice, PollEnd, EndRejected, PollBlock, PollTimeout, Accept, SendBlock, SendQuery,
           SendAck, Reject, Abort, GiveUp, OnResponseTimeout, OnDownloadTimeout, Tell, Book, vars
  <2> QED
    BY <2>1 DEF WatchFits, Preparing
<1> QED
  BY <1>1, <1>2, <1>3, <1>4, <1>5, PeerFacts
     DEF Next, Poll, Reply, TransferTimeoutCheckHandler

(* The inductive invariant of an undisturbed transfer: the turn is         *)
(* somewhere, the side that moves has heard all the other has said, and    *)
(* every message on its way finds the session that waits for it, with the  *)
(* control mode, the block counter and the length that its handler checks  *)
(* (the VerifyOrReturn lines of HandleTransferInit, HandleSendAccept,      *)
(* HandleReceiveAccept, HandleBlock and its kin).                          *)
THEOREM CalmInvTheorem == Spec => []CalmInv
<1>1. Init => CalmInv
  BY CalmInit
<1>2. TurnInv /\ CalmInv /\ [Next]_vars => CalmInv'
  BY CalmNext
<1> QED
  BY <1>1, <1>2, TurnInvTheorem, PTL DEF Spec

(* Two sides that keep to the interface never meet a protocol error, for   *)
(* files of any length, any skips and either way to drive: a session       *)
(* prepares a status report, or its application fails, only after a        *)
(* message was lost or refused or a side timed out, gave up, rejected or   *)
(* aborted (PrepareStatusReport and the handlers that call it).            *)
THEOREM NoProtocolErrorTheorem == Spec => []NoProtocolError
<1>1. CalmInv => NoProtocolError
  BY DEF CalmInv, NoProtocolError, Unhurt
<1> QED
  BY <1>1, CalmInvTheorem, PTL

(* The two session objects agree in every reachable state: types, turn,    *)
(* cursors and image always, counters and expectations as long as nothing  *)
(* disturbed the transfer (the handlers and Prepare methods of             *)
(* TransferSession).                                                       *)
THEOREM SessionsAgreeTheorem == Spec => []SessionsAgree
<1>1. TurnInv /\ WatchFits /\ CalmInv /\ NoProtocolError /\ OneDriver => SessionsAgree
  BY DEF SessionsAgree
<1>2. Init => WatchFits
  BY DEF Init, WatchFits, Watches, Preparing
<1>3. TurnInv /\ WatchFits /\ [Next]_vars => WatchFits'
  BY WatchStep DEF TurnInv
<1> QED
  BY <1>1, <1>2, <1>3, TurnInvTheorem, CalmInvTheorem, NoProtocolErrorTheorem, OneDriverTheorem,
     PTL DEF Spec
=============================================================================
