------------------------- MODULE ReliableMessaging -------------------------
(***************************************************************************)
(* The Message Reliability Protocol (MRP) between two nodes: one exchange,  *)
(* its ExchangeContext and ReliableMessageContext at each end, the entry    *)
(* each end may have in the retransmission table, the session's message     *)
(* counters and replay window, and the ExchangeManager's dispatch.          *)
(*                                                                          *)
(* The initiator "I" and the responder "R" hold a conversation of           *)
(* NumMessages application messages: I sends the odd ones, R the even ones,  *)
(* each in answer to the one before.  The network loses, delays and          *)
(* reorders packets, and duplicates MaxDups of them beyond the              *)
(* retransmissions.                                                         *)
(*                                                                          *)
(* A handler is a function from the record of a node to its next record:    *)
(* the code calls itself back (SendMessage closes, closing flushes acks,    *)
(* flushing sends), and a composition of functions keeps that order.        *)
(***************************************************************************)
EXTENDS PeerMessageCounter, FiniteSets, Sequences

CONSTANTS
    NumMessages,    \* length of the conversation
    MaxRetrans,     \* CHIP_CONFIG_RMP_DEFAULT_MAX_RETRANS
    MaxDups,        \* bound on packets duplicated by the network
    MaxErrors,      \* bound on steps in which packets are not taken
    Refusals,       \* how R may fail to open an exchange: subset of
                    \* {"HandlerError", "PoolFull"}
    AppCloses,      \* how an application may give up an exchange that waits for
                    \* a response: subset of {"Close", "Abort"}
    AppReplies,     \* what an application does with a message: subset of
                    \* {"now", "later", "ignore"}
    Releasing,      \* nodes whose session may be released
    Timeouts        \* the sets of nodes that may have set a response timeout

ASSUME ConversationAssumption ==
    /\ NumMessages \in Nat \ {0} /\ MaxRetrans \in Nat
    /\ MaxDups \in Nat /\ MaxErrors \in Nat
    /\ Refusals \subseteq {"HandlerError", "PoolFull"}
    /\ AppCloses \subseteq {"Close", "Abort"}
    /\ AppReplies \subseteq {"now", "later", "ignore"}
    /\ Releasing \subseteq {"I", "R"} /\ Timeouts \subseteq SUBSET {"I", "R"}

Node == {"I", "R"}
Peer(n) == IF n = "I" THEN "R" ELSE "I"
Sender(k) == IF k % 2 = 1 THEN "I" ELSE "R"
AppMessage == 1 .. NumMessages

\* A request is sent with kExpectResponse, the last message without.
ExpectsResponse(k) == k < NumMessages

\* seq is 0 in a standalone ack, ack is 0 when no ack is piggybacked.
Packet == [from : Node, ctr : Counter, seq : 0 .. NumMessages, ack : Counter, needsAck : BOOLEAN]

(***************************************************************************)
(* How a step's sends fare: packets are taken; the retransmission table is   *)
(* full of other exchanges' messages; the transport refuses with an error    *)
(* that IsSendErrorNonCritical excuses, or with another one.  ENOBUFS, which *)
(* MapSendError hides, is a packet that the network loses.                   *)
(***************************************************************************)
Outcome == {"taken", "tableFull", "noncritical", "critical"}
Refused(ok) == ok \in {"noncritical", "critical"}

NoEntry == [ctr |-> 0, seq |-> 0, ack |-> 0, sendCount |-> 0]

VARIABLES
    node,       \* the state of each node, see NodeStates
    net,        \* packets in flight
    dups,       \* packets the network has duplicated
    errors      \* steps in which packets were not taken

vars == <<node, net, dups, errors>>

Fates == {"unsent", "waiting", "acked", "expired", "refused", "cleared"}

(***************************************************************************)
(* An exchange context: its flags, its reference count (the application's    *)
(* or the exchange layer's own reference, and one of the retransmission      *)
(* entry), its response timer.  Its delegate is null once it is closed.      *)
(***************************************************************************)
NoExchange ==
    [alloc |-> FALSE, refs |-> 0, closed |-> FALSE, willSend |-> FALSE,
     respExpected |-> FALSE, waitRespOrAck |-> FALSE, timer |-> FALSE,
     ackPending |-> FALSE, ackValid |-> FALSE, ackCtr |-> 0, entry |-> NoEntry]

\* The constructor: an initiator creates an exchange in order to send on it.
NewExchange(n) == [NoExchange EXCEPT !.alloc = TRUE, !.refs = 1, !.willSend = (n = "I")]

Entries == [ctr : Counter, seq : 0 .. NumMessages, ack : Counter, sendCount : 0 .. MaxRetrans]

Contexts ==
    [alloc : BOOLEAN, refs : 0 .. 2, closed : BOOLEAN, willSend : BOOLEAN,
     respExpected : BOOLEAN, waitRespOrAck : BOOLEAN, timer : BOOLEAN,
     ackPending : BOOLEAN, ackValid : BOOLEAN, ackCtr : Counter, entry : Entries]

NodeStates ==
    [ec : Contexts,
     name : Node,
     lastCtr : Counter,                             \* LocalSessionMessageCounter
     peer : PeerCounters,                           \* PeerMessageCounter
     session : {"active", "defunct", "released"},
     next : 0 .. NumMessages,                       \* message the application is to send
     timed : BOOLEAN,                               \* mResponseTimeout > 0
     (* History: *)
     hang : BOOLEAN,                                \* a session hang was reported
     fate : [AppMessage -> Fates],                  \* what became of a message sent
     arrived : SUBSET AppMessage,                   \* accepted as new by the session
     delivered : Seq(AppMessage),                   \* handed to the application
     dropped : BOOLEAN,                             \* dropped for want of an ack
     out : SUBSET Packet]                           \* packets sent in this step

Init ==
    /\ \E timeouts \in Timeouts :
          node = [n \in Node |->
                [ec |-> NoExchange, name |-> n, lastCtr |-> 0,
                 peer |-> SetCounter(InitialSyncValue), session |-> "active",
                 next |-> IF n = "I" THEN 1 ELSE 0, timed |-> n \in timeouts,
                 hang |-> FALSE, fate |-> [k \in AppMessage |-> "unsent"],
                 arrived |-> {}, delivered |-> <<>>, dropped |-> FALSE, out |-> {}]]
    /\ net = {}
    /\ dups = 0
    /\ errors = 0

-----------------------------------------------------------------------------
(* The retransmission table: at most one entry per exchange, which holds a   *)
(* reference to it.  kFlagWaitingForAck is the existence of the entry.        *)

WaitingForAck(x) == x.ec.entry # NoEntry

RemoveEntry(x, fate) ==
    [x EXCEPT !.fate[x.ec.entry.seq] = fate, !.ec.entry = NoEntry, !.ec.refs = @ - 1]

ClearRetransTable(x) == IF WaitingForAck(x) THEN RemoveEntry(x, "cleared") ELSE x

MarkAsDefunct(x) == [x EXCEPT !.session = IF @ = "active" THEN "defunct" ELSE @]

SetResponseExpected(x, b) == [x EXCEPT !.ec.respExpected = b, !.ec.waitRespOrAck = b]

(***************************************************************************)
(* ExchangeMessageDispatch::SendMessage and the session below it.  The       *)
(* pending ack is taken first, and the message counter is used up before the  *)
(* transport is asked: neither is undone when the send then fails.           *)
(***************************************************************************)
CannotPrepare(x, seq, ok) ==
    \/ seq # 0 /\ (WaitingForAck(x) \/ ok = "tableFull")     \* AddToRetransTable
    \/ x.lastCtr = CounterRange - 1         \* CHIP_ERROR_MESSAGE_COUNTER_EXHAUSTED

DispatchFails(x, seq, ok) == CannotPrepare(x, seq, ok) \/ Refused(ok)

TakeAck(x) == [x EXCEPT !.ec.ackPending = FALSE]

\* Packet p has gone out; an application message enters the table.
Sent(x, p) ==
    LET out == [x EXCEPT !.lastCtr = p.ctr, !.out = @ \cup {p}]
    IN  IF p.needsAck
        THEN [out EXCEPT !.ec.entry = [ctr |-> p.ctr, seq |-> p.seq, ack |-> p.ack, sendCount |-> 0],
                         !.ec.refs = @ + 1, !.fate[p.seq] = "waiting"]
        ELSE out

NextPacket(x, seq, ack) ==
    [from |-> x.name, ctr |-> x.lastCtr + 1, seq |-> seq, ack |-> ack, needsAck |-> seq # 0]

Dispatch(x, seq, ok) ==
    IF CannotPrepare(x, seq, ok) THEN TakeAck(x)
    ELSE IF Refused(ok) THEN [TakeAck(x) EXCEPT !.lastCtr = @ + 1]
    ELSE Sent(TakeAck(x), NextPacket(x, seq, IF x.ec.ackValid THEN x.ec.ackCtr ELSE 0))

HasSession(x) == x.session # "released"

\* ReliableMessageContext::SendStandaloneAckMessage, an ExchangeContext::SendMessage
\* without kExpectResponse that leaves the application's flags alone.
SendStandaloneAckMessage(x, ok) ==
    IF ~HasSession(x) THEN x
    ELSE LET sent == Dispatch(x, 0, ok)
         IN  IF DispatchFails(x, 0, ok) THEN MarkAsDefunct(sent) ELSE sent

\* The error SendStandaloneAckMessage returns: a noncritical one is not told.
AckFails(x, ok) == CannotPrepare(x, 0, ok) \/ ok = "critical"

FlushAcks(x, ok) == IF x.ec.ackPending THEN SendStandaloneAckMessage(x, ok) ELSE x

(***************************************************************************)
(* Closing.  DoClose leaves kFlagResponseExpected set when it cancels the    *)
(* response timer.                                                           *)
(***************************************************************************)
DoClose(x, clearRetransTable, ok) ==
    IF x.ec.closed THEN x
    ELSE LET flushed == FlushAcks([x EXCEPT !.ec.closed = TRUE], ok)
             cleared == IF clearRetransTable THEN ClearRetransTable(flushed) ELSE flushed
         IN  [cleared EXCEPT !.ec.timer = FALSE]

Release(x) == [x EXCEPT !.ec.refs = @ - 1]

Close(x, ok) == Release(DoClose(x, FALSE, ok))
Abort(x, ok) == Release(DoClose(x, TRUE, ok))

MessageHandled(x, ok) ==
    IF x.ec.closed \/ x.ec.respExpected \/ x.ec.willSend THEN x ELSE Close(x, ok)

\* The deletor: the context goes back to the pool with its last reference.
Free(x) == IF x.ec.alloc /\ x.ec.refs = 0 THEN [x EXCEPT !.ec = NoExchange] ELSE x

(***************************************************************************)
(* ExchangeContext::SendMessage for an application message.  The response    *)
(* timer is armed only if a response timeout was set, and only then does a   *)
(* failed send take kFlagResponseExpected back.                              *)
(***************************************************************************)
SendMessage(x, k, ok) ==
    IF ~HasSession(x) \/ (ExpectsResponse(k) /\ x.ec.respExpected) THEN x
    ELSE LET expecting == IF ExpectsResponse(k)
                          THEN [SetResponseExpected(x, TRUE) EXCEPT !.ec.timer = x.timed] ELSE x
             sent == Dispatch(expecting, k, ok)
             undone == IF ExpectsResponse(k) /\ x.timed
                       THEN [SetResponseExpected(sent, FALSE) EXCEPT !.ec.timer = FALSE] ELSE sent
         IN  IF DispatchFails(x, k, ok) THEN MarkAsDefunct(undone)
             ELSE MessageHandled([sent EXCEPT !.ec.willSend = FALSE, !.next = 0], ok)

-----------------------------------------------------------------------------
(* Reception.                                                                *)

\* mutant: any ack on the exchange removes the entry
HandleRcvdAckAny(x, ack) ==
    IF WaitingForAck(x)
    THEN [RemoveEntry(x, "acked") EXCEPT !.ec.waitRespOrAck = FALSE]
    ELSE x

\* mutant: the ack is not remembered for the response timeout
HandleRcvdAckKeepsFlag(x, ack) ==
    IF WaitingForAck(x) /\ x.ec.entry.ctr = ack THEN RemoveEntry(x, "acked") ELSE x

\* A piggybacked or standalone ack removes the entry it names.
HandleRcvdAck(x, ack) ==
    IF WaitingForAck(x) /\ x.ec.entry.ctr = ack
    THEN [RemoveEntry(x, "acked") EXCEPT !.ec.waitRespOrAck = FALSE]
    ELSE x

SetPendingAck(x, ctr) ==
    [x EXCEPT !.ec.ackCtr = ctr, !.ec.ackPending = TRUE, !.ec.ackValid = TRUE]

\* A duplicate is acked at once, and the ack owed before is restored; a new
\* message displaces an ack that is still owed, which is sent first.
HandleNeedsAck(x, ctr, dup, ok) ==
    IF dup
    THEN LET sent == SendStandaloneAckMessage(SetPendingAck(x, ctr), ok)
         IN  IF x.ec.ackPending /\ x.ec.ackCtr # ctr THEN SetPendingAck(sent, x.ec.ackCtr)
             ELSE IF x.ec.ackValid THEN [sent EXCEPT !.ec.ackCtr = x.ec.ackCtr]
             ELSE sent
    ELSE IF ~x.ec.ackPending THEN SetPendingAck(x, ctr)
    ELSE LET sent == SendStandaloneAckMessage(x, ok)
         IN  IF AckFails(x, ok) THEN sent ELSE SetPendingAck(sent, ctr)

(***************************************************************************)
(* The application's OnMessageReceived for message k (external): it answers   *)
(* with message k + 1 before it returns ("now"), promises to (WillSendMessage,*)
(* "later") or does neither ("ignore").                                      *)
(***************************************************************************)
OnMessageReceived(x, k, app, ok) ==
    LET got == [x EXCEPT !.delivered = Append(@, k)]
    IN  CASE app = "now" /\ k < NumMessages -> SendMessage(got, k + 1, ok)
          [] app = "later" /\ k < NumMessages ->
               [got EXCEPT !.ec.willSend = TRUE, !.next = k + 1]
          [] OTHER -> got

\* ExchangeContext::HandleMessage.
HandleMessage(x, p, dup, app, ok) ==
    LET acked == IF ~dup /\ p.ack # 0 THEN HandleRcvdAck(x, p.ack) ELSE x
        needed == IF p.needsAck THEN HandleNeedsAck(acked, p.ctr, dup, ok) ELSE acked
        flushed == IF needed.ec.closed THEN FlushAcks(needed, ok) ELSE needed
        flushFails == needed.ec.closed /\ needed.ec.ackPending /\ AckFails(needed, ok)
        answered == IF flushed.ec.respExpected
                    THEN [SetResponseExpected(flushed, FALSE) EXCEPT !.ec.timer = FALSE]
                    ELSE flushed
    IN  IF p.seq = 0 \/ dup \/ flushFails THEN flushed
        ELSE IF WaitingForAck(flushed)
             THEN MessageHandled([flushed EXCEPT !.dropped = TRUE], ok)
        ELSE IF answered.ec.closed THEN answered
        ELSE MessageHandled(OnMessageReceived(answered, p.seq, app, ok), ok)

\* ExchangeManager::SendStandaloneAckIfNeeded: an ephemeral exchange, of which
\* only the ack it sends and the session outlive the step.
EphemeralAck(x, p, ok) ==
    IF ~p.needsAck THEN x
    ELSE LET sent == SendStandaloneAckMessage([x EXCEPT !.ec = SetPendingAck(
                                                 [x EXCEPT !.ec = NoExchange], p.ctr).ec], ok)
         IN  [sent EXCEPT !.ec = x.ec]

(***************************************************************************)
(* ExchangeManager::OnMessageReceived.  open says what becomes of an attempt *)
(* to open an exchange: "Opened", or one of Refusals.                        *)
(***************************************************************************)
OnPacket(x, p, dup, app, open, ok) ==
    IF x.ec.alloc THEN HandleMessage(x, p, dup, app, ok)
    ELSE IF dup \/ p.from # "I" \/ p.seq = 0
         THEN IF open = "PoolFull" THEN x ELSE EphemeralAck(x, p, ok)
    ELSE CASE open = "Opened" ->
                HandleMessage([x EXCEPT !.ec = NewExchange(x.name)], p, dup, app, ok)
           [] open = "HandlerError" -> EphemeralAck(x, p, ok)
           [] open = "PoolFull" -> x

\* SessionManager::SecureUnicastMessageDispatch: verify, revive a defunct
\* session, drop a duplicate that needs no ack, commit.
SecureUnicastMessageDispatch(x, p, app, open, ok) ==
    LET dup == ~VerifyEncryptedUnicast(x.peer, p.ctr)
        live == [x EXCEPT !.session = "active"]
        committed == [live EXCEPT !.peer = CommitEncryptedUnicast(@, p.ctr),
                                  !.arrived = IF p.seq = 0 THEN @ ELSE @ \cup {p.seq}]
    IN  IF ~dup THEN OnPacket(committed, p, dup, app, open, ok)
        ELSE IF p.needsAck THEN OnPacket(live, p, dup, app, open, ok)
        ELSE live

-----------------------------------------------------------------------------
(* Timers.                                                                   *)

\* mutant: kFlagResponseExpected is not cleared
NotifyResponseTimeoutKeepsFlag(x, closeIfNeeded, ok) ==
    LET expired == [x EXCEPT !.ec.timer = FALSE]
        told == IF HasSession(x) /\ x.ec.waitRespOrAck
                THEN [MarkAsDefunct(expired) EXCEPT !.hang = TRUE] ELSE expired
    IN  IF closeIfNeeded THEN MessageHandled(told, ok) ELSE told

\* NotifyResponseTimeout.  The session may be fine when the request was acked.
NotifyResponseTimeout(x, closeIfNeeded, ok) ==
    LET gotMRPAck == ~x.ec.waitRespOrAck
        expired == [SetResponseExpected(x, FALSE) EXCEPT !.ec.timer = FALSE]
        told == IF HasSession(x) /\ ~gotMRPAck
                THEN [MarkAsDefunct(expired) EXCEPT !.hang = TRUE] ELSE expired
    IN  IF closeIfNeeded THEN MessageHandled(told, ok) ELSE told

\* mutant: the hang is not reported
GiveUpQuietly(x) == RemoveEntry(x, "expired")

\* The end of ExecuteActions for an entry whose retransmissions are used up.
GiveUp(x) ==
    LET told == IF x.ec.respExpected THEN x
                ELSE [MarkAsDefunct(x) EXCEPT !.hang = TRUE]
    IN  RemoveEntry(told, "expired")

\* mutant: an exchange that was closed before is released again
OnSessionReleasedAborts(x, ok) ==
    LET lost == [x EXCEPT !.session = "released"]
    IN  IF ~x.ec.alloc THEN lost
        ELSE IF x.ec.closed THEN Release(ClearRetransTable(lost))
        ELSE IF x.ec.willSend THEN DoClose(lost, TRUE, ok)
        ELSE Abort(NotifyResponseTimeout(lost, FALSE, ok), ok)

\* OnSessionReleased.  The exchange has lost its session already.  (An exchange
\* that calls AbortAllOtherCommunicationOnFabric ignores the release and takes
\* the session back before the call returns: it goes on as before.)
OnSessionReleased(x, ok) ==
    LET lost == [x EXCEPT !.session = "released"]
        told == IF x.ec.respExpected THEN NotifyResponseTimeout(lost, FALSE, ok) ELSE lost
    IN  IF ~x.ec.alloc THEN lost
        ELSE IF x.ec.closed THEN ClearRetransTable(lost)
        ELSE IF x.ec.willSend THEN DoClose(lost, TRUE, ok)
        ELSE Abort(told, ok)

-----------------------------------------------------------------------------
(* Actions.                                                                  *)

\* The step takes node n to record x: freed exchanges go, packets enter net.
Become(n, x, ok, netLeft) ==
    /\ errors' = IF ok = "taken" THEN errors ELSE errors + 1
    /\ errors' <= MaxErrors
    /\ net' = netLeft \cup x.out
    /\ node' = [node EXCEPT ![n] = [Free(x) EXCEPT !.out = {}]]

\* ExchangeManager::NewContext.
NewContext ==
    /\ node["I"].next = 1
    /\ ~node["I"].ec.alloc
    /\ node["I"].session = "active"
    /\ node' = [node EXCEPT !["I"].ec = NewExchange("I")]
    /\ UNCHANGED <<net, dups, errors>>

\* The application sends the message it owes.
AppSend(n, ok) ==
    LET x == node[n]
    IN  /\ x.ec.alloc /\ x.ec.willSend /\ x.next # 0
        /\ Become(n, SendMessage(x, x.next, ok), ok, net)
        /\ UNCHANGED dups

\* The application that owes a message gives the exchange up, by Close or
\* Abort, which do the same as there is nothing to retransmit.
AppGiveUp(n, ok) ==
    LET x == node[n]
    IN  /\ x.ec.alloc /\ x.ec.willSend
        /\ Become(n, [Close(x, ok) EXCEPT !.next = 0], ok, net)
        /\ UNCHANGED dups

\* The application no longer wants the response it is waiting for.
AppLeave(n, how, ok) ==
    LET x == node[n]
    IN  /\ x.ec.alloc /\ x.ec.respExpected /\ ~x.ec.willSend /\ ~x.ec.closed
        /\ Become(n, IF how = "Close" THEN Close(x, ok) ELSE Abort(x, ok), ok, net)
        /\ UNCHANGED dups

Receive(n, p, keep, app, open, ok) ==
    /\ p.from = Peer(n)
    /\ HasSession(node[n])
    /\ dups' = IF keep THEN dups + 1 ELSE dups
    /\ dups' <= MaxDups
    /\ Become(n, SecureUnicastMessageDispatch(node[n], p, app, open, ok), ok,
              IF keep THEN net ELSE net \ {p})

\* ReliableMessageMgr::ExecuteActions, an ack that is due.
AckTimeout(n, ok) ==
    /\ node[n].ec.ackPending
    /\ Become(n, SendStandaloneAckMessage(node[n], ok), ok, net)
    /\ UNCHANGED dups

\* ReliableMessageMgr::ExecuteActions and SendFromRetransTable, an entry that
\* is due.  A send that fails takes the entry out of the table.
Retransmit(n, ok) ==
    LET x == node[n]
        e == x.ec.entry
        p == [from |-> n, ctr |-> e.ctr, seq |-> e.seq, ack |-> e.ack, needsAck |-> TRUE]
        counted == [x EXCEPT !.ec.entry.sendCount = @ + 1, !.out = {p}]
    IN  /\ WaitingForAck(x)
        /\ e.sendCount = MaxRetrans => ok = "taken"
        /\ Become(n, IF e.sendCount = MaxRetrans THEN GiveUp(x)
                     ELSE IF Refused(ok) THEN RemoveEntry(x, "refused") ELSE counted, ok, net)
        /\ UNCHANGED dups

ResponseTimeout(n, ok) ==
    /\ node[n].ec.timer
    /\ Become(n, NotifyResponseTimeout(node[n], TRUE, ok), ok, net)
    /\ UNCHANGED dups

ReleaseSession(n) ==
    /\ HasSession(node[n])
    /\ Become(n, OnSessionReleased(node[n], "taken"), "taken", net)
    /\ UNCHANGED dups

\* An application has a choice only with a message it may answer, and an
\* exchange is opened only where there is none.
Replies(p) == IF p.seq \in 1 .. NumMessages - 1 THEN AppReplies ELSE {"ignore"}
Openings(n) == {"Opened"} \cup (IF node[n].ec.alloc THEN {} ELSE Refusals)

Next ==
    \/ NewContext
    \/ \E n \in Node, ok \in Outcome :
          \/ AppSend(n, ok)
          \/ AppGiveUp(n, ok)
          \/ \E how \in AppCloses : AppLeave(n, how, ok)
          \/ \E p \in net : \E keep \in BOOLEAN, app \in Replies(p), open \in Openings(n) :
                Receive(n, p, keep, app, open, ok)
          \/ AckTimeout(n, ok)
          \/ Retransmit(n, ok)
          \/ ResponseTimeout(n, ok)
    \/ \E n \in Releasing : ReleaseSession(n)

Spec == Init /\ [][Next]_vars

(***************************************************************************)
(* Timers that are armed fire, and the owner of an exchange sends on it or    *)
(* closes it, as ExchangeDelegate.h requires.  Nothing is assumed of the     *)
(* network.                                                                  *)
(***************************************************************************)
Fairness ==
    \A n \in Node :
        /\ WF_vars(AppGiveUp(n, "taken"))
        /\ WF_vars(AckTimeout(n, "taken"))
        /\ WF_vars(Retransmit(n, "taken"))
        /\ WF_vars(ResponseTimeout(n, "taken"))

FairSpec == Spec /\ Fairness

-----------------------------------------------------------------------------
TypeOK ==
    /\ node \in [Node -> NodeStates]
    /\ \A n \in Node : node[n].name = n /\ node[n].out = {}
    /\ net \subseteq Packet
    /\ dups \in 0 .. MaxDups
    /\ errors \in 0 .. MaxErrors

(***************************************************************************)
(* The inductive invariant.  First what one node keeps true by itself.       *)
(***************************************************************************)
\* Ownership of an exchange context (ExchangeDelegate.h rules 1 to 7): its
\* references are that of its retransmission entry and one more, which belongs
\* to the exchange layer until the exchange is closed and to the application
\* as long as it owes a message.  So no exchange is released twice, and none
\* is left without an owner that will release it.
RefCountExact(x) ==
    /\ ~x.ec.alloc => x.ec = NoExchange
    /\ x.ec.alloc => x.ec.refs = (IF WaitingForAck(x) THEN 1 ELSE 0)
                                 + (IF x.ec.closed /\ ~x.ec.willSend THEN 0 ELSE 1)

\* The response x expects is one to a message that was never sent: without a
\* response timeout a send that failed leaves kFlagResponseExpected set
\* (ExchangeContext.cpp:182), and SendMessage refuses every other request.
NeverSent(x) == ~x.timed /\ x.ec.waitRespOrAck /\ ~WaitingForAck(x)

\* An application that is to send can: its exchange has no entry in the
\* retransmission table, so that AddToRetransTable does not refuse, awaits no
\* response unless NeverSent, and is closed only if its session is gone.
CanAnswer(x) ==
    x.ec.willSend => /\ ~WaitingForAck(x)
                     /\ x.ec.respExpected => NeverSent(x)
                     /\ x.ec.closed => ~HasSession(x)

IsSent(x, k) == x.fate[k] # "unsent"
IsLastSent(x, k) == k \in AppMessage /\ IsSent(x, k) /\ \A j \in AppMessage : IsSent(x, j) => j <= k

\* The entry of the table is for the last message sent.
EntryIsLastSent(x) ==
    WaitingForAck(x) => /\ IsLastSent(x, x.ec.entry.seq) /\ x.fate[x.ec.entry.seq] = "waiting"
                        /\ x.ec.entry.ctr \in 1 .. x.lastCtr

\* kFlagWaitingForResponseOrAck is set exactly while a response is expected to
\* a message that has not been acked (or NeverSent), so that a response timeout blames the
\* session only when nothing came back (ReliableMessageContext.h:182).
WaitFlagExact(x) ==
    /\ x.ec.waitRespOrAck => x.ec.respExpected
    /\ x.ec.respExpected /\ ~NeverSent(x) =>
          \E k \in AppMessage : IsLastSent(x, k) /\ (x.ec.waitRespOrAck <=> x.fate[k] # "acked")

\* Who awaits a response to a message in the table has armed the timer for it
\* if a timeout was set, unless applications close exchanges that await one.
TimerArmed(x) ==
    "Close" \notin AppCloses /\ x.ec.respExpected /\ WaitingForAck(x) =>
        (x.timed => x.ec.timer) /\ ~x.ec.closed

\* The message that was last handed to the application of x, or the one before
\* its first.
Heard(x) == 2 * Len(x.delivered) - (IF x.name = "I" THEN 0 ELSE 1)

\* A node takes part in the conversation: it was handed its messages one by
\* one, has sent answers to them only, and owes at most the next answer.
TakesTurns(x) ==
    /\ \A i \in DOMAIN x.delivered :
          /\ x.delivered[i] = 2 * i - (IF x.name = "I" THEN 0 ELSE 1)
          /\ x.delivered[i] \in x.arrived
    /\ \A k \in AppMessage : IsSent(x, k) => Sender(k) = x.name /\ k <= Heard(x) + 1
    /\ x.next # 0 => x.next = Heard(x) + 1 /\ ~IsSent(x, x.next)

NodeInv(x) ==
    /\ RefCountExact(x) /\ CanAnswer(x) /\ EntryIsLastSent(x)
    /\ WaitFlagExact(x) /\ TimerArmed(x) /\ TakesTurns(x)

\* Then what connects the two.  Message k is under way with counter c.
Carries(k, c) ==
    \/ \E p \in net : p.seq = k /\ p.ctr = c
    \/ \E n \in Node : WaitingForAck(node[n]) /\ node[n].ec.entry.seq = k /\ node[n].ec.entry.ctr = c

\* A packet was sent by the node it names, with a counter that node has used.
PacketsAreSent ==
    \A p \in net :
        /\ p.ctr \in 1 .. node[p.from].lastCtr
        /\ p.needsAck <=> p.seq # 0
        /\ p.seq # 0 => IsSent(node[p.from], p.seq)

\* A message keeps its counter in every retransmission, and once it has arrived
\* the replay window of its receiver refuses that counter.
ArrivesOnce ==
    \A k \in AppMessage :
        /\ \A n \in Node : k \in node[n].arrived => IsSent(node[Peer(n)], k)
        /\ \A c, d \in Counter : Carries(k, c) /\ Carries(k, d) => c = d
        /\ \A c \in Counter, n \in Node :
              Carries(k, c) /\ k \in node[n].arrived => ~VerifyEncryptedUnicast(node[n].peer, c)

\* Contexts are well formed and exactly as alive as their owners need, their
\* flags agree with the retransmission table and with each other, and the two
\* nodes are at the same place of the conversation.
ExchangeInv ==
    /\ TypeOK /\ \A n \in Node : NodeInv(node[n])
    /\ PacketsAreSent /\ ArrivesOnce

\* Messages reach an application at most once and in the order of the
\* conversation, however packets are retransmitted, duplicated and reordered
\* and whether or not the exchange is still open (HandleMessage,
\* OnMessageReceived).
InOrderOnce ==
    \A n \in Node : \A i, j \in DOMAIN node[n].delivered :
        i < j => node[n].delivered[i] < node[n].delivered[j]

\* A message whose entry was removed by an ack was accepted by the peer's
\* session: an ack never names a message it was not sent for (HandleRcvdAck,
\* HandleNeedsAckInner's save and restore of the pending ack).
AckMeansArrived ==
    \A k \in AppMessage :
        node[Sender(k)].fate[k] = "acked" => k \in node[Peer(Sender(k))].arrived

\* "The only way we can get here is a spec violation on the other side":
\* between two nodes that run this code no message is dropped because it
\* came without the ack its receiver was waiting for (ExchangeContext.cpp:577).
NeverDroppedForWantOfAck == \A n \in Node : ~node[n].dropped

\* The flags of a context tell the truth about the conversation: WaitFlagExact,
\* CanAnswer and NeverDroppedForWantOfAck.
FlagsTellTheTruth ==
    (\A n \in Node : WaitFlagExact(node[n]) /\ CanAnswer(node[n])) /\ NeverDroppedForWantOfAck

\* "If the exchange is expecting a response, it will handle sending this
\* notification once it detects that it has not gotten a response": when a
\* message is given up after its last retransmission, the session is reported
\* as hung, or a response timer is armed that will report it
\* (ReliableMessageMgr.cpp:158).  The one exception is a request sent without a
\* response timeout, which is reported to nobody (ExchangeContext.cpp:128).
ExpiredIsReported ==
    [][ \A n \in Node : \A k \in AppMessage :
            node[n].fate[k] # "expired" /\ node'[n].fate[k] = "expired" =>
                \/ node'[n].hang \/ node'[n].ec.timer
                \/ ~node[n].timed /\ node[n].ec.respExpected ]_vars

\* "Set a timer to go off when we next need to wake the system": the timer for
\* a pending ack is armed only while the ack can be sent.  Without a session
\* SendMessage fails before it takes the ack, which stays due, and StartTimer
\* asks for a wake-up after 0 ms, again and again (ReliableMessageMgr.h:166).
PendingAckHasSession == \A n \in Node : node[n].ec.ackPending => HasSession(node[n])

\* Every exchange context goes back to the pool of
\* CHIP_CONFIG_MAX_EXCHANGE_CONTEXTS: whatever is lost, the timers and the
\* application's duty to close what it owes a message on suffice.  Without a
\* response timeout no timer is armed, and an exchange that awaits a response
\* stays until its application closes it (ExchangeContext.cpp:128).
ExchangeFreed ==
    \A n \in Node :
        node[n].ec.alloc ~>
            (~node[n].ec.alloc \/ (~node[n].timed /\ node[n].ec.respExpected /\ ~node[n].ec.closed))

-----------------------------------------------------------------------------
(* The mapping of this state to that of the abstract specification.          *)

Occurrences(k, seq) == Cardinality({i \in DOMAIN seq : seq[i] = k})

Promise == INSTANCE Conversation WITH
    sent <- {k \in AppMessage : node[Sender(k)].fate[k] # "unsent"},
    arrived <- {k \in AppMessage : k \in node[Peer(Sender(k))].arrived},
    deliveries <- [k \in AppMessage |-> Occurrences(k, node[Peer(Sender(k))].delivered)],
    confirmed <- {k \in AppMessage : node[Sender(k)].fate[k] = "acked"}

\* Retransmission, acknowledgement, the replay window and the exchange
\* contexts together implement the conversation the applications rely on.
ImplementsConversation == Promise!Spec
=============================================================================
