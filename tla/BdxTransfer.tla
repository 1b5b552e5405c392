---------------------------- MODULE BdxTransfer ----------------------------
(***************************************************************************)
(* Bulk data exchange: two bdx::TransferSession state machines, each       *)
(* polled by its application, moving one file over one exchange.           *)
(*                                                                         *)
(* A TransferSession is a record; the operators named after its methods    *)
(* map a session to the session the method leaves behind.  An application  *)
(* reads its session only through PollOutput (the poll timer of            *)
(* TransferFacilitator, or the loop of BDXDownloader), so a message that   *)
(* arrives before the last output was polled meets a busy session.         *)
(*                                                                         *)
(* The file is FileLen blocks of one unit; unit i holds the value i.  The  *)
(* sending application reads at its cursor, the receiving one writes what  *)
(* it is handed at its own cursor, and image records what was written      *)
(* where.  Block numbers do not wrap: FileLen stands for fewer than 2^32.  *)
(***************************************************************************)
EXTENDS Naturals, Sequences, FiniteSets

CONSTANTS
    FileLen,      \* units of the file
    SenderModes,  \* control modes the sending application offers
    ReceiverModes,\* control modes the receiving application offers
    MaxSkip,      \* largest skip a receiving application asks for
    MaxFaults,    \* bound: losses, aborts, give-ups per behaviour
    MaxTransfers  \* bound: transfers one after the other

Roles == {"Sender", "Receiver"}
Modes == {"SenderDrive", "ReceiverDrive"}

ASSUME FileLenAssumption == FileLen \in Nat \ {0}
ASSUME ModesAssumption == SenderModes \subseteq Modes /\ ReceiverModes \subseteq Modes
ASSUME BoundsAssumption ==
    MaxSkip \in Nat /\ MaxFaults \in Nat /\ MaxTransfers \in Nat

Peer(r) == IF r = "Sender" THEN "Receiver" ELSE "Sender"
Supported == [r \in Roles |-> IF r = "Sender" THEN SenderModes ELSE ReceiverModes]
Least(a, b) == IF a < b THEN a ELSE b

States == {"Unitialized", "AwaitingInitMsg", "AwaitingAccept",
           "NegotiateTransferParams", "TransferInProgress",
           "AwaitingEOFAck", "ReceivedEOF", "TransferDone", "ErrorState"}
Outputs == {"None", "MsgToSend", "InitReceived", "AcceptReceived",
            "BlockReceived", "QueryReceived", "QueryWithSkipReceived",
            "AckReceived", "AckEOFReceived", "StatusReceived"}
MsgTypes == {"SendInit", "ReceiveInit", "SendAccept", "ReceiveAccept",
             "BlockQuery", "BlockQueryWithSkip", "Block", "BlockEOF",
             "BlockAck", "BlockAckEOF", "StatusReport"}

(* One shape for all messages: the counter, the value carried, its length  *)
(* (of the block, the skip or the transfer) and the control modes.         *)
Msg(type, n, data, len, modes) ==
    [type |-> type, n |-> n, data |-> data, len |-> len, modes |-> modes]
Counter(type, n) == Msg(type, n, 0, 0, {})

VARIABLES
    sess,       \* sess[r]: the TransferSession of the application in role r
    chan,       \* chan[r]: messages on their way to r, in order
    app,        \* app[r]: what the application of r knows of the transfer
    cursor,     \* cursor[r]: its position in the file
    image,      \* pairs <<position, value>> the receiver has written
    skipped,    \* positions the receiver asked to skip
    fresh,      \* a block was handed over and not yet acknowledged
    disturbed,  \* something went wrong in this transfer (history)
    released,   \* the sender's exchange was taken away
    watch,      \* what ends a receiver's wait for an answer
    seen,       \* BDXDownloader's mPrevBlockCounter
    faults, transfers

vars == <<sess, chan, app, cursor, image, skipped, fresh, disturbed,
          released, watch, seen, faults, transfers>>

(* A receiver is polled with a running clock, or is BDXDownloader, which   *)
(* polls with a constant time and has a check of its own.  That one is     *)
(* preparing, the check still to come ("Preparing") or gone ("Overslept"), *)
(* or in progress, with the check ("Checked") or without ("Unwatched").    *)
Watches == {"Clock", "Preparing", "Overslept", "Checked", "Unwatched"}
Preparing == watch \in {"Preparing", "Overslept"}

----------------------------------------------------------------------------
(* TransferSession: the methods of the state machine.                      *)

Blank(r, mode) ==
    [role |-> r, state |-> "Unitialized", out |-> "None",
     msg |-> Counter("StatusReport", 0), awaiting |-> FALSE, mode |-> mode,
     supported |-> {}, request |-> {}, length |-> 0, bytes |-> 0,
     lastBlock |-> 0, nextBlock |-> 0, lastQuery |-> 0, nextQuery |-> 0]

(* Everything is cleared but the role and the control mode.                *)
Reset(s) == Blank(s.role, s.mode)

PrepareOutgoing(s, m) == [s EXCEPT !.out = "MsgToSend", !.msg = m]

PrepareStatusReport(s) ==
    [PrepareOutgoing(s, Counter("StatusReport", 0))
        EXCEPT !.state = "ErrorState", !.awaiting = FALSE]

(* VerifyOrReturn(cond, PrepareStatusReport(...)).                         *)
Verify(cond, s, t) == IF cond THEN t ELSE PrepareStatusReport(s)

StartTransfer(s, mode, len) ==
    PrepareOutgoing(
        [s EXCEPT !.supported = {mode}, !.length = len,
                  !.state = "AwaitingAccept", !.awaiting = TRUE],
        Msg(IF s.role = "Sender" THEN "SendInit" ELSE "ReceiveInit",
            0, 0, len, {mode}))

WaitForTransfer(s, modes) ==
    [s EXCEPT !.supported = modes, !.state = "AwaitingInitMsg"]

CanAccept(s, mode) ==
    s.state = "NegotiateTransferParams" /\ s.out = "None" /\ mode \in s.request

(* What is awaited follows mControlMode, not the mode that is accepted.    *)
AcceptTransfer(s, mode, len) ==
    LET t == IF s.role = "Sender" THEN [s EXCEPT !.length = len] ELSE s
        waits == s.mode = (IF s.role = "Sender" THEN "ReceiverDrive"
                                                ELSE "SenderDrive")
    IN  PrepareOutgoing(
            [t EXCEPT !.state = "TransferInProgress",
                      !.awaiting = @ \/ waits],
            Msg(IF s.role = "Sender" THEN "ReceiveAccept" ELSE "SendAccept",
                0, 0, IF s.role = "Sender" THEN len ELSE 0, {mode}))

CanReject(s) == s.state = "NegotiateTransferParams" /\ s.out = "None"
RejectTransfer(s) == [PrepareStatusReport(s) EXCEPT !.state = "TransferDone"]

CanAbort(s) == s.state \notin {"Unitialized", "TransferDone", "ErrorState"}
AbortTransfer(s) == PrepareStatusReport(s)

MyTurn(s, r) ==
    s.state = "TransferInProgress" /\ s.role = r /\ s.out = "None" /\ ~s.awaiting

(* PrepareBlockQuery, and PrepareBlockQueryWithSkip for skip > 0.          *)
PrepareBlockQuery(s, skip) ==
    PrepareOutgoing(
        [s EXCEPT !.awaiting = TRUE, !.lastQuery = s.nextQuery, !.nextQuery = @ + 1],
        Msg(IF skip = 0 THEN "BlockQuery" ELSE "BlockQueryWithSkip",
            s.nextQuery, 0, skip, {}))

(* Mutant: nothing is awaited after the last block.                        *)
LastBlockNotAwaited(s, data, len, eof) ==
    PrepareOutgoing(
        [s EXCEPT !.state = IF eof THEN "AwaitingEOFAck" ELSE @,
                  !.awaiting = ~eof, !.lastBlock = s.nextBlock, !.nextBlock = @ + 1],
        Msg(IF eof THEN "BlockEOF" ELSE "Block", s.nextBlock, data, len, {}))

PrepareBlock(s, data, len, eof) ==
    PrepareOutgoing(
        [s EXCEPT !.state = IF eof THEN "AwaitingEOFAck" ELSE @,
                  !.awaiting = TRUE, !.lastBlock = s.nextBlock, !.nextBlock = @ + 1],
        Msg(IF eof THEN "BlockEOF" ELSE "Block", s.nextBlock, data, len, {}))

CanAck(s) ==
    /\ s.role = "Receiver" /\ s.out = "None"
    /\ s.state \in {"TransferInProgress", "ReceivedEOF"}

(* Mutant: an acknowledgement in SenderDrive is not also a query.          *)
AckIsNotAQuery(s) ==
    LET eof == s.state = "ReceivedEOF"
        t == IF eof THEN [s EXCEPT !.state = "TransferDone", !.awaiting = FALSE]
             ELSE s
    IN  PrepareOutgoing(t, Counter(IF eof THEN "BlockAckEOF" ELSE "BlockAck",
                                   s.lastBlock))

(* In SenderDrive an acknowledgement is also the query for the next block. *)
PrepareBlockAck(s) ==
    LET eof == s.state = "ReceivedEOF"
        t == IF eof THEN [s EXCEPT !.state = "TransferDone", !.awaiting = FALSE]
             ELSE IF s.mode = "SenderDrive"
             THEN [s EXCEPT !.lastQuery = s.lastBlock + 1, !.awaiting = TRUE]
             ELSE s
    IN  PrepareOutgoing(t, Counter(IF eof THEN "BlockAckEOF" ELSE "BlockAck",
                                   s.lastBlock))

(* The mode is chosen when exactly one is common.  A refusal prepared here *)
(* is overwritten by the rest of HandleTransferInit, and the mode keeps    *)
(* whatever value it had.                                                  *)
ResolveTransferControlOptions(s, proposed) ==
    LET common == proposed \cap s.supported
    IN  IF Cardinality(common) = 1
        THEN [s EXCEPT !.mode = CHOOSE m \in Modes : m \in common]
        ELSE IF common = {} THEN PrepareStatusReport(s) ELSE s

HandleTransferInit(s, m) ==
    Verify(/\ s.state = "AwaitingInitMsg"
           /\ m.type = (IF s.role = "Sender" THEN "ReceiveInit" ELSE "SendInit"),
           s, [ResolveTransferControlOptions(s, m.modes)
                  EXCEPT !.length = m.len, !.request = m.modes,
                         !.out = "InitReceived",
                         !.state = "NegotiateTransferParams"])

(* HandleSendAccept and HandleReceiveAccept, with VerifyProposedMode: one  *)
(* mode, and one this side supports.  Only a ReceiveAccept has a length.   *)
HandleAccept(s, m) ==
    LET mode == CHOOSE x \in Modes : x \in m.modes
    IN  Verify(/\ m.type = (IF s.role = "Sender" THEN "SendAccept" ELSE "ReceiveAccept")
               /\ s.state = "AwaitingAccept"
               /\ Cardinality(m.modes) = 1 /\ m.modes \subseteq s.supported,
               s, [s EXCEPT !.mode = mode,
                            !.length = IF s.role = "Sender" THEN @ ELSE m.len,
                            !.out = "AcceptReceived",
                            !.awaiting = mode = (IF s.role = "Sender"
                                         THEN "ReceiverDrive" ELSE "SenderDrive"),
                            !.state = "TransferInProgress"])

(* HandleBlockQuery and HandleBlockQueryWithSkip.                          *)
HandleBlockQuery(s, m) ==
    Verify(/\ s.role = "Sender" /\ s.state = "TransferInProgress" /\ s.awaiting
           /\ m.n = s.nextBlock,
           s, [s EXCEPT !.out = IF m.type = "BlockQuery" THEN "QueryReceived"
                                ELSE "QueryWithSkipReceived",
                        !.msg = m, !.awaiting = FALSE, !.lastQuery = m.n])

(* HandleBlock and HandleBlockEOF; only the former minds the length.       *)
HandleBlock(s, m) ==
    LET eof == m.type = "BlockEOF"
    IN  Verify(/\ s.role = "Receiver" /\ s.state = "TransferInProgress" /\ s.awaiting
               /\ m.n = s.lastQuery
               /\ eof \/ (m.len > 0 /\ (s.length > 0 => s.bytes + m.len <= s.length)),
               s, [s EXCEPT !.out = "BlockReceived", !.msg = m,
                            !.bytes = @ + m.len, !.lastBlock = m.n,
                            !.awaiting = FALSE,
                            !.state = IF eof THEN "ReceivedEOF" ELSE @])

(* Mutant: an acknowledgement always gives the sender the turn.            *)
AckGivesTurn(s, m) ==
    Verify(/\ s.role = "Sender" /\ s.state = "TransferInProgress" /\ s.awaiting
           /\ m.n = s.lastBlock,
           s, [s EXCEPT !.out = "AckReceived", !.awaiting = FALSE])

HandleBlockAck(s, m) ==
    Verify(/\ s.role = "Sender" /\ s.state = "TransferInProgress" /\ s.awaiting
           /\ m.n = s.lastBlock,
           s, [s EXCEPT !.out = "AckReceived",
                        !.awaiting = s.mode = "ReceiverDrive"])

HandleBlockAckEOF(s, m) ==
    Verify(/\ s.role = "Sender" /\ s.state = "AwaitingEOFAck" /\ s.awaiting
           /\ m.n = s.lastBlock,
           s, [s EXCEPT !.out = "AckEOFReceived", !.awaiting = FALSE,
                        !.state = "TransferDone"])

HandleStatusReportMessage(s) ==
    [s EXCEPT !.state = "ErrorState", !.awaiting = FALSE, !.out = "StatusReceived"]

HandleBdxMessage(s, m) ==
    CASE m.type \in {"SendInit", "ReceiveInit"} -> HandleTransferInit(s, m)
      [] m.type \in {"SendAccept", "ReceiveAccept"} -> HandleAccept(s, m)
      [] m.type \in {"BlockQuery", "BlockQueryWithSkip"} -> HandleBlockQuery(s, m)
      [] m.type \in {"Block", "BlockEOF"} -> HandleBlock(s, m)
      [] m.type = "BlockAck" -> HandleBlockAck(s, m)
      [] m.type = "BlockAckEOF" -> HandleBlockAckEOF(s, m)

(* A BDX message is refused, and lost, while an output waits to be polled. *)
Refuses(s, m) == m.type # "StatusReport" /\ s.out # "None"
HandleMessageReceived(s, m) ==
    IF m.type = "StatusReport" THEN HandleStatusReportMessage(s)
    ELSE IF Refuses(s, m) THEN s ELSE HandleBdxMessage(s, m)

----------------------------------------------------------------------------
(* The applications, and the exchange between them.                        *)

Init ==
    /\ \E modes \in [Roles -> Modes] :      \* mControlMode is not initialised
           sess = [r \in Roles |-> Blank(r, modes[r])]
    /\ chan = [r \in Roles |-> <<>>]
    /\ app = [r \in Roles |-> "idle"]
    /\ cursor = [r \in Roles |-> 0]
    /\ image = {} /\ skipped = {} /\ fresh = FALSE
    /\ disturbed = FALSE /\ released = FALSE
    /\ watch = "Clock" /\ seen = 0
    /\ faults = 0 /\ transfers = 0

Fault == faults < MaxFaults /\ faults' = faults + 1 /\ disturbed' = TRUE
Calm == UNCHANGED <<faults, disturbed>>
Data == <<cursor, image, skipped, fresh>>
Book == <<released, watch, seen, transfers>>

(* Initiator::InitiateTransfer (or BDXDownloader's SetBDXParams with       *)
(* BeginPrepareDownload) by r, on a new exchange, with                     *)
(* Responder::PrepareForTransfer by its peer.                              *)
Begin(r) ==
    /\ \A q \in Roles : app[q] # "busy"
    /\ transfers < MaxTransfers
    /\ \E mode \in Supported[r], len \in {0, FileLen} :
           /\ sess' = [q \in Roles |->
                       IF q = r THEN StartTransfer(Reset(sess[q]), mode, len)
                       ELSE WaitForTransfer(Reset(sess[q]), Supported[q])]
           /\ watch' \in {"Clock"} \cup (IF r = "Receiver" /\ mode = "ReceiverDrive"
                                        THEN {"Preparing"} ELSE {})
    /\ transfers' = transfers + 1
    /\ app' = [q \in Roles |-> "busy"]
    /\ chan' = [q \in Roles |-> <<>>]
    /\ cursor' = [q \in Roles |-> 0]
    /\ image' = {} /\ skipped' = {} /\ fresh' = FALSE /\ disturbed' = FALSE
    /\ released' = FALSE /\ seen' = 0
    /\ UNCHANGED faults

(* The application is told that the transfer is over and resets.           *)
Tell(r, outcome) ==
    /\ app' = [app EXCEPT ![r] = outcome]
    /\ sess' = [sess EXCEPT ![r] = Reset(@)]
    /\ UNCHANGED chan

Polled(r) == [sess EXCEPT ![r].out = "None"]

(* OnPreparedForDownload starts the download, whatever became of the check.*)
OnPreparedForDownload(r) ==
    watch' = CASE r = "Receiver" /\ watch = "Preparing" -> "Checked"
               [] r = "Receiver" /\ watch = "Overslept" -> "Unwatched"
               [] OTHER -> watch

(* Mutant: the sender reports success once its last block is sent.         *)
SuccessOnLastBlock(r) ==
    LET m == sess[r].msg
        last == m.type \in {"BlockAckEOF", "BlockEOF"}
    IN  /\ app[r] = "busy" /\ sess[r].out = "MsgToSend"
        /\ chan' = [chan EXCEPT ![Peer(r)] = Append(@, m)]
        /\ app' = IF last THEN [app EXCEPT ![r] = "success"] ELSE app
        /\ sess' = IF last THEN [sess EXCEPT ![r] = Reset(@)] ELSE Polled(r)
        /\ OnPreparedForDownload(r)
        /\ Calm /\ UNCHANGED <<Data, released, seen, transfers>>

(* PollOutput gives a message to send.  The receiver's transfer is over    *)
(* once its BlockAckEOF is sent, and a downloader's first poll is that of  *)
(* OnPreparedForDownload.                                                  *)
PollMessage(r) ==
    LET m == sess[r].msg
        last == m.type = "BlockAckEOF"
    IN  /\ app[r] = "busy" /\ sess[r].out = "MsgToSend"
        /\ chan' = [chan EXCEPT ![Peer(r)] = Append(@, m)]
        /\ app' = IF last THEN [app EXCEPT ![r] = "success"] ELSE app
        /\ sess' = IF last THEN [sess EXCEPT ![r] = Reset(@)] ELSE Polled(r)
        /\ OnPreparedForDownload(r)
        /\ Calm /\ UNCHANGED <<Data, released, seen, transfers>>

(* PollOutput gives a block: the receiving application writes it.          *)
PollBlock ==
    LET r == "Receiver"
        m == sess[r].msg
    IN  /\ app[r] = "busy" /\ sess[r].out = "BlockReceived"
        /\ image' = IF m.len = 0 THEN image ELSE image \cup {<<cursor[r], m.data>>}
        /\ cursor' = [cursor EXCEPT ![r] = @ + m.len]
        /\ fresh' = TRUE
        /\ sess' = Polled(r)
        /\ Calm /\ UNCHANGED <<chan, app, skipped, Book>>

(* Mutant: a skip is answered like a plain query.                          *)
SkipIgnored(r) ==
    /\ app[r] = "busy"
    /\ sess[r].out \in {"InitReceived", "AcceptReceived", "QueryReceived",
                        "QueryWithSkipReceived", "AckReceived"}
    /\ sess' = Polled(r)
    /\ Calm /\ UNCHANGED <<chan, app, Data, Book>>

(* PollOutput gives a query, an accept, an init or an acknowledgement.  A  *)
(* sender that is asked to skip moves its cursor.                          *)
PollNotice(r) ==
    /\ app[r] = "busy"
    /\ sess[r].out \in {"InitReceived", "AcceptReceived", "QueryReceived",
                        "QueryWithSkipReceived", "AckReceived"}
    /\ cursor' = IF sess[r].out = "QueryWithSkipReceived"
                 THEN [cursor EXCEPT ![r] = Least(FileLen, @ + sess[r].msg.len)]
                 ELSE cursor
    /\ sess' = Polled(r)
    /\ Calm /\ UNCHANGED <<chan, app, image, skipped, fresh, Book>>

(* PollOutput reports the end: the final acknowledgement, a report of the  *)
(* peer, or its own error once nothing else is left to say.                *)
PollEnd(r) ==
    /\ app[r] = "busy"
    /\ \/ sess[r].out = "AckEOFReceived" /\ Tell(r, "success")
       \/ sess[r].out = "StatusReceived" /\ Tell(r, "failure")
       \/ /\ sess[r].out = "None"
          /\ sess[r].state = "ErrorState"
          /\ Tell(r, "failure")
    /\ Calm /\ UNCHANGED <<Data, Book>>

(* A rejected transfer: the report was sent and the session is done; the   *)
(* application that rejected it lets it go.  (RejectTransfer is public;    *)
(* the applications in the repository abort instead.)                      *)
EndRejected(r) ==
    /\ app[r] = "busy" /\ sess[r].state = "TransferDone" /\ sess[r].out = "None"
    /\ Tell(r, "failure")
    /\ Calm /\ UNCHANGED <<Data, Book>>

(* PollOutput, given the time, finds that the awaited answer is overdue.   *)
(* It disturbs the transfer if the answer was still on its way.            *)
Underway ==
    \E q \in Roles : \/ chan[q] # <<>> \/ sess[q].out # "None"
                     \/ CanAbort(sess[q]) /\ ~sess[q].awaiting
PollTimeout(r) ==
    /\ app[r] = "busy" /\ sess[r].awaiting
    /\ r = "Receiver" => watch = "Clock"
    /\ Tell(r, "failure")
    /\ disturbed' = (disturbed \/ Underway)
    /\ UNCHANGED <<faults, Data, Book>>

(* TransferTimeoutCheckHandler of BDXDownloader.  It goes on while queries *)
(* are made; without a new one since it last looked the download is over,  *)
(* whether the answer is late or the image processor slow.                 *)
TimeoutCheckPasses ==
    /\ app["Receiver"] = "busy" /\ watch = "Checked"
    /\ sess["Receiver"].nextQuery > seen
    /\ seen' = sess["Receiver"].nextQuery
    /\ Calm /\ UNCHANGED <<sess, chan, app, Data, released, watch, transfers>>

OnDownloadTimeout ==
    LET r == "Receiver"
    IN  /\ app[r] = "busy" /\ watch = "Checked" /\ sess[r].nextQuery <= seen
        /\ Tell(r, "failure")
        /\ disturbed' = (disturbed \/ Underway \/ ~sess[r].awaiting)
        /\ UNCHANGED <<faults, Data, Book>>

(* While it is preparing no query was made yet, so the check finds a       *)
(* time-out, logs it and is gone; EndDownload cancels it likewise.         *)
CheckIsLost ==
    /\ app["Receiver"] = "busy" /\ watch = "Preparing"
    /\ watch' = "Overslept"
    /\ Calm /\ UNCHANGED <<sess, chan, app, Data, released, seen, transfers>>

TransferTimeoutCheckHandler == TimeoutCheckPasses \/ OnDownloadTimeout \/ CheckIsLost

Poll(r) == \/ PollMessage(r) \/ PollNotice(r) \/ PollEnd(r) \/ EndRejected(r)
           \/ r = "Receiver" /\ PollBlock

(* The application answers an init.                                        *)
Accept(r) ==
    /\ app[r] = "busy"
    /\ \E mode \in Supported[r], len \in {0, FileLen} :
           /\ CanAccept(sess[r], mode)
           /\ sess' = [sess EXCEPT ![r] = AcceptTransfer(@, mode, len)]
    /\ Calm /\ UNCHANGED <<chan, app, Data, Book>>

Reject(r) ==
    /\ app[r] = "busy" /\ CanReject(sess[r])
    /\ sess' = [sess EXCEPT ![r] = RejectTransfer(@)]
    /\ Fault /\ UNCHANGED <<chan, app, Data, Book>>

(* The sender's turn: the next unit of the file, marked as the end or not, *)
(* or an empty last block when nothing is left.                            *)
SendBlock ==
    LET c == cursor["Sender"]
        len == IF c < FileLen THEN 1 ELSE 0
    IN  /\ app["Sender"] = "busy" /\ MyTurn(sess["Sender"], "Sender")
        /\ \E eof \in BOOLEAN :
               /\ eof => c + 1 >= FileLen
               /\ c >= FileLen => eof
               /\ sess' = [sess EXCEPT !["Sender"] = PrepareBlock(@, c, len, eof)]
        /\ cursor' = [cursor EXCEPT !["Sender"] = @ + len]
        /\ Calm /\ UNCHANGED <<chan, app, image, skipped, fresh, Book>>

(* The receiver's turn when it drives: a query, perhaps with a skip.       *)
SendQuery ==
    LET c == cursor["Receiver"]
    IN  /\ app["Receiver"] = "busy" /\ MyTurn(sess["Receiver"], "Receiver")
        /\ sess["Receiver"].mode = "ReceiverDrive"
        /\ \E skip \in 0 .. MaxSkip :
               /\ sess' = [sess EXCEPT !["Receiver"] = PrepareBlockQuery(@, skip)]
               /\ cursor' = [cursor EXCEPT !["Receiver"] = Least(FileLen, c + skip)]
               /\ skipped' = skipped \cup {p \in c .. c + skip - 1 : p < FileLen}
        /\ fresh' = FALSE
        /\ Calm /\ UNCHANGED <<chan, app, image, Book>>

(* An acknowledgement of the block just written: always when the sender    *)
(* drives and for the last block, optionally when the receiver drives.     *)
SendAck ==
    /\ app["Receiver"] = "busy" /\ CanAck(sess["Receiver"]) /\ fresh
    /\ sess' = [sess EXCEPT !["Receiver"] = PrepareBlockAck(@)]
    /\ fresh' = FALSE
    /\ Calm /\ UNCHANGED <<chan, app, cursor, image, skipped, Book>>

Abort(r) ==
    /\ app[r] = "busy" /\ CanAbort(sess[r]) /\ ~(r = "Receiver" /\ Preparing)
    /\ sess' = [sess EXCEPT ![r] = AbortTransfer(@)]
    /\ Fault /\ UNCHANGED <<chan, app, Data, Book>>

(* The application gives up without a word to its peer: a fabric that goes *)
(* away, a message that cannot be sent, a download that cannot be prepared.*)
GiveUp(r) ==
    /\ app[r] = "busy" /\ Tell(r, "failure")
    /\ Fault /\ UNCHANGED <<Data, Book>>

(* The exchange of a sending application is taken away while a response is *)
(* expected (its session was released): TransferFacilitator's              *)
(* OnResponseTimeout resets the transfer, and the senders built on it hear *)
(* nothing more.  (A receiver learns of it: BDXDownloader by its check,    *)
(* BdxTransferDiagnosticLog by OnExchangeClosing, which is GiveUp.)        *)
OnResponseTimeout ==
    LET r == "Sender"
    IN  /\ app[r] = "busy" /\ sess[r].awaiting /\ sess[r].out = "None" /\ ~released
        /\ sess' = [sess EXCEPT ![r] = Reset(@)]
        /\ released' = TRUE
        /\ Fault /\ UNCHANGED <<chan, app, Data, watch, seen, transfers>>

(* A message reaches r.  One that r has finished with meets a closed       *)
(* exchange; one that a session refuses, or that comes to a downloader     *)
(* which is preparing, is gone.                                            *)
Deliver(r) ==
    LET m == Head(chan[r])
        ignored == r = "Receiver" /\ Preparing
        open == app[r] = "busy" /\ ~(released /\ r = "Sender") /\ ~ignored
    IN  /\ chan[r] # <<>>
        /\ chan' = [chan EXCEPT ![r] = Tail(@)]
        /\ sess' = IF open THEN [sess EXCEPT ![r] = HandleMessageReceived(@, m)]
                   ELSE sess
        /\ disturbed' = (disturbed \/ ignored \/ (open /\ Refuses(sess[r], m)))
        /\ UNCHANGED <<app, Data, Book, faults>>

(* The reliable messaging layer gives up on a message.                     *)
Lose(r) ==
    /\ chan[r] # <<>>
    /\ chan' = [chan EXCEPT ![r] = Tail(@)]
    /\ Fault /\ UNCHANGED <<sess, app, Data, Book>>

Reply(r) ==
    \/ Accept(r)
    \/ r = "Sender" /\ SendBlock
    \/ r = "Receiver" /\ (SendQuery \/ SendAck)

Next ==
    \/ \E r \in Roles :
        \/ Begin(r) \/ Poll(r) \/ PollTimeout(r) \/ Reply(r) \/ Deliver(r)
        \/ Reject(r) \/ Abort(r) \/ GiveUp(r) \/ Lose(r)
    \/ OnResponseTimeout \/ TransferTimeoutCheckHandler

(* TransferFacilitator's poll timer repeats with a clock that runs;        *)
(* BDXDownloader polls when it is prepared and after each message and      *)
(* call, and restarts its check.  The event loop delivers, and an          *)
(* application answers what it is told.                                    *)
Fairness ==
    /\ \A r \in Roles :
        /\ WF_vars(Poll(r)) /\ WF_vars(PollTimeout(r))
        /\ WF_vars(Reply(r)) /\ WF_vars(Deliver(r))
    /\ WF_vars(TransferTimeoutCheckHandler)

Spec == Init /\ [][Next]_vars /\ Fairness

----------------------------------------------------------------------------
(* Properties.                                                             *)

Messages == [type : MsgTypes, n : Nat, data : Nat, len : Nat, modes : SUBSET Modes]
Sessions ==
    [role : Roles, state : States, out : Outputs, msg : Messages,
     awaiting : BOOLEAN, mode : Modes, supported : SUBSET Modes,
     request : SUBSET Modes, length : Nat, bytes : Nat,
     lastBlock : Nat, nextBlock : Nat, lastQuery : Nat, nextQuery : Nat]

(* Every field of a session, message and application has its type, and a   *)
(* session keeps its role.                                                 *)
TypeOK ==
    /\ sess \in [Roles -> Sessions] /\ \A r \in Roles : sess[r].role = r
    /\ chan \in [Roles -> Seq(Messages)]
    /\ app \in [Roles -> {"idle", "busy", "success", "failure"}]
    /\ cursor \in [Roles -> 0 .. FileLen]
    /\ image \in SUBSET ((0 .. FileLen) \X (0 .. FileLen))
    /\ skipped \subseteq 0 .. FileLen - 1
    /\ {fresh, disturbed, released} \subseteq BOOLEAN
    /\ faults \in 0 .. MaxFaults /\ transfers \in 0 .. MaxTransfers

(* The receiver writes every unit where it belongs: block counters,        *)
(* queries and skips keep the two cursors together, whatever is lost,      *)
(* refused or aborted (the counter checks of HandleBlock and               *)
(* HandleBlockQuery).                                                      *)
ImageFaithful == \A p \in image : p[1] = p[2]

(* A receiver that reports success has the whole file but for what it      *)
(* asked to skip, and a sender that is told kAckEOFReceived knows that the *)
(* receiver reported success (PrepareBlockAck, HandleBlockAckEOF).         *)
SuccessMeansWhole ==
    /\ app["Receiver"] = "success" =>
           {p[1] : p \in image} \cup skipped = 0 .. FileLen - 1
    /\ app["Sender"] = "success" => app["Receiver"] = "success"

(* Two sides that keep to the interface never meet a protocol error: no    *)
(* message is unexpected, has a bad counter or a bad length unless one was *)
(* lost or refused, or a side timed out, gave up or aborted (the           *)
(* VerifyOrReturn lines of the handlers).                                  *)
NoProtocolError ==
    ~disturbed => \A r \in Roles : sess[r].state # "ErrorState" /\ app[r] # "failure"

(* While both are in the transfer they drive it the same way: the same     *)
(* control mode on both sides, at most one side whose turn it is, and no   *)
(* block or query under way to the side that has the turn, also after      *)
(* losses and refusals (AcceptTransfer, HandleAccept, HandleBlockAck).     *)
InTransfer(r) == sess[r].state \in {"TransferInProgress", "AwaitingEOFAck", "ReceivedEOF"}
OneDriver ==
    (\A r \in Roles : InTransfer(r)) =>
        /\ sess["Sender"].mode = sess["Receiver"].mode
        /\ \A r \in Roles : InTransfer(r) /\ ~sess[r].awaiting =>
              /\ sess[Peer(r)].awaiting
              /\ \A i \in 1 .. Len(chan[r]) :
                     chan[r][i].type \in {"StatusReport", "BlockAck"}

----------------------------------------------------------------------------
(* Whose turn it is.  The turn is a token: a side has it, or a message on  *)
(* its way passes it on, or it is lost.                                    *)

Inits == {"SendInit", "ReceiveInit"}
Accepts == {"SendAccept", "ReceiveAccept"}
Blocks == {"Block", "BlockEOF"}
Queries == {"BlockQuery", "BlockQueryWithSkip"}
Responding(r) == sess[r].state \in {"AwaitingInitMsg", "NegotiateTransferParams"}
Early(r) == Responding(r) \/ sess[r].state = "AwaitingAccept"

(* What r has said and its peer has not heard yet, in order.               *)
Pipe(r) == IF sess[r].out = "MsgToSend" THEN Append(chan[Peer(r)], sess[r].msg)
           ELSE chan[Peer(r)]
Heard(r) == 1 .. Len(Pipe(r))

PassesTurn(m) ==
    \/ m.type \in Blocks \cup Queries
    \/ m.type = "BlockAck" /\ sess["Receiver"].mode = "SenderDrive"
    \/ m.type = "SendAccept" /\ m.modes = {"SenderDrive"}
    \/ m.type = "ReceiveAccept" /\ m.modes = {"ReceiverDrive"}
TurnOnItsWay(r) == \E i \in Heard(r) : PassesTurn(Pipe(r)[i])
HasTurn(r) == \/ sess[r].state = "TransferInProgress" /\ ~sess[r].awaiting
              \/ sess[r].state = "ReceivedEOF"

(* There is at most one turn.                                              *)
OneTurn ==
    /\ \A r \in Roles : \A i, j \in Heard(r) :
           PassesTurn(Pipe(r)[i]) /\ PassesTurn(Pipe(r)[j]) => i = j
    /\ ~(TurnOnItsWay("Sender") /\ TurnOnItsWay("Receiver"))
    /\ \A r, q \in Roles : HasTurn(r) => ~TurnOnItsWay(q) /\ ~HasTurn(Peer(r))

(* Who says what, and what an output to be polled says of the session.     *)
Says(r) ==
    {"StatusReport"} \cup
    (IF r = "Sender" THEN {"SendInit", "ReceiveAccept"} \cup Blocks
     ELSE {"ReceiveInit", "SendAccept", "BlockAck", "BlockAckEOF"} \cup Queries)
OutputFits(r) ==
    /\ sess[r].state = "Unitialized" => sess[r].out = "None" /\ ~sess[r].awaiting
    /\ app[r] # "busy" => sess[r].state = "Unitialized"
    /\ sess[r].state = "ReceivedEOF" \/ Responding(r) => ~sess[r].awaiting
    /\ sess[r].state = "AwaitingEOFAck" => sess[r].awaiting
    /\ sess[r].out \in {"QueryReceived", "QueryWithSkipReceived"} => r = "Sender" /\ HasTurn(r)
    /\ sess[r].out = "BlockReceived" => r = "Receiver" /\ HasTurn(r)
    /\ sess[r].out = "AckEOFReceived" => r = "Sender" /\ app["Receiver"] = "success"
    /\ \A i \in Heard(r) : Pipe(r)[i].type \in Says(r)

(* Inits and accepts: one at a time, for a side that is waiting for it.    *)
Greeted(r) ==
    /\ \A i \in Heard(r) : Pipe(r)[i].type \in Inits \cup Accepts =>
           /\ ~InTransfer(Peer(r)) /\ sess[Peer(r)].state # "NegotiateTransferParams"
           /\ \E d \in Modes : Pipe(r)[i].modes = {d}
           /\ \A j \in Heard(r) : Pipe(r)[j].type \in Inits \cup Accepts => i = j
    /\ \A i \in Heard(r) : Pipe(r)[i].type \in Accepts =>
           ~Early(r) /\ (InTransfer(r) => Pipe(r)[i].modes = {sess[r].mode})
    /\ Early(r) => /\ ~fresh
                   /\ \A i \in Heard(r) : Pipe(r)[i].type \in Inits \cup {"StatusReport"}
    /\ Responding(r) =>
           /\ ~InTransfer(Peer(r)) /\ ~Responding(Peer(r))
           /\ cursor["Sender"] = cursor["Receiver"]
           /\ \A i \in Heard(r) : Pipe(r)[i].type = "StatusReport"
           /\ \A i \in Heard(Peer(r)) : Pipe(Peer(r))[i].type \in Inits \cup {"StatusReport"}
    /\ sess[r].state = "AwaitingInitMsg" => sess[r].supported = Supported[r]
    /\ sess[r].state = "NegotiateTransferParams" =>
           sess[r].request \cap Supported[r] \subseteq {sess[r].mode}

(* The sides drive the same way, also when an acknowledgement is all that  *)
(* is left of the receiver, and an acknowledgement is of a block.          *)
Acknowledges == \E i \in Heard("Receiver") : Pipe("Receiver")[i].type = "BlockAck"
SameDrive ==
    /\ InTransfer("Sender") /\ (InTransfer("Receiver") \/ Acknowledges) =>
           sess["Sender"].mode = sess["Receiver"].mode
    /\ Early("Sender") => ~Acknowledges /\ sess["Receiver"].out # "BlockReceived"
    /\ fresh /\ sess["Receiver"].state = "TransferInProgress" => ~sess["Receiver"].awaiting

(* The distance of the two cursors, wherever the turn is.                  *)
Carries(m, s, c) == m.data = c /\ m.len \in {0, 1} /\ s = c + m.len
CursorsMeet ==
    LET s == cursor["Sender"]
        c == cursor["Receiver"]
    IN  /\ HasTurn("Sender") =>
               c = IF sess["Sender"].out = "QueryWithSkipReceived"
                   THEN Least(FileLen, s + sess["Sender"].msg.len) ELSE s
        /\ HasTurn("Receiver") =>
               IF sess["Receiver"].out = "BlockReceived"
               THEN Carries(sess["Receiver"].msg, s, c) ELSE s = c
        /\ sess["Receiver"].state = "ReceivedEOF" => s = FileLen
        /\ \A i \in Heard("Sender") :
               LET m == Pipe("Sender")[i]
               IN  /\ m.type \in Blocks => Carries(m, s, c)
                   /\ m.type = "BlockEOF" => s = FileLen
                   /\ m.type \in Accepts /\ PassesTurn(m) => s = c
        /\ \A i \in Heard("Receiver") :
               LET m == Pipe("Receiver")[i]
               IN  /\ m.type \in Queries => c = Least(FileLen, s + m.len)
                   /\ m.type = "BlockQuery" => s = c
                   /\ m.type \in Accepts \cup {"BlockAck"} /\ PassesTurn(m) => s = c

(* The image reaches up to the receiver's cursor, and success is reported  *)
(* only for the whole file.                                                *)
ImageReaches ==
    /\ {p[1] : p \in image} \cup skipped = 0 .. cursor["Receiver"] - 1
    /\ app["Receiver"] = "success" => cursor["Receiver"] = FileLen
    /\ app["Sender"] = "success" => app["Receiver"] = "success"
    /\ \A i \in Heard("Receiver") :
           Pipe("Receiver")[i].type = "BlockAckEOF" => cursor["Receiver"] = FileLen
    /\ \A i \in 1 .. Len(chan["Sender"]) :
           chan["Sender"][i].type = "BlockAckEOF" => app["Receiver"] = "success"

(* The inductive invariant: one turn, one control mode, and cursors and    *)
(* image that fit what is on its way (the handlers and Prepare methods of  *)
(* TransferSession).                                                       *)
TurnInv ==
    /\ TypeOK /\ OneTurn /\ SameDrive /\ CursorsMeet /\ ImageReaches /\ ImageFaithful
    /\ \A r \in Roles : OutputFits(r) /\ Greeted(r)

----------------------------------------------------------------------------
(* A transfer that nothing has disturbed.  Then a message also finds the   *)
(* session it is meant for, and the block counters of the sides agree.     *)

Said(r, types) == \E i \in Heard(r) : Pipe(r)[i].type \in types
Silent(r) == \A i \in Heard(r) : FALSE
Waits(r) == sess[r].state = "AwaitingAccept"
Transfers(r) == sess[r].state = "TransferInProgress"
Moves(r) == HasTurn(r) \/ TurnOnItsWay(r)

(* Nobody has failed, and a side that is done has one thing left to do.    *)
Unhurt(r) ==
    /\ sess[r].state # "ErrorState" /\ app[r] # "failure" /\ sess[r].out # "StatusReceived"
    /\ sess[r].out = "AckEOFReceived" => sess[r].state = "TransferDone"
    /\ sess[r].state = "TransferDone" =>
           \/ sess[r].out = "AckEOFReceived"
           \/ sess[r].out = "MsgToSend" /\ sess[r].msg.type = "BlockAckEOF"
    /\ ~Said(r, {"StatusReport"})

(* An init and an accept find the session that waits for them, and that    *)
(* session offers the control mode they carry.                             *)
Lengths == {0, FileLen}
Zeroed(s) == s.bytes = 0 /\ s.nextBlock = 0 /\ s.lastQuery = 0 /\ s.nextQuery = 0
Introduced(r) ==
    LET q == Peer(r)
    IN  /\ Early(r) => Zeroed(sess[r])
        /\ Responding(r) => Waits(q)
        /\ Waits(r) => /\ Responding(q) \/ Said(q, Accepts)
                       /\ \E d \in Modes : sess[r].supported = {d}
        /\ sess[r].state = "NegotiateTransferParams" =>
               Silent(q) /\ sess[r].request = sess[q].supported
        /\ sess[r].length \in Lengths
        /\ \A i \in Heard(r) :
               LET m == Pipe(r)[i]
               IN  /\ m.type \in Inits \cup Accepts => m.len \in Lengths
                   /\ m.type \in Inits => /\ sess[q].state = "AwaitingInitMsg"
                                          /\ m.modes = sess[r].supported
                   /\ m.type \in Accepts => /\ InTransfer(r) /\ Waits(q)
                                            /\ m.modes = sess[q].supported
                                            /\ PassesTurn(m) => Transfers(r)

(* There is a turn.  The side that moves knows all that the other has      *)
(* said, and the message that passes the turn on is the last one it said.  *)
InStep ==
    /\ \A r \in Roles : Moves(r) => Silent(Peer(r))
    /\ \A r \in Roles : \A i \in Heard(r) :
           PassesTurn(Pipe(r)[i]) \/ Pipe(r)[i].type = "BlockAckEOF" => i = Len(Pipe(r))
    /\ \A r \in Roles : InTransfer(r) =>
           \/ \E q \in Roles : Moves(q)
           \/ Said("Receiver", {"BlockAckEOF"})
    /\ \A r \in Roles : HasTurn(r) /\ Transfers(r) => Transfers(Peer(r)) \/ Said(r, Accepts)
    /\ sess["Receiver"].state = "ReceivedEOF" => sess["Sender"].state = "AwaitingEOFAck"

(* A block, a query or an acknowledgement finds its session in the         *)
(* transfer, if need be after the accept that is ahead of it, and has the  *)
(* number that the session expects.                                        *)
Ready(r, i) ==
    Transfers(Peer(r)) \/ \E j \in Heard(r) : j < i /\ Pipe(r)[j].type \in Accepts
Unanswered == sess["Receiver"].out = "BlockReceived" \/ (HasTurn("Receiver") /\ fresh)
Numbered ==
    LET s == sess["Sender"]
        t == sess["Receiver"]
    IN  /\ HasTurn("Sender") \/ TurnOnItsWay("Receiver") => t.lastQuery = s.nextBlock
        /\ (\/ HasTurn("Sender") /\ s.mode = "ReceiverDrive"
            \/ TurnOnItsWay("Receiver") /\ t.mode = "ReceiverDrive") =>
               t.nextQuery = s.nextBlock + 1
        /\ (HasTurn("Receiver") \/ TurnOnItsWay("Sender"))
           /\ (s.mode = "ReceiverDrive" \/ Waits("Sender")) => t.nextQuery = s.nextBlock
        /\ Unanswered => /\ Silent("Receiver")
                         /\ t.lastBlock = s.lastBlock /\ t.lastBlock + 1 = s.nextBlock
        /\ t.bytes <= cursor["Receiver"] + (IF t.out = "BlockReceived" THEN t.msg.len ELSE 0)
        /\ \A i \in Heard("Sender") :
               LET m == Pipe("Sender")[i]
               IN  /\ m.type \in Blocks =>
                          /\ Ready("Sender", i)
                          /\ m.n = t.lastQuery /\ m.n = s.lastBlock /\ m.n + 1 = s.nextBlock
                   /\ m.type = "Block" => Transfers("Sender") /\ m.len = 1
                   /\ m.type = "BlockEOF" => s.state = "AwaitingEOFAck"
        /\ \A i \in Heard("Receiver") :
               LET m == Pipe("Receiver")[i]
               IN  /\ m.type \in Queries => /\ Ready("Receiver", i) /\ Transfers("Receiver")
                                            /\ m.n = s.nextBlock
                   /\ m.type = "BlockAck" =>
                          /\ Transfers("Receiver") /\ Transfers("Sender") /\ s.awaiting
                          /\ Moves("Receiver") /\ m.n = s.lastBlock
                   /\ m.type = "BlockAckEOF" =>
                          /\ t.state \in {"TransferDone", "Unitialized"}
                          /\ s.state = "AwaitingEOFAck" /\ m.n = s.lastBlock

(* The inductive invariant of a transfer that nothing has disturbed: the   *)
(* turn is somewhere, and every check of the handlers will be met (the     *)
(* VerifyOrReturn lines of TransferSession).                               *)
CalmInv ==
    ~disturbed =>
        /\ ~released /\ InStep /\ Numbered
        /\ \A r \in Roles : Unhurt(r) /\ Introduced(r)

(* A downloader that is preparing has said nothing yet (its first message  *)
(* is sent by OnPreparedForDownload).                                      *)
WatchFits ==
    /\ watch \in Watches /\ seen \in Nat
    /\ Preparing => chan["Sender"] = <<>>

(* The two session objects agree: TurnInv (with TypeOK) and CalmInv,       *)
(* NoProtocolError and OneDriver.                                          *)
SessionsAgree == TurnInv /\ WatchFits /\ CalmInv /\ NoProtocolError /\ OneDriver

(* An undisturbed transfer succeeds on both sides.                         *)
UndisturbedSucceeds ==
    \A r \in Roles :
        (app[r] = "busy") ~> (app[r] = "success" \/ disturbed)

(* Every application that got past the wait for an init is told how its    *)
(* transfer ended, whatever is lost: some timer runs whenever the other    *)
(* side is to move.  There are two exceptions: a sender whose exchange was *)
(* taken away, and a downloader whose check ran out while it was preparing *)
(* (OnDownloadTimeout then only logs, and nothing starts the check again). *)
Waiting(r) == sess[r].state = "AwaitingInitMsg"
Forgotten(r) ==
    \/ r = "Sender" /\ released
    \/ r = "Receiver" /\ watch = "Unwatched"
EveryoneIsTold ==
    \A r \in Roles :
        (app[r] = "busy" /\ ~Waiting(r)) ~> (app[r] # "busy" \/ Forgotten(r))

(* BdxTransferSession.h gives the timeout as "The amount of time to wait   *)
(* for a response before considering the transfer failed": the same, also  *)
(* for an exchange that was taken away and a download without its check.   *)
FailureIsReported ==
    \A r \in Roles : (app[r] = "busy" /\ ~Waiting(r)) ~> (app[r] # "busy")

=============================================================================
