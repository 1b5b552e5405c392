----------------------------- MODULE ICDManager -----------------------------
(***************************************************************************)
(* The manager of an intermittently connected device: when the device may  *)
(* sleep (IdleMode), what keeps it awake (ActiveMode), its three timers on *)
(* the system layer's timer list, the check-in messages it sends when it   *)
(* wakes, and its SIT or LIT operating mode with the polling interval.     *)
(*                                                                         *)
(* m is the manager with its timers; the operators named after its methods *)
(* map it to what the method leaves.  The remaining variables are the      *)
(* users of the device, which notify the manager through ICDNotifier.      *)
(***************************************************************************)
EXTENDS Integers, Sequences, FiniteSets, SequencesExt

CONSTANTS
    Durations,      \* values of ActiveModeDuration; one is chosen
    Threshold,      \* ActiveModeThreshold
    Jitter,         \* ICD_ACTIVE_TIME_JITTER_MS
    IdleDuration,   \* IdleModeDuration
    StayActive,     \* durations that StayActiveRequest may be given
    MaxExchanges,   \* exchanges open at the same time
    MaxCheckIns,    \* check-in messages sent at the same time
    MaxUses,        \* bound: calls that wake the device or keep it awake
    MaxLate         \* bound: how late the event loop may be with a timer

ASSUME DurationsAssumption ==
    Durations # {} /\ Durations \subseteq Nat /\ StayActive \subseteq Nat
ASSUME TimesAssumption ==   \* ICDStateObserver.h: the jitter is 300 ms unless set
    Threshold \in Nat /\ Jitter \in Nat \ {0} /\ IdleDuration \in Nat
ASSUME BoundsAssumption ==
    /\ MaxExchanges \in Nat /\ MaxCheckIns \in Nat
    /\ MaxUses \in Nat /\ MaxLate \in Nat

VARIABLES
    duration,     \* ActiveModeDuration
    m,            \* the manager
    exchanges,    \* open exchange contexts
    lookups,      \* check-in senders that look up their client's address
    failSafe,     \* the fail-safe is armed
    window,       \* a commissioning window is open
    test,         \* the test event trigger asks for ActiveMode
    undo,         \* a fail-safe ended and its fabric is still to be removed
    registered,   \* fabrics with a registered client (ICDMonitoringTable):
                  \* "old" ones, and the one being "added" under the fail-safe
    last,         \* the observer event posted last
    uses
users == <<exchanges, lookups, failSafe, window, test, undo, registered>>
vars == <<duration, m, users, last, uses>>

Flags == {"window", "failSafe", "exchange", "checkIn", "test"}
Timers == {"OnIdleModeDone", "OnActiveModeDone", "OnTransitionToIdle"}

Manager ==
    [state : {"Idle", "Active"},        \* mOperationalState
     flags : SUBSET Flags,              \* mKeepActiveFlags
     open : 0 .. MaxExchanges,          \* mOpenExchangeContextCount
     checkIns : 0 .. MaxCheckIns,       \* mCheckInRequestCount
     called : BOOLEAN,                  \* mTransitionToIdleCalled
     sit : BOOLEAN,                     \* mSITModeRequested
     mode : {"SIT", "LIT"},             \* GetICDMode
     poll : {"fast", "SIT", "LIT"},     \* the polling interval last set
     timers : Seq([name : Timers, due : Int])]

----------------------------------------------------------------------------
(* The timer list: earliest first, equals in the order they were started.  *)
(* due is the awaken time less the present one, below 0 when the event     *)
(* loop is late with it.                                                   *)

Find(q, name) == {i \in DOMAIN q : q[i].name = name}

(* Remove takes out the first timer of this name; there is only one.       *)
CancelTimer(q, name) ==
    IF Find(q, name) = {} THEN q ELSE RemoveAt(q, Min(Find(q, name)))

StartTimer(q, d, name) ==
    LET r == CancelTimer(q, name)
        later == {i \in DOMAIN r : r[i].due > d}
        at == IF later = {} THEN Len(r) + 1 ELSE Min(later)
    IN  InsertAt(r, at, [name |-> name, due |-> d])

(* Nothing remains of a timer that is due, although it is still to fire.   *)
GetRemainingTime(q, name) ==
    IF Find(q, name) = {} THEN 0
    ELSE LET due == q[Min(Find(q, name))].due IN IF due > 0 THEN due ELSE 0

IsTimerActive(q, name) == GetRemainingTime(q, name) > 0

ExtendTimerTo(q, d, name) ==
    IF d > 0 /\ GetRemainingTime(q, name) < d THEN StartTimer(q, d, name) ELSE q

----------------------------------------------------------------------------
(* The manager.  Operators that may enter a mode take the choices of that  *)
(* step in c: how many check-in lookups start, and whether a check-in      *)
(* would have to be sent when the idle period ends.                        *)

Chance == [starts : 0 .. MaxCheckIns, wouldSend : BOOLEAN]

BeforeIdle(d) == IF d >= Jitter THEN d - Jitter ELSE 0

ExtendsBoth(x, d) ==   \* mutant: the event may come twice in a cycle
    LET q == ExtendTimerTo(x.timers, d, "OnActiveModeDone")
    IN  [x EXCEPT !.timers = ExtendTimerTo(q, BeforeIdle(d), "OnTransitionToIdle")]

ExtendActiveMode(x, d) ==
    LET q == ExtendTimerTo(x.timers, d, "OnActiveModeDone")
    IN  [x EXCEPT !.timers = IF x.called THEN q
                             ELSE ExtendTimerTo(q, BeforeIdle(d), "OnTransitionToIdle")]

(* SendCheckInMsgs counts each lookup that starts (OnKeepActiveRequest).   *)
EnterActive(x, c) ==
    LET d == IF duration = 0 /\ x.flags = {} THEN Threshold ELSE duration
        q == StartTimer(CancelTimer(x.timers, "OnIdleModeDone"), d, "OnActiveModeDone")
    IN  [x EXCEPT !.state = "Active", !.called = FALSE, !.poll = "fast",
                  !.timers = StartTimer(q, BeforeIdle(d), "OnTransitionToIdle"),
                  !.checkIns = @ + c.starts,
                  !.flags = IF c.starts > 0 THEN @ \cup {"checkIn"} ELSE @]

IdleForGood(x, c) ==   \* mutant: the idle timer waits for a check-in to be due
    [x EXCEPT !.state = "Idle", !.poll = x.mode,
              !.timers = IF c.wouldSend
                         THEN StartTimer(@, IdleDuration, "OnIdleModeDone") ELSE @]

EnterIdle(x, c) ==
    [x EXCEPT !.state = "Idle", !.poll = x.mode,
              !.timers = IF duration > 0 \/ c.wouldSend
                         THEN StartTimer(@, IdleDuration, "OnIdleModeDone") ELSE @]

UpdateOperationState(x, state, c) ==
    CASE state = "Idle" /\ x.state = "Active" -> EnterIdle(x, c)
      [] state = "Active" /\ x.state = "Idle" -> EnterActive(x, c)
      [] state = "Active" /\ x.state = "Active" -> ExtendActiveMode(x, Threshold)
      [] OTHER -> x

StaysUp(x, flag, on, c) ==   \* mutant: only the timer ends ActiveMode
    LET y == [x EXCEPT !.flags = IF on THEN @ \cup {flag} ELSE @ \ {flag}]
    IN  IF y.state = "Idle" /\ y.flags # {} THEN UpdateOperationState(y, "Active", c) ELSE y

SetKeepActiveModeRequirements(x, flag, on, c) ==
    LET y == [x EXCEPT !.flags = IF on THEN @ \cup {flag} ELSE @ \ {flag}]
    IN  CASE y.state = "Idle" /\ y.flags # {} -> UpdateOperationState(y, "Active", c)
          [] /\ y.state = "Active" /\ y.flags = {}
             /\ ~IsTimerActive(y.timers, "OnActiveModeDone") ->
                 UpdateOperationState(y, "Idle", c)
          [] OTHER -> y

OnKeepActiveRequest(x, flag, c) ==
    LET y == [x EXCEPT !.open = IF flag = "exchange" THEN @ + 1 ELSE @,
                       !.checkIns = IF flag = "checkIn" THEN @ + 1 ELSE @]
    IN  SetKeepActiveModeRequirements(y, flag, TRUE, c)

ClearsAtOnce(x, flag, c) ==   \* mutant: the first withdrawal clears the flag
    LET y == [x EXCEPT
                !.open = IF flag = "exchange" /\ @ > 0 THEN @ - 1 ELSE @,
                !.checkIns = IF flag = "checkIn" /\ @ > 0 THEN @ - 1 ELSE @]
    IN  SetKeepActiveModeRequirements(y, flag, FALSE, c)

(* Of the counted requests the last withdrawal clears the flag.            *)
OnActiveRequestWithdrawal(x, flag, c) ==
    LET y == [x EXCEPT
                !.open = IF flag = "exchange" /\ @ > 0 THEN @ - 1 ELSE @,
                !.checkIns = IF flag = "checkIn" /\ @ > 0 THEN @ - 1 ELSE @]
    IN  IF \/ flag = "exchange" /\ y.open > 0
           \/ flag = "checkIn" /\ y.checkIns > 0
        THEN y
        ELSE SetKeepActiveModeRequirements(y, flag, FALSE, c)

UpdateICDMode(x, clients) ==
    [x EXCEPT !.mode = IF ~x.sit /\ clients # {} THEN "LIT" ELSE "SIT"]

----------------------------------------------------------------------------
(* Steps.                                                                  *)

(* The operation leaves y: record the lookups that started and the         *)
(* observer event of a change of mode.                                     *)
Becomes(y, c, started) ==
    LET entered == m.state = "Idle" /\ y.state = "Active"
    IN  /\ ~entered => c.starts = 0
        /\ entered \/ (m.state = "Active" /\ y.state = "Idle") \/ ~c.wouldSend
        /\ c.starts > 0 \/ c.wouldSend => registered # {}
        /\ m' = y
        /\ lookups' = started + (IF entered THEN c.starts ELSE 0)
        /\ last' = CASE entered -> "EnterActiveMode"
                     [] m.state = "Active" /\ y.state = "Idle" -> "EnterIdleMode"
                     [] OTHER -> last
        /\ UNCHANGED duration

Use == uses < MaxUses /\ uses' = uses + 1

(* Init with the first UpdateOperationState(IdleMode).                     *)
Init ==
    /\ duration \in Durations
    /\ registered \in SUBSET {"old"}
    /\ \E wouldSend \in BOOLEAN :
           /\ wouldSend => registered # {}
           /\ m = EnterIdle(UpdateICDMode(
                      [state |-> "Active", flags |-> {}, open |-> 0, checkIns |-> 0,
                       called |-> FALSE, sit |-> FALSE, mode |-> "SIT",
                       poll |-> "fast", timers |-> <<>>], registered),
                    [starts |-> 0, wouldSend |-> wouldSend])
    /\ exchanges = 0 /\ lookups = 0 /\ uses = 0
    /\ failSafe = FALSE /\ window = FALSE /\ test = FALSE /\ undo = FALSE
    /\ last = "EnterIdleMode"

(* The constructor and the destructor of ExchangeContext.                  *)
ExchangeOpens(c) ==
    /\ exchanges < MaxExchanges /\ Use
    /\ exchanges' = exchanges + 1
    /\ Becomes(OnKeepActiveRequest(m, "exchange", c), c, lookups)
    /\ UNCHANGED <<failSafe, window, test, undo, registered>>

ExchangeCloses(c) ==
    /\ exchanges > 0
    /\ exchanges' = exchanges - 1
    /\ Becomes(OnActiveRequestWithdrawal(m, "exchange", c), c, lookups)
    /\ UNCHANGED <<failSafe, window, test, undo, registered, uses>>

(* A message was sent, received or retransmitted on an exchange.           *)
OnNetworkActivity(c) ==
    /\ exchanges > 0 /\ Use
    /\ Becomes(UpdateOperationState(m, "Active", c), c, lookups)
    /\ UNCHANGED <<exchanges, failSafe, window, test, undo, registered>>

(* The engine sends a report: it wakes the device and nothing else.        *)
OnSubscriptionReport(c) ==
    /\ m.state = "Idle" /\ Use
    /\ Becomes(UpdateOperationState(m, "Active", c), c, lookups)
    /\ UNCHANGED <<exchanges, failSafe, window, test, undo, registered>>

TriggerCheckInMessages(c) ==
    /\ m.state = "Idle" /\ registered # {} /\ Use
    /\ Becomes(UpdateOperationState(m, "Active", c), c, lookups)
    /\ UNCHANGED <<exchanges, failSafe, window, test, undo, registered>>

StayActiveRequest(c) ==
    /\ exchanges > 0 /\ m.state = "Active" /\ Use
    /\ \E d \in StayActive : Becomes(ExtendActiveMode(m, d), c, lookups)
    /\ UNCHANGED <<exchanges, failSafe, window, test, undo, registered>>

(* SetFailSafeArmed.  The fabric that was being added is committed, or its *)
(* removal is left to a queued event.                                      *)
FailSafeStarts(c) ==
    /\ ~failSafe /\ ~undo /\ Use
    /\ failSafe' = TRUE
    /\ Becomes(OnKeepActiveRequest(m, "failSafe", c), c, lookups)
    /\ UNCHANGED <<exchanges, window, test, undo, registered>>

FailSafeEnds(c) ==
    /\ failSafe
    /\ failSafe' = FALSE
    /\ \/ undo' = TRUE /\ UNCHANGED registered
       \/ /\ undo' = FALSE
          /\ registered' = IF registered = {} THEN {} ELSE {"old"}
    /\ Becomes(OnActiveRequestWithdrawal(m, "failSafe", c), c, lookups)
    /\ UNCHANGED <<exchanges, window, test, uses>>

(* UpdateWindowStatus.                                                     *)
WindowOpens(c) ==
    /\ ~window /\ Use
    /\ window' = TRUE
    /\ Becomes(OnKeepActiveRequest(m, "window", c), c, lookups)
    /\ UNCHANGED <<exchanges, failSafe, test, undo, registered>>

WindowCloses(c) ==
    /\ window
    /\ window' = FALSE
    /\ Becomes(OnActiveRequestWithdrawal(m, "window", c), c, lookups)
    /\ UNCHANGED <<exchanges, failSafe, test, undo, registered, uses>>

(* HandleEventTrigger, kAddActiveModeReq and kRemoveActiveModeReq: a       *)
(* command, so an exchange is open.                                        *)
TestTrigger(c) ==
    /\ exchanges > 0
    /\ test' = ~test
    /\ Becomes(SetKeepActiveModeRequirements(m, "test", ~test, c), c, lookups)
    /\ IF test THEN UNCHANGED uses ELSE Use
    /\ UNCHANGED <<exchanges, failSafe, window, undo, registered>>

(* OnNodeAddressResolved: an exchange is made, the message sent and the    *)
(* exchange gone again before the request is withdrawn; it may fail before *)
(* the exchange is made, or at the send.  OnNodeAddressResolutionFailed    *)
(* only withdraws.                                                         *)
CheckInEnds(c) ==
    /\ lookups > 0
    /\ \E made, sent \in BOOLEAN :
           LET none == [starts |-> 0, wouldSend |-> FALSE]
               a == IF made THEN OnKeepActiveRequest(m, "exchange", none) ELSE m
               b == IF made /\ sent THEN UpdateOperationState(a, "Active", none) ELSE a
               d == IF made THEN OnActiveRequestWithdrawal(b, "exchange", none) ELSE b
           IN  /\ made => exchanges < MaxExchanges
               /\ Becomes(OnActiveRequestWithdrawal(d, "checkIn", c), c, lookups - 1)
    /\ UNCHANGED <<exchanges, failSafe, window, test, undo, registered, uses>>

(* OnSITModeRequest and OnSITModeRequestWithdrawal.                        *)
SITModeRequest(c) ==
    /\ Use
    /\ Becomes(UpdateOperationState(UpdateICDMode([m EXCEPT !.sit = ~@], registered),
                                    "Active", c), c, lookups)
    /\ UNCHANGED <<exchanges, failSafe, window, test, undo, registered>>

(* RegisterClient and UnregisterClient: commands, so an exchange is open.  *)
TableUpdated ==
    /\ exchanges > 0 /\ Use
    /\ registered' \in SUBSET ({"old"} \cup (IF failSafe THEN {"added"} ELSE registered))
    /\ m' = UpdateICDMode(m, registered')
    /\ UNCHANGED <<duration, exchanges, lookups, failSafe, window, test, undo, last>>

(* The table of a fabric whose addition is undone is emptied.              *)
OnFabricRemoved ==
    /\ undo
    /\ undo' = FALSE /\ registered' = registered \ {"added"}
    /\ m' = UpdateICDMode(m, registered')
    /\ UNCHANGED <<duration, exchanges, lookups, failSafe, window, test, last, uses>>

(* The earliest timer is due: OnIdleModeDone, OnActiveModeDone.            *)
Due(name) ==
    m.timers # <<>> /\ Head(m.timers).name = name /\ Head(m.timers).due <= 0
Popped == [m EXCEPT !.timers = Tail(@)]

OnIdleModeDone(c) ==
    /\ Due("OnIdleModeDone")
    /\ Becomes(UpdateOperationState(Popped, "Active", c), c, lookups)
    /\ UNCHANGED <<exchanges, failSafe, window, test, undo, registered, uses>>

OnActiveModeDone(c) ==
    /\ Due("OnActiveModeDone")
    /\ Becomes(IF m.flags = {} THEN UpdateOperationState(Popped, "Idle", c) ELSE Popped,
               c, lookups)
    /\ UNCHANGED <<exchanges, failSafe, window, test, undo, registered, uses>>

OnTransitionToIdle ==
    /\ Due("OnTransitionToIdle")
    /\ m' = [Popped EXCEPT !.called = TRUE]
    /\ last' = "TransitionToIdle"
    /\ UNCHANGED <<duration, users, uses>>

Elapsed(q) == [i \in DOMAIN q |-> [name |-> q[i].name, due |-> q[i].due - 1]]

(* Timers fire in turn, but the event loop may be busy: other handlers run *)
(* while a timer is due.                                                   *)
Tick ==
    /\ m.timers # <<>> /\ \A i \in DOMAIN m.timers : m.timers[i].due > 0 - MaxLate
    /\ m' = [m EXCEPT !.timers = Elapsed(@)]
    /\ UNCHANGED <<duration, users, last, uses>>

Time(c) == OnIdleModeDone(c) \/ OnActiveModeDone(c) \/ OnTransitionToIdle \/ Tick

Next ==
    \/ \E c \in Chance :
           \/ ExchangeOpens(c) \/ ExchangeCloses(c) \/ OnNetworkActivity(c)
           \/ OnSubscriptionReport(c) \/ TriggerCheckInMessages(c)
           \/ StayActiveRequest(c) \/ FailSafeStarts(c) \/ FailSafeEnds(c)
           \/ WindowOpens(c) \/ WindowCloses(c) \/ TestTrigger(c)
           \/ CheckInEnds(c) \/ SITModeRequest(c)
           \/ OnIdleModeDone(c) \/ OnActiveModeDone(c)
    \/ TableUpdated \/ OnFabricRemoved \/ OnTransitionToIdle \/ Tick

(* Timers run, and exchanges, lookups, fail-safes and windows end.         *)
Fairness ==
    /\ WF_vars(\E c \in Chance : Time(c))
    /\ WF_vars(\E c \in Chance : ExchangeCloses(c))
    /\ WF_vars(\E c \in Chance : CheckInEnds(c))
    /\ WF_vars(\E c \in Chance : FailSafeEnds(c))
    /\ WF_vars(\E c \in Chance : WindowCloses(c))

Spec == Init /\ [][Next]_vars /\ Fairness

----------------------------------------------------------------------------
(* Properties.                                                             *)

InUse == exchanges > 0 \/ lookups > 0 \/ failSafe \/ window \/ test

(* The device sleeps only when nothing needs it: with all the counting in  *)
(* OnKeepActiveRequest and OnActiveRequestWithdrawal, no exchange, lookup, *)
(* fail-safe or window is ever open in IdleMode.                           *)
NeverSleepsInUse == m.state = "Idle" => ~InUse

(* It is awake for a reason: something uses it, or the timer that will     *)
(* put it to sleep runs (OnActiveModeDone leaves an active device without  *)
(* a timer, and only the last withdrawal ends that).                       *)
AwakeForAReason ==
    m.state = "Active" => InUse \/ Find(m.timers, "OnActiveModeDone") # {}

(* The manager's counters and flags say what the users are doing.          *)
FlagsAgree ==
    /\ m.open = exchanges /\ m.checkIns = lookups
    /\ "exchange" \in m.flags <=> exchanges > 0
    /\ "checkIn" \in m.flags <=> lookups > 0
    /\ "failSafe" \in m.flags <=> failSafe
    /\ "window" \in m.flags <=> window
    /\ "test" \in m.flags <=> test

(* The timer list holds one timer of a name, earliest first.               *)
WellFormed(q) ==
    \A i, j \in DOMAIN q : /\ q[i].name = q[j].name => i = j
                           /\ i <= j => q[i].due <= q[j].due

(* An active period that has a length is announced: until the announcement *)
(* its timer runs, and is due before the one that ends the period.  Once   *)
(* announced, the timer runs no more in this cycle.                        *)
Announced(x) ==
    duration > 0 =>
        /\ Find(x.timers, "OnTransitionToIdle") # {} => ~x.called
        /\ x.state = "Active" /\ ~x.called => Find(x.timers, "OnTransitionToIdle") # {}
        /\ x.state = "Active" /\ ~x.called => Find(x.timers, "OnActiveModeDone") # {}
        /\ \A i \in Find(x.timers, "OnTransitionToIdle"),
              j \in Find(x.timers, "OnActiveModeDone") : x.timers[i].due < x.timers[j].due

(* The manager alone: no flag is set in IdleMode, and in ActiveMode one is *)
(* or the timer runs.                                                      *)
Sound(x) ==
    /\ x \in Manager /\ WellFormed(x.timers) /\ Announced(x)
    /\ x.state = "Idle" => x.flags = {}
    /\ x.state = "Active" /\ x.flags = {} => Find(x.timers, "OnActiveModeDone") # {}

(* What the observers heard last in an active period.                      *)
Told ==
    m.state = "Active" =>
        last = IF m.called THEN "TransitionToIdle" ELSE "EnterActiveMode"

(* The bookkeeping is sound: the inductive invariant of the manager and    *)
(* its users, of which AwakeForAReason is a consequence.                   *)
KeepActiveInv ==
    /\ exchanges \in 0 .. MaxExchanges /\ lookups \in 0 .. MaxCheckIns
    /\ duration \in Nat /\ failSafe \in BOOLEAN /\ window \in BOOLEAN /\ test \in BOOLEAN
    /\ Sound(m) /\ FlagsAgree /\ Told

Overdue(q, name) == \E i \in Find(q, name) : q[i].due < 0

(* The observers' events, when active periods have a length, with an event *)
(* loop that may be late: TransitionToIdle is posted at most once in a     *)
(* cycle and directly after EnterActiveMode if the device is still active; *)
(* the timer that ends the period never fires before it; and a period ends *)
(* unannounced only when a withdrawal ends it with the announcement's      *)
(* timer overdue (SetKeepActiveModeRequirements asks whether the other     *)
(* timer is active, which an overdue one is not).                          *)
ObserverOrder ==
    [][duration > 0 =>
          /\ OnTransitionToIdle =>
                ~m.called /\ (m.state = "Active" => last = "EnterActiveMode")
          /\ (\E c \in Chance : OnActiveModeDone(c)) /\ m.state = "Active" =>
                last = "TransitionToIdle"
          /\ m.state = "Active" /\ m'.state = "Idle" =>
                last = "TransitionToIdle" \/ Overdue(m.timers, "OnTransitionToIdle")]_vars

(* ICDManager.h promises more: the three events "will always be called as  *)
(* a trio in the same order".  A late event loop breaks it.                *)
TrioInOrder ==
    [][duration > 0 =>
          /\ OnTransitionToIdle => last = "EnterActiveMode"
          /\ m.state = "Active" /\ m'.state = "Idle" => last = "TransitionToIdle"]_vars

(* The device goes on sleeping and, if active periods have a length, goes  *)
(* on waking (unless the test trigger keeps it up).                        *)
SleepsAndWakes ==
    /\ []<>(m.state = "Idle" \/ test)
    /\ duration > 0 => []<>(m.state = "Active")

(* "When in SIT mode, the slow poll interval SHALL NOT be greater than the *)
(* SIT mode polling threshold": an idle device polls as its mode asks.     *)
PollsAsSIT == m.state = "Idle" /\ m.mode = "SIT" => m.poll = "SIT"
=============================================================================
