------------------------- MODULE CommissioningWindow -------------------------
(***************************************************************************)
(* The commissioning window: CommissioningWindowManager, the PASE          *)
(* handshake it listens for, the fail-safe that a PASE session arms, and   *)
(* the platform events by which the fail-safe tells the manager how the    *)
(* attempt ended.                                                          *)
(*                                                                         *)
(* The manager is one record and the operators named after its methods map *)
(* it to the record the method leaves.  Three timers run beside it (the    *)
(* window's, the handshake's, the fail-safe's); events wait in the         *)
(* platform's queue while commands, messages and timers go on.             *)
(***************************************************************************)
EXTENDS Naturals, Sequences, FiniteSets

CONSTANTS
    Admins,       \* fabrics with a CASE session that may send commands
    MaxAttempts,  \* kMaxFailedCommissioningAttempts
    MaxOpens,     \* bound: windows opened in a behaviour
    MaxPASE,      \* bound: PASE sessions established in a behaviour
    MaxFaults,    \* bound: times that listening or arming fails
    MaxQueue      \* bound: events waiting when CommissioningComplete adds one

None == "none"
PASE == "pase"    \* the fail-safe belongs to the fabric being commissioned
ASSUME AdminsAssumption == Admins # {} /\ None \notin Admins /\ PASE \notin Admins
ASSUME AttemptsAssumption == MaxAttempts \in Nat \ {0}
ASSUME BoundsAssumption == MaxOpens \in Nat /\ MaxPASE \in Nat /\ MaxFaults \in Nat
                            /\ MaxQueue \in Nat

VARIABLES
    w,        \* the window manager
    fs,       \* the fail-safe context
    queue,    \* platform events and work, in the order posted
    live,     \* PASE sessions that exist
    adopted,  \* those on which AddNOC succeeded: they adopted the fabric of
              \* the fail-safe, which is not committed yet
    opens, paseCount, faults
vars == <<w, fs, queue, live, adopted, opens, paseCount, faults>>

Window ==
    [status : {"NotOpen", "Basic", "Enhanced"},  \* mWindowStatus
     ecm : BOOLEAN,                \* mUseECM
     opener : Admins \cup {None},  \* mOpenerFabricIndex
     listening : BOOLEAN,          \* mListeningForPASE
     registered : BOOLEAN,         \* PBKDFParamRequest comes to the manager
     pairing : {"clear", "waiting", "handshake"},  \* mPairingSession
     timer : BOOLEAN,              \* mCommissioningTimeoutTimerArmed
     paseTimer : BOOLEAN,          \* HandleSessionEstablishmentTimeout is due
     attempts : 0 .. MaxAttempts + 1,  \* mFailedCommissioningAttempts
     handler : BOOLEAN,            \* OnPlatformEvent is registered
     held : 0 .. MaxPASE]          \* mPASESession, 0 for none

Open == w.status # "NotOpen"

----------------------------------------------------------------------------
(* FailSafeContext.                                                        *)

Idle == [armed |-> FALSE, busy |-> FALSE, owner |-> None, noc |-> FALSE]
FullyDisarmed == ~fs.armed /\ ~fs.busy

ExpireTwice(f, q) ==   \* mutant: a busy fail-safe may expire again
    [f |-> [f EXCEPT !.armed = FALSE, !.busy = f.armed],
     q |-> IF f.armed \/ f.busy
           THEN q \o <<[type |-> "Expired", noc |-> f.noc],
                       [type |-> "Disarm", noc |-> FALSE]>>
           ELSE q]

(* ScheduleFailSafeCleanup: not armed but busy until the queued work has   *)
(* disarmed it; the event says whether AddNOC had been invoked.            *)
Expire(f, q) ==
    IF f.armed
    THEN [f |-> [f EXCEPT !.armed = FALSE, !.busy = TRUE],
          q |-> q \o <<[type |-> "Expired", noc |-> f.noc],
                       [type |-> "Disarm", noc |-> FALSE]>>]
    ELSE [f |-> f, q |-> q]

ArmFor(f, who) ==
    [f EXCEPT !.armed = TRUE, !.owner = IF f.armed /\ f.noc THEN @ ELSE who]

----------------------------------------------------------------------------
(* CommissioningWindowManager.                                             *)

StopAdvertisement(x) ==
    [x EXCEPT !.registered = FALSE, !.listening = FALSE, !.pairing = "clear"]

ResetState(x) ==
    [x EXCEPT !.ecm = FALSE, !.status = "NotOpen", !.opener = None,
              !.timer = FALSE, !.handler = FALSE]

Cleanup(x) == ResetState(StopAdvertisement(x))

(* AdvertiseAndListenForPASE with StartAdvertisement, when it succeeds.    *)
AdvertiseAndListenForPASE(x) ==
    [x EXCEPT !.pairing = "waiting", !.registered = TRUE, !.listening = TRUE,
              !.status = IF x.ecm THEN "Enhanced" ELSE "Basic"]

RetriesUntimed(x, ok) ==   \* mutant: listens again whether or not the timer runs
    LET y == [x EXCEPT !.attempts = @ + 1]
    IN  IF y.attempts < MaxAttempts /\ ok
        THEN AdvertiseAndListenForPASE(y)
        ELSE Cleanup(y)

(* Listen again if attempts are left and the window's timer still runs;    *)
(* ok tells whether listening then works.                                  *)
HandleFailedAttempt(x, ok) ==
    LET y == [x EXCEPT !.attempts = @ + 1]
    IN  IF y.attempts < MaxAttempts /\ y.timer /\ ok
        THEN AdvertiseAndListenForPASE(y)
        ELSE Cleanup(y)

OnSessionEstablishmentError(x, ok) ==
    HandleFailedAttempt([x EXCEPT !.paseTimer = FALSE], ok)

CloseCommissioningWindow(x) == IF x.status # "NotOpen" THEN Cleanup(x) ELSE x

(* One of the steps that can fail does.                                    *)
Outcome(ok) == IF ok THEN UNCHANGED faults
               ELSE faults < MaxFaults /\ faults' = faults + 1

Init ==
    /\ w = [status |-> "NotOpen", ecm |-> FALSE, opener |-> None,
            listening |-> FALSE, registered |-> FALSE, pairing |-> "clear",
            timer |-> FALSE, paseTimer |-> FALSE, attempts |-> 0,
            handler |-> FALSE, held |-> 0]
    /\ fs = Idle
    /\ queue = <<>> /\ live = {} /\ adopted = {}
    /\ opens = 0 /\ paseCount = 0 /\ faults = 0

(* OpenCommissioningWindow, OpenBasicCommissioningWindow: refused by the   *)
(* cluster unless closed and fully disarmed; opened by the server itself   *)
(* at start (opener None) or for an administrator.  These are the callers  *)
(* in the SDK: an application that calls the manager with a window open or *)
(* the fail-safe armed is outside the model.                               *)
OpenWindow ==
    /\ ~Open /\ FullyDisarmed /\ opens < MaxOpens
    /\ \E ecm \in BOOLEAN, who \in Admins \cup {None}, ok \in BOOLEAN :
           LET x == [w EXCEPT !.attempts = 0, !.ecm = ecm, !.timer = TRUE]
           IN  /\ ecm => who # None
               /\ w' = IF ok THEN [AdvertiseAndListenForPASE(x) EXCEPT !.opener = who]
                       ELSE Cleanup(x)
               /\ Outcome(ok)
    /\ opens' = opens + 1
    /\ UNCHANGED <<fs, queue, live, adopted, paseCount>>

(* RevokeCommissioning: the fail-safe is expired, then the window closed.  *)
Revoke ==
    LET e == Expire(fs, queue)
    IN  /\ Open \/ fs.armed
        /\ fs' = e.f /\ queue' = e.q
        /\ w' = CloseCommissioningWindow(w)
        /\ UNCHANGED <<live, adopted, opens, paseCount, faults>>

(* HandleCommissioningWindowTimeout.                                       *)
WindowTimeout ==
    /\ w.timer
    /\ w' = CloseCommissioningWindow([w EXCEPT !.timer = FALSE])
    /\ UNCHANGED <<fs, queue, live, adopted, opens, paseCount, faults>>

(* A PBKDFParamRequest: the manager stops listening for others and hands   *)
(* it to mPairingSession, which answers it or fails.  (If no exchange can  *)
(* be made, OnExchangeCreationFailed undoes the first step.)               *)
OnUnsolicitedMessageReceived ==
    LET x == [w EXCEPT !.registered = FALSE]
    IN  /\ w.registered
        /\ \/ w' = [x EXCEPT !.pairing = "handshake", !.paseTimer = TRUE]
              /\ UNCHANGED faults
           \/ \E ok \in BOOLEAN :
                  w' = OnSessionEstablishmentError(x, ok) /\ Outcome(ok)
        /\ UNCHANGED <<fs, queue, live, adopted, opens, paseCount>>

(* The handshake fails: a bad message or an error report (PASESession's    *)
(* OnMessageReceived), no answer (its OnResponseTimeout, which does the    *)
(* same).                                                                  *)
HandshakeFails ==
    /\ w.pairing = "handshake"
    /\ \E ok \in BOOLEAN : w' = OnSessionEstablishmentError(w, ok) /\ Outcome(ok)
    /\ UNCHANGED <<fs, queue, live, adopted, opens, paseCount>>

(* HandleSessionEstablishmentTimeout.  Closing the window does not stop    *)
(* this timer.                                                             *)
SessionEstablishmentTimeout ==
    /\ w.paseTimer
    /\ \E ok \in BOOLEAN : w' = OnSessionEstablishmentError(w, ok) /\ Outcome(ok)
    /\ UNCHANGED <<fs, queue, live, adopted, opens, paseCount>>

GrabsFirst ==   \* mutant: the session is held even when arming failed
    LET s == paseCount + 1
        x == StopAdvertisement([w EXCEPT !.paseTimer = FALSE, !.handler = TRUE])
    IN  /\ w.pairing = "handshake" /\ paseCount < MaxPASE
        /\ paseCount' = s
        /\ \E starts, ok \in BOOLEAN :
               LET arms == fs.armed \/ (~fs.busy /\ starts)
               IN  /\ w' = [(IF arms THEN x ELSE HandleFailedAttempt(x, ok))
                               EXCEPT !.held = s]
                   /\ fs' = IF arms /\ ~fs.armed THEN ArmFor(fs, PASE) ELSE fs
                   /\ live' = live \cup {s}
                   /\ Outcome(starts /\ ok)
        /\ UNCHANGED <<queue, adopted, opens>>

NoHandler ==   \* mutant: the event handler is not registered
    LET s == paseCount + 1
        x == StopAdvertisement([w EXCEPT !.paseTimer = FALSE])
    IN  /\ w.pairing = "handshake" /\ paseCount < MaxPASE
        /\ paseCount' = s
        /\ \E starts, ok \in BOOLEAN :
               LET arms == fs.armed \/ (~fs.busy /\ starts)
               IN  /\ w' = IF arms THEN [x EXCEPT !.held = s] ELSE HandleFailedAttempt(x, ok)
                   /\ fs' = IF arms /\ ~fs.armed THEN ArmFor(fs, PASE) ELSE fs
                   /\ live' = IF arms THEN live \cup {s} ELSE live
                   /\ Outcome(starts /\ ok)
        /\ UNCHANGED <<queue, adopted, opens>>

(* The handshake succeeds.  A fail-safe that is armed is left as it is; if *)
(* arming fails (it is busy, or no timer can be started) the new session   *)
(* is evicted at once.                                                     *)
OnSessionEstablished ==
    LET s == paseCount + 1
        x == StopAdvertisement([w EXCEPT !.paseTimer = FALSE, !.handler = TRUE])
    IN  /\ w.pairing = "handshake" /\ paseCount < MaxPASE
        /\ paseCount' = s
        /\ \E starts, ok \in BOOLEAN :
               LET arms == fs.armed \/ (~fs.busy /\ starts)
               IN  /\ w' = IF arms THEN [x EXCEPT !.held = s] ELSE HandleFailedAttempt(x, ok)
                   /\ fs' = IF arms /\ ~fs.armed THEN ArmFor(fs, PASE) ELSE fs
                   /\ live' = IF arms THEN live \cup {s} ELSE live
                   /\ Outcome(starts /\ ok)
        /\ UNCHANGED <<queue, adopted, opens>>

(* A session goes away.  If the manager held it, OnSessionReleased expires *)
(* the fail-safe, whoever armed it.                                        *)
Release(x, f, q, gone) ==
    IF x.held \in gone
    THEN [x |-> [x EXCEPT !.held = 0], f |-> Expire(f, q).f, q |-> Expire(f, q).q]
    ELSE [x |-> x, f |-> f, q |-> q]

CloseSession(s) ==
    LET r == Release(w, fs, queue, {s})
    IN  /\ s \in live
        /\ live' = live \ {s} /\ adopted' = adopted \ {s}
        /\ w' = r.x /\ fs' = r.f /\ queue' = r.q
        /\ UNCHANGED <<opens, paseCount, faults>>

(* Either timer of the fail-safe.                                          *)
FailSafeTimerExpired ==
    LET e == Expire(fs, queue)
    IN  /\ fs.armed
        /\ fs' = e.f /\ queue' = e.q
        /\ UNCHANGED <<w, live, adopted, opens, paseCount, faults>>

(* The ArmFailSafe command, from a PASE session (who = PASE), an           *)
(* administrator, or the fabric being added (PASE too, once AddNOC ran;    *)
(* it may then use CASE as well).                                          *)
(* CASE may not arm it first while a window is open.                       *)
ArmFailSafeCommand(who) ==
    /\ who = PASE => live # {} \/ (fs.armed /\ fs.noc)
    /\ ~fs.busy /\ (~fs.armed \/ fs.owner = who)
    /\ ~(~fs.armed /\ Open /\ who # PASE)
    /\ \/ LET e == Expire(fs, queue) IN fs' = e.f /\ queue' = e.q    \* zero seconds
       \/ fs' = ArmFor(fs, who) /\ UNCHANGED queue
    /\ UNCHANGED <<w, live, adopted, opens, paseCount, faults>>

(* AddNOC over a PASE session that owns the fail-safe.                     *)
AddNOC(s) ==
    /\ s \in live /\ fs.armed /\ fs.owner = PASE /\ ~fs.noc
    /\ fs' = [fs EXCEPT !.noc = TRUE]
    /\ adopted' = adopted \cup {s}
    /\ UNCHANGED <<w, queue, live, opens, paseCount, faults>>

(* CommissioningComplete over CASE, from the fabric of the fail-safe.  The *)
(* fabric is committed: a later expiry does not end its sessions.          *)
CommissioningComplete ==
    /\ fs.armed /\ (fs.owner = PASE => fs.noc) /\ Len(queue) < MaxQueue
    /\ fs' = Idle
    /\ queue' = Append(queue, [type |-> "Complete", noc |-> FALSE])
    /\ adopted' = {}
    /\ UNCHANGED <<w, live, opens, paseCount, faults>>

OnFabricRemoved(a) ==
    /\ w.opener = a
    /\ w' = [w EXCEPT !.opener = None]
    /\ UNCHANGED <<fs, queue, live, adopted, opens, paseCount, faults>>

(* The platform dispatches kFailSafeTimerExpired: first to the manager, if *)
(* it is registered, then to the credentials server, which ends the        *)
(* sessions of the event's fabric, whose addition is undone.  (A fail-safe *)
(* is busy until its event has been dispatched, so that adopted are still  *)
(* the sessions of that fabric.)                                           *)
DispatchExpired ==
    /\ queue # <<>> /\ Head(queue).type = "Expired"
    /\ \E ok \in BOOLEAN :
           LET undone == IF Head(queue).noc THEN adopted ELSE {}
               evicted == undone \cup (IF w.handler THEN {w.held} ELSE {})
               r == Release(w, fs, Tail(queue), evicted)
           IN  /\ w' = IF w.handler THEN HandleFailedAttempt(r.x, ok) ELSE r.x
               /\ fs' = r.f /\ queue' = r.q
               /\ live' = live \ evicted /\ adopted' = adopted \ evicted
               /\ Outcome(ok)
    /\ UNCHANGED <<opens, paseCount>>

(* The platform dispatches kCommissioningComplete.                         *)
DispatchComplete ==
    /\ queue # <<>> /\ Head(queue).type = "Complete"
    /\ IF w.handler
       THEN LET r == Release(Cleanup(w), fs, Tail(queue), live)
            IN  w' = r.x /\ fs' = r.f /\ queue' = r.q /\ live' = {} /\ adopted' = {}
       ELSE queue' = Tail(queue) /\ UNCHANGED <<w, fs, live, adopted>>
    /\ UNCHANGED <<opens, paseCount, faults>>

(* HandleDisarmFailSafe.                                                   *)
DispatchDisarm ==
    /\ queue # <<>> /\ Head(queue).type = "Disarm"
    /\ queue' = Tail(queue) /\ fs' = Idle
    /\ UNCHANGED <<w, live, adopted, opens, paseCount, faults>>

Dispatch == DispatchExpired \/ DispatchComplete \/ DispatchDisarm

Next ==
    \/ OpenWindow \/ Revoke \/ WindowTimeout
    \/ OnUnsolicitedMessageReceived \/ HandshakeFails
    \/ SessionEstablishmentTimeout \/ OnSessionEstablished
    \/ FailSafeTimerExpired \/ CommissioningComplete \/ Dispatch
    \/ \E s \in 1 .. MaxPASE : CloseSession(s) \/ AddNOC(s)
    \/ \E a \in Admins : OnFabricRemoved(a)
    \/ \E who \in Admins \cup {PASE} : ArmFailSafeCommand(who)

(* The event queue is served and the timers of an attempt run.  The        *)
(* window's own timer, of up to 15 minutes, is not relied on.              *)
Fairness ==
    /\ WF_vars(Dispatch)
    /\ WF_vars(SessionEstablishmentTimeout) /\ WF_vars(FailSafeTimerExpired)

Spec == Init /\ [][Next]_vars /\ Fairness

----------------------------------------------------------------------------
(* Properties.                                                             *)

Pending(type) == \E i \in 1 .. Len(queue) : queue[i].type = type

(* Every variable has its type.                                            *)
TypeOK ==
    /\ w \in Window
    /\ fs \in [armed : BOOLEAN, busy : BOOLEAN,
               owner : Admins \cup {PASE, None}, noc : BOOLEAN]
    /\ queue \in Seq([type : {"Expired", "Disarm", "Complete"}, noc : BOOLEAN])
    /\ adopted \subseteq live /\ live \subseteq 1 .. MaxPASE

(* The device is commissionable only inside a window: when it listens for  *)
(* PASE, or is in a handshake, the window is open, its timer runs and      *)
(* attempts are left (AdvertiseAndListenForPASE, HandleFailedAttempt).     *)
ListensOnlyInWindow ==
    w.listening \/ w.registered \/ w.pairing # "clear" =>
        Open /\ w.timer /\ w.attempts < MaxAttempts

(* An open window is never left deaf: it waits for a request, is in a      *)
(* handshake whose timer runs, or a fail-safe or its event will make the   *)
(* registered manager listen again or close (OnUnsolicitedMessageReceived  *)
(* stops listening, so every way out must start it again).                 *)
NeverDeaf ==
    Open => \/ w.registered /\ w.pairing = "waiting"
            \/ ~w.registered /\ w.pairing = "handshake" /\ w.paseTimer
            \/ /\ w.handler /\ w.pairing = "clear"
               /\ fs.armed \/ Pending("Expired") \/ Pending("Complete")

(* While the manager listens to events, the session it took from the last  *)
(* handshake has the fail-safe, or the event that will evict it is on its  *)
(* way: no step of commissioning leaves that session behind ("Don't allow  *)
(* a PASE session to hang around without a fail-safe").                    *)
HeldHasFailSafe ==
    w.handler /\ w.held # 0 /\ w.held = paseCount =>
        fs.armed \/ Pending("Expired") \/ Pending("Complete")

(* The fail-safe is not armed when a handshake is under way ("This should  *)
(* never be armed because we don't allow CASE sessions to arm the failsafe *)
(* when the commissioning window is open"), unless by a PASE session that  *)
(* outlived its own window.                                                *)
NotArmedInHandshake ==
    w.pairing = "handshake" /\ fs.armed => fs.owner = PASE

(* Busy exactly until the queued work disarms it, so that the fail-safe    *)
(* can always be armed again (ScheduleFailSafeCleanup).                    *)
BusyIsTemporary == fs.busy <=> Pending("Disarm")

(* An expiry event has its disarming right behind it, and at most one      *)
(* disarming is queued: the order in which ScheduleFailSafeCleanup posts.  *)
ExpiryIsPaired ==
    \A i, j \in 1 .. Len(queue) :
        /\ queue[i].type = "Expired" => i < Len(queue) /\ queue[i + 1].type = "Disarm"
        /\ queue[i].type = "Disarm" /\ queue[j].type = "Disarm" => i = j

(* The window's timer runs as long as it is open, which it is no longer    *)
(* after the last attempt; the events it listens to are those of an open   *)
(* window; a handshake's timer that outlived its window may still count    *)
(* one attempt (ResetState, HandleFailedAttempt).                          *)
TimedWindow ==
    /\ Open <=> w.timer
    /\ Open => w.attempts < MaxAttempts
    /\ w.handler => Open
    /\ w.paseTimer => w.attempts <= MaxAttempts

(* Everything the manager relies on, closed under every step: the types,   *)
(* the properties above, and what they rest on.  While a window is open    *)
(* the fail-safe is PASE's, it is never armed and busy, and the manager    *)
(* holds no session that was not established.                              *)
WindowInv ==
    /\ TypeOK /\ paseCount \in 0 .. MaxPASE /\ w.held <= paseCount
    /\ ~(fs.armed /\ fs.busy) /\ BusyIsTemporary /\ ExpiryIsPaired
    /\ TimedWindow /\ ListensOnlyInWindow
    /\ Open /\ fs.armed => fs.owner = PASE
    /\ NotArmedInHandshake /\ NeverDeaf /\ HeldHasFailSafe

(* A window that stopped listening because a commissioner came listens     *)
(* again or closes, before the window's own timer has to end it            *)
(* (HandleFailedAttempt after OnUnsolicitedMessageReceived).               *)
ListensAgainOrCloses ==
    (Open /\ ~w.registered) ~> (w.registered \/ ~Open)

(* A PASE session is never without a fail-safe: "Don't allow a PASE        *)
(* session to hang around without a fail-safe", "When the now-armed        *)
(* fail-safe is disarmed or expires it will handle clearing out            *)
(* mPASESession".                                                          *)
PASEHasFailSafe ==
    w.held # 0 => fs.armed \/ fs.busy \/ Pending("Complete")
=============================================================================
