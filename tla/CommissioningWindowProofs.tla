---------------------- MODULE CommissioningWindowProofs ----------------------
(***************************************************************************)
(* For any number of administrators, attempts, windows and PASE sessions:  *)
(* the window's invariant is inductive, so a device is commissionable only *)
(* inside a window, an open window is never left deaf, and the session it  *)
(* holds has a fail-safe.                                                  *)
(***************************************************************************)
EXTENDS CommissioningWindow, SequenceTheorems, TLAPS

Event == [type : {"Expired", "Disarm", "Complete"}, noc : BOOLEAN]
FailSafe == [armed : BOOLEAN, busy : BOOLEAN,
             owner : Admins \cup {PASE, None}, noc : BOOLEAN]

\* Pending and ExpiryIsPaired, of any queue.
Has(q, type) == \E i \in 1 .. Len(q) : q[i].type = type
Paired(q) ==
    \A i, j \in 1 .. Len(q) :
        /\ q[i].type = "Expired" => i < Len(q) /\ q[i + 1].type = "Disarm"
        /\ q[i].type = "Disarm" /\ q[j].type = "Disarm" => i = j

\* What a queue holds after an event is posted.
LEMMA PostEvent ==
    ASSUME NEW q \in Seq(Event), NEW e \in Event
    PROVE  /\ Append(q, e) \in Seq(Event)
           /\ \A type : Has(Append(q, e), type) <=> Has(q, type) \/ e.type = type
           /\ e.type = "Complete" /\ Paired(q) => Paired(Append(q, e))
<1>. DEFINE r == Append(q, e)
<1>1. /\ r \in Seq(Event) /\ Len(r) = Len(q) + 1 /\ r[Len(q) + 1] = e
      /\ \A i \in 1 .. Len(q) : r[i] = q[i]
      /\ Len(q) \in Nat
  OBVIOUS
<1>. HIDE DEF r
<1>2. ASSUME NEW type PROVE Has(r, type) <=> Has(q, type) \/ e.type = type
  BY <1>1 DEF Has
<1>3. ASSUME e.type = "Complete", Paired(q) PROVE Paired(r)
  BY <1>1, <1>3 DEF Paired
<1>. QED BY <1>1, <1>2, <1>3 DEF r

\* What a queue holds after its first event was dispatched.
LEMMA DispatchEvent ==
    ASSUME NEW q \in Seq(Event), q # <<>>, Paired(q)
    PROVE  /\ Tail(q) \in Seq(Event) /\ Head(q) \in Event /\ Paired(Tail(q))
           /\ \A type : Has(Tail(q), type) => Has(q, type)
           /\ \A type : type # Head(q).type => (Has(Tail(q), type) <=> Has(q, type))
           /\ Has(q, Head(q).type)
           /\ Head(q).type = "Disarm" => ~Has(Tail(q), "Disarm")
           /\ Head(q).type = "Expired" => Has(Tail(q), "Disarm")
<1>. DEFINE r == Tail(q)
<1>1. /\ r \in Seq(Event) /\ Len(r) = Len(q) - 1 /\ Head(q) = q[1] /\ q[1] \in Event
      /\ \A i \in 1 .. Len(r) : r[i] = q[i + 1]
      /\ Len(q) \in Nat \ {0} /\ Len(r) \in Nat
  OBVIOUS
<1>. HIDE DEF r
<1>2. ASSUME NEW type PROVE Has(r, type) => Has(q, type)
  BY <1>1 DEF Has
<1>3. ASSUME NEW type, type # Head(q).type PROVE Has(q, type) => Has(r, type)
  <2>. SUFFICES ASSUME NEW i \in 1 .. Len(q), q[i].type = type PROVE Has(r, type)
    BY DEF Has
  <2>1. i # 1 /\ i - 1 \in 1 .. Len(r) /\ r[i - 1] = q[i]
    BY <1>1, <1>3
  <2>. QED BY <2>1 DEF Has
<1>4. Has(q, Head(q).type)
  BY <1>1 DEF Has
<1>5. Paired(r)
  <2>. SUFFICES ASSUME NEW i \in 1 .. Len(r), NEW j \in 1 .. Len(r)
                PROVE  /\ r[i].type = "Expired" => i < Len(r) /\ r[i + 1].type = "Disarm"
                       /\ r[i].type = "Disarm" /\ r[j].type = "Disarm" => i = j
    BY DEF Paired
  <2>1. i + 1 \in 1 .. Len(q) /\ j + 1 \in 1 .. Len(q) /\ r[i] = q[i + 1] /\ r[j] = q[j + 1]
    BY <1>1
  <2>2. /\ q[i + 1].type = "Expired" => i + 1 < Len(q) /\ q[(i + 1) + 1].type = "Disarm"
        /\ q[i + 1].type = "Disarm" /\ q[j + 1].type = "Disarm" => i + 1 = j + 1
    BY <2>1 DEF Paired
  <2>3. i + 1 < Len(q) => i < Len(r) /\ i + 1 \in 1 .. Len(r)
    BY <1>1
  <2>4. i + 1 < Len(q) => r[i + 1] = q[(i + 1) + 1]
    BY <1>1, <2>3
  <2>. QED BY <2>1, <2>2, <2>3, <2>4
<1>6. Head(q).type = "Disarm" => ~Has(r, "Disarm")
  BY <1>1 DEF Paired, Has
<1>7. Head(q).type = "Expired" => Has(r, "Disarm")
  BY <1>1 DEF Paired, Has
<1>. QED BY <1>1, <1>2, <1>3, <1>4, <1>5, <1>6, <1>7 DEF r

\* The fail-safe and the queue agree; an end of the attempt is coming.
Agree(f, q) ==
    /\ q \in Seq(Event) /\ f \in FailSafe /\ Paired(q)
    /\ ~(f.armed /\ f.busy) /\ (f.busy <=> Has(q, "Disarm"))
Coming(f, q) == f.armed \/ Has(q, "Expired") \/ Has(q, "Complete")

\* ScheduleFailSafeCleanup on a queue and a fail-safe that agree: they still do,
\* the fail-safe is not armed, and if it was, its expiry is on its way.
LEMMA ExpireFacts ==
    ASSUME NEW q, NEW f, Agree(f, q)
    PROVE  LET e == Expire(f, q)
           IN  /\ Agree(e.f, e.q) /\ ~e.f.armed
               /\ Has(e.q, "Expired") <=> Has(q, "Expired") \/ f.armed
               /\ Has(e.q, "Complete") <=> Has(q, "Complete")
               /\ Coming(e.f, e.q) <=> Coming(f, q)
<1>. USE DEF Agree, Coming
<1>1. CASE ~f.armed
  BY <1>1 DEF Expire, FailSafe
<1>2. CASE f.armed
  <2>. DEFINE x == [type |-> "Expired", noc |-> f.noc]
              d == [type |-> "Disarm", noc |-> FALSE]
              r == q \o <<x, d>>
  <2>1. x \in Event /\ d \in Event /\ x.type = "Expired" /\ d.type = "Disarm"
    BY DEF Event, FailSafe
  <2>2. Expire(f, q).q = r /\ Expire(f, q).f = [f EXCEPT !.armed = FALSE, !.busy = TRUE]
    BY <1>2 DEF Expire
  <2>. HIDE DEF x, d
  <2>3. /\ r \in Seq(Event) /\ Len(r) = Len(q) + 2 /\ Len(q) \in Nat
        /\ r[Len(q) + 1] = x /\ r[Len(q) + 2] = d
        /\ \A i \in 1 .. Len(q) : r[i] = q[i]
    BY <2>1
  <2>. HIDE DEF r
  <2>4. ~Has(q, "Disarm")
    BY <1>2
  <2>5. \A i \in 1 .. Len(q) : q[i].type # "Expired" /\ q[i].type # "Disarm"
    BY <2>4 DEF Has, Paired
  <2>6. Paired(r)
    BY <2>1, <2>3, <2>5 DEF Paired
  <2>7. Has(r, "Disarm") /\ Has(r, "Expired") /\ (Has(r, "Complete") <=> Has(q, "Complete"))
    BY <2>1, <2>3 DEF Has
  <2>. QED BY <1>2, <2>2, <2>3, <2>6, <2>7 DEF FailSafe
<1>. QED BY <1>1, <1>2

\* The window's part of the invariant: of the manager x, with n sessions so far.
Manager(x, n) ==
    /\ x \in Window /\ n \in 0 .. MaxPASE /\ x.held <= n
    /\ x.status # "NotOpen" <=> x.timer
    /\ x.timer => x.attempts < MaxAttempts
    /\ x.handler => x.timer
    /\ x.paseTimer => x.attempts <= MaxAttempts
    /\ x.listening \/ x.registered \/ x.pairing # "clear" => x.timer

\* The parts of the invariant that tie the two together.
Tied(x, n, f, q) ==
    /\ x.timer /\ f.armed => f.owner = PASE
    /\ x.timer => \/ x.registered /\ x.pairing = "waiting"
                  \/ ~x.registered /\ x.pairing = "handshake" /\ x.paseTimer
                  \/ x.handler /\ x.pairing = "clear" /\ Coming(f, q)
    /\ x.handler /\ x.held # 0 /\ x.held = n => Coming(f, q)

\* The invariant in these terms.
LEMMA InvParts ==
    WindowInv <=> /\ Agree(fs, queue) /\ Manager(w, paseCount)
                  /\ Tied(w, paseCount, fs, queue)
                  /\ adopted \subseteq live /\ live \subseteq 1 .. MaxPASE
<1>1. Paired(queue) <=> ExpiryIsPaired
  BY DEF Paired, ExpiryIsPaired
<1>2. \A type : Has(queue, type) <=> Pending(type)
  BY DEF Has, Pending
<1>3. Event = [type : {"Expired", "Disarm", "Complete"}, noc : BOOLEAN]
      /\ FailSafe = [armed : BOOLEAN, busy : BOOLEAN,
                      owner : Admins \cup {PASE, None}, noc : BOOLEAN]
  BY DEF Event, FailSafe
<1>4. TypeOK <=> /\ w \in Window /\ fs \in FailSafe /\ queue \in Seq(Event)
                 /\ adopted \subseteq live /\ live \subseteq 1 .. MaxPASE
  BY <1>3 DEF TypeOK
<1>5. ListensOnlyInWindow <=>
         (w.listening \/ w.registered \/ w.pairing # "clear" =>
             Open /\ w.timer /\ w.attempts < MaxAttempts)
  BY DEF ListensOnlyInWindow
<1>6. Manager(w, paseCount) <=>
         /\ w \in Window /\ paseCount \in 0 .. MaxPASE /\ w.held <= paseCount
         /\ TimedWindow /\ ListensOnlyInWindow
  BY <1>5 DEF Manager, TimedWindow, Open, Window
<1>7. Manager(w, paseCount) =>
        (Tied(w, paseCount, fs, queue) <=>
            /\ Open /\ fs.armed => fs.owner = PASE
            /\ NotArmedInHandshake /\ NeverDeaf /\ HeldHasFailSafe)
  BY <1>2 DEF Manager, Tied, Coming, Open, NotArmedInHandshake, NeverDeaf, HeldHasFailSafe, Window
<1>8. Agree(fs, queue) <=> /\ fs \in FailSafe /\ queue \in Seq(Event)
                           /\ ~(fs.armed /\ fs.busy) /\ BusyIsTemporary /\ ExpiryIsPaired
  BY <1>1, <1>2 DEF Agree, BusyIsTemporary
<1>. QED BY <1>4, <1>6, <1>7, <1>8 DEF WindowInv

\* Closing the window leaves the manager's part in order, whatever state it was in.
LEMMA CleanupFacts ==
    ASSUME NEW x \in Window, NEW n \in 0 .. MaxPASE, x.held <= n,
           x.paseTimer => x.attempts <= MaxAttempts
    PROVE  /\ Manager(Cleanup(x), n)
           /\ ~Cleanup(x).timer /\ ~Cleanup(x).handler /\ Cleanup(x).held = x.held
BY DEF Cleanup, ResetState, StopAdvertisement, Manager, Window

\* Listening in a timed window.
LEMMA ListenFacts ==
    ASSUME NEW x \in Window, NEW n \in 0 .. MaxPASE, x.held <= n,
           x.timer, x.attempts < MaxAttempts
    PROVE  LET y == AdvertiseAndListenForPASE(x)
           IN  /\ Manager(y, n) /\ y.timer /\ y.registered /\ y.pairing = "waiting"
               /\ y.held = x.held /\ y.handler = x.handler
<1>1. PICK s \in {"Basic", "Enhanced"} :
         AdvertiseAndListenForPASE(x) =
            [x EXCEPT !.pairing = "waiting", !.registered = TRUE, !.listening = TRUE,
                      !.status = s]
  BY Zenon DEF AdvertiseAndListenForPASE
<1>. DEFINE y == AdvertiseAndListenForPASE(x)
<1>2. /\ y \in Window /\ y.status = s /\ y.timer = x.timer /\ y.handler = x.handler
      /\ y.registered = TRUE /\ y.pairing = "waiting" /\ y.held = x.held
      /\ y.attempts = x.attempts
  <2>. HIDE DEF y
  <2>1. y = [x EXCEPT !.pairing = "waiting", !.registered = TRUE, !.listening = TRUE, !.status = s]
    BY <1>1 DEF y
  <2>2. y \in Window
    BY <2>1 DEF Window
  <2>3. /\ y.status = s /\ y.timer = x.timer /\ y.handler = x.handler
        /\ y.registered = TRUE /\ y.pairing = "waiting" /\ y.held = x.held
        /\ y.attempts = x.attempts
    BY <2>1 DEF Window
  <2>. QED BY <2>2, <2>3
<1>. HIDE DEF y
<1>3. Manager(y, n)
  BY <1>2, AttemptsAssumption DEF Manager, Window
<1>. QED BY <1>2, <1>3 DEF y

\* A failed attempt either listens again or closes the window.
LEMMA FailedAttemptFacts ==
    ASSUME NEW x \in Window, NEW n \in 0 .. MaxPASE, NEW ok \in BOOLEAN, x.held <= n,
           x.attempts <= MaxAttempts, x.paseTimer => x.attempts < MaxAttempts
    PROVE  LET y == HandleFailedAttempt(x, ok)
           IN  /\ Manager(y, n) /\ y.held = x.held
               /\ y.timer => x.timer /\ y.registered /\ y.pairing = "waiting"
               /\ y.handler => x.handler
<1>. DEFINE z == [x EXCEPT !.attempts = @ + 1]
<1>1. /\ z \in Window /\ z.held = x.held /\ z.timer = x.timer /\ z.handler = x.handler
      /\ z.paseTimer = x.paseTimer /\ z.attempts = x.attempts + 1
  BY AttemptsAssumption DEF Window
<1>2. HandleFailedAttempt(x, ok) = IF z.attempts < MaxAttempts /\ z.timer /\ ok
                                   THEN AdvertiseAndListenForPASE(z) ELSE Cleanup(z)
  BY DEF HandleFailedAttempt
<1>. HIDE DEF z
<1>3. z.paseTimer => z.attempts <= MaxAttempts
  BY <1>1, AttemptsAssumption DEF Window
<1>4. CASE z.attempts < MaxAttempts /\ z.timer /\ ok
  BY <1>1, <1>2, <1>4, ListenFacts
<1>5. CASE ~(z.attempts < MaxAttempts /\ z.timer /\ ok)
  BY <1>1, <1>2, <1>3, <1>5, CleanupFacts
<1>. QED BY <1>4, <1>5

\* OnSessionReleased, when a session of gone is the one held.
LEMMA ReleaseFacts ==
    ASSUME NEW x, NEW n, NEW f, NEW q, NEW gone, Agree(f, q), x \in Window
    PROVE  LET r == Release(x, f, q, gone)
           IN  /\ Agree(r.f, r.q) /\ (Coming(r.f, r.q) <=> Coming(f, q))
               /\ (r.f.armed => f.armed /\ r.f.owner = f.owner)
               /\ (Has(r.q, "Disarm") \/ ~Has(q, "Disarm"))
               /\ \/ r.x = x /\ x.held \notin gone
                  \/ x.held \in gone /\ r.x = [x EXCEPT !.held = 0]
<1>1. CASE x.held \in gone
  <2>1. Release(x, f, q, gone) =
           [x |-> [x EXCEPT !.held = 0], f |-> Expire(f, q).f, q |-> Expire(f, q).q]
    BY <1>1 DEF Release
  <2>2. Has(Expire(f, q).q, "Disarm") \/ ~Has(q, "Disarm")
    BY DEF Expire, Agree
  <2>. QED BY <1>1, <2>1, <2>2, ExpireFacts
<1>2. CASE x.held \notin gone
  BY <1>2 DEF Release
<1>. QED BY <1>1, <1>2

\* The first state.
LEMMA WindowInit == Init => WindowInv
<1>. SUFFICES ASSUME Init PROVE WindowInv
  OBVIOUS
<1>1. Agree(fs, queue)
  BY DEF Init, Agree, Idle, FailSafe, Paired, Has
<1>2. Manager(w, paseCount) /\ Tied(w, paseCount, fs, queue)
  BY AttemptsAssumption, BoundsAssumption DEF Init, Manager, Tied, Window, Idle
<1>. QED BY <1>1, <1>2, InvParts DEF Init

\* The invariant of the next state in the same terms.
LEMMA InvPartsNext ==
    ASSUME Agree(fs, queue)', Manager(w, paseCount)', Tied(w, paseCount, fs, queue)',
           (adopted \subseteq live /\ live \subseteq 1 .. MaxPASE)'
    PROVE  WindowInv'
BY InvParts, PTL

\* Steps of the manager alone, which leave a session it holds as it was.
LEMMA ManagerStep ==
    ASSUME WindowInv, UNCHANGED <<fs, queue, live, adopted, paseCount>>,
           Manager(w', paseCount), w'.held = w.held, w'.handler => w.handler,
           w'.timer /\ ~w.timer => ~fs.armed,
           w'.timer => \/ w'.registered /\ w'.pairing = "waiting"
                       \/ ~w'.registered /\ w'.pairing = "handshake" /\ w'.paseTimer
    PROVE  WindowInv'
<1>1. /\ Agree(fs, queue) /\ Tied(w, paseCount, fs, queue)
      /\ adopted \subseteq live /\ live \subseteq 1 .. MaxPASE
  BY InvParts
<1>2. Tied(w', paseCount, fs, queue)
  BY <1>1 DEF Tied
<1>. QED BY <1>1, <1>2, InvPartsNext

\* Steps of the fail-safe and the queue, which leave the manager and the sessions.
LEMMA FailSafeStep ==
    ASSUME WindowInv, UNCHANGED <<w, paseCount>>, Agree(fs', queue'),
           Coming(fs, queue) => Coming(fs', queue'),
           w.timer /\ fs'.armed => fs'.owner = PASE,
           adopted' \subseteq live', live' \subseteq 1 .. MaxPASE
    PROVE  WindowInv'
<1>1. Manager(w, paseCount) /\ Tied(w, paseCount, fs, queue)
  BY InvParts
<1>2. Tied(w, paseCount, fs', queue')
  BY <1>1 DEF Tied
<1>. QED BY <1>1, <1>2, InvPartsNext

\* Opening a window.
LEMMA OpenWindowStep == WindowInv /\ OpenWindow => WindowInv'
<1>. SUFFICES ASSUME WindowInv, OpenWindow PROVE WindowInv'
  OBVIOUS
<1>1. /\ Manager(w, paseCount) /\ ~w.timer /\ ~w.handler /\ ~fs.armed
      /\ UNCHANGED <<fs, queue, live, adopted, paseCount>>
  BY InvParts DEF OpenWindow, Open, FullyDisarmed, Manager
<1>2. PICK ecm \in BOOLEAN, who \in Admins \cup {None}, ok \in BOOLEAN :
         LET x == [w EXCEPT !.attempts = 0, !.ecm = ecm, !.timer = TRUE]
         IN  w' = IF ok THEN [AdvertiseAndListenForPASE(x) EXCEPT !.opener = who]
                  ELSE Cleanup(x)
  BY Zenon DEF OpenWindow
<1>. DEFINE x == [w EXCEPT !.attempts = 0, !.ecm = ecm, !.timer = TRUE]
            y == AdvertiseAndListenForPASE(x)
<1>3. /\ x \in Window /\ x.timer = TRUE /\ x.attempts = 0 /\ x.held = w.held
      /\ x.handler = w.handler /\ x.held <= paseCount
  <2>1. w \in Window /\ w.held <= paseCount
    BY <1>1 DEF Manager
  <2>2. 0 \in 0 .. MaxAttempts + 1
    BY AttemptsAssumption
  <2>. QED BY <2>1, <2>2 DEF Window
<1>4. w' = IF ok THEN [y EXCEPT !.opener = who] ELSE Cleanup(x)
  BY <1>2
<1>. HIDE DEF x
<1>5. CASE ok
  <2>1. /\ Manager(y, paseCount) /\ y.timer /\ y.registered /\ y.pairing = "waiting"
        /\ y.held = x.held /\ y.handler = x.handler
    BY <1>1, <1>3, ListenFacts, AttemptsAssumption DEF Manager
  <2>. HIDE DEF y
  <2>2. w' = [y EXCEPT !.opener = who]
    BY <1>4, <1>5
  <2>3. /\ Manager(w', paseCount) /\ w'.timer /\ w'.registered /\ w'.pairing = "waiting"
        /\ w'.held = y.held /\ w'.handler = y.handler
    BY <2>1, <2>2 DEF Manager, Window
  <2>. QED BY <1>1, <1>3, <2>1, <2>3, ManagerStep
<1>6. CASE ~ok
  <2>1. /\ Manager(w', paseCount) /\ ~w'.timer /\ ~w'.handler /\ w'.held = x.held
    BY <1>1, <1>3, <1>4, <1>6, CleanupFacts, AttemptsAssumption DEF Manager
  <2>. QED BY <1>1, <1>3, <2>1, ManagerStep
<1>. QED BY <1>5, <1>6

\* The window closes, by its timer or on request.
LEMMA CloseFacts ==
    ASSUME NEW x \in Window, NEW n \in 0 .. MaxPASE, x.held <= n,
           x.paseTimer => x.attempts <= MaxAttempts, x.status # "NotOpen"
    PROVE  LET y == CloseCommissioningWindow(x)
           IN  Manager(y, n) /\ ~y.timer /\ ~y.handler /\ y.held = x.held
BY CleanupFacts DEF CloseCommissioningWindow

LEMMA RevokeStep == WindowInv /\ Revoke => WindowInv'
<1>. SUFFICES ASSUME WindowInv, Revoke PROVE WindowInv'
  OBVIOUS
<1>1. /\ Manager(w, paseCount) /\ Agree(fs, queue) /\ Tied(w, paseCount, fs, queue)
      /\ adopted \subseteq live /\ live \subseteq 1 .. MaxPASE
  BY InvParts
<1>2. /\ fs' = Expire(fs, queue).f /\ queue' = Expire(fs, queue).q
      /\ w' = CloseCommissioningWindow(w) /\ UNCHANGED <<live, adopted, paseCount>>
  BY DEF Revoke
<1>3. Agree(fs', queue') /\ ~fs'.armed
  BY <1>1, <1>2, ExpireFacts
<1>4. Manager(w', paseCount) /\ ~w'.timer /\ ~w'.handler
  <2>1. CASE Open
    BY <1>1, <1>2, <2>1, CloseFacts DEF Manager, Open
  <2>2. CASE ~Open
    BY <1>1, <1>2, <2>2 DEF Manager, Open, CloseCommissioningWindow
  <2>. QED BY <2>1, <2>2
<1>5. Tied(w', paseCount, fs', queue')
  BY <1>3, <1>4 DEF Tied
<1>. QED BY <1>1, <1>2, <1>3, <1>4, <1>5, InvPartsNext

LEMMA WindowTimeoutStep == WindowInv /\ WindowTimeout => WindowInv'
<1>. SUFFICES ASSUME WindowInv, WindowTimeout PROVE WindowInv'
  OBVIOUS
<1>. DEFINE x == [w EXCEPT !.timer = FALSE]
<1>1. /\ Manager(w, paseCount) /\ w.timer /\ w' = CloseCommissioningWindow(x)
      /\ UNCHANGED <<fs, queue, live, adopted, paseCount>>
  BY InvParts DEF WindowTimeout
<1>2. /\ x \in Window /\ x.held = w.held /\ x.held <= paseCount
      /\ x.paseTimer => x.attempts <= MaxAttempts
      /\ x.status # "NotOpen"
  BY <1>1 DEF Manager, Window
<1>. HIDE DEF x
<1>3. Manager(w', paseCount) /\ ~w'.timer /\ ~w'.handler /\ w'.held = x.held
  BY <1>1, <1>2, CloseFacts DEF Manager
<1>. QED BY <1>1, <1>2, <1>3, ManagerStep

\* Every way in which a handshake ends without a session.
LEMMA ErrorStep ==
    ASSUME WindowInv, NEW x \in Window, NEW ok \in BOOLEAN,
           x.held = w.held, x.handler = w.handler, x.timer = w.timer,
           x.attempts = w.attempts, x.attempts <= MaxAttempts,
           w' = OnSessionEstablishmentError(x, ok),
           UNCHANGED <<fs, queue, live, adopted, paseCount>>
    PROVE  WindowInv'
<1>. DEFINE y == [x EXCEPT !.paseTimer = FALSE]
<1>1. /\ y \in Window /\ y.held = w.held /\ y.handler = w.handler /\ y.timer = w.timer
      /\ y.attempts = w.attempts /\ ~y.paseTimer
  BY DEF Window
<1>2. Manager(w, paseCount) /\ w' = HandleFailedAttempt(y, ok)
  BY InvParts DEF OnSessionEstablishmentError
<1>. HIDE DEF y
<1>3. /\ Manager(w', paseCount) /\ w'.held = w.held /\ (w'.handler => w.handler)
      /\ w'.timer => w.timer /\ w'.registered /\ w'.pairing = "waiting"
  BY <1>1, <1>2, FailedAttemptFacts DEF Manager
<1>. QED BY <1>3, ManagerStep

LEMMA HandshakeSteps ==
    WindowInv /\ (OnUnsolicitedMessageReceived \/ HandshakeFails \/ SessionEstablishmentTimeout)
        => WindowInv'
<1>. SUFFICES ASSUME WindowInv,
                     OnUnsolicitedMessageReceived \/ HandshakeFails \/ SessionEstablishmentTimeout
              PROVE  WindowInv'
  OBVIOUS
<1>0. /\ Manager(w, paseCount) /\ w \in Window
      /\ UNCHANGED <<fs, queue, live, adopted, paseCount>>
  BY InvParts DEF Manager, OnUnsolicitedMessageReceived, HandshakeFails,
                  SessionEstablishmentTimeout
<1>1. CASE OnUnsolicitedMessageReceived
  <2>. DEFINE x == [w EXCEPT !.registered = FALSE]
  <2>1. /\ x \in Window /\ x.held = w.held /\ x.handler = w.handler /\ x.timer = w.timer
        /\ x.attempts = w.attempts /\ w.timer /\ x.attempts < MaxAttempts
        /\ x.status = w.status /\ x.registered = FALSE
    BY <1>0, <1>1 DEF OnUnsolicitedMessageReceived, Manager, Window
  <2>2. \/ w' = [x EXCEPT !.pairing = "handshake", !.paseTimer = TRUE]
        \/ \E ok \in BOOLEAN : w' = OnSessionEstablishmentError(x, ok)
    BY <1>1, Zenon DEF OnUnsolicitedMessageReceived
  <2>. HIDE DEF x
  <2>3. CASE w' = [x EXCEPT !.pairing = "handshake", !.paseTimer = TRUE]
    <3>1. /\ w' \in Window /\ w'.held = w.held /\ w'.handler = w.handler
          /\ w'.timer = w.timer /\ w'.attempts = w.attempts /\ w'.status = w.status
          /\ w'.pairing = "handshake" /\ w'.registered = FALSE /\ w'.paseTimer = TRUE
      BY <2>1, <2>3 DEF Window
    <3>2. Manager(w', paseCount)
      BY <1>0, <2>1, <3>1, AttemptsAssumption DEF Manager, Window
    <3>. QED BY <1>0, <3>1, <3>2, ManagerStep
  <2>4. ASSUME NEW ok \in BOOLEAN, w' = OnSessionEstablishmentError(x, ok)
        PROVE  WindowInv'
    <3>1. x.attempts <= MaxAttempts
      BY <2>1, AttemptsAssumption DEF Window
    <3>. QED BY <1>0, <2>1, <2>4, <3>1, ErrorStep
  <2>. QED BY <2>2, <2>3, <2>4
<1>2. CASE HandshakeFails \/ SessionEstablishmentTimeout
  <2>1. PICK ok \in BOOLEAN : w' = OnSessionEstablishmentError(w, ok)
    BY <1>2 DEF HandshakeFails, SessionEstablishmentTimeout
  <2>2. w.attempts <= MaxAttempts
    BY <1>0, <1>2, AttemptsAssumption
       DEF Manager, Window, HandshakeFails, SessionEstablishmentTimeout
  <2>. QED BY <1>0, <2>1, <2>2, ErrorStep
<1>. QED BY <1>1, <1>2

\* The handshake succeeds: the new session is held and the fail-safe is armed, or it
\* is gone and the attempt failed.
LEMMA EstablishedStep == WindowInv /\ OnSessionEstablished => WindowInv'
<1>. SUFFICES ASSUME WindowInv, OnSessionEstablished PROVE WindowInv'
  OBVIOUS
<1>. DEFINE s == paseCount + 1
            v == [w EXCEPT !.paseTimer = FALSE, !.handler = TRUE]
            x == StopAdvertisement(v)
<1>1. /\ Manager(w, paseCount) /\ Agree(fs, queue) /\ Tied(w, paseCount, fs, queue)
      /\ adopted \subseteq live /\ live \subseteq 1 .. MaxPASE
  BY InvParts
<1>2. /\ w.pairing = "handshake" /\ paseCount < MaxPASE /\ paseCount' = s
      /\ UNCHANGED <<queue, adopted>>
  BY DEF OnSessionEstablished
<1>3. PICK arms \in BOOLEAN, ok \in BOOLEAN :
         /\ arms \/ ~fs.armed
         /\ arms /\ ~fs.armed => ~fs.busy
         /\ w' = IF arms THEN [x EXCEPT !.held = s] ELSE HandleFailedAttempt(x, ok)
         /\ fs' = IF arms /\ ~fs.armed THEN ArmFor(fs, PASE) ELSE fs
         /\ live' = IF arms THEN live \cup {s} ELSE live
  BY Zenon DEF OnSessionEstablished
<1>4. /\ x \in Window /\ x.status = w.status /\ x.timer = w.timer
      /\ x.attempts = w.attempts /\ x.held = w.held /\ x.handler = TRUE
      /\ x.paseTimer = FALSE /\ x.registered = FALSE /\ x.listening = FALSE
      /\ x.pairing = "clear"
  BY <1>1 DEF StopAdvertisement, Manager, Window
<1>5. /\ w.timer /\ w.attempts < MaxAttempts /\ w.held < s /\ s \in 1 .. MaxPASE
      /\ w.status # "NotOpen"
  BY <1>1, <1>2, BoundsAssumption DEF Manager, Window
<1>. HIDE DEF x, s
<1>6. CASE arms
  <2>1. /\ w' \in Window /\ w'.status = w.status /\ w'.timer = w.timer
        /\ w'.attempts = w.attempts /\ w'.held = s /\ w'.handler = TRUE
        /\ w'.paseTimer = FALSE /\ w'.registered = FALSE /\ w'.listening = FALSE
        /\ w'.pairing = "clear"
    <3>1. w' = [x EXCEPT !.held = s] /\ s \in 0 .. MaxPASE
      BY <1>3, <1>5, <1>6
    <3>. QED BY <1>4, <3>1 DEF Window
  <2>2. Manager(w', s)
    BY <1>5, <2>1 DEF Manager
  <2>3. /\ fs' \in FailSafe /\ fs'.armed /\ (fs'.busy <=> fs.busy) /\ ~fs'.busy
        /\ fs'.owner = PASE
    <3>1. CASE fs.armed
      BY <1>1, <1>3, <1>5, <3>1 DEF Agree, Tied
    <3>2. CASE ~fs.armed
      <4>1. fs' = ArmFor(fs, PASE) /\ ~fs.busy
        BY <1>3, <1>6, <3>2
      <4>. QED BY <1>1, <3>2, <4>1 DEF Agree, ArmFor, FailSafe
    <3>. QED BY <3>1, <3>2
  <2>4. Agree(fs', queue')
    BY <1>1, <1>2, <2>3 DEF Agree
  <2>5. Tied(w', s, fs', queue')
    BY <2>1, <2>3 DEF Tied, Coming
  <2>. QED BY <1>1, <1>2, <1>3, <1>5, <1>6, <2>2, <2>4, <2>5, InvPartsNext
<1>7. CASE ~arms
  <2>1. /\ Manager(w', s) /\ w'.held = w.held
        /\ w'.timer => w'.registered /\ w'.pairing = "waiting"
    BY <1>1, <1>3, <1>4, <1>5, <1>7, FailedAttemptFacts, AttemptsAssumption
       DEF Manager, Window
  <2>2. fs' = fs /\ live' = live /\ ~fs.armed
    BY <1>3, <1>7
  <2>3. Tied(w', s, fs', queue')
    BY <1>5, <2>1, <2>2 DEF Tied, Manager, Window
  <2>. QED BY <1>1, <1>2, <2>1, <2>2, <2>3, InvPartsNext
<1>. QED BY <1>6, <1>7

\* A session is closed.
LEMMA CloseSessionStep == ASSUME NEW s, WindowInv, CloseSession(s) PROVE WindowInv'
<1>. DEFINE r == Release(w, fs, queue, {s})
<1>1. /\ Manager(w, paseCount) /\ Agree(fs, queue) /\ Tied(w, paseCount, fs, queue)
      /\ adopted \subseteq live /\ live \subseteq 1 .. MaxPASE
      /\ w \in Window
  BY InvParts DEF Manager
<1>2. /\ w' = r.x /\ fs' = r.f /\ queue' = r.q /\ paseCount' = paseCount
      /\ live' = live \ {s} /\ adopted' = adopted \ {s}
  BY DEF CloseSession
<1>. HIDE DEF r
<1>3. /\ Agree(fs', queue') /\ (Coming(fs', queue') <=> Coming(fs, queue))
      /\ (fs'.armed => fs.armed /\ fs'.owner = fs.owner)
      /\ w' = w \/ w' = [w EXCEPT !.held = 0]
  BY <1>1, <1>2, ReleaseFacts DEF r
<1>4. Manager(w', paseCount) /\ Tied(w', paseCount, fs', queue')
  <2>1. CASE w' = w
    BY <1>1, <1>3, <2>1 DEF Tied
  <2>2. CASE w' = [w EXCEPT !.held = 0]
    <3>1. /\ w' \in Window /\ w'.status = w.status /\ w'.timer = w.timer
          /\ w'.attempts = w.attempts /\ w'.held = 0 /\ w'.handler = w.handler
          /\ w'.paseTimer = w.paseTimer /\ w'.registered = w.registered
          /\ w'.listening = w.listening /\ w'.pairing = w.pairing
      BY <1>1, <2>2, BoundsAssumption DEF Window
    <3>2. Manager(w', paseCount)
      BY <1>1, <3>1 DEF Manager
    <3>3. Tied(w', paseCount, fs', queue')
      BY <1>1, <1>3, <3>1 DEF Tied
    <3>. QED BY <3>2, <3>3
  <2>. QED BY <1>3, <2>1, <2>2
<1>. QED BY <1>1, <1>2, <1>3, <1>4, InvPartsNext

\* Arming, expiring and completing the fail-safe, and AddNOC under it.
LEMMA CommandSteps ==
    ASSUME WindowInv,
           \/ FailSafeTimerExpired \/ CommissioningComplete
           \/ \E s \in 1 .. MaxPASE : AddNOC(s)
           \/ \E who \in Admins \cup {PASE} : ArmFailSafeCommand(who)
    PROVE  WindowInv'
<1>1. /\ Manager(w, paseCount) /\ Agree(fs, queue) /\ Tied(w, paseCount, fs, queue)
      /\ adopted \subseteq live /\ live \subseteq 1 .. MaxPASE
  BY InvParts
<1>2. CASE fs' = Expire(fs, queue).f /\ queue' = Expire(fs, queue).q
           /\ UNCHANGED <<w, live, adopted, paseCount>>
  BY <1>1, <1>2, ExpireFacts, FailSafeStep
<1>3. CASE FailSafeTimerExpired
  BY <1>2, <1>3 DEF FailSafeTimerExpired
<1>4. CASE CommissioningComplete
  <2>. DEFINE e == [type |-> "Complete", noc |-> FALSE]
  <2>1. /\ fs.armed /\ fs' = Idle /\ queue' = Append(queue, e)
        /\ UNCHANGED <<w, live, paseCount>> /\ adopted' = {}
        /\ e \in Event /\ e.type = "Complete"
    BY <1>4 DEF CommissioningComplete, Event
  <2>. HIDE DEF e
  <2>2. /\ queue' \in Seq(Event) /\ Paired(queue') /\ Has(queue', "Complete")
        /\ Has(queue', "Disarm") <=> Has(queue, "Disarm")
    BY <1>1, <2>1, PostEvent DEF Agree
  <2>3. Agree(fs', queue') /\ ~fs'.armed
    BY <1>1, <2>1, <2>2 DEF Agree, FailSafe, Idle
  <2>. QED BY <1>1, <2>1, <2>2, <2>3, FailSafeStep DEF Coming
<1>5. ASSUME NEW s \in 1 .. MaxPASE, AddNOC(s) PROVE WindowInv'
  <2>1. /\ fs' \in FailSafe /\ fs'.armed = fs.armed /\ fs'.busy = fs.busy
        /\ fs'.owner = fs.owner
    BY <1>1, <1>5 DEF AddNOC, Agree, FailSafe
  <2>2. /\ s \in live /\ adopted' = adopted \cup {s}
        /\ UNCHANGED <<w, queue, live, paseCount>>
    BY <1>5 DEF AddNOC
  <2>3. Agree(fs', queue') /\ (Coming(fs', queue') <=> Coming(fs, queue))
    BY <1>1, <2>1, <2>2 DEF Agree, Coming
  <2>. QED BY <1>1, <2>1, <2>2, <2>3, FailSafeStep DEF Tied
<1>6. ASSUME NEW who \in Admins \cup {PASE}, ArmFailSafeCommand(who) PROVE WindowInv'
  <2>1. CASE fs' = ArmFor(fs, who) /\ UNCHANGED queue
    <3>1. /\ ~fs.busy /\ (~fs.armed \/ fs.owner = who) /\ ~(~fs.armed /\ Open /\ who # PASE)
          /\ UNCHANGED <<w, live, adopted, paseCount>>
      BY <1>6 DEF ArmFailSafeCommand
    <3>2. /\ fs' \in FailSafe /\ fs'.armed /\ fs'.busy = fs.busy
          /\ fs'.owner = who \/ (fs.armed /\ fs'.owner = fs.owner)
      BY <1>1, <2>1 DEF ArmFor, Agree, FailSafe
    <3>3. Agree(fs', queue') /\ Coming(fs', queue')
      BY <1>1, <2>1, <3>1, <3>2 DEF Agree, Coming
    <3>4. w.timer => fs'.owner = PASE
      BY <1>1, <3>1, <3>2 DEF Tied, Manager, Open
    <3>. QED BY <1>1, <3>1, <3>3, <3>4, FailSafeStep
  <2>. QED BY <1>2, <1>6, <2>1 DEF ArmFailSafeCommand
<1>. QED BY <1>3, <1>4, <1>5, <1>6

\* The opener's fabric is removed.
LEMMA FabricRemovedStep == ASSUME NEW a, WindowInv, OnFabricRemoved(a) PROVE WindowInv'
<1>1. /\ Manager(w, paseCount) /\ Agree(fs, queue) /\ Tied(w, paseCount, fs, queue)
      /\ adopted \subseteq live /\ live \subseteq 1 .. MaxPASE
  BY InvParts
<1>2. /\ w' = [w EXCEPT !.opener = None]
      /\ UNCHANGED <<fs, queue, live, adopted, paseCount>>
  BY DEF OnFabricRemoved
<1>3. /\ w' \in Window /\ w'.status = w.status /\ w'.timer = w.timer
      /\ w'.attempts = w.attempts /\ w'.held = w.held /\ w'.handler = w.handler
      /\ w'.paseTimer = w.paseTimer /\ w'.registered = w.registered
      /\ w'.listening = w.listening /\ w'.pairing = w.pairing
  BY <1>1, <1>2 DEF Manager, Window
<1>4. Manager(w', paseCount) /\ Tied(w', paseCount, fs, queue)
  BY <1>1, <1>3 DEF Manager, Tied
<1>. QED BY <1>1, <1>2, <1>4, InvPartsNext

\* The manager without the session it held.
LEMMA UnheldFacts ==
    ASSUME NEW x, NEW n, Manager(x, n)
    PROVE  LET y == [x EXCEPT !.held = 0]
           IN  /\ Manager(y, n) /\ y.held = 0 /\ y.timer = x.timer
               /\ y.handler = x.handler /\ y.paseTimer = x.paseTimer
               /\ y.registered = x.registered /\ y.pairing = x.pairing
               /\ y.attempts = x.attempts
<1>. DEFINE y == [x EXCEPT !.held = 0]
<1>1. /\ y \in Window /\ y.status = x.status /\ y.timer = x.timer
      /\ y.attempts = x.attempts /\ y.held = 0 /\ y.handler = x.handler
      /\ y.paseTimer = x.paseTimer /\ y.registered = x.registered
      /\ y.listening = x.listening /\ y.pairing = x.pairing
  BY BoundsAssumption DEF Manager, Window
<1>. HIDE DEF y
<1>2. Manager(y, n)
  BY <1>1 DEF Manager
<1>. QED BY <1>1, <1>2 DEF y

\* The expiry of the fail-safe reaches the manager: an attempt has failed.
LEMMA ExpiredStep == WindowInv /\ DispatchExpired => WindowInv'
<1>. SUFFICES ASSUME WindowInv, DispatchExpired PROVE WindowInv'
  OBVIOUS
<1>1. /\ Manager(w, paseCount) /\ Agree(fs, queue) /\ Tied(w, paseCount, fs, queue)
      /\ adopted \subseteq live /\ live \subseteq 1 .. MaxPASE /\ w \in Window
  BY InvParts DEF Manager
<1>2. PICK ok \in BOOLEAN :
         LET undone == IF Head(queue).noc THEN adopted ELSE {}
             evicted == undone \cup (IF w.handler THEN {w.held} ELSE {})
             r == Release(w, fs, Tail(queue), evicted)
         IN  /\ w' = IF w.handler THEN HandleFailedAttempt(r.x, ok) ELSE r.x
             /\ fs' = r.f /\ queue' = r.q
             /\ live' = live \ evicted /\ adopted' = adopted \ evicted
  BY Zenon DEF DispatchExpired
<1>. DEFINE undone == IF Head(queue).noc THEN adopted ELSE {}
            evicted == undone \cup (IF w.handler THEN {w.held} ELSE {})
            r == Release(w, fs, Tail(queue), evicted)
<1>3. /\ w' = IF w.handler THEN HandleFailedAttempt(r.x, ok) ELSE r.x
      /\ fs' = r.f /\ queue' = r.q /\ (w.handler => w.held \in evicted)
      /\ live' = live \ evicted /\ adopted' = adopted \ evicted /\ paseCount' = paseCount
  BY <1>2 DEF DispatchExpired
<1>. HIDE DEF r, evicted
<1>4. queue # <<>> /\ Head(queue).type = "Expired"
  BY DEF DispatchExpired
<1>5. Agree(fs, Tail(queue)) /\ fs.busy /\ ~fs.armed
  BY <1>1, <1>4, DispatchEvent DEF Agree
<1>6. /\ Agree(r.f, r.q) /\ ~r.f.armed
      /\ \/ r.x = w /\ w.held \notin evicted
         \/ r.x = [w EXCEPT !.held = 0]
  BY <1>1, <1>5, ReleaseFacts DEF r
<1>7. /\ Manager(r.x, paseCount) /\ r.x.timer = w.timer /\ r.x.handler = w.handler
      /\ r.x.registered = w.registered /\ r.x.pairing = w.pairing
      /\ r.x.paseTimer = w.paseTimer /\ (w.handler => r.x.held = 0)
  <2>1. CASE r.x = w /\ w.held \notin evicted
    BY <1>1, <1>3, <2>1
  <2>2. CASE r.x = [w EXCEPT !.held = 0]
    BY <1>1, <2>2, UnheldFacts
  <2>. QED BY <1>6, <2>1, <2>2
<1>8. CASE w.handler
  <2>1. /\ r.x.timer /\ r.x.attempts < MaxAttempts /\ r.x \in Window
        /\ r.x.held <= paseCount /\ paseCount \in 0 .. MaxPASE
        /\ r.x.attempts <= MaxAttempts
    BY <1>1, <1>7, <1>8, AttemptsAssumption DEF Manager, Window
  <2>2. /\ Manager(w', paseCount) /\ w'.held = 0
        /\ w'.timer => w'.registered /\ w'.pairing = "waiting"
    BY <1>3, <1>7, <1>8, <2>1, FailedAttemptFacts
  <2>3. Tied(w', paseCount, fs', queue')
    BY <1>3, <1>6, <2>2 DEF Tied
  <2>. QED BY <1>1, <1>3, <1>6, <2>2, <2>3, InvPartsNext
<1>9. CASE ~w.handler
  <2>1. Tied(w', paseCount, fs', queue')
    BY <1>1, <1>3, <1>6, <1>7, <1>9 DEF Tied
  <2>. QED BY <1>1, <1>3, <1>6, <1>7, <1>9, <2>1, InvPartsNext
<1>. QED BY <1>8, <1>9

\* The end of commissioning closes the window and every PASE session.
LEMMA CompleteStep == WindowInv /\ DispatchComplete => WindowInv'
<1>. SUFFICES ASSUME WindowInv, DispatchComplete PROVE WindowInv'
  OBVIOUS
<1>1. /\ Manager(w, paseCount) /\ Agree(fs, queue) /\ Tied(w, paseCount, fs, queue)
      /\ adopted \subseteq live /\ live \subseteq 1 .. MaxPASE
  BY InvParts
<1>2. queue # <<>> /\ Head(queue).type = "Complete" /\ paseCount' = paseCount
  BY DEF DispatchComplete
<1>3. Agree(fs, Tail(queue))
  BY <1>1, <1>2, DispatchEvent DEF Agree
<1>4. CASE w.handler
  <2>. DEFINE x == Cleanup(w)
              r == Release(x, fs, Tail(queue), live)
  <2>1. w' = r.x /\ fs' = r.f /\ queue' = r.q /\ live' = {} /\ adopted' = {}
    BY <1>4 DEF DispatchComplete
  <2>2. Manager(x, paseCount) /\ ~x.timer /\ ~x.handler
    BY <1>1, CleanupFacts DEF Manager
  <2>. HIDE DEF x
  <2>3. /\ Agree(fs', queue')
        /\ w' = x \/ w' = [x EXCEPT !.held = 0]
    BY <1>3, <2>1, <2>2, ReleaseFacts DEF Manager
  <2>4. Manager(w', paseCount) /\ ~w'.timer /\ ~w'.handler
    <3>. DEFINE u == [x EXCEPT !.held = 0]
    <3>1. Manager(u, paseCount) /\ ~u.timer /\ ~u.handler
      BY <2>2, UnheldFacts
    <3>. HIDE DEF u
    <3>. QED BY <2>2, <2>3, <3>1 DEF u
  <2>5. Tied(w', paseCount, fs', queue')
    BY <2>4 DEF Tied
  <2>. QED BY <1>2, <2>1, <2>3, <2>4, <2>5, InvPartsNext
<1>5. CASE ~w.handler
  <2>1. queue' = Tail(queue) /\ UNCHANGED <<w, fs, live, adopted>>
    BY <1>5 DEF DispatchComplete
  <2>2. Tied(w, paseCount, fs, Tail(queue))
    BY <1>1, <1>5 DEF Tied
  <2>. QED BY <1>1, <1>2, <1>3, <2>1, <2>2, InvPartsNext
<1>. QED BY <1>4, <1>5

\* The queued work disarms the fail-safe.
LEMMA DisarmStep == WindowInv /\ DispatchDisarm => WindowInv'
<1>. SUFFICES ASSUME WindowInv, DispatchDisarm PROVE WindowInv'
  OBVIOUS
<1>1. /\ Manager(w, paseCount) /\ Agree(fs, queue) /\ Tied(w, paseCount, fs, queue)
      /\ adopted \subseteq live /\ live \subseteq 1 .. MaxPASE
  BY InvParts
<1>2. /\ queue # <<>> /\ Head(queue).type = "Disarm"
      /\ queue' = Tail(queue) /\ fs' = Idle /\ UNCHANGED <<w, live, adopted, paseCount>>
  BY DEF DispatchDisarm
<1>3. /\ Tail(queue) \in Seq(Event) /\ Paired(Tail(queue)) /\ ~Has(Tail(queue), "Disarm")
      /\ Has(queue, "Disarm")
      /\ Has(queue, "Expired") => Has(Tail(queue), "Expired")
      /\ Has(queue, "Complete") => Has(Tail(queue), "Complete")
  BY <1>1, <1>2, DispatchEvent DEF Agree
<1>4. ~fs.armed
  BY <1>1, <1>3 DEF Agree
<1>5. Agree(fs', queue') /\ ~fs'.armed
  BY <1>2, <1>3 DEF Agree, Idle, FailSafe
<1>6. Coming(fs, queue) => Coming(fs', queue')
  BY <1>2, <1>3, <1>4 DEF Coming
<1>. QED BY <1>1, <1>2, <1>5, <1>6, FailSafeStep

\* Every step keeps the invariant.
LEMMA WindowStep == WindowInv /\ [Next]_vars => WindowInv'
<1>. SUFFICES ASSUME WindowInv, [Next]_vars PROVE WindowInv'
  OBVIOUS
<1>1. CASE UNCHANGED vars
  BY <1>1 DEF vars, WindowInv, TypeOK, BusyIsTemporary, ExpiryIsPaired, TimedWindow, Open,
      ListensOnlyInWindow, NotArmedInHandshake, NeverDeaf, HeldHasFailSafe, Pending
<1>2. CASE Next
  BY <1>2, OpenWindowStep, RevokeStep, WindowTimeoutStep, HandshakeSteps, EstablishedStep,
     CloseSessionStep, CommandSteps, FabricRemovedStep, ExpiredStep, CompleteStep, DisarmStep
     DEF Next, Dispatch
<1>. QED BY <1>1, <1>2

\* For any number of administrators, attempts, windows, sessions and faults, the
\* manager's invariant holds in every state: the types, the order of the event queue,
\* who may use the fail-safe, and the three properties below.
THEOREM WindowInvTheorem == Spec => []WindowInv
BY WindowInit, WindowStep, PTL DEF Spec

\* The device listens for PASE, or is in a handshake, only while a window is open, its
\* timer runs and attempts are left (HandleFailedAttempt, ResetState).
THEOREM ListensOnlyInWindowTheorem == Spec => []ListensOnlyInWindow
<1>1. WindowInv => ListensOnlyInWindow
  BY DEF WindowInv
<1>. QED BY <1>1, WindowInvTheorem, PTL

\* An open window waits for a request, is in a timed handshake, or will be told that
\* the attempt is over (OnUnsolicitedMessageReceived, OnSessionEstablished).
THEOREM NeverDeafTheorem == Spec => []NeverDeaf
<1>1. WindowInv => NeverDeaf
  BY DEF WindowInv
<1>. QED BY <1>1, WindowInvTheorem, PTL

\* The session of the last handshake has a fail-safe while the manager listens to
\* events, or its end is on its way (OnSessionEstablished, OnPlatformEvent).
THEOREM HeldHasFailSafeTheorem == Spec => []HeldHasFailSafe
<1>1. WindowInv => HeldHasFailSafe
  BY DEF WindowInv
<1>. QED BY <1>1, WindowInvTheorem, PTL
=============================================================================
