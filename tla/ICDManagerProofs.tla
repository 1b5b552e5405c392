--------------------------- MODULE ICDManagerProofs ---------------------------
(***************************************************************************)
(* KeepActiveInv is an invariant of ICDManager for every choice of the     *)
(* durations and bounds, and with it the device never sleeps in use, is    *)
(* awake for a reason and tells its observers in order.                    *)
(*                                                                         *)
(* First the timer list: the lemmas describe what CancelTimer, StartTimer  *)
(* and ExtendTimerTo leave by the set of timers in the list, so that the   *)
(* rest never speaks of positions.  Then the manager's methods: After says *)
(* what each may do to the flags, the counters and the mode.  Then the     *)
(* steps.                                                                  *)
(***************************************************************************)
EXTENDS ICDManager, SequenceTheorems, WellFoundedInduction, TLAPS

Timer == [name : Timers, due : Int]
TimerList == {q \in Seq(Timer) : WellFormed(q)}
Runs(q, name) == \E t \in Range(q) : t.name = name
Late(q) == \E t \in Range(q) : t.name = "OnTransitionToIdle" /\ t.due < 0

----------------------------------------------------------------------------
(* The timer list.                                                         *)

(* A name is found where its timer is.                                     *)
LEMMA FindRuns ==
    ASSUME NEW q \in TimerList, NEW name
    PROVE  Find(q, name) # {} <=> Runs(q, name)
BY DEF Find, Runs, Range

(* Late is the overdue announcement of the properties.                     *)
LEMMA LateIsOverdue ==
    ASSUME NEW q \in TimerList
    PROVE  Late(q) <=> Overdue(q, "OnTransitionToIdle")
BY DEF Late, Overdue, Find, Range

(* Positions have a least one.                                             *)
LEMMA MinFacts ==
    ASSUME NEW S \in SUBSET Nat, S # {}
    PROVE  Min(S) \in S /\ \A y \in S : Min(S) <= y
<1>1. PICK x \in S : \A y \in S : ~(<<y, x>> \in OpToRel(<, Nat))
  BY NatLessThanWellFounded, WFMin
<1>2. \A y \in S : x <= y
  <2> TAKE y \in S
  <2>1. ~(y < x)
    BY <1>1 DEF OpToRel
  <2> QED
    BY <2>1
<1> QED
  BY <1>2 DEF Min

(* The timer Find finds is the only one of its name.                       *)
LEMMA FindIsUnique ==
    ASSUME NEW q \in TimerList, NEW i \in DOMAIN q
    PROVE  Min(Find(q, q[i].name)) = i
<1>1. i \in Nat /\ Find(q, q[i].name) = {i}
  BY DEF Find, TimerList, WellFormed
<1>2. Min({i}) = i
  BY <1>1 DEF Min
<1> QED
  BY <1>1, <1>2

(* RemoveAt closes the gap.                                                *)
LEMMA RemoveAtFacts ==
    ASSUME NEW q \in Seq(Timer), NEW i \in DOMAIN q
    PROVE  /\ RemoveAt(q, i) \in Seq(Timer)
           /\ DOMAIN RemoveAt(q, i) = 1 .. Len(q) - 1
           /\ \A j \in 1 .. Len(q) - 1 :
                 RemoveAt(q, i)[j] = IF j < i THEN q[j] ELSE q[j + 1]
<1> DEFINE a == SubSeq(q, 1, i - 1)
           b == SubSeq(q, i + 1, Len(q))
<1>1. Len(q) \in Nat /\ i \in 1 .. Len(q)
  OBVIOUS
<1>2. /\ a \in Seq(Timer) /\ Len(a) = i - 1
      /\ \A j \in 1 .. i - 1 : a[j] = q[j]
  BY <1>1
<1>3. /\ b \in Seq(Timer) /\ Len(b) = Len(q) - i
      /\ \A j \in 1 .. Len(q) - i : b[j] = q[i + j]
  BY <1>1
<1>4. RemoveAt(q, i) = a \o b
  BY DEF RemoveAt
<1> HIDE DEF a, b
<1>5. /\ a \o b \in Seq(Timer) /\ Len(a \o b) = Len(q) - 1
      /\ \A j \in 1 .. Len(q) - 1 :
            (a \o b)[j] = IF j <= i - 1 THEN a[j] ELSE b[j - (i - 1)]
  <2>1. a \o b \in Seq(Timer)
    BY <1>2, <1>3
  <2>2. Len(a) + Len(b) = Len(q) - 1
    BY <1>1, <1>2, <1>3
  <2>3. /\ Len(a \o b) = Len(a) + Len(b)
        /\ \A j \in 1 .. Len(a) + Len(b) :
              (a \o b)[j] = IF j <= Len(a) THEN a[j] ELSE b[j - Len(a)]
    BY <1>2, <1>3, ConcatProperties
  <2> QED
    BY <1>2, <2>1, <2>2, <2>3
<1>6. \A j \in 1 .. Len(q) - 1 : (a \o b)[j] = IF j < i THEN q[j] ELSE q[j + 1]
  <2> TAKE j \in 1 .. Len(q) - 1
  <2>1. CASE j < i
    <3>1. j \in 1 .. i - 1 /\ j <= i - 1
      BY <2>1, <1>1
    <3> QED
      BY <3>1, <2>1, <1>2, <1>5
  <2>2. CASE j >= i
    <3>1. j - (i - 1) \in 1 .. Len(q) - i /\ i + (j - (i - 1)) = j + 1
      BY <2>2, <1>1
    <3>2. ~(j <= i - 1) /\ ~(j < i)
      BY <2>2, <1>1
    <3>3. (a \o b)[j] = b[j - (i - 1)]
      BY <3>2, <1>5
    <3>4. b[j - (i - 1)] = q[i + (j - (i - 1))]
      BY <3>1, <1>3
    <3> QED
      BY <3>1, <3>2, <3>3, <3>4
  <2> QED
    <3>1. j < i \/ j >= i
      BY <1>1
    <3> QED
      BY <3>1, <2>1, <2>2
<1> QED
  BY <1>4, <1>5, <1>6

(* InsertAt makes room.                                                    *)
LEMMA InsertAtFacts ==
    ASSUME NEW q \in Seq(Timer), NEW k \in 1 .. Len(q) + 1, NEW e \in Timer
    PROVE  /\ InsertAt(q, k, e) \in Seq(Timer)
           /\ DOMAIN InsertAt(q, k, e) = 1 .. Len(q) + 1
           /\ \A j \in 1 .. Len(q) + 1 :
                 /\ j < k => InsertAt(q, k, e)[j] = q[j]
                 /\ j = k => InsertAt(q, k, e)[j] = e
                 /\ j > k => InsertAt(q, k, e)[j] = q[j - 1]
<1> DEFINE a == SubSeq(q, 1, k - 1)
           b == SubSeq(q, k, Len(q))
           ae == a \o <<e>>
<1>1. Len(q) \in Nat /\ k \in Nat /\ k >= 1
  OBVIOUS
<1>2. /\ a \in Seq(Timer) /\ Len(a) = k - 1
      /\ \A j \in 1 .. k - 1 : a[j] = q[j]
  BY <1>1
<1>3. /\ b \in Seq(Timer) /\ Len(b) = Len(q) + 1 - k
      /\ \A j \in 1 .. Len(q) + 1 - k : b[j] = q[k + j - 1]
  BY <1>1
<1>4. InsertAt(q, k, e) = ae \o b
  BY DEF InsertAt
<1> HIDE DEF a, b
<1>5. /\ ae \in Seq(Timer) /\ Len(ae) = k
      /\ \A j \in 1 .. k - 1 : ae[j] = q[j]
      /\ ae[k] = e
  BY <1>1, <1>2
<1> HIDE DEF ae
<1>6. /\ ae \o b \in Seq(Timer) /\ Len(ae \o b) = Len(q) + 1
      /\ \A j \in 1 .. Len(q) + 1 : (ae \o b)[j] = IF j <= k THEN ae[j] ELSE b[j - k]
  <2>1. /\ ae \o b \in Seq(Timer) /\ Len(ae \o b) = Len(ae) + Len(b)
        /\ \A j \in 1 .. Len(ae) + Len(b) :
              (ae \o b)[j] = IF j <= Len(ae) THEN ae[j] ELSE b[j - Len(ae)]
    BY <1>3, <1>5, ConcatProperties
  <2>2. Len(ae) = k /\ Len(ae) + Len(b) = Len(q) + 1
    BY <1>1, <1>3, <1>5
  <2> QED
    BY <2>1, <2>2
<1>7. \A j \in 1 .. Len(q) + 1 :
         /\ j < k => (ae \o b)[j] = q[j]
         /\ j = k => (ae \o b)[j] = e
         /\ j > k => (ae \o b)[j] = q[j - 1]
  <2> TAKE j \in 1 .. Len(q) + 1
  <2>1. CASE j <= k
    <3>1. j \in 1 .. k - 1 \/ j = k
      BY <2>1, <1>1
    <3>2. ~(j > k) /\ (j < k <=> j # k)
      BY <2>1, <1>1
    <3> QED
      BY <3>1, <3>2, <2>1, <1>5, <1>6
  <2>2. CASE j > k
    <3>1. /\ j - k \in 1 .. Len(q) + 1 - k /\ k + (j - k) - 1 = j - 1
          /\ ~(j <= k) /\ ~(j < k) /\ j # k
      BY <2>2, <1>1
    <3> QED
      BY <3>1, <2>2, <1>1, <1>3, <1>6
  <2> QED
    <3>1. j <= k \/ j > k
      BY <1>1
    <3> QED
      BY <3>1, <2>1, <2>2
<1> QED
  BY <1>4, <1>6, <1>7

(* CancelTimer takes out the timer of that name and no other.              *)
LEMMA CancelTimerFacts ==
    ASSUME NEW q \in TimerList, NEW name
    PROVE  /\ CancelTimer(q, name) \in TimerList
           /\ Range(CancelTimer(q, name)) = {t \in Range(q) : t.name # name}
<1>1. CASE Find(q, name) = {}
  <2>1. CancelTimer(q, name) = q
    BY <1>1 DEF CancelTimer
  <2>2. \A t \in Range(q) : t.name # name
    BY <1>1 DEF Find, Range
  <2> QED
    BY <2>1, <2>2
<1>2. CASE Find(q, name) # {}
  <2>1. PICK i \in DOMAIN q : q[i].name = name
    BY <1>2 DEF Find
  <2> DEFINE r == RemoveAt(q, i)
  <2>2. CancelTimer(q, name) = r
    BY <1>2, <2>1, FindIsUnique DEF CancelTimer
  <2>3. q \in Seq(Timer) /\ WellFormed(q)
    BY DEF TimerList
  <2>4. /\ r \in Seq(Timer) /\ DOMAIN r = 1 .. Len(q) - 1
        /\ \A j \in 1 .. Len(q) - 1 : r[j] = IF j < i THEN q[j] ELSE q[j + 1]
    BY <2>3, RemoveAtFacts
  <2> HIDE DEF r
  <2>5. WellFormed(r)
    <3> SUFFICES ASSUME NEW j \in DOMAIN r, NEW k \in DOMAIN r
                 PROVE  /\ r[j].name = r[k].name => j = k
                        /\ j <= k => r[j].due <= r[k].due
      BY DEF WellFormed
    <3> DEFINE jq == IF j < i THEN j ELSE j + 1
               kq == IF k < i THEN k ELSE k + 1
    <3>1. jq \in DOMAIN q /\ kq \in DOMAIN q /\ r[j] = q[jq] /\ r[k] = q[kq]
      <4>1. \A l \in DOMAIN r : /\ l \in DOMAIN q /\ l + 1 \in DOMAIN q
                                /\ r[l] = q[IF l < i THEN l ELSE l + 1]
        BY <2>3, <2>4
      <4> QED
        BY <4>1
    <3>2. (jq = kq => j = k) /\ (j <= k => jq <= kq)
      BY <2>3, <2>4
    <3> HIDE DEF jq, kq
    <3> QED
      BY <3>1, <3>2, <2>3 DEF WellFormed
  <2>6. ASSUME NEW t \in Range(r) PROVE t \in Range(q) /\ t.name # name
    <3>1. PICK j \in DOMAIN r : t = r[j]
      BY DEF Range
    <3>2. PICK l \in DOMAIN q : t = q[l] /\ l # i
      BY <3>1, <2>3, <2>4
    <3> QED
      BY <3>2, <2>1, <2>3 DEF Range, WellFormed
  <2>7. ASSUME NEW t \in Range(q), t.name # name PROVE t \in Range(r)
    <3>1. PICK l \in DOMAIN q : t = q[l]
      BY DEF Range
    <3>2. l # i /\ l \in 1 .. Len(q) /\ i \in 1 .. Len(q) /\ Len(q) \in Nat
      BY <3>1, <2>7, <2>1, <2>3
    <3>3. \E j \in DOMAIN r : r[j] = t
      <4>1. CASE l < i
        BY <4>1, <3>1, <3>2, <2>4
      <4>2. CASE l > i
        <5>1. l - 1 \in 1 .. Len(q) - 1 /\ ~(l - 1 < i) /\ (l - 1) + 1 = l
          BY <4>2, <3>2
        <5> QED
          BY <5>1, <3>1, <2>4
      <4> QED
        BY <4>1, <4>2, <3>2
    <3> QED
      BY <3>3 DEF Range
  <2> QED
    BY <2>2, <2>4, <2>5, <2>6, <2>7 DEF TimerList
<1> QED
  BY <1>1, <1>2

(* StartTimer puts one in, whatever its place.                             *)
LEMMA StartTimerFacts ==
    ASSUME NEW q \in TimerList, NEW name \in Timers, NEW d \in Nat
    PROVE  /\ StartTimer(q, d, name) \in TimerList
           /\ Range(StartTimer(q, d, name)) =
                 {t \in Range(q) : t.name # name} \cup {[name |-> name, due |-> d]}
<1> DEFINE r == CancelTimer(q, name)
           S == {i \in DOMAIN r : r[i].due > d}
           k == (IF S = {} THEN Len(r) + 1 ELSE Min(S)) - 1
           e == [name |-> name, due |-> d]
           s == InsertAt(r, k + 1, e)
<1>1. r \in TimerList /\ Range(r) = {t \in Range(q) : t.name # name}
  BY CancelTimerFacts
<1>2. r \in Seq(Timer) /\ WellFormed(r) /\ Len(r) \in Nat /\ DOMAIN r = 1 .. Len(r)
  BY <1>1 DEF TimerList
<1> HIDE DEF r
<1>4. /\ k \in 0 .. Len(r)
      /\ k + 1 = IF S = {} THEN Len(r) + 1 ELSE Min(S)
      /\ \A j \in DOMAIN r : (j < k + 1 => r[j].due <= d) /\ (j >= k + 1 => d <= r[j].due)
  <2>1. \A j \in DOMAIN r : r[j].due \in Int
    <3>1. \A j \in DOMAIN r : r[j] \in Timer
      BY <1>2
    <3> QED
      BY <3>1 DEF Timer
  <2>2. CASE S = {}
    <3>1. k = Len(r)
      BY <2>2, <1>2
    <3>2. \A j \in DOMAIN r : r[j].due <= d
      BY <2>1, <2>2
    <3> QED
      BY <3>1, <3>2, <2>2, <1>2
  <2>3. CASE S # {}
    <3>1. S \in SUBSET Nat
      BY <1>2
    <3>2. Min(S) \in S /\ \A y \in S : Min(S) <= y
      BY <3>1, <2>3, MinFacts
    <3>3. PICK a \in DOMAIN r : a = Min(S) /\ r[a].due > d /\ \A y \in S : a <= y
      BY <3>2
    <3>4. a \in 1 .. Len(r) /\ k = a - 1 /\ k + 1 = a
      BY <3>3, <2>3, <1>2
    <3>5. \A j \in DOMAIN r : j < a => r[j].due <= d
      <4> SUFFICES ASSUME NEW j \in DOMAIN r, j < a PROVE r[j].due <= d
        OBVIOUS
      <4>1. j \in Int /\ a \in Int /\ ~(a <= j)
        BY <1>2
      <4>2. ~(r[j].due > d)
        BY <4>1, <3>3
      <4> QED
        BY <4>2, <2>1
    <3>6. \A j \in DOMAIN r : a <= j => r[a].due <= r[j].due
      BY <3>3, <1>2 DEF WellFormed
    <3>7. \A j \in DOMAIN r : j >= a => d <= r[j].due
      BY <3>3, <3>6, <2>1, <1>2
    <3> HIDE DEF S, k
    <3> QED
      BY <3>3, <3>4, <3>5, <3>7, <2>3, <1>2
  <2> QED
    BY <2>2, <2>3
<1>3. StartTimer(q, d, name) = s
  <2>1. StartTimer(q, d, name) = InsertAt(r, IF S = {} THEN Len(r) + 1 ELSE Min(S), e)
    BY DEF StartTimer, r
  <2> QED
    BY <2>1, <1>4
<1> HIDE DEF k
<1>5. e \in Timer /\ k + 1 \in 1 .. Len(r) + 1
  BY <1>2, <1>4 DEF Timer
<1> HIDE DEF e
<1>6. /\ s \in Seq(Timer) /\ DOMAIN s = 1 .. Len(r) + 1
      /\ \A j \in 1 .. Len(r) + 1 :
            /\ j < k + 1 => s[j] = r[j]
            /\ j = k + 1 => s[j] = e
            /\ j > k + 1 => s[j] = r[j - 1]
  BY <1>2, <1>5, InsertAtFacts
<1> HIDE DEF s
<1>7. e.name = name /\ \A j \in DOMAIN r : r[j].name # name
  BY <1>1 DEF Range, e
<1>8. \A j \in DOMAIN s :
         \/ j = k + 1 /\ s[j] = e
         \/ j # k + 1 /\ (IF j < k + 1 THEN j ELSE j - 1) \in DOMAIN r
            /\ s[j] = r[IF j < k + 1 THEN j ELSE j - 1]
  <2> TAKE j \in DOMAIN s
  <2>1. j \in Nat /\ k \in Nat /\ j \in 1 .. Len(r) + 1
    BY <1>2, <1>4, <1>6
  <2>2. CASE j < k + 1
    BY <2>1, <2>2, <1>2, <1>4, <1>6
  <2>3. CASE j = k + 1
    BY <2>1, <2>3, <1>6
  <2>4. CASE j > k + 1
    BY <2>1, <2>4, <1>2, <1>4, <1>6
  <2> QED
    BY <2>1, <2>2, <2>3, <2>4
<1>9. WellFormed(s)
  <2> SUFFICES ASSUME NEW i \in DOMAIN s, NEW j \in DOMAIN s
               PROVE  /\ s[i].name = s[j].name => i = j
                      /\ i <= j => s[i].due <= s[j].due
    BY DEF WellFormed
  <2> DEFINE ir == IF i < k + 1 THEN i ELSE i - 1
             jr == IF j < k + 1 THEN j ELSE j - 1
  <2>0. /\ i \in Int /\ j \in Int /\ k \in Int /\ e.due = d
        /\ i = k + 1 => s[i] = e
        /\ j = k + 1 => s[j] = e
        /\ i # k + 1 => ir \in DOMAIN r /\ s[i] = r[ir]
        /\ j # k + 1 => jr \in DOMAIN r /\ s[j] = r[jr]
    BY <1>2, <1>4, <1>6, <1>8 DEF e
  <2>1. CASE i = k + 1 /\ j = k + 1
    BY <2>0, <2>1
  <2>2. CASE i = k + 1 /\ j # k + 1
    <3>1. s[i].name # s[j].name
      BY <2>0, <2>2, <1>7
    <3>2. i <= j => jr >= k + 1
      BY <2>0, <2>2
    <3>3. i <= j => s[i].due <= s[j].due
      BY <3>2, <2>0, <2>2, <1>4
    <3> QED
      BY <3>1, <3>3
  <2>3. CASE i # k + 1 /\ j = k + 1
    <3>1. s[i].name # s[j].name
      BY <2>0, <2>3, <1>7
    <3>2. i <= j => ir < k + 1
      BY <2>0, <2>3
    <3>3. i <= j => s[i].due <= s[j].due
      BY <3>2, <2>0, <2>3, <1>4
    <3> QED
      BY <3>1, <3>3
  <2>4. CASE i # k + 1 /\ j # k + 1
    <3>1. (ir = jr => i = j) /\ (i <= j => ir <= jr)
      BY <2>0, <2>4
    <3> HIDE DEF ir, jr
    <3> QED
      BY <3>1, <2>0, <2>4, <1>2 DEF WellFormed
  <2> QED
    BY <2>1, <2>2, <2>3, <2>4
<1>10. Range(s) = Range(r) \cup {e}
  <2>1. ASSUME NEW t \in Range(s) PROVE t \in Range(r) \/ t = e
    BY <1>8 DEF Range
  <2>2. e \in Range(s)
    BY <1>5, <1>6 DEF Range
  <2>3. ASSUME NEW t \in Range(r) PROVE t \in Range(s)
    <3>1. PICK j \in 1 .. Len(r) : t = r[j]
      BY <1>2 DEF Range
    <3>2. CASE j < k + 1
      BY <3>1, <3>2, <1>2, <1>6 DEF Range
    <3>3. CASE j >= k + 1
      <4>1. j + 1 \in 1 .. Len(r) + 1 /\ j + 1 > k + 1 /\ (j + 1) - 1 = j
        BY <3>3, <1>2, <1>4
      <4>2. s[j + 1] = t
        BY <4>1, <3>1, <1>6
      <4> QED
        BY <4>1, <4>2, <1>6 DEF Range
    <3> QED
      BY <3>2, <3>3, <1>4, <1>2
  <2> QED
    BY <2>1, <2>2, <2>3
<1> QED
  BY <1>1, <1>3, <1>6, <1>9, <1>10 DEF TimerList, e

(* GetRemainingTime reads the timer of that name.                          *)
LEMMA GetRemainingTimeFacts ==
    ASSUME NEW q \in TimerList, NEW name
    PROVE  /\ GetRemainingTime(q, name) \in Nat
           /\ \A t \in Range(q) : t.name = name =>
                 GetRemainingTime(q, name) = IF t.due > 0 THEN t.due ELSE 0
           /\ GetRemainingTime(q, name) > 0 => Runs(q, name)
<1>1. CASE Find(q, name) = {}
  <2>1. ~ Runs(q, name)
    BY <1>1, FindRuns
  <2>2. GetRemainingTime(q, name) = 0
    BY <1>1 DEF GetRemainingTime
  <2> QED
    BY <2>1, <2>2 DEF Runs
<1>2. CASE Find(q, name) # {}
  <2>1. PICK i \in DOMAIN q : q[i].name = name
    BY <1>2 DEF Find
  <2>2. GetRemainingTime(q, name) = IF q[i].due > 0 THEN q[i].due ELSE 0
    BY <1>2, <2>1, FindIsUnique DEF GetRemainingTime
  <2>3. q[i].due \in Int
    <3>1. q[i] \in Timer
      BY DEF TimerList
    <3> QED
      BY <3>1 DEF Timer
  <2>4. \A t \in Range(q) : t.name = name => t = q[i]
    BY <2>1 DEF Range, TimerList, WellFormed
  <2> QED
    BY <1>2, <2>2, <2>3, <2>4, FindRuns
<1> QED
  BY <1>1, <1>2

(* ExtendTimerTo leaves the other timers alone, never brings a timer       *)
(* forward, and leaves the one it is given running for at least d.         *)
LEMMA ExtendTimerToFacts ==
    ASSUME NEW q \in TimerList, NEW name \in Timers, NEW d \in Nat
    PROVE  LET r == ExtendTimerTo(q, d, name)
           IN  /\ r \in TimerList
               /\ \A t : t.name # name => (t \in Range(r) <=> t \in Range(q))
               /\ d > 0 => \A t \in Range(r) : t.name = name => t.due >= d
               /\ \A t \in Range(r) : t \in Range(q) \/ (t.due = d /\ d > 0)
               /\ \A t \in Range(q), u \in Range(r) :
                     t.name = name /\ u.name = name => u.due >= t.due
               /\ Runs(q, name) \/ d > 0 => Runs(r, name)
<1> DEFINE g == GetRemainingTime(q, name)
           r == ExtendTimerTo(q, d, name)
           e == [name |-> name, due |-> d]
<1>0. \A t \in Range(q) : t.due \in Int
  <2>1. \A t \in Range(q) : t \in Timer
    BY DEF TimerList, Range
  <2> QED
    BY <2>1 DEF Timer
<1>1. /\ g \in Nat
      /\ \A t \in Range(q) : t.name = name => g = IF t.due > 0 THEN t.due ELSE 0
      /\ g > 0 => Runs(q, name)
  BY GetRemainingTimeFacts
<1>2. r = IF d > 0 /\ g < d THEN StartTimer(q, d, name) ELSE q
  BY DEF ExtendTimerTo
<1>3. /\ StartTimer(q, d, name) \in TimerList
      /\ Range(StartTimer(q, d, name)) = {t \in Range(q) : t.name # name} \cup {e}
  BY StartTimerFacts
<1> HIDE DEF g, r
<1>4. CASE d > 0 /\ g < d
  <2>1. r \in TimerList /\ Range(r) = {t \in Range(q) : t.name # name} \cup {e}
    BY <1>2, <1>3, <1>4
  <2>2. e.name = name /\ e.due = d
    OBVIOUS
  <2>3. \A t \in Range(q) : t.name = name => d >= t.due
    BY <1>0, <1>1, <1>4
  <2>4. e \in Range(r)
    BY <2>1
  <2> HIDE DEF e
  <2>5. Runs(r, name)
    BY <2>2, <2>4 DEF Runs
  <2> QED
    BY <1>4, <2>1, <2>2, <2>3, <2>5 DEF r
<1>5. CASE ~(d > 0 /\ g < d)
  <2>1. r = q
    BY <1>2, <1>5
  <2>2. d > 0 => \A t \in Range(q) : t.name = name => t.due >= d
    BY <1>0, <1>1, <1>5
  <2>3. \A t \in Range(q), u \in Range(q) :
           t.name = name /\ u.name = name => u.due >= t.due
    <3>1. \A t, u \in Range(q) : t.name = name /\ u.name = name => t = u
      BY DEF Range, TimerList, WellFormed
    <3> QED
      BY <3>1, <1>0
  <2>4. Runs(q, name) \/ d > 0 => Runs(q, name)
    BY <1>1, <1>5
  <2> QED
    BY <2>1, <2>2, <2>3, <2>4 DEF r
<1> QED
  BY <1>4, <1>5

----------------------------------------------------------------------------
(* The manager's methods.                                                  *)

(* Announced, said of the set of timers.                                   *)
LEMMA AnnouncedFacts ==
    ASSUME NEW x, x.timers \in TimerList
    PROVE  Announced(x) <=>
             (duration > 0 =>
                /\ Runs(x.timers, "OnTransitionToIdle") => ~x.called
                /\ x.state = "Active" /\ ~x.called => Runs(x.timers, "OnTransitionToIdle")
                /\ x.state = "Active" /\ ~x.called => Runs(x.timers, "OnActiveModeDone")
                /\ \A t, u \in Range(x.timers) :
                      (t.name = "OnTransitionToIdle" /\ u.name = "OnActiveModeDone")
                         => t.due < u.due)
<1> DEFINE q == x.timers
<1>1. /\ Find(q, "OnTransitionToIdle") # {} <=> Runs(q, "OnTransitionToIdle")
      /\ Find(q, "OnActiveModeDone") # {} <=> Runs(q, "OnActiveModeDone")
  BY FindRuns
<1>2. (\A i \in Find(q, "OnTransitionToIdle"), j \in Find(q, "OnActiveModeDone") :
          q[i].due < q[j].due)
      <=> \A t, u \in Range(q) :
             (t.name = "OnTransitionToIdle" /\ u.name = "OnActiveModeDone") => t.due < u.due
  BY DEF Find, Range
<1> QED
  BY <1>1, <1>2 DEF Announced

(* y is what an operation may leave of x that has brought the flags to fl  *)
(* and the counters to o and k, with the choices c: the lookups started by *)
(* a change to ActiveMode are counted and flagged, and IdleMode follows an *)
(* active period that was announced or whose announcement is overdue.      *)
After(x, y, fl, o, k, c) ==
    /\ Sound(y) /\ y.open = o
    /\ x.state = "Idle" /\ y.state = "Active" =>
          /\ ~y.called /\ y.checkIns = k + c.starts
          /\ y.flags = fl \cup (IF c.starts > 0 THEN {"checkIn"} ELSE {})
    /\ ~(x.state = "Idle" /\ y.state = "Active") => y.checkIns = k /\ y.flags = fl
    /\ x.state = "Active" /\ y.state = "Active" =>
          y.called = x.called /\ (Late(y.timers) => Late(x.timers))
    /\ x.state = "Active" /\ y.state = "Idle" /\ duration > 0 => x.called \/ Late(x.timers)

LEMMA EnterActiveFacts ==
    ASSUME NEW x \in Manager, WellFormed(x.timers), x.state = "Idle",
           NEW c \in Chance, x.checkIns + c.starts <= MaxCheckIns, duration \in Nat
    PROVE  /\ After(x, EnterActive(x, c), x.flags, x.open, x.checkIns, c)
           /\ EnterActive(x, c).state = "Active"
<1> DEFINE d == IF duration = 0 /\ x.flags = {} THEN Threshold ELSE duration
           p == CancelTimer(x.timers, "OnIdleModeDone")
           q == StartTimer(p, d, "OnActiveModeDone")
           r == StartTimer(q, BeforeIdle(d), "OnTransitionToIdle")
           fl == IF c.starts > 0 THEN x.flags \cup {"checkIn"} ELSE x.flags
           y == EnterActive(x, c)
           amd == [name |-> "OnActiveModeDone", due |-> d]
           tti == [name |-> "OnTransitionToIdle", due |-> BeforeIdle(d)]
<1>1. d \in Nat /\ BeforeIdle(d) \in Nat /\ (d > 0 => BeforeIdle(d) < d)
  BY TimesAssumption DEF BeforeIdle
<1>2. x.timers \in TimerList
  BY DEF TimerList, Manager, Timer
<1>3. p \in TimerList
  BY <1>2, CancelTimerFacts
<1>4. /\ q \in TimerList
      /\ Range(q) = {t \in Range(p) : t.name # "OnActiveModeDone"} \cup {amd}
  BY <1>1, <1>3, StartTimerFacts DEF Timers
<1>5. /\ r \in TimerList
      /\ Range(r) = {t \in Range(q) : t.name # "OnTransitionToIdle"} \cup {tti}
  BY <1>1, <1>4, StartTimerFacts DEF Timers
<1>6. y = [x EXCEPT !.state = "Active", !.called = FALSE, !.poll = "fast", !.timers = r,
                    !.checkIns = x.checkIns + c.starts, !.flags = fl]
  BY DEF EnterActive
<1> HIDE DEF y, r, q, p
<1>7. c.starts \in Nat /\ x.checkIns \in Nat /\ x.checkIns + c.starts \in 0 .. MaxCheckIns
  BY BoundsAssumption DEF Manager, Chance
<1>8. fl \in SUBSET Flags
  BY DEF Manager, Flags
<1> HIDE DEF d, fl
<1>9. /\ y \in Manager /\ y.state = "Active" /\ y.called = FALSE /\ y.timers = r
      /\ y.checkIns = x.checkIns + c.starts /\ y.flags = fl /\ y.open = x.open
  BY <1>5, <1>6, <1>7, <1>8 DEF Manager, TimerList, Timer
<1>10. amd \in Range(r) /\ tti \in Range(r) /\ amd.name = "OnActiveModeDone"
       /\ amd.due = d /\ tti.name = "OnTransitionToIdle" /\ tti.due = BeforeIdle(d)
  BY <1>4, <1>5
<1>11. \A t \in Range(r) : /\ t.name = "OnActiveModeDone" => t = amd
                           /\ t.name = "OnTransitionToIdle" => t = tti
  BY <1>4, <1>5
<1> HIDE DEF amd, tti
<1>12. Runs(r, "OnActiveModeDone") /\ Runs(r, "OnTransitionToIdle")
  BY <1>10 DEF Runs
<1>13. duration > 0 => d > 0
  BY DEF d
<1>14. Announced(y)
  <2>1. duration > 0 =>
           \A t, u \in Range(y.timers) :
              (t.name = "OnTransitionToIdle" /\ u.name = "OnActiveModeDone") => t.due < u.due
    BY <1>1, <1>9, <1>10, <1>11, <1>13
  <2> QED
    BY <2>1, <1>5, <1>9, <1>12, AnnouncedFacts
<1>15. Find(y.timers, "OnActiveModeDone") # {}
  BY <1>5, <1>9, <1>12, FindRuns
<1>16. WellFormed(y.timers)
  BY <1>5, <1>9 DEF TimerList
<1> QED
  BY <1>9, <1>14, <1>15, <1>16 DEF After, Sound, y, fl

LEMMA ExtendActiveModeFacts ==
    ASSUME NEW x, Sound(x), x.state = "Active", NEW d \in Nat, NEW c, duration \in Nat
    PROVE  /\ After(x, ExtendActiveMode(x, d), x.flags, x.open, x.checkIns, c)
           /\ ExtendActiveMode(x, d).state = "Active"
<1> DEFINE q == ExtendTimerTo(x.timers, d, "OnActiveModeDone")
           b == BeforeIdle(d)
           s == ExtendTimerTo(q, b, "OnTransitionToIdle")
           r == IF x.called THEN q ELSE s
           y == ExtendActiveMode(x, d)
<1>1. b \in Nat /\ (b > 0 => b < d) /\ b <= d
  BY TimesAssumption DEF BeforeIdle
<1>2. x \in Manager /\ x.timers \in TimerList
  BY DEF TimerList, Manager, Timer, Sound
<1>3. /\ q \in TimerList
      /\ \A t : t.name # "OnActiveModeDone" => (t \in Range(q) <=> t \in Range(x.timers))
      /\ d > 0 => \A t \in Range(q) : t.name = "OnActiveModeDone" => t.due >= d
      /\ \A t \in Range(x.timers), u \in Range(q) :
            t.name = "OnActiveModeDone" /\ u.name = "OnActiveModeDone" => u.due >= t.due
      /\ Runs(x.timers, "OnActiveModeDone") => Runs(q, "OnActiveModeDone")
  BY <1>2, ExtendTimerToFacts DEF Timers
<1> HIDE DEF q, b
<1>4. /\ s \in TimerList
      /\ \A t : t.name # "OnTransitionToIdle" => (t \in Range(s) <=> t \in Range(q))
      /\ \A t \in Range(s) : t \in Range(q) \/ (t.due = b /\ b > 0)
      /\ Runs(q, "OnTransitionToIdle") => Runs(s, "OnTransitionToIdle")
  BY <1>1, <1>3, ExtendTimerToFacts DEF Timers
<1>5. y = [x EXCEPT !.timers = r]
  BY DEF ExtendActiveMode, q, b
<1> HIDE DEF s
<1>6. x.called \in BOOLEAN /\ r \in TimerList
  BY <1>2, <1>3, <1>4 DEF Manager
<1> HIDE DEF r, y
<1>7. /\ y \in Manager /\ y.timers = r /\ y.state = "Active" /\ y.called = x.called
      /\ y.checkIns = x.checkIns /\ y.flags = x.flags /\ y.open = x.open
  BY <1>2, <1>5, <1>6 DEF Manager, TimerList, Timer
<1>8. Runs(x.timers, "OnActiveModeDone") => Runs(r, "OnActiveModeDone")
  <2>1. Runs(q, "OnActiveModeDone") => Runs(s, "OnActiveModeDone")
    BY <1>4 DEF Runs
  <2> QED
    BY <2>1, <1>3 DEF r
<1>12. Late(r) => Late(x.timers)
  <2>1. Late(q) => Late(x.timers)
    BY <1>3 DEF Late
  <2>2. Late(s) => Late(q)
    BY <1>1, <1>4 DEF Late
  <2> QED
    BY <2>1, <2>2 DEF r
<1>9. Announced(y)
  <2> SUFFICES ASSUME duration > 0
               PROVE  /\ Runs(r, "OnTransitionToIdle") <=> ~x.called
                      /\ ~x.called => Runs(r, "OnActiveModeDone")
                      /\ \A t, u \in Range(r) :
                            (t.name = "OnTransitionToIdle" /\ u.name = "OnActiveModeDone")
                               => t.due < u.due
    BY <1>6, <1>7, AnnouncedFacts
  <2>1. /\ Runs(x.timers, "OnTransitionToIdle") <=> ~x.called
        /\ ~x.called => Runs(x.timers, "OnActiveModeDone")
        /\ \A t, u \in Range(x.timers) :
              (t.name = "OnTransitionToIdle" /\ u.name = "OnActiveModeDone") => t.due < u.due
    BY <1>2, AnnouncedFacts DEF Sound
  <2>2. Runs(x.timers, "OnTransitionToIdle") <=> Runs(q, "OnTransitionToIdle")
    BY <1>3 DEF Runs
  <2>3. CASE x.called
    <3>1. r = q /\ ~Runs(q, "OnTransitionToIdle")
      BY <2>1, <2>2, <2>3 DEF r
    <3> QED
      BY <2>3, <3>1 DEF Runs
  <2>4. CASE ~x.called
    <3>1. r = s /\ Runs(s, "OnTransitionToIdle") /\ Runs(r, "OnActiveModeDone")
      BY <2>1, <2>2, <2>4, <1>4, <1>8 DEF r
    <3>2. ASSUME NEW t \in Range(s), NEW u \in Range(s),
                 t.name = "OnTransitionToIdle", u.name = "OnActiveModeDone"
          PROVE  t.due < u.due
      <4>1. u \in Range(q) /\ (d > 0 => u.due >= d)
        BY <3>2, <1>3, <1>4
      <4>2. PICK v \in Range(x.timers) : v.name = "OnActiveModeDone"
        BY <2>1, <2>4 DEF Runs
      <4>3. u.due >= v.due
        BY <3>2, <4>1, <4>2, <1>3
      <4>4. u \in Timer /\ v \in Timer /\ t \in Timer
        BY <1>2, <1>3, <1>4, <4>1 DEF TimerList, Range
      <4>5. u.due \in Int /\ v.due \in Int /\ t.due \in Int
        BY <4>4 DEF Timer
      <4>6. CASE t \in Range(q)
        <5>1. t \in Range(x.timers) /\ t.due < v.due
          BY <3>2, <4>2, <4>6, <1>3, <2>1
        <5> QED
          BY <5>1, <4>3, <4>5
      <4>7. CASE t.due = b /\ b > 0
        BY <4>1, <4>5, <4>7, <1>1
      <4> QED
        BY <4>6, <4>7, <1>4
    <3> QED
      BY <2>4, <3>1, <3>2
  <2> QED
    BY <2>3, <2>4, <1>6
<1>10. x.flags = {} => Find(y.timers, "OnActiveModeDone") # {}
  <2>1. x.flags = {} => Runs(x.timers, "OnActiveModeDone")
    BY <1>2, FindRuns DEF Sound
  <2> QED
    BY <2>1, <1>6, <1>7, <1>8, FindRuns
<1>11. WellFormed(y.timers)
  BY <1>6, <1>7 DEF TimerList
<1> QED
  BY <1>7, <1>9, <1>10, <1>11, <1>12 DEF After, Sound, y

LEMMA EnterIdleFacts ==
    ASSUME NEW x \in Manager, WellFormed(x.timers), Announced(x), x.state = "Active",
           x.flags = {}, NEW c \in Chance, duration \in Nat,
           duration > 0 => x.called \/ Late(x.timers)
    PROVE  After(x, EnterIdle(x, c), x.flags, x.open, x.checkIns, c)
<1> DEFINE s == StartTimer(x.timers, IdleDuration, "OnIdleModeDone")
           r == IF duration > 0 \/ c.wouldSend THEN s ELSE x.timers
           y == EnterIdle(x, c)
<1>1. x.timers \in TimerList
  BY DEF TimerList, Manager, Timer
<1>2. /\ s \in TimerList
      /\ Range(s) = {t \in Range(x.timers) : t.name # "OnIdleModeDone"}
                       \cup {[name |-> "OnIdleModeDone", due |-> IdleDuration]}
  BY <1>1, StartTimerFacts, TimesAssumption DEF Timers
<1>3. y = [x EXCEPT !.state = "Idle", !.poll = x.mode, !.timers = r]
  BY DEF EnterIdle
<1> HIDE DEF s
<1>4. PICK z \in {s, x.timers} : z = r
  BY Zenon
<1> HIDE DEF r, y
<1>5. z \in TimerList
  BY <1>1, <1>2
<1>6. /\ y \in Manager /\ y.timers = z /\ y.state = "Idle" /\ y.called = x.called
      /\ y.checkIns = x.checkIns /\ y.flags = {} /\ y.open = x.open
  BY <1>3, <1>4, <1>5 DEF Manager, TimerList, Timer
<1>7. \A t \in Range(z) : t.name # "OnIdleModeDone" => t \in Range(x.timers)
  BY <1>2
<1>8. Runs(z, "OnTransitionToIdle") => Runs(x.timers, "OnTransitionToIdle")
  BY <1>7 DEF Runs
<1>9. duration > 0 =>
         /\ Runs(x.timers, "OnTransitionToIdle") => ~x.called
         /\ \A t, u \in Range(x.timers) :
               (t.name = "OnTransitionToIdle" /\ u.name = "OnActiveModeDone")
                  => t.due < u.due
  BY <1>1, AnnouncedFacts
<1>10. Announced(y)
  BY <1>5, <1>6, <1>7, <1>8, <1>9, AnnouncedFacts
<1>11. WellFormed(y.timers)
  BY <1>5, <1>6 DEF TimerList
<1> QED
  BY <1>6, <1>10, <1>11 DEF After, Sound, y

(* To ActiveMode: the manager is entering it with flags already set, or is *)
(* there and goes on for the threshold.                                    *)
LEMMA ToActiveFacts ==
    ASSUME NEW x \in Manager, WellFormed(x.timers), x.state = "Active" => Sound(x),
           NEW c \in Chance, duration \in Nat,
           x.state = "Idle" => x.checkIns + c.starts <= MaxCheckIns
    PROVE  /\ After(x, UpdateOperationState(x, "Active", c), x.flags, x.open, x.checkIns, c)
           /\ UpdateOperationState(x, "Active", c).state = "Active"
<1>1. CASE x.state = "Idle"
  <2>1. UpdateOperationState(x, "Active", c) = EnterActive(x, c)
    BY <1>1 DEF UpdateOperationState
  <2> QED
    BY <1>1, <2>1, EnterActiveFacts
<1>2. CASE x.state = "Active"
  <2>1. UpdateOperationState(x, "Active", c) = ExtendActiveMode(x, Threshold)
    BY <1>2 DEF UpdateOperationState
  <2> QED
    BY <1>2, <2>1, ExtendActiveModeFacts, TimesAssumption
<1> QED
  BY <1>1, <1>2 DEF Manager

(* To IdleMode, when no flag is set.                                       *)
LEMMA ToIdleFacts ==
    ASSUME NEW x \in Manager, WellFormed(x.timers), Announced(x), x.flags = {},
           NEW c \in Chance, duration \in Nat,
           x.state = "Active" /\ duration > 0 => x.called \/ Late(x.timers)
    PROVE  After(x, UpdateOperationState(x, "Idle", c), x.flags, x.open, x.checkIns, c)
<1>1. CASE x.state = "Active"
  <2>1. UpdateOperationState(x, "Idle", c) = EnterIdle(x, c)
    BY <1>1 DEF UpdateOperationState
  <2> QED
    BY <1>1, <2>1, EnterIdleFacts
<1>2. CASE x.state = "Idle"
  <2>1. UpdateOperationState(x, "Idle", c) = x
    BY <1>2 DEF UpdateOperationState
  <2> QED
    BY <1>2, <2>1 DEF After, Sound
<1> QED
  BY <1>1, <1>2 DEF Manager

(* A timer that is not active is absent or due, and then the announcement, *)
(* which is due earlier, was made or is overdue.                           *)
LEMMA DoneIsAnnounced ==
    ASSUME NEW x \in Manager, WellFormed(x.timers), Announced(x), x.state = "Active",
           ~IsTimerActive(x.timers, "OnActiveModeDone"), duration > 0
    PROVE  x.called \/ Late(x.timers)
<1> SUFFICES ASSUME ~x.called PROVE Late(x.timers)
  OBVIOUS
<1>1. x.timers \in TimerList
  BY DEF TimerList, Manager, Timer
<1>2. /\ Runs(x.timers, "OnTransitionToIdle") /\ Runs(x.timers, "OnActiveModeDone")
      /\ \A t, u \in Range(x.timers) :
            (t.name = "OnTransitionToIdle" /\ u.name = "OnActiveModeDone") => t.due < u.due
  BY <1>1, AnnouncedFacts
<1>3. PICK t \in Range(x.timers), u \in Range(x.timers) :
         t.name = "OnTransitionToIdle" /\ u.name = "OnActiveModeDone"
  BY <1>2 DEF Runs
<1>4. t.due < u.due
  BY <1>2, <1>3
<1>5. GetRemainingTime(x.timers, "OnActiveModeDone") = IF u.due > 0 THEN u.due ELSE 0
  BY <1>1, <1>3, GetRemainingTimeFacts
<1>6. t \in Timer /\ u \in Timer
  BY <1>1 DEF TimerList, Range
<1>7. t.due \in Int /\ u.due \in Int
  BY <1>6 DEF Timer
<1>8. t.due < 0
  BY <1>4, <1>5, <1>7 DEF IsTimerActive
<1> QED
  BY <1>3, <1>8 DEF Late

(* Setting a flag wakes the device, and clearing the last one lets it      *)
(* sleep when the timer has run out.                                       *)
LEMMA SetKeepActiveFacts ==
    ASSUME NEW x, Sound(x), NEW flag \in Flags, NEW on \in BOOLEAN, NEW c \in Chance,
           duration \in Nat, x.state = "Idle" => x.checkIns = 0
    PROVE  LET y == SetKeepActiveModeRequirements(x, flag, on, c)
           IN  /\ After(x, y, IF on THEN x.flags \cup {flag} ELSE x.flags \ {flag},
                        x.open, x.checkIns, c)
               /\ on => y.state = "Active"
<1> DEFINE fl == IF on THEN x.flags \cup {flag} ELSE x.flags \ {flag}
           y == [x EXCEPT !.flags = fl]
           z == SetKeepActiveModeRequirements(x, flag, on, c)
<1>1. fl \in SUBSET Flags /\ (on => fl # {}) /\ x \in Manager
  BY DEF Sound, Manager
<1>2. z = CASE y.state = "Idle" /\ y.flags # {} -> UpdateOperationState(y, "Active", c)
            [] /\ y.state = "Active" /\ y.flags = {}
               /\ ~IsTimerActive(y.timers, "OnActiveModeDone") ->
                   UpdateOperationState(y, "Idle", c)
            [] OTHER -> y
  BY DEF SetKeepActiveModeRequirements
<1>3. /\ y \in Manager /\ y.state = x.state /\ y.timers = x.timers /\ y.called = x.called
      /\ y.checkIns = x.checkIns /\ y.flags = fl /\ y.open = x.open
  BY <1>1 DEF Manager
<1> HIDE DEF y, z, fl
<1>4. WellFormed(y.timers) /\ Announced(y)
  BY <1>3 DEF Sound, Announced
<1>5. c.starts \in 0 .. MaxCheckIns /\ 0 + c.starts <= MaxCheckIns
  BY BoundsAssumption DEF Chance
<1>6. CASE y.state = "Idle" /\ fl # {}
  <2>1. z = UpdateOperationState(y, "Active", c)
    BY <1>2, <1>3, <1>6
  <2>2. After(y, z, fl, x.open, x.checkIns, c) /\ z.state = "Active"
    BY <2>1, <1>3, <1>4, <1>5, <1>6, ToActiveFacts
  <2> QED
    BY <2>2, <1>3 DEF After, z, fl
<1>7. CASE y.state = "Active" /\ fl = {} /\ ~IsTimerActive(y.timers, "OnActiveModeDone")
  <2>1. z = UpdateOperationState(y, "Idle", c)
    BY <1>2, <1>3, <1>7
  <2>2. After(y, z, fl, x.open, x.checkIns, c)
    BY <2>1, <1>3, <1>4, <1>7, DoneIsAnnounced, ToIdleFacts
  <2> QED
    BY <2>2, <1>1, <1>3, <1>7 DEF After, z, fl
<1>8. CASE /\ ~(y.state = "Idle" /\ fl # {})
           /\ ~(y.state = "Active" /\ fl = {} /\ ~IsTimerActive(y.timers, "OnActiveModeDone"))
  <2>1. z = y
    BY <1>2, <1>3, <1>8
  <2>2. y.state = "Active" /\ fl = {} => Find(y.timers, "OnActiveModeDone") # {}
    <3>1. y.timers \in TimerList
      BY <1>3, <1>4 DEF TimerList, Manager, Timer
    <3> QED
      BY <3>1, <1>8, FindRuns, GetRemainingTimeFacts DEF IsTimerActive
  <2>3. Sound(y)
    BY <2>2, <1>3, <1>4, <1>8 DEF Sound
  <2>4. y.state \in {"Idle", "Active"}
    BY <1>3 DEF Manager
  <2> QED
    BY <2>1, <2>3, <2>4, <1>1, <1>3, <1>8 DEF After, z, fl
<1> QED
  BY <1>6, <1>7, <1>8

LEMMA RequestFacts ==
    ASSUME NEW x, Sound(x), NEW flag \in {"exchange", "failSafe", "window"}, NEW c \in Chance,
           duration \in Nat, x.state = "Idle" => x.checkIns = 0,
           flag = "exchange" => x.open < MaxExchanges
    PROVE  /\ After(x, OnKeepActiveRequest(x, flag, c), x.flags \cup {flag},
                    IF flag = "exchange" THEN x.open + 1 ELSE x.open, x.checkIns, c)
           /\ OnKeepActiveRequest(x, flag, c).state = "Active"
<1> DEFINE o == IF flag = "exchange" THEN x.open + 1 ELSE x.open
           k == IF flag = "checkIn" THEN x.checkIns + 1 ELSE x.checkIns
           y == [x EXCEPT !.open = o, !.checkIns = k]
           z == OnKeepActiveRequest(x, flag, c)
<1>1. x \in Manager /\ flag \in Flags
  BY DEF Sound, Flags
<1>2. o \in 0 .. MaxExchanges
  BY <1>1, BoundsAssumption DEF Manager
<1>3. k = x.checkIns
  OBVIOUS
<1>4. z = SetKeepActiveModeRequirements(y, flag, TRUE, c)
  BY DEF OnKeepActiveRequest
<1> HIDE DEF o, k, z
<1>5. /\ y \in Manager /\ y.state = x.state /\ y.timers = x.timers /\ y.called = x.called
      /\ y.checkIns = x.checkIns /\ y.flags = x.flags /\ y.open = o
  BY <1>1, <1>2, <1>3 DEF Manager
<1> HIDE DEF y
<1>6. Sound(y)
  BY <1>5 DEF Sound, Announced
<1>7. After(y, z, y.flags \cup {flag}, y.open, y.checkIns, c) /\ z.state = "Active"
  BY <1>1, <1>4, <1>5, <1>6, SetKeepActiveFacts
<1> QED
  BY <1>5, <1>7 DEF After, z, o

LEMMA WithdrawalFacts ==
    ASSUME NEW x, Sound(x), NEW flag \in {"exchange", "checkIn", "failSafe", "window"},
           NEW c \in Chance, duration \in Nat, x.state = "Idle" => x.checkIns = 0,
           flag = "exchange" => x.open > 0, flag = "checkIn" => x.checkIns > 0
    PROVE  LET o == IF flag = "exchange" THEN x.open - 1 ELSE x.open
               k == IF flag = "checkIn" THEN x.checkIns - 1 ELSE x.checkIns
               fl == IF (flag = "exchange" /\ o > 0) \/ (flag = "checkIn" /\ k > 0)
                     THEN x.flags ELSE x.flags \ {flag}
           IN  After(x, OnActiveRequestWithdrawal(x, flag, c), fl, o, k, c)
<1> DEFINE o == IF flag = "exchange" THEN x.open - 1 ELSE x.open
           k == IF flag = "checkIn" THEN x.checkIns - 1 ELSE x.checkIns
           stays == (flag = "exchange" /\ o > 0) \/ (flag = "checkIn" /\ k > 0)
           fl == IF stays THEN x.flags ELSE x.flags \ {flag}
           y == [x EXCEPT !.open = o, !.checkIns = k]
           z == OnActiveRequestWithdrawal(x, flag, c)
<1>1. x \in Manager /\ flag \in Flags
  BY DEF Sound, Flags
<1>2. /\ o \in 0 .. MaxExchanges /\ k \in 0 .. MaxCheckIns
      /\ x.open \in Nat /\ x.checkIns \in Nat
  BY <1>1, BoundsAssumption DEF Manager
<1>3. /\ (IF flag = "exchange" /\ x.open > 0 THEN x.open - 1 ELSE x.open) = o
      /\ (IF flag = "checkIn" /\ x.checkIns > 0 THEN x.checkIns - 1 ELSE x.checkIns) = k
  BY <1>2
<1>4. y.open = o /\ y.checkIns = k
  BY <1>1 DEF Manager
<1>5. z = IF stays THEN y ELSE SetKeepActiveModeRequirements(y, flag, FALSE, c)
  BY <1>1, <1>3, <1>4 DEF OnActiveRequestWithdrawal, Manager
<1> HIDE DEF o, k, z
<1>6. /\ y \in Manager /\ y.state = x.state /\ y.timers = x.timers /\ y.called = x.called
      /\ y.checkIns = k /\ y.flags = x.flags /\ y.open = o
  BY <1>1, <1>2 DEF Manager
<1> HIDE DEF y
<1>7. Sound(y) /\ (y.state = "Idle" => y.checkIns = 0)
  BY <1>6 DEF Sound, Announced, k
<1>8. CASE stays
  <2>1. z = y /\ fl = x.flags
    BY <1>5, <1>8
  <2> QED
    BY <2>1, <1>1, <1>6, <1>7 DEF After, Manager, z, o, k
<1>9. CASE ~stays
  <2>1. z = SetKeepActiveModeRequirements(y, flag, FALSE, c) /\ fl = x.flags \ {flag}
    BY <1>5, <1>9
  <2>2. After(y, z, y.flags \ {flag}, y.open, y.checkIns, c)
    BY <2>1, <1>1, <1>7, SetKeepActiveFacts
  <2>3. After(x, z, fl, o, k, c)
    BY <2>1, <2>2, <1>6 DEF After
  <2> QED
    BY <2>3 DEF z, o, k
<1> QED
  BY <1>8, <1>9

(* The mode and the SIT requests are apart from the rest.                  *)
LEMMA UpdateICDModeFacts ==
    ASSUME NEW x, Sound(x), NEW clients, NEW sit \in BOOLEAN
    PROVE  LET y == UpdateICDMode([x EXCEPT !.sit = sit], clients)
               z == UpdateICDMode(x, clients)
           IN  /\ Sound(y) /\ y.state = x.state /\ y.called = x.called /\ y.open = x.open
               /\ y.checkIns = x.checkIns /\ y.flags = x.flags /\ y.timers = x.timers
               /\ Sound(z) /\ z.state = x.state /\ z.called = x.called /\ z.open = x.open
               /\ z.checkIns = x.checkIns /\ z.flags = x.flags
<1>1. x \in Manager
  BY DEF Sound
<1>2. ASSUME NEW w \in Manager, Sound(w)
      PROVE  LET z == UpdateICDMode(w, clients)
             IN  /\ Sound(z) /\ z.state = w.state /\ z.called = w.called /\ z.open = w.open
                 /\ z.checkIns = w.checkIns /\ z.flags = w.flags /\ z.timers = w.timers
  <2> DEFINE md == IF ~w.sit /\ clients # {} THEN "LIT" ELSE "SIT"
             z == [w EXCEPT !.mode = md]
  <2>1. md \in {"SIT", "LIT"} /\ UpdateICDMode(w, clients) = z
    BY DEF UpdateICDMode
  <2> HIDE DEF md
  <2>2. /\ z \in Manager /\ z.state = w.state /\ z.called = w.called /\ z.open = w.open
        /\ z.checkIns = w.checkIns /\ z.flags = w.flags /\ z.timers = w.timers
    BY <2>1 DEF Manager
  <2> HIDE DEF z
  <2>3. Sound(z)
    BY <2>2, <1>2 DEF Sound, Announced
  <2> QED
    BY <2>1, <2>2, <2>3
<1> DEFINE v == [x EXCEPT !.sit = sit]
<1>3. /\ v \in Manager /\ v.state = x.state /\ v.called = x.called /\ v.open = x.open
      /\ v.checkIns = x.checkIns /\ v.flags = x.flags /\ v.timers = x.timers
  BY <1>1 DEF Manager
<1> HIDE DEF v
<1>4. Sound(v)
  BY <1>3 DEF Sound, Announced
<1> QED
  BY <1>1, <1>2, <1>3, <1>4 DEF v

----------------------------------------------------------------------------
(* The steps.                                                              *)

(* A step into IdleMode follows the announcement, or finds it overdue.     *)
Ordered ==
    duration > 0 /\ m.state = "Active" /\ m'.state = "Idle" =>
        last = "TransitionToIdle" \/ Late(m.timers)

(* An operation that did what After says, for the users as they then are,  *)
(* keeps the invariant.                                                    *)
LEMMA LandingFacts ==
    ASSUME KeepActiveInv, NEW c \in Chance, NEW y, NEW fl, NEW k \in Nat,
           Becomes(y, c, k), After(m, y, fl, exchanges', k, c),
           exchanges' \in 0 .. MaxExchanges, failSafe' \in BOOLEAN, window' \in BOOLEAN,
           test' \in BOOLEAN,
           "exchange" \in fl <=> exchanges' > 0, "checkIn" \in fl <=> k > 0,
           "failSafe" \in fl <=> failSafe', "window" \in fl <=> window', "test" \in fl <=> test'
    PROVE  KeepActiveInv' /\ Ordered
<1>1. m' = y /\ duration' = duration /\ Sound(y) /\ Sound(m)
  BY DEF Becomes, After, KeepActiveInv
<1>2. Sound(m)'
  BY <1>1 DEF Sound, Announced
<1>3. y.state \in {"Idle", "Active"} /\ m.state \in {"Idle", "Active"}
  BY <1>1 DEF Sound, Manager
<1>4. lookups' = y.checkIns /\ y.checkIns \in 0 .. MaxCheckIns /\ c.starts \in Nat
  BY <1>1, <1>3 DEF Becomes, After, Sound, Manager, Chance
<1>5. "checkIn" \in y.flags <=> lookups' > 0
  BY <1>4 DEF After
<1>6. FlagsAgree'
  BY <1>1, <1>4, <1>5 DEF After, FlagsAgree
<1>7. Told'
  BY <1>1, <1>3 DEF After, Told, Becomes, KeepActiveInv
<1>8. Ordered
  BY <1>1 DEF Ordered, After, KeepActiveInv, Told
<1> QED
  BY <1>1, <1>2, <1>4, <1>6, <1>7, <1>8 DEF KeepActiveInv

(* What the invariant says of the state a step starts in.                  *)
LEMMA InvFacts ==
    ASSUME KeepActiveInv
    PROVE  /\ Sound(m) /\ m \in Manager /\ WellFormed(m.timers) /\ Announced(m)
           /\ duration \in Nat /\ m.open = exchanges /\ m.checkIns = lookups
           /\ exchanges \in Nat /\ exchanges <= MaxExchanges /\ lookups \in Nat
           /\ m.state \in {"Idle", "Active"} /\ m.called \in BOOLEAN
           /\ failSafe \in BOOLEAN /\ window \in BOOLEAN /\ test \in BOOLEAN
           /\ m.state = "Idle" => /\ m.flags = {} /\ exchanges = 0 /\ lookups = 0
                                  /\ ~failSafe /\ ~window /\ ~test
           /\ "exchange" \in m.flags <=> exchanges > 0
           /\ "checkIn" \in m.flags <=> lookups > 0
           /\ "failSafe" \in m.flags <=> failSafe
           /\ "window" \in m.flags <=> window
           /\ "test" \in m.flags <=> test
BY BoundsAssumption DEF KeepActiveInv, Sound, FlagsAgree, Manager

(* The users are as they were.                                             *)
LEMMA SameUsersLand ==
    ASSUME KeepActiveInv, NEW c \in Chance, NEW y, Becomes(y, c, lookups),
           After(m, y, m.flags, m.open, m.checkIns, c),
           UNCHANGED <<exchanges, failSafe, window, test>>
    PROVE  KeepActiveInv' /\ Ordered
<1>1. After(m, y, m.flags, exchanges', lookups, c)
  BY InvFacts
<1>2. /\ exchanges' \in 0 .. MaxExchanges /\ lookups \in Nat
      /\ failSafe' \in BOOLEAN /\ window' \in BOOLEAN /\ test' \in BOOLEAN
      /\ "exchange" \in m.flags <=> exchanges' > 0
      /\ "checkIn" \in m.flags <=> lookups > 0
      /\ "failSafe" \in m.flags <=> failSafe'
      /\ "window" \in m.flags <=> window'
      /\ "test" \in m.flags <=> test'
  BY InvFacts
<1> QED
  BY <1>1, <1>2, LandingFacts

(* Waking, or going on for the threshold.                                  *)
LEMMA WakingKeeps ==
    ASSUME KeepActiveInv, NEW c \in Chance,
           OnNetworkActivity(c) \/ OnSubscriptionReport(c) \/ TriggerCheckInMessages(c)
    PROVE  KeepActiveInv' /\ Ordered
<1>1. /\ Becomes(UpdateOperationState(m, "Active", c), c, lookups)
      /\ UNCHANGED <<exchanges, failSafe, window, test>>
  BY Zenon DEF OnNetworkActivity, OnSubscriptionReport, TriggerCheckInMessages
<1>2. m.state = "Idle" => m.checkIns + c.starts <= MaxCheckIns
  BY InvFacts, BoundsAssumption DEF Chance
<1>3. After(m, UpdateOperationState(m, "Active", c), m.flags, m.open, m.checkIns, c)
  BY <1>2, InvFacts, ToActiveFacts
<1> QED
  BY <1>1, <1>3, SameUsersLand

LEMMA StayActiveRequestKeeps ==
    ASSUME KeepActiveInv, NEW c \in Chance, StayActiveRequest(c)
    PROVE  KeepActiveInv' /\ Ordered
<1>1. PICK d \in StayActive : Becomes(ExtendActiveMode(m, d), c, lookups)
  BY Zenon DEF StayActiveRequest
<1>2. d \in Nat /\ m.state = "Active" /\ UNCHANGED <<exchanges, failSafe, window, test>>
  BY DurationsAssumption DEF StayActiveRequest
<1>3. After(m, ExtendActiveMode(m, d), m.flags, m.open, m.checkIns, c)
  BY <1>2, InvFacts, ExtendActiveModeFacts
<1> QED
  BY <1>1, <1>2, <1>3, SameUsersLand

LEMMA SITModeRequestKeeps ==
    ASSUME KeepActiveInv, NEW c \in Chance, SITModeRequest(c)
    PROVE  KeepActiveInv' /\ Ordered
<1> DEFINE b == ~m.sit
           x == UpdateICDMode([m EXCEPT !.sit = b], registered)
           y == UpdateOperationState(x, "Active", c)
<1>1. b \in BOOLEAN
  OBVIOUS
<1>2. Becomes(y, c, lookups) /\ UNCHANGED <<exchanges, failSafe, window, test>>
  BY DEF SITModeRequest
<1> HIDE DEF b
<1>3. /\ Sound(x) /\ x.state = m.state /\ x.called = m.called /\ x.open = m.open
      /\ x.checkIns = m.checkIns /\ x.flags = m.flags /\ x.timers = m.timers
  BY <1>1, InvFacts, UpdateICDModeFacts
<1> HIDE DEF x
<1>4. x \in Manager /\ WellFormed(x.timers)
  BY <1>3 DEF Sound
<1>5. x.state = "Idle" => x.checkIns + c.starts <= MaxCheckIns
  BY <1>3, InvFacts, BoundsAssumption DEF Chance
<1>6. After(x, y, x.flags, x.open, x.checkIns, c)
  BY <1>3, <1>4, <1>5, InvFacts, ToActiveFacts
<1> HIDE DEF y
<1>7. After(m, y, m.flags, m.open, m.checkIns, c)
  BY <1>3, <1>6 DEF After
<1> QED
  BY <1>2, <1>7, SameUsersLand

LEMMA ExchangeOpensKeeps ==
    ASSUME KeepActiveInv, NEW c \in Chance, ExchangeOpens(c)
    PROVE  KeepActiveInv' /\ Ordered
<1> DEFINE y == OnKeepActiveRequest(m, "exchange", c)
           fl == m.flags \cup {"exchange"}
<1>1. /\ Becomes(y, c, lookups) /\ exchanges < MaxExchanges /\ exchanges' = exchanges + 1
      /\ UNCHANGED <<failSafe, window, test>>
  BY DEF ExchangeOpens
<1>2. After(m, y, fl, m.open + 1, m.checkIns, c)
  BY <1>1, InvFacts, RequestFacts
<1> HIDE DEF y
<1>3. /\ After(m, y, fl, exchanges', lookups, c)
      /\ exchanges' \in 0 .. MaxExchanges /\ lookups \in Nat
      /\ failSafe' \in BOOLEAN /\ window' \in BOOLEAN /\ test' \in BOOLEAN
      /\ "exchange" \in fl <=> exchanges' > 0
      /\ "checkIn" \in fl <=> lookups > 0
      /\ "failSafe" \in fl <=> failSafe'
      /\ "window" \in fl <=> window'
      /\ "test" \in fl <=> test'
  BY <1>1, <1>2, InvFacts, BoundsAssumption
<1> QED
  BY <1>1, <1>3, LandingFacts

LEMMA ExchangeClosesKeeps ==
    ASSUME KeepActiveInv, NEW c \in Chance, ExchangeCloses(c)
    PROVE  KeepActiveInv' /\ Ordered
<1> DEFINE y == OnActiveRequestWithdrawal(m, "exchange", c)
           o == m.open - 1
           fl == IF o > 0 THEN m.flags ELSE m.flags \ {"exchange"}
<1>1. /\ Becomes(y, c, lookups) /\ exchanges > 0 /\ exchanges' = exchanges - 1
      /\ UNCHANGED <<failSafe, window, test>>
  BY DEF ExchangeCloses
<1>2. After(m, y, fl, o, m.checkIns, c)
  BY <1>1, InvFacts, WithdrawalFacts
<1> HIDE DEF y
<1>3. /\ After(m, y, fl, exchanges', lookups, c)
      /\ exchanges' \in 0 .. MaxExchanges /\ lookups \in Nat
      /\ failSafe' \in BOOLEAN /\ window' \in BOOLEAN /\ test' \in BOOLEAN
  BY <1>1, <1>2, InvFacts, BoundsAssumption
<1>4. /\ "exchange" \in fl <=> exchanges' > 0
      /\ "checkIn" \in fl <=> lookups > 0
      /\ "failSafe" \in fl <=> failSafe'
      /\ "window" \in fl <=> window'
      /\ "test" \in fl <=> test'
  BY <1>1, InvFacts, BoundsAssumption
<1> QED
  BY <1>1, <1>3, <1>4, LandingFacts

LEMMA FailSafeStartsKeeps ==
    ASSUME KeepActiveInv, NEW c \in Chance, FailSafeStarts(c)
    PROVE  KeepActiveInv' /\ Ordered
<1> DEFINE y == OnKeepActiveRequest(m, "failSafe", c)
           fl == m.flags \cup {"failSafe"}
<1>1. /\ Becomes(y, c, lookups) /\ failSafe' = TRUE /\ UNCHANGED <<exchanges, window, test>>
  BY Zenon DEF FailSafeStarts
<1>2. After(m, y, fl, m.open, m.checkIns, c)
  BY InvFacts, RequestFacts
<1> HIDE DEF y
<1>3. /\ After(m, y, fl, exchanges', lookups, c)
      /\ exchanges' \in 0 .. MaxExchanges /\ lookups \in Nat
      /\ failSafe' \in BOOLEAN /\ window' \in BOOLEAN /\ test' \in BOOLEAN
      /\ "exchange" \in fl <=> exchanges' > 0
      /\ "checkIn" \in fl <=> lookups > 0
      /\ "failSafe" \in fl <=> failSafe'
      /\ "window" \in fl <=> window'
      /\ "test" \in fl <=> test'
  BY <1>1, <1>2, InvFacts, BoundsAssumption
<1> QED
  BY <1>1, <1>3, LandingFacts

LEMMA FailSafeEndsKeeps ==
    ASSUME KeepActiveInv, NEW c \in Chance, FailSafeEnds(c)
    PROVE  KeepActiveInv' /\ Ordered
<1> DEFINE y == OnActiveRequestWithdrawal(m, "failSafe", c)
           fl == m.flags \ {"failSafe"}
<1>1. /\ Becomes(y, c, lookups) /\ failSafe' = FALSE /\ UNCHANGED <<exchanges, window, test>>
  BY Zenon DEF FailSafeEnds
<1>2. After(m, y, fl, m.open, m.checkIns, c)
  BY InvFacts, WithdrawalFacts
<1> HIDE DEF y, fl
<1>3. /\ After(m, y, fl, exchanges', lookups, c)
      /\ exchanges' \in 0 .. MaxExchanges /\ lookups \in Nat
  BY <1>1, <1>2, InvFacts, BoundsAssumption
<1>4. failSafe' \in BOOLEAN /\ window' \in BOOLEAN /\ test' \in BOOLEAN
  BY <1>1, InvFacts
<1>5. /\ "exchange" \in fl <=> exchanges' > 0
      /\ "checkIn" \in fl <=> lookups > 0
      /\ "failSafe" \in fl <=> failSafe'
      /\ "window" \in fl <=> window'
      /\ "test" \in fl <=> test'
  BY <1>1, InvFacts DEF fl
<1> QED
  BY <1>1, <1>3, <1>4, <1>5, LandingFacts

LEMMA WindowOpensKeeps ==
    ASSUME KeepActiveInv, NEW c \in Chance, WindowOpens(c)
    PROVE  KeepActiveInv' /\ Ordered
<1> DEFINE y == OnKeepActiveRequest(m, "window", c)
           fl == m.flags \cup {"window"}
<1>1. /\ Becomes(y, c, lookups) /\ window' = TRUE /\ UNCHANGED <<exchanges, failSafe, test>>
  BY Zenon DEF WindowOpens
<1>2. After(m, y, fl, m.open, m.checkIns, c)
  BY InvFacts, RequestFacts
<1> HIDE DEF y
<1>3. /\ After(m, y, fl, exchanges', lookups, c)
      /\ exchanges' \in 0 .. MaxExchanges /\ lookups \in Nat
      /\ failSafe' \in BOOLEAN /\ window' \in BOOLEAN /\ test' \in BOOLEAN
      /\ "exchange" \in fl <=> exchanges' > 0
      /\ "checkIn" \in fl <=> lookups > 0
      /\ "failSafe" \in fl <=> failSafe'
      /\ "window" \in fl <=> window'
      /\ "test" \in fl <=> test'
  BY <1>1, <1>2, InvFacts, BoundsAssumption
<1> QED
  BY <1>1, <1>3, LandingFacts

LEMMA WindowClosesKeeps ==
    ASSUME KeepActiveInv, NEW c \in Chance, WindowCloses(c)
    PROVE  KeepActiveInv' /\ Ordered
<1> DEFINE y == OnActiveRequestWithdrawal(m, "window", c)
           fl == m.flags \ {"window"}
<1>1. /\ Becomes(y, c, lookups) /\ window' = FALSE /\ UNCHANGED <<exchanges, failSafe, test>>
  BY Zenon DEF WindowCloses
<1>2. After(m, y, fl, m.open, m.checkIns, c)
  BY InvFacts, WithdrawalFacts
<1> HIDE DEF y, fl
<1>3. /\ After(m, y, fl, exchanges', lookups, c)
      /\ exchanges' \in 0 .. MaxExchanges /\ lookups \in Nat
  BY <1>1, <1>2, InvFacts, BoundsAssumption
<1>4. failSafe' \in BOOLEAN /\ window' \in BOOLEAN /\ test' \in BOOLEAN
  BY <1>1, InvFacts
<1>5. /\ "exchange" \in fl <=> exchanges' > 0
      /\ "checkIn" \in fl <=> lookups > 0
      /\ "failSafe" \in fl <=> failSafe'
      /\ "window" \in fl <=> window'
      /\ "test" \in fl <=> test'
  BY <1>1, InvFacts DEF fl
<1> QED
  BY <1>1, <1>3, <1>4, <1>5, LandingFacts

LEMMA TestTriggerKeeps ==
    ASSUME KeepActiveInv, NEW c \in Chance, TestTrigger(c)
    PROVE  KeepActiveInv' /\ Ordered
<1> DEFINE b == ~test
           y == SetKeepActiveModeRequirements(m, "test", b, c)
           fl == IF b THEN m.flags \cup {"test"} ELSE m.flags \ {"test"}
<1>1. Becomes(y, c, lookups) /\ test' = b /\ UNCHANGED <<exchanges, failSafe, window>>
  BY Zenon DEF TestTrigger
<1>2. b \in BOOLEAN /\ "test" \in Flags
  BY DEF Flags
<1> HIDE DEF b
<1>3. After(m, y, fl, m.open, m.checkIns, c)
  BY <1>2, InvFacts, SetKeepActiveFacts
<1> HIDE DEF y
<1>4. /\ After(m, y, fl, exchanges', lookups, c)
      /\ exchanges' \in 0 .. MaxExchanges /\ lookups \in Nat
      /\ failSafe' \in BOOLEAN /\ window' \in BOOLEAN /\ test' \in BOOLEAN
  BY <1>1, <1>2, <1>3, InvFacts, BoundsAssumption
<1>5. "test" \in fl <=> b
  BY <1>2
<1>6. \A f \in Flags \ {"test"} : f \in fl <=> f \in m.flags
  BY <1>2
<1>7. /\ "exchange" \in fl <=> exchanges' > 0
      /\ "checkIn" \in fl <=> lookups > 0
      /\ "failSafe" \in fl <=> failSafe'
      /\ "window" \in fl <=> window'
      /\ "test" \in fl <=> test'
  BY <1>1, <1>5, <1>6, InvFacts DEF Flags
<1> QED
  BY <1>1, <1>4, <1>7, LandingFacts

(* After, of a step that starts where an earlier one left the mode.        *)
LEMMA AfterChain ==
    ASSUME NEW x, NEW y, NEW z, NEW fl, NEW o, NEW k, NEW c,
           x.state = y.state, x.called = y.called, Late(y.timers) => Late(x.timers),
           After(y, z, fl, o, k, c)
    PROVE  After(x, z, fl, o, k, c)
BY DEF After

LEMMA CheckInEndsKeeps ==
    ASSUME KeepActiveInv, NEW c \in Chance, CheckInEnds(c)
    PROVE  KeepActiveInv' /\ Ordered
<1> DEFINE none == [starts |-> 0, wouldSend |-> FALSE]
<1>1. PICK made \in BOOLEAN, sent \in BOOLEAN :
         LET a == IF made THEN OnKeepActiveRequest(m, "exchange", none) ELSE m
             b == IF made /\ sent THEN UpdateOperationState(a, "Active", none) ELSE a
             d == IF made THEN OnActiveRequestWithdrawal(b, "exchange", none) ELSE b
         IN  /\ made => exchanges < MaxExchanges
             /\ Becomes(OnActiveRequestWithdrawal(d, "checkIn", c), c, lookups - 1)
  BY Zenon DEF CheckInEnds
<1>2. lookups > 0 /\ UNCHANGED <<exchanges, failSafe, window, test>>
  BY Zenon DEF CheckInEnds
<1>3. none \in Chance /\ none.starts = 0
  BY BoundsAssumption DEF Chance
<1>4. m.state = "Active" /\ "checkIn" \in m.flags
  BY <1>2, InvFacts
<1> HIDE DEF none
<1> DEFINE a == IF made THEN OnKeepActiveRequest(m, "exchange", none) ELSE m
           b == IF made /\ sent THEN UpdateOperationState(a, "Active", none) ELSE a
           d == IF made THEN OnActiveRequestWithdrawal(b, "exchange", none) ELSE b
           y == OnActiveRequestWithdrawal(d, "checkIn", c)
           (* the message's exchange is gone: the manager is as before *)
           Same(x, o, fl) == /\ Sound(x) /\ x.state = "Active" /\ x.called = m.called
                             /\ x.open = o /\ x.checkIns = lookups /\ x.flags = fl
                             /\ Late(x.timers) => Late(m.timers)
<1>5. (made => exchanges < MaxExchanges) /\ Becomes(y, c, lookups - 1)
  BY <1>1
<1> HIDE DEF y
<1>6. Same(m, exchanges, m.flags)
  BY <1>4, InvFacts
<1>7. Same(d, exchanges, m.flags)
  <2>1. CASE ~made
    <3>1. d = m
      BY <2>1
    <3> QED
      BY <3>1, <1>6
  <2>2. CASE made
    <3> DEFINE fl == m.flags \cup {"exchange"}
               a1 == OnKeepActiveRequest(m, "exchange", none)
               d1 == OnActiveRequestWithdrawal(b, "exchange", none)
    <3>1. a = a1
      BY <2>2
    <3>2. After(m, a1, fl, m.open + 1, m.checkIns, none) /\ a1.state = "Active"
      BY <2>2, <1>3, <1>5, InvFacts, RequestFacts
    <3> HIDE DEF a1
    <3>3. Same(a1, exchanges + 1, fl)
      BY <3>2, <1>4, InvFacts DEF After
    <3>4. Same(b, exchanges + 1, fl)
      <4>1. CASE ~sent
        <5>1. b = a1
          BY <4>1, <3>1
        <5> QED
          BY <5>1, <3>3
      <4>2. CASE sent
        <5> DEFINE b1 == UpdateOperationState(a1, "Active", none)
        <5>1. b = b1
          BY <4>2, <2>2, <3>1
        <5>2. a1 \in Manager /\ WellFormed(a1.timers)
          BY <3>3 DEF Sound
        <5>3. /\ After(a1, b1, a1.flags, a1.open, a1.checkIns, none) /\ b1.state = "Active"
          BY <5>2, <3>3, <1>3, InvFacts, ToActiveFacts
        <5> HIDE DEF b1
        <5>4. Same(b1, exchanges + 1, fl)
          BY <5>3, <3>3 DEF After
        <5> QED
          BY <5>1, <5>4
      <4> QED
        BY <4>1, <4>2
    <3> HIDE DEF b
    <3>5. b.open - 1 = exchanges /\ b.open > 0
      BY <3>4, InvFacts
    <3> DEFINE fd == IF exchanges > 0 THEN fl ELSE fl \ {"exchange"}
    <3>6. After(b, d1, fd, exchanges, b.checkIns, none)
      BY <3>4, <3>5, <1>3, InvFacts, WithdrawalFacts
    <3>7. fd = m.flags
      BY InvFacts
    <3>8. d = d1
      BY <2>2
    <3> HIDE DEF d1, d, fd, fl
    <3>9. d1.flags # {} /\ Sound(d1)
      BY <3>4, <3>6, <3>7, <1>4 DEF After
    <3>10. d1.state = "Active"
      BY <3>9 DEF Sound, Manager
    <3>11. Same(d1, exchanges, m.flags)
      BY <3>4, <3>6, <3>7, <3>10 DEF After
    <3> QED
      BY <3>8, <3>11
  <2> QED
    BY <2>1, <2>2
<1> HIDE DEF d
<1> DEFINE k == lookups - 1
           fl == IF k > 0 THEN m.flags ELSE m.flags \ {"checkIn"}
<1>8. k \in Nat /\ lookups > 0
  BY <1>2, InvFacts
<1>9. After(d, y, fl, exchanges, k, c)
  BY <1>7, <1>8, InvFacts, WithdrawalFacts DEF y
<1>10. After(m, y, fl, exchanges', k, c)
  BY <1>2, <1>4, <1>7, <1>9, AfterChain
<1>11. /\ "exchange" \in fl <=> exchanges' > 0
       /\ "checkIn" \in fl <=> k > 0
       /\ "failSafe" \in fl <=> failSafe'
       /\ "window" \in fl <=> window'
       /\ "test" \in fl <=> test'
  BY <1>2, <1>8, InvFacts
<1>12. /\ exchanges' \in 0 .. MaxExchanges
       /\ failSafe' \in BOOLEAN /\ window' \in BOOLEAN /\ test' \in BOOLEAN
  BY <1>2, InvFacts, BoundsAssumption
<1> QED
  BY <1>5, <1>8, <1>10, <1>11, <1>12, LandingFacts

(* The table of registered clients changes the mode and nothing else.      *)
LEMMA TableKeeps ==
    ASSUME KeepActiveInv, TableUpdated \/ OnFabricRemoved
    PROVE  KeepActiveInv' /\ Ordered
<1>1. /\ m' = UpdateICDMode(m, registered')
      /\ UNCHANGED <<duration, exchanges, lookups, failSafe, window, test, last>>
  BY Zenon DEF TableUpdated, OnFabricRemoved
<1>2. /\ Sound(m') /\ m'.state = m.state /\ m'.called = m.called /\ m'.open = m.open
      /\ m'.checkIns = m.checkIns /\ m'.flags = m.flags
  BY <1>1, InvFacts, UpdateICDModeFacts
<1>3. Sound(m)'
  BY <1>1, <1>2 DEF Sound, Announced
<1> QED
  BY <1>1, <1>2, <1>3 DEF KeepActiveInv, FlagsAgree, Told, Ordered

(* The timer that is due leaves the list.                                  *)
LEMMA PoppedFacts ==
    ASSUME KeepActiveInv, NEW name, Due(name)
    PROVE  /\ Popped \in Manager /\ Popped.timers \in TimerList
           /\ Range(Popped.timers) = {t \in Range(m.timers) : t.name # name}
           /\ \E t0 \in Range(m.timers) : /\ t0.name = name /\ t0.due <= 0
                                         /\ \A t \in Range(m.timers) : t0.due <= t.due
           /\ Popped.state = m.state /\ Popped.called = m.called /\ Popped.open = m.open
           /\ Popped.checkIns = m.checkIns /\ Popped.flags = m.flags
<1> DEFINE q == m.timers
           r == Tail(q)
           t0 == Head(q)
<1>1. q \in Seq(Timer) /\ WellFormed(q) /\ q # <<>> /\ m \in Manager
  BY InvFacts DEF Manager, Timer, Due
<1>2. /\ Len(q) \in Nat \ {0} /\ DOMAIN q = 1 .. Len(q) /\ q[1] = t0
      /\ r \in Seq(Timer) /\ Len(r) = Len(q) - 1 /\ DOMAIN r = 1 .. Len(q) - 1
      /\ \A i \in 1 .. Len(q) - 1 : r[i] = q[i + 1]
  BY <1>1
<1>3. t0.name = name /\ t0.due <= 0
  BY DEF Due
<1>4. Popped = [m EXCEPT !.timers = r]
  BY DEF Popped
<1> HIDE DEF r, t0
<1>5. WellFormed(r)
  <2> SUFFICES ASSUME NEW i \in DOMAIN r, NEW j \in DOMAIN r
               PROVE  /\ r[i].name = r[j].name => i = j
                      /\ i <= j => r[i].due <= r[j].due
    BY DEF WellFormed
  <2>1. i \in 1 .. Len(q) - 1 /\ j \in 1 .. Len(q) - 1
    BY <1>2
  <2>2. r[i] = q[i + 1] /\ r[j] = q[j + 1]
    BY <1>2, <2>1
  <2>3. /\ i + 1 \in DOMAIN q /\ j + 1 \in DOMAIN q
        /\ (i + 1 = j + 1 => i = j) /\ (i <= j => i + 1 <= j + 1)
    <3>1. i \in Int /\ j \in Int /\ i + 1 \in 1 .. Len(q) /\ j + 1 \in 1 .. Len(q)
      BY <1>2, <2>1
    <3> QED
      BY <3>1, <1>2
  <2> QED
    BY <2>2, <2>3, <1>1 DEF WellFormed
<1>6. /\ Popped \in Manager /\ Popped.timers = r
      /\ Popped.state = m.state /\ Popped.called = m.called /\ Popped.open = m.open
      /\ Popped.checkIns = m.checkIns /\ Popped.flags = m.flags
  BY <1>1, <1>2, <1>4 DEF Manager, Timer
<1>7. Range(r) = {t \in Range(q) : t.name # name}
  <2>1. ASSUME NEW t \in Range(r) PROVE t \in Range(q) /\ t.name # name
    <3>1. PICK i \in 1 .. Len(q) - 1 : t = q[i + 1] /\ i + 1 \in DOMAIN q /\ i + 1 # 1
      BY <1>2 DEF Range
    <3>2. 1 \in DOMAIN q
      BY <1>2
    <3>3. q[i + 1].name # q[1].name
      BY <3>1, <3>2, <1>1 DEF WellFormed
    <3> QED
      BY <3>1, <3>3, <1>2, <1>3 DEF Range
  <2>2. ASSUME NEW t \in Range(q), t.name # name PROVE t \in Range(r)
    <3>1. PICK i \in 1 .. Len(q) : t = q[i] /\ i # 1
      BY <2>2, <1>2, <1>3 DEF Range
    <3>2. i - 1 \in 1 .. Len(q) - 1 /\ (i - 1) + 1 = i
      BY <3>1, <1>2
    <3>3. r[i - 1] = t
      BY <3>1, <3>2, <1>2
    <3> QED
      BY <3>2, <3>3, <1>2 DEF Range
  <2> QED
    BY <2>1, <2>2
<1>8. t0 \in Range(q)
  BY <1>2 DEF Range
<1>9. \A t \in Range(q) : t0.due <= t.due
  <2> TAKE t \in Range(q)
  <2>1. PICK i \in DOMAIN q : t = q[i]
    BY DEF Range
  <2>2. 1 \in DOMAIN q /\ 1 <= i
    BY <1>2
  <2> QED
    BY <2>1, <2>2, <1>1, <1>2 DEF WellFormed
<1> QED
  BY <1>2, <1>3, <1>5, <1>6, <1>7, <1>8, <1>9 DEF TimerList

LEMMA OnIdleModeDoneKeeps ==
    ASSUME KeepActiveInv, NEW c \in Chance, OnIdleModeDone(c)
    PROVE  KeepActiveInv' /\ Ordered
<1> DEFINE x == Popped
           y == UpdateOperationState(x, "Active", c)
<1>1. /\ Due("OnIdleModeDone") /\ Becomes(y, c, lookups)
      /\ UNCHANGED <<exchanges, failSafe, window, test>>
  BY Zenon DEF OnIdleModeDone
<1>2. /\ x \in Manager /\ x.timers \in TimerList /\ x.flags = m.flags
      /\ Range(x.timers) = {t \in Range(m.timers) : t.name # "OnIdleModeDone"}
      /\ x.state = m.state /\ x.called = m.called /\ x.open = m.open /\ x.checkIns = m.checkIns
  BY <1>1, PoppedFacts
<1> HIDE DEF x
<1>3. m.timers \in TimerList
  BY InvFacts DEF Manager, Timer, TimerList
<1>4. \A n \in {"OnActiveModeDone", "OnTransitionToIdle"} : Runs(x.timers, n) <=> Runs(m.timers, n)
  BY <1>2 DEF Runs
<1>5. Announced(x)
  BY <1>2, <1>3, <1>4, InvFacts, AnnouncedFacts
<1>6. Sound(x)
  BY <1>2, <1>3, <1>4, <1>5, InvFacts, FindRuns DEF Sound, TimerList
<1>7. WellFormed(x.timers) /\ (x.state = "Idle" => x.checkIns + c.starts <= MaxCheckIns)
  BY <1>2, InvFacts, BoundsAssumption DEF Chance, TimerList
<1>8. After(x, y, m.flags, m.open, m.checkIns, c)
  BY <1>2, <1>6, <1>7, InvFacts, ToActiveFacts
<1> HIDE DEF y
<1>9. After(m, y, m.flags, m.open, m.checkIns, c)
  <2>1. Late(x.timers) => Late(m.timers)
    BY <1>2 DEF Late
  <2> QED
    BY <1>2, <1>8, <2>1, AfterChain
<1> QED
  BY <1>1, <1>9, SameUsersLand

LEMMA OnActiveModeDoneKeeps ==
    ASSUME KeepActiveInv, NEW c \in Chance, OnActiveModeDone(c)
    PROVE  /\ KeepActiveInv' /\ Ordered
           /\ duration > 0 /\ m.state = "Active" => last = "TransitionToIdle"
<1> DEFINE x == Popped
           y == IF m.flags = {} THEN UpdateOperationState(x, "Idle", c) ELSE x
<1>1. /\ Due("OnActiveModeDone") /\ Becomes(y, c, lookups)
      /\ UNCHANGED <<exchanges, failSafe, window, test>>
  BY Zenon DEF OnActiveModeDone
<1>2. /\ x \in Manager /\ x.timers \in TimerList /\ x.flags = m.flags
      /\ Range(x.timers) = {t \in Range(m.timers) : t.name # "OnActiveModeDone"}
      /\ \E t0 \in Range(m.timers) : /\ t0.name = "OnActiveModeDone" /\ t0.due <= 0
                                    /\ \A t \in Range(m.timers) : t0.due <= t.due
      /\ x.state = m.state /\ x.called = m.called /\ x.open = m.open /\ x.checkIns = m.checkIns
  BY <1>1, PoppedFacts
<1> HIDE DEF x
<1>3. m.timers \in TimerList
  BY InvFacts DEF Manager, Timer, TimerList
<1>4. Runs(x.timers, "OnTransitionToIdle") <=> Runs(m.timers, "OnTransitionToIdle")
  BY <1>2 DEF Runs
<1>5. duration > 0 =>
         /\ ~Runs(m.timers, "OnTransitionToIdle")
         /\ m.state = "Active" => m.called
  <2> SUFFICES ASSUME duration > 0
               PROVE  /\ ~Runs(m.timers, "OnTransitionToIdle")
                      /\ m.state = "Active" => m.called
    OBVIOUS
  <2>1. /\ m.state = "Active" /\ ~m.called => Runs(m.timers, "OnTransitionToIdle")
        /\ \A t, u \in Range(m.timers) :
              (t.name = "OnTransitionToIdle" /\ u.name = "OnActiveModeDone") => t.due < u.due
    BY <1>3, InvFacts, AnnouncedFacts
  <2>2. \A t \in Range(m.timers) : t.due \in Int
    <3>1. \A t \in Range(m.timers) : t \in Timer
      BY <1>3 DEF TimerList, Range
    <3> QED
      BY <3>1 DEF Timer
  <2>3. ~Runs(m.timers, "OnTransitionToIdle")
    BY <2>1, <2>2, <1>2 DEF Runs
  <2> QED
    BY <2>1, <2>3
<1>6. Announced(x)
  BY <1>2, <1>3, <1>4, <1>5, InvFacts, AnnouncedFacts DEF Runs
<1>7. After(x, y, m.flags, m.open, m.checkIns, c)
  <2>1. CASE m.flags = {}
    <3>1. WellFormed(x.timers)
      BY <1>2 DEF TimerList
    <3>2. x.state = "Active" /\ duration > 0 => x.called \/ Late(x.timers)
      BY <1>2, <1>5
    <3>3. After(x, UpdateOperationState(x, "Idle", c), x.flags, x.open, x.checkIns, c)
      BY <2>1, <3>1, <3>2, <1>2, <1>6, InvFacts, ToIdleFacts
    <3> QED
      BY <2>1, <3>3, <1>2
  <2>2. CASE m.flags # {}
    <3>1. Sound(x) /\ y = x
      BY <2>2, <1>2, <1>6, InvFacts DEF Sound, TimerList
    <3> QED
      BY <3>1, <1>2, InvFacts DEF After
  <2> QED
    BY <2>1, <2>2
<1> HIDE DEF y
<1>8. After(m, y, m.flags, m.open, m.checkIns, c)
  <2>1. Late(x.timers) => Late(m.timers)
    BY <1>2 DEF Late
  <2> QED
    BY <1>2, <1>7, <2>1, AfterChain
<1>9. duration > 0 /\ m.state = "Active" => last = "TransitionToIdle"
  BY <1>5 DEF KeepActiveInv, Told
<1> QED
  BY <1>1, <1>8, <1>9, SameUsersLand

LEMMA OnTransitionToIdleKeeps ==
    ASSUME KeepActiveInv, OnTransitionToIdle
    PROVE  /\ KeepActiveInv' /\ Ordered
           /\ duration > 0 => ~m.called /\ (m.state = "Active" => last = "EnterActiveMode")
<1> DEFINE x == Popped
<1>1. /\ Due("OnTransitionToIdle") /\ m' = [x EXCEPT !.called = TRUE]
      /\ last' = "TransitionToIdle"
      /\ UNCHANGED <<duration, exchanges, lookups, failSafe, window, test>>
  BY DEF OnTransitionToIdle, users
<1>2. /\ x \in Manager /\ x.timers \in TimerList /\ x.flags = m.flags
      /\ Range(x.timers) = {t \in Range(m.timers) : t.name # "OnTransitionToIdle"}
      /\ \E t0 \in Range(m.timers) : t0.name = "OnTransitionToIdle"
      /\ x.state = m.state /\ x.called = m.called /\ x.open = m.open /\ x.checkIns = m.checkIns
  BY <1>1, PoppedFacts
<1> HIDE DEF x
<1>3. /\ m' \in Manager /\ m'.timers = x.timers /\ m'.flags = m.flags /\ m'.state = m.state
      /\ m'.called = TRUE /\ m'.open = m.open /\ m'.checkIns = m.checkIns
  BY <1>1, <1>2 DEF Manager
<1>4. m.timers \in TimerList
  BY InvFacts DEF Manager, Timer, TimerList
<1>5. /\ Runs(x.timers, "OnActiveModeDone") <=> Runs(m.timers, "OnActiveModeDone")
      /\ Runs(m.timers, "OnTransitionToIdle") /\ ~Runs(x.timers, "OnTransitionToIdle")
  BY <1>2 DEF Runs
<1>6. duration > 0 => ~m.called
  BY <1>4, <1>5, InvFacts, AnnouncedFacts
<1>7. Announced(m')
  BY <1>2, <1>3, <1>5, AnnouncedFacts DEF Runs
<1>8. Sound(m')
  BY <1>2, <1>3, <1>4, <1>5, <1>7, InvFacts, FindRuns DEF Sound, TimerList
<1>9. Sound(m)'
  BY <1>1, <1>8 DEF Sound, Announced
<1>10. KeepActiveInv'
  BY <1>1, <1>3, <1>9 DEF KeepActiveInv, FlagsAgree, Told
<1> QED
  BY <1>3, <1>6, <1>10 DEF KeepActiveInv, Told, Ordered

(* Time passes for all timers alike.                                       *)
LEMMA TickKeeps ==
    ASSUME KeepActiveInv, Tick
    PROVE  KeepActiveInv' /\ Ordered
<1> DEFINE q == m.timers
           r == Elapsed(q)
<1>1. /\ m' = [m EXCEPT !.timers = r]
      /\ UNCHANGED <<duration, exchanges, lookups, failSafe, window, test, last>>
  BY DEF Tick, users
<1>2. m \in Manager /\ q \in Seq(Timer)
  BY InvFacts DEF Manager, Timer
<1> HIDE DEF q
<1>3. ASSUME NEW i \in DOMAIN q
      PROVE  /\ r[i] \in Timer /\ r[i].name = q[i].name
             /\ r[i].due = q[i].due - 1 /\ q[i].due \in Int
  <2>1. q[i] \in Timer
    BY <1>2
  <2>2. q[i].name \in Timers /\ q[i].due \in Int
    BY <2>1 DEF Timer
  <2>3. r[i] = [name |-> q[i].name, due |-> q[i].due - 1] /\ q[i].due - 1 \in Int
    BY <2>2 DEF Elapsed
  <2> QED
    BY <2>2, <2>3 DEF Timer
<1>4. r \in Seq(Timer) /\ DOMAIN r = DOMAIN q
  <2>1. DOMAIN q = 1 .. Len(q) /\ Len(q) \in Nat
    BY <1>2
  <2>2. r \in [1 .. Len(q) -> Timer]
    BY <2>1, <1>3 DEF Elapsed
  <2> QED
    BY <2>1, <2>2
<1> HIDE DEF r
<1>5. /\ m' \in Manager /\ m'.timers = r /\ m'.flags = m.flags /\ m'.state = m.state
      /\ m'.called = m.called /\ m'.open = m.open /\ m'.checkIns = m.checkIns
  BY <1>1, <1>2, <1>4 DEF Manager, Timer
<1>6. \A n : Find(r, n) = Find(q, n)
  BY <1>3, <1>4 DEF Find
<1>7. WellFormed(r)
  BY <1>3, <1>4, InvFacts DEF WellFormed, q
<1>8. \A i, j \in DOMAIN q : q[i].due < q[j].due => r[i].due < r[j].due
  BY <1>3
<1>9. \A n : Find(q, n) \subseteq DOMAIN q
  BY DEF Find
<1>10. Announced(m')
  BY <1>5, <1>6, <1>8, <1>9, InvFacts DEF Announced, q
<1>11. Sound(m)'
  BY <1>1, <1>5, <1>6, <1>7, <1>10, InvFacts DEF Sound, Announced, q
<1> QED
  BY <1>1, <1>5, <1>11 DEF KeepActiveInv, FlagsAgree, Told, Ordered

LEMMA InitHolds == Init => KeepActiveInv
<1> SUFFICES ASSUME Init PROVE KeepActiveInv
  OBVIOUS
<1> DEFINE x0 == [state |-> "Active", flags |-> {}, open |-> 0, checkIns |-> 0,
                  called |-> FALSE, sit |-> FALSE, mode |-> "SIT",
                  poll |-> "fast", timers |-> <<>>]
           x == UpdateICDMode(x0, registered)
           md == IF ~x0.sit /\ registered # {} THEN "LIT" ELSE "SIT"
<1>1. PICK w \in BOOLEAN : m = EnterIdle(x, [starts |-> 0, wouldSend |-> w])
  BY Zenon DEF Init
<1>2. duration \in Nat
  BY DurationsAssumption DEF Init
<1>3. md \in {"SIT", "LIT"} /\ x = [x0 EXCEPT !.mode = md]
  BY DEF UpdateICDMode
<1> HIDE DEF md
<1>4. /\ x \in Manager /\ x.state = "Active" /\ x.flags = {} /\ x.open = 0
      /\ x.checkIns = 0 /\ x.called = FALSE /\ x.timers = <<>>
  <2>1. x = [state |-> "Active", flags |-> {}, open |-> 0, checkIns |-> 0,
             called |-> FALSE, sit |-> FALSE, mode |-> md, poll |-> "fast", timers |-> <<>>]
    BY <1>3
  <2>2. 0 \in 0 .. MaxExchanges /\ 0 \in 0 .. MaxCheckIns
    BY BoundsAssumption
  <2> HIDE DEF x
  <2> QED
    BY <2>1, <2>2, <1>3 DEF Manager
<1> HIDE DEF x
<1> DEFINE c == [starts |-> 0, wouldSend |-> w]
           s == StartTimer(<<>>, IdleDuration, "OnIdleModeDone")
           r == IF duration > 0 \/ c.wouldSend THEN s ELSE <<>>
<1>5. <<>> \in TimerList /\ Range(<<>>) = {}
  BY DEF TimerList, WellFormed, Range
<1>6. s \in TimerList /\ Range(s) = {[name |-> "OnIdleModeDone", due |-> IdleDuration]}
  BY <1>5, StartTimerFacts, TimesAssumption DEF Timers
<1>7. m = [x EXCEPT !.state = "Idle", !.poll = x.mode, !.timers = r]
  BY <1>1, <1>4 DEF EnterIdle
<1> HIDE DEF s, c
<1>8. r \in TimerList /\ \A t \in Range(r) : t.name = "OnIdleModeDone"
  BY <1>5, <1>6
<1> HIDE DEF r
<1>9. /\ m \in Manager /\ m.state = "Idle" /\ m.flags = {} /\ m.open = 0
      /\ m.checkIns = 0 /\ m.timers = r
  BY <1>4, <1>7, <1>8 DEF Manager, TimerList, Timer
<1>10. ~Runs(r, "OnTransitionToIdle")
  BY <1>8 DEF Runs
<1>11. Announced(m)
  BY <1>8, <1>9, <1>10, AnnouncedFacts
<1>12. Sound(m)
  BY <1>8, <1>9, <1>11 DEF Sound, TimerList
<1>13. /\ exchanges = 0 /\ lookups = 0 /\ failSafe = FALSE /\ window = FALSE /\ test = FALSE
  BY DEF Init
<1> QED
  <2>1. FlagsAgree /\ Told
    BY <1>9, <1>13 DEF FlagsAgree, Told
  <2>2. exchanges \in 0 .. MaxExchanges /\ lookups \in 0 .. MaxCheckIns
    BY <1>13, BoundsAssumption
  <2>3. failSafe \in BOOLEAN /\ window \in BOOLEAN /\ test \in BOOLEAN
    BY <1>13
  <2> QED
    BY <2>1, <2>2, <2>3, <1>2, <1>12 DEF KeepActiveInv

(* Every step, one action at a time.                                       *)
LEMMA NextKeeps ==
    ASSUME KeepActiveInv, [Next]_vars
    PROVE  /\ KeepActiveInv' /\ Ordered
           /\ OnTransitionToIdle /\ duration > 0 =>
                 ~m.called /\ (m.state = "Active" => last = "EnterActiveMode")
           /\ \A c \in Chance :
                 OnActiveModeDone(c) /\ duration > 0 /\ m.state = "Active" =>
                    last = "TransitionToIdle"
<1>1. ASSUME NEW c \in Chance,
             \/ ExchangeOpens(c) \/ ExchangeCloses(c) \/ OnNetworkActivity(c)
             \/ OnSubscriptionReport(c) \/ TriggerCheckInMessages(c)
             \/ StayActiveRequest(c) \/ FailSafeStarts(c) \/ FailSafeEnds(c)
             \/ WindowOpens(c) \/ WindowCloses(c) \/ TestTrigger(c)
             \/ CheckInEnds(c) \/ SITModeRequest(c)
             \/ OnIdleModeDone(c) \/ OnActiveModeDone(c)
      PROVE  KeepActiveInv' /\ Ordered
  BY <1>1, ExchangeOpensKeeps, ExchangeClosesKeeps, WakingKeeps, StayActiveRequestKeeps,
     FailSafeStartsKeeps, FailSafeEndsKeeps, WindowOpensKeeps, WindowClosesKeeps,
     TestTriggerKeeps, CheckInEndsKeeps, SITModeRequestKeeps, OnIdleModeDoneKeeps,
     OnActiveModeDoneKeeps, Zenon
<1>2. ASSUME TableUpdated \/ OnFabricRemoved \/ OnTransitionToIdle \/ Tick
      PROVE  KeepActiveInv' /\ Ordered
  BY <1>2, TableKeeps, OnTransitionToIdleKeeps, TickKeeps, Zenon
<1>3. ASSUME UNCHANGED vars PROVE KeepActiveInv' /\ Ordered
  <2>1. /\ m' = m /\ last' = last
        /\ UNCHANGED <<duration, exchanges, lookups, failSafe, window, test>>
    BY <1>3 DEF vars, users
  <2>2. Sound(m)'
    BY <2>1 DEF KeepActiveInv, Sound, Announced
  <2>3. FlagsAgree' /\ Told' /\ Ordered
    BY <2>1 DEF KeepActiveInv, FlagsAgree, Told, Ordered
  <2> QED
    BY <2>1, <2>2, <2>3 DEF KeepActiveInv
<1> QED
  BY <1>1, <1>2, <1>3, OnTransitionToIdleKeeps, OnActiveModeDoneKeeps DEF Next

(* The bookkeeping of the manager (its counters, flags, timers and mode)   *)
(* stays sound whatever its users and its timers do.                       *)
THEOREM KeepActiveInvTheorem == Spec => []KeepActiveInv
<1>1. KeepActiveInv /\ [Next]_vars => KeepActiveInv'
  BY NextKeeps
<1> QED
  BY <1>1, InitHolds, PTL DEF Spec

(* The device never sleeps with an exchange, a lookup, a fail-safe, a      *)
(* window or the test trigger in need of it.                               *)
THEOREM NeverSleepsInUseTheorem == Spec => []NeverSleepsInUse
<1>1. KeepActiveInv => NeverSleepsInUse
  BY InvFacts DEF NeverSleepsInUse, InUse
<1> QED
  BY <1>1, KeepActiveInvTheorem, PTL

(* An active device is in use, or the timer that ends its period runs.     *)
THEOREM AwakeForAReasonTheorem == Spec => []AwakeForAReason
<1>1. ASSUME KeepActiveInv, m.state = "Active", ~InUse
      PROVE  Find(m.timers, "OnActiveModeDone") # {}
  <2>1. m.flags \in SUBSET Flags
    BY <1>1, InvFacts DEF Manager
  <2>2. m.flags = {}
    BY <2>1, <1>1, InvFacts DEF InUse, Flags
  <2> QED
    BY <2>2, <1>1, InvFacts DEF Sound
<1>2. KeepActiveInv => AwakeForAReason
  BY <1>1 DEF AwakeForAReason
<1> QED
  BY <1>2, KeepActiveInvTheorem, PTL

(* Whatever the event loop is late with, TransitionToIdle is posted once   *)
(* in a cycle at most and before the timer that ends the period fires, and *)
(* a period ends unannounced only by a withdrawal that finds it overdue.   *)
THEOREM ObserverOrderTheorem == Spec => ObserverOrder
<1>1. ASSUME KeepActiveInv, [Next]_vars
      PROVE  [duration > 0 =>
                /\ OnTransitionToIdle =>
                      ~m.called /\ (m.state = "Active" => last = "EnterActiveMode")
                /\ (\E c \in Chance : OnActiveModeDone(c)) /\ m.state = "Active" =>
                      last = "TransitionToIdle"
                /\ m.state = "Active" /\ m'.state = "Idle" =>
                      last = "TransitionToIdle" \/ Overdue(m.timers, "OnTransitionToIdle")]_vars
  <2>1. m.timers \in TimerList
    BY <1>1, InvFacts DEF Manager, Timer, TimerList
  <2>2. Late(m.timers) <=> Overdue(m.timers, "OnTransitionToIdle")
    BY <2>1, LateIsOverdue
  <2> QED
    BY <1>1, <2>2, NextKeeps, Zenon DEF Ordered
<1> QED
  BY <1>1, KeepActiveInvTheorem, PTL DEF Spec, ObserverOrder
=============================================================================
