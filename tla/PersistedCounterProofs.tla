----------------------- MODULE PersistedCounterProofs -----------------------
(***************************************************************************)
(* For every epoch length, range and set of increments: a value is handed   *)
(* out twice only after a crash that followed an unrepaired write failure,   *)
(* or after a rollover.                                                     *)
(***************************************************************************)
EXTENDS PersistedCounter, TLAPS

\* T addition stays in T, and is plain addition unless it wraps.
LEMMA PlusType ==
    ASSUME NEW a \in Values, NEW b \in Values
    PROVE  /\ Plus(a, b) \in Values
           /\ Wraps(a, b) \in BOOLEAN
           /\ ~Wraps(a, b) => Plus(a, b) = a + b
BY EpochAssumption DEF Plus, Wraps, Values

\* CounterInv is inductive.
LEMMA CounterInvInductive == CounterInv /\ [Next]_vars => CounterInv'
<1>. USE EpochAssumption
<1>0. Epoch \in Values /\ 1 \in Values /\ Range \in Nat
  BY DEF Values
<1>1. ASSUME CounterInv, NEW start \in ReadStartValue, NEW ok \in BOOLEAN, Boot(start, ok)
      PROVE  CounterInv'
  <2>1. start \in Values
    BY <1>1, InitialAssumption DEF ReadStartValue, CounterInv, TypeOK, Values
  <2>2. Plus(start, Epoch) \in Values /\ Wraps(start, Epoch) \in BOOLEAN
        /\ (~Wraps(start, Epoch) => Plus(start, Epoch) = start + Epoch)
    BY <1>0, <2>1, PlusType
  <2>3. CASE ok
    <3>1. TypeOK'
      BY <1>1, <2>1, <2>2, <2>3 DEF CounterInv, TypeOK, Boot, PersistNextEpochStart, Use
    <3>2. /\ nextEpoch' = Plus(start, Epoch) /\ stored' = nextEpoch' /\ up' /\ value' = start
          /\ clean' /\ used' = used \cup {start} /\ (exposed' <=> exposed)
          /\ (~wrapped' => ~wrapped /\ nextEpoch' = start + Epoch)
          /\ reused' = IF start \in used THEN reused \cup {start} ELSE reused
      BY <1>1, <2>1, <2>2, <2>3 DEF Boot, PersistNextEpochStart, Use, CounterInv, TypeOK
    <3>3. ~wrapped /\ ~exposed => /\ \A v \in used : v < start
                                 /\ start \notin used
      <4>1. ~wrapped /\ ~exposed => clean
        BY <1>1 DEF CounterInv, Boot
      <4>2. CASE stored = -1
        BY <4>2, <1>1 DEF CounterInv
      <4>3. CASE stored # -1
        BY <4>1, <4>3, <1>1, <2>1 DEF CounterInv, GoodWriteHeals, ReadStartValue, TypeOK, Values
      <4>. QED BY <4>2, <4>3
    <3>4. NoReuse' /\ GoodWriteHeals'
      BY <1>1, <2>1, <3>1, <3>2, <3>3 DEF CounterInv, NoReuse, GoodWriteHeals, TypeOK, Values
    <3>5. up' /\ ~wrapped' /\ ~exposed' => value' < nextEpoch' /\ \A v \in used' : v <= value'
      BY <1>1, <2>1, <3>1, <3>2, <3>3 DEF TypeOK, Values, CounterInv
    <3>6. stored' # -1
      BY <3>2, <2>2 DEF Values
    <3>. QED BY <3>1, <3>2, <3>4, <3>5, <3>6 DEF CounterInv
  <2>4. CASE ~ok
    <3>1. /\ nextEpoch' = Plus(start, Epoch) /\ stored' = stored /\ ~up' /\ value' = value
          /\ used' = used /\ exposed' = exposed /\ reused' = reused /\ result' = "error"
          /\ failures' = failures + 1 /\ clean' = clean
          /\ wrapped' \in BOOLEAN /\ (~wrapped' => ~wrapped)
      BY <1>1, <2>2, <2>4 DEF Boot, PersistNextEpochStart, CounterInv, TypeOK
    <3>. QED BY <1>1, <2>2, <3>1 DEF CounterInv, TypeOK, GoodWriteHeals, NoReuse, Boot
  <2>. QED BY <2>3, <2>4
<1>2. ASSUME CounterInv, NEW ok \in BOOLEAN, Advance(ok) PROVE CounterInv'
  <2>. DEFINE v == Plus(value, 1)
  <2>1. v \in Values /\ (~Wraps(value, 1) => v = value + 1) /\ Wraps(value, 1) \in BOOLEAN
    BY <1>0, <1>2, PlusType DEF CounterInv, TypeOK
  <2>2. Plus(nextEpoch, Epoch) \in Values /\ Wraps(nextEpoch, Epoch) \in BOOLEAN
        /\ (~Wraps(nextEpoch, Epoch) => Plus(nextEpoch, Epoch) = nextEpoch + Epoch)
    BY <1>0, <1>2, PlusType DEF CounterInv, TypeOK
  <2>3. /\ up /\ up' /\ value' = v /\ used' = used \cup {v} /\ exposed' = exposed
        /\ reused' = IF v \in used THEN reused \cup {v} ELSE reused
    BY <1>2 DEF Advance, Use
  <2>4. ~wrapped /\ ~Wraps(value, 1) /\ ~exposed =>
           /\ v = value + 1 /\ v \notin used /\ v <= nextEpoch
           /\ \A u \in used' : u <= v
    BY <1>2, <2>1, <2>3 DEF CounterInv, TypeOK, Values
  <2>. HIDE DEF v
  <2>5. CASE v >= nextEpoch
    <3>1. /\ nextEpoch' = Plus(nextEpoch, Epoch)
          /\ clean' = ok
          /\ failures' = IF ok THEN failures ELSE failures + 1
          /\ stored' = IF ok THEN nextEpoch' ELSE stored
          /\ wrapped' = (wrapped \/ Wraps(value, 1) \/ Wraps(nextEpoch, Epoch))
          /\ result' \in {"ok", "error"}
      BY <1>2, <2>3, <2>5 DEF Advance, PersistNextEpochStart, v
    <3>2. TypeOK'
      BY <1>2, <2>1, <2>2, <2>3, <3>1 DEF CounterInv, TypeOK
    <3>3. ~wrapped' => ~wrapped /\ ~Wraps(value, 1) /\ nextEpoch' = nextEpoch + Epoch
      BY <2>2, <3>1
    <3>4. ~wrapped' /\ ~exposed' => value' < nextEpoch' /\ \A u \in used' : u <= value'
      BY <1>2, <2>1, <2>3, <2>4, <3>3 DEF CounterInv, TypeOK, Values
    <3>5. NoReuse'
      BY <1>2, <2>3, <2>4, <3>3 DEF CounterInv, NoReuse
    <3>6. GoodWriteHeals'
      BY <2>1, <2>3, <3>1, <3>2, <3>4 DEF GoodWriteHeals, TypeOK, Values
    <3>7. stored' # -1 /\ (up' /\ clean' => stored' = nextEpoch')
      BY <1>2, <2>2, <2>3, <3>1 DEF CounterInv, Values
    <3>. QED BY <2>3, <3>2, <3>4, <3>5, <3>6, <3>7 DEF CounterInv
  <2>6. CASE ~(v >= nextEpoch)
    <3>1. /\ nextEpoch' = nextEpoch /\ clean' = clean /\ failures' = failures /\ stored' = stored
          /\ wrapped' = (wrapped \/ Wraps(value, 1)) /\ result' = "ok"
      BY <1>2, <2>6 DEF Advance, NoWrite, v
    <3>2. TypeOK'
      BY <1>2, <2>1, <2>3, <3>1 DEF CounterInv, TypeOK
    <3>3. ~wrapped' /\ ~exposed' => value' < nextEpoch' /\ \A u \in used' : u <= value'
      BY <1>2, <2>1, <2>3, <2>4, <2>6, <3>1 DEF CounterInv, TypeOK, Values
    <3>4. NoReuse'
      BY <1>2, <2>3, <2>4, <3>1 DEF CounterInv, NoReuse
    <3>5. GoodWriteHeals'
      BY <1>2, <2>1, <2>3, <3>1, <3>2, <3>3 DEF CounterInv, GoodWriteHeals, TypeOK, Values
    <3>. QED BY <1>2, <2>3, <3>1, <3>2, <3>3, <3>4, <3>5 DEF CounterInv
  <2>. QED BY <2>5, <2>6
<1>3. ASSUME CounterInv, NEW n \in AdvanceSizes, NEW ok \in BOOLEAN, AdvanceBy(n, ok) PROVE CounterInv'
  <2>. DEFINE v == Plus(value, n)
  <2>0. n \in Values /\ n >= 1
    BY AdvanceAssumption DEF Values
  <2>1. v \in Values /\ (~Wraps(value, n) => v = value + n) /\ Wraps(value, n) \in BOOLEAN
    BY <2>0, <1>3, PlusType DEF CounterInv, TypeOK
  <2>2. Plus(v, Epoch) \in Values /\ Wraps(v, Epoch) \in BOOLEAN
        /\ (~Wraps(v, Epoch) => Plus(v, Epoch) = v + Epoch)
    BY <1>0, <2>1, PlusType
  <2>3. /\ up /\ up' /\ value' = v /\ used' = used \cup {v} /\ exposed' = exposed
        /\ result' = "ok"
        /\ reused' = IF v \in used THEN reused \cup {v} ELSE reused
    BY <1>3 DEF AdvanceBy, Use
  <2>4. ~wrapped /\ ~Wraps(value, n) /\ ~exposed =>
           v = value + n /\ v \notin used /\ \A u \in used' : u <= v
    BY <1>3, <2>0, <2>1, <2>3 DEF CounterInv, TypeOK, Values
  <2>5. CASE v >= nextEpoch \/ value > (Range - 1) - n
    <3>1. /\ nextEpoch' = Plus(v, Epoch)
          /\ clean' = ok
          /\ failures' = IF ok THEN failures ELSE failures + 1
          /\ stored' = IF ok THEN nextEpoch' ELSE stored
          /\ wrapped' = (wrapped \/ Wraps(value, n) \/ Wraps(v, Epoch))
      BY <1>3, <2>3, <2>5 DEF AdvanceBy, PersistNextEpochStart
    <3>. HIDE DEF v
    <3>2. TypeOK'
      BY <1>3, <2>1, <2>2, <2>3, <3>1 DEF CounterInv, TypeOK
    <3>3. ~wrapped' => ~wrapped /\ ~Wraps(value, n) /\ nextEpoch' = v + Epoch
      BY <2>2, <3>1
    <3>4. ~wrapped' /\ ~exposed' => value' < nextEpoch' /\ \A u \in used' : u <= value'
      BY <2>1, <2>3, <2>4, <3>3 DEF Values
    <3>5. NoReuse'
      BY <1>3, <2>3, <2>4, <3>3 DEF CounterInv, NoReuse
    <3>6. GoodWriteHeals'
      BY <2>1, <2>3, <3>1, <3>2, <3>4 DEF GoodWriteHeals, TypeOK, Values
    <3>7. stored' # -1 /\ (up' /\ clean' => stored' = nextEpoch')
      BY <1>3, <2>2, <2>3, <3>1 DEF CounterInv, Values
    <3>. QED BY <2>3, <3>2, <3>4, <3>5, <3>6, <3>7 DEF CounterInv
  <2>6. CASE ~(v >= nextEpoch \/ value > (Range - 1) - n)
    <3>1. /\ nextEpoch' = nextEpoch /\ clean' = clean /\ failures' = failures /\ stored' = stored
          /\ wrapped' = (wrapped \/ Wraps(value, n))
      BY <1>3, <2>6 DEF AdvanceBy, NoWrite
    <3>. HIDE DEF v
    <3>2. TypeOK'
      BY <1>3, <2>1, <2>3, <3>1 DEF CounterInv, TypeOK
    <3>3. ~wrapped' /\ ~exposed' => value' < nextEpoch' /\ \A u \in used' : u <= value'
      BY <1>3, <2>1, <2>3, <2>4, <2>6, <3>1 DEF CounterInv, TypeOK, Values
    <3>4. NoReuse'
      BY <1>3, <2>3, <2>4, <3>1 DEF CounterInv, NoReuse
    <3>5. GoodWriteHeals'
      BY <1>3, <2>1, <2>3, <3>1, <3>2, <3>3 DEF CounterInv, GoodWriteHeals, TypeOK, Values
    <3>. QED BY <1>3, <2>3, <3>1, <3>2, <3>3, <3>4, <3>5 DEF CounterInv
  <2>. QED BY <2>5, <2>6
<1>4. ASSUME CounterInv, Crash PROVE CounterInv'
  <2>0. 0 \in Values /\ exposed' \in BOOLEAN
    BY <1>4 DEF Values, Crash, CounterInv, TypeOK
  <2>1. TypeOK'
    BY <2>0, <1>4 DEF CounterInv, TypeOK, Crash
  <2>2. GoodWriteHeals' /\ NoReuse'
    BY <1>4 DEF CounterInv, TypeOK, Crash, GoodWriteHeals, NoReuse
  <2>. QED BY <1>4, <2>1, <2>2 DEF CounterInv, TypeOK, Crash
<1>5. ASSUME CounterInv, UNCHANGED vars PROVE CounterInv'
  BY <1>5 DEF vars, CounterInv, TypeOK, GoodWriteHeals, NoReuse
<1>. QED BY <1>1, <1>2, <1>3, <1>4, <1>5 DEF Next

\* CounterInv holds in every reachable state.
THEOREM CounterInvariant == Spec => []CounterInv
<1>1. Init => CounterInv
  <2>1. 0 \in Values
    BY EpochAssumption DEF Values
  <2>. SUFFICES ASSUME Init PROVE CounterInv
    OBVIOUS
  <2>2. TypeOK
    BY <2>1 DEF Init, TypeOK
  <2>3. GoodWriteHeals /\ NoReuse
    BY DEF Init, GoodWriteHeals, NoReuse
  <2>. QED BY <2>2, <2>3 DEF Init, CounterInv
<1>. QED BY <1>1, CounterInvInductive, PTL DEF Spec

\* Values never repeat across reboots, whatever the epoch and the increments,
\* unless the node crashed with an unrepaired write failure or rolled over.
THEOREM NoReuseTheorem == Spec => []NoReuse
<1>1. CounterInv => NoReuse
  BY DEF CounterInv
<1>. QED BY <1>1, CounterInvariant, PTL

\* One successful write makes good all earlier failures.
THEOREM GoodWriteHealsTheorem == Spec => []GoodWriteHeals
<1>1. CounterInv => GoodWriteHeals
  BY DEF CounterInv
<1>. QED BY <1>1, CounterInvariant, PTL
=============================================================================
