-------------------------- MODULE PersistedCounter --------------------------
(***************************************************************************)
(* A counter whose values must not repeat across reboots                    *)
(* (chip::PersistedCounter): event numbers and ICD check-in counters.  To    *)
(* spare the flash, only the start of the next epoch is written; a reboot    *)
(* resumes from there.  Any write may fail and the node may crash between    *)
(* any two calls.                                                           *)
(***************************************************************************)
EXTENDS Integers, FiniteSets

CONSTANTS
    Epoch,          \* mEpoch
    Range,          \* 2^32 or 2^64: the values of T
    InitialValues,  \* what GetInitialCounterValue may return
    AdvanceSizes,   \* the arguments AdvanceBy is called with
    MaxUsed,        \* bound: how many values a run uses
    MaxFailures     \* bound: how many writes fail

ASSUME EpochAssumption == Epoch \in Nat \ {0} /\ Range \in Nat /\ Epoch < Range
ASSUME InitialAssumption == InitialValues \subseteq 0 .. Range - 1
ASSUME AdvanceAssumption == AdvanceSizes \subseteq 1 .. Range - 1
ASSUME BoundAssumption == MaxUsed \in Nat /\ MaxFailures \in Nat

VARIABLES
    up,         \* Init() has succeeded since the last reboot
    value,      \* mCounterValue
    nextEpoch,  \* mNextEpoch
    stored,     \* the persisted epoch start, -1 when the key does not exist
    result,     \* what the last call returned
    (* History: *)
    used,       \* the values the counter has held when a call returned
    reused,     \* the values that were held again after a reboot
    failures,   \* how many writes have failed
    clean,      \* no write has failed, or one has succeeded since
    exposed,    \* the node has crashed while not clean
    wrapped     \* an addition has rolled over

vars == <<up, value, nextEpoch, stored, result, used, reused, failures, clean, exposed, wrapped>>

Values == 0 .. Range - 1

\* T addition.
Plus(a, b) == IF a + b < Range THEN a + b ELSE a + b - Range
Wraps(a, b) == a + b >= Range

Init ==
    /\ up = FALSE /\ value = 0 /\ nextEpoch = 0 /\ stored = -1 /\ result = "none"
    /\ used = {} /\ reused = {} /\ failures = 0 /\ clean = TRUE
    /\ exposed = FALSE /\ wrapped = FALSE

\* History: a call returns with the counter at v.
Use(v) ==
    /\ Cardinality(used) <= MaxUsed
    /\ used' = used \cup {v}
    /\ reused' = IF v \in used THEN reused \cup {v} ELSE reused

\* mutant: the epoch that starts now is persisted, not the next one
PersistNextEpochStartLate(start, ok) ==
    /\ nextEpoch' = start
    /\ ok \/ failures < MaxFailures
    /\ clean' = (ok \/ (clean /\ ~up))
    /\ failures' = IF ok THEN failures ELSE failures + 1
    /\ stored' = IF ok THEN (IF stored = -1 THEN start ELSE stored) ELSE stored

\* PersistNextEpochStart: the field changes before the write is attempted.
PersistNextEpochStart(start, ok) ==
    /\ nextEpoch' = start
    /\ ok \/ failures < MaxFailures
    /\ clean' = (ok \/ (clean /\ ~up))
    /\ failures' = IF ok THEN failures ELSE failures + 1
    /\ stored' = IF ok THEN start ELSE stored

NoWrite == UNCHANGED <<nextEpoch, stored, failures, clean>>

\* Init(): on a failed write the counter stays unusable.
ReadStartValue == IF stored = -1 THEN InitialValues ELSE {stored}

Boot(start, ok) ==
    /\ ~up
    /\ PersistNextEpochStart(Plus(start, Epoch), ok)
    /\ wrapped' = (wrapped \/ Wraps(start, Epoch))
    /\ IF ok
       THEN /\ up' = TRUE /\ value' = start /\ result' = "ok"
            /\ Use(start)
       ELSE result' = "error" /\ UNCHANGED <<up, value, used, reused>>
    /\ UNCHANGED exposed

\* Advance(): the value moves whether or not the write succeeds.
Advance(ok) ==
    LET v == Plus(value, 1)
        crosses == v >= nextEpoch
    IN  /\ up
        /\ value' = v /\ Use(v)
        /\ IF crosses
           THEN /\ PersistNextEpochStart(Plus(nextEpoch, Epoch), ok)
                /\ wrapped' = (wrapped \/ Wraps(value, 1) \/ Wraps(nextEpoch, Epoch))
                /\ result' = IF ok /\ Plus(v, Epoch) = nextEpoch' THEN "ok" ELSE "error"
           ELSE ok /\ NoWrite /\ wrapped' = (wrapped \/ Wraps(value, 1)) /\ result' = "ok"
        /\ UNCHANGED <<up, exposed>>

\* AdvanceBy(): the next epoch is counted from the new value, and the result
\* of the write is dropped.
AdvanceBy(n, ok) ==
    LET v == Plus(value, n)
        crosses == v >= nextEpoch \/ value > (Range - 1) - n
    IN  /\ up
        /\ value' = v /\ Use(v)
        /\ IF crosses
           THEN /\ PersistNextEpochStart(Plus(v, Epoch), ok)
                /\ wrapped' = (wrapped \/ Wraps(value, n) \/ Wraps(v, Epoch))
           ELSE ok /\ NoWrite /\ wrapped' = (wrapped \/ Wraps(value, n))
        /\ result' = "ok"
        /\ UNCHANGED <<up, exposed>>

\* The node restarts: everything in memory is lost.
Crash ==
    /\ up' = FALSE /\ value' = 0 /\ nextEpoch' = 0 /\ result' = "none"
    /\ exposed' = (exposed \/ ~clean)
    /\ UNCHANGED <<stored, used, reused, failures, clean, wrapped>>

Next ==
    \/ \E start \in ReadStartValue, ok \in BOOLEAN : Boot(start, ok)
    \/ \E ok \in BOOLEAN : Advance(ok)
    \/ \E n \in AdvanceSizes, ok \in BOOLEAN : AdvanceBy(n, ok)
    \/ Crash

Spec == Init /\ [][Next]_vars

-----------------------------------------------------------------------------
TypeOK ==
    /\ up \in BOOLEAN /\ clean \in BOOLEAN /\ exposed \in BOOLEAN /\ wrapped \in BOOLEAN
    /\ value \in Values /\ nextEpoch \in Values
    /\ stored \in Values \cup {-1}
    /\ result \in {"none", "ok", "error"}
    /\ used \subseteq Values /\ reused \subseteq Values
    /\ failures \in Nat

\* A value handed out before a reboot is never handed out again, unless the
\* node crashed after a failed write and before the next successful one, or
\* the counter rolled over (PersistedCounter::Init, Advance, AdvanceBy).
NoReuse == ~exposed /\ ~wrapped => reused = {}

\* A failed write is repaired by the next one that succeeds: a reboot would
\* then resume above every value handed out so far.
GoodWriteHeals == clean /\ ~exposed /\ ~wrapped => \A v \in used : v < stored

\* Rolling over is allowed (T wraps, and Advance then moves the persisted start
\* by an epoch on every call until the value has wrapped too), but no value
\* comes back before the steps taken, of an epoch or of AdvanceBy, make up the
\* whole range.
LargestStep == CHOOSE n \in AdvanceSizes \cup {Epoch} : \A m \in AdvanceSizes \cup {Epoch} : m <= n

NoQuickReuse ==
    ~exposed /\ (Cardinality(used) + Epoch) * LargestStep <= Range => reused = {}

\* The strengthening that makes NoReuse inductive.
CounterInv ==
    /\ TypeOK
    /\ stored = -1 => used = {} /\ ~up /\ clean
    /\ up /\ ~wrapped /\ ~exposed => value < nextEpoch /\ \A v \in used : v <= value
    /\ up /\ clean => stored = nextEpoch
    /\ ~up /\ ~clean => exposed
    /\ GoodWriteHeals
    /\ NoReuse
=============================================================================
