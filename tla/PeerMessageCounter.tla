------------------------- MODULE PeerMessageCounter -------------------------
(***************************************************************************)
(* The replay window that every receiving session keeps for its peer       *)
(* (class chip::Transport::PeerMessageCounter).  The module holds only the  *)
(* pure operations; the modules that own a counter extend it.               *)
(*                                                                          *)
(* A counter is a record: its status, the highest counter seen, and the     *)
(* bitset mWindow as the set of its bit numbers that are set.  Bit b stands  *)
(* for the wire counter max - 1 - b.                                        *)
(***************************************************************************)
EXTENDS Integers

CONSTANTS
    HalfRange,      \* 2^31 in the code: half of the range of a uint32_t
    WindowSize      \* CHIP_CONFIG_MESSAGE_COUNTER_WINDOW_SIZE

ASSUME WindowAssumption ==
    /\ HalfRange \in Nat
    /\ WindowSize \in Nat \ {0}
    /\ WindowSize < HalfRange

\* Wire counters are unsigned integers modulo 2 * HalfRange.
CounterRange == 2 * HalfRange
Counter == 0 .. CounterRange - 1

\* Subtraction of two uint32_t values.
Minus(a, b) == IF a >= b THEN a - b ELSE a - b + CounterRange

PeerCounters ==
    [status : {"NotSynced", "Synced"}, max : Counter, window : SUBSET (0 .. WindowSize - 1)]

\* The constructor and Reset(): no state is associated.
Reset == [status |-> "NotSynced", max |-> 0, window |-> {}]

\* kInitialSyncValue, what a secure session starts from.
InitialSyncValue == 0

SetCounter(value) == [status |-> "Synced", max |-> value, window |-> {}]

(***************************************************************************)
(* Where a counter lies with respect to the highest one seen.               *)
(***************************************************************************)
ClassifyNonFutureCounter(pc, c) ==
    IF c = pc.max THEN "MaxCounter"
    ELSE IF Minus(pc.max, c) <= WindowSize THEN "InWindow"
    ELSE "BeforeWindow"

ClassifyWithoutRollover(pc, c) ==
    IF c > pc.max THEN "FutureCounter" ELSE ClassifyNonFutureCounter(pc, c)

\* mutant: the future window is too wide
ClassifyWithRolloverWide(pc, c) ==
    IF Minus(c, pc.max) \in 1 .. HalfRange + WindowSize THEN "FutureCounter"
    ELSE ClassifyNonFutureCounter(pc, c)

ClassifyWithRollover(pc, c) ==
    IF Minus(c, pc.max) \in 1 .. HalfRange - 1 THEN "FutureCounter"
    ELSE ClassifyNonFutureCounter(pc, c)

(***************************************************************************)
(* Verification: TRUE is CHIP_NO_ERROR, FALSE is                            *)
(* CHIP_ERROR_DUPLICATE_MESSAGE_RECEIVED.                                   *)
(***************************************************************************)
WindowBit(pc, c) == (Minus(pc.max, c) - 1) \in pc.window

VerifyPositionEncrypted(pc, position, c) ==
    \/ position = "FutureCounter"
    \/ position = "InWindow" /\ ~WindowBit(pc, c)

\* A counter from before the window is accepted here: the peer may have
\* restarted from a new random value.
VerifyPositionUnencrypted(pc, position, c) ==
    \/ position \in {"FutureCounter", "BeforeWindow"}
    \/ position = "InWindow" /\ ~WindowBit(pc, c)

(***************************************************************************)
(* Commit of an accepted counter.                                           *)
(***************************************************************************)
\* mutant: the bit of the previous maximum is not set after the shift
CommitWithPositionNoBit(pc, position, c) ==
    LET shift == Minus(c, pc.max)
    IN  CASE position = "MaxCounter" -> pc
          [] position = "InWindow" ->
               [pc EXCEPT !.window = @ \cup {Minus(pc.max, c) - 1}]
          [] position \in {"FutureCounter", "BeforeWindow"} ->
               [pc EXCEPT !.max = c,
                          !.window = {b \in 0 .. WindowSize - 1 : b - shift \in @}]

\* mutant: the skipped counters are marked as seen too
CommitWithPositionMarksGap(pc, position, c) ==
    LET shift == Minus(c, pc.max)
        shifted == {b \in 0 .. WindowSize - 1 : b - shift \in pc.window}
    IN  CASE position = "MaxCounter" -> pc
          [] position = "InWindow" ->
               [pc EXCEPT !.window = @ \cup {Minus(pc.max, c) - 1}]
          [] position \in {"FutureCounter", "BeforeWindow"} ->
               [pc EXCEPT !.max = c,
                          !.window = IF shift > WindowSize THEN {}
                                     ELSE shifted \cup (0 .. shift - 1)]

CommitWithPosition(pc, position, c) ==
    LET shift == Minus(c, pc.max)
        shifted == {b \in 0 .. WindowSize - 1 : b - shift \in pc.window}
    IN  CASE position = "MaxCounter" -> pc
          [] position = "InWindow" ->
               [pc EXCEPT !.window = @ \cup {Minus(pc.max, c) - 1}]
          [] position \in {"FutureCounter", "BeforeWindow"} ->
               [pc EXCEPT !.max = c,
                          !.window = IF shift > WindowSize THEN {}
                                     ELSE shifted \cup {shift - 1}]

(***************************************************************************)
(* The three uses a session makes of its counter.                           *)
(***************************************************************************)
VerifyEncryptedUnicast(pc, c) ==
    VerifyPositionEncrypted(pc, ClassifyWithoutRollover(pc, c), c)

CommitEncryptedUnicast(pc, c) ==
    CommitWithPosition(pc, ClassifyWithoutRollover(pc, c), c)

VerifyGroup(pc, c) ==
    VerifyPositionEncrypted(pc, ClassifyWithRollover(pc, c), c)

\* VerifyOrTrustFirstGroup and VerifyUnencrypted overwrite an unsynced counter
\* by the value they are asked about, and then accept it.
TrustFirst(pc, c) == IF pc.status = "NotSynced" THEN SetCounter(c) ELSE pc

VerifyOrTrustFirstGroup(pc, c) == pc.status = "NotSynced" \/ VerifyGroup(pc, c)

VerifyUnencrypted(pc, c) ==
    \/ pc.status = "NotSynced"
    \/ VerifyPositionUnencrypted(pc, ClassifyWithRollover(pc, c), c)

CommitWithRollover(pc, c) ==
    CommitWithPosition(pc, ClassifyWithRollover(pc, c), c)

CommitGroup(pc, c) == CommitWithRollover(pc, c)
CommitUnencrypted(pc, c) == CommitWithRollover(pc, c)
=============================================================================
