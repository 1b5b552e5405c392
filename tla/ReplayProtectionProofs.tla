----------------------- MODULE ReplayProtectionProofs -----------------------
(***************************************************************************)
(* For every size of the counter range and of the window, and every kind of *)
(* session: the window bits are exactly the accepted counters, hence no     *)
(* counter is accepted twice and none is refused by mistake.                *)
(***************************************************************************)
EXTENDS ReplayProtection, TLAPS

\* Unsigned subtraction is a counter, and is zero only for equal arguments.
LEMMA MinusType ==
    ASSUME NEW a \in Counter, NEW b \in Counter
    PROVE  /\ Minus(a, b) \in Counter
           /\ a # b => Minus(a, b) >= 1 /\ Minus(a, b) + Minus(b, a) = CounterRange
BY WindowAssumption DEF Minus, Counter, CounterRange

\* What CommitWithPosition does to a counter inside the window.
LEMMA CommitInWindow ==
    ASSUME NEW d \in PeerCounters, NEW c \in Counter, Minus(d.max, c) \in 1 .. WindowSize
    PROVE  /\ CommitWithPosition(d, "InWindow", c) \in PeerCounters
           /\ CommitWithPosition(d, "InWindow", c).status = d.status
           /\ CommitWithPosition(d, "InWindow", c).window = d.window \cup {Minus(d.max, c) - 1}
BY WindowAssumption DEF CommitWithPosition, PeerCounters

\* What CommitWithPosition does to a counter ahead of the highest one seen.
LEMMA CommitFuture ==
    ASSUME NEW d \in PeerCounters, NEW c \in Counter, Minus(c, d.max) \in Nat, Minus(c, d.max) >= 1
    PROVE  /\ CommitWithPosition(d, "FutureCounter", c) \in PeerCounters
           /\ CommitWithPosition(d, "FutureCounter", c).status = d.status
           /\ CommitWithPosition(d, "FutureCounter", c).window =
                IF Minus(c, d.max) > WindowSize THEN {}
                ELSE {b \in 0 .. WindowSize - 1 : b - Minus(c, d.max) \in d.window}
                     \cup {Minus(c, d.max) - 1}
<1>. DEFINE w == IF Minus(c, d.max) > WindowSize THEN {}
                 ELSE {b \in 0 .. WindowSize - 1 : b - Minus(c, d.max) \in d.window}
                      \cup {Minus(c, d.max) - 1}
<1>1. CommitWithPosition(d, "FutureCounter", c) = [d EXCEPT !.max = c, !.window = w]
  BY DEF CommitWithPosition
<1>2. w \subseteq 0 .. WindowSize - 1
  BY WindowAssumption
<1>. QED BY <1>1, <1>2 DEF PeerCounters

\* The heart of the argument: a counter that is accepted and recorded keeps
\* the window bits equal to the accepted counters, and was not accepted before.
LEMMA AcceptStep ==
    ASSUME ReplayInv, pc.status = "Synced", NEW c \in Counter, NEW k,
           k = IF Future(c) THEN "FutureCounter" ELSE ClassifyNonFutureCounter(pc, c),
           k = "FutureCounter" \/ (k = "InWindow" /\ ~WindowBit(pc, c)),
           pc' = CommitWithPosition(pc, k, c),
           Record(Unwrap(c)), kind' = kind
    PROVE  ReplayInv'
<1>1. pc \in PeerCounters /\ pos \in Nat /\ accepted \subseteq Int /\ WindowExact /\ replayed = {}
  BY DEF ReplayInv, TypeOK, NoReplay
<1>2. pc.max \in Counter /\ Minus(c, pc.max) \in Counter /\ Minus(pc.max, c) \in Counter
  BY WindowAssumption, <1>1, MinusType DEF PeerCounters
<1>3. k = "InWindow" => /\ ~Future(c)
                        /\ Minus(pc.max, c) \in 1 .. WindowSize
                        /\ Unwrap(c) = pos - Minus(pc.max, c)
  <2>1. k = "InWindow" => ~Future(c) /\ c # pc.max /\ Minus(pc.max, c) <= WindowSize
    BY DEF ClassifyNonFutureCounter
  <2>2. c # pc.max => Minus(pc.max, c) >= 1
    BY WindowAssumption, <1>2, MinusType
  <2>. QED BY <1>2, <2>1, <2>2, WindowAssumption DEF Unwrap, Counter, CounterRange
<1>4. k = "FutureCounter" => /\ Minus(c, pc.max) >= 1
                             /\ Unwrap(c) = pos + Minus(c, pc.max)
  <2>1. k = "FutureCounter" => Future(c)
    BY DEF ClassifyNonFutureCounter
  <2>2. Future(c) => c # pc.max
    BY <1>2, WindowAssumption
    DEF Future, ClassifyWithRollover, ClassifyWithoutRollover, ClassifyNonFutureCounter, Minus, Counter, CounterRange
  <2>. QED BY WindowAssumption, <2>1, <2>2, <1>2, MinusType DEF Unwrap
<1>5. /\ pc' \in PeerCounters
      /\ pc'.status = "Synced"
      /\ k = "InWindow" => pc'.window = pc.window \cup {Minus(pc.max, c) - 1}
      /\ k = "FutureCounter" => pc'.window =
                     IF Minus(c, pc.max) > WindowSize THEN {}
                     ELSE {b \in 0 .. WindowSize - 1 : b - Minus(c, pc.max) \in pc.window}
                          \cup {Minus(c, pc.max) - 1}
  <2>1. k \in {"MaxCounter", "InWindow", "FutureCounter", "BeforeWindow"} /\ k # "BeforeWindow"
    OBVIOUS
  <2>2. c \in Counter /\ pc \in PeerCounters
    BY <1>1
  <2>3. CASE k = "InWindow"
    BY <1>3, <2>2, <2>3, CommitInWindow
  <2>4. CASE k = "FutureCounter"
    <3>1. Minus(c, pc.max) \in Nat /\ Minus(c, pc.max) >= 1
      BY <1>2, <1>4, <2>4, WindowAssumption DEF Counter, CounterRange
    <3>2. pc' = CommitWithPosition(pc, "FutureCounter", c)
      BY <2>4
    <3>3. /\ pc' \in PeerCounters
          /\ pc'.status = "Synced"
          /\ pc'.window =
                     IF Minus(c, pc.max) > WindowSize THEN {}
                     ELSE {b \in 0 .. WindowSize - 1 : b - Minus(c, pc.max) \in pc.window}
                          \cup {Minus(c, pc.max) - 1}
      BY <3>1, <3>2, <2>2, CommitFuture
    <3>. QED BY <2>4, <3>3
  <2>. QED BY <2>3, <2>4
<1>6. CASE k = "InWindow"
  <2>1. Unwrap(c) \in Int /\ Unwrap(c) < pos /\ pos' = pos /\ accepted' = accepted \cup {Unwrap(c)}
    BY WindowAssumption, <1>1, <1>2, <1>3, <1>6 DEF Record, Counter
  <2>2. Unwrap(c) \notin accepted
    BY WindowAssumption, <1>1, <1>2, <1>3, <1>6 DEF WindowExact, WindowBit, Counter
  <2>3. WindowExact'
    BY WindowAssumption, <1>1, <1>2, <1>3, <1>5, <1>6, <2>1 DEF WindowExact, Counter
  <2>4. replayed' = {}
    BY <1>1, <2>2 DEF Record
  <2>5. pos' \in Nat /\ accepted' \subseteq Int
    BY <1>1, <2>1
  <2>. QED BY <1>5, <2>3, <2>4, <2>5 DEF ReplayInv, TypeOK, NoReplay
<1>7. CASE k = "FutureCounter"
  <2>1. Unwrap(c) \in Nat /\ Unwrap(c) \in Int /\ Unwrap(c) > pos /\ pos' = Unwrap(c) /\ accepted' = accepted \cup {Unwrap(c)}
    BY WindowAssumption, <1>1, <1>2, <1>4, <1>7 DEF Record, Counter
  <2>2. Unwrap(c) \notin accepted
    BY WindowAssumption, <1>1, <2>1 DEF WindowExact
  <2>3. WindowExact'
    <3>1. pos' \in accepted' /\ \A p \in accepted' : p <= pos'
      BY WindowAssumption, <1>1, <2>1 DEF WindowExact
    <3>2. ASSUME NEW b \in 0 .. WindowSize - 1
          PROVE  b \in pc'.window <=> (pos' - 1 - b) \in accepted'
      <4>. DEFINE s == Minus(c, pc.max)
      <4>1. s \in Nat /\ s >= 1 /\ pos' = pos + s /\ pos' - 1 - b # pos'
        BY WindowAssumption, <1>1, <1>2, <1>4, <1>7, <2>1 DEF Counter
      <4>2. (pos' - 1 - b) \in accepted' <=> (pos + s - 1 - b) \in accepted
        BY WindowAssumption, <4>1, <2>1, <1>1
      <4>3. CASE b < s - 1
        <5>1. (pos + s - 1 - b) \notin accepted
          BY WindowAssumption, <4>1, <4>3, <1>1 DEF WindowExact
        <5>2. b \notin pc'.window
          BY WindowAssumption, <4>1, <4>3, <1>5, <1>7, <1>1 DEF PeerCounters
        <5>. QED BY WindowAssumption, <4>2, <5>1, <5>2
      <4>4. CASE b = s - 1
        <5>1. (pos + s - 1 - b) \in accepted
          BY WindowAssumption, <4>1, <4>4, <1>1 DEF WindowExact
        <5>2. b \in pc'.window
          BY WindowAssumption, <4>1, <4>4, <1>5, <1>7
        <5>. QED BY WindowAssumption, <4>2, <5>1, <5>2
      <4>5. CASE b > s - 1
        <5>1. b - s \in 0 .. WindowSize - 1 /\ pos + s - 1 - b = pos - 1 - (b - s) /\ ~(s > WindowSize)
          BY WindowAssumption, <4>1, <4>5, <1>1
        <5>2. (pos + s - 1 - b) \in accepted <=> b - s \in pc.window
          BY WindowAssumption, <5>1, <1>1 DEF WindowExact
        <5>3. b \in pc'.window <=> b - s \in pc.window
          BY WindowAssumption, <4>1, <4>5, <5>1, <1>5, <1>7
        <5>. QED BY WindowAssumption, <4>2, <5>2, <5>3
      <4>. QED BY WindowAssumption, <4>1, <4>3, <4>4, <4>5
    <3>. QED BY WindowAssumption, <3>1, <3>2 DEF WindowExact
  <2>4. replayed' = {}
    BY <1>1, <2>2 DEF Record
  <2>5. pos' \in Nat /\ accepted' \subseteq Int
    BY <1>1, <2>1
  <2>. QED BY <1>5, <2>3, <2>4, <2>5 DEF ReplayInv, TypeOK, NoReplay
<1>. QED BY <1>6, <1>7

\* A synchronisation starts from a window in which only the trusted counter
\* has been accepted.
LEMMA ResyncStep ==
    ASSUME ReplayInv, NEW c \in Counter, ReceiveAndResync(c), kind' = kind
    PROVE  ReplayInv'
<1>1. pc \in PeerCounters /\ replayed = {} /\ c \in Nat /\ kind # "unicast"
  BY WindowAssumption DEF ReplayInv, TypeOK, NoReplay, Counter, CounterRange, ReceiveAndResync
<1>2. pc'.status = "Synced" /\ pc' \in PeerCounters /\ pc'.window = {}
  <2>1. CASE pc.status = "NotSynced"
    <3>1. TrustFirst(pc, c) = SetCounter(c)
      BY <2>1 DEF TrustFirst
    <3>2. ClassifyWithRollover(SetCounter(c), c) = "MaxCounter"
      BY <1>1, WindowAssumption
      DEF ClassifyWithRollover, ClassifyNonFutureCounter, SetCounter, Minus
    <3>3. pc' = SetCounter(c)
      BY <3>1, <3>2 DEF ReceiveAndResync, CommitWithRollover, CommitWithPosition
    <3>. QED BY <3>3 DEF SetCounter, PeerCounters
  <2>2. CASE pc.status = "Synced"
    <3>1. TrustFirst(pc, c) = pc /\ ClassifyWithRollover(pc, c) = "BeforeWindow"
      BY <2>2 DEF TrustFirst, ReceiveAndResync
    <3>2. pc.max \in Counter
      BY <1>1 DEF PeerCounters
    <3>3. Minus(c, pc.max) > WindowSize
      BY <3>1, <3>2, WindowAssumption
      DEF ClassifyWithRollover, ClassifyNonFutureCounter, Minus, Counter, CounterRange
    <3>4. pc' = [pc EXCEPT !.max = c, !.window = {}]
      BY <3>1, <3>3 DEF ReceiveAndResync, CommitWithRollover, CommitWithPosition
    <3>. QED BY <1>1, <2>2, <3>4 DEF PeerCounters
  <2>. QED BY <1>1, <2>1, <2>2 DEF PeerCounters
<1>3. pos' = c /\ accepted' = {c} /\ replayed' = {}
  BY <1>1 DEF ReceiveAndResync
<1>4. WindowExact'
  BY <1>1, <1>2, <1>3, WindowAssumption DEF WindowExact
<1>. QED BY <1>1, <1>2, <1>3, <1>4 DEF ReplayInv, TypeOK, NoReplay

\* ReplayInv is inductive.
LEMMA ReplayInvInductive == ReplayInv /\ [Next]_vars => ReplayInv'
<1>1. ASSUME ReplayInv, NEW c \in Counter, ReceiveUnicast(c), kind' = kind PROVE ReplayInv'
  <2>1. pc.status = "Synced" /\ kind = "unicast"
    BY <1>1 DEF ReplayInv, TypeOK, PeerCounters, ReceiveUnicast
  <2>2. ClassifyWithoutRollover(pc, c) = IF Future(c) THEN "FutureCounter" ELSE ClassifyNonFutureCounter(pc, c)
    BY <2>1 DEF ClassifyWithoutRollover, ClassifyNonFutureCounter, Future
  <2>. QED BY <1>1, <2>1, <2>2, AcceptStep
           DEF ReceiveUnicast, VerifyEncryptedUnicast, CommitEncryptedUnicast, VerifyPositionEncrypted
<1>2. ASSUME ReplayInv, NEW c \in Counter, ReceiveGroup(c), kind' = kind PROVE ReplayInv'
  <2>1. pc.status = "Synced" /\ kind = "group" /\ TrustFirst(pc, c) = pc
    BY <1>2 DEF ReceiveGroup, TrustFirst
  <2>2. ClassifyWithRollover(pc, c) = IF Future(c) THEN "FutureCounter" ELSE ClassifyNonFutureCounter(pc, c)
    BY <2>1 DEF ClassifyWithRollover, ClassifyNonFutureCounter, Future
  <2>. QED BY <1>2, <2>1, <2>2, AcceptStep
           DEF ReceiveGroup, VerifyOrTrustFirstGroup, VerifyGroup, CommitGroup, CommitWithRollover,
               VerifyPositionEncrypted
<1>3. ASSUME ReplayInv, NEW c \in Counter, ReceiveUnencrypted(c), kind' = kind PROVE ReplayInv'
  <2>1. pc.status = "Synced" /\ kind = "unencrypted" /\ TrustFirst(pc, c) = pc
    BY <1>3 DEF ReceiveUnencrypted, TrustFirst
  <2>2. ClassifyWithRollover(pc, c) = IF Future(c) THEN "FutureCounter" ELSE ClassifyNonFutureCounter(pc, c)
    BY <2>1 DEF ClassifyWithRollover, ClassifyNonFutureCounter, Future
  <2>. QED BY <1>3, <2>1, <2>2, AcceptStep
           DEF ReceiveUnencrypted, VerifyUnencrypted, CommitUnencrypted, CommitWithRollover,
               VerifyPositionUnencrypted
<1>4. ASSUME ReplayInv, NEW c \in Counter, ReceiveAndResync(c), kind' = kind PROVE ReplayInv'
  BY <1>4, ResyncStep
<1>5. ASSUME ReplayInv, UNCHANGED vars PROVE ReplayInv'
  BY <1>5 DEF vars, ReplayInv, TypeOK, WindowExact, NoReplay
<1>. QED BY <1>1, <1>2, <1>3, <1>4, <1>5 DEF Next, ReceiveDuplicate

\* The inductive invariant implies that a refused counter was accepted before
\* or lies before the window.
LEMMA InvImpliesNoFalseDuplicate == ReplayInv => NoFalseDuplicate
<1>. SUFFICES ASSUME ReplayInv, pc.status = "Synced", NEW c \in Counter, ~Verified(c)
              PROVE  \/ Unwrap(c) \in accepted
                     \/ kind # "unencrypted" /\ pos - Unwrap(c) > WindowSize
  BY DEF NoFalseDuplicate
<1>1. pc.max \in Counter /\ pos \in Nat /\ WindowExact
  BY DEF ReplayInv, TypeOK, PeerCounters
<1>2. Minus(pc.max, c) \in Counter /\ (c # pc.max => Minus(pc.max, c) >= 1)
  BY <1>1, MinusType
<1>3. ~Future(c)
  BY DEF ReplayInv, TypeOK, Kinds, Future, Verified, VerifyEncryptedUnicast, VerifyOrTrustFirstGroup, VerifyGroup, VerifyUnencrypted,
      VerifyPositionEncrypted, VerifyPositionUnencrypted, ClassifyWithoutRollover, ClassifyWithRollover
<1>4. Unwrap(c) = pos - Minus(pc.max, c)
  BY <1>3 DEF Unwrap
<1>5. CASE c = pc.max
  <2>1. Minus(pc.max, c) = 0
    BY <1>1, <1>5, WindowAssumption DEF Minus, Counter, CounterRange
  <2>. QED BY <1>1, <1>4, <2>1 DEF WindowExact
<1>6. CASE c # pc.max /\ Minus(pc.max, c) <= WindowSize
  <2>1. WindowBit(pc, c)
    BY <1>3, <1>6
    DEF ReplayInv, TypeOK, Kinds, Future, Verified, VerifyEncryptedUnicast, VerifyOrTrustFirstGroup, VerifyGroup, VerifyUnencrypted,
        VerifyPositionEncrypted, VerifyPositionUnencrypted, ClassifyWithoutRollover,
        ClassifyWithRollover, ClassifyNonFutureCounter
  <2>2. Minus(pc.max, c) - 1 \in 0 .. WindowSize - 1
    BY <1>2, <1>6, WindowAssumption DEF Counter, CounterRange
  <2>. QED BY <1>1, <1>2, <1>4, <2>1, <2>2, WindowAssumption DEF WindowExact, WindowBit, Counter, CounterRange
<1>7. CASE c # pc.max /\ Minus(pc.max, c) > WindowSize
  <2>1. ASSUME kind = "unencrypted" PROVE FALSE
    <3>1. ClassifyWithRollover(pc, c) = ClassifyNonFutureCounter(pc, c)
      BY <1>3, <2>1 DEF Future, ClassifyWithRollover
    <3>2. ClassifyNonFutureCounter(pc, c) = "BeforeWindow"
      BY <1>2, <1>7, WindowAssumption DEF ClassifyNonFutureCounter, Counter, CounterRange
    <3>. QED BY <2>1, <3>1, <3>2 DEF Verified, VerifyUnencrypted, VerifyPositionUnencrypted
  <2>. QED BY <1>1, <1>2, <1>4, <1>7, <2>1, WindowAssumption DEF Counter, CounterRange
<1>. QED BY <1>2, <1>5, <1>6, <1>7, WindowAssumption DEF Counter, CounterRange

\* The window of a session is exact in every reachable state, for every counter
\* width and window size.
THEOREM WindowIsExact == Spec => []ReplayInv
<1>1. Init => ReplayInv
  BY WindowAssumption
  DEF Kinds, Init, ReplayInv, TypeOK, WindowExact, NoReplay, SetCounter, Reset, InitialSyncValue,
      PeerCounters, Counter, CounterRange
<1>. QED BY <1>1, ReplayInvInductive, PTL DEF Spec

\* No message counter is accepted twice since the last synchronisation, on
\* unicast, group and unencrypted sessions.
THEOREM NoReplayTheorem == Spec => []NoReplay
<1>1. ReplayInv => NoReplay
  BY DEF ReplayInv
<1>. QED BY <1>1, WindowIsExact, PTL

\* No counter inside the window is refused unless it was accepted before.
THEOREM NoFalseDuplicateTheorem == Spec => []NoFalseDuplicate
BY InvImpliesNoFalseDuplicate, WindowIsExact, PTL
=============================================================================
