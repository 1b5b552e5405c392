-------------------------- MODULE ReplayProtection --------------------------
(***************************************************************************)
(* One receiving session and its replay window: the part of                 *)
(* SessionManager's three dispatch functions that decides whether a packet  *)
(* is new.  Decryption has succeeded; the network delivers any counter at    *)
(* any time, so loss, duplication, reordering and replay are all included.  *)
(*                                                                          *)
(* kind is the kind of session: "unicast" (secure unicast session),         *)
(* "group" (one sender of group messages, trust-first policy) or            *)
(* "unencrypted" (unauthenticated session).                                 *)
(***************************************************************************)
EXTENDS PeerMessageCounter

CONSTANT MaxPos    \* bound: the unwrapped counter

ASSUME MaxPosAssumption == MaxPos \in Nat

VARIABLES
    kind,       \* the kind of session, which never changes
    pc,         \* the session's PeerMessageCounter
    (* History of the run, not state of the code:                          *)
    pos,        \* pc.max unwrapped to an integer that never rolls over
    accepted,   \* unwrapped counters accepted since the counter was synced
    replayed    \* unwrapped counters that were accepted a second time

vars == <<kind, pc, pos, accepted, replayed>>

Kinds == {"unicast", "group", "unencrypted"}

Init ==
    /\ kind \in Kinds
    /\ pc = IF kind = "unicast" THEN SetCounter(InitialSyncValue) ELSE Reset
    /\ pos = 0
    /\ accepted = IF kind = "unicast" THEN {0} ELSE {}
    /\ replayed = {}

\* Whether the session takes c for a counter ahead of all it has seen.
Future(c) ==
    "FutureCounter" = IF kind = "unicast" THEN ClassifyWithoutRollover(pc, c)
                      ELSE ClassifyWithRollover(pc, c)

\* The integer that the session takes wire counter c to stand for.
Unwrap(c) == IF Future(c) THEN pos + Minus(c, pc.max) ELSE pos - Minus(pc.max, c)

\* Record an accepted unwrapped counter.
Record(p) ==
    /\ accepted' = accepted \cup {p}
    /\ replayed' = IF p \in accepted THEN replayed \cup {p} ELSE replayed
    /\ pos' = IF p > pos THEN p ELSE pos

\* SecureUnicastMessageDispatch: verify, and commit unless a duplicate.
ReceiveUnicast(c) ==
    /\ kind = "unicast"
    /\ VerifyEncryptedUnicast(pc, c)
    /\ Unwrap(c) <= MaxPos
    /\ pc' = CommitEncryptedUnicast(pc, c)
    /\ Record(Unwrap(c))

\* SecureGroupMessageDispatch on a synchronised counter.
ReceiveGroup(c) ==
    /\ kind = "group"
    /\ pc.status = "Synced"
    /\ VerifyOrTrustFirstGroup(pc, c)
    /\ Unwrap(c) <= MaxPos
    /\ pc' = CommitGroup(TrustFirst(pc, c), c)
    /\ Record(Unwrap(c))

\* UnauthenticatedMessageDispatch on a synchronised counter, when c is not
\* from before the window.
ReceiveUnencrypted(c) ==
    /\ kind = "unencrypted"
    /\ pc.status = "Synced"
    /\ ClassifyWithRollover(pc, c) # "BeforeWindow"
    /\ VerifyUnencrypted(pc, c)
    /\ Unwrap(c) <= MaxPos
    /\ pc' = CommitUnencrypted(TrustFirst(pc, c), c)
    /\ Record(Unwrap(c))

\* The first packet of a peer, or a packet from before the window of an
\* unencrypted session: c is taken on trust and the window starts afresh.
ReceiveAndResync(c) ==
    /\ \/ kind = "group" /\ pc.status = "NotSynced" /\ VerifyOrTrustFirstGroup(pc, c)
       \/ /\ kind = "unencrypted"
          /\ pc.status = "NotSynced" \/ ClassifyWithRollover(pc, c) = "BeforeWindow"
          /\ VerifyUnencrypted(pc, c)
    /\ pc' = CommitWithRollover(TrustFirst(pc, c), c)
    /\ pos' = c
    /\ accepted' = {c}
    /\ UNCHANGED replayed

Verified(c) ==
    CASE kind = "unicast" -> VerifyEncryptedUnicast(pc, c)
      [] kind = "group" -> VerifyOrTrustFirstGroup(pc, c)
      [] kind = "unencrypted" -> VerifyUnencrypted(pc, c)

\* A duplicate changes nothing here: it is dropped, or passed on flagged as a
\* duplicate so that it can be acknowledged again.
ReceiveDuplicate(c) == ~Verified(c) /\ UNCHANGED vars

Next ==
    /\ \E c \in Counter :
        \/ ReceiveUnicast(c)
        \/ ReceiveGroup(c)
        \/ ReceiveUnencrypted(c)
        \/ ReceiveAndResync(c)
        \/ ReceiveDuplicate(c)
    /\ UNCHANGED kind

Spec == Init /\ [][Next]_vars

-----------------------------------------------------------------------------
TypeOK ==
    /\ kind \in Kinds
    /\ pc \in PeerCounters
    /\ pos \in Nat
    /\ accepted \subseteq Int
    /\ replayed \subseteq Int

\* No packet is handed to the exchange layer as new twice: since the counter
\* was last synchronised, no unwrapped counter passed verification a second
\* time, whatever the order and the gaps in which packets arrived
\* (VerifyPositionEncrypted, VerifyPositionUnencrypted, CommitWithPosition).
NoReplay == replayed = {}

\* No packet is lost to the window by mistake: a counter that is reported as a
\* duplicate was accepted before, or lies before the window.
NoFalseDuplicate ==
    pc.status = "Synced" =>
        \A c \in Counter :
            ~Verified(c) => \/ Unwrap(c) \in accepted
                            \/ kind # "unencrypted" /\ pos - Unwrap(c) > WindowSize

\* The same 32-bit wire counter is accepted again only after the sender has
\* moved at least half of the counter range past its first use, so that a
\* recorded group message stays a duplicate until then (ClassifyWithRollover).
ReuseNeedsHalfRange ==
    [][ \A p \in accepted, q \in accepted' \ accepted :
            pos' >= pos /\ p \in accepted' /\ p < q /\ q % CounterRange = p % CounterRange
                => pos >= p + HalfRange + 1 ]_vars

-----------------------------------------------------------------------------
(* The inductive invariant: the window bits are exactly the accepted        *)
(* counters below the maximum.                                              *)
WindowExact ==
    pc.status = "Synced" =>
        /\ pos \in accepted
        /\ \A p \in accepted : p <= pos
        /\ \A b \in 0 .. WindowSize - 1 : b \in pc.window <=> (pos - 1 - b) \in accepted

ReplayInv ==
    /\ TypeOK
    /\ WindowExact
    /\ pc.status = "NotSynced" => accepted = {} /\ kind # "unicast"
    /\ NoReplay
=============================================================================
