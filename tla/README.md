# A TLA+ model of the Matter SDK

This directory holds TLA+ specifications of parts of the Matter SDK (`src/` of
this repository): what keeps a Matter device correct when packets are lost and
repeated, when storage fails, when the power goes away, and when timers, commands
and peers come in an order nobody expected. Every definition is
translated from the C++ source; `PROJECT.json` names, for each definition, the
lines it stands for, and lists runs, mutants, hazards, findings and theorems.

    tlc -workers 2 -config Fabric_commit.cfg FabricTable    # one run
    tlapm ReplayProtectionProofs.tla                        # one set of proofs

## The system

A Matter node is a single-threaded event loop. Packets, timers, posted events
and scheduled work are handled one at a time; a handler runs to its end, unless
the power fails. What interleaves is therefore handlers with each other, nodes
with each other through the network, and all of them with power and storage
failures. Background cryptography in CASE is the one exception.

| Component | State it keeps | Operations | Talks to | What is hard |
|---|---|---|---|---|
| Peer message counter (`transport/PeerMessageCounter.h`) | largest counter, bitmap of those before it | verify, commit, trust first, resync | called by the session manager for each packet | order, rollover at 2^32, window edge |
| Session manager, secure sessions (`transport/`) | sessions: establishing, active, defunct, pending eviction | encrypt/send, decrypt/dispatch, evict | exchanges below, transports above | release while in use |
| Exchanges (`messaging/ExchangeContext.cpp`, `ExchangeMgr.cpp`) | flags, reference count, response timer, a pool | open, send, receive, close, abort, response timeout | application delegates, MRP | who owns the last reference; session release |
| MRP (`messaging/Reliable*.cpp`) | retransmission table, pending ack | retransmit, give up, ack, flush | exchanges, transport | duplicates, ack of an older message, timer races |
| Persisted counter (`lib/support/PersistedCounter.h`) | value, next epoch, stored start | init, advance, advance by | event numbers, ICD check-in counters | crash, failed write, rollover |
| Fabric table (`credentials/FabricTable.cpp`) | fabrics, pending addition or update, next index, commit marker | add root, add/update NOC, commit, revert, delete, label | certificate store, keystore, storage, fail-safe | crash between writes, partial failure |
| Fail-safe (`app/FailSafeContext.cpp`) | armed, busy, NOC invoked, fabric | arm, expire, clean up, disarm | event loop, fabric table | expiry between commands, lost event |
| Commissioning clusters (`app/clusters/...`) | none of their own | the commands of commissioning | fail-safe, fabric table | commands of several administrators |
| CASE, PASE (`protocols/secure_channel/`) | handshake state, background work | sigma messages, resumption | exchanges, fabric table | results for a session that moved on |
| Commissioning window (`app/server/CommissioningWindowManager.cpp`) | window, failed attempts, listening, the PASE session it took | open, revoke, time out, restart | PASE, fail-safe, platform events | a busy fail-safe, events that come after the window closed |
| Reads and subscriptions (`app/ReadHandler.cpp`, `app/reporting/`) | handlers, dirty set, generations, report timers | read, subscribe, report in chunks, mark dirty | exchanges, attribute storage | changes between chunks, a full dirty set, report timing |
| Commands and writes (`app/CommandHandler.cpp`, `WriteHandler.cpp`) | one interaction each | invoke, write, timed request | exchanges, clusters | time-outs of timed requests |
| BDX (`protocols/bdx/`) | transfer state, block counters, who drives | init, accept, query, block, ack, abort | exchanges, a polling application | end of transfer seen at different times |
| ICD manager (`app/icd/server/`) | mode, keep-active flags, counts, three timers | switch mode, extend, check in | exchanges, fail-safe, window, subscriptions | counts at zero, sleeping too early or never |
| Group peers, outgoing group counters (`transport/Group*.cpp`) | counters per sender, own counters | find/add, remove, increment | session manager, storage | compaction, write that never heals |

Crypto, TLV/ASN.1, the system, Inet and platform layers, the controller and the
cluster servers generated from the data model are listed in `PROJECT.json` with
the reason they are not modelled.

### What makes each part correct

* Replay window: no counter accepted twice; nothing new inside the window refused.
* Exchanges and MRP: each message delivered at most once and in order; an ack
  only for what arrived; every context returned to the pool; a peer that does
  not answer is reported, one that does is not.
* Persisted counter: a value is never used twice, also across reboots.
* Fabric table and fail-safe: what is shown as committed is complete on disk and
  lasts until removed; nothing half-done survives the fail-safe; an index is
  never given out twice.
* Commissioning window: commissionable only inside a window; an open window is
  never left deaf; a PASE session does not outlive its fail-safe.
* BDX: the file arrives where it belongs; success on one side is true on the
  other; everyone learns how the transfer ended.
* ICD manager: never asleep while something uses the device, never awake for
  nothing, observers told in order.
* Reads and subscriptions: a subscriber never misses the last value of an
  attribute; a report shows each cluster as it was at one moment; no report
  comes before its minimal interval, none is forgotten.

## Modules

| Module | Models | Used by |
|---|---|---|
| `PeerMessageCounter` | the counter as pure operators (`Verify*`, `Commit*`, `Classify*`), with the range and window size as constants | the next two |
| `ReplayProtection` | one receiving session over a network that delivers any counter at any time; `kind`, fixed at the start, says whether dispatch is unicast, group or unauthenticated | `ReplayProtectionProofs` |
| `ReliableMessaging` | two nodes, their exchange contexts, MRP and session, and the packets between them | `ReliableMessagingProofs` |
| `Conversation` | what the applications may rely on: a message arrives at most once and is confirmed only after it arrived | refined by `ReliableMessaging` |
| `PersistedCounter` | the counter, its storage, failing writes and crashes | `PersistedCounterProofs` |
| `FabricTable` | fabric table, certificate store, keystore, fail-safe, the commissioning commands and the recovery at boot | `FabricTableProofs` |
| `CommissioningWindow` | the window manager, the PASE responder as it sees it, the fail-safe, the queue of platform events, the commands that reach them | `CommissioningWindowProofs` |
| `BdxTransfer` | two transfer sessions, their applications and the exchange between them | `BdxTransferProofs`, `BdxCalmProofs` |
| `ICDManager` | the manager, the timer list of the system layer, and the users that keep a device awake | `ICDManagerProofs` |
| `Reporting` | read handlers, the reporting engine and the report scheduler | |

**State and actions.** In `ReliableMessaging` a node is a record: its exchange
(`ec`: the flags of `ReliableMessageContext.h`, reference count, pending ack, the
retransmission entry), its counters, its session, and history variables
(`fate`, `arrived`, `delivered`). Each C++ function is an operator from node to
node of the same name; an action is one event (packet, timer, application call)
that runs the handler as a whole. `ok` says how the packets fare that are sent
during that event: they are taken, the retransmission table is full, or the
transport refuses them with an error that `IsSendErrorNonCritical` excuses or with
another one. `timed` says whether the application of a node has set a response
timeout. The default is none (`ExchangeContext.h:259`), and then `SendMessage` arms
no timer for a request: if its last retransmission is used up, nobody is told, its
exchange stays until the application closes it, and a send that fails leaves
`kFlagResponseExpected` set (`ExchangeContext.cpp:182`). The properties name these
exceptions. Back-off and ack delays have no length: a timer that is armed may fire
at any time, which includes every real schedule.

In `FabricTable` the device is the record `dev`. Handlers are operators on it;
every write goes through `Store`, which logs the disk before the write, so that
each action either completes or loses power at one of those points
(`PowerFailsIn`). `dev.bad` is the storage part whose writes fail during the
handler. A handler meets a storage failure or a power failure, not both: for a
marker that cannot be written followed by a reboot the code itself logs "may be
inconsistent if reboot happens". `owed` is history: the committed identity that
the device has reported per index, `Unsure` when the power failed before the
answer. Keys are numbers, a NOC is `[fabric, key]`, and a chain is good when its
root is the trusted one and its key the pending one, which is what
`AddOrUpdateInner` and `ValidateIncomingNOCChain` establish.

Two constants restrict the administrators in the passing runs of `FabricTable`,
because the code does not withstand what they exclude (see Findings):
`RemoveWhilePending` (a `RemoveFabric` that meets another fabric's pending data)
and `EarlyComplete` (a `CommissioningComplete` before the NOC command, with a
key or root already pending). `fabric_remove_other` and `Fabric_stale_csr.cfg` lift
them. `Faults` is the set of parts of the storage of which one may fail: metadata,
NOC, index and marker in the passing run, all that are written in `Fabric_deep.cfg`.
Neither has the deletion of the commit marker (`"clear"`) or the posting of the
clean-up event (`"post"`), which the code does not withstand.

In the same way `AppCloses = {"Abort"}` in `mrp_failures` keeps applications from
calling `Close()` while they await a response, as `ExchangeHolder` does; the
code that does call it is the subject of `MRP_close_hang.cfg`.

In `CommissioningWindow` the manager is the record `w`, one field per member of
the class (`held` is `mPASESession`, `registered` whether the exchange manager
sends it `PBKDFParamRequest`, `handler` whether `OnPlatformEvent` is registered).
`queue` holds the platform events and the scheduled work of the fail-safe, in
order; everything else may happen between two of them. `live` are the PASE
sessions that exist and `adopted` those on which AddNOC succeeded under the
present fail-safe. An eviction
calls the manager back (`Release`), which may force the fail-safe to expire in
the middle of the dispatch, as the code does. A `CommissioningComplete` comes
from the fabric that owns the fail-safe, as the cluster checks.

In `BdxTransfer` a `TransferSession` is a record and each of its methods an
operator; `chan` is the exchange, in order, as MRP promises. The applications
are the ones in the repository (`TransferFacilitator` and its users,
`BDXDownloader`): an application sees only what `PollOutput` hands it, so a
message may meet a session whose output nobody has taken, and is then refused
and lost. `cursor` and `image` give the data a meaning: unit *i* of the file
holds *i*. `mControlMode` is not initialised by the code; `Init` lets it be either.
What ends a receiver's wait is in `watch`: a `TransferFacilitator` polls with a
clock, so that `PollOutput` finds the time-out; `BDXDownloader` passes a constant
time (TODO #12520) and has a check of its own, which compares the number of queries
with the one it saw last (`seen`). A check that comes while the downloader is still
preparing only logs, and the download then runs without one ("Unwatched").

In `ICDManager` the timer list is a sequence ordered by due time, so that two
timers due at once fire in the order they were started. The event loop may be late:
a timer is overdue by up to `MaxLate` ticks while other handlers run, and
`IsTimerActive` says no of an overdue timer. The manager is `m`; the
users of the device (exchanges, lookups of check-in senders, fail-safe, window,
test trigger) are variables of their own, so that the counting inside the
manager is compared with the truth outside it. `last` is the last event posted to
the observers.

In `Reporting` an attribute is a number, and a path is the set of attributes it
covers. `stale` is the truth: what the reader lacks; the generations, the dirty
set and the flags are what the code knows. `Run` is one engine run, handler by
handler, with the removal of finished reads and the index it keeps (`VisitNext`,
`RunLoop`); `skipped` records the handlers that such a run failed to reach. Time
counts down; a report whose session was lost cannot be sent, closes its handler
and ends the run.

## Runs

| Run | Checks | Result |
|---|---|---|
| `replay` | `ReplayInv`, `NoReplay`, `NoFalseDuplicate`, `ReuseNeedsHalfRange`, for all three kinds of session | hold (79 000 states) |
| `persisted_counter` | `CounterInv`, `NoReuse`, `GoodWriteHeals`, `NoQuickReuse` (across a rollover) | hold (100 000 states) |
| `mrp_conversation` | `FlagsTellTheTruth` (the flags of a context against the retransmission table, the pending ack and what the peer awaits), refinement of `Conversation`, and `ExchangeFreed` under fairness, with and without response timeouts and with a full exchange pool | hold (215 000 states) |
| `mrp_failures` | `AckMeansArrived`, `ExchangeInv` (types, the exact reference count, flags against the retransmission table, each node's place in the conversation against the other's and the packets in flight), `InOrderOnce`, `ExpiredIsReported`, with failing sends, a full pool, aborts, released sessions, with and without response timeouts | hold (620 000 states) |
| `fabric_commit` | `CommittedIsWhole`, `CommittedIsDurable`, `IndexBookkeeping`, `PendingIsCoherent`, with two power failures and one storage failure, and `FailSafeEnds` under fairness | hold (366 000 states) |
| `window` | `WindowInv` (types, and the manager's flags, session and attempts against window, fail-safe and event queue), `ListensOnlyInWindow`, `NeverDeaf`, `HeldHasFailSafe`, and `ListensAgainOrCloses` under fairness | hold (55 000 states) |
| `bdx` | `SessionsAgree` (the inductive invariants `TurnInv` and `CalmInv`, a downloader that is preparing has said nothing, no protocol error, one side drives), `ImageFaithful`, `SuccessMeansWhole`, and under fairness `UndisturbedSucceeds`, `EveryoneIsTold`, for receivers with a clock and downloaders with their own check | hold (115 000 states) |
| `icd` | `KeepActiveInv` (types, the counts against the users, the timer list against the mode, what observers were told), `NeverSleepsInUse`, `ObserverOrder`, and `SleepsAndWakes` under fairness, with an event loop that may be late | hold (61 000 states) |
| `reporting` | `StaleIsRemembered`, `CoherentCluster`, `SomeoneWillCome`, `NotBeforeMinInterval`, `TypeOK`, and `SubscriberIsInformed` under fairness | hold (308 000 states) |
| `fabric_remove_other`, `window_pase_left`, `reporting_skipped` | one statement of the repository each | violated, see Findings |

**Bounds.** Replay: the range is 8 values and the window 2, so that rollover, the
far edge of the window, jumps by exactly the window and by half the range all
happen; the unwrapped counter runs far enough to wrap. MRP: two or three
messages, at most one retransmission and, in `mrp_failures`, one duplicated
packet beyond retransmissions and one step whose sends fail; each run starts with
response timeouts on both sides (`Timeouts`) or on none; loss needs no bound, as a
packet may stay in the network for ever. Three messages are enough for a request,
a response that carries an ack, and a third that closes the exchange. Counters
are bounded by their range, so their exhaustion is reached. Persisted counter: an
epoch of 3, up to seven values used, steps smaller and larger than an epoch, one
failed write, and a start close enough to the end of the range to roll over.
Fabric table: two logical fabrics (with symmetry), two slots and two indices, so
that the next index wraps, skips one in use and runs out within a run, and up to
three new keys; a device may start factory new or with one fabric. Two power
failures let the second one hit the clean-up that the first one caused. The
storage failure of `fabric_commit` is one of metadata, NOC, index and marker;
`Fabric_deep.cfg` checks the four invariants, without liveness and with symmetry,
for a failure of every part that is written.

Commissioning window: three windows, three PASE sessions and three attempts, so
that attempts run out, a window follows one that was closed in the middle of an
attempt, and a session of an earlier window meets a later one; one failure of
listening or arming. BDX: three blocks (a first, a middle and a last one, with
an empty last block too), skips of up to one block, one fault anywhere, and a
second transfer with the objects of the first. ICD: active periods of no length
and of two ticks around a jitter of one, two exchanges and two check-ins, so that
a count comes down to one before it reaches zero; six uses that wake or keep the
device awake; an event loop up to two ticks late, enough for both timers of an
active period to be overdue at once. Reporting: two handlers, four attributes in three clusters of two
endpoints, a dirty set of two entries (it merges twice), one report in flight
(both handlers compete for it), two attributes per message (a report has two
chunks and a cluster may be split between them), and four inputs from outside.
(With two reports in flight, so that a confirmation below the limit wakes nobody,
the properties hold too: 793 000 states.) `reporting_skipped` needs three handlers
and allows two reports in flight. Every change of an attribute is an input,
so the inputs bound the generations too.

**Deadlock** is not checked except in `replay` and `persisted_counter`: a
conversation, a transfer or a window ends, and the other runs end when their
bounds are used up.

**Fairness.** `ReliableMessaging`: armed timers (ack, retransmission, response)
fire, and an application that owes a message eventually sends or closes, the
rule of `ExchangeDelegate.h`; nothing is assumed of the network, nor of an
application that awaits a response, with a timeout or without. `FabricTable`:
the fail-safe timer fires (the cumulative timer of `ArmFailSafe` cannot be
extended by re-arming), the event loop runs what is queued, and a device without
power is started again. Nothing is assumed of administrators. There the weak
fairness is written with each action's guard in place of `ENABLED`.
`CommissioningWindow`: the event queue is served and the timers of the handshake
and of the fail-safe fire; the window's own timer is not relied on, as it is the
one that hides a deaf window. `BdxTransfer`: `TransferFacilitator`'s poll
timer repeats with a clock that runs; `BDXDownloader` polls when it is prepared,
after each message and each call, with no clock, and restarts its own check;
messages on the exchange are delivered (or lost, by a bounded fault), and an
application answers what it was told. `ICDManager`: timers fire, if late; exchanges, lookups,
fail-safes and windows end, each of which another module shows or a timer forces.
`Reporting`: scheduled work runs, due timers fire, a report is answered or its
response timer closes the handler, time passes; readers may otherwise do as they
please.

**Mutants.** For every property of a passing run a mutated operator stands next to
the original, marked as a mutant: a dropped bit in the window, an ack for the
wrong message, a missing commit marker, an unchecked write, an unreported
time-out, a fail-safe that expires twice, a confirmation that wakes nobody. Each
makes its property fail.

## Findings

Each is a violation run with one property that states what a comment in the
repository says.

* `fabric_remove_other`: removing a fabric drops the pending certificates of
  another one, whose commit then deletes it.
* `window_pase_left`: a window that closes while its PASE session is still under a
  fail-safe removes the handler that was to end that session; the session stays,
  without a fail-safe.
* `reporting_skipped`: `Engine::Run` takes its index modulo the number of handlers
  of the moment. A read that ends in the middle of a run that has wrapped around
  makes it visit one handler twice and another one not at all. At the limit of
  reports in flight the next confirmation schedules another run; below it none
  does: with two reports allowed, the trace ends with a read that has half its
  report to send, nothing in flight, no timer and no run scheduled. The passing run
  says "unless skipped" for that reason.

### Other disagreements met while modelling

Six more can be seen with a configuration of their own, which is not among the
runs of `PROJECT.json`; TLC reports the named property as violated.

* `MRP_close_hang.cfg` (`ExpiredIsReported`): `Close()` while a response is awaited
  cancels the response timer but leaves `kFlagResponseExpected`
  (`ExchangeContext.cpp:246`), so that nobody reports a peer that never acks
  (the comment at `ReliableMessageMgr.cpp:158`).
* `MRP_ack_spin.cfg` (`PendingAckHasSession`): an exchange that loses its session
  while its application owes a message keeps an ack pending that cannot be sent
  (`ExchangeContext.cpp:422`), and the timer is re-armed with no delay
  (`ReliableMessageMgr.h:165`).
* `Fabric_stale_csr.cfg` (`PendingIsCoherent`): a key request survives a fail-safe
  that was completed without a NOC (`FabricTable.cpp:1541`, `FabricTable.h:872`),
  and the next fail-safe accepts an UpdateNOC for a key nobody holds.
* `Bdx_released.cfg` (`FailureIsReported`): when the session of an exchange is
  released while a response is expected, `TransferFacilitator::OnResponseTimeout`
  resets the transfer and the application built on it is never told; the provider
  of diagnostic logs then refuses every later request as busy
  (`diagnostic-logs-server.cpp:155`). The same property fails for a download whose
  check came while it was preparing (`BDXDownloader.cpp:176`): it has no timer left.
  (`FailureIsReported` is `EveryoneIsTold` without its two exceptions.)
* `ICD_observers.cfg` (`TrioInOrder`): the observers' events are to be called "as a
  trio in the same order" (`ICDManager.h:80`). When the event loop is late by both
  timers of an active period and the last exchange closes first,
  `SetKeepActiveModeRequirements` sees no active timer (`ICDManager.cpp:519`), enters
  IdleMode unannounced, and `OnTransitionToIdle` is posted in IdleMode.
* `ICD_poll.cfg` (`PollsAsSIT`): removing a fabric empties the table of clients while
  the device is idle (`icd-management-server.cpp:145`), which makes it a SIT device
  that goes on polling at its LIT interval (`ICDConfigurationData.cpp:28`).

Seen in the models while they were written, and kept here without a run:

* BDX: the refusal that `ResolveTransferControlOptions` prepares when no control
  mode is common (`BdxTransferSession.cpp:822`) is overwritten by the rest of
  `HandleTransferInit`; `AcceptTransfer` awaits by `mControlMode`, not by the mode it
  accepts. A `BlockAck` followed at once by a `BlockQuery`, before the sender has
  polled, loses the query. `BdxOTASender` only logs an `AcceptTransfer` that fails,
  and its responder then waits without a timer. `ResetTransfer` called from a poll's
  handler does not stop the polling, which `PollForOutput` starts again.
* Commissioning window: `CommissioningWindowManager.h` says the window's timer "is
  canceled when a PASE connection is established", which no code does;
  `Cleanup` leaves the timer of the handshake running, so that it counts a failed
  attempt in the next window. A PASE session that is released expires the
  fail-safe whoever armed it (`CommissioningWindowManager.cpp:555`).
* Exchanges: without a response timeout, a request that is given up or could not be
  sent is reported to nobody (`ExchangeContext.cpp:128`, `:182`; the comment at
  `ReliableMessageMgr.cpp:158` counts on the exchange), which `ExpiredIsReported`
  and `ExchangeFreed` leave out. `BDXDownloader`'s and the diagnostic logs' exchanges
  are of this kind.
* ICD: the observers' contract (`ICDManager.h:80`) does not hold when
  `ActiveModeDuration` is 0 (TODO #33074) either, which `ObserverOrder` leaves out.
  `SynchronizedReportSchedulerImpl::OnTransitionToIdle` returns unless the next
  report is in the past, the opposite of what its comment says.
* Reporting: a report that cannot be sent ends `Engine::Run` (`Engine.cpp:701`)
  without another run for the handlers behind it. `CalculateNextReportTimeout`
  subtracts from a maximal interval that has passed while a response was awaited;
  the difference wraps to some 49 days and is corrected by the response.
* `PersistedCounter::AdvanceBy` does not return the error of its write
  (`PersistedCounter.h:144`; the comment at line 119 says it does), and after it a
  reboot starts at a value that is no multiple of the epoch (line 73).
* The path of `CommitPendingFabricData` for an inconsistent state leaves the added
  fabric in the table (`FabricTable.cpp:1909`; `FabricTable.h:933` says all state is
  lost). `CommittedIsWhole` fails with `RemoveWhilePending = TRUE`.
* A label set while an addition or update of another fabric is pending is never
  stored (`FabricTable.cpp:2122`; `operational-credentials-server.cpp:496`).
* A commit marker that cannot be deleted makes the next boot delete the healthy
  fabric it names (`FabricTable.cpp:1500`). `CommittedIsDurable` fails with
  `Faults = {{"clear"}}`.
* The error path of AddNOC drops the root it is documented to keep
  (`FabricTable.cpp:2094`, `FabricTable.h:956`).
* A power failure in a deletion leaves a root certificate that blocks its index
  (`PersistentStorageOpCertStore.cpp:211`).
* A refused UpdateNOC leaves its NOC in the certificate store, which serves it
  (`FabricTable.cpp:1806`; the comment at line 854).
* When the clean-up event cannot be posted, the fail-safe ends with the pending
  data in place (`FailSafeContext.cpp:92`). `FailSafeEnds` fails with
  `Faults = {{"post"}}`.

## Proofs

Proved by TLAPS for every value of the constants that meets the named
assumptions of the modules.

* `ReplayProtectionProofs` (assuming `WindowAssumption`: the window fits in half
  the range). `NoReplay` alone is not inductive: whether a counter is accepted
  depends on the bitmap and `NoReplay` does not mention it. `ReplayInv` adds that
  the bitmap is exact (`WindowExact`: a bit is set just when the unwrapped
  counter at that distance was accepted), that the unwrapped maximum agrees with
  `pc.max`, and that nothing above it was accepted. `CommitInWindow` and
  `CommitFuture` say what a commit does to each bit; `AcceptStep` lifts that to a
  step of any of the three kinds of session, `ResyncStep` treats the restart of
  an unauthenticated peer. `WindowIsExact`, `NoReplayTheorem` and
  `NoFalseDuplicateTheorem` follow.
* `PersistedCounterProofs` (assuming an epoch smaller than the range). The
  inductive invariant `CounterInv` relates what is used, the value, the next epoch
  in memory and the stored start: while no write is outstanding every used value
  is below the stored start, and while the node is up every used value is at most
  the current one. `NoReuseTheorem` and `GoodWriteHealsTheorem` follow.

* `CommissioningWindowProofs` (assuming at least one attempt and one PASE session).
  `WindowInv` is inductive. What the properties need and do not say is how a
  fail-safe that has expired but is not yet disarmed shows in the event queue
  (`Agree`: an `Expired` work item is followed by the `Disarm` that belongs to it)
  and that a manager which holds a session, or has heard of one, is registered for
  the event that will end it (`Tied`). `ListensOnlyInWindowTheorem`,
  `NeverDeafTheorem` and `HeldHasFailSafeTheorem` follow.
* `ICDManagerProofs` (assuming durations are natural numbers and the jitter is
  above zero: with a jitter of zero the two timers of an active period are due
  together and fire in the order they were started, which depends on the path).
  The event loop may be late by any bound `MaxLate`.
  The lemmas about the timer list describe `CancelTimer`, `StartTimer` and
  `ExtendTimerTo` by the set of timers they leave. `KeepActiveInv` adds to the
  counts that no flag is set in IdleMode, that an ActiveMode without a flag has its
  end in the list, and that the announcement is due before it. Since the list is
  ordered (`WellFormed`), a late loop still fires the announcement first; only a
  withdrawal that asks `IsTimerActive` can end the period ahead of it, and then it
  is overdue, which is what `ObserverOrder` says.
  `NeverSleepsInUseTheorem`, `AwakeForAReasonTheorem` and `ObserverOrderTheorem`
  follow.
* `ReliableMessagingProofs` (assuming `WindowAssumption` and the types of the
  constants). `ExchangeInv` is inductive for conversations of any length. The
  reference count alone is not: whether an application may still send depends on
  its flags, on the entry of the table and on the state of the session. A request
  sent without a response timeout weakens it in one place (`NeverSent`): the flag
  that a response is expected may then stand for a message that never left. That
  messages are handed over in order needs both nodes and the network: a node sends
  only answers to what it was handed (`TakesTurns`), a message keeps its counter in
  every retransmission, and once it has arrived the replay window refuses that
  counter for ever (`ArrivesOnce`, from `CommitRefuses`), so what a session takes as
  new is the next message its application is to hear (`NewIsNext`). Handlers are
  functions, and the lemmas are relations that compose as they do (`Keeps`, `Says`,
  `Handles`); `Landing` shows once for all actions that the end of a handler fits
  the peer and the packets in flight. `InOrderOnceTheorem` follows, and
  `ExpiredIsReportedTheorem` for applications that do not call `Close` while they
  await a response: for those that do it is false, as `MRP_close_hang.cfg` shows. It
  excepts requests without a response timeout, which nobody reports.
* `BdxTransferProofs` (assuming a file that is not empty and control modes that are
  among the two). `TurnInv` is inductive for files of every length, skips of every
  size and any number of faults. That blocks land where they belong does not follow
  from the block counters alone, which neither side compares with its cursor: the
  argument is that the turn is a token. A side has it, or one message on its way
  passes it on (a block, a query, an accept, or an acknowledgement when the sender
  drives), or it is lost for good (`OneTurn`); so when it arrives nobody else has
  moved, and the two cursors are apart by exactly what that message says
  (`CursorsMeet`). For that both sides must agree on what an acknowledgement passes
  (`SameDrive`), which comes from the handshake: an accept is for a side that waits,
  and carries the mode the responder itself resolved (`Greeted`). There `CanAccept`
  matters: after a refusal that `HandleTransferInit` overwrites, the mode is
  whatever it was, and what keeps the sides from driving differently is that the
  application accepts a mode it supports and `AcceptTransfer` one that was proposed. `ImageFaithfulTheorem`,
  `SuccessMeansWholeTheorem` and `OneDriverTheorem` follow.
* `BdxCalmProofs` (under the same assumptions). `CalmInv` is inductive, together with
  `TurnInv`, for a transfer that nothing has disturbed. `NoProtocolError` is not
  inductive by itself, because whether a handler's checks are met depends on the
  message on its way; and `TurnInv` holds whatever happens, so it says that there is
  at most one turn and not that there is one. `CalmInv` says that the turn is
  somewhere and the side that moves has heard all the other said (`InStep`), that a
  message finds the session that waits for it (`Introduced`, `Ready`), and that the
  four block counters agree with where the turn is (`Numbered`). A message refused
  because an output waits to be polled counts as a disturbance, and so does every
  timeout, of the session or of `BDXDownloader`'s check: something is always under
  way when one fires (`CalmUnderway`). `WatchStep` adds that a downloader which is
  still preparing has said nothing (`WatchFits`).
  `NoProtocolErrorTheorem` and, with `TurnInv` and `OneDriver`,
  `SessionsAgreeTheorem` follow.
* `FabricTableProofs` (assuming at least two indices, no more slots than indices and
  that `None` and `Unsure` are no data). The theorems have the hypothesis `Orderly`,
  which is what the passing run assumes too: administrators remove no fabric while
  another has pending data and complete no commissioning before the NOC command, one
  part of the storage fails at a time, and neither clearing the marker nor posting
  the clean-up fails; what happens otherwise is listed under Findings. `FabricInv` is
  inductive for any number of indices, fabrics, labels, keys, power failures and
  storage failures, and has two halves. For a device without power, `Restartable`
  says what the disk must look like for a start from it to be safe: what would be
  loaded and is not condemned by the marker is whole, is listed in the index and is
  what the device owes. For a running one, `Agree` relates table and disk but for one
  index that may be set aside, the pending addition or the fabric that a handler is
  working on; `Pending`, `KeyPending`, `Guarded` and `Scheduled` say how what is
  pending, the pending key, the fail-safe and the scheduled clean-up belong together.
  Every handler is shown to append only restartable disks to its log (`Logged`),
  which is what makes a power failure between any two writes harmless. The marker
  carries that argument: while it condemns a fabric its pieces may be written in any
  order (`Touched`), so a commit is safe from the write of the marker to its erasure
  (`CommitIs`), and a deletion because it erases before it forgets (`DeleteSafe`).
  `CommittedFabricIsWhole`, `CommittedFabricIsDurable`, `IndexIsKept` and
  `PendingDataIsCoherent` follow.

Only model-checked: `Reporting`; of `FabricTable`, that the fail-safe ends; of
`ReliableMessaging`, `AckMeansArrived`, the refinement of `Conversation` and that no
message is dropped for want of an ack (part of `FlagsTellTheTruth`; its other parts
are conjuncts of `ExchangeInv`). The first two do not hold for every size of the
window: a message that is overtaken by more packets than the window is wide is
refused as a duplicate, and acked. The third does not hold once sends fail: an ack
that could not be sent stays in the way of the next. Further `NoQuickReuse`, the
action property `ReuseNeedsHalfRange`, and all liveness, which is out of the
prover's reach.

## Plan

1. Proofs, for every value of the constants: `StaleIsRemembered` of `Reporting`;
   `FlagsTellTheTruth` for transports that do not fail.
2. `GroupPeerTable` and the outgoing group counters: compaction never mixes up
   two senders; a counter is never repeated after a reboot (expected to fail after
   a failed write).
3. `SecureSessionTable`: allocation of session ids, eviction, holders; composed
   with `ReliableMessaging` in place of its abstract session.
4. `CaseSession` (initiator and responder, resumption, background work) with
   symbolic keys, and an abstract specification of key agreement that it implements.
5. Commands, writes and timed requests; resumption of subscriptions.

An abstract specification worth adding for `FabricTable` is an atomic table (add,
update, remove, and nothing else changes it), with the disk and the marker as its
implementation.

## Not modelled

Time (beyond the order of timers, and the small numbers of `ICDManager` and
`Reporting`), cryptography, encodings, TCP sessions,
several exchanges over one session, delegates and applications beyond what the
rules of `ExchangeDelegate.h` allow them, operational keys owned by a controller,
BLE rendezvous, asynchronous BDX transfers (the code refuses them), the content of
check-in messages and of events, data version filters, the synchronised report
scheduler, the reader's side of a subscription, and the components `PROJECT.json` marks `not_modelled`.
