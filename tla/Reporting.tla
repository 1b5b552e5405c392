---- MODULE Reporting ----
(***************************************************************************)
(* How a device answers reads and keeps subscribers informed:              *)
(* app::ReadHandler, one per read or subscription, reporting::Engine, which*)
(* keeps the dirty paths and sends the reports, and ReportSchedulerImpl,   *)
(* which decides when a subscription may report.                           *)
(*                                                                         *)
(* The data is abstract.  An attribute is a number, clusters and endpoints *)
(* are sets of them, and a path is the set of attributes it covers, so a   *)
(* wildcard is a larger set.  What the reader lacks is kept in `stale`: the*)
(* attributes whose current value no report to it has carried.  Time is    *)
(* counted down: minLeft and maxLeft are what is left of the two intervals *)
(* of a subscription, timer is what is left of its node's timer.           *)
(***************************************************************************)
EXTENDS Integers, Sequences, FiniteSets, SequencesExt

CONSTANTS
    Handlers,       \* the pool of read handlers
    Clusters,       \* a partition of the attributes
    Endpoints,      \* a partition of the attributes, unions of clusters
    Interests,      \* the wildcard paths readers ask for
    PoolSize,       \* CHIP_IM_SERVER_MAX_NUM_DIRTY_SET
    MaxInFlight,    \* CHIP_IM_MAX_REPORTS_IN_FLIGHT
    PerChunk,       \* attributes that fit in one report message
    MinInterval,    \* mMinIntervalFloorSeconds
    MaxInterval,    \* mMaxInterval
    Faults,         \* whether sessions are lost and handlers closed from outside
    MaxInputs       \* bound on what comes from outside: requests, changes of
                    \* attributes, events, lost sessions, timeouts, evictions

Attributes == UNION Clusters

ASSUME PathsAssumption ==
    /\ UNION Endpoints = Attributes /\ Attributes \subseteq Nat \ {0}
    /\ \A c \in Clusters, e \in Endpoints : c \subseteq e \/ c \cap e = {}
    /\ Interests \subseteq SUBSET Attributes \ {{}}

ASSUME BoundsAssumption ==
    /\ {PoolSize, MaxInFlight, PerChunk} \subseteq Nat \ {0}
    /\ {MinInterval, MaxInterval, MaxInputs} \subseteq Nat
    /\ Faults \in BOOLEAN
    /\ MinInterval <= MaxInterval /\ MaxInterval > 0

VARIABLES
    handler,    \* each handler's record, or Free
    engine,     \* the reporting engine and the order of the handler pool
    skipped,    \* history: reportable handlers the last run that could have
                \* reached them did not reach
    inputs      \* how many inputs there have been

vars == <<handler, engine, skipped, inputs>>

Free == [state |-> "Free"]
Off == -1       \* no timer
Past == -1      \* maxLeft once the maximal interval is strictly exceeded
IndexWrap == 16 \* stands for 2^32, to which it is equal modulo 1, 2 and 3

Active(s) == {h \in Handlers : s.handler[h] # Free}

(***************************************************************************)
(* Predicates of a handler's record.                                       *)
(***************************************************************************)
IsDirty(r) == r.dirtyGeneration > r.previousBegin \/ r.forceDirty

CanStartReporting(r) == r.state = "CanStartReporting"

IsAwaitingReportResponse(r) == r.state = "AwaitingReportResponse"

ShouldReportUnscheduled(r) == CanStartReporting(r) /\ (r.type = "Read" \/ r.priming)

ShouldStartReporting(r) ==
    CanStartReporting(r) /\ (ShouldReportUnscheduled(r) \/ IsDirty(r))

IsReportableNow(r) ==
    /\ r.node
    /\ CanStartReporting(r)
    /\ \/ r.minLeft = 0 /\ (IsDirty(r) \/ r.maxLeft <= 0)
       \/ r.engineRunScheduled

Reportable(r) == ShouldReportUnscheduled(r) \/ IsReportableNow(r)

(***************************************************************************)
(* The steps of the code, as functions of the state s = [handler, engine]. *)
(***************************************************************************)
ScheduleRun(s) == [s EXCEPT !.engine.runScheduled = TRUE]

\* Mutant: a full pipe that drains wakes nobody.
ConfirmWakesNobody(s) == [s EXCEPT !.engine.inFlight = @ - 1]

OnReportConfirm(s) ==
    [s EXCEPT !.engine.inFlight = @ - 1,
              !.engine.runScheduled = @ \/ s.engine.inFlight = MaxInFlight]

\* 0 means now.  A maximal interval exceeded while a response is awaited gives
\* a difference that wraps to some 49 days: no timer within the model's horizon.
CalculateNextReportTimeout(r) ==
    IF IsReportableNow(r) THEN 0
    ELSE IF ShouldStartReporting(r) /\ r.minLeft > 0 THEN r.minLeft
    ELSE r.maxLeft

\* ScheduleReport: the node's timer is cancelled and started again, or TimerFired
\* is called at once.
ScheduleReport(s, h) ==
    LET timeout == CalculateNextReportTimeout(s.handler[h])
    IN  IF timeout = 0
        THEN ScheduleRun([s EXCEPT !.handler[h].timer = Off,
                                   !.handler[h].engineRunScheduled = TRUE])
        ELSE [s EXCEPT !.handler[h].timer = IF timeout = Past THEN Off ELSE timeout]

OnBecameReportable(s, h) == IF s.handler[h].node THEN ScheduleReport(s, h) ELSE s

\* Mutant: EngineRunScheduled outlives the report it was set for.
RunStaysScheduled(s, h) ==
    ScheduleReport([s EXCEPT !.handler[h].minLeft = MinInterval,
                             !.handler[h].maxLeft = MaxInterval], h)

OnSubscriptionReportSent(s, h) ==
    ScheduleReport([s EXCEPT !.handler[h].minLeft = MinInterval,
                             !.handler[h].maxLeft = MaxInterval,
                             !.handler[h].engineRunScheduled = FALSE], h)

\* Mutant: the scheduler is not asked again when the response has come.
MovesUnobserved(s, h) ==
    LET confirmed == IF IsAwaitingReportResponse(s.handler[h]) THEN OnReportConfirm(s) ELSE s
        moved == [confirmed EXCEPT !.handler[h].state = "CanStartReporting"]
    IN  IF ShouldReportUnscheduled(moved.handler[h]) THEN ScheduleRun(moved) ELSE moved

\* MoveToState(CanStartReporting): a report in flight is confirmed, and either the
\* engine runs or the scheduler is asked when it may.
MoveToCanStart(s, h) ==
    LET confirmed == IF IsAwaitingReportResponse(s.handler[h]) THEN OnReportConfirm(s) ELSE s
        moved == [confirmed EXCEPT !.handler[h].state = "CanStartReporting"]
    IN  IF ShouldReportUnscheduled(moved.handler[h]) THEN ScheduleRun(moved)
        ELSE OnBecameReportable(moved, h)

\* Mutant: a handler closed while its report is in flight does not confirm it.
CloseUnconfirmed(s, h, index) ==
    [s EXCEPT !.handler[h] = Free,
              !.engine.order = SelectSeq(@, LAMBDA g : g # h),
              !.engine.curReadHandlerIdx = index]

\* Close, OnDone and the destructor.  `index` is what ResetReadHandlerTracker makes
\* of the engine's index.
CloseHandler(s, h, index) ==
    LET confirmed == IF IsAwaitingReportResponse(s.handler[h]) THEN OnReportConfirm(s) ELSE s
    IN  [confirmed EXCEPT !.handler[h] = Free,
                          !.engine.order = SelectSeq(@, LAMBDA g : g # h),
                          !.engine.curReadHandlerIdx = index]

SetForceDirty(s, h) ==
    LET flagged == [s EXCEPT !.handler[h].forceDirty = TRUE]
    IN  IF ~ShouldStartReporting(s.handler[h]) /\ ShouldStartReporting(flagged.handler[h])
        THEN OnBecameReportable(flagged, h)
        ELSE flagged

(***************************************************************************)
(* The set of dirty paths: records of a path and the generation it was last*)
(* dirty in.                                                               *)
(***************************************************************************)
\* The first overlapping entry in pool order takes the new generation, and the new
\* path if that is the larger; which one comes first is left open.
MergeOverlapped(dirty, path, gen) ==
    {(dirty \ {d}) \cup {[path |-> d.path \cup path, gen |-> gen]} :
        d \in {e \in dirty : e.path \subseteq path \/ path \subseteq e.path}}

\* Entries under the same cluster, or endpoint, become one wildcard entry.
MergeUnder(groups, dirty) ==
    LET under(g) == {d \in dirty : d.path \subseteq g}
        crowded == {g \in groups : Cardinality(under(g)) > 1}
    IN  (dirty \ UNION {under(g) : g \in crowded})
        \cup {[path |-> g, gen |-> CHOOSE n \in {d.gen : d \in under(g)} :
                                      \A d \in under(g) : d.gen <= n] : g \in crowded}

MakeRoom(dirty, gen) ==
    LET byCluster == MergeUnder(Clusters, dirty)
        byEndpoint == MergeUnder(Endpoints, dirty)
    IN  IF Cardinality(dirty) < PoolSize THEN dirty
        ELSE IF byCluster # dirty THEN byCluster
        ELSE IF byEndpoint # dirty THEN byEndpoint
        ELSE {[path |-> Attributes, gen |-> gen]}

\* The sets InsertPathIntoDirtySet may leave behind.
InsertPathIntoDirtySet(dirty, path, gen) ==
    LET roomy == MakeRoom(dirty, gen)
        merged == MergeOverlapped(dirty, path, gen)
        mergedLater == MergeOverlapped(roomy, path, gen)
    IN  IF merged # {} THEN merged
        ELSE IF mergedLater # {} THEN mergedLater
        ELSE {roomy \cup {[path |-> path, gen |-> gen]}}

First(set) == CHOOSE a \in set : \A b \in set : a <= b

ClusterOf(a) == CHOOSE c \in Clusters : a \in c

\* Mutant: a change never moves the iterator.
IteratorKept(r, path) == r.iterator

\* The iterator goes back to the first attribute of its cluster if the change
\* touches that cluster; 0 is an exhausted iterator.
ResetCurrentCluster(r, path) ==
    IF r.iterator # 0 /\ ClusterOf(r.iterator) \cap path # {}
    THEN First(ClusterOf(r.iterator) \cap r.interest)
    ELSE r.iterator

AttributePathIsDirty(s, h, path) ==
    LET r == s.handler[h]
    IN  OnBecameReportable(
          [s EXCEPT !.handler[h] = [r EXCEPT
                        !.dirtyGeneration = s.engine.generation,
                        !.iterator = ResetCurrentCluster(r, path),
                        !.stale = @ \cup (path \cap r.interest)]], h)

(***************************************************************************)
(* Reports.                                                                *)
(***************************************************************************)
\* Whether an entry of the dirty set obliges a report to carry attribute a.
ConcretePathDirty(s, r, a) ==
    \E d \in s.engine.dirtySet : a \in d.path /\ d.gen > r.previousBegin

\* What is left to encode, in the order of the attributes.
ToEncode(s, r) ==
    {a \in r.interest : /\ r.chunked => a >= r.iterator
                        /\ r.priming \/ ConcretePathDirty(s, r, a)}

\* Mutant: the generation is taken with every chunk.
GenerationAtEnd(s, h, encoded, next) ==
    LET r == s.handler[h]
        more == next # 0
        begin == s.engine.generation
        awaits == r.type = "Subscribe" \/ more
        sent == [s EXCEPT
                   !.engine.inFlight = @ + 1,
                   !.handler[h] = [r EXCEPT
                       !.state = IF awaits THEN "AwaitingReportResponse" ELSE @,
                       !.chunked = more,
                       !.iterator = next,
                       !.stale = @ \ encoded,
                       !.currentBegin = begin]]
        observed == IF ~awaits THEN OnReportConfirm(sent)
                    ELSE IF r.type = "Subscribe" /\ ~r.priming /\ ~more
                    THEN OnSubscriptionReportSent(sent, h)
                    ELSE sent
    IN  IF more THEN observed
        ELSE [observed EXCEPT !.handler[h].previousBegin = begin,
                              !.handler[h].forceDirty = FALSE]

\* SendReportData: the generation is taken with the first chunk of a report and
\* becomes that of the last complete report with its last chunk.
SendReportData(s, h, encoded, next) ==
    LET r == s.handler[h]
        more == next # 0
        begin == IF r.chunked THEN r.currentBegin ELSE s.engine.generation
        awaits == r.type = "Subscribe" \/ more
        sent == [s EXCEPT
                   !.engine.inFlight = @ + 1,
                   !.handler[h] = [r EXCEPT
                       !.state = IF awaits THEN "AwaitingReportResponse" ELSE @,
                       !.chunked = more,
                       !.iterator = next,
                       !.stale = @ \ encoded,
                       !.currentBegin = begin]]
        observed == IF ~awaits THEN OnReportConfirm(sent)
                    ELSE IF r.type = "Subscribe" /\ ~r.priming /\ ~more
                    THEN OnSubscriptionReportSent(sent, h)
                    ELSE sent
    IN  IF more THEN observed
        ELSE [observed EXCEPT !.handler[h].previousBegin = begin,
                              !.handler[h].forceDirty = FALSE]

\* BuildAndSendSingleReportData, for a handler that still has its session.  Events are
\* left out, and with them chunks of events; an attribute fits in a chunk, so a chunk
\* is never empty with more to come.
BuildAndSend(s, h) ==
    LET r == s.handler[h]
        candidates == ToEncode(s, r)
        before(a) == Cardinality({b \in candidates : b < a})
        encoded == {a \in candidates : before(a) < PerChunk}
        rest == candidates \ encoded
        sent == SendReportData(s, h, encoded, IF rest = {} THEN 0 ELSE First(rest))
    IN  IF r.type = "Read" /\ rest = {}
        THEN CloseHandler(sent, h, (s.engine.curReadHandlerIdx - 1) % IndexWrap)
        ELSE sent

\* One turn of the loop of Run.  A handler whose report cannot be sent is closed
\* and ends the run.
VisitNext(s) ==
    LET index == s.engine.curReadHandlerIdx
        h == s.engine.order[(index % Len(s.engine.order)) + 1]
        r == s.handler[h]
        served == IF ~Reportable(r) THEN s
                  ELSE IF r.session THEN BuildAndSend(s, h)
                  ELSE [CloseHandler(s, h, (index - 1) % IndexWrap) EXCEPT !.failed = TRUE]
        visited == [served EXCEPT !.visited = @ \cup {h}]
    IN  IF s.failed \/ s.engine.inFlight >= MaxInFlight THEN s
        ELSE IF visited.failed THEN visited
        ELSE [visited EXCEPT !.engine.curReadHandlerIdx = (@ + 1) % IndexWrap]

\* Run up to its last lines: as many turns as there were handlers.  The value is the
\* set of the states the loop can end in, which has one element.
RunLoop(s) ==
    LET turn[k \in 0..Len(s.engine.order)] ==
            IF k = 0 THEN {s} ELSE {VisitNext(t) : t \in turn[k - 1]}
    IN  turn[Len(s.engine.order)]

\* The end of Run, unless it returned early: the index, and a dirty set nobody
\* needs any more.
RunEnd(s) ==
    IF s.failed THEN s
    ELSE [s EXCEPT !.engine.curReadHandlerIdx = IF @ >= Len(s.engine.order) THEN 0 ELSE @,
                   !.engine.dirtySet = IF \E h \in Active(s) : IsDirty(s.handler[h])
                                       THEN @ ELSE {}]

(***************************************************************************)
(* The specification.                                                      *)
(***************************************************************************)
Current == [handler |-> handler, engine |-> engine]

Becomes(s) == handler' = s.handler /\ engine' = s.engine

Input == inputs < MaxInputs /\ inputs' = inputs + 1

Init ==
    /\ handler = [h \in Handlers |-> Free]
    /\ engine = [generation |-> 1, dirtySet |-> {}, inFlight |-> 0, runScheduled |-> FALSE,
                 curReadHandlerIdx |-> 0, order |-> <<>>]
    /\ skipped = {}
    /\ inputs = 0

\* Names of handlers mean nothing, so one free name is as good as another.
FreeSlot == CHOOSE h \in Handlers : handler[h] = Free

\* OnInitialRequest, in a free slot of the pool, wherever that slot lies.
OnInitialRequest(type, interest, position) ==
    /\ \E h \in Handlers : handler[h] = Free
    /\ Input
    /\ LET h == FreeSlot
           fresh == [state |-> "CanStartReporting", type |-> type, interest |-> interest,
                      priming |-> TRUE, chunked |-> FALSE, forceDirty |-> TRUE,
                      dirtyGeneration |-> 0, previousBegin |-> 0, currentBegin |-> 0,
                      iterator |-> 0, stale |-> interest, session |-> TRUE, node |-> FALSE,
                      engineRunScheduled |-> FALSE, minLeft |-> 0, maxLeft |-> 0, timer |-> Off]
       IN  Becomes(ScheduleRun([Current EXCEPT
                     !.handler[h] = fresh,
                     !.engine.order = InsertAt(@, position, h)]))
    /\ UNCHANGED skipped

\* SetDirty: an attribute, a cluster or an endpoint has changed.
SetDirty(path) ==
    /\ Input
    /\ LET bumped == [Current EXCEPT !.engine.generation = @ + 1]
           gen == engine.generation + 1
           touched == {h \in Active(Current) : handler[h].interest \cap path # {}}
           told == FoldLeft(LAMBDA s, h : IF h \in touched THEN AttributePathIsDirty(s, h, path)
                                          ELSE s, bumped, engine.order)
       IN  IF touched = {} THEN Becomes(told)
           ELSE \E dirty \in InsertPathIntoDirtySet(engine.dirtySet, path, gen) :
                    Becomes([told EXCEPT !.engine.dirtySet = dirty])
    /\ UNCHANGED skipped

\* ScheduleEventDelivery for a subscription that asked for this event as urgent.
UrgentEvent(h) ==
    /\ handler[h] # Free
    /\ handler[h].type = "Subscribe" /\ ~handler[h].forceDirty
    /\ Input
    /\ Becomes(SetForceDirty(Current, h))
    /\ UNCHANGED skipped

\* ScheduleBufferPressureEventDelivery.
BufferPressure ==
    /\ ~engine.runScheduled
    /\ Input
    /\ Becomes(ScheduleRun(Current))
    /\ UNCHANGED skipped

Run ==
    /\ engine.runScheduled
    /\ UNCHANGED inputs
    /\ \E done \in RunLoop([handler |-> handler, engine |-> [engine EXCEPT !.runScheduled = FALSE],
                            visited |-> {}, failed |-> FALSE]) :
          LET missed == {h \in Active(done) \ done.visited : Reportable(done.handler[h])}
          IN  /\ Becomes(RunEnd(done))
              /\ skipped' = ((skipped \cap Active(done)) \ done.visited)
                            \cup (IF done.engine.inFlight < MaxInFlight THEN missed ELSE {})

\* OnStatusResponse: the reader has accepted a report.
OnStatusResponse(h) ==
    /\ handler[h] # Free
    /\ IsAwaitingReportResponse(handler[h])
    /\ LET r == handler[h]
           established == [r EXCEPT !.priming = FALSE, !.node = TRUE,
                                    !.minLeft = MinInterval, !.maxLeft = MaxInterval]
       IN  Becomes(MoveToCanStart(
               IF ~r.chunked /\ r.priming THEN [Current EXCEPT !.handler[h] = established]
               ELSE Current, h))
    /\ UNCHANGED <<skipped, inputs>>

\* OnResponseTimeout, a response with an error status, a released session while a
\* response is awaited.
OnResponseTimeout(h) ==
    /\ handler[h] # Free
    /\ IsAwaitingReportResponse(handler[h])
    /\ Faults /\ Input
    /\ Becomes(CloseHandler(Current, h, 0))
    /\ skipped' = skipped \ {h}

\* The session of a handler that awaits nothing goes away; nobody tells the handler.
SessionReleased(h) ==
    /\ handler[h] # Free
    /\ CanStartReporting(handler[h]) /\ handler[h].session
    /\ Faults /\ Input
    /\ handler' = [handler EXCEPT ![h].session = FALSE]
    /\ UNCHANGED <<engine, skipped>>

\* The interaction model engine closes a handler: its fabric is removed, its slot
\* is needed, or its subscriber subscribes anew.
Evicted(h) ==
    /\ handler[h] # Free
    /\ Faults /\ Input
    /\ Becomes(CloseHandler(Current, h, 0))
    /\ skipped' = skipped \ {h}

TimerFired(h) ==
    /\ handler[h] # Free
    /\ handler[h].timer = 0
    /\ Becomes(ScheduleRun([Current EXCEPT !.handler[h].timer = Off,
                                           !.handler[h].engineRunScheduled = TRUE]))
    /\ UNCHANGED <<skipped, inputs>>

\* Time passes; timers that are due go first.
Tick ==
    /\ \E h \in Active(Current) : handler[h].node
    /\ \A h \in Active(Current) : handler[h].timer # 0
    /\ handler' = [h \in Handlers |->
          IF h \notin Active(Current) \/ ~handler[h].node THEN handler[h]
          ELSE [handler[h] EXCEPT !.minLeft = IF @ > 0 THEN @ - 1 ELSE 0,
                                  !.maxLeft = IF @ > Past THEN @ - 1 ELSE Past,
                                  !.timer = IF @ > 0 THEN @ - 1 ELSE Off]]
    /\ UNCHANGED <<engine, skipped, inputs>>

Next ==
    \/ \E type \in {"Read", "Subscribe"}, interest \in Interests,
          position \in 1..(Len(engine.order) + 1) : OnInitialRequest(type, interest, position)
    \/ \E path \in {{a} : a \in Attributes} \cup Clusters \cup Endpoints : SetDirty(path)
    \/ \E h \in Handlers : UrgentEvent(h)
    \/ BufferPressure
    \/ Run
    \/ \E h \in Handlers : OnStatusResponse(h)
    \/ \E h \in Handlers : OnResponseTimeout(h)
    \/ \E h \in Handlers : SessionReleased(h)
    \/ \E h \in Handlers : Evicted(h)
    \/ \E h \in Handlers : TimerFired(h)
    \/ Tick

\* Scheduled work does not stay scheduled for ever, a due timer does not stay due, a
\* report does not stay unanswered (the reader answers or the response timer closes
\* the handler), and time passes.  The first three are the weak fairness of Run (only
\* Run takes the work off, and leaves it on for reads only, of which there are finitely
\* many), of TimerFired and of the two answers, each said of the state it ends.
Fairness ==
    /\ []<>~engine.runScheduled
    /\ \A h \in Handlers : []<>(handler[h] = Free \/ handler[h].timer # 0)
    /\ \A h \in Handlers : []<>(handler[h] = Free \/ ~IsAwaitingReportResponse(handler[h]))
    /\ WF_vars(Tick)

Spec == Init /\ [][Next]_vars /\ Fairness

(***************************************************************************)
(* Properties.                                                             *)
(***************************************************************************)
\* The variables have their types; the number of reports in flight is the number
\* of handlers that await a response, within CHIP_IM_MAX_REPORTS_IN_FLIGHT, so the
\* VerifyOrDie of OnReportConfirm never fires; the dirty set fits its pool.
TypeOK ==
    /\ Cardinality(engine.dirtySet) <= PoolSize
    /\ engine.inFlight <= MaxInFlight
    /\ engine.inFlight = Cardinality({h \in Active(Current) : IsAwaitingReportResponse(handler[h])})
    /\ Range(engine.order) = Active(Current) /\ IsInjective(engine.order)
    /\ skipped \subseteq Active(Current)
    /\ \A h \in Active(Current) :
          /\ CanStartReporting(handler[h]) \/ IsAwaitingReportResponse(handler[h])
          /\ handler[h].minLeft \in 0..MinInterval /\ handler[h].maxLeft \in Past..MaxInterval
          /\ handler[h].timer \in Off..MaxInterval
          /\ handler[h].stale \subseteq handler[h].interest

\* Whether the report being built, or the one to start, is a priming report that
\* will still come to attribute a.
PrimingWillReach(r, a) ==
    r.priming /\ ((r.chunked /\ a >= r.iterator) \/ (~r.chunked /\ CanStartReporting(r)))

\* A subscriber that lacks the current value of an attribute is going to get it: the
\* priming report has not passed the attribute yet, or the handler is dirty and the
\* dirty set still has an entry for the attribute newer than the handler's last
\* complete report.  At stake are changes between two chunks, the merging of a full
\* dirty set, and its release (ReadHandler::SendReportData, AttributePathIsDirty,
\* Engine::InsertPathIntoDirtySet, the end of Engine::Run).
StaleIsRemembered ==
    \A h \in Active(Current) : handler[h].type = "Subscribe" =>
        \A a \in handler[h].stale :
            \/ PrimingWillReach(handler[h], a)
            \/ /\ handler[h].dirtyGeneration > handler[h].previousBegin
               /\ ConcretePathDirty(Current, handler[h], a)

\* Between two chunks, everything already sent of the cluster the iterator is in is
\* still current: the reader gets a coherent view of the cluster, reads included
\* (ReadHandler::AttributePathIsDirty, ResetCurrentCluster).
CoherentCluster ==
    \A h \in Active(Current) : handler[h].chunked =>
        \A a \in handler[h].stale : ClusterOf(a) = ClusterOf(handler[h].iterator)
                                       => a >= handler[h].iterator

\* The engine will run, or runs again when a report in flight is confirmed.
RunWillCome == engine.runScheduled \/ engine.inFlight = MaxInFlight

\* Nobody waits for an engine run nobody will schedule: a handler that may report
\* has a run coming, or a timer that is set for no later than its maximal interval
\* and, if it is dirty, than its minimal one, unless a run that could have served it
\* passed it over (ReadHandler::MoveToState, ReportSchedulerImpl::ScheduleReport,
\* Engine::OnReportConfirm).
SomeoneWillCome ==
    \A h \in Active(Current) \ skipped :
        LET r == handler[h] IN
        /\ Reportable(r) => RunWillCome \/ r.timer = 0
        /\ r.node /\ CanStartReporting(r) /\ ~Reportable(r) =>
              /\ r.timer # Off
              /\ r.timer <= r.maxLeft
              /\ IsDirty(r) => r.timer <= r.minLeft

\* A step that starts a report of an established subscription does so only after its
\* minimal interval (ReportScheduler::ReadHandlerNode::IsReportableNow,
\* EngineRunScheduled).  The model's timers never fire early; in the code one that
\* does is allowed to report, by that flag.
NotBeforeMinInterval ==
    [][\A h \in Handlers :
          /\ handler[h] # Free /\ handler'[h] # Free
          /\ CanStartReporting(handler[h]) /\ handler[h].node /\ ~handler[h].chunked
          /\ IsAwaitingReportResponse(handler'[h])
          => handler[h].minLeft = 0]_vars

\* A subscriber that lacks a value gets it, unless its subscription is closed or an
\* engine run passes it over.
SubscriberIsInformed ==
    \A h \in Handlers :
        (handler[h] # Free /\ handler[h].type = "Subscribe" /\ handler[h].stale # {})
            ~> (handler[h] = Free \/ handler[h].stale = {} \/ h \in skipped)

\* Every handler that may report is reached by a run that is not stopped by the
\* number of reports in flight: "We may be deallocating read handlers as we go.
\* Track how many we had initially, so we make sure to go through all of them."
\* One that a run does pass over has at least its timer or another run to come.
NoneSkipped == \A h \in skipped : RunWillCome \/ handler[h].timer # Off
====
