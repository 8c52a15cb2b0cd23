---------------------------- MODULE CommandLanes -----------------------------
(***************************************************************************)
(* The gateway's in-process command queue (process/command-queue.ts): the  *)
(* lanes, each with a queue ordered by priority and a limit on how many of *)
(* its tasks run, the time-outs that give a slot back before its task      *)
(* ends, the resets that forget the tasks a lane runs, and the waiters of  *)
(* a restart.                                                              *)
(*                                                                         *)
(* Every function of the file runs without an await up to its end, pump    *)
(* included, so each is one step; only the tasks themselves take time.  A  *)
(* lane's `draining` flag is therefore down between steps and left out,    *)
(* and so is the warning callback of an entry that waited too long.        *)
(***************************************************************************)
EXTENDS Naturals, FiniteSets, Sequences, SequencesExt

CONSTANTS
    Lanes,
    SharedLanes,    \* the lanes whose limit is configured and suspended
    Entries,        \* calls of enqueueCommandInLane
    LaneOf,         \* the lane of each
    PriorityOf,     \* 2 "foreground", 1 "normal", 0 "background"
    TimedEntries,   \* the entries with a taskTimeoutMs
    Limits,         \* the limits a configuration can give a shared lane
    Waiters,        \* calls of waitForActiveTasks
    MaxResets       \* bound: resets of a lane

ASSUME LanesAssumption ==
    /\ SharedLanes \subseteq Lanes
    /\ IsFiniteSet(Entries)
    /\ LaneOf \in [Entries -> Lanes]
    /\ PriorityOf \in [Entries -> 0 .. 2]
    /\ TimedEntries \subseteq Entries
    /\ Limits \subseteq Nat \ {0}
    /\ MaxResets \in Nat

VARIABLES
    lanes,              \* per lane: queue, active tasks, limit, generation
    promise,            \* per entry: what its caller has been told
    executing,          \* entries whose task is running, wanted or not
    startedIn,          \* per entry: the generation its task was started in
    sequence,           \* per entry: its place in the order of arrival
    nextSequence,
    gatewayDraining,
    wait,               \* per waiter: what it has been told
    captured            \* per waiter: the tasks it waits for

entryVars == <<promise, executing, startedIn>>
arrivalVars == <<sequence, nextSequence>>
waitVars == <<wait, captured>>
vars == <<lanes, entryVars, arrivalVars, gatewayDraining, waitVars>>

-----------------------------------------------------------------------------
Promises == {"none", "pending", "settled", "cleared", "refused"}
Waits == {"none", "waiting", "timedWaiting", "drained", "timedOut"}
StillWaiting == {"waiting", "timedWaiting"}

\* A task id is given to one entry once, so the entry stands for it.
LaneStates == [queue : Seq(Entries), active : SUBSET Entries,
               maxConcurrent : {0, 1} \cup Limits, generation : 0 .. MaxResets]

TypeOK ==
    /\ lanes \in [Lanes -> LaneStates]
    /\ promise \in [Entries -> Promises]
    /\ executing \subseteq Entries
    /\ startedIn \in [Entries -> 0 .. MaxResets]
    /\ sequence \in [Entries -> Nat]
    /\ nextSequence \in Nat
    /\ gatewayDraining \in BOOLEAN
    /\ wait \in [Waiters -> Waits]
    /\ captured \in [Waiters -> SUBSET Entries]

Init ==
    /\ lanes = [l \in Lanes |-> [queue |-> <<>>, active |-> {}, maxConcurrent |-> 1,
                                 generation |-> 0]]
    /\ promise = [e \in Entries |-> "none"]
    /\ executing = {}
    /\ startedIn = [e \in Entries |-> 0]
    /\ sequence = [e \in Entries |-> 0]
    /\ nextSequence = 1
    /\ gatewayDraining = FALSE
    /\ wait = [w \in Waiters |-> "none"]
    /\ captured = [w \in Waiters |-> {}]

-----------------------------------------------------------------------------
(* What the functions do to a lane.                                        *)

\* A plausible bug: the limit is compared with <= before a task is started.
Startable_OneMore(lane) ==
    LET free == lane.maxConcurrent + 1 - Cardinality(lane.active)
    IN  IF Cardinality(lane.active) > lane.maxConcurrent THEN 0
        ELSE IF free < Len(lane.queue) THEN free ELSE Len(lane.queue)

\* How many entries pump starts.
Startable(lane) ==
    LET free == lane.maxConcurrent - Cardinality(lane.active)
    IN  IF Cardinality(lane.active) >= lane.maxConcurrent THEN 0
        ELSE IF free < Len(lane.queue) THEN free ELSE Len(lane.queue)

\* The lane after pump: the head of the queue runs.
Pumped(lane) ==
    LET n == Startable(lane)
    IN  [lane EXCEPT !.queue = SubSeq(@, n + 1, Len(@)),
                     !.active = @ \cup {lane.queue[i] : i \in 1 .. n}]

\* A plausible bug: arrivals go to the end whatever their priority.
EnqueueLaneEntry_AtEnd(q, e, seq) == Append(q, e)

\* The queue with e before the entries of a lower priority, and before those
\* of its own that came later.
EnqueueLaneEntry(q, e, seq) ==
    LET behind == {i \in 1 .. Len(q) :
                      \/ PriorityOf[q[i]] < PriorityOf[e]
                      \/ PriorityOf[q[i]] = PriorityOf[e] /\ seq[q[i]] > seq[e]}
    IN  IF behind = {} THEN Append(q, e)
        ELSE InsertAt(q, CHOOSE i \in behind : \A j \in behind : i <= j, e)

\* The lane with e in its queue, without e among its tasks, with another limit.
Queueing(lane, e, seq) == [lane EXCEPT !.queue = EnqueueLaneEntry(@, e, seq)]
Freed(lane, e) == [lane EXCEPT !.active = @ \ {e}]
Limited(lane, n) == [lane EXCEPT !.maxConcurrent = n]

ActiveIn(lns) == UNION {lns[l].active : l \in Lanes}

\* Tasks started by the step that leads to lanes'.
Started == {e \in Entries : /\ e \in lanes'[LaneOf[e]].active
                            /\ e \notin lanes[LaneOf[e]].active}

\* Their tasks run, besides those of `running`.
Run(running) ==
    /\ executing' = running \cup Started
    /\ startedIn' = [e \in Entries |-> IF e \in Started
                                       THEN lanes'[LaneOf[e]].generation
                                       ELSE startedIn[e]]

\* notifyActiveTaskWaiters, on the lanes the step leads to.
NotifyActiveTaskWaiters ==
    /\ wait' = [w \in Waiters |->
                  IF wait[w] \in StillWaiting /\ captured[w] \cap ActiveIn(lanes') = {}
                  THEN "drained" ELSE wait[w]]
    /\ UNCHANGED captured

-----------------------------------------------------------------------------
(* Callers.                                                                *)

EnqueueCommandInLane(e) ==
    /\ promise[e] = "none"
    /\ IF gatewayDraining
       THEN /\ promise' = [promise EXCEPT ![e] = "refused"]
            /\ UNCHANGED <<lanes, executing, startedIn, arrivalVars>>
       ELSE /\ promise' = [promise EXCEPT ![e] = "pending"]
            /\ sequence' = [sequence EXCEPT ![e] = nextSequence]
            /\ nextSequence' = nextSequence + 1
            /\ lanes' = [lanes EXCEPT ![LaneOf[e]] = Pumped(Queueing(@, e, sequence'))]
            /\ Run(executing)
    /\ UNCHANGED <<gatewayDraining, waitVars>>

\* A plausible bug: the queue is emptied and its callers are not told.
ClearCommandLane_Silent(l) ==
    /\ lanes[l].queue # <<>>
    /\ lanes' = [lanes EXCEPT ![l].queue = <<>>]
    /\ UNCHANGED <<entryVars, arrivalVars, gatewayDraining, waitVars>>

ClearCommandLane(l) ==
    /\ lanes[l].queue # <<>>
    /\ lanes' = [lanes EXCEPT ![l].queue = <<>>]
    /\ promise' = [e \in Entries |-> IF e \in ToSet(lanes[l].queue) THEN "cleared"
                                     ELSE promise[e]]
    /\ UNCHANGED <<executing, startedIn, arrivalVars, gatewayDraining, waitVars>>

\* A plausible bug: a new limit is noted and the lane is not drained.
SetCommandLaneConcurrency_NoDrain(l, n) ==
    /\ lanes' = [lanes EXCEPT ![l].maxConcurrent = n]
    /\ UNCHANGED <<entryVars, arrivalVars, gatewayDraining, waitVars>>

\* With no slot to offer the lane is not drained.
SetCommandLaneConcurrency(l, n) ==
    /\ lanes' = [lanes EXCEPT ![l] = IF n = 0 THEN Limited(@, 0)
                                     ELSE Pumped(Limited(@, n))]
    /\ Run(executing)
    /\ UNCHANGED <<promise, arrivalVars, gatewayDraining, waitVars>>

\* suspendSession throttles the lane to nothing, and the timer it starts
\* resumes it; applyGatewayLaneConcurrency pushes the configured limit.
SuspendLane(l) == lanes[l].maxConcurrent # 0 /\ SetCommandLaneConcurrency(l, 0)

ResumeLane(l) ==
    /\ lanes[l].maxConcurrent = 0
    /\ \E n \in Limits : SetCommandLaneConcurrency(l, n)

ApplyGatewayLaneConcurrency(l) == \E n \in Limits : SetCommandLaneConcurrency(l, n)

-----------------------------------------------------------------------------
(* Tasks.                                                                  *)

\* A plausible bug: the waiters are not told when a task gives its slot back.
ReleaseSlot_Silent(e) ==
    LET l == LaneOf[e]
    IN  /\ IF startedIn[e] = lanes[l].generation
           THEN lanes' = [lanes EXCEPT ![l] = Pumped(Freed(@, e))]
           ELSE UNCHANGED lanes
        /\ UNCHANGED waitVars

\* completeTask and, if the lane was not reset since the task started, the
\* waiters and the pump.
ReleaseSlot(e) ==
    LET l == LaneOf[e]
    IN  IF startedIn[e] = lanes[l].generation
        THEN /\ lanes' = [lanes EXCEPT ![l] = Pumped(Freed(@, e))]
             /\ NotifyActiveTaskWaiters
        ELSE UNCHANGED <<lanes, waitVars>>

\* The task of e resolves or rejects, in time.
TaskSettles(e) ==
    /\ e \in executing /\ promise[e] = "pending"
    /\ ReleaseSlot(e)
    /\ promise' = [promise EXCEPT ![e] = "settled"]
    /\ Run(executing \ {e})
    /\ UNCHANGED <<arrivalVars, gatewayDraining>>

\* The race is lost to the timer: the caller and the lane go on without the
\* task, which still runs.
TaskTimesOut(e) ==
    /\ e \in executing /\ promise[e] = "pending" /\ e \in TimedEntries
    /\ ReleaseSlot(e)
    /\ promise' = [promise EXCEPT ![e] = "settled"]
    /\ Run(executing)
    /\ UNCHANGED <<arrivalVars, gatewayDraining>>

LateTaskEnds(e) ==
    /\ e \in executing /\ promise[e] # "pending"
    /\ executing' = executing \ {e}
    /\ UNCHANGED <<lanes, promise, startedIn, arrivalVars, gatewayDraining, waitVars>>

-----------------------------------------------------------------------------
(* Recovery and restart.                                                   *)

\* A plausible bug: a reset puts the tasks it takes the slots from back into
\* the queue.
Idle_Requeues(lane) ==
    [lane EXCEPT !.generation = @ + 1, !.active = {},
                 !.queue = SetToSeq(lane.active) \o @]

Idle(lane) == [lane EXCEPT !.generation = @ + 1, !.active = {}]

\* A plausible bug: the lane is reset and its queue is left to wait.
ResetCommandLane_NoDrain(l) ==
    /\ lanes[l].generation < MaxResets
    /\ lanes' = [lanes EXCEPT ![l] = Idle(@)]
    /\ Run(executing)
    /\ NotifyActiveTaskWaiters
    /\ UNCHANGED <<promise, arrivalVars, gatewayDraining>>

ResetCommandLane(l) ==
    /\ lanes[l].generation < MaxResets
    /\ lanes' = [lanes EXCEPT ![l] = Pumped(Idle(@))]
    /\ Run(executing)
    /\ NotifyActiveTaskWaiters
    /\ UNCHANGED <<promise, arrivalVars, gatewayDraining>>

MarkGatewayDraining ==
    /\ gatewayDraining' = TRUE
    /\ UNCHANGED <<lanes, entryVars, arrivalVars, waitVars>>

\* A plausible bug: the lanes are made idle and what they preserved is left
\* to wait for a later call.
ResetAllLanes_NoDrain ==
    /\ \A l \in Lanes : lanes[l].generation < MaxResets
    /\ gatewayDraining' = FALSE
    /\ lanes' = [l \in Lanes |-> Idle(lanes[l])]
    /\ Run(executing)
    /\ NotifyActiveTaskWaiters
    /\ UNCHANGED <<promise, arrivalVars>>

ResetAllLanes ==
    /\ \A l \in Lanes : lanes[l].generation < MaxResets
    /\ gatewayDraining' = FALSE
    /\ lanes' = [l \in Lanes |-> Pumped(Idle(lanes[l]))]
    /\ Run(executing)
    /\ NotifyActiveTaskWaiters
    /\ UNCHANGED <<promise, arrivalVars>>

\* timeoutMs is absent, not positive, or starts a timer.
WaitForActiveTasks(w) ==
    LET ids == ActiveIn(lanes)
        outcomes == IF ids = {} THEN {"drained"} ELSE {"waiting", "timedWaiting", "timedOut"}
    IN  /\ wait[w] = "none"
        /\ \E outcome \in outcomes : wait' = [wait EXCEPT ![w] = outcome]
        /\ captured' = [captured EXCEPT ![w] = ids]
        /\ UNCHANGED <<lanes, entryVars, arrivalVars, gatewayDraining>>

WaiterTimesOut(w) ==
    /\ wait[w] = "timedWaiting"
    /\ wait' = [wait EXCEPT ![w] = "timedOut"]
    /\ UNCHANGED <<lanes, entryVars, arrivalVars, gatewayDraining, captured>>

-----------------------------------------------------------------------------
EntryStep(e) ==
    \/ EnqueueCommandInLane(e)
    \/ TaskSettles(e)
    \/ TaskTimesOut(e)
    \/ LateTaskEnds(e)

LaneStep(l) ==
    \/ ClearCommandLane(l)
    \/ ResetCommandLane(l)
    \/ l \in SharedLanes /\ SuspendLane(l)
    \/ l \in SharedLanes /\ ResumeLane(l)
    \/ l \in SharedLanes /\ ApplyGatewayLaneConcurrency(l)

Next ==
    \/ \E e \in Entries : EntryStep(e)
    \/ \E l \in Lanes : LaneStep(l)
    \/ \E w \in Waiters : WaitForActiveTasks(w) \/ WaiterTimesOut(w)
    \/ MarkGatewayDraining
    \/ ResetAllLanes

\* A task ends or times out, and the timer of a suspended lane fires.
Fairness ==
    /\ \A e \in Entries : WF_vars(TaskSettles(e) \/ TaskTimesOut(e))
    /\ \A l \in SharedLanes : WF_vars(ResumeLane(l))

Spec == Init /\ [][Next]_vars /\ Fairness

-----------------------------------------------------------------------------
(* Properties.                                                             *)

\* No lane holds back work it has room for: whatever timed out, was reset,
\* cleared, suspended or resumed, entries wait only while the lane is full.
NoStrandedWork ==
    \A l \in Lanes :
        lanes[l].queue # <<>> => Cardinality(lanes[l].active) >= lanes[l].maxConcurrent

\* Nothing is lost, whatever timed out, was reset or cleared: who waits for an
\* answer has its entry in the queue of its lane or its task running, and a
\* slot a lane counts as taken is taken by a task that runs.
NothingIsLost ==
    /\ \A e \in Entries : promise[e] = "pending" =>
         e \in executing \/ e \in ToSet(lanes[LaneOf[e]].queue)
    /\ ActiveIn(lanes) \subseteq executing

\* A lane starts tasks only up to its limit, although a limit lowered below
\* the number of running tasks stops none of them.
StartsWithinLimit ==
    [][\A l \in Lanes :
         ~(lanes'[l].active \subseteq lanes[l].active)
            => Cardinality(lanes'[l].active) <= lanes'[l].maxConcurrent]_vars

\* Tasks start by priority and, within one, in the order of their arrival:
\* nothing that stays in the queue should have gone before what starts.
StartsInOrder ==
    [][\A l \in Lanes :
         \A e \in lanes'[l].active \ lanes[l].active, f \in ToSet(lanes'[l].queue) :
            \/ PriorityOf[e] > PriorityOf[f]
            \/ PriorityOf[e] = PriorityOf[f] /\ sequence'[e] < sequence'[f]]_vars

\* A task is started once: what a lane starts is not running already, from
\* before a reset, a time-out or another turn, and its caller still waits.
StartsOnce ==
    [][\A l \in Lanes : \A e \in lanes'[l].active \ lanes[l].active :
         e \notin executing /\ promise'[e] = "pending"]_vars

\* A restart waits for exactly the tasks it found: a waiter still waits only
\* while a lane counts one of them as active, so the last to give its slot
\* back, by ending, timing out or a reset, must wake it; and a waiter told
\* "drained" never has one of them active again.
WaitersAreWoken ==
    \A w \in Waiters :
        /\ wait[w] \in StillWaiting => captured[w] \cap ActiveIn(lanes) # {}
        /\ wait[w] = "drained" => captured[w] \cap ActiveIn(lanes) = {}

\* Every caller is told an outcome in the end.
EveryPromiseSettles == \A e \in Entries : promise[e] = "pending" ~> promise[e] # "pending"
=============================================================================
