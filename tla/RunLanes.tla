------------------------------ MODULE RunLanes -------------------------------
(***************************************************************************)
(* Agent runs on the command lanes: runEmbeddedAgent puts a run into its   *)
(* session's lane, and the task it runs there puts the run itself into the *)
(* global lane and waits for it.  With it the three that act on the lanes  *)
(* from outside: an interrupting message that clears a session's lane, the *)
(* recovery of a stuck session, and an in-process restart of the gateway.  *)
(***************************************************************************)
EXTENDS CommandLanes

CONSTANTS
    Runs,           \* calls of runEmbeddedAgent
    SessionLaneOf,  \* the lane of each run's session
    GlobalLane      \* resolveGlobalLane, "main" for every run here

Outer(r) == <<r, "session">>
Inner(r) == <<r, "global">>

SessionLanes == {SessionLaneOf[r] : r \in Runs}

\* Both entries of a run have its priority, and only the inner a time-out: when
\* the run's timeoutMs is positive and finite, it is one of the TimedEntries.
ASSUME RunsAssumption ==
    /\ Entries = Runs \X {"session", "global"}
    /\ GlobalLane \notin SessionLanes
    /\ SharedLanes = {GlobalLane}
    /\ \A r \in Runs : /\ LaneOf[Outer(r)] = SessionLaneOf[r]
                       /\ LaneOf[Inner(r)] = GlobalLane
                       /\ PriorityOf[Outer(r)] = PriorityOf[Inner(r)]
                       /\ Outer(r) \notin TimedEntries

VARIABLES
    recovery,   \* per session lane: what its recovery under way saw active
    restart,    \* the restart: "up", "draining" or "closing"
    condemned   \* history: entries a recovery or a restart found at work

NoRecovery == {GlobalLane}
runVars == <<vars, recovery, restart, condemned>>

\* The run's own work happens in the task of its inner entry.
Executes(r) == Inner(r) \in executing

Told(e) == promise[e] \in {"settled", "cleared", "refused"}

RunInit ==
    /\ Init
    /\ recovery = [l \in SessionLanes |-> NoRecovery]
    /\ restart = "up"
    /\ condemned = {}

-----------------------------------------------------------------------------
(* A run.                                                                  *)

Unchanged == UNCHANGED <<recovery, restart, condemned>>

RunEmbeddedAgent(r) == EnqueueCommandInLane(Outer(r)) /\ Unchanged

\* The outer task, once any maintenance of the session is over.
EnqueueGlobal(r) ==
    /\ Outer(r) \in executing
    /\ EnqueueCommandInLane(Inner(r)) /\ Unchanged

\* throwIfAborted before the run is put into the global lane.
AbortBeforeGlobal(r) ==
    /\ promise[Inner(r)] = "none"
    /\ TaskSettles(Outer(r)) /\ Unchanged

\* The outer task ends with the outcome of the inner one.
OuterEnds(r) ==
    /\ Told(Inner(r))
    /\ TaskSettles(Outer(r)) /\ Unchanged

\* An outer task whose lane was reset is not wanted and still ends so.
InnerEnds(r) == TaskSettles(Inner(r)) /\ Unchanged
InnerTimesOut(r) == TaskTimesOut(Inner(r)) /\ Unchanged
InnerEndsLate(r) == LateTaskEnds(Inner(r)) /\ Unchanged

-----------------------------------------------------------------------------
(* From outside.                                                           *)

\* A message in interrupt mode, an abort and a reset of the session clear its
\* queue.
Interrupt(l) == ClearCommandLane(l) /\ Unchanged

Suspend == SuspendLane(GlobalLane) /\ Unchanged
Resume == ResumeLane(GlobalLane) /\ Unchanged
Configure == ApplyGatewayLaneConcurrency(GlobalLane) /\ Unchanged

\* recoverStuckDiagnosticSession notes the active tasks and awaits the abort
\* of the run the session is busy with.
RecoveryStarts(l) ==
    /\ recovery[l] = NoRecovery
    /\ \E r \in Runs : SessionLaneOf[r] = l /\ Executes(r)
    /\ recovery' = [recovery EXCEPT ![l] = lanes[l].active]
    /\ condemned' = condemned \cup lanes[l].active
    /\ UNCHANGED <<vars, restart>>

\* Without such a run it resets an idle lane at once and keeps a busy one.
RecoveryOfIdle(l) ==
    /\ recovery[l] = NoRecovery
    /\ \A r \in Runs : SessionLaneOf[r] = l => ~Executes(r)
    /\ lanes[l].active = {}
    /\ ResetCommandLane(l) /\ Unchanged

\* A plausible bug: the lane is reset whatever started while it waited.
RecoveryResets_Blindly(l) ==
    /\ recovery[l] # NoRecovery
    /\ ResetCommandLane(l)
    /\ recovery' = [recovery EXCEPT ![l] = NoRecovery]
    /\ UNCHANGED <<restart, condemned>>

\* Then it resets the lane, unless a task started there meanwhile.
RecoveryResets(l) ==
    /\ recovery[l] # NoRecovery
    /\ lanes[l].active \subseteq recovery[l]
    /\ ResetCommandLane(l)
    /\ recovery' = [recovery EXCEPT ![l] = NoRecovery]
    /\ UNCHANGED <<restart, condemned>>

\* It leaves a lane that went on by itself, or whose run ended with no other
\* in the queue.
RecoveryLeaves(l) ==
    /\ recovery[l] # NoRecovery
    /\ ~(lanes[l].active \subseteq recovery[l]) \/ lanes[l].queue = <<>>
    /\ recovery' = [recovery EXCEPT ![l] = NoRecovery]
    /\ UNCHANGED <<vars, restart, condemned>>

\* SIGUSR1: the gateway refuses new work, waits for the active tasks, closes
\* its server, and starts again with all lanes reset.
RestartSignal ==
    /\ restart = "up" /\ restart' = "draining"
    /\ MarkGatewayDraining
    /\ UNCHANGED <<recovery, condemned>>

RestartWaits(w) ==
    /\ restart = "draining"
    /\ WaitForActiveTasks(w) /\ Unchanged

RestartWaitTimesOut(w) == WaiterTimesOut(w) /\ Unchanged

\* Drained, out of time, or forced and not waiting at all.
ServerCloses ==
    /\ restart = "draining" /\ restart' = "closing"
    /\ \A w \in Waiters : wait[w] \notin StillWaiting
    /\ UNCHANGED <<vars, recovery, condemned>>

RestartIteration ==
    /\ restart = "closing" /\ restart' = "up"
    /\ ResetAllLanes
    /\ condemned' = condemned \cup ActiveIn(lanes)
    /\ UNCHANGED recovery

-----------------------------------------------------------------------------
RunStep(r) ==
    \/ RunEmbeddedAgent(r)
    \/ EnqueueGlobal(r)
    \/ AbortBeforeGlobal(r)
    \/ OuterEnds(r)
    \/ InnerEnds(r)
    \/ InnerTimesOut(r)
    \/ InnerEndsLate(r)

SessionStep(l) ==
    \/ Interrupt(l)
    \/ RecoveryStarts(l)
    \/ RecoveryOfIdle(l)
    \/ RecoveryResets(l)
    \/ RecoveryLeaves(l)

RestartStep ==
    \/ RestartSignal
    \/ \E w \in Waiters : RestartWaits(w) \/ RestartWaitTimesOut(w)
    \/ ServerCloses
    \/ RestartIteration

RunNext ==
    \/ \E r \in Runs : RunStep(r)
    \/ \E l \in SessionLanes : SessionStep(l)
    \/ Suspend \/ Resume \/ Configure
    \/ RestartStep

\* A run ends or falls silent until its timer fires, a suspended lane has a
\* timer, and what a run does between its two entries takes finite time.
RunFairness ==
    /\ \A r \in Runs : /\ WF_runVars(EnqueueGlobal(r) \/ AbortBeforeGlobal(r))
                       /\ WF_runVars(OuterEnds(r))
                       /\ WF_runVars(InnerEnds(r) \/ InnerTimesOut(r))
    /\ WF_runVars(Resume)

RunSpec == RunInit /\ [][RunNext]_runVars /\ RunFairness

-----------------------------------------------------------------------------
(* Properties.                                                             *)

\* One run at a time works in a session: of two that do, the caller of one
\* has been given up by its time-out, or a recovery or a restart found it at
\* work.  In particular a recovery never takes the slot of a run that
\* started after the stuck one it is about.
OneLiveRunPerSession ==
    \A r, q \in Runs :
        (r # q /\ SessionLaneOf[r] = SessionLaneOf[q] /\ Executes(r) /\ Executes(q))
            => \E x \in {r, q} : Told(Inner(x)) \/ Outer(x) \in condemned

\* The tasks of the global lane that are at work for a caller.
AtWork == {r \in Runs : Executes(r) /\ promise[Inner(r)] = "pending"}

\* The two lanes never wait for each other: behind every caller that waits
\* there is a run of its session that has its turn there, and that is between
\* its entries, at work, or kept back by a global lane that is suspended or
\* whose slots are all taken by runs at work.  So no run holds a slot of the
\* global lane while it waits, whatever was cleared, recovered or restarted.
NoCircularWait ==
    \A r \in Runs : promise[Outer(r)] = "pending" =>
        \E q \in Runs :
            /\ SessionLaneOf[q] = SessionLaneOf[r]
            /\ Outer(q) \in executing /\ promise[Outer(q)] = "pending"
            /\ promise[Inner(q)] = "pending" =>
                 \/ q \in AtWork
                 \/ Cardinality(AtWork) >= lanes[GlobalLane].maxConcurrent

\* Every caller of runEmbeddedAgent is answered: the two lanes never wait for
\* each other, whatever is suspended, cleared, recovered or restarted.
EveryRunIsAnswered ==
    \A r \in Runs : promise[Outer(r)] = "pending" ~> Told(Outer(r))

=============================================================================
