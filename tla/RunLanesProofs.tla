--------------------------- MODULE RunLanesProofs ---------------------------
(***************************************************************************)
(* Theorems about RunLanes: one live run per session and no circular wait, *)
(* for any number of runs, sessions, recoveries and restarts.              *)
(***************************************************************************)
EXTENDS RunLanes, CommandLanesProofs

\* The lane of e counts its task.
Held(e) == e \in lanes[LaneOf[e]].active

\* The task of e runs and its caller waits for it.
Working(e) == e \in executing /\ promise[e] = "pending"

\* A task that works has its slot, unless a reset took it.
SlotInv == \A e \in Entries : Working(e) => Held(e) \/ e \in condemned

\* A run works inside the task that put it into the global lane, and nothing
\* gives up on that task.
NestingInv ==
    \A r \in Runs :
        /\ Outer(r) \in executing => promise[Outer(r)] = "pending"
        /\ promise[Inner(r)] = "pending" => Outer(r) \in executing

\* A session's lane has one slot.
SessionInv ==
    \A l \in SessionLanes :
        lanes[l].maxConcurrent = 1 /\ Cardinality(lanes[l].active) <= 1

\* What a recovery noted is condemned.
RecoveryInv ==
    /\ recovery \in [SessionLanes -> SUBSET (Entries \cup {GlobalLane})]
    /\ \A l \in SessionLanes : recovery[l] # NoRecovery => recovery[l] \subseteq condemned

RunInv ==
    /\ IInv
    /\ SlotInv
    /\ NestingInv
    /\ SessionInv
    /\ RecoveryInv

-----------------------------------------------------------------------------
(* The entries of the runs and their lanes.                                *)

\* Each run has two entries, each its own, the one in a session's lane, the
\* other in the global one.
LEMMA RunEntries ==
    /\ \A r \in Runs :
          /\ Outer(r) \in Entries /\ Inner(r) \in Entries
          /\ LaneOf[Outer(r)] = SessionLaneOf[r] /\ LaneOf[Inner(r)] = GlobalLane
          /\ Outer(r) \notin TimedEntries
          /\ \A q \in Runs : Outer(r) # Inner(q) /\ (Outer(r) = Outer(q) => r = q)
                             /\ (Inner(r) = Inner(q) => r = q)
    /\ SessionLanes \subseteq Lanes \ {GlobalLane}
    /\ GlobalLane \in SharedLanes /\ GlobalLane \in Lanes
<1>1. \A r \in Runs : Outer(r) \in Entries /\ Inner(r) \in Entries
  BY RunsAssumption DEF Outer, Inner
<1>2. \A r, q \in Runs : Outer(r) # Inner(q) /\ (Outer(r) = Outer(q) => r = q)
                         /\ (Inner(r) = Inner(q) => r = q)
  BY DEF Outer, Inner
<1>3. \A r \in Runs : LaneOf[Outer(r)] \in Lanes
  BY <1>1, LanesAssumption
<1>4. SessionLanes \subseteq Lanes \ {GlobalLane}
  BY <1>3, RunsAssumption DEF SessionLanes
<1>5. GlobalLane \in SharedLanes /\ GlobalLane \in Lanes
  BY RunsAssumption, LanesAssumption
<1> QED  BY <1>1, <1>2, <1>4, <1>5, RunsAssumption

\* Every step here is a step of the lanes or leaves them alone.
LEMMA RunStepsAreLaneSteps ==
    ASSUME [RunNext]_runVars
    PROVE  [Next]_vars
<1>1. ASSUME NEW r \in Runs, RunStep(r)
      PROVE  \E e \in Entries : EntryStep(e)
  BY <1>1, RunEntries DEF RunStep, RunEmbeddedAgent, EnqueueGlobal, AbortBeforeGlobal, OuterEnds,
     InnerEnds, InnerTimesOut, InnerEndsLate, EntryStep
<1>2. ASSUME NEW l \in SessionLanes, SessionStep(l)
      PROVE  LaneStep(l) \/ UNCHANGED vars
  BY <1>2 DEF SessionStep, Interrupt, RecoveryStarts, RecoveryOfIdle, RecoveryResets,
     RecoveryLeaves, LaneStep
<1>3. Suspend \/ Resume \/ Configure => LaneStep(GlobalLane)
  BY RunEntries DEF Suspend, Resume, Configure, LaneStep
<1>4. RestartStep => Next \/ UNCHANGED vars
  BY DEF RestartStep, RestartSignal, RestartWaits, RestartWaitTimesOut, ServerCloses,
     RestartIteration, Next
<1> QED  BY <1>1, <1>2, <1>3, <1>4, RunEntries DEF RunNext, Next, runVars

-----------------------------------------------------------------------------
(* What a step does.                                                       *)

\* The parts of a step that the invariant turns on.
Effect ==
    /\ executing' \subseteq executing \cup Started
    /\ \A e \in Entries : promise'[e] = "pending" => promise[e] \in {"none", "pending"}
    /\ \A r \in Runs : promise'[Inner(r)] = "pending" => Outer(r) \in executing'
    /\ \A r \in Runs : Outer(r) \in executing' \ Started => promise'[Outer(r)] = "pending"
    /\ \A l \in SessionLanes : lanes'[l].maxConcurrent = lanes[l].maxConcurrent
    /\ \A e \in Entries : Held(e) /\ Working(e)' => Held(e)' \/ e \in condemned'
    /\ condemned \subseteq condemned'

\* Pumping a lane takes no task's slot and leaves the limit alone.
LEMMA PumpKeeps ==
    ASSUME NEW lane \in LaneStates, NEW e \in Entries, NEW seq, NEW n
    PROVE  /\ lane.active \subseteq Pumped(Queueing(lane, e, seq)).active
           /\ lane.active \ {e} \subseteq Pumped(Freed(lane, e)).active
           /\ lane.active \subseteq Pumped(Limited(lane, n)).active
           /\ lane.active = Limited(lane, n).active
           /\ Pumped(Queueing(lane, e, seq)).maxConcurrent = lane.maxConcurrent
           /\ Pumped(Freed(lane, e)).maxConcurrent = lane.maxConcurrent
           /\ Pumped(Idle(lane)).maxConcurrent = lane.maxConcurrent
BY DEF Pumped, Queueing, Freed, Limited, Idle, LaneStates

\* A call of enqueueCommandInLane.
LEMMA EnqueueEffect ==
    ASSUME RunInv, NEW e \in Entries, EnqueueCommandInLane(e), condemned' = condemned,
           \A r \in Runs : e = Inner(r) => Outer(r) \in executing
    PROVE  Effect
<1> DEFINE l == LaneOf[e]
<1>1. /\ TypeOK /\ ArrivalInv /\ NestingInv /\ l \in Lanes /\ lanes[l] \in LaneStates
      /\ promise[e] = "none"
  BY LanesAssumption DEF RunInv, IInv, TypeOK, EnqueueCommandInLane
<1>2. \A f \in Entries \ {e} : promise'[f] = promise[f]
  BY <1>1 DEF EnqueueCommandInLane, TypeOK
<1>3. executing \subseteq executing' /\ executing' \subseteq executing \cup Started
  BY DEF EnqueueCommandInLane, Run
<1>4. /\ \A k \in Lanes : lanes[k].active \subseteq lanes'[k].active
      /\ \A k \in Lanes : lanes'[k].maxConcurrent = lanes[k].maxConcurrent
  <2>1. CASE lanes' = lanes
    BY <2>1
  <2>2. CASE lanes' = [lanes EXCEPT ![l] = Pumped(Queueing(@, e, sequence'))]
    <3>1. /\ lanes'[l] = Pumped(Queueing(lanes[l], e, sequence'))
          /\ \A k \in Lanes \ {l} : lanes'[k] = lanes[k]
      BY <1>1, <2>2 DEF TypeOK
    <3>2. /\ lanes[l].active \subseteq Pumped(Queueing(lanes[l], e, sequence')).active
          /\ Pumped(Queueing(lanes[l], e, sequence')).maxConcurrent = lanes[l].maxConcurrent
      BY <1>1, PumpKeeps
    <3> HIDE DEF l
    <3> QED  BY <3>1, <3>2
  <2> QED  BY <2>1, <2>2 DEF EnqueueCommandInLane
<1>5. \A f \in Entries : LaneOf[f] \in Lanes
  BY LanesAssumption
<1>6. \A f \in executing : f # e
  BY <1>1 DEF ArrivalInv
<1>7. \A r \in Runs : promise'[Inner(r)] = "pending" => Outer(r) \in executing'
  BY <1>1, <1>2, <1>3, RunEntries DEF NestingInv
<1>8. \A r \in Runs : Outer(r) \in executing' \ Started => promise'[Outer(r)] = "pending"
  BY <1>1, <1>2, <1>3, <1>6, RunEntries DEF NestingInv
<1>9. \A f \in Entries : promise'[f] = "pending" => promise[f] \in {"none", "pending"}
  BY <1>1, <1>2
<1>10. \A f \in Entries : Held(f) => Held(f)'
  BY <1>4, <1>5 DEF Held
<1>11. \A k \in SessionLanes : lanes'[k].maxConcurrent = lanes[k].maxConcurrent
  BY <1>4, RunEntries
<1> QED  BY <1>3, <1>7, <1>8, <1>9, <1>10, <1>11 DEF Effect

\* A task ends or times out.
LEMMA SettleEffect ==
    ASSUME RunInv, NEW e \in Entries, condemned' = condemned,
           \/ TaskSettles(e) /\ \A r \in Runs : e = Outer(r) => promise[Inner(r)] # "pending"
           \/ TaskTimesOut(e)
    PROVE  Effect
<1> DEFINE l == LaneOf[e]
<1>1. TypeOK /\ NestingInv /\ l \in Lanes /\ lanes[l] \in LaneStates
  BY LanesAssumption DEF RunInv, IInv, TypeOK
<1>2. promise'[e] = "settled" /\ \A f \in Entries \ {e} : promise'[f] = promise[f]
  BY <1>1 DEF TaskSettles, TaskTimesOut, TypeOK
<1>3. executing' = executing \cup Started \/ executing' = (executing \ {e}) \cup Started
  BY DEF TaskSettles, TaskTimesOut, Run
<1>4. lanes' = lanes \/ lanes' = [lanes EXCEPT ![l] = Pumped(Freed(@, e))]
  BY DEF TaskSettles, TaskTimesOut, ReleaseSlot
<1>5. /\ \A k \in Lanes : lanes[k].active \ {e} \subseteq lanes'[k].active
      /\ \A k \in Lanes : lanes'[k].maxConcurrent = lanes[k].maxConcurrent
  <2>1. CASE lanes' = lanes
    BY <2>1
  <2>2. CASE lanes' = [lanes EXCEPT ![l] = Pumped(Freed(@, e))]
    <3>1. /\ lanes'[l] = Pumped(Freed(lanes[l], e))
          /\ \A k \in Lanes \ {l} : lanes'[k] = lanes[k]
      BY <1>1, <2>2 DEF TypeOK
    <3>2. /\ lanes[l].active \ {e} \subseteq Pumped(Freed(lanes[l], e)).active
          /\ Pumped(Freed(lanes[l], e)).maxConcurrent = lanes[l].maxConcurrent
      BY <1>1, PumpKeeps
    <3> HIDE DEF l
    <3> QED  BY <3>1, <3>2
  <2> QED  BY <1>4, <2>1, <2>2
<1>6. \A f \in Entries : LaneOf[f] \in Lanes
  BY LanesAssumption
<1>7. ASSUME NEW r \in Runs
      PROVE  /\ promise'[Inner(r)] = "pending" => Outer(r) \in executing'
             /\ Outer(r) \in executing' \ Started => promise'[Outer(r)] = "pending"
  <2>1. CASE e = Outer(r)
    <3>1. TaskSettles(e)
      BY <2>1, RunEntries DEF TaskTimesOut
    <3>2. promise[Inner(r)] # "pending" /\ promise'[Inner(r)] = promise[Inner(r)]
      BY <1>2, <2>1, <3>1, RunEntries DEF TaskTimesOut
    <3>3. executing' = (executing \ {e}) \cup Started
      BY <3>1 DEF TaskSettles, Run
    <3> QED  BY <2>1, <3>2, <3>3
  <2>2. CASE e # Outer(r)
    BY <1>1, <1>2, <1>3, <2>2, RunEntries DEF NestingInv
  <2> QED  BY <2>1, <2>2
<1>8. \A f \in Entries : promise'[f] = "pending" => promise[f] = "pending"
  BY <1>2
<1>9. \A f \in Entries : Held(f) /\ Working(f)' => Held(f)'
  BY <1>2, <1>5, <1>6 DEF Held, Working
<1> QED  BY <1>3, <1>5, <1>7, <1>8, <1>9, RunEntries DEF Effect

\* A task ends that nobody waits for.
LEMMA LateEffect ==
    ASSUME RunInv, NEW e \in Entries, LateTaskEnds(e), condemned' = condemned
    PROVE  Effect
<1>1. /\ executing' = executing \ {e} /\ promise[e] # "pending"
      /\ lanes' = lanes /\ promise' = promise /\ NestingInv
  BY DEF LateTaskEnds, RunInv
<1> QED  BY <1>1 DEF Effect, Held, NestingInv

\* A session's queue is cleared: none of what it held back works.
LEMMA ClearEffect ==
    ASSUME RunInv, NEW l \in SessionLanes, ClearCommandLane(l), condemned' = condemned
    PROVE  Effect
<1>1. TypeOK /\ NestingInv /\ LaneInv(l) /\ l \in Lanes /\ lanes[l] \in LaneStates
  BY RunEntries DEF RunInv, IInv, TypeOK
<1>2. /\ executing' = executing
      /\ \A e \in Entries : promise'[e] = IF e \in ToSet(lanes[l].queue) THEN "cleared"
                                          ELSE promise[e]
      /\ lanes' = [lanes EXCEPT ![l].queue = <<>>]
  BY DEF ClearCommandLane
<1>3. \A k \in Lanes : /\ lanes'[k].active = lanes[k].active
                       /\ lanes'[k].maxConcurrent = lanes[k].maxConcurrent
  BY <1>1, <1>2 DEF TypeOK, LaneStates
<1>4. \A e \in executing : e \notin ToSet(lanes[l].queue)
  BY <1>1 DEF LaneInv, Pending, ToSet
<1>5. \A e \in Entries : LaneOf[e] \in Lanes
  BY LanesAssumption
<1> QED  BY <1>1, <1>2, <1>3, <1>4, <1>5, RunEntries DEF Effect, Held, NestingInv

\* The global lane gets another limit.
LEMMA LimitEffect ==
    ASSUME RunInv, NEW n, SetCommandLaneConcurrency(GlobalLane, n), condemned' = condemned
    PROVE  Effect
<1>1. TypeOK /\ NestingInv /\ GlobalLane \in Lanes /\ lanes[GlobalLane] \in LaneStates
  BY RunEntries DEF RunInv, IInv, TypeOK
<1>2. /\ executing' = executing \cup Started /\ promise' = promise
      /\ lanes' = [lanes EXCEPT ![GlobalLane] = IF n = 0 THEN Limited(@, 0)
                                                ELSE Pumped(Limited(@, n))]
  BY DEF SetCommandLaneConcurrency, Run
<1>3. \A k \in Lanes : lanes[k].active \subseteq lanes'[k].active
  <2>1. PICK e : e \in Entries \/ Entries = {}
    OBVIOUS
  <2>2. lanes[GlobalLane].active \subseteq lanes'[GlobalLane].active
    BY <1>1, <1>2 DEF TypeOK, Pumped, Limited, LaneStates
  <2> QED  BY <1>1, <1>2, <2>2 DEF TypeOK
<1>4. \A k \in Lanes \ {GlobalLane} : lanes'[k] = lanes[k]
  BY <1>1, <1>2 DEF TypeOK
<1>5. \A e \in Entries : LaneOf[e] \in Lanes
  BY LanesAssumption
<1> QED  BY <1>1, <1>2, <1>3, <1>4, <1>5, RunEntries DEF Effect, Held, NestingInv

\* Lanes are reset, and all whose slots it takes are condemned.
LEMMA ResetEffect ==
    ASSUME RunInv, NEW S \in SUBSET Lanes,
           \A l \in Lanes : lanes'[l] = IF l \in S THEN Pumped(Idle(lanes[l])) ELSE lanes[l],
           \A l \in S : lanes[l].active \subseteq condemned',
           Run(executing), promise' = promise, condemned \subseteq condemned'
    PROVE  Effect
<1>1. TypeOK /\ NestingInv /\ \A l \in Lanes : lanes[l] \in LaneStates
  BY DEF RunInv, IInv, TypeOK
<1>2. executing' = executing \cup Started
  BY DEF Run
<1>3. \A l \in Lanes : lanes'[l].maxConcurrent = lanes[l].maxConcurrent
  BY <1>1 DEF Pumped, Idle, LaneStates
<1>4. \A e \in Entries : LaneOf[e] \in Lanes
  BY LanesAssumption
<1>5. \A e \in Entries : Held(e) => Held(e)' \/ e \in condemned'
  BY <1>4 DEF Held
<1> QED  BY <1>1, <1>2, <1>3, <1>5, RunEntries DEF Effect, NestingInv

\* Nothing moves but what recoveries and restarts note.
LEMMA QuietEffect ==
    ASSUME RunInv, lanes' = lanes, promise' = promise, executing' = executing,
           condemned \subseteq condemned'
    PROVE  Effect
<1>1. NestingInv
  BY DEF RunInv
<1>2. \A e \in Entries : Held(e) => Held(e)'
  BY DEF Held
<1> QED  BY <1>1, <1>2, RunEntries DEF Effect, NestingInv

-----------------------------------------------------------------------------
(* The steps.                                                              *)

\* A step of a run.
LEMMA RunStepEffect ==
    ASSUME RunInv, NEW r \in Runs, RunStep(r)
    PROVE  Effect /\ UNCHANGED <<recovery, condemned>>
<1>1. UNCHANGED <<recovery, condemned>>
  BY DEF RunStep, RunEmbeddedAgent, EnqueueGlobal, AbortBeforeGlobal, OuterEnds, InnerEnds,
     InnerTimesOut, InnerEndsLate, Unchanged
<1>2. CASE RunEmbeddedAgent(r)
  BY <1>1, <1>2, EnqueueEffect, RunEntries DEF RunEmbeddedAgent
<1>3. CASE EnqueueGlobal(r)
  BY <1>1, <1>3, EnqueueEffect, RunEntries DEF EnqueueGlobal
<1>4. CASE AbortBeforeGlobal(r) \/ OuterEnds(r)
  <2>1. promise[Inner(r)] # "pending" /\ TaskSettles(Outer(r))
    BY <1>4 DEF AbortBeforeGlobal, OuterEnds, Told
  <2>2. \A q \in Runs : Outer(r) = Outer(q) => promise[Inner(q)] # "pending"
    BY <2>1, RunEntries
  <2> QED  BY <1>1, <2>1, <2>2, SettleEffect, RunEntries
<1>5. CASE InnerEnds(r) \/ InnerTimesOut(r)
  <2>1. TaskSettles(Inner(r)) \/ TaskTimesOut(Inner(r))
    BY <1>5 DEF InnerEnds, InnerTimesOut
  <2>2. \A q \in Runs : Inner(r) # Outer(q)
    BY RunEntries
  <2> QED  BY <1>1, <2>1, <2>2, SettleEffect, RunEntries
<1>6. CASE InnerEndsLate(r)
  BY <1>1, <1>6, LateEffect, RunEntries DEF InnerEndsLate
<1> QED  BY <1>2, <1>3, <1>4, <1>5, <1>6 DEF RunStep

\* A session's lane that is reset when what it counts is condemned.
LEMMA ResetOneEffect ==
    ASSUME RunInv, NEW l \in SessionLanes, ResetCommandLane(l), condemned' = condemned,
           lanes[l].active \subseteq condemned
    PROVE  Effect
<1>1. TypeOK /\ l \in Lanes
  BY RunEntries DEF RunInv, IInv
<1>2. /\ lanes' = [lanes EXCEPT ![l] = Pumped(Idle(@))]
      /\ Run(executing) /\ promise' = promise
  BY DEF ResetCommandLane
<1>3. \A k \in Lanes : lanes'[k] = IF k \in {l} THEN Pumped(Idle(lanes[k])) ELSE lanes[k]
  BY <1>1, <1>2 DEF TypeOK
<1>4. {l} \in SUBSET Lanes /\ \A k \in {l} : lanes[k].active \subseteq condemned'
  BY <1>1
<1> QED  BY <1>2, <1>3, <1>4, ResetEffect

\* A message that interrupts, or a recovery.
LEMMA SessionStepEffect ==
    ASSUME RunInv, NEW l \in SessionLanes, SessionStep(l)
    PROVE  Effect /\ RecoveryInv'
<1>1. RecoveryInv /\ TypeOK /\ l \in Lanes
  BY RunEntries DEF RunInv, IInv
<1>2. CASE Interrupt(l)
  BY <1>1, <1>2, ClearEffect DEF Interrupt, Unchanged, RecoveryInv
<1>3. CASE RecoveryStarts(l)
  <2>1. /\ lanes' = lanes /\ promise' = promise /\ executing' = executing
        /\ condemned' = condemned \cup lanes[l].active
        /\ recovery' = [recovery EXCEPT ![l] = lanes[l].active]
    BY <1>3 DEF RecoveryStarts, vars, entryVars
  <2>2. lanes[l].active \subseteq Entries
    BY <1>1 DEF TypeOK, LaneStates
  <2>3. RecoveryInv'
    BY <1>1, <2>1, <2>2 DEF RecoveryInv
  <2> QED  BY <2>1, <2>3, QuietEffect
<1>4. CASE RecoveryOfIdle(l)
  BY <1>1, <1>4, ResetOneEffect DEF RecoveryOfIdle, Unchanged, RecoveryInv
<1>5. CASE RecoveryResets(l)
  <2>1. /\ lanes[l].active \subseteq condemned /\ ResetCommandLane(l)
        /\ condemned' = condemned
        /\ recovery' = [recovery EXCEPT ![l] = NoRecovery]
    BY <1>1, <1>5 DEF RecoveryResets, RecoveryInv
  <2>2. RecoveryInv'
    BY <1>1, <2>1 DEF RecoveryInv, NoRecovery
  <2> QED  BY <2>1, <2>2, ResetOneEffect
<1>6. CASE RecoveryLeaves(l)
  <2>1. /\ lanes' = lanes /\ promise' = promise /\ executing' = executing
        /\ condemned' = condemned
        /\ recovery' = [recovery EXCEPT ![l] = NoRecovery]
    BY <1>6 DEF RecoveryLeaves, vars, entryVars
  <2>2. RecoveryInv'
    BY <1>1, <2>1 DEF RecoveryInv, NoRecovery
  <2> QED  BY <2>1, <2>2, QuietEffect
<1> QED  BY <1>2, <1>3, <1>4, <1>5, <1>6 DEF SessionStep

\* A suspension, a restart.
LEMMA OutsideEffect ==
    ASSUME RunInv, Suspend \/ Resume \/ Configure \/ RestartStep \/ UNCHANGED runVars
    PROVE  Effect /\ RecoveryInv'
<1>1. RecoveryInv
  BY DEF RunInv
<1>2. condemned \subseteq condemned' /\ recovery' = recovery => RecoveryInv'
  BY <1>1 DEF RecoveryInv
<1>3. CASE Suspend \/ Resume \/ Configure
  <2>1. /\ \E n \in Limits \cup {0} : SetCommandLaneConcurrency(GlobalLane, n)
        /\ condemned' = condemned /\ recovery' = recovery
    BY <1>3 DEF Suspend, Resume, Configure, SuspendLane, ResumeLane,
       ApplyGatewayLaneConcurrency, Unchanged
  <2> QED  BY <1>2, <2>1, LimitEffect
<1>4. CASE RestartIteration
  <2>1. /\ \A l \in Lanes : lanes'[l] = Pumped(Idle(lanes[l]))
        /\ Run(executing) /\ promise' = promise
        /\ condemned' = condemned \cup ActiveIn(lanes) /\ recovery' = recovery
    BY <1>4 DEF RestartIteration, ResetAllLanes
  <2>2. \A l \in Lanes : lanes[l].active \subseteq condemned'
    BY <2>1 DEF ActiveIn
  <2>3. Effect
    BY <2>1, <2>2, ResetEffect
  <2> QED  BY <1>2, <2>1, <2>3
<1>5. ASSUME \/ RestartSignal \/ ServerCloses
             \/ \E w \in Waiters : RestartWaits(w) \/ RestartWaitTimesOut(w)
             \/ UNCHANGED runVars
      PROVE  Effect /\ RecoveryInv'
  <2>1. /\ lanes' = lanes /\ promise' = promise /\ executing' = executing
        /\ condemned' = condemned /\ recovery' = recovery
    BY <1>5 DEF RestartSignal, ServerCloses, RestartWaits, RestartWaitTimesOut, Unchanged,
       MarkGatewayDraining, WaitForActiveTasks, WaiterTimesOut, runVars, vars, entryVars
  <2> QED  BY <1>2, <2>1, QuietEffect
<1> QED  BY <1>3, <1>4, <1>5 DEF RestartStep

\* A step keeps the invariant.
LEMMA RunStepPreserves ==
    ASSUME RunInv, [RunNext]_runVars
    PROVE  RunInv'
<1>1. Effect /\ RecoveryInv'
  <2>1. ASSUME NEW r \in Runs, RunStep(r) PROVE Effect /\ RecoveryInv'
    BY <2>1, RunStepEffect DEF RunInv, RecoveryInv
  <2> QED  BY <2>1, SessionStepEffect, OutsideEffect DEF RunNext
<1>2. IInv /\ IInv' /\ \A l \in Lanes : GoodStep(l)
  BY RunStepsAreLaneSteps, StepPreserves DEF RunInv
<1>3. ASSUME NEW e \in Entries, Working(e)' PROVE Held(e)' \/ e \in condemned'
  <2>1. CASE e \in Started
    BY <2>1 DEF Started, Held
  <2>2. CASE e \notin Started
    <3>1. e \in executing /\ promise[e] \in {"none", "pending"}
      BY <1>1, <1>3, <2>2 DEF Effect, Working
    <3>2. Working(e)
      BY <1>2, <3>1 DEF IInv, ArrivalInv, Working
    <3> QED  BY <1>1, <1>3, <3>2 DEF RunInv, SlotInv, Effect
  <2> QED  BY <2>1, <2>2
<1>4. ASSUME NEW r \in Runs
      PROVE  /\ Outer(r) \in executing' => promise'[Outer(r)] = "pending"
             /\ promise'[Inner(r)] = "pending" => Outer(r) \in executing'
  <2>1. Outer(r) \in Started => promise'[Outer(r)] = "pending"
    BY <1>2, StartedArePending
  <2> QED  BY <1>1, <2>1 DEF Effect
<1>5. ASSUME NEW l \in SessionLanes
      PROVE  lanes'[l].maxConcurrent = 1 /\ Cardinality(lanes'[l].active) <= 1
  <2>1. /\ l \in Lanes /\ lanes[l] \in LaneStates /\ GoodStep(l)
        /\ lanes[l].maxConcurrent = 1 /\ Cardinality(lanes[l].active) <= 1
        /\ lanes'[l].maxConcurrent = 1
    BY <1>1, <1>2, RunEntries DEF RunInv, IInv, TypeOK, SessionInv, Effect
  <2>2. CASE lanes'[l].active \subseteq lanes[l].active
    <3>1. IsFiniteSet(lanes[l].active) /\ Cardinality(lanes[l].active) \in Nat
      BY <2>1, StartableBounds
    <3>2. /\ Cardinality(lanes'[l].active) <= Cardinality(lanes[l].active)
          /\ Cardinality(lanes'[l].active) \in Nat
      BY <2>2, <3>1, FS_Subset, FS_CardinalityType
    <3> QED  BY <2>1, <3>1, <3>2
  <2>3. CASE ~(lanes'[l].active \subseteq lanes[l].active)
    BY <2>1, <2>3 DEF GoodStep
  <2> QED  BY <2>2, <2>3
<1> QED  BY <1>1, <1>2, <1>3, <1>4, <1>5 DEF RunInv, SlotInv, NestingInv, SessionInv

\* Initially nothing has arrived.
LEMMA RunInitEstablishes ==
    ASSUME RunInit
    PROVE  RunInv
<1>1. IInv
  BY InitEstablishes DEF RunInit
<1>2. /\ executing = {} /\ \A e \in Entries : promise[e] = "none"
      /\ \A l \in Lanes : lanes[l].maxConcurrent = 1 /\ lanes[l].active = {}
      /\ recovery = [l \in SessionLanes |-> NoRecovery]
  BY DEF RunInit, Init
<1>3. SlotInv /\ NestingInv
  BY <1>2, RunEntries DEF SlotInv, NestingInv, Working
<1>4. SessionInv
  BY <1>2, RunEntries, FS_EmptySet DEF SessionInv
<1>5. RecoveryInv
  BY <1>2 DEF RecoveryInv, NoRecovery
<1> QED  BY <1>1, <1>3, <1>4, <1>5 DEF RunInv

LEMMA RunSpecInv == RunSpec => []RunInv
BY RunInitEstablishes, RunStepPreserves, PTL DEF RunSpec

-----------------------------------------------------------------------------
(* Who waits for whom.                                                     *)

LEMMA RunSpecLosesNothing == RunSpec => []NothingIsLost
<1>1. RunInit => NothingIsLost
  BY InitLosesNothing DEF RunInit
<1>2. RunInv /\ NothingIsLost /\ [RunNext]_runVars => NothingIsLost'
  BY RunStepsAreLaneSteps, WorkPreserves DEF RunInv
<1> QED  BY <1>1, <1>2, RunSpecInv, PTL DEF RunSpec

\* A lane that holds an entry back counts as many tasks as it may run, each
\* of them at work for its caller.
LEMMA HeldBack ==
    ASSUME RunInv, NothingIsLost, NEW e \in Entries, promise[e] = "pending",
           e \notin executing, NEW l \in Lanes, LaneOf[e] = l
    PROVE  /\ Cardinality(lanes[l].active) >= lanes[l].maxConcurrent
           /\ \A f \in lanes[l].active : f \in Entries /\ LaneOf[f] = l /\ Working(f)
<1>1. /\ TypeOK /\ LaneInv(l) /\ lanes[l] \in LaneStates
  BY DEF RunInv, IInv, TypeOK
<1>2. e \in ToSet(lanes[l].queue)
  BY DEF NothingIsLost
<1>3. lanes[l].queue # <<>>
  BY <1>1, <1>2 DEF ToSet
<1>4. \A f \in lanes[l].active : f \in executing
  BY DEF NothingIsLost, ActiveIn
<1>5. \A f \in lanes[l].active : f \in Entries /\ LaneOf[f] = l /\ promise[f] = "pending"
  BY <1>1, LaneEntries
<1> QED  BY <1>1, <1>3, <1>4, <1>5 DEF LaneInv, Full, Working

\* The entries of the global lane are those of as many runs.
LEMMA GlobalSlots ==
    ASSUME NEW S \in SUBSET Entries, \A e \in S : LaneOf[e] = GlobalLane,
           NEW R \in SUBSET Runs, \A r \in Runs : Inner(r) \in S => r \in R
    PROVE  Cardinality(S) <= Cardinality(R) /\ Cardinality(R) \in Nat
<1> DEFINE inner == [r \in R |-> Inner(r)]
           run == [e \in S |-> CHOOSE r \in R : Inner(r) = e]
<1>1. inner \in Injection(R, Entries)
  BY RunEntries DEF Injection, IsInjective
<1>2. IsFiniteSet(R) /\ Cardinality(R) \in Nat
  BY <1>1, FS_Injection, FS_CardinalityType, LanesAssumption
<1>3. ASSUME NEW e \in S PROVE \E r \in R : Inner(r) = e
  <2>1. PICK r \in Runs : e = Inner(r) \/ e = Outer(r)
    BY RunsAssumption DEF Inner, Outer
  <2>2. e # Outer(r)
    BY RunEntries, RunsAssumption DEF SessionLanes
  <2> QED  BY <2>1, <2>2
<1>4. \A e \in S : run[e] \in R /\ Inner(run[e]) = e
  BY <1>3
<1> HIDE DEF inner
<1>5. run \in [S -> R]
  BY <1>4
<1> HIDE DEF run
<1>6. run \in Injection(S, R)
  BY <1>4, <1>5 DEF Injection, IsInjective
<1> QED  BY <1>2, <1>6, FS_Injection

-----------------------------------------------------------------------------
(* The theorems.                                                           *)

\* The runs, with all that interrupts, recovers and restarts them, use the
\* lanes only as CommandLanes says they are used.
THEOREM RunsUseTheLanes == RunSpec => Init /\ [][Next]_vars
<1>1. RunInit => Init
  BY DEF RunInit
<1>2. [RunNext]_runVars => [Next]_vars
  BY RunStepsAreLaneSteps
<1> QED  BY <1>1, <1>2, PTL DEF RunSpec

\* So no lane, a session's or the global one, holds back a run it has room
\* for.
THEOREM RunsNeverStrand == RunSpec => []NoStrandedWork
<1>1. RunInv => NoStrandedWork
  BY DEF RunInv, IInv, LaneInv, Full, NoStrandedWork
<1> QED  BY <1>1, RunSpecInv, PTL

\* Two runs that work in one session at a time: the caller of one was told
\* that it timed out, or a recovery or a restart found it at work.
THEOREM OneLiveRunHolds == RunSpec => []OneLiveRunPerSession
<1>1. ASSUME RunInv, NEW r \in Runs, NEW q \in Runs, r # q,
             SessionLaneOf[r] = SessionLaneOf[q], Executes(r), Executes(q),
             \A x \in {r, q} : ~Told(Inner(x)) /\ Outer(x) \notin condemned
      PROVE  FALSE
  <2> DEFINE l == SessionLaneOf[r]
  <2>1. ASSUME NEW x \in {r, q} PROVE Outer(x) \in lanes[l].active
    <3>1. promise[Inner(x)] \in Promises /\ promise[Inner(x)] # "none"
      BY <1>1, RunEntries DEF RunInv, IInv, TypeOK, ArrivalInv, Executes
    <3>2. promise[Inner(x)] = "pending"
      BY <1>1, <3>1 DEF Promises, Told
    <3>3. Working(Outer(x))
      BY <1>1, <3>2 DEF RunInv, NestingInv, Working
    <3> QED  BY <1>1, <3>3, RunEntries DEF RunInv, SlotInv, Held
  <2>2. /\ l \in SessionLanes /\ l \in Lanes /\ lanes[l] \in LaneStates
        /\ Cardinality(lanes[l].active) <= 1
    BY <1>1, RunEntries DEF RunInv, IInv, TypeOK, SessionInv, SessionLanes
  <2>3. IsFiniteSet(lanes[l].active) /\ Cardinality(lanes[l].active) \in Nat
    BY <2>2, StartableBounds
  <2>4. Outer(r) # Outer(q)
    BY <1>1, RunEntries
  <2>5. {Outer(r), Outer(q)} \subseteq lanes[l].active
    BY <2>1
  <2>6. Cardinality({Outer(r), Outer(q)}) = 2
    <3>1. Cardinality({Outer(r)}) = 1 /\ IsFiniteSet({Outer(r)})
      BY FS_Singleton
    <3>2. Cardinality({Outer(r)} \cup {Outer(q)}) = Cardinality({Outer(r)}) + 1
      BY <2>4, <3>1, FS_AddElement
    <3>3. {Outer(r)} \cup {Outer(q)} = {Outer(r), Outer(q)}
      OBVIOUS
    <3> QED  BY <3>1, <3>2, <3>3
  <2>7. Cardinality({Outer(r), Outer(q)}) <= Cardinality(lanes[l].active)
    BY <2>3, <2>5, FS_Subset
  <2> QED  BY <2>2, <2>3, <2>6, <2>7
<1>2. RunInv => OneLiveRunPerSession
  BY <1>1 DEF OneLiveRunPerSession
<1> QED  BY <1>2, RunSpecInv, PTL

\* The lanes of the sessions wait for the global lane and it waits for none
\* of them: its slots are taken by runs at work.
THEOREM NoCircularWaitHolds == RunSpec => []NoCircularWait
<1>1. ASSUME RunInv, NothingIsLost, NEW r \in Runs, promise[Outer(r)] = "pending"
      PROVE  \E q \in Runs :
                SessionLaneOf[q] = SessionLaneOf[r] /\ Working(Outer(q))
  <2> DEFINE l == SessionLaneOf[r]
  <2>1. CASE Outer(r) \in executing
    BY <1>1, <2>1 DEF Working
  <2>2. CASE Outer(r) \notin executing
    <3>1. /\ Outer(r) \in Entries /\ LaneOf[Outer(r)] = l /\ l \in Lanes \ {GlobalLane}
          /\ l \in SessionLanes
      BY RunEntries DEF SessionLanes
    <3>2. /\ Cardinality(lanes[l].active) >= 1
          /\ \A f \in lanes[l].active : f \in Entries /\ LaneOf[f] = l /\ Working(f)
      <4>1. lanes[l].maxConcurrent = 1
        BY <1>1, <3>1 DEF RunInv, SessionInv
      <4> HIDE DEF l
      <4> QED  BY <1>1, <2>2, <3>1, <4>1, HeldBack
    <3>3. PICK f : f \in lanes[l].active
      BY <3>2, FS_EmptySet
    <3>4. PICK q \in Runs : f = Outer(q) \/ f = Inner(q)
      BY <3>2, <3>3, RunsAssumption DEF Inner, Outer
    <3>5. f = Outer(q)
      BY <3>1, <3>2, <3>3, <3>4, RunEntries
    <3> QED  BY <3>2, <3>3, <3>5, RunEntries
  <2> QED  BY <2>1, <2>2
<1>2. ASSUME RunInv, NothingIsLost, NEW q \in Runs, promise[Inner(q)] = "pending"
      PROVE  q \in AtWork \/ Cardinality(AtWork) >= lanes[GlobalLane].maxConcurrent
  <2> SUFFICES ASSUME Inner(q) \notin executing
               PROVE  Cardinality(AtWork) >= lanes[GlobalLane].maxConcurrent
    BY <1>2 DEF AtWork, Executes
  <2> DEFINE S == lanes[GlobalLane].active
  <2>1. /\ Inner(q) \in Entries /\ LaneOf[Inner(q)] = GlobalLane /\ GlobalLane \in Lanes
        /\ lanes[GlobalLane] \in LaneStates
    BY <1>2, RunEntries DEF RunInv, IInv, TypeOK
  <2>2. /\ Cardinality(S) >= lanes[GlobalLane].maxConcurrent
        /\ \A f \in S : f \in Entries /\ LaneOf[f] = GlobalLane /\ Working(f)
    BY <1>2, <2>1, HeldBack
  <2>3. \A x \in Runs : Inner(x) \in S => x \in AtWork
    BY <2>2 DEF AtWork, Executes, Working
  <2>4. AtWork \in SUBSET Runs
    BY DEF AtWork
  <2>5. /\ Cardinality(S) \in Nat /\ lanes[GlobalLane].maxConcurrent \in Nat
    BY <2>1, StartableBounds
  <2> HIDE DEF S
  <2>6. Cardinality(S) <= Cardinality(AtWork) /\ Cardinality(AtWork) \in Nat
    BY <2>2, <2>3, <2>4, GlobalSlots
  <2> QED  BY <2>2, <2>5, <2>6
<1>3. RunInv /\ NothingIsLost => NoCircularWait
  BY <1>1, <1>2 DEF NoCircularWait, Working
<1> QED  BY <1>3, RunSpecInv, RunSpecLosesNothing, PTL
=============================================================================
