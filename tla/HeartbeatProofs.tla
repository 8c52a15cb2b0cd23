--------------------------- MODULE HeartbeatProofs ----------------------------
(***************************************************************************)
(* Theorems about Heartbeat, for any number of agents, targets, runners,   *)
(* wakes and changes.                                                      *)
(*                                                                         *)
(* The invariant that carries them: a slot without a batch is empty, a     *)
(* batch has only wakes it took, and, as long as no runner was started     *)
(* over a batch, running is TRUE while there is one and there is one only. *)
(***************************************************************************)
EXTENDS Heartbeat, TLAPS

BatchInv ==
    \A b \in Batches :
        /\ ~Active(b) => batch[b].left = {} /\ batch[b].now = NoTarget
        /\ \A t \in batch[b].left : batch[b].taken[t] # None
        /\ batch[b].now # NoTarget => batch[b].taken[batch[b].now] # None

LiveInv == live => started # 0

RunningInv == overlapped \/ \A b \in Batches : Active(b) => running

-----------------------------------------------------------------------------
(* The operators of the layer.                                             *)

\* A timer that schedule leaves is set.
LEMMA ScheduledIsSet ==
    ASSUME TypeOK, NEW kind \in {"normal", "retry"}, NEW tm \in Scheduled(kind)
    PROVE  tm \in {"normal", "retry"}
BY DEF TypeOK, Scheduled

\* A queue stays one, loses no wake, and has those that were asked for.
LEMMA QueuedKeeps ==
    ASSUME TypeOK, NEW asked \in [Targets -> Levels]
    PROVE  /\ Queued(asked) \in [Targets -> Levels]
           /\ \A t \in Targets :
                Queued(asked)[t] = None <=> pending[t] = None /\ asked[t] = None
BY DEF TypeOK, Queued, Levels, None, Action

LEMMA OneType ==
    ASSUME NEW t \in Targets, NEW level \in Levels
    PROVE  One(t, level) \in [Targets -> Levels] /\ One(t, level)[t] = level
BY DEF One, Levels, None, Action

\* A wake is pending and has a timer.
LEMMA WakeKeeps ==
    ASSUME TypeOK, NEW t \in Targets, NEW level \in Levels \ {None}, Wake(t, level)
    PROVE  /\ pending' \in [Targets -> Levels]
           /\ timer' \in {"normal", "retry"}
           /\ waiting' \subseteq Targets
           /\ pending'[t] # None /\ waiting' = waiting \cup {t}
           /\ \A u \in Targets : pending[u] # None => pending'[u] # None
<1>1. One(t, level) \in [Targets -> Levels] /\ One(t, level)[t] = level
  BY OneType
<1>2. pending' \in [Targets -> Levels] /\ pending'[t] # None
  BY <1>1, QueuedKeeps DEF Wake
<1>3. \A u \in Targets : pending[u] # None => pending'[u] # None
  BY <1>1, QueuedKeeps DEF Wake
<1>4. timer' \in {"normal", "retry"}
  BY ScheduledIsSet DEF Wake
<1> QED
  BY <1>2, <1>3, <1>4 DEF Wake, TypeOK

LEMMA AllIsTarget == All \in Targets /\ NoTarget \notin Targets
BY HeartbeatAssumption DEF Targets

LEMMA NoBatchType == NoBatch \in BatchType
BY HeartbeatAssumption DEF NoBatch, BatchType, Levels, None, Action

\* A batch with other fields is one.
LEMMA BatchFields ==
    ASSUME NEW r \in BatchType, NEW left \in SUBSET Targets,
           NEW now \in Targets \cup {NoTarget}, NEW asked \in SUBSET Agents
    PROVE  /\ [r EXCEPT !.left = left] \in BatchType
           /\ [r EXCEPT !.left = left, !.now = now, !.current = TRUE, !.asked = asked] \in BatchType
           /\ [r EXCEPT !.now = now, !.asked = asked] \in BatchType
           /\ [r EXCEPT !.current = FALSE] \in BatchType
BY DEF BatchType

-----------------------------------------------------------------------------
(* Type correctness.                                                       *)

LEMMA InitType == Init => TypeOK
<1> SUFFICES ASSUME Init PROVE TypeOK
  OBVIOUS
<1>1. batch \in [Batches -> BatchType]
  BY NoBatchType DEF Init
<1>2. pending \in [Targets -> Levels]
  BY DEF Init, Levels, None, Action
<1>3. started \in 0..MaxRunners /\ requests \in 0..MaxRequests /\ changes \in 0..MaxChanges
  BY HeartbeatAssumption DEF Init
<1> QED
  BY <1>1, <1>2, <1>3 DEF Init, TypeOK

LEMMA RecordType ==
    ASSUME TypeOK, NEW b \in Batches, NEW served \in SUBSET Agents, Record(b, served)
    PROVE  due' \subseteq agents /\ ran' \subseteq Agents
BY DEF TypeOK, Record

LEMMA CallStepType ==
    ASSUME TypeOK, NEW b \in Batches, CallStep(b)
    PROVE  TypeOK'
<1>b. batch[b] \in BatchType /\ b \in DOMAIN batch
  BY DEF TypeOK
<1>1. CASE EndBatch(b)
  <2>1. batch' \in [Batches -> BatchType]
    BY <1>1, NoBatchType DEF EndBatch, TypeOK
  <2>2. timer' \in {"none", "normal", "retry"}
    BY <1>1, ScheduledIsSet DEF EndBatch, TypeOK
  <2> QED
    BY <1>1, <2>1, <2>2 DEF EndBatch, TypeOK, beats, life
<1>2. ASSUME NEW t \in Targets, Refuse(b, t) PROVE TypeOK'
  <2>1. batch' \in [Batches -> BatchType]
    <3>1. [batch[b] EXCEPT !.left = batch[b].left \ {t}] \in BatchType
      <4>1. batch[b].left \ {t} \in SUBSET Targets
        BY <1>b DEF BatchType
      <4> QED
        BY <1>b, <4>1, BatchFields, AllIsTarget
    <3> QED
      BY <1>2, <3>1 DEF Refuse, TypeOK
  <2> QED
    BY <1>2, <2>1 DEF Refuse, TypeOK, beats, life
<1>3. ASSUME NEW t \in Targets, BeginCall(b, t) PROVE TypeOK'
  <2>1. PICK limited \in SUBSET (Named(t) \cap ran) :
          /\ due' = due \ limited
          /\ batch' = [batch EXCEPT ![b] = [batch[b] EXCEPT
               !.left = batch[b].left \ {t}, !.now = t, !.current = TRUE,
               !.asked = {a \in Named(t) \ limited : Runs(a, batch[b].taken[t])}]]
    BY <1>3 DEF BeginCall
  <2>2. {a \in Named(t) \ limited : Runs(a, batch[b].taken[t])} \subseteq Agents
    BY DEF Named, TypeOK
  <2>3. batch' \in [Batches -> BatchType]
    <3> DEFINE now == [batch[b] EXCEPT !.left = batch[b].left \ {t}, !.now = t, !.current = TRUE,
                 !.asked = {a \in Named(t) \ limited : Runs(a, batch[b].taken[t])}]
    <3>1. now \in BatchType
      <4>1. batch[b].left \ {t} \in SUBSET Targets
        BY <1>b DEF BatchType
      <4> QED
        BY <1>b, <2>2, <4>1, BatchFields
    <3>2. batch' = [batch EXCEPT ![b] = now]
      BY <2>1
    <3> HIDE DEF now
    <3> QED
      BY <3>1, <3>2 DEF TypeOK
  <2> QED
    BY <1>3, <2>1, <2>3 DEF BeginCall, TypeOK, life
<1>4. ASSUME NEW busy \in SUBSET batch[b].asked, Return(b, busy) PROVE TypeOK'
  <2>1. batch' \in [Batches -> BatchType]
    <3>1. [batch[b] EXCEPT !.now = NoTarget, !.asked = {}] \in BatchType
      BY <1>b DEF BatchType
    <3> QED
      BY <1>4, <3>1 DEF Return, TypeOK
  <2>2. due' \subseteq agents /\ ran' \subseteq Agents
    <3>1. PICK late \in SUBSET busy : Record(b, (batch[b].asked \ busy) \cup late)
      BY <1>4 DEF Return, RecordServed
    <3>2. (batch[b].asked \ busy) \cup late \in SUBSET Agents
      BY <1>b, <3>1 DEF BatchType
    <3> QED
      BY <3>1, <3>2, RecordType
  <2>3. armed' \in BOOLEAN /\ refused' \in BOOLEAN
    BY <1>4 DEF Return, Arm, TypeOK
  <2>4. pending' \in [Targets -> Levels] /\ timer' \in {"none", "normal", "retry"}
        /\ waiting' \subseteq Targets
    <3>1. batch[b].now \in Targets
      BY <1>4, <1>b DEF Return, Settled, InLoop, BatchType
    <3>2. batch[b].taken[batch[b].now] \in Levels
      BY <1>b, <3>1 DEF BatchType
    <3>3. CASE busy = {}
      BY <1>4, <3>3 DEF Return, wakes, TypeOK
    <3>4. CASE busy # {}
      <4>1. pending' = Queued(One(batch[b].now, batch[b].taken[batch[b].now]))
            /\ timer' \in Scheduled("retry") /\ waiting' = waiting \cup {batch[b].now}
        BY <1>4, <3>4 DEF Return
      <4>2. pending' \in [Targets -> Levels]
        BY <3>1, <3>2, <4>1, QueuedKeeps, OneType
      <4>3. timer' \in {"none", "normal", "retry"}
        BY <4>1, ScheduledIsSet
      <4> QED
        BY <3>1, <4>1, <4>2, <4>3 DEF TypeOK
    <3> QED
      BY <3>3, <3>4
  <2> QED
    BY <1>4, <2>1, <2>2, <2>3, <2>4 DEF Return, TypeOK, life
<1>5. CASE Throw(b)
  <2>1. batch' \in [Batches -> BatchType]
    BY <1>5, NoBatchType DEF Throw, TypeOK
  <2>2. due' \subseteq agents /\ ran' \subseteq Agents
    BY <1>5, <1>b, RecordType DEF Throw, BatchType
  <2>3. armed' \in BOOLEAN /\ refused' \in BOOLEAN
    BY <1>5 DEF Throw, Arm, TypeOK
  <2>4. pending' \in [Targets -> Levels] /\ timer' \in {"none", "normal", "retry"}
    BY <1>5, <1>b, QueuedKeeps, ScheduledIsSet DEF Throw, BatchType
  <2> QED
    BY <1>5, <2>1, <2>2, <2>3, <2>4 DEF Throw, TypeOK, life
<1> QED
  BY <1>1, <1>2, <1>3, <1>4, <1>5 DEF CallStep

LEMMA TimerFiresType ==
    ASSUME TypeOK, TimerFires
    PROVE  TypeOK'
<1>1. batch' \in [Batches -> BatchType]
  <2>1. CASE batch' = batch
    BY <2>1 DEF TypeOK
  <2>2. CASE batch' # batch
    <3>1. PICK b \in Batches :
            batch' = [batch EXCEPT ![b] =
              [by |-> started, taken |-> pending, left |-> {t \in Targets : pending[t] # None},
               now |-> NoTarget, asked |-> {}, current |-> FALSE]]
      BY <2>2 DEF TimerFires
    <3>2. [by |-> started, taken |-> pending, left |-> {t \in Targets : pending[t] # None},
           now |-> NoTarget, asked |-> {}, current |-> FALSE] \in BatchType
      BY DEF TypeOK, BatchType
    <3> QED
      BY <3>1, <3>2 DEF TypeOK
  <2> QED
    BY <2>1, <2>2
<1>2. pending' \in [Targets -> Levels]
  BY DEF TimerFires, TypeOK, Levels, None, Action
<1> QED
  BY <1>1, <1>2 DEF TimerFires, TypeOK, beats, life

LEMMA RequestType ==
    ASSUME TypeOK, NEW t \in Targets, NEW level \in {Event, Action}, Request(t, level)
    PROVE  TypeOK'
<1>1. level \in Levels \ {None}
  BY DEF Levels, None, Event, Action
<1>2. Wake(t, level) /\ requests' \in 0..MaxRequests
  BY HeartbeatAssumption DEF Request, TypeOK
<1> QED
  BY <1>1, <1>2, WakeKeeps DEF Request, TypeOK, layer, beats, life

LEMMA IntervalType ==
    ASSUME TypeOK, IntervalFires
    PROVE  TypeOK'
<1>1. Interval \in Levels \ {None}
  BY DEF Levels, None, Interval, Action
<1> QED
  BY <1>1, AllIsTarget, WakeKeeps DEF IntervalFires, TypeOK, layer, life

LEMMA UpdateConfigType ==
    ASSUME TypeOK, NEW configured \in Configurations, UpdateConfig(configured)
    PROVE  TypeOK'
<1>1. batch' \in [Batches -> BatchType]
  <2>1. \A b \in Batches : [batch[b] EXCEPT !.current = FALSE] \in BatchType
    BY DEF TypeOK, BatchType
  <2> QED
    BY <2>1 DEF UpdateConfig
<1>2. configured \subseteq Agents /\ changes' \in 0..MaxChanges
  BY HeartbeatAssumption DEF UpdateConfig, TypeOK
<1> QED
  BY <1>1, <1>2 DEF UpdateConfig, TypeOK, wakes, life

LEMMA StartRunnerType ==
    ASSUME TypeOK, NEW configured \in Configurations, StartRunner(configured)
    PROVE  TypeOK'
<1>1. configured \subseteq Agents /\ started' \in 0..MaxRunners
  BY HeartbeatAssumption DEF StartRunner, TypeOK
<1>2. overlapped' \in BOOLEAN
  BY DEF StartRunner, TypeOK
<1> QED
  BY <1>1, <1>2 DEF StartRunner, TypeOK

\* The other steps change a switch, or what the runner keeps.
LEMMA SmallStepType ==
    ASSUME TypeOK, (\E a \in Agents : BecomesDue(a)) \/ SetEnabled \/ StopRunner
    PROVE  TypeOK'
<1>1. ASSUME NEW a \in Agents, BecomesDue(a) PROVE TypeOK'
  BY <1>1 DEF BecomesDue, TypeOK, wakes, layer, life
<1>2. CASE SetEnabled
  <2>1. changes' \in 0..MaxChanges
    BY <1>2, HeartbeatAssumption DEF SetEnabled, TypeOK
  <2> QED
    BY <1>2, <2>1 DEF SetEnabled, TypeOK, wakes, layer, beats, life
<1>3. CASE StopRunner
  BY <1>3 DEF StopRunner, TypeOK, wakes, layer
<1> QED
  BY <1>1, <1>2, <1>3

LEMMA StutterType == TypeOK /\ UNCHANGED vars => TypeOK'
BY DEF TypeOK, vars, wakes, layer, beats, life

LEMMA NextType == TypeOK /\ Next => TypeOK'
BY CallStepType, TimerFiresType, RequestType, IntervalType, UpdateConfigType,
   StartRunnerType, SmallStepType DEF Next

\* The variables of Heartbeat have their types in every reachable state.
THEOREM HeartbeatTypeCorrect == Spec => []TypeOK
<1>1. TypeOK /\ [Next]_vars => TypeOK'
  BY NextType, StutterType
<1> QED
  BY InitType, <1>1, PTL DEF Spec

-----------------------------------------------------------------------------
(* What the steps do to the batches.                                       *)

\* A step other than a callback of the timer, a step of a batch and a reload
\* leaves the batches alone.
Quiet ==
    \/ \E t \in Targets, level \in {Event, Action} : Request(t, level)
    \/ IntervalFires
    \/ \E a \in Agents : BecomesDue(a)
    \/ SetEnabled \/ StopRunner
    \/ \E configured \in Configurations : StartRunner(configured)
    \/ UNCHANGED vars

LEMMA QuietBatches == Quiet => UNCHANGED batch
BY DEF Quiet, Request, IntervalFires, BecomesDue, SetEnabled, StopRunner, StartRunner,
       vars, layer

\* The callback that takes what is pending, into a slot that is empty.
Takes(b) ==
    /\ live /\ ~running /\ running' = TRUE /\ IsPending(pending)
    /\ ~Active(b)
    /\ pending' = [t \in Targets |-> None]
    /\ batch' = [batch EXCEPT ![b] =
         [by |-> started, taken |-> pending, left |-> {t \in Targets : pending[t] # None},
          now |-> NoTarget, asked |-> {}, current |-> FALSE]]

LEMMA TimerTakes ==
    ASSUME TimerFires
    PROVE  \/ \E b \in Batches : Takes(b)
           \/ /\ UNCHANGED <<batch, running, pending>>
              /\ live /\ IsPending(pending) => timer' # "none"
BY DEF TimerFires, Takes

\* What a reload leaves of a batch.
LEMMA ReloadedBatches ==
    ASSUME TypeOK, NEW configured \in Configurations, UpdateConfig(configured),
           NEW b \in Batches
    PROVE  /\ batch'[b].by = batch[b].by /\ batch'[b].taken = batch[b].taken
           /\ batch'[b].left = batch[b].left /\ batch'[b].now = batch[b].now
<1>1. batch'[b] = [batch[b] EXCEPT !.current = FALSE] /\ batch[b] \in BatchType
  BY DEF UpdateConfig, TypeOK
<1> QED
  BY <1>1 DEF BatchType

\* A step of a batch leaves the others alone.  The batch ends, or it goes on
\* with the wakes it took.
LEMMA CallStepBatch ==
    ASSUME TypeOK, NEW b \in Batches, CallStep(b)
    PROVE  /\ Active(b)
           /\ \A c \in Batches \ {b} : batch'[c] = batch[c]
           /\ \/ (EndBatch(b) \/ Throw(b)) /\ batch'[b] = NoBatch
              \/ /\ batch'[b].by = batch[b].by /\ batch'[b].taken = batch[b].taken
                 /\ batch'[b].left \subseteq batch[b].left
                 /\ batch'[b].now \in batch[b].left \cup {NoTarget}
<1> DEFINE GoesOn ==
      /\ batch'[b].by = batch[b].by /\ batch'[b].taken = batch[b].taken
      /\ batch'[b].left \subseteq batch[b].left
      /\ batch'[b].now \in batch[b].left \cup {NoTarget}
<1> DEFINE Alone == \A c \in Batches \ {b} : batch'[c] = batch[c]
<1>b. batch[b] \in BatchType /\ batch \in [Batches -> BatchType]
  BY DEF TypeOK
<1>1. CASE EndBatch(b)
  BY <1>1, <1>b DEF EndBatch, InLoop
<1>2. ASSUME NEW t \in Targets, Refuse(b, t) PROVE Active(b) /\ Alone /\ GoesOn
  <2>1. /\ Active(b) /\ batch[b].now = NoTarget
        /\ batch' = [batch EXCEPT ![b] = [batch[b] EXCEPT !.left = batch[b].left \ {t}]]
    BY <1>2 DEF Refuse, InLoop
  <2>2. batch'[b] = [batch[b] EXCEPT !.left = batch[b].left \ {t}] /\ Alone
    BY <1>b, <2>1
  <2> QED
    BY <1>b, <2>1, <2>2 DEF BatchType
<1>3. ASSUME NEW t \in Targets, BeginCall(b, t) PROVE Active(b) /\ Alone /\ GoesOn
  <2>1. Active(b) /\ t \in batch[b].left
    BY <1>3 DEF BeginCall, InLoop
  <2>2. PICK asked : batch' = [batch EXCEPT ![b] = [batch[b] EXCEPT
          !.left = batch[b].left \ {t}, !.now = t, !.current = TRUE, !.asked = asked]]
    BY <1>3 DEF BeginCall
  <2>3. Alone /\ batch'[b] = [batch[b] EXCEPT
          !.left = batch[b].left \ {t}, !.now = t, !.current = TRUE, !.asked = asked]
    BY <1>b, <2>2
  <2> QED
    BY <1>b, <2>1, <2>3 DEF BatchType
<1>4. ASSUME NEW busy \in SUBSET batch[b].asked, Return(b, busy)
      PROVE  Active(b) /\ Alone /\ GoesOn
  <2>1. /\ Active(b)
        /\ batch' = [batch EXCEPT ![b] = [batch[b] EXCEPT !.now = NoTarget, !.asked = {}]]
    BY <1>4 DEF Return
  <2>2. Alone /\ batch'[b] = [batch[b] EXCEPT !.now = NoTarget, !.asked = {}]
    BY <1>b, <2>1
  <2> QED
    BY <1>b, <2>1, <2>2 DEF BatchType
<1>5. CASE Throw(b)
  BY <1>5, <1>b DEF Throw
<1> QED
  BY <1>1, <1>2, <1>3, <1>4, <1>5 DEF CallStep

-----------------------------------------------------------------------------
(* The batches, one at a time.                                             *)

NextCases == Quiet \/ TimerFires \/ (\E b \in Batches : CallStep(b))
             \/ (\E configured \in Configurations : UpdateConfig(configured))

LEMMA CasesOfNext == [Next]_vars => NextCases
BY DEF Next, NextCases, Quiet

LEMMA LiveInvKept == TypeOK /\ LiveInv /\ [Next]_vars => LiveInv'
<1> SUFFICES ASSUME TypeOK, LiveInv, [Next]_vars PROVE LiveInv'
  OBVIOUS
<1>1. UNCHANGED <<started, live>> \/ ~live' \/ (started' = started + 1)
  <2>1. ASSUME NEW b \in Batches, CallStep(b) PROVE UNCHANGED <<started, live>>
    BY <2>1 DEF CallStep, EndBatch, Refuse, BeginCall, Return, Throw, life
  <2>2. ASSUME NEW configured \in Configurations,
               UpdateConfig(configured) \/ StartRunner(configured)
        PROVE  UNCHANGED <<started, live>> \/ started' = started + 1
    BY <2>2 DEF UpdateConfig, StartRunner, life
  <2>3. CASE StopRunner
    BY <2>3 DEF StopRunner
  <2>4. CASE \/ \E t \in Targets, level \in {Event, Action} : Request(t, level)
             \/ IntervalFires \/ TimerFires \/ SetEnabled
             \/ \E a \in Agents : BecomesDue(a)
             \/ UNCHANGED vars
    BY <2>4 DEF Request, IntervalFires, TimerFires, BecomesDue, SetEnabled, vars, life
  <2> QED
    BY <2>1, <2>2, <2>3, <2>4 DEF Next
<1>2. started + 1 # 0
  BY HeartbeatAssumption DEF TypeOK
<1> QED
  BY <1>1, <1>2 DEF LiveInv

LEMMA BatchInvKept == TypeOK /\ LiveInv /\ BatchInv /\ [Next]_vars => BatchInv'
<1> SUFFICES ASSUME TypeOK, LiveInv, BatchInv, NextCases PROVE BatchInv'
  BY CasesOfNext
<1>1. CASE Quiet
  BY <1>1, QuietBatches DEF BatchInv, Active
<1>2. CASE TimerFires
  <2>1. CASE UNCHANGED batch
    BY <2>1 DEF BatchInv, Active
  <2>2. ASSUME NEW b \in Batches, Takes(b) PROVE BatchInv'
    <3>1. \A c \in Batches \ {b} : batch'[c] = batch[c]
      BY <2>2 DEF Takes, TypeOK
    <3>2. /\ batch'[b].left = {t \in Targets : pending[t] # None}
          /\ batch'[b].taken = pending /\ batch'[b].now = NoTarget /\ batch'[b].by = started
      BY <2>2 DEF Takes, TypeOK
    <3>3. batch'[b].left = {} => FALSE
      BY <2>2, <3>2 DEF Takes, IsPending
    <3>4. ASSUME NEW c \in Batches
          PROVE  /\ ~Active(c)' => batch'[c].left = {} /\ batch'[c].now = NoTarget
                 /\ \A t \in batch'[c].left : batch'[c].taken[t] # None
                 /\ batch'[c].now # NoTarget => batch'[c].taken[batch'[c].now] # None
      <4>1. CASE c = b
        <5>1. started # 0
          BY <2>2 DEF Takes, LiveInv
        <5> QED
          BY <4>1, <3>2, <5>1 DEF Active
      <4>2. CASE c # b
        BY <4>2, <3>1 DEF BatchInv, Active
      <4> QED
        BY <4>1, <4>2
    <3> QED
      BY <3>4 DEF BatchInv
  <2> QED
    BY <1>2, <2>1, <2>2, TimerTakes
<1>3. ASSUME NEW b \in Batches, CallStep(b) PROVE BatchInv'
  <2>1. \A c \in Batches \ {b} : batch'[c] = batch[c]
    BY <1>3, CallStepBatch
  <2>2. CASE batch'[b] = NoBatch
    BY <2>1, <2>2 DEF BatchInv, Active, NoBatch
  <2>3. CASE batch'[b] # NoBatch
    <3>1. /\ batch'[b].by = batch[b].by /\ batch'[b].taken = batch[b].taken
          /\ batch'[b].left \subseteq batch[b].left
          /\ batch'[b].now \in batch[b].left \cup {NoTarget}
          /\ Active(b)
      BY <1>3, <2>3, CallStepBatch
    <3> QED
      BY <2>1, <3>1 DEF BatchInv, Active
  <2> QED
    BY <2>2, <2>3
<1>4. ASSUME NEW configured \in Configurations, UpdateConfig(configured) PROVE BatchInv'
  BY <1>4, ReloadedBatches DEF BatchInv, Active
<1> QED
  BY <1>1, <1>2, <1>3, <1>4 DEF NextCases

\* As long as no runner was started over a batch, the flag running is up
\* while there is one, and the timer then takes none.
LEMMA OneBatchKept ==
    TypeOK /\ LiveInv /\ BatchInv /\ RunningInv /\ OneBatch /\ [Next]_vars
        => (RunningInv /\ OneBatch)'
<1> SUFFICES ASSUME TypeOK, LiveInv, BatchInv, RunningInv, OneBatch, [Next]_vars
             PROVE  RunningInv' /\ OneBatch'
  OBVIOUS
<1>0. overlapped => overlapped'
  <2>1. ASSUME NEW b \in Batches, CallStep(b) PROVE UNCHANGED overlapped
    BY <2>1 DEF CallStep, EndBatch, Refuse, BeginCall, Return, Throw, life
  <2> QED
    BY <2>1 DEF Next, Request, IntervalFires, TimerFires, BecomesDue, SetEnabled, StopRunner,
       UpdateConfig, StartRunner, vars, life
<1>1. CASE overlapped
  BY <1>0, <1>1 DEF RunningInv, OneBatch
<1>2. CASE ~overlapped
  <2>0. NextCases
    BY CasesOfNext
  <2>1. CASE Quiet
    <3>1. CASE \E configured \in Configurations : StartRunner(configured)
      BY <3>1 DEF StartRunner, RunningInv, OneBatch, Active
    <3>2. CASE ~(\E configured \in Configurations : StartRunner(configured))
      <4>1. UNCHANGED <<batch, running>>
        BY <2>1, <3>2 DEF Quiet, Request, IntervalFires, BecomesDue, SetEnabled, StopRunner,
           vars, layer
      <4> QED
        BY <1>2, <4>1 DEF RunningInv, OneBatch, Active
    <3> QED
      BY <3>1, <3>2
  <2>2. CASE TimerFires
    <3>1. ASSUME NEW b \in Batches, Takes(b) PROVE RunningInv' /\ OneBatch'
      <4>1. \A c \in Batches \ {b} : batch'[c] = batch[c] /\ ~Active(c)
        BY <1>2, <3>1 DEF Takes, TypeOK, RunningInv
      <4>2. running'
        BY <3>1 DEF Takes
      <4> QED
        BY <4>1, <4>2 DEF RunningInv, OneBatch, Active
    <3>2. CASE UNCHANGED <<batch, running, pending>>
      BY <1>2, <3>2 DEF RunningInv, OneBatch, Active
    <3> QED
      BY <2>2, <3>1, <3>2, TimerTakes
  <2>3. ASSUME NEW b \in Batches, CallStep(b) PROVE RunningInv' /\ OneBatch'
    <3>1. \A c \in Batches \ {b} : batch'[c] = batch[c] /\ ~Active(c)
      BY <1>2, <2>3, CallStepBatch DEF OneBatch
    <3>2. CASE batch'[b] = NoBatch
      BY <3>1, <3>2 DEF RunningInv, OneBatch, Active, NoBatch
    <3>3. CASE batch'[b] # NoBatch
      <4>1. UNCHANGED running
        <5>1. ~EndBatch(b) /\ ~Throw(b)
          BY <3>3 DEF EndBatch, Throw, TypeOK
        <5> QED
          BY <2>3, <5>1 DEF CallStep, Refuse, BeginCall, Return
      <4> QED
        BY <1>2, <2>3, <3>1, <4>1, CallStepBatch DEF RunningInv, OneBatch, Active
    <3> QED
      BY <3>2, <3>3
  <2>4. ASSUME NEW configured \in Configurations, UpdateConfig(configured)
        PROVE  RunningInv' /\ OneBatch'
    <3>1. UNCHANGED running
      BY <2>4 DEF UpdateConfig
    <3> QED
      BY <1>2, <2>4, <3>1, ReloadedBatches DEF RunningInv, OneBatch, Active
  <2> QED
    BY <2>0, <2>1, <2>2, <2>3, <2>4 DEF NextCases
<1> QED
  BY <1>1, <1>2

-----------------------------------------------------------------------------
(* The wakes.                                                              *)

LEMMA WakeIsScheduledKept ==
    TypeOK /\ WakeIsScheduled /\ [Next]_vars => WakeIsScheduled'
<1> SUFFICES ASSUME TypeOK, WakeIsScheduled, NextCases PROVE WakeIsScheduled'
  BY CasesOfNext
<1>1. CASE Quiet
  <2>1. UNCHANGED batch
    BY <1>1, QuietBatches
  <2>2. ASSUME NEW t \in Targets, NEW level \in Levels \ {None}, Wake(t, level)
        PROVE  WakeIsScheduled'
    BY <2>2, WakeKeeps DEF WakeIsScheduled
  <2>3. Event \in Levels \ {None} /\ Action \in Levels \ {None} /\ Interval \in Levels \ {None}
    BY DEF Levels, None, Interval, Event, Action
  <2>4. CASE \E t \in Targets, level \in {Event, Action} : Request(t, level)
    BY <2>2, <2>3, <2>4 DEF Request
  <2>5. CASE IntervalFires
    BY <2>2, <2>3, <2>5, AllIsTarget DEF IntervalFires
  <2>6. CASE \E configured \in Configurations : StartRunner(configured)
    BY <2>6 DEF StartRunner, WakeIsScheduled
  <2>7. CASE \/ \E a \in Agents : BecomesDue(a)
             \/ SetEnabled \/ StopRunner \/ UNCHANGED vars
    <3>1. UNCHANGED <<pending, timer>> /\ (live' => live)
      BY <2>7 DEF BecomesDue, SetEnabled, StopRunner, vars, wakes, life
    <3> QED
      BY <2>1, <3>1 DEF WakeIsScheduled, IsPending, Active
  <2> QED
    BY <1>1, <2>4, <2>5, <2>6, <2>7 DEF Quiet
<1>2. CASE TimerFires
  <2>1. ASSUME NEW b \in Batches, Takes(b) PROVE WakeIsScheduled'
    BY <2>1 DEF Takes, WakeIsScheduled, IsPending
  <2>2. CASE UNCHANGED <<batch, running, pending>> /\ (live /\ IsPending(pending) => timer' # "none")
    BY <1>2, <2>2 DEF WakeIsScheduled, IsPending, TimerFires, life
  <2> QED
    BY <1>2, <2>1, <2>2, TimerTakes
<1>3. ASSUME NEW b \in Batches, CallStep(b) PROVE WakeIsScheduled'
  <2>1. CASE EndBatch(b)
    BY <2>1, ScheduledIsSet DEF EndBatch, WakeIsScheduled, IsPending
  <2>2. CASE Throw(b)
    BY <2>2, ScheduledIsSet DEF Throw, WakeIsScheduled
  <2>3. CASE ~EndBatch(b) /\ ~Throw(b)
    <3>1. batch'[b].by = batch[b].by
      BY <1>3, <2>3, CallStepBatch
    <3>2. Active(b)
      BY <1>3, CallStepBatch
    <3> QED
      BY <3>1, <3>2 DEF WakeIsScheduled, Active
  <2> QED
    BY <2>1, <2>2, <2>3
<1>4. ASSUME NEW configured \in Configurations, UpdateConfig(configured) PROVE WakeIsScheduled'
  BY <1>4, ReloadedBatches DEF UpdateConfig, WakeIsScheduled, IsPending, Active, wakes, life
<1> QED
  BY <1>1, <1>2, <1>3, <1>4 DEF NextCases

LEMMA WakeIsKeptKept ==
    TypeOK /\ BatchInv /\ WakeIsKept /\ [Next]_vars => WakeIsKept'
<1> SUFFICES ASSUME TypeOK, BatchInv, WakeIsKept, NextCases PROVE WakeIsKept'
  BY CasesOfNext
<1> USE AllIsTarget
<1>1. CASE Quiet
  <2>1. UNCHANGED batch
    BY <1>1, QuietBatches
  <2>2. ASSUME NEW t \in Targets, NEW level \in Levels \ {None}, Wake(t, level)
        PROVE  WakeIsKept'
    <3>1. waiting \subseteq Targets
      BY DEF TypeOK
    <3> QED
      BY <2>1, <2>2, <3>1, WakeKeeps DEF WakeIsKept
  <2>3. Event \in Levels \ {None} /\ Action \in Levels \ {None} /\ Interval \in Levels \ {None}
    BY DEF Levels, None, Interval, Event, Action
  <2>4. CASE \E t \in Targets, level \in {Event, Action} : Request(t, level)
    BY <2>2, <2>3, <2>4 DEF Request
  <2>5. CASE IntervalFires
    BY <2>2, <2>3, <2>5 DEF IntervalFires
  <2>6. CASE \/ \E a \in Agents : BecomesDue(a)
             \/ \E configured \in Configurations : StartRunner(configured)
             \/ SetEnabled \/ StopRunner \/ UNCHANGED vars
    <3>1. UNCHANGED <<pending, waiting>>
      BY <2>6 DEF BecomesDue, SetEnabled, StopRunner, StartRunner, vars, wakes
    <3> QED
      BY <2>1, <3>1 DEF WakeIsKept
  <2> QED
    BY <1>1, <2>4, <2>5, <2>6 DEF Quiet
<1>2. CASE TimerFires
  <2>1. UNCHANGED waiting
    BY <1>2 DEF TimerFires
  <2>2. ASSUME NEW b \in Batches, Takes(b) PROVE WakeIsKept'
    <3>1. batch'[b].left = {t \in Targets : pending[t] # None}
      BY <2>2 DEF Takes, TypeOK
    <3>2. \A c \in Batches \ {b} : batch'[c] = batch[c]
      BY <2>2 DEF Takes, TypeOK
    <3>3. batch[b].left = {}
      BY <2>2 DEF Takes, BatchInv
    <3>4. waiting \subseteq Targets
      BY DEF TypeOK
    <3> QED
      BY <2>1, <3>1, <3>2, <3>3, <3>4 DEF WakeIsKept
  <2>3. CASE UNCHANGED <<batch, running, pending>>
    BY <2>1, <2>3 DEF WakeIsKept
  <2> QED
    BY <1>2, <2>2, <2>3, TimerTakes
<1>3. ASSUME NEW b \in Batches, CallStep(b) PROVE WakeIsKept'
  <2>0. /\ \A c \in Batches \ {b} : batch'[c] = batch[c]
        /\ batch \in [Batches -> BatchType] /\ batch[b] \in BatchType
        /\ waiting \subseteq Targets
    BY <1>3, CallStepBatch DEF TypeOK
  <2>1. CASE EndBatch(b)
    <3>1. batch[b].left = {} /\ UNCHANGED <<pending, waiting>>
      BY <2>1 DEF EndBatch
    <3> QED
      BY <2>0, <3>1 DEF WakeIsKept
  <2>2. ASSUME NEW t \in Targets, Refuse(b, t) \/ BeginCall(b, t) PROVE WakeIsKept'
    <3>1. waiting' = waiting \ {t} /\ UNCHANGED pending
      BY <2>2 DEF Refuse, BeginCall
    <3>2. batch'[b].left = batch[b].left \ {t}
      <4>1. CASE Refuse(b, t)
        <5>1. batch'[b] = [batch[b] EXCEPT !.left = batch[b].left \ {t}]
          BY <2>0, <4>1 DEF Refuse
        <5> QED
          BY <2>0, <5>1 DEF BatchType
      <4>2. CASE BeginCall(b, t)
        <5>1. PICK asked : batch'[b] = [batch[b] EXCEPT
                !.left = batch[b].left \ {t}, !.now = t, !.current = TRUE, !.asked = asked]
          BY <2>0, <4>2 DEF BeginCall
        <5> QED
          BY <2>0, <5>1 DEF BatchType
      <4> QED
        BY <2>2, <4>1, <4>2
    <3> QED
      BY <2>0, <3>1, <3>2 DEF WakeIsKept
  <2>3. ASSUME NEW busy \in SUBSET batch[b].asked, Return(b, busy) PROVE WakeIsKept'
    <3>1. batch'[b] = [batch[b] EXCEPT !.now = NoTarget, !.asked = {}]
      BY <2>0, <2>3 DEF Return
    <3>2. batch'[b].left = batch[b].left
      BY <2>0, <3>1 DEF BatchType
    <3>3. CASE UNCHANGED wakes
      BY <2>0, <3>2, <3>3 DEF WakeIsKept, wakes
    <3>4. CASE busy # {}
      <4> DEFINE n == batch[b].now
      <4>1. n \in Targets /\ batch[b].taken[n] \in Levels /\ batch[b].taken[n] # None
        BY <2>0, <2>3 DEF Return, Settled, InLoop, BatchType, BatchInv
      <4>2. /\ pending' = Queued(One(n, batch[b].taken[n]))
            /\ waiting' = waiting \cup {n}
        BY <2>3, <3>4 DEF Return
      <4>3. \A t \in Targets : pending'[t] = None <=>
              pending[t] = None /\ One(n, batch[b].taken[n])[t] = None
        BY <4>1, <4>2, QueuedKeeps, OneType
      <4>4. One(n, batch[b].taken[n])[n] # None
        BY <4>1, OneType
      <4> QED
        BY <2>0, <3>2, <4>1, <4>2, <4>3, <4>4 DEF WakeIsKept
    <3> QED
      BY <2>3, <3>3, <3>4 DEF Return
  <2>4. CASE Throw(b)
    <3>1. /\ pending' = Queued(batch[b].taken)
          /\ waiting' = waiting \cup {t \in Targets : batch[b].taken[t] # None}
      BY <2>4 DEF Throw
    <3>2. \A t \in Targets : pending'[t] = None <=>
            pending[t] = None /\ batch[b].taken[t] = None
      BY <2>0, <3>1, QueuedKeeps DEF BatchType
    <3> QED
      BY <2>0, <3>1, <3>2 DEF WakeIsKept, BatchInv
  <2> QED
    BY <1>3, <2>1, <2>2, <2>3, <2>4 DEF CallStep
<1>4. ASSUME NEW configured \in Configurations, UpdateConfig(configured) PROVE WakeIsKept'
  BY <1>4, ReloadedBatches DEF UpdateConfig, WakeIsKept, wakes
<1> QED
  BY <1>1, <1>2, <1>3, <1>4 DEF NextCases

-----------------------------------------------------------------------------
(* The interval timer.                                                     *)

LEMMA HeartIsArmedKept ==
    TypeOK /\ LiveInv /\ BatchInv /\ HeartIsArmed /\ [Next]_vars => HeartIsArmed'
<1> SUFFICES ASSUME TypeOK, LiveInv, BatchInv, HeartIsArmed, NextCases,
                    live', agents' # {}, ~refused'
             PROVE  AllIsComing'
  BY CasesOfNext DEF HeartIsArmed
<1> USE AllIsTarget
<1>1. CASE Quiet
  <2>1. UNCHANGED batch
    BY <1>1, QuietBatches
  <2>2. ASSUME NEW t \in Targets, NEW level \in {Event, Action}, Request(t, level)
        PROVE  AllIsComing'
    <3>1. level \in Levels \ {None}
      BY DEF Levels, None, Event, Action
    <3>2. UNCHANGED <<live, agents, refused, armed, started>> /\ Wake(t, level)
      BY <2>2 DEF Request, beats, life
    <3>3. pending[All] # None => pending'[All] # None
      BY <3>1, <3>2, WakeKeeps
    <3> QED
      BY <2>1, <3>2, <3>3 DEF HeartIsArmed, AllIsComing, Own
  <2>3. CASE IntervalFires
    <3>1. Interval \in Levels \ {None}
      BY DEF Levels, None, Interval, Action
    <3>2. pending'[All] # None
      BY <2>3, <3>1, WakeKeeps DEF IntervalFires
    <3> QED
      BY <3>2 DEF AllIsComing
  <2>4. CASE \E configured \in Configurations : StartRunner(configured)
    BY <2>4 DEF StartRunner, AllIsComing
  <2>5. CASE \/ \E a \in Agents : BecomesDue(a)
             \/ SetEnabled \/ UNCHANGED vars
    <3>1. UNCHANGED <<live, agents, refused, armed, started, pending>>
      BY <2>5 DEF BecomesDue, SetEnabled, vars, wakes, beats, life
    <3> QED
      BY <2>1, <3>1 DEF HeartIsArmed, AllIsComing, Own
  <2>6. ~StopRunner
    BY DEF StopRunner
  <2> QED
    BY <1>1, <2>2, <2>3, <2>4, <2>5, <2>6 DEF Quiet
<1>2. CASE TimerFires
  <2>1. UNCHANGED <<live, agents, refused, armed, started>>
    BY <1>2 DEF TimerFires, beats, life
  <2>2. AllIsComing
    BY <2>1 DEF HeartIsArmed
  <2>3. ASSUME NEW b \in Batches, Takes(b) PROVE AllIsComing'
    <3>1. /\ batch'[b].by = started
          /\ batch'[b].left = {t \in Targets : pending[t] # None}
          /\ \A c \in Batches \ {b} : batch'[c] = batch[c]
      BY <2>3 DEF Takes, TypeOK
    <3>2. batch[b].left = {} /\ batch[b].now = NoTarget
      BY <2>3 DEF Takes, BatchInv
    <3> QED
      BY <2>1, <2>2, <3>1, <3>2 DEF AllIsComing, Own
  <2>4. CASE UNCHANGED <<batch, running, pending>>
    BY <2>1, <2>2, <2>4 DEF AllIsComing, Own
  <2> QED
    BY <1>2, <2>3, <2>4, TimerTakes
<1>3. ASSUME NEW b \in Batches, CallStep(b) PROVE AllIsComing'
  <2> SUFFICES ASSUME ~armed' PROVE AllIsComing'
    BY DEF AllIsComing
  <2>0. /\ \A c \in Batches \ {b} : batch'[c] = batch[c]
        /\ batch \in [Batches -> BatchType] /\ batch[b] \in BatchType
    BY <1>3, CallStepBatch DEF TypeOK
  <2>1. UNCHANGED <<live, started, agents>> /\ ~refused
    <3>1. UNCHANGED <<live, started, agents>>
      BY <1>3 DEF CallStep, EndBatch, Refuse, BeginCall, Return, Throw, beats, life
    <3>2. ASSUME NEW t \in Targets, Refuse(b, t) PROVE refused => refused'
      BY <3>2 DEF Refuse
    <3>3. EndBatch(b) \/ (\E t \in Targets : BeginCall(b, t)) => refused' = refused
      BY DEF EndBatch, BeginCall
    <3>4. Arm(b) => refused' = refused \/ armed'
      BY <3>1 DEF Arm
    <3>5. (\E busy \in SUBSET batch[b].asked : Return(b, busy)) \/ Throw(b)
              => refused' = refused \/ armed'
      BY <3>4 DEF Return, Throw
    <3>6. refused => refused'
      <4>1. CASE \/ EndBatch(b) \/ \E t \in Targets : Refuse(b, t)
                 \/ \E t \in Targets : BeginCall(b, t)
        BY <4>1, <3>2, <3>3, Zenon
      <4>2. CASE (\E busy \in SUBSET batch[b].asked : Return(b, busy)) \/ Throw(b)
        BY <4>2, <3>5
      <4> QED
        BY <1>3, <4>1, <4>2 DEF CallStep
    <3> QED
      BY <3>1, <3>6
  <2>2. AllIsComing
    BY <2>1 DEF HeartIsArmed
  <2>other. ASSUME NEW c \in Batches \ {b}, Own(c), All \in batch[c].left \/ batch[c].now = All
            PROVE  AllIsComing'
    BY <2>0, <2>1, <2>other DEF AllIsComing, Own
  <2>3. CASE EndBatch(b)
    <3>1. batch[b].left = {} /\ batch[b].now = NoTarget /\ UNCHANGED <<pending, armed>>
      BY <2>3 DEF EndBatch, InLoop, beats
    <3> QED
      BY <2>2, <2>other, <3>1 DEF AllIsComing
  <2>4. ASSUME NEW t \in Targets, Refuse(b, t) PROVE AllIsComing'
    <3>1. UNCHANGED <<pending, armed>> /\ batch[b].now = NoTarget /\ ~(Own(b) /\ t = All)
      BY <2>4 DEF Refuse, InLoop, beats
    <3>2. batch'[b] = [batch[b] EXCEPT !.left = batch[b].left \ {t}]
      BY <2>0, <2>4 DEF Refuse
    <3>3. batch'[b].left = batch[b].left \ {t} /\ batch'[b].by = batch[b].by
      BY <2>0, <3>2 DEF BatchType
    <3> QED
      BY <2>1, <2>2, <2>other, <3>1, <3>3 DEF AllIsComing, Own
  <2>5. ASSUME NEW t \in Targets, BeginCall(b, t) PROVE AllIsComing'
    <3>1. UNCHANGED <<pending, armed>> /\ batch[b].now = NoTarget
      BY <2>5 DEF BeginCall, InLoop
    <3>2. PICK asked : batch'[b] = [batch[b] EXCEPT
            !.left = batch[b].left \ {t}, !.now = t, !.current = TRUE, !.asked = asked]
      BY <2>0, <2>5 DEF BeginCall
    <3>3. batch'[b].left = batch[b].left \ {t} /\ batch'[b].by = batch[b].by /\ batch'[b].now = t
      BY <2>0, <3>2 DEF BatchType
    <3> QED
      BY <2>1, <2>2, <2>other, <3>1, <3>3 DEF AllIsComing, Own
  <2>6. ASSUME NEW busy \in SUBSET batch[b].asked, Return(b, busy) PROVE AllIsComing'
    <3>1. batch'[b] = [batch[b] EXCEPT !.now = NoTarget, !.asked = {}]
      BY <2>0, <2>6 DEF Return
    <3>2. batch'[b].left = batch[b].left /\ batch'[b].by = batch[b].by
      BY <2>0, <3>1 DEF BatchType
    <3>3. CASE Own(b) /\ batch[b].now = All
      <4>1. CASE busy = {}
        BY <2>1, <2>6, <3>3, <4>1 DEF Return, Arm, AllIsComing
      <4>2. CASE busy # {}
        <5>1. pending' = Queued(One(All, batch[b].taken[All]))
          BY <2>6, <3>3, <4>2 DEF Return
        <5>2. batch[b].taken[All] \in Levels /\ batch[b].taken[All] # None
          BY <2>0, <3>3 DEF BatchType, BatchInv
        <5>3. pending'[All] # None
          BY <5>1, <5>2, QueuedKeeps, OneType
        <5> QED
          BY <5>3 DEF AllIsComing
      <4> QED
        BY <4>1, <4>2
    <3>4. CASE ~(Own(b) /\ batch[b].now = All)
      <4>1. armed => armed'
        BY <2>1, <2>6 DEF Return, Arm
      <4>2. pending[All] # None => pending'[All] # None
        <5>1. batch[b].now \in Targets
          BY <2>0, <2>6 DEF Return, Settled, InLoop, BatchType
        <5>2. batch[b].taken[batch[b].now] \in Levels
          BY <2>0, <5>1 DEF BatchType
        <5>3. CASE UNCHANGED wakes
          BY <5>3 DEF wakes
        <5>4. CASE pending' = Queued(One(batch[b].now, batch[b].taken[batch[b].now]))
          BY <5>1, <5>2, <5>4, QueuedKeeps, OneType
        <5> QED
          BY <2>6, <5>3, <5>4 DEF Return
      <4> QED
        BY <2>1, <2>2, <2>other, <3>2, <3>4, <4>1, <4>2 DEF AllIsComing, Own
    <3> QED
      BY <3>3, <3>4
  <2>7. CASE Throw(b)
    <3>1. CASE Own(b)
      BY <2>1, <2>7, <3>1 DEF Throw, Arm, AllIsComing
    <3>2. CASE ~Own(b)
      <4>1. armed' = armed
        BY <2>7, <3>2 DEF Throw, Arm
      <4>2. pending[All] # None => pending'[All] # None
        BY <2>0, <2>7, QueuedKeeps DEF Throw, BatchType
      <4> QED
        BY <2>2, <2>other, <3>2, <4>1, <4>2 DEF AllIsComing
    <3> QED
      BY <3>1, <3>2
  <2> QED
    BY <1>3, <2>3, <2>4, <2>5, <2>6, <2>7 DEF CallStep
<1>4. ASSUME NEW configured \in Configurations, UpdateConfig(configured) PROVE AllIsComing'
  BY <1>4 DEF UpdateConfig, AllIsComing
<1> QED
  BY <1>1, <1>2, <1>3, <1>4 DEF NextCases

-----------------------------------------------------------------------------
(* The theorems.                                                           *)

LayerInv ==
    /\ TypeOK /\ LiveInv /\ BatchInv
    /\ RunningInv /\ OneBatch
    /\ WakeIsScheduled /\ WakeIsKept /\ HeartIsArmed

LEMMA InitLayerInv == Init => LayerInv
<1> SUFFICES ASSUME Init PROVE LayerInv
  OBVIOUS
<1>1. \A b \in Batches : batch[b] = NoBatch
  BY DEF Init
<1>2. TypeOK
  BY InitType
<1>3. BatchInv /\ RunningInv /\ OneBatch
  BY <1>1 DEF BatchInv, RunningInv, OneBatch, Active, NoBatch
<1> QED
  BY <1>2, <1>3 DEF Init, LayerInv, LiveInv, WakeIsScheduled, WakeIsKept, HeartIsArmed

THEOREM LayerInvHolds == Spec => []LayerInv
<1>1. LayerInv /\ [Next]_vars => LayerInv'
  BY NextType, StutterType, LiveInvKept, BatchInvKept, OneBatchKept, WakeIsScheduledKept,
     WakeIsKeptKept, HeartIsArmedKept DEF LayerInv
<1> QED
  BY InitLayerInv, <1>1, PTL DEF Spec

\* While a runner is alive, a pending wake has a timer or a batch that will
\* look at it: requests, retries, throws and restarts leave none behind.
THEOREM WakesAreScheduled == Spec => []WakeIsScheduled
<1>1. LayerInv => WakeIsScheduled
  BY DEF LayerInv
<1> QED
  BY <1>1, LayerInvHolds, PTL

\* No wake is forgotten before a call of the handler was made for it.
THEOREM WakesAreKept == Spec => []WakeIsKept
<1>1. LayerInv => WakeIsKept
  BY DEF LayerInv
<1> QED
  BY <1>1, LayerInvHolds, PTL

\* Batches do not overlap, unless a runner was started over one.
THEOREM BatchesDoNotOverlap == Spec => []OneBatch
<1>1. LayerInv => OneBatch
  BY DEF LayerInv
<1> QED
  BY <1>1, LayerInvHolds, PTL

\* The interval timer of the live runner is set or its wake under way, unless
\* such a wake was refused.
THEOREM HeartsAreArmed == Spec => []HeartIsArmed
<1>1. LayerInv => HeartIsArmed
  BY DEF LayerInv
<1> QED
  BY <1>1, LayerInvHolds, PTL

=============================================================================
