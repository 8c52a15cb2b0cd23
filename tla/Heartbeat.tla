------------------------------ MODULE Heartbeat -------------------------------
(***************************************************************************)
(* Heartbeats: the wake layer of heartbeat-wake.ts, which coalesces wakes  *)
(* per target and hands them, a batch at a time, to the handler of the     *)
(* runner that is alive; and the runner of heartbeat-runner.ts, whose      *)
(* interval timer asks for a wake of all agents when the first is due.     *)
(*                                                                         *)
(* A step lies between two awaits that matter: a timer, a request, the     *)
(* start of a call of the handler and its return.  The clock is left out:  *)
(* an agent is due or not, a timer fires at any time after it was set.     *)
(* What a heartbeat does is left out, but that its agent may be busy.      *)
(***************************************************************************)
EXTENDS Naturals

CONSTANTS
    Agents,         \* those some configuration gives a heartbeat
    Configurations, \* the sets of agents a configuration may give one
    Targeted,       \* agents that some wake names
    All,            \* the target of a wake that names none: every agent
    NoTarget,
    MaxRunners,     \* bound: runners, one after the other in the process
    MaxRequests,    \* bound: wakes asked for by others than the interval timer
    MaxChanges      \* bound: set-heartbeats and reloads of the configuration

ASSUME HeartbeatAssumption ==
    /\ Targeted \subseteq Agents /\ Configurations \subseteq SUBSET Agents /\ All \notin Agents
    /\ NoTarget \notin Agents /\ NoTarget # All
    /\ MaxRunners \in Nat \ {0} /\ MaxRequests \in Nat /\ MaxChanges \in Nat

Targets == Targeted \cup {All}

(* REASON_PRIORITY; an empty entry of pendingWakes is None. *)
None == 0
Interval == 1
Event == 2
Action == 3
Levels == None..Action

Runners == 1..MaxRunners
Batches == 1..MaxRunners

VARIABLES
    enabled,    \* heartbeatsEnabled, of the module
    pending,    \* pendingWakes: the priority per target
    timer,      \* timerKind, "none" without a timer
    scheduled, running,
    batch,      \* the callbacks of the timer that are still at their wakes
    started,    \* runners started so far; the last one may be alive
    live,       \* it is: its handler is registered, state.stopped is false
    agents,     \* its state.agents
    due,        \* those whose nextDueMs has come
    ran,        \* those with a lastRunStartedAtMs
    armed,      \* its state.timer is set
    waiting,    \* history: targets of wakes no call was made for
    refused,    \* history: since the runner last set its timer or its agents,
                \* a wake of all of them was refused as disabled
    overlapped, \* history: a runner started while a batch was at its wakes
    requests, changes

wakes == <<pending, timer, waiting>>
layer == <<scheduled, running, batch>>
beats == <<agents, due, ran, armed>>
life == <<started, live, overlapped>>
vars == <<enabled, wakes, layer, beats, life, refused, requests, changes>>

NoBatch == [by |-> 0, taken |-> [t \in Targets |-> None], left |-> {},
            now |-> NoTarget, asked |-> {}, current |-> FALSE]

Active(b) == batch[b].by # 0
Own(b) == live /\ batch[b].by = started

(* Between two calls of a batch the event loop runs nothing else. *)
InLoop(b) == Active(b) /\ batch[b].now = NoTarget
Settled == \A b \in Batches : ~InLoop(b)

Init ==
    /\ enabled = TRUE
    /\ pending = [t \in Targets |-> None]
    /\ timer = "none"
    /\ scheduled = FALSE /\ running = FALSE
    /\ batch = [b \in Batches |-> NoBatch]
    /\ started = 0 /\ live = FALSE
    /\ agents = {} /\ due = {} /\ ran = {} /\ armed = FALSE
    /\ waiting = {} /\ refused = FALSE /\ overlapped = FALSE
    /\ requests = 0 /\ changes = 0

-----------------------------------------------------------------------------
(* The wake layer *)

(* queuePendingWakeReason: of two wakes for a target the stronger stays. *)
Queued(asked) == [t \in Targets |-> IF asked[t] > pending[t] THEN asked[t] ELSE pending[t]]

One(t, level) == [u \in Targets |-> IF u = t THEN level ELSE None]

IsPending(p) == \E t \in Targets : p[t] # None

(* The timers schedule may leave: a retry timer stays; a normal one stays  *)
(* unless the new one is due sooner.                                       *)
Scheduled(kind) ==
    CASE timer = "none" -> {kind}
      [] timer = "retry" -> {"retry"}
      [] timer = "normal" -> {"normal", kind}

Wake(t, level) ==
    /\ pending' = Queued(One(t, level))
    /\ timer' \in Scheduled("normal")
    /\ waiting' = waiting \cup {t}

(* requestHeartbeat, of a system event, a hook, cron or an operator. *)
Request(t, level) ==
    /\ Settled /\ requests < MaxRequests /\ requests' = requests + 1
    /\ Wake(t, level)
    /\ UNCHANGED <<enabled, layer, beats, life, refused, changes>>

(* The interval timer of the runner; its delay is clamped, so it may find  *)
(* nobody due.                                                             *)
IntervalFires ==
    /\ Settled /\ armed /\ armed' = FALSE
    /\ Wake(All, Interval)
    /\ UNCHANGED <<enabled, layer, agents, due, ran, life, refused, requests, changes>>

(* The callback does not look whether another one is at its wakes. *)
TimerFires_Overlapping ==
    /\ Settled /\ timer # "none" /\ live
    /\ timer' = "none" /\ scheduled' = FALSE
    /\ running' = TRUE
    /\ pending' = [t \in Targets |-> None]
    /\ \E b \in Batches :
         /\ ~Active(b)
         /\ batch' = [batch EXCEPT ![b] =
              [by |-> started, taken |-> pending, left |-> {t \in Targets : pending[t] # None},
               now |-> NoTarget, asked |-> {}, current |-> FALSE]]
    /\ UNCHANGED <<enabled, waiting, beats, life, refused, requests, changes>>

(* The timer of the layer: nobody to call, another batch is running, or    *)
(* this callback takes what is pending.                                    *)
TimerFires ==
    /\ Settled /\ timer # "none"
    /\ \/ /\ ~live
          /\ timer' = "none" /\ scheduled' = FALSE
          /\ UNCHANGED <<pending, running, batch>>
       \/ /\ live /\ running
          /\ scheduled' = TRUE
          /\ UNCHANGED <<pending, timer, running, batch>>
       \/ /\ live /\ ~running /\ ~IsPending(pending)
          /\ timer' = "none" /\ scheduled' = FALSE
          /\ UNCHANGED <<pending, running, batch>>
       \/ /\ live /\ ~running /\ IsPending(pending)
          /\ timer' = "none" /\ scheduled' = FALSE
          /\ running' = TRUE
          /\ pending' = [t \in Targets |-> None]
          /\ \E b \in Batches :
               /\ ~Active(b) /\ \A c \in 1..(b - 1) : Active(c)
               /\ batch' = [batch EXCEPT ![b] =
                    [by |-> started, taken |-> pending, left |-> {t \in Targets : pending[t] # None},
                     now |-> NoTarget, asked |-> {}, current |-> FALSE]]
    /\ UNCHANGED <<enabled, waiting, beats, life, refused, requests, changes>>

(* The finally of the callback. *)
EndBatch(b) ==
    /\ InLoop(b) /\ batch[b].left = {}
    /\ running' = FALSE
    /\ batch' = [batch EXCEPT ![b] = NoBatch]
    /\ timer' \in IF IsPending(pending) \/ scheduled THEN Scheduled("normal") ELSE {timer}
    /\ UNCHANGED <<enabled, pending, waiting, scheduled, beats, life, refused, requests, changes>>

-----------------------------------------------------------------------------
(* The runner *)

Named(t) == IF t = All THEN agents ELSE agents \cap {t}

(* shouldDeferWake: a scheduled wake runs who is due, an event also who    *)
(* never ran, an immediate or manual one everybody.                        *)
Runs(a, level) ==
    \/ level = Action
    \/ a \in due
    \/ level = Event /\ a \notin ran

(* run(), up to its runs of runOnce.  Refused, it returns at once, and the *)
(* interval timer stays as it is.                                          *)
Refuse(b, t) ==
    /\ InLoop(b) /\ t \in batch[b].left
    /\ ~Own(b) \/ ~enabled \/ agents = {}
    /\ batch' = [batch EXCEPT ![b] = [batch[b] EXCEPT !.left = batch[b].left \ {t}]]
    /\ waiting' = waiting \ {t}
    /\ refused' = (refused \/ (Own(b) /\ t = All))
    /\ UNCHANGED <<enabled, pending, timer, scheduled, running, beats, life, requests, changes>>

(* The flood guard and the minimal spacing hold back agents that ran       *)
(* lately, and move their due slot.                                        *)
BeginCall(b, t) ==
    /\ InLoop(b) /\ t \in batch[b].left
    /\ Own(b) /\ enabled /\ agents # {}
    /\ \E limited \in SUBSET (Named(t) \cap ran) :
         /\ due' = due \ limited
         /\ batch' = [batch EXCEPT ![b] = [batch[b] EXCEPT
              !.left = batch[b].left \ {t}, !.now = t, !.current = TRUE,
              !.asked = {a \in Named(t) \ limited : Runs(a, batch[b].taken[t])}]]
    /\ waiting' = waiting \ {t}
    /\ UNCHANGED <<enabled, pending, timer, scheduled, running, agents, ran, armed, life,
                   refused, requests, changes>>

(* The due slot of an agent that ran is not moved. *)
Record_Unadvanced(b, served) ==
    IF Own(b) /\ batch[b].current
    THEN due' = due /\ ran' = ran \cup served
    ELSE UNCHANGED <<due, ran>>

(* recordRunBookkeeping and advanceAgentSchedule, on the entries that were *)
(* there when the call began: a reload has replaced them.                  *)
Record(b, served) ==
    IF Own(b) /\ batch[b].current
    THEN due' = due \ served /\ ran' = ran \cup served
    ELSE UNCHANGED <<due, ran>>

(* Recorded are those not found busy and, in a wake of all agents, some of *)
(* those found busy: their own run was over, one for a commitment that is  *)
(* due was not.                                                            *)
RecordServed(b, busy) ==
    \E late \in SUBSET busy :
        /\ late # {} => batch[b].now = All
        /\ Record(b, (batch[b].asked \ busy) \cup late)

(* The timer is set again only when an agent ran. *)
Arm_WhenAsked(b) ==
    IF Own(b) /\ batch[b].asked # {}
    THEN armed' = (agents # {}) /\ refused' = FALSE
    ELSE UNCHANGED <<armed, refused>>

(* scheduleNext *)
Arm(b) ==
    IF Own(b) THEN armed' = (agents # {}) /\ refused' = FALSE
    ELSE UNCHANGED <<armed, refused>>

(* A busy answer sets the retry timer, and leaves the wake to nobody. *)
Return_Drops(b, busy) ==
    /\ Settled /\ Active(b)
    /\ busy \subseteq batch[b].asked
    /\ RecordServed(b, busy)
    /\ \/ busy = {} /\ Arm(b) /\ UNCHANGED wakes
       \/ /\ busy # {}
          /\ timer' \in Scheduled("retry")
          /\ waiting' = waiting \cup {batch[b].now}
          /\ UNCHANGED <<pending, armed, refused>>
    /\ batch' = [batch EXCEPT ![b] = [batch[b] EXCEPT !.now = NoTarget, !.asked = {}]]
    /\ UNCHANGED <<enabled, scheduled, running, agents, life, requests, changes>>

(* The call returns: an agent that was busy leaves the interval timer to   *)
(* the retry of the layer.                                                 *)
Return(b, busy) ==
    /\ Settled /\ Active(b)
    /\ busy \subseteq batch[b].asked
    /\ RecordServed(b, busy)
    /\ \/ /\ busy = {}
          /\ Arm(b)
          /\ UNCHANGED wakes
       \/ /\ busy # {}
          /\ pending' = Queued(One(batch[b].now, batch[b].taken[batch[b].now]))
          /\ timer' \in Scheduled("retry")
          /\ waiting' = waiting \cup {batch[b].now}
          /\ UNCHANGED <<armed, refused>>
    /\ batch' = [batch EXCEPT ![b] = [batch[b] EXCEPT !.now = NoTarget, !.asked = {}]]
    /\ UNCHANGED <<enabled, scheduled, running, agents, life, requests, changes>>

(* A throw leaves the layer running. *)
Throw_StaysRunning(b) ==
    /\ Settled /\ Active(b) /\ batch[b].now = All
    /\ \E served \in SUBSET batch[b].asked : served # {} /\ Record(b, served)
    /\ Arm(b)
    /\ pending' = Queued(batch[b].taken)
    /\ timer' \in Scheduled("retry")
    /\ waiting' = waiting \cup {t \in Targets : batch[b].taken[t] # None}
    /\ batch' = [batch EXCEPT ![b] = NoBatch]
    /\ UNCHANGED <<enabled, scheduled, running, agents, life, requests, changes>>

(* A wake of all agents throws when the commitments that are due cannot be *)
(* listed, after the agent's own run.  The whole batch is queued again.    *)
Throw(b) ==
    /\ Settled /\ Active(b) /\ batch[b].now = All
    /\ \E served \in SUBSET batch[b].asked : served # {} /\ Record(b, served)
    /\ Arm(b)
    /\ pending' = Queued(batch[b].taken)
    /\ timer' \in Scheduled("retry")
    /\ waiting' = waiting \cup {t \in Targets : batch[b].taken[t] # None}
    /\ running' = FALSE
    /\ batch' = [batch EXCEPT ![b] = NoBatch]
    /\ UNCHANGED <<enabled, scheduled, agents, life, requests, changes>>

(* Time passes to an agent's next slot. *)
BecomesDue(a) ==
    /\ Settled /\ live /\ a \in agents \ due
    /\ due' = due \cup {a}
    /\ UNCHANGED <<enabled, wakes, layer, agents, ran, armed, life, refused, requests, changes>>

(* The method set-heartbeats of the gateway. *)
SetEnabled ==
    /\ Settled /\ changes < MaxChanges /\ changes' = changes + 1
    /\ enabled' = ~enabled
    /\ UNCHANGED <<wakes, layer, beats, life, refused, requests>>

(* updateConfig, of a reload: a slot that had come is computed anew. *)
UpdateConfig(configured) ==
    /\ Settled /\ live /\ changes < MaxChanges /\ changes' = changes + 1
    /\ agents' = configured
    /\ due' = {} /\ ran' = ran \cap configured
    /\ armed' = (configured # {})
    /\ refused' = FALSE
    /\ batch' = [b \in Batches |-> [batch[b] EXCEPT !.current = FALSE]]
    /\ UNCHANGED <<enabled, wakes, scheduled, running, life, requests>>

(* The timer of the runner before is cleared, its wakes get no new one. *)
StartRunner_Idle(configured) ==
    /\ Settled /\ ~live /\ started < MaxRunners
    /\ started' = started + 1 /\ live' = TRUE
    /\ timer' = "none"
    /\ scheduled' = FALSE /\ running' = FALSE
    /\ agents' = configured /\ due' = {} /\ ran' = {}
    /\ armed' = (configured # {})
    /\ refused' = FALSE
    /\ overlapped' = (overlapped \/ \E b \in Batches : Active(b))
    /\ UNCHANGED <<enabled, pending, waiting, batch, requests, changes>>

(* startHeartbeatRunner: setHeartbeatWakeHandler forgets the timer and the *)
(* flags of the runner before, and keeps its wakes.                        *)
StartRunner(configured) ==
    /\ Settled /\ ~live /\ started < MaxRunners
    /\ started' = started + 1 /\ live' = TRUE
    /\ timer' = IF IsPending(pending) THEN "normal" ELSE "none"
    /\ scheduled' = FALSE /\ running' = FALSE
    /\ agents' = configured /\ due' = {} /\ ran' = {}
    /\ armed' = (configured # {})
    /\ refused' = FALSE
    /\ overlapped' = (overlapped \/ \E b \in Batches : Active(b))
    /\ UNCHANGED <<enabled, pending, waiting, batch, requests, changes>>

(* cleanup(), when the gateway closes or restarts in the process: nobody   *)
(* asks for the state of the runner any more.                              *)
StopRunner ==
    /\ Settled /\ live /\ live' = FALSE
    /\ armed' = FALSE /\ agents' = {} /\ due' = {} /\ ran' = {} /\ refused' = FALSE
    /\ UNCHANGED <<enabled, wakes, layer, started, overlapped, requests, changes>>

-----------------------------------------------------------------------------
CallStep(b) ==
    \/ EndBatch(b)
    \/ \E t \in Targets : Refuse(b, t) \/ BeginCall(b, t)
    \/ \E busy \in SUBSET batch[b].asked : Return(b, busy)
    \/ Throw(b)

Next ==
    \/ \E t \in Targets, level \in {Event, Action} : Request(t, level)
    \/ IntervalFires \/ TimerFires
    \/ \E b \in Batches : CallStep(b)
    \/ \E a \in Agents : BecomesDue(a)
    \/ SetEnabled \/ StopRunner
    \/ \E configured \in Configurations : UpdateConfig(configured) \/ StartRunner(configured)

(* Timers fire, calls come to an end, and not each one finds an agent busy. *)
Fairness ==
    /\ WF_vars(IntervalFires) /\ WF_vars(TimerFires)
    /\ \A b \in Batches :
         /\ WF_vars(CallStep(b))
         /\ SF_vars(Return(b, {}))

Spec == Init /\ [][Next]_vars /\ Fairness

-----------------------------------------------------------------------------
(* The variables have their types; no batch names a target twice, and the  *)
(* agents of a call are those it names.                                    *)
BatchType ==
    [by : 0..MaxRunners, taken : [Targets -> Levels], left : SUBSET Targets,
     now : Targets \cup {NoTarget}, asked : SUBSET Agents, current : BOOLEAN]

TypeOK ==
    /\ enabled \in BOOLEAN /\ pending \in [Targets -> Levels]
    /\ timer \in {"none", "normal", "retry"}
    /\ scheduled \in BOOLEAN /\ running \in BOOLEAN
    /\ batch \in [Batches -> BatchType]
    /\ started \in 0..MaxRunners /\ live \in BOOLEAN
    /\ agents \subseteq Agents /\ due \subseteq agents /\ ran \subseteq Agents
    /\ armed \in BOOLEAN
    /\ waiting \subseteq Targets /\ refused \in BOOLEAN /\ overlapped \in BOOLEAN
    /\ requests \in 0..MaxRequests /\ changes \in 0..MaxChanges

(* A wake that is pending while a runner is alive has a timer that will    *)
(* take it, or a batch at its wakes that sets one when it ends.            *)
WakeIsScheduled ==
    live /\ IsPending(pending) => timer # "none" \/ \E b \in Batches : Active(b)

(* No wake is forgotten before a call was made for it: it is pending, or a *)
(* batch has it before it; busy answers and throws queue it again.         *)
WakeIsKept ==
    \A t \in waiting : pending[t] # None \/ \E b \in Batches : t \in batch[b].left

(* The layer hands out one batch at a time, unless a runner started while  *)
(* a batch of the one before was at its wakes: then the end of the old     *)
(* batch lets a second one start.                                          *)
OneBatch ==
    \/ overlapped
    \/ \A b, c \in Batches : Active(b) /\ Active(c) => b = c

(* A runner with agents never loses its heartbeat: its interval timer is   *)
(* set, or a wake of all agents is pending or with a batch of its own,     *)
(* unless such a wake was refused as disabled since it last set the timer  *)
(* or got its agents.                                                      *)
AllIsComing ==
    \/ armed \/ pending[All] # None
    \/ \E b \in Batches : Own(b) /\ (All \in batch[b].left \/ batch[b].now = All)

HeartIsArmed == live /\ agents # {} /\ ~refused => AllIsComing

(* What `openclaw system enable` promises, "turn heartbeats back on": a    *)
(* runner with agents has its next heartbeat coming when they are enabled. *)
EnabledHeartIsArmed == live /\ agents # {} /\ enabled => AllIsComing

(* Every wake is heard: a call of the handler is made for it, while a      *)
(* runner stays alive.                                                     *)
EveryWakeIsHeard ==
    \A t \in Targets : (t \in waiting /\ live) ~> (t \notin waiting \/ ~live)

(* Every agent whose slot has come gets its heartbeat, is held back by the *)
(* flood guard, or is given a new slot, while its runner stays alive and   *)
(* enabled, and no wake was refused.                                       *)
EveryDueAgentBeats ==
    \A a \in Agents :
        (a \in due /\ live) ~> (a \notin due \/ ~live \/ ~enabled \/ refused)

=============================================================================
