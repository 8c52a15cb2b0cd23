# Verification of TrustClaw

TrustClaw is a personal agent gateway (a fork of OpenClaw) with a *trust
runtime* (TRA) on top: a local database of personal health data, agent packs
that may ask about it, and governance around every such question. Domain grants,
consent, an audit log and a chain of evidence receipts are to make each access
authorized, recorded and accountable. This directory holds TLA+ models of the
trust runtime and of four parts of the gateway that it stands on: the command
lanes, which decide when an agent runs at all; the approval manager, which lets a
command through; the outbound delivery queue, which owes the user an answer; and
the heartbeats, which make an agent speak unasked. Model-checking runs and
machine-checked proofs go with them.

Paths below are relative to the repository. `trustclaw/` is the runtime,
`extensions/trustclaw-tra/` the plugin that connects it to the gateway, and
`src/` the gateway.

## 1. Inventory

| Component | State | Operations | Talks to |
|---|---|---|---|
| Policy stores (`trustclaw/tra/agent-domain-*.ts`, `consent-store.ts`, `session-agent-pack.ts`, `runtime/coordinator/`) | three JSON files in the audit directory; the in-memory `EMPTY_FILE` objects | read with filtering, set a grant, keep a consent, bind and resolve a session's pack, clear | called by hook, tools, chat route and operator's routes |
| Data-consent gate and tools (`extensions/trustclaw-tra/src/data-consent-hook.ts`, `tra-query-tool.ts`, `tra-write-tool.ts`) | none of its own; an open approval in the gateway | `before_tool_call`, `onResolution`, `execute` | policy stores, audit log, pipeline |
| Chat pipeline (`trustclaw/runtime/pipeline/run-chat.ts`, `tra/personal-write.ts`) | a trail under way | TEXT2SQL_GEN, DB_QUERY, RULE_EVAL, AGENT_DECISION, LEDGER_COMMIT; a personal write | language model (the one await), database, audit log, ledger |
| Audit log (`trustclaw/audit/`) | `events.jsonl` | append, read, clear | everything governed |
| Evidence ledger (`trustclaw/ledger/`) | `ledger.jsonl` | commit, read, verify, clear | pipeline, panel, reset |
| Operator's routes (`tra-routes.ts`, `agent-grant-routes.ts`, `session-agent-pack-routes.ts`) | none | init, reset, put grant, put or delete session pack | all stores |
| Command lanes (`src/process/command-queue.ts`, `src/agents/session-suspension.ts`, `src/gateway/server-lanes.ts`) | per lane queue, active tasks, limit, generation; draining flag; waiters | enqueue, clear, set limit, suspend, resume, complete, time out, reset, wait | every agent run |
| Runs, recovery, restart (`src/agents/embedded-agent-runner/run.ts`, `src/logging/diagnostic-stuck-session-recovery.runtime.ts`, `src/cli/gateway-cli/run-loop.ts`) | the nested entries of a run, a recovery under way, the phase of a restart | run, abort, interrupt, recover, restart | command lanes |
| Approval manager (`src/gateway/exec-approval-manager.ts`, `server-methods/approval-shared.ts`, `server-methods/exec-approval.ts`, `node-invoke-system-run-approval.ts`) | a map from ids to records, each with a promise and a timer | request, waitDecision, resolve, expire, clean up, use by `node.invoke` | requesters, operators, commands |
| Delivery queue (`src/infra/outbound/deliver.ts`, `delivery-queue-recovery.ts`, `delivery-queue-storage.ts`, `src/infra/delivery-queue-sqlite.ts`) | rows of the state database; the claims of the process; the snapshot of a pass | enqueue, claim, mark, send, ack, fail, abort; recover at startup, drain a channel, reconcile, replay, give up | channels' adapters |
| Heartbeats (`src/infra/heartbeat-wake.ts`, `heartbeat-runner.ts`, `heartbeat-cooldown.ts`) | pending wakes per target, timer, flags, the batch at its wakes; per runner its agents, their due slots, the interval timer | request, fire, call the handler, requeue, reload, enable, disable, start and stop a runner | cron, hooks, system events, agents |

Everything else (pack registry, rules engine, imports, panel pages, the SQLite
schema, the panel, cron, channels, applications) is listed in `PROJECT.json`
with the reason it is left out: pure evaluation, input and output, or code of
the host outside the governed paths.

**What is hard.** The gateway is one Node process. Nothing is preempted, but

- a call gives way to others at its approval, between the hook and its tool, and
  while it waits for the language model, and what it read before may be
  stale after;
- everything between two awaits is a sequence of separate file writes, each of
  which may fail, and the process may die between any two;
- a lane gives a slot back on a time-out or a reset although the task goes on, so
  that late completions meet a lane that has moved on;
- a run holds a slot in its session's lane while it waits for one in the global
  lane, under limits, suspensions, recoveries and restarts that come at any time;
- an approval is decided, repeated, expired, dropped for want of a route and used
  by different parties, by its id, which a caller may give again;
- an append to the ledger may be torn, and the next line is joined to the rest;
- a message is sent by its first sender, by a recovery or by a drain, each of which
  reads the row, awaits the platform and writes the row, and the process may die or
  a write fail at each of these points, after the platform took the message;
- the flags and timers of the wake layer belong to the module and outlive a runner:
  a batch of the runner before ends after the next one has started.

**What makes each component correct.** Policy stores: override and lock agree,
and only a choice moves a lock. Gate: a standing consent has its logged
decision, or was found in a file of version 1. Pipeline and audit log: a trail is a prefix of the declared stages, a
blocked trail ends, an answer has its whole trail. Ledger: every receipt leads to
its trail; the chain verifies, counts, and changes at its end only. Lanes: no work
is stranded, none starts beyond the limit or out of order, every caller and every
waiter is told. Runs: one live run per session, and every run is answered. Approvals: one
outcome, told to all who wait for it, used once, and no caller left waiting. Deliveries: one
sender at a time, nothing removed unsent or sent after its end, no first send
repeated, every row settled. Heartbeats: no wake lost or left without a timer, one
batch at a time, and an agent that is due beats. The
hazards behind these are listed, each at its line, in `PROJECT.json`.

## 2. Modules

| Module | Models | Kind |
|---|---|---|
| `TraPolicy` | the content of the policy files and the functions on it | operators |
| `TraGovernance` (extends `TraPolicy`) | hook, approval, tools, chat route, pipeline, audit log, receipts, operator's routes, failing writes, crash and restart | state machine, implements `AuditTrail` |
| `AuditTrail` | what the trust runtime promises of the trail a call leaves | abstract specification |
| `EvidenceChain` | what the ledger promises of the evidence it shows | abstract specification |
| `EvidenceLedger` | the ledger file, commit, verification | state machine, implements `EvidenceChain` |
| `CommandLanes` | `command-queue.ts`, suspension, configured limits | state machine |
| `RunLanes` (extends `CommandLanes`) | runs, interrupts, recovery, restart, all by actions of `CommandLanes` | composition |
| `Approval` | what an approval promises | abstract specification |
| `ApprovalManager` | records, promises and timers of approvals, and the handlers that use them | state machine, implements `Approval` |
| `DeliveryIntent` | what a durable delivery promises | abstract specification |
| `DeliveryQueue` | rows, claims, senders, passes, platform, crash | state machine, implements `DeliveryIntent` |
| `Heartbeat` | wake layer and runner | state machine |
| `TraGovernanceProofs`, `TraTrailProofs`, `CommandLanesProofs`, `RunLanesProofs`, `EvidenceLedgerProofs`, `ApprovalManagerProofs`, `DeliveryQueueProofs`, `HeartbeatProofs` | | theorems |
| `MC*` | instances for TLC | |

### How state and actions correspond to the code

*TraGovernance.* `grantFile`, `consent`, `override` and `lock` are the contents of
the three JSON files; `emptyFile` is the grants object of the `EMPTY_FILE`
constant in `agent-domain-grants.ts`, which readers and writers share. `audit` and
`ledger` are the sets of lines of the two logs, `mounted` and `rows` what matters
of the database: is there a profile, and which writes left rows, in the tables that
`clearTraPersonalData` empties or in those it keeps (`Tables`). The consents of a
version 1 file are found at the start (`LegacyEntries`), a standing one among them;
`inherited` is history: those no reset has cleared yet. For each call
`pc` is where it is: *waiting* at an await, at a *stage* inside a synchronous
section, or *over*. One action is one file or database write with the code up to
the next. `Quiet` keeps other calls and routes out of a synchronous section;
`Restart` (the process dies) is not kept out, and ends at any `pc` what was under
way. A failing append is the second disjunct of `AppendThen`: it throws, as
`AuditRecorder.record` does, and the call fails. Seen as an `AuditTrail`, a call is
open until it answered or failed, its trail is what the log has under its id, a blocked
event counting as a refusal whatever step it names, and its receipt is that in the
ledger; policy, approvals, and the database are hidden.

*EvidenceLedger.* `lines` are the lines that parse, `malformed` how many do not,
`end` how the file ends: in a newline, in a fragment, or in a receipt that lost
only its newline (which parses until something is appended to it). Commit reads
the head and appends in one step of the event loop; `CommitFails` is every way in
which it can stop. TraGovernance has the receipts as a set, since it asks only
which trails they lead to; order and hashes are here. A hash is the list of all
it covers, that is, SHA-256 is taken to have no collisions.

*CommandLanes.* Each function of `command-queue.ts` runs to its end without an
await, the pump included, and is one action. `promise` is what the caller of an
entry was told, `executing` the tasks that really run, whether or not their lane
still counts them in `active`. `startedIn` is the generation a completion is
compared with. `draining` is down between steps and is left out.

*RunLanes.* A run is two entries. The task of the outer one, in the session's
lane, puts the inner one into the global lane and ends as it ends; the run works
in the task of the inner one, the only one with a time-out. Every step of
RunLanes is a step of CommandLanes or leaves its variables unchanged; what is
added is which step may come when. `condemned` is history: the entries a recovery or
a restart found at work.

*ApprovalManager.* `pending` is the manager's map; `decision`, `consumed` and
`resolvedBy` are fields of a record and `promise` is what the promise of its entry
holds. A record is resolved when `resolvedBy` is set, as `resolvedAtMs` is set with
it; *null* stands for the null that the timer leaves there, and every operator has
a name or a client id. `resolve` and `expire` are one operator, `Settle`, as they
differ in what they write only. The requester's handler is cut at its two awaits
(*delivering*, *waiting*); `Request` begins after the analysis of the command, as
nothing before it is kept. `late` holds the records whose expiresAtMs is past, which
`node.invoke` looks at beside the record: the timer may fire in the millisecond
before that, which leaves the caller's own fallback a moment to act. `told` is
history. A requester whose delivery found nobody hears *no route*: that is the null
which the handler answers without a look at the record.

*DeliveryQueue.* `queue`, `retries`, `mark` and `waiting` are the row of a delivery
(status, retryCount, recoveryState, and whether its backoff still runs), all that a
crash leaves besides `sent`, what the platform has. `claims` is `entriesInProgress`.
`live` is where the first sender is in `deliverOutboundPayloadsInternal` and the
functions below it: *enqueued* before its claim, *sending* before a payload,
*calling* at the await of the platform, *threw*, *timed out* and *acking* before the
write of the row that follows. `pass` is a run of `recoverPendingDeliveries` (the
pass `Startup`) or of `drainPendingDeliveries`: its snapshot `todo`, the entry it
has claimed, and how far the send of it is. The clock is left out: a backoff ends at
any time. A call of the platform answers, or fails whether or not the message was
taken; a required delivery needs its mark before the first call, a best-effort write
policy goes on without it. `ClaimTried` is the one statement on scheduling: the
claim of a live sender comes a few microtasks after its row, before the platform can
have answered anybody.

*Heartbeat.* Everything between two awaits of `schedule`'s callback and `run` is one
step, and the event loop does nothing else between two calls of a batch (`Settled`,
`InLoop`). `batch` holds the callbacks whose loop is under way, each with the runner
that its handler belongs to: after an in-process restart the old one goes on beside
the new. The clock is left out but for `due`, the agents whose slot has come; the
interval timer may find nobody due, as its delay is clamped. Which agents the flood
guard and the minimal spacing hold back (`limited`) is a choice among those that ran.
A reload replaces the records of the agents, so that a call under way writes to the
old ones (`current`). An agent's own run may be recorded although the agent answers
busy, when one of its commitments found it busy after that (`RecordServed`). `refused`
is history: a wake of all agents was refused as disabled since the runner last set its
timer or got its agents. `Throw` is the one way in which a call of the handler throws:
the due commitments cannot be listed.

## 3. Runs

| Run | States | Instance | Shows |
|---|---|---|---|
| `TraGovernance` | 3.0 million | 2 calls of any tool in 1 session, 2 packs, 2 operator requests or restarts, writes may fail | the properties of the governed paths; refinement of `AuditTrail` |
| `EvidenceLedger` | 3,600 | 4 commits | the chain, verification, refinement of `EvidenceChain` |
| `CommandLanes` | 79,000 | 1 lane, limits 0 to 2, 3 entries, 1 waiter, 1 reset | nothing stranded, lost, started twice or out of turn; everybody told |
| `RunLanes` | 1.0 million | 3 runs of a session, 2 global slots | one live run per session, no circular wait |
| `RunAnswers` | 451,000 | 2 runs of a session, 1 or 2 global slots, 1 waiter | every run is answered |
| `ApprovalManager` | 77,000 | 2 requests with the same id, 1 call of waitDecision, 2 invocations | one outcome, told to all who wait for it, used once, and everybody answered; refinement of `Approval` |
| `DeliveryQueue` | 950,000 | a required delivery that reconciles and a best-effort one, 2 payloads each, a startup pass and a drain, 2 retries, 1 crash, 1 failing write | one sender, claims held, acked is sent, no first send repeated, every row settles; refinement of `DeliveryIntent` |
| `Heartbeat` | 332,000 | 1 agent, 2 runners, 1 request, 1 reload or switch | wakes kept, scheduled and heard, hearts armed, due agents beat |
| `ResetRevokes`, `BlindReplay`, `TimedOutSend`, `HeartbeatOff` | | as above, smaller | that the code does not do what a document or a comment says; see the findings |

The type invariants (`TypeOK`) are part of the inductive invariants of section 5 and are
proved for every instance; the runs spend nothing on them.

**Bounds.** `MaxOps` bounds operator requests and restarts, `MaxResets` the resets
of a lane; calls, commits and entries are finite sets, each used once. Two calls
are enough for every pair of steps to interleave, and the properties of the trail
are about one call against the rest. The two packs are chosen to differ in every
respect the code looks at: one writes, has rules, a ledger and standing consent,
the other has none of these. The session's agent suggests the second and a
request without an agent the first, so that a lock and a suggestion can differ. A consent
file that is found holds nothing or a standing consent of the default pack with the
session among its keys, the most that it can hold for what is asked later. Two operator requests allow grant and reset, init
and reset, rebind and restart. In the lanes three entries give two in the queue
behind one that runs, or two running over a limit of one; a second reset of the
same lane meets the same state as the first, since only equality of generations
is looked at. Three runs of a session are what recovery needs: the stuck run, the
one that started meanwhile, and one to be started wrongly. Four commits give a
receipt in front of, between and behind torn lines. Approvals meet
only through an id they share, so two requests with one id are what may go wrong;
one of them does not allow allow-always. Two invocations compete for an allow-once.
Deliveries meet only in the order of a pass and in its snapshot, so two of them are
enough: one with every safeguard, drained and recovered at startup, and one with
none. Two payloads give a delivery that is sent in part. `MaxRetries` is 5 in the
code and 2 here, enough for a first, a middle and a last retry; a second crash meets
the rows as the first one left them. In `Heartbeat` two runners give the overlap of a
batch with a restart; targets meet only in a batch, and the general wake and the
named wake of one agent are two targets already. The run with two agents is
`HeartbeatOff`; the theorems are about any number.
`TraGovernance` uses symmetry in the calls, and only safety and action properties
are checked there; the runs with liveness use none.

**Deadlock** is not checked where everything may be over: all calls answered, all
entries settled, all requests answered, the bound reached. `EvidenceLedger` can always be cleared, and
deadlock is checked there.

**Fairness.** None in `TraGovernance` and `EvidenceLedger`: only safety is
claimed. In `CommandLanes` a task that runs ends or times out, and the timer of a
suspended lane fires. A task without a time-out may in truth run forever; callers
give `taskTimeoutMs` for exactly that reason, and an answer can only be promised
when the task ends. In `RunLanes` the same holds of the run itself, whose entry
has a time-out when its `timeoutMs` is positive and finite, which is assumed
(`resolveEmbeddedRunLaneTimeoutMs` gives none otherwise, and such a run is answered
only if it ends by itself); in addition the code of a
run between its two entries takes finite time. In `ApprovalManager` the timer of a
record fires, a delivery ends, and a settled promise wakes who waits for it. In
`DeliveryQueue` the platform answers or fails in the end, backoffs elapse, and a pass
of a connected channel is made again and again, as the channel's timer and its
reconnects do (WhatsApp's monitor drains every 30 s while it is connected); the startup pass is made once per life. In `Heartbeat` timers fire and
a call of the handler comes to an end (weak fairness), and a call that is made again
and again does not find an agent busy each time (strong fairness): busy means that
the agent's lane has work, and work ends.
Restart, recovery, interrupts, callers and operators are never assumed to act.

## 4. Findings

Four places where the program does not do what it says. Each is a run that fails,
with the quotation in `PROJECT.json`.

1. **A grant outlives the reset** (`ResetRevokes`). Without a grant file, a grant is
   set in the shared object of the `EMPTY_FILE` constant, and a reset writes that
   object back.
2. **A blind replay** (`BlindReplay`). The recovery replays an entry without a mark
   (`skipQueue`), so that a crash, a lost answer or a failing ack after it leads to
   the same message once more, although the channel could reconcile.
3. **A time-out taken for an abort** (`TimedOutSend`). Every error named AbortError
   counts as the caller's abort, also the one with which an adapter ends its own
   request, and the row of a message that was never sent is removed.
4. **Heartbeats stay off** (`HeartbeatOff`). The tick that comes while heartbeats are
   disabled is refused before the code that sets the timer again; enabling them sets
   the flag only.

Others were read in the code while modelling it. The models have these steps, and no
run is kept for them:

- `run-chat.ts:82`: the check that the runtime is initialized precedes the await of
  the model; a reset in between leads to a decision without a profile.
- `tra-query-tool.ts:61`: the tool resolves the pack of the session anew after the
  approval, and may run as another one than the user was asked about.
- `personal-write.ts:182`: the event of a committed write is appended inside the try
  whose catch records the write as blocked. `WrittenRowsAreAudited` says what is left:
  in the tables a reset empties, the rows of a write that *answered* have their event,
  those of one that failed after its commit stay without one.
- `init.ts:10`: a reset empties six tables. A personal write may also insert into
  `daily_vitals`, `device_registry`, `data_source_registry` and the three `wearable_*`
  tables; these rows stay, and the log that has their events is cleared, although the
  event of the reset lists "local_tra.db personal rows" as cleared
  (`operator-events.ts:18`) and `README.md:56` says "Clear personal data +
  audit/ledger". `WrittenRowsAreAudited` does not hold of those tables.
- `consent-store.ts:53`: the standing consent of a version 1 file becomes one of the
  default pack, with no event in the log. `StandingConsentIsAudited` names it as its
  exception, until a reset.
- `approval-shared.ts:484`: the delivery finds nobody after an operator has decided and
  was told ok: `expire` does nothing, its result is not looked at, and the requester is
  answered null, while those who wait hear the decision. `OneOutcome` names it as its
  exception.
- `ledger-routes.ts:24`: the panel verifies the receipts of one pack as if they were
  the whole chain (this page is not modelled).
- `command-queue.ts:616`: a run that was queued in its session's lane at a restart
  starts during the drain and is refused by the global lane.
- `deliver.ts:1319`: `hadPartialFailure` exists to fail a best-effort row of which a
  payload failed; a replay has no row at hand, and its caller acks it.

## 5. Proofs

TLC checks the instances above; the theorems hold for every value of the
constants that meets the named assumptions (`PolicyAssumption`,
`NoFileAssumption`, `GovernanceAssumption`, `LanesAssumption`, `ApprovalAssumption`,
`DeliveryAssumption`, `HeartbeatAssumption`), which say that the packs with a feature
are packs, that "no entry" is not one of them, that a call's trail is its own, that
there are finitely many entries, each with a lane and a priority, and limits are
positive, that each request has an id and a set of decisions it allows, that deliveries
are numbered, have a payload and may be retried, and that a wake of all agents is not
the name of one; `RunsAssumption` gives a run its two entries.

`TraGovernanceProofs`

- `TypeCorrect`: type correctness. One lemma per part of `Next`; `AppendThen` and
  `BindPack` have lemmas of their own since a dozen actions use them.
- `SessionPacksAgree` and `LockIsSticky`: override and lock agree, and only a choice
  moves a lock. The invariant is inductive with the type invariant: all that
  write the two maps go through `BindPack` or a route that writes both.
  `BindPackLocks` states what a resolution may do to them, and `LockIsSticky`
  follows from it, as the pack found for a locked session is its lock unless a
  request names another.
- `StandingConsentsAreAudited`: a standing consent has its logged decision, or was found
  in a version 1 file and no reset came since. The
  invariant is not inductive: the hook's choice is looked at when the approval
  ends, and a reset drops the events after the consents. The strengthening adds
  that no consent stands between the two files of a reset, found ones included, and the
  type invariant; the frame lemmas show that no other step drops events or adds
  consents.

`TraTrailProofs` (over the module before)

- `TrailsInv` is inductive: `ResetIsAlone`, that no synchronous section is under way
  during a reset, and per call `TrailInv`. That ties the trail to the `pc` of the call:
  a call that has not reached the pipeline has an empty trail (`RecordsReach`), one in
  it has every declared stage below its own recorded, and a receipt has the stages
  before it unless a reset stopped in between (`ReceiptsAreBacked`). The properties
  alone are not inductive, as none says which stages a running call has behind it.
- A call's step does one of five things to its trail, each a lemma: nothing
  (`TrailRests`), staying empty, being blocked, recording its stage and moving on
  (`TrailAdvances`), or writing the receipt. `Touches` says that it leaves all other
  trails alone, which needs that a call's trail has an id of its own
  (`GovernanceAssumption`; the code gives each kind of trail a prefix).
- `ReceiptsTraceToAuditHolds`, `TrailIsStagePrefixHolds`, `BlockedTrailStopsHolds` and
  `AnsweredIsAuditedHolds` follow: governance invariants 1 to 3 of the documents.
- `WrittenRowsAreAuditedHolds` adds `RowsInv` to them: the rows of a write belong to a call
  that is between its commit and its end, or over, and a reset that has dropped the
  events has dropped those in the tables it empties before. The property speaks of these
  tables and of answered writes only, and says nothing of a write that has committed and
  not yet recorded it.
- `KeepsTrailsHolds`: `TraGovernance` implements `AuditTrail`. Each of the five things a
  step may do to a trail is a step of the abstract specification, a lemma each
  (`RecordSimulates`, `CommitSimulates`, `EnterSimulates`, `BlockSimulates`,
  `FailuresSimulate`); `RecordingsOf` relates what the log has of a call to its abstract
  trail. That a reset takes no trail from under a call is `ResetIsAlone`.

`CommandLanesProofs`

- `IInv` is inductive: types, `WaitersAreWoken`, and `LaneInv` per lane, which says that
  the queue is in order, holds entries of its lane only and none that is active, that
  a lane with a queue has no room, that what waits is pending and does not execute, and
  that what is active started in the generation of its lane. `NoStrandedWork` is not
  inductive alone: a queue that held an entry twice, or one that is active, would
  start fewer tasks than the pump takes out, and the lane would have room left.
  `CaptureInv` says that what a waiter captured is in no queue, so it is not started
  again behind the waiter's back.
- `PumpedLane` and `EnqueuedLane` are about a lane by itself, whatever else happens:
  pumping a lane in order fills it or empties its queue, and an insertion keeps the
  order. `LaneAdvances`, `LaneRests` and `OneLaneAdvances` carry them into the state;
  each action then has a short lemma.
- `LanesTypeOK`, `NoStrandedWorkHolds`, `WaitersAreWokenHolds`, `StartsWithinLimitHolds`
  and `StartsInOrderHolds` follow.
- `NothingIsLostHolds`: `NothingIsLost` is inductive with `IInv`. `PumpedHolds` and
  `QueueingHolds` say that pumping moves an entry from the queue to the tasks only, and
  that an insertion pushes none out; who leaves a queue otherwise was told.
- `StartsOnceHolds`: what starts was in a queue, which by `IInv` holds only entries that
  wait and do not run.

`RunLanesProofs` (over the module before)

- `RunInv` is `IInv` of the lanes with four parts about runs. `SlotInv`: a task that runs
  for a caller has its slot, unless a recovery or a restart took it, and those it is
  taken from are condemned. `NestingInv`: a run works while its outer task does, and
  nothing gives up on the outer task, as it has no time-out. `SessionInv`: the limit of a
  session's lane is one and is kept, as only the global lane is suspended and
  configured. `RecoveryInv`: what a recovery may reset it noted, and what it noted is
  condemned. Without `NestingInv` the property says nothing to induct on: it is about
  the inner tasks, and what excludes each other are the outer ones.
- `Effect` is what a step does to all this. There is a lemma per function of the
  queue (`EnqueueEffect`, `SettleEffect`, `ResetEffect`, ...), which the actions of runs,
  recoveries and restarts cite; the rest of the step is `StepPreserves` of the lanes.
- `RunsUseTheLanes`: `RunLanes` implements the safety part of `CommandLanes`.
  `RunsNeverStrand` and `OneLiveRunHolds` follow.
- `NoCircularWaitHolds`: as the lanes lose nothing (`RunSpecLosesNothing`), an entry that
  waits is held back by a lane whose every slot has a task at work for its caller
  (`HeldBack`). In a session's lane that is the outer task of a run; in the global lane the
  tasks are inner ones, as many as there are runs at work (`GlobalSlots`), and these wait
  for no lane. This is the safety part of `EveryRunIsAnswered`, for every number of runs.

`EvidenceLedgerProofs`

- The inductive invariant is `TypeOK`, `Linked(lines)` and that a file which ends in
  a receipt has one. `Linked` says of each line what its height, its link and its
  hash are; verification alone is not inductive, as it does not look at heights.
  `NewReceiptLinks` and `FrontLinks` show that appending a new receipt and losing
  the last keep it.
- `LedgerTypeCorrect`, `LedgerAlwaysVerifies`, `HeightsAlwaysCount` follow.
  `TamperingIsAlwaysFound` needs that the hash of line i+1 is longer than what the
  altered ledger has in its place.
- `LossIsAlwaysMalformed`: `LossInv` adds that a receipt which lost its newline was not
  handed out, as its call is still to come back, so that the line it is joined to takes
  none but its own with it, and that what was handed out belongs to calls already made,
  so that a new receipt is none of those lost before (`WritesLoseNothing`).
- `LedgerRefinesChain`: every step of the ledger maps to a step of `EvidenceChain` or
  to a stutter.

`ApprovalManagerProofs`

- The inductive invariant says what `resolvedBy` tells of the other fields of a
  record (`Records`), that what an operator was told is what the record holds, and
  that what was forwarded is backed by its record. None of the properties is
  inductive alone: a used up allow-once looks like a time-out but for `resolvedBy`,
  and a decision is told again from `consumed`. `SettleFrame` and `ConsumeFrame`
  say what the manager writes, once for all handlers. `CallersAgree`: whoever was answered
  heard what the promise holds, which stays (`PromiseStands`); that the approval of a
  requester without a route is resolved is `NoRouteResolves`.
- `ApprovalTypeCorrect`, `EveryoneHearsOneOutcome`, `AllowOnceIsUsedOnce`,
  `FallbackIsForSilence` and `OpenApprovalsAreReachable` follow.
- `ManagerRefinesApproval`: the outcome that a record tells of is what its promise
  holds (`OutcomeIsPromise`), which is written once.

`DeliveryQueueProofs`

- `QueueInv` is inductive: per delivery `OwnerInv`, `MarkInv` and `SentInv`. `OwnerInv`
  says who may touch a row: its first sender or a pass, whoever has the claim, finds it
  pending with a retry left, and nobody else is at it; so a stale snapshot of a pass
  does no harm. `MarkInv`: while the first sender of a required delivery is at work the
  platform has nothing of what lies ahead of it, and what is unacked after it got
  something through is marked, so that no pass replays it. `SentInv`: what a
  sender has passed over was sent, unless it knows of a failure.
- `SameKeeps` is the frame lemma: a step that leaves a delivery and the passes at work
  on it alone keeps what is said of it. `LeaveStep`, `StayStep`, `ReleaseStep` and
  `WorkOnStep` stand for the four things a sender or a pass may do with its row, and
  `RowEffects` for the writes; each action is then a short proof.
- `DeliveryTypeOK`, `OneSenderHolds`, `AckedWasSentHolds` and
  `FirstSendIsNotRepeatedHolds` follow from it.
- `ClaimsAreHeldHolds`: nobody keeps a claim it is not at. `SenderStep` is what any step of
  a first sender may do to the claims, and keeps the property (`SenderStepKeeps`); a pass
  claims the row it works on and lets go of it with the same step.
- `DeliveryQueueRefines`: each of the step lemmas also tells what becomes of the fate of
  the delivery (`Move`), which is a step of `DeliveryIntent` or none.

`HeartbeatProofs`

- `LayerInv` is inductive: the type invariant, the four properties and three
  conjuncts they need. `BatchInv`: a slot without a batch is empty, and what a batch
  holds was in what it took, so that a throw puts it back. `RunningInv`: without an
  overlap a batch at its wakes has `running` set, so that a second callback waits.
  `LiveInv`: a live runner has been started.
- `WakesAreScheduled`: whoever adds a wake sets a timer, a callback that takes the
  timer either takes every wake or leaves one set, and the end of a batch looks again.
  `TimerTakes` states what the callback may do to the batches, `CallStepBatch` what a
  call may do; both serve every theorem of the module.
- `WakesAreKept`, `BatchesDoNotOverlap` and `HeartsAreArmed` follow by one case per
  action. The last one rests on `Return`: a busy answer leaves the timer to the wake
  that it puts back, any other answer sets it.

**Only model-checked:** liveness (`EveryPromiseSettles`, `EveryRunIsAnswered`, `EveryCallerIsAnswered`,
`EveryRowSettles`, `EveryWakeIsHeard`, `EveryDueAgentBeats`), which needs ENABLED; the
prover does not handle it.

## 6. Not modelled

What the table of components says, and inside the modelled ones: the wording and
the fields of events that no property is about; the `panel.*` scopes, which gate
read-only pages; authentication and parsing of requests; a torn line of the audit
log (the ledger shows the same file layout); a binding of a session that cannot be
written; the attempts, compaction and failover inside a run; the onWait warning of
an entry that waited long; who may see an approval, its lookup by prefix and the
match of a command with the approved one, which only refuse; the events that tell
clients of an approval; a restart of the gateway, which loses all approvals and
everybody who waits for one; the other lanes of the gateway (cron, subagent,
nested), which have the same code with no nesting under a session; of a delivery its
hooks, its mirror in the transcript, its commit hooks and the parts that a payload is
rendered into; of a heartbeat what the agent does, its active hours, the wakes with the
source retry, and what other agents still record after one of them threw.

## 7. Plan

Done, in this order: `TraPolicy` and `TraGovernance`, the promise of the product;
`CommandLanes` and `RunLanes`, on which every run depends; `EvidenceChain` and
`EvidenceLedger`; `Approval` and `ApprovalManager`; `DeliveryIntent` and
`DeliveryQueue`; `Heartbeat`; the theorems above.

Next:

1. An abstract specification of a lane, a priority queue with a limit that tells every
   caller one outcome, and the proof that `CommandLanes` implements it.
2. The session delivery queue, a sibling of the outbound one; adding and deleting
   packs (`runtime/agent-pack/`), so that a session may stay bound to a pack that is
   gone; the import of device data.
