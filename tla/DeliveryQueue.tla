---------------------------- MODULE DeliveryQueue -----------------------------
(***************************************************************************)
(* The write-ahead queue of outbound messages: deliver.ts writes a row     *)
(* before it sends, marks it before the first call of the platform, and    *)
(* deletes it when everything was sent; delivery-queue-recovery.ts sends   *)
(* what is left at startup and when a channel reconnects.                  *)
(*                                                                         *)
(* A step lies between two awaits that matter: a write of the row, a call  *)
(* of the platform.  A crash loses all but the rows and what the platform  *)
(* has.  A call may fail although the platform took the message; none is   *)
(* still under way after a crash.  Hooks that cancel or rewrite a payload, *)
(* the mirror of the transcript and failing reads of the rows are left     *)
(* out.                                                                    *)
(***************************************************************************)
EXTENDS Naturals

CONSTANTS
    Deliveries,     \* numbered in the order they are queued in
    PayloadCount,   \* payloads of each
    BestEffort,     \* params.bestEffort: a failing payload is passed over
    Required,       \* params.queuePolicy is "required"
    Reconciles,     \* their channel's adapter implements reconcileUnknownSend
    TimesOut,       \* their adapter throws an AbortError at its own time limit
    Passes,         \* drain keys, and Startup: recoverPendingDeliveries
    Startup,
    Matches,        \* per pass, what selectEntry lets through
    Bypass,         \* passes that may pass over the backoff of an entry
    MaxRetries,     \* MAX_RETRIES
    MaxCrashes,     \* bound: crashes
    MaxFaults,      \* bound: failing writes of a row
    Nothing

Payloads == 1..PayloadCount

ASSUME DeliveryAssumption ==
    /\ Deliveries \subseteq Nat /\ Nothing \notin Deliveries
    /\ BestEffort \subseteq Deliveries /\ Required \subseteq Deliveries
    /\ PayloadCount \in Nat \ {0} /\ MaxRetries \in Nat \ {0}
    /\ MaxCrashes \in Nat /\ MaxFaults \in Nat
    /\ Startup \in Passes /\ Matches \in [Passes -> SUBSET Deliveries]

VARIABLES
    queue,      \* per delivery, its row: "absent", "pending", "acked", "failed"
    retries,    \* retryCount
    mark,       \* recoveryState
    waiting,    \* rows whose backoff has not elapsed
    claims,     \* entriesInProgress
    live,       \* per delivery, its first sender
    pass,       \* per pass, where it is
    sent,       \* the platform: how often it got each payload, 2 for more
    aborted,    \* history: deliveries whose caller aborted
    timedOut,   \* history: deliveries that an AbortError of the adapter ended
    firstSent,  \* history: required ones whose first sender got a payload through
    replayed,   \* history: best-effort ones that a pass sent
    crashes, faults

row == <<queue, retries, mark, waiting>>
history == <<aborted, timedOut, firstSent, replayed>>
vars == <<row, claims, live, pass, sent, history, crashes, faults>>

-----------------------------------------------------------------------------
Marks == {"none", "send_attempt_started", "unknown_after_send"}
LivePhases == {"new", "refused", "enqueued", "sending", "calling", "threw", "timedOut",
               "acking", "over"}
PassPhases == {"idle", "due", "done", "scan", "reconcile", "replay"}

\* marked is platformSendStarted, partial is hadPartialFailure.
LiveStates == [at : LivePhases, next : 1..(PayloadCount + 1), partial : BOOLEAN,
               marked : BOOLEAN]
PassStates == [at : PassPhases, todo : SUBSET Deliveries,
               entry : Deliveries \cup {Nothing}, next : 1..(PayloadCount + 1)]

TypeOK ==
    /\ queue \in [Deliveries -> {"absent", "pending", "acked", "failed"}]
    /\ retries \in [Deliveries -> 0..MaxRetries]
    /\ mark \in [Deliveries -> Marks]
    /\ waiting \subseteq Deliveries /\ claims \subseteq Deliveries
    /\ live \in [Deliveries -> LiveStates]
    /\ pass \in [Passes -> PassStates]
    /\ sent \in [Deliveries -> [Payloads -> 0..2]]
    /\ aborted \subseteq Deliveries /\ timedOut \subseteq Deliveries
    /\ firstSent \subseteq Required /\ replayed \subseteq BestEffort
    /\ crashes \in 0..MaxCrashes /\ faults \in 0..MaxFaults

Fresh(phase) == [at |-> phase, next |-> 1, partial |-> FALSE, marked |-> FALSE]
Resting(k) == [at |-> IF k = Startup THEN "done" ELSE "idle", todo |-> {},
               entry |-> Nothing, next |-> 1]
BeforeStart(k) == [Resting(k) EXCEPT !.at = IF k = Startup THEN "due" ELSE "idle"]

Init ==
    /\ queue = [d \in Deliveries |-> "absent"]
    /\ retries = [d \in Deliveries |-> 0]
    /\ mark = [d \in Deliveries |-> "none"]
    /\ waiting = {} /\ claims = {}
    /\ live = [d \in Deliveries |-> Fresh("new")]
    /\ pass = [k \in Passes |-> BeforeStart(k)]
    /\ sent = [d \in Deliveries |-> [p \in Payloads |-> 0]]
    /\ aborted = {} /\ timedOut = {} /\ firstSent = {} /\ replayed = {}
    /\ crashes = 0 /\ faults = 0

-----------------------------------------------------------------------------
(* The rows.  A write takes place or fails; one that needs a pending row   *)
(* fails without it (ENOENT), and deleting a row that is gone is no error. *)

Fault == faults < MaxFaults /\ faults' = faults + 1 /\ UNCHANGED row
Written == UNCHANGED faults

Enqueue(d) ==
    /\ queue' = [queue EXCEPT ![d] = "pending"]
    /\ Written /\ UNCHANGED <<retries, mark, waiting>>

\* The row is deleted, and with it what it held.
Delete(d) ==
    /\ queue' = [queue EXCEPT ![d] = "acked"]
    /\ retries' = [retries EXCEPT ![d] = 0]
    /\ mark' = [mark EXCEPT ![d] = "none"]
    /\ waiting' = waiting \ {d}

AckDelivery(d) ==
    /\ IF queue[d] = "pending" THEN Delete(d) ELSE UNCHANGED row
    /\ Written

MoveToFailed(d) ==
    /\ queue[d] = "pending"
    /\ queue' = [queue EXCEPT ![d] = "failed"]
    /\ waiting' = waiting \ {d}
    /\ Written /\ UNCHANGED <<retries, mark>>

MarkDelivery(d, m) ==
    /\ queue[d] = "pending"
    /\ mark' = [mark EXCEPT ![d] = m]
    /\ Written /\ UNCHANGED <<queue, retries, waiting>>

\* A plausible bug: the attempt is not counted.
RowFailed_Uncounted(d) ==
    /\ queue[d] = "pending"
    /\ waiting' = waiting \cup {d}
    /\ UNCHANGED <<queue, retries, mark>>

RowFailed(d) ==
    /\ queue[d] = "pending"
    /\ retries' = [retries EXCEPT ![d] = @ + 1]
    /\ waiting' = waiting \cup {d}
    /\ UNCHANGED <<queue, mark>>

\* failDelivery, whose own failure every caller swallows.
FailDelivery(d) ==
    \/ RowFailed(d) /\ Written
    \/ queue[d] # "pending" /\ Written /\ UNCHANGED row
    \/ Fault

\* A pass fails the row that it cannot ack.
AckOrFail(d) ==
    \/ AckDelivery(d)
    \/ RowFailed(d) /\ faults < MaxFaults /\ faults' = faults + 1
    \/ UNCHANGED row /\ faults + 2 <= MaxFaults /\ faults' = faults + 2

-----------------------------------------------------------------------------
(* The first sender of a delivery.                                         *)

\* deliver.ts was given the id of a row.
Queued(d) == queue[d] # "absent"

\* Deliveries are queued in their order.  Without its row a required delivery
\* is refused, any other one is sent directly.
Submit(d) ==
    /\ live[d].at = "new"
    /\ \A e \in Deliveries : e < d => live[e].at # "new"
    /\ \/ Enqueue(d) /\ live' = [live EXCEPT ![d].at = "enqueued"]
       \/ Fault /\ live' = [live EXCEPT ![d].at = IF d \in Required THEN "refused"
                                                  ELSE "sending"]
    /\ UNCHANGED <<claims, pass, sent, history, crashes>>

\* A plausible bug: the sender of its own row does not look at the claims.
Claim_Unchecked(d) ==
    /\ live[d].at = "enqueued"
    /\ claims' = claims \cup {d} /\ live' = [live EXCEPT ![d].at = "sending"]
    /\ UNCHANGED <<row, pass, sent, history, crashes, faults>>

\* withActiveDeliveryClaim: when a pass was faster, the sender returns.
Claim(d) ==
    /\ live[d].at = "enqueued"
    /\ IF d \in claims
       THEN live' = [live EXCEPT ![d] = Fresh("over")] /\ UNCHANGED claims
       ELSE claims' = claims \cup {d} /\ live' = [live EXCEPT ![d].at = "sending"]
    /\ UNCHANGED <<row, pass, sent, history, crashes, faults>>

\* A plausible bug: the claim outlives the sender.
Leave_Claimed(d) == live' = [live EXCEPT ![d] = Fresh("over")] /\ UNCHANGED claims

\* The sender returns or throws; what it claimed is released.
Leave(d) ==
    /\ live' = [live EXCEPT ![d] = Fresh("over")]
    /\ claims' = IF Queued(d) THEN claims \ {d} ELSE claims

\* A payload that fails ends a strict delivery.
AfterError(d) ==
    live' = [live EXCEPT ![d] =
                IF d \in BestEffort
                THEN [live[d] EXCEPT !.at = "sending", !.next = live[d].next + 1, !.partial = TRUE]
                ELSE [live[d] EXCEPT !.at = "threw"]]

\* isDeliveryAbortError: the row of a delivery that ends so is acked.
EndAborted(d) ==
    /\ Leave(d)
    /\ IF Queued(d) THEN AckDelivery(d) \/ Fault ELSE UNCHANGED <<row, faults>>

\* throwIfAborted, before each payload; under best effort the abort counts as
\* the failure of this payload and of all the others.
Abort(d) ==
    /\ live[d].at = "sending" /\ live[d].next \in Payloads
    /\ aborted' = aborted \cup {d}
    /\ IF d \in BestEffort
       THEN /\ live' = [live EXCEPT ![d].next = PayloadCount + 1, ![d].partial = TRUE]
            /\ UNCHANGED <<row, claims, faults>>
       ELSE EndAborted(d)
    /\ UNCHANGED <<pass, sent, timedOut, firstSent, replayed, crashes>>

\* A plausible bug: a required delivery goes on although the mark failed.
BeginCall_Unmarked(d) ==
    /\ live[d].at = "sending" /\ live[d].next \in Payloads
    /\ \/ /\ Queued(d) => live[d].marked
          /\ live' = [live EXCEPT ![d].at = "calling"] /\ UNCHANGED <<row, faults>>
       \/ /\ Queued(d) /\ ~live[d].marked
          /\ \/ /\ MarkDelivery(d, "send_attempt_started")
                /\ live' = [live EXCEPT ![d].at = "calling", ![d].marked = TRUE]
             \/ Fault /\ live' = [live EXCEPT ![d].at = "calling"]
    /\ UNCHANGED <<claims, pass, sent, history, crashes>>

\* onPlatformSendStart, before the first call of the platform, or before the
\* next one when the mark failed.
BeginCall(d) ==
    /\ live[d].at = "sending" /\ live[d].next \in Payloads
    /\ \/ /\ Queued(d) => live[d].marked
          /\ live' = [live EXCEPT ![d].at = "calling"] /\ UNCHANGED <<row, faults>>
       \/ /\ Queued(d) /\ ~live[d].marked
          /\ \/ /\ MarkDelivery(d, "send_attempt_started")
                /\ live' = [live EXCEPT ![d].at = "calling", ![d].marked = TRUE]
             \/ Fault /\ IF d \in Required THEN AfterError(d)
                         ELSE live' = [live EXCEPT ![d].at = "calling"]
    /\ UNCHANGED <<claims, pass, sent, history, crashes>>

\* The platform has taken payload p of d once more.
Land(d, p) == sent' = [sent EXCEPT ![d][p] = IF @ < 2 THEN @ + 1 ELSE 2]

FirstLand(d) == Land(d, live[d].next) /\ firstSent' = firstSent \cup ({d} \cap Required)

Call(d) ==
    /\ live[d].at = "calling"
    /\ \/ /\ FirstLand(d)
          /\ live' = [live EXCEPT ![d].at = "sending", ![d].next = @ + 1]
          /\ UNCHANGED <<row, claims, faults>>
       \/ /\ FirstLand(d) \/ UNCHANGED <<sent, firstSent>>
          /\ \/ AfterError(d)
             \/ /\ d \in TimesOut \ BestEffort
                /\ live' = [live EXCEPT ![d].at = "timedOut"]
          /\ UNCHANGED <<row, claims, faults>>
    /\ UNCHANGED <<pass, aborted, timedOut, replayed, crashes>>

\* An AbortError that the adapter threw of its own ends it like an abort.
TimeOut(d) ==
    /\ live[d].at = "timedOut" /\ EndAborted(d)
    /\ timedOut' = timedOut \cup {d}
    /\ UNCHANGED <<pass, sent, aborted, firstSent, replayed, crashes>>

Throw(d) ==
    /\ live[d].at = "threw" /\ Leave(d)
    /\ IF Queued(d) THEN FailDelivery(d) ELSE UNCHANGED <<row, faults>>
    /\ UNCHANGED <<pass, sent, history, crashes>>

\* A plausible bug: what failed under best effort is forgotten.
Return_Forgets(d) ==
    /\ live[d].at = "sending" /\ live[d].next \notin Payloads
    /\ \/ ~Queued(d) /\ live' = [live EXCEPT ![d].at = "acking"]
          /\ UNCHANGED <<row, claims, faults>>
       \/ /\ Queued(d)
          /\ IF ~live[d].marked
             THEN live' = [live EXCEPT ![d].at = "acking"] /\ UNCHANGED <<row, claims, faults>>
             ELSE \/ /\ MarkDelivery(d, "unknown_after_send")
                     /\ live' = [live EXCEPT ![d].at = "acking"] /\ UNCHANGED claims
                  \/ Fault /\ IF d \in Required THEN Leave(d)
                              ELSE live' = [live EXCEPT ![d].at = "acking"] /\ UNCHANGED claims
    /\ UNCHANGED <<pass, sent, history, crashes>>

\* deliverOutboundPayloadsCore has returned: the row is failed when a payload
\* was passed over, and otherwise marked, when it was before, to be acked.
Return(d) ==
    /\ live[d].at = "sending" /\ live[d].next \notin Payloads
    /\ \/ ~Queued(d) /\ live' = [live EXCEPT ![d].at = "acking"]
          /\ UNCHANGED <<row, claims, faults>>
       \/ Queued(d) /\ live[d].partial /\ FailDelivery(d) /\ Leave(d)
       \/ /\ Queued(d) /\ ~live[d].partial
          /\ IF ~live[d].marked
             THEN live' = [live EXCEPT ![d].at = "acking"] /\ UNCHANGED <<row, claims, faults>>
             ELSE \/ /\ MarkDelivery(d, "unknown_after_send")
                     /\ live' = [live EXCEPT ![d].at = "acking"] /\ UNCHANGED claims
                  \/ Fault /\ IF d \in Required THEN Leave(d)
                              ELSE live' = [live EXCEPT ![d].at = "acking"] /\ UNCHANGED claims
    /\ UNCHANGED <<pass, sent, history, crashes>>

Ack(d) ==
    /\ live[d].at = "acking" /\ Leave(d)
    /\ IF Queued(d) THEN AckDelivery(d) \/ Fault ELSE UNCHANGED <<row, faults>>
    /\ UNCHANGED <<pass, sent, history, crashes>>

-----------------------------------------------------------------------------
(* A pass over the queue: recoverPendingDeliveries once after a start, and *)
(* drainPendingDeliveries, one at a time per key, when a channel connects  *)
(* or its timer fires.                                                     *)

StartPass(k) ==
    /\ pass[k].at \in {"idle", "due"}
    /\ LET matching == {d \in Matches[k] : queue[d] = "pending"}
       IN  IF matching = {}
           THEN k = Startup /\ pass' = [pass EXCEPT ![k] = Resting(k)]
           ELSE pass' = [pass EXCEPT ![k].at = "scan", ![k].todo = matching]
    /\ UNCHANGED <<row, claims, live, sent, history, crashes, faults>>

\* After the last entry; the recovery at startup also when its time is over.
EndPass(k) ==
    /\ pass[k].at = "scan"
    /\ pass[k].todo = {} \/ k = Startup
    /\ pass' = [pass EXCEPT ![k] = Resting(k)]
    /\ UNCHANGED <<row, claims, live, sent, history, crashes, faults>>

IsNext(k, d) == d \in pass[k].todo /\ \A e \in pass[k].todo : d <= e

\* loadPendingDelivery after the claim.  A plausible bug: the snapshot of the
\* pass is taken for what is still there.
StillPending_Snapshot(d) == queue[d] # "absent"

StillPending(d) == queue[d] = "pending"

Exhausted(d) == retries[d] >= MaxRetries

NeedsReconciling(d) == mark[d] \in {"send_attempt_started", "unknown_after_send"}

\* An entry that is passed over: another claimed it, it is gone, or it waits.
Skip(k, d) ==
    /\ pass[k].at = "scan" /\ IsNext(k, d)
    /\ d \in claims \/ ~StillPending(d) \/ (~Exhausted(d) /\ d \in waiting)
    /\ pass' = [pass EXCEPT ![k].todo = @ \ {d}]
    /\ UNCHANGED <<row, claims, live, sent, history, crashes, faults>>

\* Its retries are used up.  When the row cannot be moved, a drain throws and
\* the recovery goes on.
Retire(k, d) ==
    /\ pass[k].at = "scan" /\ IsNext(k, d)
    /\ d \notin claims /\ StillPending(d) /\ Exhausted(d)
    /\ \/ MoveToFailed(d) /\ pass' = [pass EXCEPT ![k].todo = @ \ {d}]
       \/ /\ Fault
          /\ pass' = [pass EXCEPT ![k] = IF k = Startup
                                         THEN [pass[k] EXCEPT !.todo = pass[k].todo \ {d}]
                                         ELSE Resting(k)]
    /\ UNCHANGED <<claims, live, sent, history, crashes>>

\* The pass claims the entry, reads it again, and sends it, unless an earlier
\* send may have reached the platform.
Take(k, d) ==
    /\ pass[k].at = "scan" /\ IsNext(k, d)
    /\ d \notin claims /\ StillPending(d) /\ ~Exhausted(d)
    /\ d \in waiting => k \in Bypass
    /\ claims' = claims \cup {d}
    /\ pass' = [pass EXCEPT ![k] = [at |-> IF NeedsReconciling(d) THEN "reconcile" ELSE "replay",
                                    todo |-> @.todo \ {d}, entry |-> d, next |-> 1]]
    /\ UNCHANGED <<row, live, sent, history, crashes, faults>>

\* The finally of the pass: on to the next entry.
Release(k) ==
    /\ claims' = claims \ {pass[k].entry}
    /\ pass' = [pass EXCEPT ![k].at = "scan", ![k].entry = Nothing, ![k].next = 1]

\* reconcileUnknownSend answers: all was sent, nothing was, or it cannot tell,
\* for now or for good.  Without it the entry is given up.
Reconcile(k) ==
    LET d == pass[k].entry
    IN  /\ pass[k].at = "reconcile"
        /\ \/ /\ d \in Reconciles /\ \A p \in Payloads : sent[d][p] > 0
              /\ Release(k) /\ AckOrFail(d)
           \/ /\ d \in Reconciles /\ \A p \in Payloads : sent[d][p] = 0
              /\ pass' = [pass EXCEPT ![k].at = "replay"]
              /\ UNCHANGED <<row, claims, faults>>
           \/ d \in Reconciles /\ Release(k) /\ FailDelivery(d)
           \/ Release(k) /\ (MoveToFailed(d) \/ Fault)
        /\ UNCHANGED <<live, sent, history, crashes>>

\* A sender comes to its claim within the microtasks that follow its write of
\* the row, so before a pass that was faster gets to the platform.
ClaimTried(d) == live[d].at # "enqueued"

\* The entry is sent with skipQueue: without a mark, and a payload that fails
\* under best effort is passed over unseen.  Any other error fails the entry,
\* or gives it up when it is a permanent one, with which the platform refuses.
Replay(k) ==
    LET d == pass[k].entry
        land == Land(d, pass[k].next) /\ replayed' = replayed \cup ({d} \cap BestEffort)
        miss == replayed' = replayed \cup ({d} \cap BestEffort) /\ UNCHANGED sent
        nextPayload == pass' = [pass EXCEPT ![k].next = @ + 1] /\ UNCHANGED <<row, claims, faults>>
    IN  /\ pass[k].at = "replay" /\ pass[k].next \in Payloads /\ ClaimTried(d)
        /\ \/ land /\ nextPayload
           \/ /\ land \/ miss
              /\ IF d \in BestEffort THEN nextPayload ELSE Release(k) /\ FailDelivery(d)
           \/ miss /\ d \notin BestEffort /\ Release(k) /\ (MoveToFailed(d) \/ Fault)
        /\ UNCHANGED <<live, aborted, timedOut, firstSent, crashes>>

AckReplay(k) ==
    /\ pass[k].at = "replay" /\ pass[k].next \notin Payloads
    /\ Release(k) /\ AckOrFail(pass[k].entry)
    /\ UNCHANGED <<live, sent, history, crashes>>

-----------------------------------------------------------------------------
BackoffElapses(d) ==
    /\ d \in waiting /\ waiting' = waiting \ {d}
    /\ UNCHANGED <<queue, retries, mark, claims, live, pass, sent, history, crashes, faults>>

\* The process dies and starts again; who has not called yet may still do so.
Crash ==
    /\ crashes < MaxCrashes /\ crashes' = crashes + 1
    /\ claims' = {}
    /\ live' = [d \in Deliveries |-> IF live[d].at \in {"new", "refused"} THEN live[d]
                                     ELSE Fresh("over")]
    /\ pass' = [k \in Passes |-> BeforeStart(k)]
    /\ UNCHANGED <<row, sent, history, faults>>

LiveStep(d) ==
    \/ Claim(d) \/ Abort(d) \/ BeginCall(d) \/ Call(d)
    \/ TimeOut(d) \/ Throw(d) \/ Return(d) \/ Ack(d)

PassStep(k) ==
    \/ StartPass(k) \/ EndPass(k) \/ Reconcile(k) \/ Replay(k) \/ AckReplay(k)
    \/ \E d \in Deliveries : Skip(k, d) \/ Retire(k, d) \/ Take(k, d)

Next ==
    \/ \E d \in Deliveries : Submit(d) \/ LiveStep(d) \/ BackoffElapses(d)
    \/ \E k \in Passes : PassStep(k)
    \/ Crash

\* Calls of the platform end, time passes, and the passes start again and
\* again, as the timer of a connected channel makes them do.
Fairness ==
    /\ \A d \in Deliveries : WF_vars(LiveStep(d)) /\ WF_vars(BackoffElapses(d))
    /\ \A k \in Passes : WF_vars(PassStep(k))

Spec == Init /\ [][Next]_vars /\ Fairness

-----------------------------------------------------------------------------
(* Properties.                                                             *)

Sending(d) == live[d].at \in {"sending", "calling", "threw", "timedOut", "acking"}
Working(k, d) == pass[k].at \in {"reconcile", "replay"} /\ pass[k].entry = d

\* withActiveDeliveryClaim and the claims of the passes: a delivery never has
\* two senders at a time, its first sender or a pass, whatever the snapshot
\* that a pass works from.
OneSender ==
    \A d \in Deliveries : \A k \in Passes : Working(k, d) =>
        ~Sending(d) /\ \A l \in Passes : Working(l, d) => l = k

\* No claim outlives who made it, however a sender or a pass ends: a claimed
\* row is at its first sender or at a pass.  A claim left behind would make
\* every later pass skip its row, until the next restart.
ClaimsAreHeld ==
    \A d \in claims : (Queued(d) /\ Sending(d)) \/ \E k \in Passes : Working(k, d)

\* "Remove after success": the row of a delivery that nobody aborted is only
\* acked when the platform has had every payload, unless it timed out or a
\* pass replayed it under best effort.
AckedWasSent ==
    \A d \in Deliveries \ (aborted \cup timedOut) :
        (queue[d] = "acked" /\ (d \in BestEffort => d \notin replayed))
            => \A p \in Payloads : sent[d][p] > 0

\* The mark is written ahead of the send: of a required delivery that its first
\* sender got anything of through, nothing is ever sent twice, whichever write
\* fails and whenever the process dies.
FirstSendIsNotRepeated ==
    \A d \in firstSent : \A p \in Payloads : sent[d][p] <= 1

\* A queued delivery comes to an end while a pass of its channel runs.
EveryRowSettles ==
    \A d \in UNION {Matches[k] : k \in Passes \ {Startup}} :
        queue[d] = "pending" ~> queue[d] \in {"acked", "failed"}

Fate(d) ==
    CASE queue[d] = "pending" -> "owed"
      [] queue[d] = "failed" -> "parked"
      [] queue[d] = "acked" -> IF d \in aborted \cup timedOut THEN "withdrawn" ELSE "settled"
      [] OTHER -> IF live[d].at \in {"new", "refused"} THEN "none" ELSE "direct"

I == INSTANCE DeliveryIntent WITH
    fate <- [d \in Deliveries |-> Fate(d)],
    reached <- [d \in Deliveries |-> {p \in Payloads : sent[d][p] > 0}]

\* Through crashes, failing writes and stale snapshots the queue keeps the
\* promise of DeliveryIntent: nothing is sent for a delivery that is settled,
\* withdrawn or parked, and none comes back.
IsDeliveryIntent == I!Spec

\* The comment "A crash after platform send start cannot be blindly replayed"
\* of delivery-queue-recovery.ts: no payload is sent twice.
NoBlindReplay == \A d \in Deliveries : \A p \in Payloads : sent[d][p] <= 1

\* deliver.ts, "Write-ahead delivery queue: persist before sending, remove after
\* success": a strict delivery that nobody aborted is removed when it was sent.
RemovedAfterSuccess ==
    \A d \in Deliveries \ (BestEffort \cup aborted) :
        queue[d] = "acked" => \A p \in Payloads : sent[d][p] > 0
=============================================================================
