--------------------------- MODULE ApprovalManager ----------------------------
(***************************************************************************)
(* The approval manager of the gateway (exec-approval-manager.ts) with the *)
(* handlers of the exec.approval and plugin.approval methods, and the gate *)
(* of node.invoke that lets an approved command through: a request waits   *)
(* for an operator's decision or its time-out, and the record of the       *)
(* outcome stays for a grace period so that the command can use it.        *)
(*                                                                         *)
(* A handler is one step between its awaits: the delivery of the request,  *)
(* and the promise of the decision.  Which client may see a record, and    *)
(* whether a command is the approved one, only refuse, without a trace,    *)
(* and are left out.                                                       *)
(***************************************************************************)
EXTENDS FiniteSets

CONSTANTS
    Requests,       \* calls of exec.approval.request; each makes a record
    Ids,            \* approval ids
    IdOf,           \* the id of each; a caller may give an id again
    AllowedBy,      \* the decisions each allows
    Waiters,        \* calls of waitDecision
    Invocations,    \* calls of node.invoke that ask for an approval
    NoRequest

Decisions == {"allow-once", "allow-always", "deny"}

ASSUME ApprovalAssumption ==
    /\ IdOf \in [Requests -> Ids]
    /\ AllowedBy \in [Requests -> SUBSET Decisions]
    /\ NoRequest \notin Requests

VARIABLES
    pending,    \* the manager's map: per id the record it holds
    decision,   \* record.decision
    consumed,   \* record.consumedDecision
    resolvedBy, \* record.resolvedBy, "unset" until it is resolved
    promise,    \* what the promise of the entry holds
    late,       \* records whose expiresAtMs is past
    requester,  \* per request: where its handler is, or what it answered
    waiter,     \* per waiter: the record whose promise it waits for
    heard,      \* per waiter: what it answered
    told,       \* history: the decisions taken, for which an operator gets ok
    forwarded   \* per invocation: the approval it was forwarded with

record == <<decision, consumed, resolvedBy, promise>>
callers == <<requester, waiter, heard>>
vars == <<pending, record, late, callers, told, forwarded>>

-----------------------------------------------------------------------------
Outcomes == Decisions \cup {"null"}
Recordable == Decisions \cup {"unset"}
Forwardings == [by : Requests, as : {"allow-once", "allow-always", "fallback"}]
NotForwarded == [by |-> NoRequest, as |-> "none"]

TypeOK ==
    /\ pending \in [Ids -> Requests \cup {NoRequest}]
    /\ decision \in [Requests -> Recordable]
    /\ consumed \in [Requests -> {"unset", "allow-once"}]
    /\ resolvedBy \in [Requests -> {"unset", "null", "operator", "no-approval-route"}]
    /\ promise \in [Requests -> Outcomes \cup {"open"}]
    /\ late \subseteq Requests
    /\ requester \in [Requests -> Outcomes \cup
                        {"idle", "refused", "delivering", "waiting", "no route"}]
    /\ waiter \in [Waiters -> Requests \cup {NoRequest}]
    /\ heard \in [Waiters -> Outcomes \cup {"none"}]
    /\ told \subseteq Requests \X Decisions
    /\ forwarded \in [Invocations -> Forwardings \cup {NotForwarded}]

Init ==
    /\ pending = [id \in Ids |-> NoRequest]
    /\ decision = [r \in Requests |-> "unset"]
    /\ consumed = [r \in Requests |-> "unset"]
    /\ resolvedBy = [r \in Requests |-> "unset"]
    /\ promise = [r \in Requests |-> "open"]
    /\ late = {}
    /\ requester = [r \in Requests |-> "idle"]
    /\ waiter = [w \in Waiters |-> NoRequest]
    /\ heard = [w \in Waiters |-> "none"]
    /\ told = {}
    /\ forwarded = [v \in Invocations |-> NotForwarded]

Registered(r) == requester[r] \notin {"idle", "refused"}
Resolved(r) == resolvedBy[r] # "unset"

\* The decision a record tells of, used up or not.
RecordedDecision(r) == IF decision[r] # "unset" THEN decision[r] ELSE consumed[r]

-----------------------------------------------------------------------------
(* The manager.                                                            *)

\* A plausible bug: a record that is resolved is resolved once more; its
\* promise keeps the first outcome.
Settle_Again(id, d, by) ==
    LET r == pending[id]
    IN  IF r # NoRequest
        THEN /\ decision' = [decision EXCEPT ![r] = IF d = "null" THEN "unset" ELSE d]
             /\ resolvedBy' = [resolvedBy EXCEPT ![r] = by]
             /\ promise' = [promise EXCEPT ![r] = IF @ = "open" THEN d ELSE @]
             /\ UNCHANGED consumed
        ELSE UNCHANGED record

\* resolve (with a decision) and expire (with none) of the record that the id
\* now stands for; of one that is resolved they do nothing.
Settle(id, d, by) ==
    LET r == pending[id]
    IN  IF r # NoRequest /\ ~Resolved(r)
        THEN /\ decision' = [decision EXCEPT ![r] = IF d = "null" THEN "unset" ELSE d]
             /\ resolvedBy' = [resolvedBy EXCEPT ![r] = by]
             /\ promise' = [promise EXCEPT ![r] = d]
             /\ UNCHANGED consumed
        ELSE UNCHANGED record

\* A plausible bug: the decision is noted as consumed and left in place.
ConsumeAllowOnce_Keeps(r) ==
    /\ decision[r] = "allow-once"
    /\ consumed' = [consumed EXCEPT ![r] = decision[r]]
    /\ UNCHANGED <<decision, resolvedBy, promise>>

ConsumeAllowOnce(r) ==
    /\ decision[r] = "allow-once"
    /\ consumed' = [consumed EXCEPT ![r] = decision[r]]
    /\ decision' = [decision EXCEPT ![r] = "unset"]
    /\ UNCHANGED <<resolvedBy, promise>>

\* The timer of a record, which is cleared when it is resolved, and that of
\* the grace period, which starts then.
ExpiryTimer(r) ==
    /\ Registered(r) /\ ~Resolved(r)
    /\ Settle(IdOf[r], "null", "null")
    /\ UNCHANGED <<pending, late, callers, told, forwarded>>

GraceTimer(r) ==
    /\ Resolved(r) /\ pending[IdOf[r]] = r
    /\ pending' = [pending EXCEPT ![IdOf[r]] = NoRequest]
    /\ UNCHANGED <<record, late, callers, told, forwarded>>

ClockPasses(r) ==
    /\ Registered(r) /\ r \notin late
    /\ late' = late \cup {r}
    /\ UNCHANGED <<pending, record, callers, told, forwarded>>

-----------------------------------------------------------------------------
(* Those who ask.                                                          *)

\* A plausible bug: an id that is still taken is given to the new record.
Request_Replaces(r) ==
    /\ requester[r] = "idle"
    /\ pending' = [pending EXCEPT ![IdOf[r]] = r]
    /\ requester' = [requester EXCEPT ![r] = "delivering"]
    /\ UNCHANGED <<record, late, waiter, heard, told, forwarded>>

\* The request is refused while its id is taken, also by a resolved record;
\* else it is registered and delivered to whoever may decide.
Request(r) ==
    /\ requester[r] = "idle"
    /\ IF pending[IdOf[r]] # NoRequest
       THEN /\ requester' = [requester EXCEPT ![r] = "refused"]
            /\ UNCHANGED pending
       ELSE /\ pending' = [pending EXCEPT ![IdOf[r]] = r]
            /\ requester' = [requester EXCEPT ![r] = "delivering"]
    /\ UNCHANGED <<record, late, waiter, heard, told, forwarded>>

\* The delivery found somebody, or the request is not to end without: the
\* handler waits for the promise.
Delivered(r) ==
    /\ requester[r] = "delivering"
    /\ requester' = [requester EXCEPT ![r] = "waiting"]
    /\ UNCHANGED <<pending, record, late, waiter, heard, told, forwarded>>

\* A plausible bug: a request without a route is dropped, not expired.
NoRoute_Drops(r) ==
    /\ requester[r] = "delivering"
    /\ pending' = [pending EXCEPT ![IdOf[r]] = NoRequest]
    /\ requester' = [requester EXCEPT ![r] = "no route"]
    /\ UNCHANGED <<record, late, waiter, heard, told, forwarded>>

\* It found nobody: the id is expired, whatever has become of it meanwhile,
\* and the answer is null.
NoRoute(r) ==
    /\ requester[r] = "delivering"
    /\ Settle(IdOf[r], "null", "no-approval-route")
    /\ requester' = [requester EXCEPT ![r] = "no route"]
    /\ UNCHANGED <<pending, late, waiter, heard, told, forwarded>>

Answer(r) ==
    /\ requester[r] = "waiting" /\ promise[r] # "open"
    /\ requester' = [requester EXCEPT ![r] = promise[r]]
    /\ UNCHANGED <<pending, record, late, waiter, heard, told, forwarded>>

WaitDecision(w, id) ==
    /\ waiter[w] = NoRequest /\ pending[id] # NoRequest
    /\ waiter' = [waiter EXCEPT ![w] = pending[id]]
    /\ UNCHANGED <<pending, record, late, requester, heard, told, forwarded>>

AnswerWaiter(w) ==
    /\ waiter[w] # NoRequest /\ heard[w] = "none" /\ promise[waiter[w]] # "open"
    /\ heard' = [heard EXCEPT ![w] = promise[waiter[w]]]
    /\ UNCHANGED <<pending, record, late, requester, waiter, told, forwarded>>

-----------------------------------------------------------------------------
(* Those who decide and those who act on it.                               *)

\* A plausible bug: any retry of a resolved approval is answered with ok.
HandleApprovalResolve_AnyRetry(id, d) ==
    LET r == pending[id]
    IN  /\ r # NoRequest
        /\ \/ ~Resolved(r) /\ d \in AllowedBy[r] /\ Settle(id, d, "operator")
           \/ Resolved(r) /\ UNCHANGED record
        /\ told' = told \cup {<<r, d>>}
        /\ UNCHANGED <<pending, late, callers, forwarded>>

\* The steps of exec.approval.resolve that an operator is told ok of: a first
\* decision, and the repetition of the one recorded.
HandleApprovalResolve(id, d) ==
    LET r == pending[id]
    IN  /\ r # NoRequest
        /\ \/ ~Resolved(r) /\ d \in AllowedBy[r] /\ Settle(id, d, "operator")
           \/ Resolved(r) /\ RecordedDecision(r) = d /\ UNCHANGED record
        /\ told' = told \cup {<<r, d>>}
        /\ UNCHANGED <<pending, late, callers, forwarded>>

\* A plausible bug: a decision that is not there any more counts as none.
TimedOut_Undecided(r) == Resolved(r) /\ decision[r] = "unset"

TimedOut(r) == Resolved(r) /\ decision[r] = "unset" /\ resolvedBy[r] = "null"

\* An invocation that is let through: by the decision recorded, or as an
\* allow-once of the caller's own when nobody decided in time.
SanitizeSystemRunParams(v, id) ==
    LET r == pending[id]
        Forward(as) == forwarded' = [forwarded EXCEPT ![v] = [by |-> r, as |-> as]]
    IN  /\ forwarded[v] = NotForwarded
        /\ r # NoRequest /\ r \notin late
        /\ \/ ConsumeAllowOnce(r) /\ Forward("allow-once")
           \/ decision[r] = "allow-always" /\ Forward("allow-always") /\ UNCHANGED record
           \/ TimedOut(r) /\ Forward("fallback") /\ UNCHANGED record
        /\ UNCHANGED <<pending, late, callers, told>>

-----------------------------------------------------------------------------
RequestStep(r) ==
    \/ Request(r)
    \/ Delivered(r)
    \/ NoRoute(r)
    \/ Answer(r)
    \/ ExpiryTimer(r)
    \/ GraceTimer(r)
    \/ ClockPasses(r)

IdStep(id) ==
    \/ \E d \in Decisions : HandleApprovalResolve(id, d)
    \/ \E w \in Waiters : WaitDecision(w, id)
    \/ \E v \in Invocations : SanitizeSystemRunParams(v, id)

Next ==
    \/ \E r \in Requests : RequestStep(r)
    \/ \E id \in Ids : IdStep(id)
    \/ \E w \in Waiters : AnswerWaiter(w)

\* Timers fire, deliveries end, and a settled promise wakes who waits for it.
Fairness ==
    /\ \A r \in Requests : /\ WF_vars(ExpiryTimer(r))
                           /\ WF_vars(Delivered(r) \/ NoRoute(r))
                           /\ WF_vars(Answer(r))
    /\ \A w \in Waiters : WF_vars(AnswerWaiter(w))

Spec == Init /\ [][Next]_vars /\ Fairness

-----------------------------------------------------------------------------
(* Properties.                                                             *)

\* An approval has one outcome.  Its record, used up or not, says what its
\* promise gave; an operator is told ok only of that decision; and whoever
\* waited for it, to ask or as a waiter, heard that and nothing else.  One
\* caller need not hear it: the requester whose delivery found nobody is
\* answered null even when an operator decided during the delivery.  Its
\* approval is not left open, and no other caller is told null for that.
OneOutcome ==
    /\ \A r \in Requests : Resolved(r) =>
          promise[r] = IF RecordedDecision(r) = "unset" THEN "null" ELSE RecordedDecision(r)
    /\ \A t \in told : promise[t[1]] = t[2]
    /\ \A r \in Requests : /\ requester[r] \in Outcomes => promise[r] = requester[r]
                           /\ requester[r] = "no route" => Resolved(r)
    /\ \A w \in Waiters : heard[w] # "none" => promise[waiter[w]] = heard[w]

\* One allow-once lets one command through, however many come in the grace
\* period.
AllowOnceForwardsOnce ==
    \A v, u \in Invocations :
        (v # u /\ forwarded[v].as = "allow-once" /\ forwarded[u].as = "allow-once")
            => forwarded[v].by # forwarded[u].by

\* The caller's own fallback is for approvals that nobody decided: no operator
\* was ever told that a decision of theirs was taken, and the promise gave
\* none.
FallbackNeedsSilence ==
    \A v \in Invocations : forwarded[v].as = "fallback" =>
        /\ promise[forwarded[v].by] = "null"
        /\ \A d \in Decisions : <<forwarded[v].by, d>> \notin told

\* An approval that somebody waits for can be decided: its id leads to it
\* until it is resolved.
OpenApprovalIsReachable ==
    \A r \in Requests : (Registered(r) /\ ~Resolved(r)) => pending[IdOf[r]] = r

\* Every caller is answered: the one that asked and those that wait.
EveryCallerIsAnswered ==
    /\ \A r \in Requests :
          requester[r] \in {"delivering", "waiting"}
              ~> requester[r] \in Outcomes \cup {"no route"}
    /\ \A w \in Waiters : waiter[w] # NoRequest ~> heard[w] # "none"

A == INSTANCE Approval WITH
    outcome <- [r \in Requests |-> IF ~Resolved(r) THEN "open"
                                   ELSE IF RecordedDecision(r) = "unset" THEN "null"
                                   ELSE RecordedDecision(r)],
    spent <- {r \in Requests : consumed[r] # "unset"}

\* The record keeps the promise of Approval, though its fields are written
\* over: one outcome, which never changes, and an allow-once spent once.
IsApproval == A!Spec
=============================================================================
