------------------------ MODULE ApprovalManagerProofs -------------------------
(***************************************************************************)
(* Proofs about ApprovalManager, for any requests, ids, waiters and        *)
(* invocations: what a record and its promise say agrees, through late     *)
(* decisions, time-outs, used up allow-onces and re-used ids; and the      *)
(* manager implements Approval.                                            *)
(***************************************************************************)
EXTENDS ApprovalManager, TLAPS

USE ApprovalAssumption

\* What resolvedBy tells of the other fields of a record.
Records ==
    \A r \in Requests :
        /\ resolvedBy[r] = "unset" =>
              decision[r] = "unset" /\ consumed[r] = "unset" /\ promise[r] = "open"
        /\ resolvedBy[r] \in {"null", "no-approval-route"} =>
              decision[r] = "unset" /\ consumed[r] = "unset" /\ promise[r] = "null"
        /\ resolvedBy[r] = "operator" =>
              promise[r] \in Decisions /\ RecordedDecision(r) = promise[r]
        /\ consumed[r] # "unset" => decision[r] = "unset"

ToldIsTaken ==
    \A t \in told : resolvedBy[t[1]] = "operator" /\ promise[t[1]] = t[2]

ForwardedIsBacked ==
    \A v \in Invocations :
        /\ forwarded[v].as = "allow-once" => consumed[forwarded[v].by] = "allow-once"
        /\ forwarded[v].as = "fallback" => resolvedBy[forwarded[v].by] = "null"

IInv ==
    /\ TypeOK
    /\ Records
    /\ OpenApprovalIsReachable
    /\ ToldIsTaken
    /\ ForwardedIsBacked
    /\ AllowOnceForwardsOnce

-----------------------------------------------------------------------------
(* The steps of the manager on a record.                                   *)

RecordTypes ==
    /\ decision \in [Requests -> Recordable]
    /\ consumed \in [Requests -> {"unset", "allow-once"}]
    /\ resolvedBy \in [Requests -> {"unset", "null", "operator", "no-approval-route"}]
    /\ promise \in [Requests -> Outcomes \cup {"open"}]

\* What resolve and expire may be called with.
SettledWith(d, by) ==
    \/ d \in Decisions /\ by = "operator"
    \/ d = "null" /\ by \in {"null", "no-approval-route"}

\* What an id stands for.
LEMMA IdLooksUp ==
    ASSUME TypeOK, NEW id \in Ids
    PROVE  pending[id] \in Requests \cup {NoRequest}
<1>1. pending \in [Ids -> Requests \cup {NoRequest}]
  BY DEF TypeOK
<1> QED
  BY <1>1

\* resolve and expire write the record that the id stands for when it is not
\* resolved yet, and then resolve it; no other record changes.
LEMMA SettleFrame ==
    ASSUME TypeOK, NEW id \in Ids, NEW d, NEW by, SettledWith(d, by), Settle(id, d, by)
    PROVE  /\ RecordTypes'
           /\ \A r \in Requests : r # pending[id] \/ Resolved(r) =>
                 /\ decision'[r] = decision[r] /\ consumed'[r] = consumed[r]
                 /\ resolvedBy'[r] = resolvedBy[r] /\ promise'[r] = promise[r]
           /\ \A r \in Requests : r = pending[id] /\ ~Resolved(r) =>
                 /\ decision'[r] = (IF d = "null" THEN "unset" ELSE d)
                 /\ consumed'[r] = consumed[r]
                 /\ resolvedBy'[r] = by /\ promise'[r] = d
<1>1. (IF d = "null" THEN "unset" ELSE d) \in Recordable /\ d \in Outcomes
      /\ by \in {"unset", "null", "operator", "no-approval-route"}
  BY DEF SettledWith, Recordable, Outcomes, Decisions
<1>2. pending[id] \in Requests \cup {NoRequest}
  BY IdLooksUp
<1>3. CASE pending[id] # NoRequest /\ ~Resolved(pending[id])
  <2>1. pending[id] \in Requests
    BY <1>2, <1>3
  <2>2. /\ decision' = [decision EXCEPT ![pending[id]] = IF d = "null" THEN "unset" ELSE d]
        /\ resolvedBy' = [resolvedBy EXCEPT ![pending[id]] = by]
        /\ promise' = [promise EXCEPT ![pending[id]] = d]
        /\ consumed' = consumed
    BY <1>3 DEF Settle
  <2> QED
    BY <1>1, <1>3, <2>1, <2>2 DEF TypeOK, RecordTypes
<1>4. CASE ~(pending[id] # NoRequest /\ ~Resolved(pending[id]))
  <2>1. UNCHANGED record
    BY <1>4 DEF Settle
  <2>2. RecordTypes
    BY DEF TypeOK, RecordTypes
  <2>3. RecordTypes'
    BY <2>1, <2>2 DEF record, RecordTypes
  <2> QED
    BY <1>2, <1>4, <2>1, <2>3 DEF record
<1> QED
  BY <1>3, <1>4

LEMMA SettleRecords ==
    ASSUME TypeOK, Records, NEW id \in Ids, NEW d, NEW by,
           SettledWith(d, by), Settle(id, d, by)
    PROVE  Records'
<1> SUFFICES ASSUME NEW r \in Requests
    PROVE /\ resolvedBy'[r] = "unset" =>
                decision'[r] = "unset" /\ consumed'[r] = "unset" /\ promise'[r] = "open"
          /\ resolvedBy'[r] \in {"null", "no-approval-route"} =>
                decision'[r] = "unset" /\ consumed'[r] = "unset" /\ promise'[r] = "null"
          /\ resolvedBy'[r] = "operator" =>
                promise'[r] \in Decisions /\ RecordedDecision(r)' = promise'[r]
          /\ consumed'[r] # "unset" => decision'[r] = "unset"
  BY DEF Records
<1>1. CASE r # pending[id] \/ Resolved(r)
  BY <1>1, SettleFrame DEF Records, RecordedDecision
<1>2. CASE r = pending[id] /\ ~Resolved(r)
  <2>1. /\ decision'[r] = (IF d = "null" THEN "unset" ELSE d)
        /\ consumed'[r] = consumed[r] /\ resolvedBy'[r] = by /\ promise'[r] = d
    BY <1>2, SettleFrame
  <2>2. consumed[r] = "unset"
    BY <1>2 DEF Records, Resolved
  <2>3. CASE d \in Decisions /\ by = "operator"
    BY <2>1, <2>2, <2>3 DEF RecordedDecision, Decisions
  <2>4. CASE d = "null" /\ by \in {"null", "no-approval-route"}
    BY <2>1, <2>2, <2>4
  <2> QED
    BY <2>3, <2>4 DEF SettledWith
<1> QED
  BY <1>1, <1>2

\* An allow-once that is used up was there, decided by an operator and unused,
\* and every other record stays.
LEMMA ConsumeFrame ==
    ASSUME TypeOK, Records, NEW q \in Requests, ConsumeAllowOnce(q)
    PROVE  /\ RecordTypes' /\ Records'
           /\ resolvedBy' = resolvedBy /\ promise' = promise
           /\ resolvedBy[q] = "operator" /\ promise[q] = "allow-once"
           /\ consumed[q] = "unset" /\ consumed'[q] = "allow-once"
           /\ \A r \in Requests : r # q => consumed'[r] = consumed[r]
<1>1. /\ decision[q] = "allow-once"
      /\ consumed' = [consumed EXCEPT ![q] = "allow-once"]
      /\ decision' = [decision EXCEPT ![q] = "unset"]
      /\ resolvedBy' = resolvedBy /\ promise' = promise
  BY DEF ConsumeAllowOnce
<1>2. RecordTypes'
  BY <1>1 DEF TypeOK, RecordTypes, Recordable
<1>3. consumed[q] = "unset" /\ resolvedBy[q] = "operator" /\ promise[q] = "allow-once"
  BY <1>1 DEF Records, TypeOK, RecordedDecision
<1>4. Records'
  <2> SUFFICES ASSUME NEW r \in Requests
      PROVE /\ resolvedBy'[r] = "unset" =>
                  decision'[r] = "unset" /\ consumed'[r] = "unset" /\ promise'[r] = "open"
            /\ resolvedBy'[r] \in {"null", "no-approval-route"} =>
                  decision'[r] = "unset" /\ consumed'[r] = "unset" /\ promise'[r] = "null"
            /\ resolvedBy'[r] = "operator" =>
                  promise'[r] \in Decisions /\ RecordedDecision(r)' = promise'[r]
            /\ consumed'[r] # "unset" => decision'[r] = "unset"
    BY DEF Records
  <2>1. CASE r = q
    BY <1>1, <1>3, <2>1 DEF TypeOK, RecordedDecision, Decisions
  <2>2. CASE r # q
    BY <1>1, <2>2 DEF TypeOK, Records, RecordedDecision
  <2> QED
    BY <2>1, <2>2
<1> QED
  BY <1>1, <1>2, <1>3, <1>4 DEF TypeOK

-----------------------------------------------------------------------------
(* Types.                                                                  *)

LEMMA InitType == Init => TypeOK
BY DEF Init, TypeOK, Recordable, Outcomes

LEMMA RequestStepType ==
    ASSUME TypeOK, NEW r \in Requests, RequestStep(r)
    PROVE  TypeOK'
<1>1. IdOf[r] \in Ids
  OBVIOUS
<1>2. CASE Request(r)
  <2>1. pending' \in [Ids -> Requests \cup {NoRequest}]
    <3>1. pending \in [Ids -> Requests \cup {NoRequest}]
      BY DEF TypeOK
    <3> QED
      BY <1>1, <1>2, <3>1 DEF Request
  <2>2. requester' \in [Requests -> Outcomes \cup
                        {"idle", "refused", "delivering", "waiting", "no route"}]
    <3>1. PICK h \in {"refused", "delivering"} : requester' = [requester EXCEPT ![r] = h]
      BY <1>2 DEF Request
    <3>2. requester \in [Requests -> Outcomes \cup
                        {"idle", "refused", "delivering", "waiting", "no route"}]
      BY DEF TypeOK
    <3> QED
      BY <3>1, <3>2
  <2>3. UNCHANGED <<decision, consumed, resolvedBy, promise>>
    BY <1>2 DEF Request, record
  <2>4. UNCHANGED <<late, waiter, heard, told, forwarded>>
    BY <1>2 DEF Request
  <2> QED
    BY <2>1, <2>2, <2>3, <2>4 DEF TypeOK
<1>3. CASE Delivered(r)
  BY <1>3 DEF Delivered, record, TypeOK
<1>4. CASE NoRoute(r)
  <2>1. RecordTypes'
    BY <1>1, <1>4, SettleFrame DEF NoRoute, SettledWith
  <2>2. UNCHANGED <<pending, late, waiter, heard, told, forwarded>>
    BY <1>4 DEF NoRoute
  <2>3. requester' \in [Requests -> Outcomes \cup
                        {"idle", "refused", "delivering", "waiting", "no route"}]
    BY <1>4 DEF NoRoute, TypeOK
  <2> QED
    BY <2>1, <2>2, <2>3 DEF TypeOK, RecordTypes
<1>5. CASE Answer(r)
  BY <1>5 DEF Answer, record, TypeOK
<1>6. CASE ExpiryTimer(r)
  <2>1. RecordTypes'
    BY <1>1, <1>6, SettleFrame DEF ExpiryTimer, SettledWith
  <2> QED
    BY <1>6, <2>1 DEF ExpiryTimer, callers, TypeOK, RecordTypes
<1>7. CASE GraceTimer(r)
  BY <1>1, <1>7 DEF GraceTimer, record, callers, TypeOK
<1>8. CASE ClockPasses(r)
  BY <1>8 DEF ClockPasses, record, callers, TypeOK
<1> QED
  BY <1>2, <1>3, <1>4, <1>5, <1>6, <1>7, <1>8 DEF RequestStep

\* What the operators and the invocations do to the records' types.
LEMMA IdStepType ==
    ASSUME TypeOK, NEW id \in Ids, IdStep(id)
    PROVE  TypeOK'
<1>1. pending[id] # NoRequest => pending[id] \in Requests
  BY IdLooksUp
<1>2. ASSUME NEW d \in Decisions, HandleApprovalResolve(id, d) PROVE TypeOK'
  <2>1. RecordTypes'
    <3>1. CASE Settle(id, d, "operator")
      BY <3>1, SettleFrame DEF SettledWith
    <3>2. CASE UNCHANGED record
      BY <3>2 DEF record, TypeOK, RecordTypes
    <3> QED
      BY <1>2, <3>1, <3>2 DEF HandleApprovalResolve
  <2>2. told' \subseteq Requests \X Decisions
    <3>1. told' = told \cup {<<pending[id], d>>} /\ pending[id] # NoRequest
      BY <1>2 DEF HandleApprovalResolve
    <3>2. told \subseteq Requests \X Decisions
      BY DEF TypeOK
    <3> QED
      BY <1>1, <3>1, <3>2
  <2> QED
    BY <1>2, <2>1, <2>2 DEF HandleApprovalResolve, callers, TypeOK, RecordTypes
<1>3. ASSUME NEW w \in Waiters, WaitDecision(w, id) PROVE TypeOK'
  BY <1>1, <1>3 DEF WaitDecision, record, TypeOK
<1>4. ASSUME NEW v \in Invocations, SanitizeSystemRunParams(v, id) PROVE TypeOK'
  <2>1. pending[id] \in Requests
    BY <1>1, <1>4 DEF SanitizeSystemRunParams
  <2>2. RecordTypes'
    <3>1. CASE ConsumeAllowOnce(pending[id])
      BY <2>1, <3>1 DEF ConsumeAllowOnce, TypeOK, RecordTypes, Recordable
    <3>2. CASE UNCHANGED record
      BY <3>2 DEF record, TypeOK, RecordTypes
    <3> QED
      BY <1>4, <3>1, <3>2 DEF SanitizeSystemRunParams
  <2>3. PICK as \in {"allow-once", "allow-always", "fallback"} :
            forwarded' = [forwarded EXCEPT ![v] = [by |-> pending[id], as |-> as]]
    BY <1>4 DEF SanitizeSystemRunParams
  <2>4. [by |-> pending[id], as |-> as] \in Forwardings
    BY <2>1 DEF Forwardings
  <2>5. forwarded' \in [Invocations -> Forwardings \cup {NotForwarded}]
    BY <2>3, <2>4 DEF TypeOK
  <2> QED
    BY <1>4, <2>2, <2>5 DEF SanitizeSystemRunParams, callers, TypeOK, RecordTypes
<1> QED
  BY <1>2, <1>3, <1>4 DEF IdStep

LEMMA NextType == TypeOK /\ [Next]_vars => TypeOK'
<1> SUFFICES ASSUME TypeOK, [Next]_vars PROVE TypeOK'
  OBVIOUS
<1>1. ASSUME NEW w \in Waiters, AnswerWaiter(w) PROVE TypeOK'
  <2>1. promise[waiter[w]] \in Outcomes
    BY <1>1 DEF AnswerWaiter, TypeOK
  <2> QED
    BY <1>1, <2>1 DEF AnswerWaiter, record, TypeOK
<1>2. CASE UNCHANGED vars
  BY <1>2 DEF vars, record, callers, TypeOK
<1> QED
  BY <1>1, <1>2, RequestStepType, IdStepType DEF Next

\* Every state of the approval manager is well typed.
THEOREM ApprovalTypeCorrect == Spec => []TypeOK
BY InitType, NextType, PTL DEF Spec

-----------------------------------------------------------------------------
(* The inductive invariant.                                                *)

LEMMA InitInv == Init => IInv
<1> SUFFICES ASSUME Init PROVE IInv
  OBVIOUS
<1>1. TypeOK
  BY InitType
<1> QED
  BY <1>1 DEF Init, IInv, Records, OpenApprovalIsReachable, Registered, ToldIsTaken,
              ForwardedIsBacked, AllowOnceForwardsOnce, NotForwarded

\* A step that writes no record, forwards nothing and tells no operator keeps
\* what the invariant says of them.
LEMMA RecordsStay ==
    ASSUME IInv, UNCHANGED <<record, told, forwarded>>
    PROVE  Records' /\ ToldIsTaken' /\ ForwardedIsBacked' /\ AllowOnceForwardsOnce'
BY DEF IInv, record, Records, RecordedDecision, ToldIsTaken, ForwardedIsBacked,
       AllowOnceForwardsOnce

\* A step of a handler whose request was registered, and is still, keeps
\* every open approval where it was.
LEMMA LookupStays ==
    ASSUME OpenApprovalIsReachable, UNCHANGED <<pending, resolvedBy>>,
           \A r \in Requests : Registered(r)' => Registered(r)
    PROVE  OpenApprovalIsReachable'
BY DEF OpenApprovalIsReachable, Resolved

\* A handler that goes on, or refuses, registers nothing.
LEMMA HandlerGoesOn ==
    ASSUME TypeOK, NEW r \in Requests, NEW s, requester' = [requester EXCEPT ![r] = s],
           Registered(r) \/ s = "refused"
    PROVE  \A q \in Requests : Registered(q)' => Registered(q)
<1> SUFFICES ASSUME NEW q \in Requests, requester'[q] \notin {"idle", "refused"}
    PROVE requester[q] \notin {"idle", "refused"}
  BY DEF Registered
<1>1. DOMAIN requester = Requests
  BY DEF TypeOK
<1>2. CASE q = r
  BY <1>1, <1>2 DEF Registered
<1>3. CASE q # r
  BY <1>1, <1>3
<1> QED
  BY <1>2, <1>3

\* What settling an approval keeps.
LEMMA SettleInv ==
    ASSUME IInv, NEW id \in Ids, NEW d, NEW by, SettledWith(d, by), Settle(id, d, by),
           UNCHANGED <<pending, forwarded>>,
           \A r \in Requests : Registered(r)' => Registered(r)
    PROVE  /\ Records' /\ OpenApprovalIsReachable' /\ ForwardedIsBacked'
           /\ AllowOnceForwardsOnce'
           /\ \A t \in told : resolvedBy'[t[1]] = "operator" /\ promise'[t[1]] = t[2]
<1>1. Records'
  BY SettleRecords DEF IInv
<1>2. OpenApprovalIsReachable'
  <2> SUFFICES ASSUME NEW r \in Requests, Registered(r)', ~Resolved(r)'
      PROVE pending'[IdOf[r]] = r
    BY DEF OpenApprovalIsReachable
  <2>1. ~Resolved(r)
    BY SettleFrame DEF IInv, Resolved
  <2> QED
    BY <2>1 DEF IInv, OpenApprovalIsReachable
<1>3. ForwardedIsBacked'
  <2> SUFFICES ASSUME NEW v \in Invocations
      PROVE /\ forwarded[v].as = "allow-once" => consumed'[forwarded[v].by] = "allow-once"
            /\ forwarded[v].as = "fallback" => resolvedBy'[forwarded[v].by] = "null"
    BY DEF ForwardedIsBacked
  <2>1. CASE forwarded[v] = NotForwarded
    BY <2>1 DEF NotForwarded
  <2>2. CASE forwarded[v] # NotForwarded
    <3>1. forwarded[v].by \in Requests
      BY <2>2 DEF IInv, TypeOK, Forwardings
    <3>2. /\ forwarded[v].as = "allow-once" => consumed[forwarded[v].by] = "allow-once"
          /\ forwarded[v].as = "fallback" => resolvedBy[forwarded[v].by] = "null"
      BY DEF IInv, ForwardedIsBacked
    <3>3. consumed[forwarded[v].by] = "allow-once" => Resolved(forwarded[v].by)
      BY <3>1 DEF IInv, Records, Resolved
    <3> QED
      BY <3>1, <3>2, <3>3, SettleFrame DEF IInv, Resolved
  <2> QED
    BY <2>1, <2>2
<1>4. AllowOnceForwardsOnce'
  BY DEF IInv, AllowOnceForwardsOnce
<1>5. \A t \in told : resolvedBy'[t[1]] = "operator" /\ promise'[t[1]] = t[2]
  <2> SUFFICES ASSUME NEW t \in told
      PROVE resolvedBy'[t[1]] = "operator" /\ promise'[t[1]] = t[2]
    OBVIOUS
  <2>1. t[1] \in Requests
    BY DEF IInv, TypeOK
  <2>2. resolvedBy[t[1]] = "operator" /\ promise[t[1]] = t[2]
    BY DEF IInv, ToldIsTaken
  <2> QED
    BY <2>1, <2>2, SettleFrame DEF IInv, Resolved
<1> QED
  BY <1>1, <1>2, <1>3, <1>4, <1>5

\* The steps of the requests and their timers.
LEMMA RequestStepInv ==
    ASSUME IInv, NEW r \in Requests, RequestStep(r)
    PROVE  IInv'
<1>1. TypeOK /\ TypeOK' /\ IdOf[r] \in Ids
  BY RequestStepType DEF IInv
<1>2. CASE Request(r)
  <2>1. UNCHANGED <<record, told, forwarded>>
    BY <1>2 DEF Request
  <2>2. CASE pending[IdOf[r]] # NoRequest
    <3>1. pending' = pending /\ \A q \in Requests : Registered(q)' => Registered(q)
      BY <1>1, <1>2, <2>2, HandlerGoesOn DEF Request
    <3>2. OpenApprovalIsReachable'
      BY <2>1, <3>1, LookupStays DEF IInv, record
    <3> QED
      BY <1>1, <2>1, <3>2, RecordsStay DEF IInv
  <2>3. CASE pending[IdOf[r]] = NoRequest
    <3> SUFFICES ASSUME NEW q \in Requests, Registered(q)', ~Resolved(q)'
        PROVE pending'[IdOf[q]] = q
      BY <1>1, <2>1, RecordsStay DEF IInv, OpenApprovalIsReachable
    <3>1. /\ pending' = [pending EXCEPT ![IdOf[r]] = r]
          /\ requester' = [requester EXCEPT ![r] = "delivering"]
      BY <1>2, <2>3 DEF Request
    <3>4. DOMAIN pending = Ids /\ DOMAIN requester = Requests
      BY <1>1 DEF TypeOK
    <3>2. CASE q = r
      BY <1>1, <3>1, <3>2, <3>4
    <3>3. CASE q # r
      <4>1. Registered(q) /\ ~Resolved(q)
        BY <1>1, <2>1, <3>1, <3>3, <3>4 DEF Registered, Resolved, record
      <4>2. pending[IdOf[q]] = q
        BY <4>1 DEF IInv, OpenApprovalIsReachable
      <4>3. IdOf[q] # IdOf[r]
        BY <2>3, <4>2
      <4> QED
        BY <1>1, <3>1, <3>4, <4>2, <4>3
    <3> QED
      BY <3>2, <3>3
  <2> QED
    BY <2>2, <2>3
<1>3. CASE Delivered(r)
  <2>1. \A q \in Requests : Registered(q)' => Registered(q)
    BY <1>1, <1>3, HandlerGoesOn DEF Delivered, Registered
  <2> QED
    BY <1>1, <1>3, <2>1, RecordsStay, LookupStays DEF Delivered, IInv, record
<1>4. CASE NoRoute(r)
  <2>1. \A q \in Requests : Registered(q)' => Registered(q)
    BY <1>1, <1>4, HandlerGoesOn DEF NoRoute, Registered
  <2> QED
    BY <1>1, <1>4, <2>1, SettleInv DEF NoRoute, SettledWith, IInv, ToldIsTaken
<1>5. CASE Answer(r)
  <2>1. \A q \in Requests : Registered(q)' => Registered(q)
    BY <1>1, <1>5, HandlerGoesOn DEF Answer, Registered
  <2> QED
    BY <1>1, <1>5, <2>1, RecordsStay, LookupStays DEF Answer, IInv, record
<1>6. CASE ExpiryTimer(r)
  BY <1>1, <1>6, SettleInv
     DEF ExpiryTimer, callers, Registered, SettledWith, IInv, ToldIsTaken
<1>7. CASE GraceTimer(r)
  <2>1. UNCHANGED <<record, callers, told, forwarded>>
    BY <1>7 DEF GraceTimer
  <2> SUFFICES ASSUME NEW q \in Requests, Registered(q)', ~Resolved(q)'
      PROVE pending'[IdOf[q]] = q
    BY <1>1, <2>1, RecordsStay DEF IInv, OpenApprovalIsReachable
  <2>2. Registered(q) /\ ~Resolved(q)
    BY <2>1 DEF Registered, Resolved, record, callers
  <2>3. pending[IdOf[q]] = q
    BY <2>2 DEF IInv, OpenApprovalIsReachable
  <2>4. IdOf[q] # IdOf[r]
    BY <1>7, <2>2, <2>3 DEF GraceTimer, Resolved
  <2> QED
    BY <1>1, <1>7, <2>3, <2>4 DEF GraceTimer, TypeOK
<1>8. CASE ClockPasses(r)
  BY <1>1, <1>8, RecordsStay, LookupStays DEF ClockPasses, IInv, record, callers, Registered
<1> QED
  BY <1>2, <1>3, <1>4, <1>5, <1>6, <1>7, <1>8 DEF RequestStep

\* An operator is told ok of the decision that the record holds.
LEMMA ResolveInv ==
    ASSUME IInv, NEW id \in Ids, NEW d \in Decisions, HandleApprovalResolve(id, d)
    PROVE  IInv'
<1> DEFINE r == pending[id]
<1>1. /\ told' = told \cup {<<r, d>>} /\ r # NoRequest
      /\ UNCHANGED <<pending, late, callers, forwarded>>
      /\ \/ ~Resolved(r) /\ Settle(id, d, "operator")
         \/ Resolved(r) /\ RecordedDecision(r) = d /\ UNCHANGED record
  BY DEF HandleApprovalResolve
<1>2. TypeOK' /\ r \in Requests
  BY <1>1, IdStepType DEF IdStep, IInv, TypeOK
<1>3. \A q \in Requests : Registered(q)' => Registered(q)
  BY <1>1 DEF callers, Registered
<1> HIDE DEF r
<1>4. ASSUME /\ Records' /\ OpenApprovalIsReachable' /\ ForwardedIsBacked'
             /\ AllowOnceForwardsOnce'
             /\ \A t \in told : resolvedBy'[t[1]] = "operator" /\ promise'[t[1]] = t[2]
             /\ resolvedBy'[r] = "operator" /\ promise'[r] = d
      PROVE  IInv'
  BY <1>1, <1>2, <1>4 DEF IInv, ToldIsTaken
<1>5. CASE ~Resolved(r) /\ Settle(id, d, "operator")
  <2>1. SettledWith(d, "operator")
    BY DEF SettledWith
  <2>2. resolvedBy'[r] = "operator" /\ promise'[r] = d
    BY <1>2, <1>5, <2>1, SettleFrame DEF IInv, r
  <2> QED
    BY <1>1, <1>3, <1>4, <1>5, <2>1, <2>2, SettleInv
<1>6. CASE Resolved(r) /\ RecordedDecision(r) = d /\ UNCHANGED record
  <2>1. resolvedBy[r] \in {"null", "operator", "no-approval-route"}
    BY <1>2, <1>6 DEF IInv, TypeOK, Resolved
  <2>2. resolvedBy[r] = "operator" /\ promise[r] = d
    BY <1>2, <1>6, <2>1 DEF IInv, Records, RecordedDecision, Decisions
  <2>3. \A t \in told : resolvedBy[t[1]] = "operator" /\ promise[t[1]] = t[2]
    BY DEF IInv, ToldIsTaken
  <2>4. Records' /\ ForwardedIsBacked' /\ AllowOnceForwardsOnce'
    BY <1>1, <1>6 DEF IInv, record, Records, RecordedDecision, ForwardedIsBacked,
                      AllowOnceForwardsOnce
  <2>5. OpenApprovalIsReachable'
    BY <1>1, <1>3, <1>6, LookupStays DEF IInv, record
  <2> QED
    BY <1>4, <1>6, <2>2, <2>3, <2>4, <2>5 DEF record
<1> QED
  BY <1>1, <1>5, <1>6

\* What is forwarded is backed by the record it is forwarded with.
LEMMA SanitizeInv ==
    ASSUME IInv, NEW id \in Ids, NEW v \in Invocations, SanitizeSystemRunParams(v, id)
    PROVE  IInv'
<1> DEFINE r == pending[id]
<1>1. /\ forwarded[v] = NotForwarded /\ r # NoRequest
      /\ UNCHANGED <<pending, late, callers, told>>
  BY DEF SanitizeSystemRunParams
<1>2. TypeOK /\ TypeOK' /\ r \in Requests
  <2>1. TypeOK /\ IdStep(id)
    BY DEF IInv, IdStep
  <2>2. r \in Requests \cup {NoRequest}
    BY <2>1, IdLooksUp
  <2> QED
    BY <1>1, <2>1, <2>2, IdStepType
<1>3. \A q \in Requests : Registered(q)' => Registered(q)
  BY <1>1 DEF callers, Registered
<1>4. PICK as \in {"allow-once", "allow-always", "fallback"} :
        /\ forwarded' = [forwarded EXCEPT ![v] = [by |-> r, as |-> as]]
        /\ \/ as = "allow-once" /\ ConsumeAllowOnce(r)
           \/ as = "allow-always" /\ UNCHANGED record
           \/ as = "fallback" /\ TimedOut(r) /\ UNCHANGED record
  BY DEF SanitizeSystemRunParams
<1> HIDE DEF r
<1>5. /\ forwarded'[v].as = as /\ forwarded'[v].by = r
      /\ \A u \in Invocations : u # v => forwarded'[u] = forwarded[u]
  <2>1. forwarded \in [Invocations -> Forwardings \cup {NotForwarded}]
    BY <1>2 DEF TypeOK
  <2> QED
    BY <1>4, <2>1
<1>6. /\ Records' /\ UNCHANGED <<resolvedBy, promise>>
      /\ \A q \in Requests : consumed[q] = "allow-once" => consumed'[q] = "allow-once"
  <2>1. CASE ConsumeAllowOnce(r)
    BY <1>2, <2>1, ConsumeFrame DEF IInv
  <2>2. CASE UNCHANGED record
    BY <2>2 DEF IInv, record, Records, RecordedDecision
  <2> QED
    BY <1>4, <2>1, <2>2
<1>7. ForwardedIsBacked'
  <2> SUFFICES ASSUME NEW u \in Invocations
      PROVE /\ forwarded'[u].as = "allow-once" => consumed'[forwarded'[u].by] = "allow-once"
            /\ forwarded'[u].as = "fallback" => resolvedBy'[forwarded'[u].by] = "null"
    BY DEF ForwardedIsBacked
  <2>1. CASE u = v
    <3>1. as = "allow-once" => consumed'[r] = "allow-once"
      BY <1>2, <1>4, ConsumeFrame DEF IInv
    <3>2. as = "fallback" => resolvedBy'[r] = "null"
      BY <1>4, <1>6 DEF TimedOut
    <3> QED
      BY <1>5, <2>1, <3>1, <3>2
  <2>2. CASE u # v
    <3>1. forwarded'[u] = forwarded[u]
      BY <1>5, <2>2
    <3>2. forwarded[u] = NotForwarded \/ forwarded[u].by \in Requests
      <4>1. forwarded[u] \in Forwardings \cup {NotForwarded}
        BY <1>2 DEF TypeOK
      <4> QED
        BY <4>1 DEF Forwardings
    <3>3. /\ forwarded[u].as = "allow-once" => consumed[forwarded[u].by] = "allow-once"
          /\ forwarded[u].as = "fallback" => resolvedBy[forwarded[u].by] = "null"
      BY DEF IInv, ForwardedIsBacked
    <3> QED
      BY <1>6, <3>1, <3>2, <3>3 DEF NotForwarded
  <2> QED
    BY <2>1, <2>2
<1>8. AllowOnceForwardsOnce'
  <2>1. \A u \in Invocations :
          (u # v /\ as = "allow-once" /\ forwarded[u].as = "allow-once")
              => forwarded[u].by # r
    <3>1. as = "allow-once" => consumed[r] = "unset"
      BY <1>2, <1>4, ConsumeFrame DEF IInv
    <3> QED
      BY <3>1 DEF IInv, ForwardedIsBacked
  <2> QED
    BY <1>5, <2>1 DEF IInv, AllowOnceForwardsOnce
<1>9. OpenApprovalIsReachable' /\ ToldIsTaken'
  BY <1>1, <1>3, <1>6, LookupStays DEF IInv, ToldIsTaken
<1> QED
  BY <1>2, <1>6, <1>7, <1>8, <1>9 DEF IInv

LEMMA NextInv == IInv /\ [Next]_vars => IInv'
<1> SUFFICES ASSUME IInv, [Next]_vars PROVE IInv'
  OBVIOUS
<1>1. TypeOK'
  BY NextType DEF IInv
<1>2. ASSUME NEW id \in Ids, IdStep(id) PROVE IInv'
  <2>1. ASSUME NEW w \in Waiters, WaitDecision(w, id) PROVE IInv'
    BY <1>1, <2>1, RecordsStay, LookupStays DEF WaitDecision, IInv, record, Registered
  <2> QED
    BY <1>2, <2>1, ResolveInv, SanitizeInv DEF IdStep
<1>3. ASSUME NEW w \in Waiters, AnswerWaiter(w) PROVE IInv'
  BY <1>1, <1>3, RecordsStay, LookupStays DEF AnswerWaiter, IInv, record, Registered
<1>4. CASE UNCHANGED vars
  BY <1>1, <1>4, RecordsStay, LookupStays DEF vars, IInv, record, callers, Registered
<1> QED
  BY <1>2, <1>3, <1>4, RequestStepInv DEF Next

LEMMA SpecInv == Spec => []IInv
BY InitInv, NextInv, PTL DEF Spec

\* One allow-once lets one command through.
THEOREM AllowOnceIsUsedOnce == Spec => []AllowOnceForwardsOnce
<1>1. IInv => AllowOnceForwardsOnce
  BY DEF IInv
<1> QED
  BY <1>1, SpecInv, PTL

\* The caller's own fallback is for approvals that nobody decided.
THEOREM FallbackIsForSilence == Spec => []FallbackNeedsSilence
<1>1. IInv => FallbackNeedsSilence
  <2> SUFFICES ASSUME IInv, NEW v \in Invocations, forwarded[v].as = "fallback"
      PROVE /\ promise[forwarded[v].by] = "null"
            /\ \A d \in Decisions : <<forwarded[v].by, d>> \notin told
    BY DEF FallbackNeedsSilence
  <2> DEFINE r == forwarded[v].by
  <2>1. resolvedBy[r] = "null"
    BY DEF IInv, ForwardedIsBacked
  <2>2. forwarded[v] \in Forwardings \cup {NotForwarded}
    BY DEF IInv, TypeOK
  <2>3. r \in Requests
    BY <2>2 DEF Forwardings, NotForwarded
  <2>4. ASSUME NEW d \in Decisions, <<r, d>> \in told PROVE FALSE
    BY <2>1, <2>4 DEF IInv, ToldIsTaken
  <2> QED
    BY <2>1, <2>3, <2>4 DEF IInv, Records
<1> QED
  BY <1>1, SpecInv, PTL

\* An approval that somebody waits for can be decided.
THEOREM OpenApprovalsAreReachable == Spec => []OpenApprovalIsReachable
<1>1. IInv => OpenApprovalIsReachable
  BY DEF IInv
<1> QED
  BY <1>1, SpecInv, PTL

-----------------------------------------------------------------------------
(* The manager implements Approval.                                        *)

\* The outcome that the record tells of.
OutcomeOf ==
    [r \in Requests |-> IF ~Resolved(r) THEN "open"
                        ELSE IF RecordedDecision(r) = "unset" THEN "null"
                        ELSE RecordedDecision(r)]

SpentOf == {r \in Requests : consumed[r] # "unset"}

\* It is what the promise holds.
LEMMA OutcomeIsPromise == IInv => OutcomeOf = promise
<1> SUFFICES ASSUME IInv PROVE OutcomeOf = promise
  OBVIOUS
<1>1. promise = [r \in Requests |-> promise[r]]
  BY DEF IInv, TypeOK
<1>2. ASSUME NEW r \in Requests PROVE OutcomeOf[r] = promise[r]
  <2>1. resolvedBy[r] \in {"unset", "null", "operator", "no-approval-route"}
    BY DEF IInv, TypeOK
  <2> QED
    BY <2>1 DEF IInv, Records, OutcomeOf, Resolved, RecordedDecision, Decisions
<1> QED
  BY <1>1, <1>2 DEF OutcomeOf

\* What a step may do to the promises and to the used up allow-onces.
SettlesOne ==
    \E r \in Requests, d \in Outcomes :
        /\ promise[r] = "open" /\ promise' = [promise EXCEPT ![r] = d]
        /\ SpentOf' = SpentOf

SpendsOne ==
    \E r \in Requests :
        /\ promise[r] = "allow-once" /\ r \notin SpentOf
        /\ SpentOf' = SpentOf \cup {r} /\ promise' = promise

LEMMA StepRefines ==
    ASSUME IInv, IInv', SettlesOne \/ SpendsOne \/ UNCHANGED <<promise, consumed>>
    PROVE  [A!Next]_(A!vars)
<1>1. OutcomeOf = promise /\ OutcomeOf' = promise'
  <2>1. (OutcomeOf = promise)'
    BY OutcomeIsPromise, PTL
  <2> QED
    BY <2>1, OutcomeIsPromise
<1>2. CASE SettlesOne
  <2>1. PICK r \in Requests, d \in Outcomes :
          /\ OutcomeOf[r] = "open" /\ OutcomeOf' = [OutcomeOf EXCEPT ![r] = d]
          /\ SpentOf' = SpentOf
    BY <1>1, <1>2 DEF SettlesOne
  <2>2. A!Settle(r, d)
    BY <2>1 DEF A!Settle, OutcomeOf, SpentOf
  <2> QED
    BY <2>2 DEF A!Next, Outcomes
<1>3. CASE SpendsOne
  <2>1. PICK r \in Requests :
          /\ OutcomeOf[r] = "allow-once" /\ r \notin SpentOf
          /\ SpentOf' = SpentOf \cup {r} /\ OutcomeOf' = OutcomeOf
    BY <1>1, <1>3 DEF SpendsOne
  <2>2. A!Spend(r)
    BY <2>1 DEF A!Spend, OutcomeOf, SpentOf
  <2> QED
    BY <2>2 DEF A!Next
<1>4. CASE UNCHANGED <<promise, consumed>>
  <2>1. OutcomeOf' = OutcomeOf /\ SpentOf' = SpentOf
    BY <1>1, <1>4 DEF SpentOf
  <2> QED
    BY <2>1 DEF A!vars, OutcomeOf, SpentOf
<1> QED
  BY <1>2, <1>3, <1>4

\* To resolve or expire an approval is to settle it, or nothing.
LEMMA SettleSettles ==
    ASSUME IInv, NEW id \in Ids, NEW d, NEW by, SettledWith(d, by), Settle(id, d, by)
    PROVE  SettlesOne \/ UNCHANGED <<promise, consumed>>
<1> DEFINE r == pending[id]
<1>1. CASE r # NoRequest /\ ~Resolved(r)
  <2>1. r \in Requests \cup {NoRequest}
    BY IdLooksUp DEF IInv
  <2>2. promise[r] = "open"
    BY <1>1, <2>1 DEF IInv, Records, Resolved
  <2>3. promise' = [promise EXCEPT ![r] = d] /\ consumed' = consumed
    BY <1>1 DEF Settle
  <2>4. d \in Outcomes
    BY DEF SettledWith, Outcomes
  <2>5. SpentOf' = SpentOf
    BY <2>3 DEF SpentOf
  <2> QED
    BY <1>1, <2>1, <2>2, <2>3, <2>4, <2>5 DEF SettlesOne
<1>2. CASE ~(r # NoRequest /\ ~Resolved(r))
  BY <1>2 DEF Settle, record
<1> QED
  BY <1>1, <1>2

\* To use up an allow-once is to spend it.
LEMMA ConsumeSpends ==
    ASSUME IInv, NEW q \in Requests, ConsumeAllowOnce(q)
    PROVE  SpendsOne
<1>1. /\ promise' = promise /\ promise[q] = "allow-once"
      /\ consumed[q] = "unset" /\ consumed'[q] = "allow-once"
      /\ \A r \in Requests : r # q => consumed'[r] = consumed[r]
  BY ConsumeFrame DEF IInv
<1>2. q \notin SpentOf /\ SpentOf' = SpentOf \cup {q}
  BY <1>1 DEF SpentOf
<1> QED
  BY <1>1, <1>2 DEF SpendsOne

LEMMA NextRefines ==
    IInv /\ [Next]_vars => SettlesOne \/ SpendsOne \/ UNCHANGED <<promise, consumed>>
<1> SUFFICES ASSUME IInv, [Next]_vars
    PROVE SettlesOne \/ SpendsOne \/ UNCHANGED <<promise, consumed>>
  OBVIOUS
<1>1. ASSUME NEW r \in Requests, RequestStep(r)
      PROVE SettlesOne \/ UNCHANGED <<promise, consumed>>
  <2>1. IdOf[r] \in Ids
    OBVIOUS
  <2>2. CASE NoRoute(r)
    BY <2>1, <2>2, SettleSettles DEF NoRoute, SettledWith
  <2>3. CASE ExpiryTimer(r)
    BY <2>1, <2>3, SettleSettles DEF ExpiryTimer, SettledWith
  <2>4. CASE ~NoRoute(r) /\ ~ExpiryTimer(r)
    BY <1>1, <2>4
       DEF RequestStep, Request, Delivered, Answer, GraceTimer, ClockPasses, record
  <2> QED
    BY <2>2, <2>3, <2>4
<1>2. ASSUME NEW id \in Ids, NEW d \in Decisions, HandleApprovalResolve(id, d)
      PROVE SettlesOne \/ UNCHANGED <<promise, consumed>>
  <2>1. CASE Settle(id, d, "operator")
    BY <2>1, SettleSettles DEF SettledWith
  <2> QED
    BY <1>2, <2>1 DEF HandleApprovalResolve, record
<1>3. ASSUME NEW id \in Ids, NEW v \in Invocations, SanitizeSystemRunParams(v, id)
      PROVE SpendsOne \/ UNCHANGED <<promise, consumed>>
  <2>1. pending[id] \in Requests \cup {NoRequest}
    BY IdLooksUp DEF IInv
  <2>2. CASE ConsumeAllowOnce(pending[id])
    BY <1>3, <2>1, <2>2, ConsumeSpends DEF SanitizeSystemRunParams
  <2> QED
    BY <1>3, <2>2 DEF SanitizeSystemRunParams, record
<1>4. ASSUME NEW w \in Waiters, NEW id \in Ids, WaitDecision(w, id)
      PROVE UNCHANGED <<promise, consumed>>
  BY <1>4 DEF WaitDecision, record
<1>5. ASSUME NEW w \in Waiters, AnswerWaiter(w) PROVE UNCHANGED <<promise, consumed>>
  BY <1>5 DEF AnswerWaiter, record
<1>6. CASE UNCHANGED vars
  BY <1>6 DEF vars, record
<1> QED
  BY <1>1, <1>2, <1>3, <1>4, <1>5, <1>6 DEF Next, IdStep

\* The approval manager implements Approval.
THEOREM ManagerRefinesApproval == Spec => IsApproval
<1>1. Init => A!Init
  BY DEF Init, A!Init, Resolved
<1>2. IInv /\ IInv' /\ [Next]_vars => [A!Next]_(A!vars)
  BY NextRefines, StepRefines
<1> QED
  BY <1>1, <1>2, SpecInv, PTL DEF Spec, IsApproval, A!Spec

-----------------------------------------------------------------------------
(* What the callers hear.                                                  *)

\* What a caller was answered, its promise holds; a requester without a route
\* leaves no promise open.
CallersAgree ==
    /\ \A r \in Requests : /\ requester[r] \in Outcomes => promise[r] = requester[r]
                           /\ requester[r] = "no route" => promise[r] # "open"
    /\ \A w \in Waiters : heard[w] # "none" =>
          waiter[w] \in Requests /\ promise[waiter[w]] = heard[w] /\ heard[w] # "open"

\* A promise that is settled stays as it is.
LEMMA PromiseStands ==
    ASSUME IInv, [Next]_vars, NEW r \in Requests, promise[r] # "open"
    PROVE  promise'[r] = promise[r]
<1>1. CASE SettlesOne
  <2>1. PICK q \in Requests, d \in Outcomes :
          promise[q] = "open" /\ promise' = [promise EXCEPT ![q] = d]
    BY <1>1 DEF SettlesOne
  <2>2. promise \in [Requests -> Outcomes \cup {"open"}]
    BY DEF IInv, TypeOK
  <2> QED
    BY <2>1, <2>2
<1> QED
  BY <1>1, NextRefines DEF SpendsOne

\* A delivery that found nobody leaves its approval resolved, by whomever.
LEMMA NoRouteResolves ==
    ASSUME IInv, NEW r \in Requests, NoRoute(r)
    PROVE  promise'[r] # "open"
<1>1. Settle(IdOf[r], "null", "no-approval-route") /\ requester[r] = "delivering"
  BY DEF NoRoute
<1>2. SettledWith("null", "no-approval-route") /\ TypeOK /\ IdOf[r] \in Ids
  BY DEF SettledWith, IInv
<1>3. CASE Resolved(r)
  <2>1. resolvedBy[r] \in {"null", "operator", "no-approval-route"}
    BY <1>3 DEF IInv, TypeOK, Resolved
  <2>2. promise[r] # "open"
    BY <2>1 DEF IInv, Records, Decisions
  <2> QED
    BY <1>1, <1>2, <1>3, <2>2, SettleFrame
<1>4. CASE ~Resolved(r)
  <2>1. pending[IdOf[r]] = r
    BY <1>1, <1>4 DEF IInv, OpenApprovalIsReachable, Registered
  <2> QED
    BY <1>1, <1>2, <1>4, <2>1, SettleFrame
<1> QED
  BY <1>3, <1>4

\* A requester hears what its promise holds, or that there was no route.
LEMMA RequesterHears ==
    ASSUME IInv, Next, NEW r \in Requests, requester'[r] # requester[r]
    PROVE  \/ requester'[r] \in {"refused", "delivering", "waiting"}
           \/ promise[r] # "open" /\ requester'[r] = promise[r]
           \/ requester'[r] = "no route" /\ promise'[r] # "open"
<1>0. requester \in [Requests -> Outcomes \cup
          {"idle", "refused", "delivering", "waiting", "no route"}]
  BY DEF IInv, TypeOK
<1>1. ASSUME NEW q \in Requests, RequestStep(q)
      PROVE  /\ q = r
             /\ Request(q) \/ Delivered(q) \/ NoRoute(q) \/ Answer(q)
  BY <1>0, <1>1 DEF RequestStep, Request, Delivered, NoRoute, Answer, ExpiryTimer,
     GraceTimer, ClockPasses, callers
<1>2. CASE \E q \in Requests : RequestStep(q)
  <2>1. Request(r) \/ Delivered(r) \/ NoRoute(r) \/ Answer(r)
    BY <1>1, <1>2
  <2>2. NoRoute(r) => requester'[r] = "no route" /\ promise'[r] # "open"
    BY <1>0, NoRouteResolves DEF NoRoute
  <2>3. Request(r) \/ Delivered(r) => requester'[r] \in {"refused", "delivering", "waiting"}
    BY <1>0 DEF Request, Delivered
  <2>4. Answer(r) => promise[r] # "open" /\ requester'[r] = promise[r]
    BY <1>0 DEF Answer
  <2> QED
    BY <2>1, <2>2, <2>3, <2>4
<1>3. CASE \E id \in Ids : IdStep(id)
  BY <1>3 DEF IdStep, HandleApprovalResolve, WaitDecision, SanitizeSystemRunParams, callers
<1>4. CASE \E w \in Waiters : AnswerWaiter(w)
  BY <1>4 DEF AnswerWaiter
<1> QED
  BY <1>2, <1>3, <1>4 DEF Next

\* A waiter hears what the promise it waits for holds, once.
LEMMA WaiterHears ==
    ASSUME IInv, Next, NEW w \in Waiters, <<waiter, heard>>' # <<waiter, heard>>
    PROVE  \/ waiter'[w] = waiter[w] /\ heard'[w] = heard[w]
           \/ waiter[w] = NoRequest /\ heard'[w] = heard[w]
           \/ /\ waiter'[w] = waiter[w] /\ waiter[w] \in Requests
              /\ promise[waiter[w]] # "open" /\ heard'[w] = promise[waiter[w]]
<1>0. /\ waiter \in [Waiters -> Requests \cup {NoRequest}]
      /\ heard \in [Waiters -> Outcomes \cup {"none"}]
  BY DEF IInv, TypeOK
<1>1. CASE \E r \in Requests : RequestStep(r)
  BY <1>1 DEF RequestStep, Request, Delivered, NoRoute, Answer, ExpiryTimer, GraceTimer,
     ClockPasses, callers
<1>2. CASE \E id \in Ids : IdStep(id)
  <2>1. PICK id \in Ids, u \in Waiters : WaitDecision(u, id)
    BY <1>2 DEF IdStep, HandleApprovalResolve, SanitizeSystemRunParams, callers
  <2>2. /\ waiter[u] = NoRequest /\ heard' = heard
        /\ waiter' = [waiter EXCEPT ![u] = pending[id]]
    BY <2>1 DEF WaitDecision
  <2> QED
    BY <1>0, <2>2
<1>3. ASSUME NEW u \in Waiters, AnswerWaiter(u)
      PROVE  \/ waiter'[w] = waiter[w] /\ heard'[w] = heard[w]
             \/ /\ waiter'[w] = waiter[w] /\ waiter[w] \in Requests
                /\ promise[waiter[w]] # "open" /\ heard'[w] = promise[waiter[w]]
  BY <1>0, <1>3 DEF AnswerWaiter
<1> QED
  BY <1>1, <1>2, <1>3 DEF Next

LEMMA CallersStep == IInv /\ CallersAgree /\ [Next]_vars => CallersAgree'
<1> SUFFICES ASSUME IInv, CallersAgree, [Next]_vars PROVE CallersAgree'
  OBVIOUS
<1>1. ASSUME NEW r \in Requests
      PROVE  /\ requester'[r] \in Outcomes => promise'[r] = requester'[r]
             /\ requester'[r] = "no route" => promise'[r] # "open"
  <2>1. CASE requester'[r] = requester[r]
    <3>1. requester[r] \in Outcomes \cup {"no route"} => promise[r] # "open"
      BY DEF CallersAgree, Outcomes, Decisions
    <3> QED
      BY <2>1, <3>1, PromiseStands DEF CallersAgree
  <2>2. CASE requester'[r] # requester[r]
    <3>1. Next
      BY <2>2 DEF vars, callers
    <3>2. promise[r] \in Outcomes \cup {"open"}
      BY DEF IInv, TypeOK
    <3> QED
      BY <2>2, <3>1, <3>2, RequesterHears, PromiseStands DEF Outcomes, Decisions
  <2> QED
    BY <2>1, <2>2
<1>2. ASSUME NEW w \in Waiters, heard'[w] # "none"
      PROVE  /\ waiter'[w] \in Requests /\ promise'[waiter'[w]] = heard'[w]
             /\ heard'[w] # "open"
  <2>1. CASE waiter'[w] = waiter[w] /\ heard'[w] = heard[w]
    BY <1>2, <2>1, PromiseStands DEF CallersAgree
  <2>2. CASE ~(waiter'[w] = waiter[w] /\ heard'[w] = heard[w])
    <3>1. Next /\ <<waiter, heard>>' # <<waiter, heard>>
      BY <2>2 DEF vars, callers
    <3>2. CASE waiter[w] = NoRequest /\ heard'[w] = heard[w]
      BY <1>2, <3>2 DEF CallersAgree
    <3>3. CASE /\ waiter'[w] = waiter[w] /\ waiter[w] \in Requests
               /\ promise[waiter[w]] # "open" /\ heard'[w] = promise[waiter[w]]
      BY <3>3, PromiseStands
    <3> QED
      BY <2>2, <3>1, <3>2, <3>3, WaiterHears
  <2> QED
    BY <2>1, <2>2
<1> QED
  BY <1>1, <1>2 DEF CallersAgree

\* A record and its promise tell the same, an operator is told ok only of the
\* decision that the promise gives, and so are all who wait for it.
THEOREM EveryoneHearsOneOutcome == Spec => []OneOutcome
<1>1. IInv /\ CallersAgree => OneOutcome
  <2> SUFFICES ASSUME IInv, CallersAgree PROVE OneOutcome
    OBVIOUS
  <2>1. ASSUME NEW r \in Requests, Resolved(r)
        PROVE promise[r] = IF RecordedDecision(r) = "unset" THEN "null" ELSE RecordedDecision(r)
    <3>1. resolvedBy[r] \in {"null", "operator", "no-approval-route"}
      BY <2>1 DEF IInv, TypeOK, Resolved
    <3> QED
      BY <3>1 DEF IInv, Records, RecordedDecision, Decisions
  <2>2. ASSUME NEW r \in Requests, promise[r] # "open"
        PROVE Resolved(r)
    BY <2>2 DEF IInv, Records, Resolved
  <2> QED
    BY <2>1, <2>2 DEF IInv, ToldIsTaken, CallersAgree, OneOutcome
<1>2. Init => CallersAgree
  BY DEF Init, CallersAgree, Outcomes, Decisions
<1> QED
  BY <1>1, <1>2, CallersStep, SpecInv, PTL DEF Spec
=============================================================================
