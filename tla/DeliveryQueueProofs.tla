-------------------------- MODULE DeliveryQueueProofs --------------------------
(***************************************************************************)
(* Theorems about DeliveryQueue: types, one sender, no claim left behind,  *)
(* no repeated first send, nothing acked unsent, and the refinement of     *)
(* DeliveryIntent, for any deliveries, payloads, passes, crashes and       *)
(* failing writes.                                                         *)
(***************************************************************************)
EXTENDS DeliveryQueue, TLAPS

(* The row of d is at its first sender. *)
Holds(d) == Queued(d) /\ Sending(d)

(* Who may touch the row of d, and what it is like before anybody did.     *)
OwnerInv(d) ==
    /\ live[d].at \in {"new", "refused"} =>
         queue[d] = "absent" /\ \A p \in Payloads : sent[d][p] = 0
    /\ live[d].at \in {"new", "enqueued"} =>
         live[d] = Fresh(live[d].at) /\ retries[d] = 0 /\ mark[d] = "none"
    /\ live[d].at = "enqueued" =>
         queue[d] = "pending" /\ \A p \in Payloads : sent[d][p] = 0
    /\ Holds(d) => d \in claims /\ queue[d] = "pending" /\ retries[d] = 0
    /\ \A k \in Passes : Working(k, d) =>
         /\ d \in claims /\ queue[d] = "pending" /\ retries[d] < MaxRetries /\ ~Sending(d)
         /\ live[d].at = "enqueued" => pass[k].next = 1
         /\ pass[k].at = "reconcile" => NeedsReconciling(d) /\ pass[k].next = 1
    /\ \A k, l \in Passes : Working(k, d) /\ Working(l, d) => k = l

(* The mark is there before a required delivery reaches the platform.      *)
MarkInv(d) ==
    /\ Holds(d) /\ live[d].marked => NeedsReconciling(d)
    /\ d \in Required /\ Sending(d) =>
         /\ Queued(d)
         /\ live[d].at = "calling" => live[d].marked
         /\ \A p \in Payloads : sent[d][p] <= 1
         /\ live[d].at \in {"sending", "calling"} =>
              \A p \in Payloads : p >= live[d].next => sent[d][p] = 0
    /\ d \in firstSent =>
         /\ \E p \in Payloads : sent[d][p] > 0
         /\ \A p \in Payloads : sent[d][p] <= 1
         /\ queue[d] = "pending" => NeedsReconciling(d)
         /\ \A k \in Passes : Working(k, d) => pass[k].at # "replay"

(* What a sender has passed over was sent, or it knows.                    *)
SentInv(d) ==
    /\ live[d].at = "calling" => live[d].next \in Payloads
    /\ live[d].at \in {"sending", "calling"} /\ ~live[d].partial =>
         \A p \in Payloads : p < live[d].next => sent[d][p] > 0
    /\ live[d].at = "acking" /\ Queued(d) => \A p \in Payloads : sent[d][p] > 0
    /\ \A k \in Passes : Working(k, d) /\ pass[k].at = "replay" =>
         IF d \in BestEffort THEN pass[k].next > 1 => d \in replayed
         ELSE \A p \in Payloads : p < pass[k].next => sent[d][p] > 0
    /\ queue[d] = "acked" /\ d \notin aborted \cup timedOut /\ (d \in BestEffort => d \notin replayed)
         => \A p \in Payloads : sent[d][p] > 0

PassInv(k) ==
    /\ pass[k].at \in {"reconcile", "replay"} => pass[k].entry \in Deliveries
    /\ \A d \in pass[k].todo : queue[d] # "absent"

DInv(d) == OwnerInv(d) /\ MarkInv(d) /\ SentInv(d)

QueueInv ==
    /\ TypeOK
    /\ \A d \in Deliveries : DInv(d)
    /\ \A k \in Passes : PassInv(k)

-----------------------------------------------------------------------------
(* Types.                                                                  *)

RowType ==
    /\ queue \in [Deliveries -> {"absent", "pending", "acked", "failed"}]
    /\ retries \in [Deliveries -> 0..MaxRetries]
    /\ mark \in [Deliveries -> Marks]
    /\ waiting \subseteq Deliveries
    /\ faults \in 0..MaxFaults

USE DeliveryAssumption DEF Payloads

\* A row that fails has a retry left.
LEMMA RowFailedType ==
    ASSUME RowType, NEW d \in Deliveries, retries[d] < MaxRetries, RowFailed(d),
           faults' \in 0..MaxFaults
    PROVE  RowType'
BY DEF RowType, RowFailed

LEMMA RowTypes ==
    ASSUME RowType, NEW d \in Deliveries
    PROVE  /\ Fault => RowType'
           /\ Enqueue(d) => RowType'
           /\ AckDelivery(d) => RowType'
           /\ MoveToFailed(d) => RowType'
           /\ \A m \in Marks : MarkDelivery(d, m) => RowType'
           /\ retries[d] < MaxRetries /\ FailDelivery(d) => RowType'
           /\ retries[d] < MaxRetries /\ AckOrFail(d) => RowType'
           /\ UNCHANGED <<row, faults>> => RowType'
<1>1. Fault => RowType'
  BY DEF RowType, Fault, row
<1>2. Enqueue(d) => RowType'
  BY DEF RowType, Enqueue, Written
<1>3. AckDelivery(d) => RowType'
  <2>1. Delete(d) /\ Written => RowType'
    BY DEF RowType, Delete, Written, Marks
  <2>2. UNCHANGED row /\ Written => RowType'
    BY DEF RowType, Written, row
  <2> QED
    BY <2>1, <2>2 DEF AckDelivery
<1>4. MoveToFailed(d) => RowType'
  BY DEF RowType, MoveToFailed, Written
<1>5. \A m \in Marks : MarkDelivery(d, m) => RowType'
  BY DEF RowType, MarkDelivery, Written
<1>6. retries[d] < MaxRetries /\ FailDelivery(d) => RowType'
  <2>1. queue[d] # "pending" /\ Written /\ UNCHANGED row => RowType'
    BY DEF RowType, Written, row
  <2>2. RowFailed(d) /\ Written => faults' \in 0..MaxFaults
    BY DEF RowType, Written
  <2> QED
    BY <1>1, <2>1, <2>2, RowFailedType DEF FailDelivery
<1>7. retries[d] < MaxRetries /\ AckOrFail(d) => RowType'
  <2>1. faults \in 0..MaxFaults
    BY DEF RowType
  <2>2. UNCHANGED row /\ faults + 2 <= MaxFaults /\ faults' = faults + 2 => RowType'
    BY DEF RowType, row
  <2>3. faults < MaxFaults /\ faults' = faults + 1 => faults' \in 0..MaxFaults
    BY <2>1
  <2> QED
    BY <1>3, <2>2, <2>3, RowFailedType DEF AckOrFail
<1>8. UNCHANGED <<row, faults>> => RowType'
  BY DEF RowType, row
<1> QED
  BY <1>1, <1>2, <1>3, <1>4, <1>5, <1>6, <1>7, <1>8

(* The types but for the rows.                                             *)
LiveType == live \in [Deliveries -> LiveStates]
PassType == pass \in [Passes -> PassStates]
SentType == sent \in [Deliveries -> [Payloads -> 0..2]]
HistoryType ==
    /\ aborted \subseteq Deliveries /\ timedOut \subseteq Deliveries
    /\ firstSent \subseteq Required /\ replayed \subseteq BestEffort

OtherTypes ==
    LiveType /\ PassType /\ SentType /\ HistoryType
    /\ claims \subseteq Deliveries /\ crashes \in 0..MaxCrashes

LEMMA TypeParts == (TypeOK <=> RowType /\ OtherTypes) /\ (TypeOK' <=> RowType' /\ OtherTypes')
BY DEF TypeOK, OtherTypes, RowType, LiveType, PassType, SentType, HistoryType

\* A step that changes no row.
LEMMA RowKeptType == ASSUME RowType, UNCHANGED <<row, faults>> PROVE RowType'
BY DEF RowType, row

LEMMA LandType ==
    ASSUME SentType, NEW d \in Deliveries, NEW p \in Payloads, Land(d, p)
    PROVE  SentType'
BY DEF SentType, Land

\* What the first sender may become.
LEMMA LiveTypes ==
    ASSUME LiveType, NEW d \in Deliveries
    PROVE  /\ \A a \in LivePhases :
                 /\ live' = [live EXCEPT ![d].at = a] => LiveType'
                 /\ live' = [live EXCEPT ![d] = Fresh(a)] => LiveType'
                 /\ live' = [live EXCEPT ![d].at = a, ![d].marked = TRUE] => LiveType'
                 /\ live[d].next \in Payloads =>
                      (live' = [live EXCEPT ![d].at = a, ![d].next = @ + 1] => LiveType')
           /\ live' = [live EXCEPT ![d].next = PayloadCount + 1, ![d].partial = TRUE] => LiveType'
           /\ live[d].next \in Payloads /\ AfterError(d) => LiveType'
<1>1. \A a \in LivePhases : live' = [live EXCEPT ![d].at = a] => LiveType'
  BY DEF LiveType, LiveStates
<1>2. \A a \in LivePhases : live' = [live EXCEPT ![d] = Fresh(a)] => LiveType'
  BY DEF LiveType, LiveStates, Fresh
<1>3. \A a \in LivePhases : live' = [live EXCEPT ![d].at = a, ![d].marked = TRUE] => LiveType'
  <2> SUFFICES ASSUME NEW a \in LivePhases,
                      live' = [live EXCEPT ![d].at = a, ![d].marked = TRUE]
               PROVE  LiveType'
    OBVIOUS
  <2>1. live'[d] = [live[d] EXCEPT !.at = a, !.marked = TRUE]
    BY DEF LiveType, LiveStates
  <2>2. live'[d] \in LiveStates
    BY <2>1 DEF LiveType, LiveStates
  <2>3. live' = [live EXCEPT ![d] = live'[d]]
    BY DEF LiveType
  <2> QED
    BY <2>2, <2>3 DEF LiveType
<1>4. \A a \in LivePhases : live[d].next \in Payloads =>
         (live' = [live EXCEPT ![d].at = a, ![d].next = @ + 1] => LiveType')
  <2> SUFFICES ASSUME NEW a \in LivePhases, live[d].next \in Payloads,
                      live' = [live EXCEPT ![d].at = a, ![d].next = @ + 1]
               PROVE  LiveType'
    OBVIOUS
  <2>1. live[d].next + 1 \in 1..(PayloadCount + 1)
    OBVIOUS
  <2>2. live'[d] = [live[d] EXCEPT !.at = a, !.next = live[d].next + 1]
    BY DEF LiveType, LiveStates
  <2>3. live'[d] \in LiveStates
    BY <2>1, <2>2 DEF LiveType, LiveStates
  <2>4. live' = [live EXCEPT ![d] = live'[d]]
    BY DEF LiveType
  <2> QED
    BY <2>3, <2>4 DEF LiveType
<1>5. live' = [live EXCEPT ![d].next = PayloadCount + 1, ![d].partial = TRUE] => LiveType'
  <2>1. PayloadCount + 1 \in 1..(PayloadCount + 1)
    OBVIOUS
  <2>2. [live[d] EXCEPT !.next = PayloadCount + 1, !.partial = TRUE] \in LiveStates
    BY <2>1 DEF LiveType, LiveStates
  <2> QED
    BY <2>2 DEF LiveType
<1>6. live[d].next \in Payloads /\ AfterError(d) => LiveType'
  <2> SUFFICES ASSUME live[d].next \in Payloads, AfterError(d) PROVE LiveType'
    OBVIOUS
  <2>1. live[d].next + 1 \in 1..(PayloadCount + 1) /\ live[d] \in LiveStates
    BY DEF LiveType
  <2>2. [live[d] EXCEPT !.at = "sending", !.next = live[d].next + 1, !.partial = TRUE] \in LiveStates
    BY <2>1 DEF LiveStates, LivePhases
  <2>3. [live[d] EXCEPT !.at = "threw"] \in LiveStates
    BY <2>1 DEF LiveStates, LivePhases
  <2> QED
    BY <2>2, <2>3 DEF LiveType, AfterError
<1> QED
  BY <1>1, <1>2, <1>3, <1>4, <1>5, <1>6

LEMMA PassTypes ==
    ASSUME PassType, NEW k \in Passes
    PROVE  /\ pass' = [pass EXCEPT ![k] = Resting(k)] => PassType'
           /\ Release(k) => PassType'
           /\ \A a \in PassPhases, D \in SUBSET Deliveries, e \in Deliveries :
                pass' = [pass EXCEPT ![k] = [at |-> a, todo |-> D, entry |-> e, next |-> 1]]
                    => PassType'
           /\ \A a \in PassPhases : pass' = [pass EXCEPT ![k].at = a] => PassType'
           /\ \A D \in SUBSET Deliveries :
                /\ pass' = [pass EXCEPT ![k].todo = D] => PassType'
                /\ pass' = [pass EXCEPT ![k].at = "scan", ![k].todo = D] => PassType'
           /\ pass[k].next \in Payloads =>
                (pass' = [pass EXCEPT ![k].next = @ + 1] => PassType')
<1> DEFINE State(x) == pass' = [pass EXCEPT ![k] = x]
<1>0. pass[k] \in PassStates
  BY DEF PassType
<1>s. ASSUME NEW x \in PassStates, State(x) PROVE PassType'
  BY <1>s DEF PassType
<1>1. Resting(k) \in PassStates
  BY DEF Resting, PassStates, PassPhases
<1>2. Release(k) => State([pass[k] EXCEPT !.at = "scan", !.entry = Nothing, !.next = 1])
  <2> SUFFICES ASSUME Release(k)
               PROVE  State([pass[k] EXCEPT !.at = "scan", !.entry = Nothing, !.next = 1])
    OBVIOUS
  <2>1. pass' = [pass EXCEPT ![k] = pass'[k]]
    BY DEF PassType, Release
  <2>2. pass'[k] = [pass[k] EXCEPT !.at = "scan", !.entry = Nothing, !.next = 1]
    BY <1>0 DEF PassType, PassStates, Release
  <2> QED
    BY <2>1, <2>2
<1>3. [pass[k] EXCEPT !.at = "scan", !.entry = Nothing, !.next = 1] \in PassStates
  <2>1. [pass[k] EXCEPT !.at = "scan"] \in PassStates
    BY <1>0 DEF PassStates, PassPhases
  <2>2. \A s \in PassStates : [s EXCEPT !.entry = Nothing] \in PassStates
    BY DEF PassStates
  <2>3. \A s \in PassStates : [s EXCEPT !.next = 1] \in PassStates
    BY DEF PassStates
  <2> QED
    BY <2>1, <2>2, <2>3
<1>4. ASSUME NEW a \in PassPhases, NEW D \in SUBSET Deliveries, NEW e \in Deliveries
      PROVE  [at |-> a, todo |-> D, entry |-> e, next |-> 1] \in PassStates
  <2>1. 1 \in 1..(PayloadCount + 1) /\ e \in Deliveries \cup {Nothing}
    OBVIOUS
  <2> QED
    BY <2>1 DEF PassStates
<1>5. ASSUME NEW a \in PassPhases, pass' = [pass EXCEPT ![k].at = a] PROVE PassType'
  <2>1. State([pass[k] EXCEPT !.at = a])
    BY <1>5
  <2>2. [pass[k] EXCEPT !.at = a] \in PassStates
    BY <1>0 DEF PassStates
  <2> QED
    BY <2>1, <2>2, <1>s
<1>6. \A D \in SUBSET Deliveries : pass' = [pass EXCEPT ![k].todo = D] => PassType'
  BY DEF PassType, PassStates
<1>7. ASSUME NEW D \in SUBSET Deliveries, pass' = [pass EXCEPT ![k].at = "scan", ![k].todo = D]
      PROVE  PassType'
  <2>1. State([pass[k] EXCEPT !.at = "scan", !.todo = D])
    BY <1>0, <1>7 DEF PassType, PassStates
  <2>2. [pass[k] EXCEPT !.at = "scan", !.todo = D] \in PassStates
    BY <1>0 DEF PassStates, PassPhases
  <2> QED
    BY <2>1, <2>2, <1>s
<1>8. ASSUME pass[k].next \in Payloads, pass' = [pass EXCEPT ![k].next = @ + 1]
      PROVE  PassType'
  <2>1. pass[k].next + 1 \in 1..(PayloadCount + 1)
    BY <1>8
  <2> QED
    BY <2>1, <1>8 DEF PassType, PassStates
<1> QED
  BY <1>s, <1>1, <1>2, <1>3, <1>4, <1>5, <1>6, <1>7, <1>8

-----------------------------------------------------------------------------
(* Steps that touch one delivery.                                          *)

RowSame(d) == queue'[d] = queue[d] /\ retries'[d] = retries[d] /\ mark'[d] = mark[d]

WorkSame(e) ==
    \A k \in Passes : /\ Working(k, e)' <=> Working(k, e)
                      /\ Working(k, e) => pass'[k].at = pass[k].at /\ pass'[k].next = pass[k].next

\* Nothing that the invariant says of e changes.
Same(e) ==
    /\ RowSame(e) /\ WorkSame(e)
    /\ live'[e] = live[e] /\ sent'[e] = sent[e]
    /\ e \in claims' <=> e \in claims
    /\ e \in aborted' <=> e \in aborted
    /\ e \in timedOut' <=> e \in timedOut
    /\ e \in firstSent' <=> e \in firstSent
    /\ e \in replayed' <=> e \in replayed

LEMMA SameKeeps ==
    ASSUME NEW e \in Deliveries, DInv(e), Same(e)
    PROVE  DInv(e)'
<1>1. OwnerInv(e)'
  BY DEF DInv, OwnerInv, Same, RowSame, WorkSame, Holds, Queued, Sending, NeedsReconciling
<1>2. MarkInv(e)'
  BY DEF DInv, MarkInv, Same, RowSame, WorkSame, Holds, Queued, Sending, NeedsReconciling
<1>3. SentInv(e)'
  BY DEF DInv, SentInv, Same, RowSame, WorkSame, Queued
<1> QED
  BY <1>1, <1>2, <1>3 DEF DInv

(* What the step is for DeliveryIntent. *)
Refines == I!Next \/ UNCHANGED I!vars

Sound == QueueInv' /\ Refines

Reached(d) == {p \in Payloads : sent[d][p] > 0}

\* What may become of one delivery.
Move(d) ==
    \/ Fate(d)' = Fate(d) /\ Reached(d)' = Reached(d)
    \/ Fate(d) = "none" /\ Fate(d)' \in {"owed", "direct"} /\ Reached(d)' = Reached(d)
    \/ /\ Fate(d) \in {"owed", "direct"} /\ Fate(d)' = Fate(d)
       /\ \E p \in Payloads : Reached(d)' = Reached(d) \cup {p}
    \/ /\ Fate(d) = "owed" /\ Reached(d)' = Reached(d)
       /\ \/ Fate(d)' = "settled" /\ (d \in BestEffort \/ Reached(d) = Payloads)
          \/ Fate(d)' \in {"withdrawn", "parked"}

LEMMA MoveRefines ==
    ASSUME NEW d \in Deliveries, Move(d),
           \A e \in Deliveries \ {d} : Fate(e)' = Fate(e) /\ Reached(e)' = Reached(e)
    PROVE  Refines
<1> DEFINE fate == [e \in Deliveries |-> Fate(e)]
           reached == [e \in Deliveries |-> Reached(e)]
<1>1. fate' = [fate EXCEPT ![d] = Fate(d)'] /\ reached' = [reached EXCEPT ![d] = Reached(d)']
  OBVIOUS
<1>2. fate[d] = Fate(d) /\ reached[d] = Reached(d)
  OBVIOUS
<1>3. ASSUME Fate(d)' = Fate(d) PROVE fate' = fate
  BY <1>3
<1>4. ASSUME Reached(d)' = Reached(d) PROVE reached' = reached
  BY <1>4
<1>5. CASE Fate(d)' = Fate(d) /\ Reached(d)' = Reached(d)
  BY <1>3, <1>4, <1>5 DEF Refines, I!vars, Reached
<1>6. CASE Fate(d) = "none" /\ Fate(d)' \in {"owed", "direct"} /\ Reached(d)' = Reached(d)
  <2>1. I!Accept(d, Fate(d)')
    BY <1>1, <1>2, <1>4, <1>6 DEF I!Accept, Reached
  <2> QED
    BY <1>6, <2>1 DEF Refines, I!Next
<1>7. CASE /\ Fate(d) \in {"owed", "direct"} /\ Fate(d)' = Fate(d)
           /\ \E p \in Payloads : Reached(d)' = Reached(d) \cup {p}
  <2>1. PICK p \in Payloads : Reached(d)' = Reached(d) \cup {p}
    BY <1>7
  <2>2. I!Reach(d, p)
    BY <1>1, <1>2, <1>3, <1>7, <2>1 DEF I!Reach, Reached
  <2> QED
    BY <2>2 DEF Refines, I!Next
<1>8. CASE /\ Fate(d) = "owed" /\ Reached(d)' = Reached(d) /\ Fate(d)' = "settled"
           /\ d \in BestEffort \/ Reached(d) = Payloads
  <2>1. I!Settle(d)
    BY <1>1, <1>2, <1>4, <1>8 DEF I!Settle, Reached
  <2> QED
    BY <2>1 DEF Refines, I!Next
<1>9. CASE Fate(d) = "owed" /\ Reached(d)' = Reached(d) /\ Fate(d)' \in {"withdrawn", "parked"}
  <2>1. I!GiveUp(d, Fate(d)')
    BY <1>1, <1>2, <1>4, <1>9 DEF I!GiveUp, Reached
  <2> QED
    BY <1>9, <2>1 DEF Refines, I!Next
<1> QED
  BY <1>5, <1>6, <1>7, <1>8, <1>9 DEF Move

LEMMA StayRefines ==
    ASSUME \A e \in Deliveries : Fate(e)' = Fate(e) /\ Reached(e)' = Reached(e)
    PROVE  Refines
BY DEF Refines, I!vars, Reached

LEMMA SameFate ==
    ASSUME NEW e \in Deliveries, Same(e)
    PROVE  Fate(e)' = Fate(e) /\ Reached(e)' = Reached(e)
BY DEF Same, RowSame, Fate, Reached

\* The rows of the other deliveries, and that no row is forgotten.
OtherRows(d) ==
    /\ \A e \in Deliveries \ {d} : RowSame(e)
    /\ \A e \in Deliveries : Queued(e) => queue'[e] # "absent"

LEMMA RowEffects ==
    ASSUME RowType, NEW d \in Deliveries
    PROVE  /\ UNCHANGED row => OtherRows(d) /\ RowSame(d)
           /\ FailDelivery(d) => OtherRows(d) /\ queue'[d] = queue[d] /\ mark'[d] = mark[d]
           /\ AckDelivery(d) =>
                /\ OtherRows(d)
                /\ IF queue[d] = "pending" THEN queue'[d] = "acked" ELSE RowSame(d)
           /\ MoveToFailed(d) => OtherRows(d) /\ queue[d] = "pending" /\ queue'[d] = "failed"
           /\ Enqueue(d) =>
                OtherRows(d) /\ queue'[d] = "pending" /\ retries'[d] = retries[d] /\ mark'[d] = mark[d]
           /\ \A m \in Marks : MarkDelivery(d, m) =>
                /\ OtherRows(d) /\ queue[d] = "pending"
                /\ queue'[d] = "pending" /\ retries'[d] = retries[d] /\ mark'[d] = m
<1>1. UNCHANGED row => OtherRows(d) /\ RowSame(d)
  BY DEF row, OtherRows, RowSame, Queued
<1>2. RowFailed(d) => OtherRows(d) /\ queue'[d] = queue[d] /\ mark'[d] = mark[d]
  BY DEF RowType, RowFailed, OtherRows, RowSame, Queued
<1>3. FailDelivery(d) => OtherRows(d) /\ queue'[d] = queue[d] /\ mark'[d] = mark[d]
  BY <1>1, <1>2 DEF FailDelivery, Fault, RowSame
<1>4. Delete(d) => OtherRows(d) /\ queue'[d] = "acked"
  BY DEF RowType, Delete, OtherRows, RowSame, Queued
<1>5. AckDelivery(d) =>
        OtherRows(d) /\ IF queue[d] = "pending" THEN queue'[d] = "acked" ELSE RowSame(d)
  BY <1>1, <1>4 DEF AckDelivery
<1>6. MoveToFailed(d) => OtherRows(d) /\ queue[d] = "pending" /\ queue'[d] = "failed"
  BY DEF RowType, MoveToFailed, OtherRows, RowSame, Queued
<1>7. Enqueue(d) =>
        OtherRows(d) /\ queue'[d] = "pending" /\ retries'[d] = retries[d] /\ mark'[d] = mark[d]
  BY DEF RowType, Enqueue, OtherRows, RowSame, Queued
<1>8. \A m \in Marks : MarkDelivery(d, m) =>
        /\ OtherRows(d) /\ queue[d] = "pending"
        /\ queue'[d] = "pending" /\ retries'[d] = retries[d] /\ mark'[d] = m
  BY DEF RowType, MarkDelivery, OtherRows, RowSame, Queued
<1> QED
  BY <1>1, <1>3, <1>5, <1>6, <1>7, <1>8

\* What a step of the first sender of d, or of time, leaves to the others.
LiveTouches(d) ==
    /\ OtherRows(d) /\ pass' = pass
    /\ \A e \in Deliveries \ {d} :
          /\ live'[e] = live[e] /\ sent'[e] = sent[e]
          /\ e \in claims' <=> e \in claims
          /\ e \in aborted' <=> e \in aborted
          /\ e \in timedOut' <=> e \in timedOut
          /\ e \in firstSent' <=> e \in firstSent
          /\ e \in replayed' <=> e \in replayed

LEMMA LiveFrame ==
    ASSUME QueueInv, NEW d \in Deliveries, LiveTouches(d), TypeOK', DInv(d)', Move(d)
    PROVE  Sound
<1>1. ASSUME NEW e \in Deliveries \ {d}
      PROVE  DInv(e)' /\ Fate(e)' = Fate(e) /\ Reached(e)' = Reached(e)
  <2>1. WorkSame(e)
    BY DEF LiveTouches, WorkSame, Working
  <2>2. Same(e)
    BY <2>1 DEF LiveTouches, OtherRows, Same
  <2> QED
    BY <2>2, SameKeeps, SameFate DEF QueueInv
<1>2. ASSUME NEW k \in Passes PROVE PassInv(k)'
  <2>1. pass[k].todo \subseteq Deliveries
    BY DEF QueueInv, TypeOK, PassStates
  <2> QED
    BY <2>1 DEF QueueInv, PassInv, LiveTouches, OtherRows, Queued
<1> QED
  BY <1>1, <1>2, MoveRefines DEF Sound, QueueInv

\* Pass k works on d, or takes it or leaves it, and sends for nobody else.
PassTouches(k, d) ==
    /\ OtherRows(d) /\ live' = live
    /\ \A e \in Deliveries \ {d} :
          /\ sent'[e] = sent[e]
          /\ e \in claims' <=> e \in claims
          /\ e \in replayed' <=> e \in replayed
          /\ ~Working(k, e) /\ ~Working(k, e)'
    /\ \A l \in Passes \ {k} : pass'[l] = pass[l]
    /\ UNCHANGED <<aborted, timedOut, firstSent>>

LEMMA PassFrame ==
    ASSUME QueueInv, NEW k \in Passes, NEW d \in Deliveries, PassTouches(k, d), TypeOK',
           DInv(d)', PassInv(k)', Move(d)
    PROVE  Sound
<1>1. ASSUME NEW e \in Deliveries \ {d}
      PROVE  DInv(e)' /\ Fate(e)' = Fate(e) /\ Reached(e)' = Reached(e)
  <2>1. WorkSame(e)
    BY DEF PassTouches, WorkSame, Working
  <2>2. Same(e)
    BY <2>1 DEF PassTouches, OtherRows, Same
  <2> QED
    BY <2>2, SameKeeps, SameFate DEF QueueInv
<1>2. ASSUME NEW l \in Passes \ {k} PROVE PassInv(l)'
  <2>1. pass[l].todo \subseteq Deliveries
    BY DEF QueueInv, TypeOK, PassStates
  <2> QED
    BY <2>1 DEF QueueInv, PassInv, PassTouches, OtherRows, Queued
<1> QED
  BY <1>1, <1>2, MoveRefines DEF Sound, QueueInv

-----------------------------------------------------------------------------
(* The steps of a first sender.                                            *)

LEMMA SenderAlone ==
    ASSUME QueueInv, NEW d \in Deliveries, Sending(d)
    PROVE  /\ \A k \in Passes : ~Working(k, d)
           /\ Queued(d) => queue[d] = "pending" /\ retries[d] = 0
BY DEF QueueInv, DInv, OwnerInv, Holds

\* A sender that leaves keeps the row, or acks it when everything was sent or
\* when it was aborted.
LEMMA LeaveKeeps ==
    ASSUME QueueInv, NEW d \in Deliveries, Sending(d), live'[d] = Fresh("over"),
           UNCHANGED <<pass, sent, firstSent, replayed>>,
           \/ queue'[d] = queue[d] /\ mark'[d] = mark[d]
           \/ /\ queue'[d] = "acked"
              /\ d \in aborted' \cup timedOut' \/ \A p \in Payloads : sent[d][p] > 0
    PROVE  DInv(d)'
<1>0. \A k \in Passes : ~Working(k, d)
  BY SenderAlone
<1>1. /\ live'[d].at = "over" /\ ~Sending(d)' /\ ~Holds(d)'
      /\ \A k \in Passes : ~Working(k, d)'
  <2>1. live'[d].at = "over"
    BY DEF Fresh
  <2>2. \A k \in Passes : ~Working(k, d)'
    BY <1>0 DEF Working
  <2> QED
    BY <2>1, <2>2 DEF Sending, Holds
<1>2. queue[d] \in {"absent", "pending"}
  BY SenderAlone DEF Queued
<1>3. OwnerInv(d)'
  BY <1>1 DEF OwnerInv
<1>4. MarkInv(d)'
  BY <1>1, <1>2 DEF QueueInv, DInv, MarkInv, NeedsReconciling
<1>5. SentInv(d)'
  BY <1>1, <1>2 DEF SentInv
<1> QED
  BY <1>3, <1>4, <1>5 DEF DInv

LEMMA SubmitKeeps ==
    ASSUME QueueInv, NEW d \in Deliveries, Submit(d)
    PROVE  Sound
<1> DEFINE at == IF d \in Required THEN "refused" ELSE "sending"
<1>0. RowType /\ OtherTypes /\ LiveType /\ live[d] = Fresh("new")
  BY TypeParts DEF QueueInv, OtherTypes, Submit, DInv, OwnerInv
<1>1. /\ queue[d] = "absent" /\ mark[d] = "none" /\ retries[d] = 0
      /\ \A p \in Payloads : sent[d][p] = 0
      /\ d \notin firstSent
      /\ \A k \in Passes : ~Working(k, d)
  BY DEF QueueInv, DInv, OwnerInv, MarkInv, Submit
<1>2. ASSUME NEW a \in {"enqueued", "refused", "sending"}, live' = [live EXCEPT ![d].at = a],
             OtherRows(d), RowType', UNCHANGED <<claims, pass, sent, history, crashes>>,
             mark'[d] = "none", retries'[d] = 0,
             queue'[d] = IF a = "enqueued" THEN "pending" ELSE "absent",
             d \in Required => a # "sending"
      PROVE  Sound
  <2>1. live'[d] = Fresh(a) /\ \A e \in Deliveries \ {d} : live'[e] = live[e]
    <3>1. live'[d] = [live[d] EXCEPT !.at = a]
      BY <1>0, <1>2 DEF LiveType
    <3>2. live'[d] = [Fresh("new") EXCEPT !.at = a]
      BY <1>0, <3>1
    <3> QED
      BY <1>0, <1>2, <3>2 DEF LiveType, Fresh
  <2>2. LiveTouches(d)
    BY <1>2, <2>1 DEF LiveTouches, history
  <2>3. LiveType'
    BY <1>0, <1>2, LiveTypes DEF LivePhases
  <2>4. TypeOK'
    BY <1>0, <1>2, <2>3, TypeParts DEF OtherTypes, PassType, SentType, HistoryType, history
  <2>5. live'[d].at = a /\ live'[d].next = 1 /\ live'[d].marked = FALSE
    BY <2>1 DEF Fresh
  <2>6. \A k \in Passes : ~Working(k, d)'
    BY <1>1, <1>2 DEF Working
  <2>7. OwnerInv(d)'
    BY <1>1, <1>2, <2>1, <2>5, <2>6 DEF OwnerInv, Holds, Queued, Sending
  <2>8. MarkInv(d)'
    BY <1>1, <1>2, <2>5, <2>6 DEF MarkInv, Holds, Queued, Sending, history
  <2>9. SentInv(d)'
    BY <1>1, <1>2, <2>5, <2>6 DEF SentInv
  <2>10. Move(d)
    <3>1. Fate(d) = "none" /\ Reached(d)' = Reached(d)
      BY <1>1, <1>2 DEF Fate, Reached, Submit
    <3>2. Fate(d)' = CASE a = "enqueued" -> "owed" [] a = "refused" -> "none" [] OTHER -> "direct"
      BY <1>2, <2>5 DEF Fate
    <3> QED
      BY <3>1, <3>2 DEF Move
  <2> QED
    BY <2>2, <2>4, <2>7, <2>8, <2>9, <2>10, LiveFrame DEF DInv
<1>3. CASE Enqueue(d) /\ live' = [live EXCEPT ![d].at = "enqueued"]
  <2>1. RowType' /\ OtherRows(d) /\ queue'[d] = "pending" /\ mark'[d] = "none" /\ retries'[d] = 0
    BY <1>0, <1>1, <1>3, RowTypes, RowEffects
  <2> QED
    BY <1>2, <1>3, <2>1 DEF Submit
<1>4. CASE Fault /\ live' = [live EXCEPT ![d].at = at]
  <2>1. RowType' /\ OtherRows(d) /\ RowSame(d)
    BY <1>0, <1>4, RowTypes, RowEffects DEF Fault
  <2> QED
    BY <1>1, <1>2, <1>4, <2>1 DEF Submit, RowSame
<1> QED
  BY <1>3, <1>4 DEF Submit

\* What becomes of the sender of d, the others staying as they are.
LiveIs(d, at, next, partial, marked) ==
    /\ live'[d].at = at /\ live'[d].next = next
    /\ live'[d].partial = partial /\ live'[d].marked = marked
    /\ \A e \in Deliveries \ {d} : live'[e] = live[e]

LEMMA LiveEffects ==
    ASSUME LiveType, NEW d \in Deliveries
    PROVE  /\ \A a \in LivePhases :
                /\ live' = [live EXCEPT ![d].at = a] =>
                     LiveIs(d, a, live[d].next, live[d].partial, live[d].marked)
                /\ live' = [live EXCEPT ![d].at = a, ![d].marked = TRUE] =>
                     LiveIs(d, a, live[d].next, live[d].partial, TRUE)
                /\ live' = [live EXCEPT ![d].at = a, ![d].next = @ + 1] =>
                     LiveIs(d, a, live[d].next + 1, live[d].partial, live[d].marked)
           /\ live' = [live EXCEPT ![d].next = PayloadCount + 1, ![d].partial = TRUE] =>
                LiveIs(d, live[d].at, PayloadCount + 1, TRUE, live[d].marked)
           /\ AfterError(d) =>
                IF d \in BestEffort
                THEN LiveIs(d, "sending", live[d].next + 1, TRUE, live[d].marked)
                ELSE LiveIs(d, "threw", live[d].next, live[d].partial, live[d].marked)
           /\ \A a \in LivePhases : live' = [live EXCEPT ![d] = Fresh(a)] =>
                live'[d] = Fresh(a) /\ LiveIs(d, a, 1, FALSE, FALSE)
<1>0. live[d] \in LiveStates
  BY DEF LiveType
<1>1. \A a \in LivePhases : live' = [live EXCEPT ![d].at = a] =>
        LiveIs(d, a, live[d].next, live[d].partial, live[d].marked)
  BY <1>0 DEF LiveType, LiveStates, LiveIs
<1>2. \A a \in LivePhases : live' = [live EXCEPT ![d].at = a, ![d].marked = TRUE] =>
        LiveIs(d, a, live[d].next, live[d].partial, TRUE)
  BY <1>0 DEF LiveType, LiveStates, LiveIs
<1>3. \A a \in LivePhases : live' = [live EXCEPT ![d].at = a, ![d].next = @ + 1] =>
        LiveIs(d, a, live[d].next + 1, live[d].partial, live[d].marked)
  BY <1>0 DEF LiveType, LiveStates, LiveIs
<1>4. live' = [live EXCEPT ![d].next = PayloadCount + 1, ![d].partial = TRUE] =>
        LiveIs(d, live[d].at, PayloadCount + 1, TRUE, live[d].marked)
  BY <1>0 DEF LiveType, LiveStates, LiveIs
<1>5. ASSUME AfterError(d), d \in BestEffort
      PROVE  LiveIs(d, "sending", live[d].next + 1, TRUE, live[d].marked)
  BY <1>0, <1>5 DEF AfterError, LiveType, LiveStates, LiveIs
<1>6. ASSUME AfterError(d), d \notin BestEffort
      PROVE  LiveIs(d, "threw", live[d].next, live[d].partial, live[d].marked)
  BY <1>0, <1>6 DEF AfterError, LiveType, LiveStates, LiveIs
<1>7. \A a \in LivePhases : live' = [live EXCEPT ![d] = Fresh(a)] =>
        live'[d] = Fresh(a) /\ LiveIs(d, a, 1, FALSE, FALSE)
  BY DEF LiveType, LiveIs, Fresh
<1> QED
  BY <1>1, <1>2, <1>3, <1>4, <1>5, <1>6, <1>7

\* A sender that leaves, with what becomes of its row.
LEMMA LeaveStep ==
    ASSUME QueueInv, NEW d \in Deliveries, Sending(d), Leave(d), RowType', OtherRows(d),
           UNCHANGED <<pass, sent, firstSent, replayed, crashes>>,
           aborted' \in {aborted, aborted \cup {d}}, timedOut' \in {timedOut, timedOut \cup {d}},
           \/ queue'[d] = queue[d] /\ mark'[d] = mark[d]
           \/ /\ queue[d] = "pending" /\ queue'[d] = "acked"
              /\ d \in aborted' \cup timedOut' \/ \A p \in Payloads : sent[d][p] > 0
    PROVE  Sound
<1>0. RowType /\ OtherTypes /\ LiveType
  BY TypeParts DEF QueueInv, OtherTypes
<1>1. LiveType' /\ live'[d] = Fresh("over") /\ \A e \in Deliveries \ {d} : live'[e] = live[e]
  BY <1>0, LiveTypes, LiveEffects DEF Leave, LivePhases, LiveIs
<1>2. TypeOK'
  BY <1>0, <1>1, TypeParts DEF OtherTypes, PassType, SentType, HistoryType, Leave
<1>3. LiveTouches(d)
  BY <1>1 DEF LiveTouches, Leave
<1>4. DInv(d)'
  BY <1>1, LeaveKeeps
<1>5. Move(d)
  <2>1. Reached(d)' = Reached(d) /\ Fate(d) \in {"owed", "direct"}
    BY SenderAlone DEF Reached, Fate, Queued, Sending
  <2>2. CASE queue'[d] = queue[d]
    <3>1. queue[d] \in {"absent", "pending"} /\ live'[d].at = "over"
      BY <1>1, SenderAlone DEF Queued, Fresh
    <3> QED
      BY <2>1, <2>2, <3>1 DEF Move, Fate, Sending
  <2>3. CASE /\ queue[d] = "pending" /\ queue'[d] = "acked"
             /\ d \in aborted' \cup timedOut' \/ \A p \in Payloads : sent[d][p] > 0
    <3>1. /\ Fate(d) = "owed"
          /\ Fate(d)' = IF d \in aborted' \cup timedOut' THEN "withdrawn" ELSE "settled"
      BY <2>3 DEF Fate
    <3>2. d \in aborted' \cup timedOut' \/ Reached(d) = Payloads
      BY <2>3 DEF Reached
    <3> QED
      BY <2>1, <3>1, <3>2 DEF Move
  <2> QED
    BY <2>2, <2>3
<1> QED
  BY <1>2, <1>3, <1>4, <1>5, LiveFrame

\* A sender that goes on.
LEMMA StayStep ==
    ASSUME QueueInv, NEW d \in Deliveries, Sending(d), Sending(d)', OtherRows(d), RowType',
           LiveType', SentType', queue'[d] = queue[d], retries'[d] = retries[d],
           \A e \in Deliveries \ {d} : live'[e] = live[e] /\ sent'[e] = sent[e],
           UNCHANGED <<claims, pass, timedOut, replayed, crashes>>,
           aborted' \in {aborted, aborted \cup {d}},
           firstSent' \in {firstSent, firstSent \cup ({d} \cap Required)},
           MarkInv(d)',
           sent'[d] = sent[d] \/ \E p \in Payloads : Reached(d)' = Reached(d) \cup {p},
           live'[d].at = "calling" => live'[d].next \in Payloads,
           live'[d].at \in {"sending", "calling"} /\ ~live'[d].partial =>
               \A p \in Payloads : p < live'[d].next => sent'[d][p] > 0,
           live'[d].at = "acking" /\ Queued(d) => \A p \in Payloads : sent'[d][p] > 0
    PROVE  Sound
<1>0. RowType /\ OtherTypes
  BY TypeParts DEF QueueInv
<1>1. /\ \A k \in Passes : ~Working(k, d)
      /\ Queued(d) => queue[d] = "pending" /\ retries[d] = 0
  BY SenderAlone
<1>2. \A k \in Passes : ~Working(k, d)'
  BY <1>1 DEF Working
<1>3. TypeOK'
  BY <1>0, TypeParts DEF OtherTypes, PassType, HistoryType
<1>4. LiveTouches(d)
  BY DEF LiveTouches
<1>5. OwnerInv(d)'
  <2>1. live'[d].at \notin {"new", "refused", "enqueued"}
    BY DEF Sending
  <2>2. Holds(d) => d \in claims
    BY DEF QueueInv, DInv, OwnerInv
  <2> QED
    BY <1>1, <1>2, <2>1, <2>2 DEF OwnerInv, Holds, Queued
<1>6. SentInv(d)'
  <2>1. queue'[d] # "acked"
    BY <1>1 DEF Queued
  <2> QED
    BY <1>2, <2>1 DEF SentInv, Queued
<1>7. Move(d)
  <2>1. queue[d] \in {"absent", "pending"}
    BY <1>1 DEF Queued
  <2>2. Fate(d) \in {"owed", "direct"} /\ Fate(d)' = Fate(d)
    BY <2>1 DEF Fate, Sending
  <2>3. Reached(d)' = Reached(d) \/ \E p \in Payloads : Reached(d)' = Reached(d) \cup {p}
    BY DEF Reached
  <2> QED
    BY <2>2, <2>3 DEF Move
<1> QED
  BY <1>3, <1>4, <1>5, <1>6, <1>7, LiveFrame DEF DInv

LEMMA ClaimKeeps ==
    ASSUME QueueInv, NEW d \in Deliveries, Claim(d)
    PROVE  Sound
<1>0. RowType /\ OtherTypes /\ LiveType /\ RowType' /\ OtherRows(d) /\ RowSame(d)
  BY TypeParts, RowKeptType, RowEffects DEF QueueInv, OtherTypes, Claim, row
<1>1. /\ queue[d] = "pending" /\ retries[d] = 0 /\ mark[d] = "none" /\ live[d] = Fresh("enqueued")
      /\ \A p \in Payloads : sent[d][p] = 0
      /\ d \notin firstSent
      /\ d \notin claims => \A k \in Passes : ~Working(k, d)
  BY DEF QueueInv, DInv, OwnerInv, MarkInv, Claim
<1>m. Move(d)
  BY <1>0, <1>1 DEF Move, Fate, Reached, RowSame, Claim
<1>2. CASE d \in claims /\ live' = [live EXCEPT ![d] = Fresh("over")] /\ UNCHANGED claims
  <2>1. LiveType' /\ live'[d] = Fresh("over") /\ LiveIs(d, "over", 1, FALSE, FALSE)
    BY <1>0, <1>2, LiveTypes, LiveEffects DEF LivePhases
  <2>2. TypeOK'
    BY <1>0, <1>2, <2>1, TypeParts DEF OtherTypes, PassType, SentType, HistoryType, history, Claim
  <2>3. LiveTouches(d)
    BY <1>0, <1>2, <2>1 DEF LiveTouches, LiveIs, Claim, history
  <2>4. live'[d].at = "over" /\ ~Sending(d)' /\ WorkSame(d)
    BY <2>1 DEF LiveIs, Sending, WorkSame, Working, Claim
  <2>5. OwnerInv(d)'
    BY <1>0, <1>2, <2>4 DEF QueueInv, DInv, OwnerInv, Holds, RowSame, WorkSame, NeedsReconciling, Claim
  <2>6. MarkInv(d)'
    BY <1>0, <1>1, <2>4 DEF MarkInv, Holds, RowSame, Claim, history
  <2>7. SentInv(d)'
    BY <1>0, <1>1, <2>4 DEF QueueInv, DInv, SentInv, RowSame, WorkSame, Claim, history
  <2> QED
    BY <2>2, <2>3, <2>5, <2>6, <2>7, <1>m, LiveFrame DEF DInv
<1>3. CASE d \notin claims /\ claims' = claims \cup {d} /\ live' = [live EXCEPT ![d].at = "sending"]
  <2>1. LiveType' /\ LiveIs(d, "sending", 1, FALSE, FALSE)
    <3>1. LiveType' /\ LiveIs(d, "sending", live[d].next, live[d].partial, live[d].marked)
      BY <1>0, <1>3, LiveTypes, LiveEffects DEF LivePhases
    <3>2. live[d].next = 1 /\ live[d].partial = FALSE /\ live[d].marked = FALSE
      BY <1>1 DEF Fresh
    <3> QED
      BY <3>1, <3>2
  <2>2. TypeOK'
    BY <1>0, <1>3, <2>1, TypeParts DEF OtherTypes, PassType, SentType, HistoryType, history, Claim
  <2>3. LiveTouches(d)
    BY <1>0, <1>3, <2>1 DEF LiveTouches, LiveIs, Claim, history
  <2>4. /\ live'[d].at = "sending" /\ live'[d].next = 1 /\ live'[d].marked = FALSE
        /\ \A k \in Passes : ~Working(k, d)'
    BY <1>1, <1>3, <2>1 DEF LiveIs, Working, Claim
  <2>5. OwnerInv(d)'
    BY <1>0, <1>1, <1>3, <2>4 DEF OwnerInv, Holds, RowSame
  <2>6. MarkInv(d)'
    BY <1>0, <1>1, <2>4 DEF MarkInv, Holds, Queued, RowSame, Claim, history
  <2>7. SentInv(d)'
    BY <1>0, <1>1, <2>4 DEF SentInv, RowSame
  <2> QED
    BY <2>2, <2>3, <2>5, <2>6, <2>7, <1>m, LiveFrame DEF DInv
<1> QED
  BY <1>2, <1>3 DEF Claim

\* What becomes of the row of a delivery that was aborted.
LEMMA EndAbortedKeeps ==
    ASSUME QueueInv, NEW d \in Deliveries, Sending(d), EndAborted(d),
           d \in aborted' \cup timedOut', UNCHANGED <<pass, sent, firstSent, replayed, crashes>>,
           aborted' \in {aborted, aborted \cup {d}}, timedOut' \in {timedOut, timedOut \cup {d}}
    PROVE  Sound
<1>0. RowType
  BY TypeParts DEF QueueInv
<1>1. CASE AckDelivery(d) /\ Queued(d)
  <2>1. RowType' /\ OtherRows(d) /\ (queue[d] = "pending" => queue'[d] = "acked")
    BY <1>0, <1>1, RowTypes, RowEffects
  <2>2. queue[d] = "pending"
    BY <1>1, SenderAlone
  <2> QED
    BY <2>1, <2>2, LeaveStep DEF EndAborted
<1>2. CASE Fault \/ UNCHANGED <<row, faults>>
  <2>1. RowType' /\ OtherRows(d) /\ RowSame(d)
    BY <1>0, <1>2, RowTypes, RowEffects DEF Fault
  <2> QED
    BY <2>1, LeaveStep DEF EndAborted, RowSame
<1> QED
  BY <1>1, <1>2 DEF EndAborted

LEMMA AbortKeeps ==
    ASSUME QueueInv, NEW d \in Deliveries, Abort(d)
    PROVE  Sound
<1>0. RowType /\ LiveType /\ SentType /\ Sending(d)
  BY TypeParts DEF QueueInv, OtherTypes, Abort, Sending
<1>1. CASE d \notin BestEffort
  BY <1>0, <1>1, EndAbortedKeeps DEF Abort
<1>2. CASE d \in BestEffort
  <2>1. live' = [live EXCEPT ![d].next = PayloadCount + 1, ![d].partial = TRUE]
        /\ UNCHANGED <<row, claims, faults>>
    BY <1>2 DEF Abort
  <2>2. LiveType' /\ LiveIs(d, "sending", PayloadCount + 1, TRUE, live[d].marked)
    BY <1>0, <2>1, LiveTypes, LiveEffects DEF Abort
  <2>3. RowType' /\ OtherRows(d) /\ RowSame(d)
    BY <1>0, <2>1, RowKeptType, RowEffects
  <2>4. SentType' /\ Sending(d)' /\ live'[d].at = "sending"
    BY <1>0, <2>2 DEF SentType, Sending, LiveIs, Abort
  <2>5. MarkInv(d)'
    <3>1. \A p \in Payloads : ~(p >= PayloadCount + 1)
      OBVIOUS
    <3>2. MarkInv(d) /\ \A k \in Passes : ~Working(k, d) /\ ~Working(k, d)'
      BY <1>0, SenderAlone DEF QueueInv, DInv, Abort, Working
    <3> QED
      BY <1>0, <2>2, <2>3, <2>4, <3>1, <3>2 DEF MarkInv, LiveIs, RowSame, NeedsReconciling, Holds,
         Queued, Abort
  <2> QED
    BY <1>0, <2>1, <2>2, <2>3, <2>4, <2>5, StayStep DEF LiveIs, RowSame, Abort
<1> QED
  BY <1>1, <1>2

LEMMA BeginCallKeeps ==
    ASSUME QueueInv, NEW d \in Deliveries, BeginCall(d)
    PROVE  Sound
<1>0. RowType /\ LiveType /\ SentType /\ Sending(d) /\ live[d].at = "sending"
      /\ live[d].next \in Payloads
  BY TypeParts DEF QueueInv, OtherTypes, BeginCall, Sending
<1>w. /\ MarkInv(d) /\ SentInv(d)
      /\ \A k \in Passes : ~Working(k, d) /\ ~Working(k, d)'
  BY <1>0, SenderAlone DEF QueueInv, DInv, BeginCall, Working
<1>s. SentType'
  BY <1>0 DEF SentType, BeginCall
<1>n. live[d].next \in Nat /\ PayloadCount \in Nat
  BY <1>0
<1>1. CASE /\ Queued(d) => live[d].marked \/ d \notin Required
           /\ live' = [live EXCEPT ![d].at = "calling"] /\ (UNCHANGED <<row, faults>> \/ Fault)
  <2>1. LiveType' /\ LiveIs(d, "calling", live[d].next, live[d].partial, live[d].marked)
    BY <1>0, <1>1, LiveTypes, LiveEffects DEF LivePhases
  <2>2. RowType' /\ OtherRows(d) /\ RowSame(d)
    BY <1>0, <1>1, RowTypes, RowEffects DEF Fault
  <2>3. Sending(d)'
    BY <2>1 DEF Sending, LiveIs
  <2>4. MarkInv(d)'
    BY <1>0, <1>w, <1>1, <2>1, <2>2, <2>3
    DEF MarkInv, LiveIs, RowSame, NeedsReconciling, Holds, Queued, BeginCall, history
  <2> QED
    BY <1>0, <1>s, <1>w, <2>1, <2>2, <2>3, <2>4, StayStep
    DEF LiveIs, RowSame, BeginCall, history, SentInv
<1>2. CASE /\ MarkDelivery(d, "send_attempt_started") /\ Queued(d)
           /\ live' = [live EXCEPT ![d].at = "calling", ![d].marked = TRUE]
  <2>1. LiveType' /\ LiveIs(d, "calling", live[d].next, live[d].partial, TRUE)
    BY <1>0, <1>2, LiveTypes, LiveEffects DEF LivePhases
  <2>2. /\ RowType' /\ OtherRows(d) /\ queue'[d] = queue[d] /\ retries'[d] = retries[d]
        /\ mark'[d] = "send_attempt_started"
    BY <1>0, <1>2, RowTypes, RowEffects DEF Marks
  <2>3. Sending(d)'
    BY <2>1 DEF Sending, LiveIs
  <2>4. MarkInv(d)'
    BY <1>0, <1>w, <1>2, <2>1, <2>2, <2>3
    DEF MarkInv, LiveIs, NeedsReconciling, Holds, Queued, BeginCall, history
  <2> QED
    BY <1>0, <1>s, <1>w, <2>1, <2>2, <2>3, <2>4, StayStep
    DEF LiveIs, BeginCall, history, SentInv
<1>3. CASE Fault /\ AfterError(d)
  <2>1. LiveType' /\ IF d \in BestEffort
                     THEN LiveIs(d, "sending", live[d].next + 1, TRUE, live[d].marked)
                     ELSE LiveIs(d, "threw", live[d].next, live[d].partial, live[d].marked)
    BY <1>0, <1>3, LiveTypes, LiveEffects
  <2>2. RowType' /\ OtherRows(d) /\ RowSame(d)
    BY <1>0, <1>3, RowTypes, RowEffects DEF Fault
  <2>3. Sending(d)'
    BY <2>1 DEF Sending, LiveIs
  <2>4. MarkInv(d)'
    BY <1>0, <1>n, <1>w, <2>1, <2>2, <2>3
    DEF MarkInv, LiveIs, RowSame, NeedsReconciling, Holds, Queued, BeginCall, history
  <2> QED
    BY <1>0, <1>s, <1>w, <2>1, <2>2, <2>3, <2>4, StayStep
    DEF LiveIs, RowSame, BeginCall, history
<1> QED
  BY <1>1, <1>2, <1>3, <1>w DEF BeginCall

LEMMA CallKeeps ==
    ASSUME QueueInv, NEW d \in Deliveries, Call(d)
    PROVE  Sound
<1> DEFINE p0 == live[d].next
<1>0. RowType /\ LiveType /\ SentType /\ Sending(d) /\ live[d].at = "calling" /\ p0 \in Payloads
  BY TypeParts DEF QueueInv, OtherTypes, Call, Sending, DInv, SentInv
<1>n. p0 \in Nat /\ PayloadCount \in Nat
  BY <1>0
<1>w. /\ MarkInv(d) /\ SentInv(d)
      /\ \A k \in Passes : ~Working(k, d) /\ ~Working(k, d)'
  BY <1>0, SenderAlone DEF QueueInv, DInv, Call, Working
<1>r. RowType' /\ OtherRows(d) /\ RowSame(d) /\ UNCHANGED <<row, claims, faults, mark>>
  <2>1. UNCHANGED <<row, claims, faults>>
    BY DEF Call
  <2> QED
    BY <1>0, <2>1, RowKeptType, RowEffects DEF row
<1>1. ASSUME FirstLand(d)
      PROVE  /\ SentType' /\ sent'[d][p0] > 0
             /\ \A e \in Deliveries \ {d} : sent'[e] = sent[e]
             /\ \A p \in Payloads \ {p0} : sent'[d][p] = sent[d][p]
             /\ sent[d][p0] = 0 => sent'[d][p0] = 1
             /\ firstSent' = firstSent \cup ({d} \cap Required)
  <2>1. Land(d, p0) /\ firstSent' = firstSent \cup ({d} \cap Required)
    BY <1>1 DEF FirstLand
  <2>2. SentType'
    BY <1>0, <2>1, LandType
  <2>3. sent[d][p0] \in 0..2
    BY <1>0 DEF SentType
  <2> QED
    BY <1>0, <2>1, <2>2, <2>3 DEF Land, SentType
<1>2. ASSUME NEW at \in {"sending", "threw", "timedOut"}, NEW partial \in BOOLEAN,
             LiveType', live'[d].at = at, live'[d].partial = partial, live'[d].marked = live[d].marked,
             \A e \in Deliveries \ {d} : live'[e] = live[e],
             at = "sending" => live'[d].next = p0 + 1,
             \/ FirstLand(d) /\ (~partial => ~live[d].partial)
             \/ UNCHANGED <<sent, firstSent>> /\ (at = "sending" => partial)
      PROVE  Sound
  <2>1. Sending(d)'
    BY <1>2 DEF Sending
  <2>2. /\ SentType' /\ \A e \in Deliveries \ {d} : sent'[e] = sent[e]
        /\ firstSent' \in {firstSent, firstSent \cup ({d} \cap Required)}
    BY <1>0, <1>1, <1>2 DEF SentType
  <2>3. ASSUME at = "sending", ~partial, NEW p \in Payloads, p < live'[d].next
        PROVE  sent'[d][p] > 0
    <3>1. FirstLand(d) /\ ~live[d].partial
      BY <1>2, <2>3
    <3>2. p < p0 \/ p = p0
      BY <1>n, <1>2, <2>3
    <3> QED
      BY <1>0, <1>1, <1>w, <3>1, <3>2 DEF SentInv
  <2>k. /\ Queued(d)' <=> Queued(d)
        /\ live'[d].at = at /\ live'[d].marked = live[d].marked
        /\ NeedsReconciling(d)' <=> NeedsReconciling(d)
        /\ Holds(d)' <=> Holds(d)
        /\ Holds(d) /\ live[d].marked => NeedsReconciling(d)
    BY <1>0, <1>2, <1>r, <1>w, <2>1
    DEF RowSame, NeedsReconciling, Holds, Queued, MarkInv
  <2>4. ASSUME d \in Required PROVE MarkInv(d)'
    <3>1. live[d].marked /\ Queued(d)
      BY <1>0, <1>w, <2>4 DEF MarkInv
    <3>2. /\ \A p \in Payloads : sent[d][p] <= 1
          /\ \A p \in Payloads : p >= p0 => sent[d][p] = 0
      BY <1>0, <1>w, <2>4 DEF MarkInv
    <3>3. sent[d][p0] = 0
      BY <1>0, <1>n, <3>2
    <3>4. ASSUME NEW p \in Payloads
          PROVE  sent'[d][p] <= 1 /\ (p >= p0 + 1 => sent'[d][p] = 0)
      <4>1. CASE FirstLand(d) /\ p = p0
        BY <1>n, <1>1, <3>3, <4>1
      <4>2. CASE FirstLand(d) /\ p # p0
        <5>1. sent'[d][p] = sent[d][p]
          BY <1>1, <4>2
        <5> QED
          BY <1>n, <3>2, <5>1
      <4>3. CASE UNCHANGED <<sent, firstSent>>
        <5>1. sent'[d][p] = sent[d][p]
          BY <4>3
        <5> QED
          BY <1>n, <3>2, <5>1
      <4> QED
        BY <1>2, <4>1, <4>2, <4>3
    <3>5. d \in firstSent' => \E p \in Payloads : sent'[d][p] > 0
      <4>1. CASE FirstLand(d)
        BY <1>0, <1>1, <4>1
      <4>2. CASE UNCHANGED <<sent, firstSent>>
        BY <1>w, <4>2 DEF MarkInv
      <4> QED
        BY <1>2, <4>1, <4>2
    <3> QED
      <4>1. live'[d].at # "calling" /\ NeedsReconciling(d)'
        BY <1>0, <2>k, <3>1 DEF Holds
      <4>2. at = "sending" => live'[d].next = p0 + 1
        BY <1>2
      <4> QED
        BY <1>w, <2>k, <3>1, <3>4, <3>5, <4>1, <4>2 DEF MarkInv
  <2>5. ASSUME d \notin Required PROVE MarkInv(d)'
    <3>1. d \notin firstSent'
      BY <2>2, <2>5, TypeParts DEF QueueInv, OtherTypes, HistoryType
    <3> QED
      BY <2>k, <2>5, <3>1 DEF MarkInv
  <2>6. MarkInv(d)'
    BY <2>4, <2>5
  <2>7. sent'[d] = sent[d] \/ \E p \in Payloads : Reached(d)' = Reached(d) \cup {p}
    <3>1. ASSUME FirstLand(d) PROVE Reached(d)' = Reached(d) \cup {p0}
      BY <1>0, <1>1, <3>1 DEF Reached
    <3> QED
      BY <1>0, <1>2, <3>1
  <2> QED
    BY <1>0, <1>2, <1>r, <2>1, <2>2, <2>3, <2>6, <2>7, StayStep DEF RowSame, Call
<1>3. CASE FirstLand(d) /\ live' = [live EXCEPT ![d].at = "sending", ![d].next = @ + 1]
  <2>1. LiveType' /\ LiveIs(d, "sending", p0 + 1, live[d].partial, live[d].marked)
    BY <1>0, <1>3, LiveTypes, LiveEffects DEF LivePhases
  <2>2. live[d].partial \in BOOLEAN
    BY <1>0 DEF LiveType, LiveStates
  <2> QED
    BY <1>2, <1>3, <2>1, <2>2 DEF LiveIs
<1>4. CASE (FirstLand(d) \/ UNCHANGED <<sent, firstSent>>) /\ AfterError(d)
  <2>1. LiveType' /\ IF d \in BestEffort
                     THEN LiveIs(d, "sending", p0 + 1, TRUE, live[d].marked)
                     ELSE LiveIs(d, "threw", p0, live[d].partial, live[d].marked)
    BY <1>0, <1>4, LiveTypes, LiveEffects
  <2>2. live[d].partial \in BOOLEAN
    BY <1>0 DEF LiveType, LiveStates
  <2>3. CASE d \in BestEffort
    BY <1>2, <1>4, <2>1, <2>3 DEF LiveIs
  <2>4. CASE d \notin BestEffort
    BY <1>2, <1>4, <2>1, <2>2, <2>4 DEF LiveIs
  <2> QED
    BY <2>3, <2>4
<1>5. CASE /\ FirstLand(d) \/ UNCHANGED <<sent, firstSent>>
           /\ live' = [live EXCEPT ![d].at = "timedOut"]
  <2>1. LiveType' /\ LiveIs(d, "timedOut", p0, live[d].partial, live[d].marked)
    BY <1>0, <1>5, LiveTypes, LiveEffects DEF LivePhases
  <2>2. live[d].partial \in BOOLEAN
    BY <1>0 DEF LiveType, LiveStates
  <2> QED
    BY <1>2, <1>5, <2>1, <2>2 DEF LiveIs
<1> QED
  BY <1>3, <1>4, <1>5 DEF Call

LEMMA TimeOutKeeps ==
    ASSUME QueueInv, NEW d \in Deliveries, TimeOut(d)
    PROVE  Sound
BY EndAbortedKeeps DEF TimeOut, Sending

LEMMA ThrowKeeps ==
    ASSUME QueueInv, NEW d \in Deliveries, Throw(d)
    PROVE  Sound
<1>0. RowType /\ Sending(d) /\ Leave(d)
  BY TypeParts DEF QueueInv, Throw, Sending
<1>1. MaxRetries > 0 /\ (Queued(d) => retries[d] < MaxRetries)
  BY <1>0, SenderAlone
<1>2. RowType' /\ OtherRows(d) /\ queue'[d] = queue[d] /\ mark'[d] = mark[d]
  BY <1>0, <1>1, RowTypes, RowEffects DEF Throw, RowSame
<1> QED
  BY <1>0, <1>2, LeaveStep DEF Throw, history

LEMMA AckKeeps ==
    ASSUME QueueInv, NEW d \in Deliveries, Ack(d)
    PROVE  Sound
<1>0. RowType /\ Sending(d) /\ Leave(d) /\ UNCHANGED <<pass, sent, history, crashes>>
  BY TypeParts DEF QueueInv, Ack, Sending
<1>1. CASE AckDelivery(d) /\ Queued(d)
  <2>1. queue[d] = "pending" /\ \A p \in Payloads : sent[d][p] > 0
    BY <1>0, <1>1, SenderAlone DEF QueueInv, DInv, SentInv, Ack
  <2>2. RowType' /\ OtherRows(d) /\ queue'[d] = "acked"
    BY <1>0, <1>1, <2>1, RowTypes, RowEffects
  <2> QED
    BY <1>0, <2>1, <2>2, LeaveStep DEF history
<1>2. CASE Fault \/ UNCHANGED <<row, faults>>
  <2>1. RowType' /\ OtherRows(d) /\ RowSame(d)
    BY <1>0, <1>2, RowTypes, RowEffects DEF Fault
  <2> QED
    BY <1>0, <2>1, LeaveStep DEF RowSame, history
<1> QED
  BY <1>1, <1>2 DEF Ack

LEMMA ReturnKeeps ==
    ASSUME QueueInv, NEW d \in Deliveries, Return(d)
    PROVE  Sound
<1>0. RowType /\ LiveType /\ SentType /\ Sending(d) /\ live[d].at = "sending"
  BY TypeParts DEF QueueInv, OtherTypes, Return, Sending
<1>w. /\ MarkInv(d) /\ SentInv(d)
      /\ \A k \in Passes : ~Working(k, d) /\ ~Working(k, d)'
      /\ UNCHANGED <<pass, sent, history, crashes>>
  BY <1>0, SenderAlone DEF QueueInv, DInv, Return, Working
<1>a. \A p \in Payloads : p < live[d].next
  BY <1>0 DEF Return, LiveType, LiveStates
<1>1. CASE /\ live' = [live EXCEPT ![d].at = "acking"] /\ UNCHANGED claims
           /\ RowType' /\ OtherRows(d) /\ queue'[d] = queue[d] /\ retries'[d] = retries[d]
           /\ mark'[d] \in {mark[d], "unknown_after_send"}
           /\ Queued(d) => ~live[d].partial
  <2>1. LiveType' /\ LiveIs(d, "acking", live[d].next, live[d].partial, live[d].marked)
    BY <1>0, <1>1, LiveTypes, LiveEffects DEF LivePhases
  <2>2. Sending(d)' /\ SentType'
    BY <1>0, <1>w, <2>1 DEF Sending, LiveIs, SentType
  <2>3. MarkInv(d)'
    BY <1>0, <1>w, <1>1, <2>1, <2>2
    DEF MarkInv, LiveIs, NeedsReconciling, Holds, Queued, history
  <2>4. Queued(d) => \A p \in Payloads : sent[d][p] > 0
    BY <1>0, <1>w, <1>a, <1>1 DEF SentInv
  <2> QED
    BY <1>0, <1>w, <1>1, <2>1, <2>2, <2>3, <2>4, StayStep DEF LiveIs, history
<1>2. CASE /\ Leave(d) /\ RowType' /\ OtherRows(d)
           /\ queue'[d] = queue[d] /\ mark'[d] = mark[d]
  BY <1>0, <1>w, <1>2, LeaveStep DEF history
<1>3. CASE /\ UNCHANGED <<row, faults>> /\ (Queued(d) => ~live[d].partial)
           /\ live' = [live EXCEPT ![d].at = "acking"] /\ UNCHANGED claims
  <2>1. RowType' /\ OtherRows(d) /\ RowSame(d)
    BY <1>0, <1>3, RowKeptType, RowEffects
  <2> QED
    BY <1>1, <1>3, <2>1 DEF RowSame
<1>4. CASE Queued(d) /\ FailDelivery(d) /\ Leave(d)
  <2>1. retries[d] < MaxRetries
    BY <1>0, <1>4, SenderAlone
  <2> QED
    BY <1>0, <1>2, <1>4, <2>1, RowTypes, RowEffects
<1>5. CASE MarkDelivery(d, "unknown_after_send") /\ ~live[d].partial
           /\ live' = [live EXCEPT ![d].at = "acking"] /\ UNCHANGED claims
  BY <1>0, <1>1, <1>5, RowTypes, RowEffects DEF Marks
<1>6. CASE /\ Fault /\ ~live[d].partial
           /\ \/ Leave(d)
              \/ live' = [live EXCEPT ![d].at = "acking"] /\ UNCHANGED claims
  <2>1. RowType' /\ OtherRows(d) /\ RowSame(d)
    BY <1>0, <1>6, RowTypes, RowEffects DEF Fault
  <2> QED
    BY <1>1, <1>2, <1>6, <2>1 DEF RowSame
<1>7. CASE ~Queued(d)
  BY <1>3, <1>7 DEF Return
<1>8. CASE Queued(d) /\ live[d].partial
  BY <1>4, <1>8 DEF Return
<1>9. CASE Queued(d) /\ ~live[d].partial
  BY <1>3, <1>5, <1>6, <1>9 DEF Return
<1> QED
  BY <1>7, <1>8, <1>9

LEMMA BackoffKeeps ==
    ASSUME QueueInv, NEW d \in Deliveries, BackoffElapses(d)
    PROVE  Sound
<1>0. RowType /\ OtherTypes
  BY TypeParts DEF QueueInv
<1>1. TypeOK' /\ LiveTouches(d) /\ Same(d)
  BY <1>0, TypeParts
  DEF BackoffElapses, RowType, OtherTypes, LiveType, PassType, SentType, HistoryType, history,
      LiveTouches, OtherRows, RowSame, Queued, Same, WorkSame, Working
<1>2. DInv(d)'
  BY <1>1, SameKeeps DEF QueueInv
<1>3. Move(d)
  BY <1>1, SameFate DEF Move
<1> QED
  BY <1>1, <1>2, <1>3, LiveFrame

-----------------------------------------------------------------------------
(* The steps of a pass.                                                    *)

\* A pass that works on nothing, before and after.
LEMMA RestStep ==
    ASSUME QueueInv, NEW k \in Passes, UNCHANGED <<row, claims, live, sent, history, crashes>>,
           RowType', PassType', \A l \in Passes \ {k} : pass'[l] = pass[l],
           pass[k].at \notin {"reconcile", "replay"}, pass'[k].at \notin {"reconcile", "replay"},
           \A d \in pass'[k].todo : queue[d] # "absent"
    PROVE  Sound
<1>0. RowType /\ OtherTypes
  BY TypeParts DEF QueueInv
<1>1. TypeOK'
  BY <1>0, TypeParts DEF OtherTypes, LiveType, SentType, HistoryType, history
<1>2. ASSUME NEW d \in Deliveries
      PROVE  DInv(d)' /\ Fate(d)' = Fate(d) /\ Reached(d)' = Reached(d)
  <2>1. RowSame(d) /\ WorkSame(d)
    BY DEF row, RowSame, WorkSame, Working
  <2>2. Same(d)
    BY <2>1 DEF Same, history
  <2> QED
    BY <2>2, SameKeeps, SameFate DEF QueueInv
<1>3. ASSUME NEW l \in Passes PROVE PassInv(l)'
  BY DEF QueueInv, PassInv, row
<1> QED
  BY <1>1, <1>2, <1>3, StayRefines DEF Sound, QueueInv

LEMMA PassEffects ==
    ASSUME PassType, NEW k \in Passes
    PROVE  /\ \A x \in PassStates : pass' = [pass EXCEPT ![k] = x] =>
                pass'[k] = x /\ \A l \in Passes \ {k} : pass'[l] = pass[l]
           /\ Release(k) =>
                /\ pass'[k].at = "scan" /\ pass'[k].todo = pass[k].todo
                /\ \A l \in Passes \ {k} : pass'[l] = pass[l]
           /\ \A D \in SUBSET Deliveries : pass' = [pass EXCEPT ![k].todo = D] =>
                /\ pass'[k].at = pass[k].at /\ pass'[k].todo = D
                /\ \A l \in Passes \ {k} : pass'[l] = pass[l]
           /\ \A a \in PassPhases : pass' = [pass EXCEPT ![k].at = a] =>
                /\ pass'[k] = [pass[k] EXCEPT !.at = a]
                /\ \A l \in Passes \ {k} : pass'[l] = pass[l]
           /\ pass' = [pass EXCEPT ![k].next = @ + 1] =>
                /\ pass'[k].at = pass[k].at /\ pass'[k].todo = pass[k].todo
                /\ pass'[k].entry = pass[k].entry /\ pass'[k].next = pass[k].next + 1
                /\ \A l \in Passes \ {k} : pass'[l] = pass[l]
<1>0. pass[k] \in PassStates
  BY DEF PassType
<1>1. \A x \in PassStates : pass' = [pass EXCEPT ![k] = x] =>
        pass'[k] = x /\ \A l \in Passes \ {k} : pass'[l] = pass[l]
  BY DEF PassType
<1>2. ASSUME Release(k)
      PROVE  /\ pass'[k].at = "scan" /\ pass'[k].todo = pass[k].todo
             /\ \A l \in Passes \ {k} : pass'[l] = pass[l]
  BY <1>0, <1>2 DEF PassType, PassStates, Release
<1>3. ASSUME NEW D \in SUBSET Deliveries, pass' = [pass EXCEPT ![k].todo = D]
      PROVE  /\ pass'[k].at = pass[k].at /\ pass'[k].todo = D
             /\ \A l \in Passes \ {k} : pass'[l] = pass[l]
  BY <1>0, <1>3 DEF PassType, PassStates
<1>4. ASSUME NEW a \in PassPhases, pass' = [pass EXCEPT ![k].at = a]
      PROVE  pass'[k] = [pass[k] EXCEPT !.at = a] /\ \A l \in Passes \ {k} : pass'[l] = pass[l]
  BY <1>4 DEF PassType
<1>5. ASSUME pass' = [pass EXCEPT ![k].next = @ + 1]
      PROVE  /\ pass'[k].at = pass[k].at /\ pass'[k].todo = pass[k].todo
             /\ pass'[k].entry = pass[k].entry /\ pass'[k].next = pass[k].next + 1
             /\ \A l \in Passes \ {k} : pass'[l] = pass[l]
  BY <1>0, <1>5 DEF PassType, PassStates
<1> QED
  BY <1>1, <1>2, <1>3, <1>4, <1>5

LEMMA RestingIs ==
    ASSUME NEW k \in Passes
    PROVE  /\ Resting(k) \in PassStates /\ Resting(k).todo = {}
           /\ Resting(k).at \notin {"reconcile", "replay"}
BY DEF Resting, PassStates, PassPhases

\* A pass that ends.
LEMMA ToRestStep ==
    ASSUME QueueInv, NEW k \in Passes, pass[k].at \notin {"reconcile", "replay"}, RowType',
           UNCHANGED <<row, claims, live, sent, history, crashes>>,
           pass' = [pass EXCEPT ![k] = Resting(k)]
    PROVE  Sound
<1>0. PassType
  BY TypeParts DEF QueueInv, OtherTypes
<1>1. PassType' /\ pass'[k] = Resting(k) /\ \A l \in Passes \ {k} : pass'[l] = pass[l]
  BY <1>0, RestingIs, PassTypes, PassEffects
<1>2. pass'[k].at \notin {"reconcile", "replay"} /\ pass'[k].todo = {}
  BY <1>1, RestingIs
<1> QED
  BY <1>1, <1>2, RestStep

LEMMA StartPassKeeps ==
    ASSUME QueueInv, NEW k \in Passes, StartPass(k)
    PROVE  Sound
<1> DEFINE matching == {d \in Matches[k] : queue[d] = "pending"}
<1>0. /\ RowType /\ PassType /\ pass[k] \in PassStates /\ RowType'
      /\ UNCHANGED <<row, claims, live, sent, history, crashes>>
  BY TypeParts, RowKeptType DEF QueueInv, OtherTypes, PassType, StartPass
<1>1. CASE pass' = [pass EXCEPT ![k] = Resting(k)]
  BY <1>0, <1>1, ToRestStep DEF StartPass
<1>2. CASE pass' = [pass EXCEPT ![k].at = "scan", ![k].todo = matching]
  <2>1. matching \in SUBSET Deliveries
    OBVIOUS
  <2>2. PassType'
    BY <1>0, <1>2, <2>1, PassTypes
  <2>3. pass'[k].at = "scan" /\ pass'[k].todo = matching
    BY <1>0, <1>2 DEF PassType, PassStates
  <2>4. \A l \in Passes \ {k} : pass'[l] = pass[l]
    BY <1>0, <1>2 DEF PassType
  <2> QED
    BY <1>0, <2>2, <2>3, <2>4, RestStep DEF StartPass
<1> QED
  BY <1>1, <1>2 DEF StartPass

LEMMA EndPassKeeps ==
    ASSUME QueueInv, NEW k \in Passes, EndPass(k)
    PROVE  Sound
<1>1. RowType' /\ UNCHANGED <<row, claims, live, sent, history, crashes>>
  BY TypeParts, RowKeptType DEF QueueInv, EndPass
<1> QED
  BY <1>1, ToRestStep DEF EndPass

\* A pass that goes on to the next entry.
LEMMA NextEntryStep ==
    ASSUME QueueInv, NEW k \in Passes, NEW d \in Deliveries, pass[k].at = "scan", RowType',
           UNCHANGED <<row, claims, live, sent, history, crashes>>,
           pass' = [pass EXCEPT ![k].todo = pass[k].todo \ {d}]
    PROVE  Sound
<1>0. PassType /\ pass[k].todo \subseteq Deliveries
  <2>1. PassType
    BY TypeParts DEF QueueInv, OtherTypes
  <2> QED
    BY <2>1 DEF PassType, PassStates
<1>1. \A e \in pass[k].todo : queue[e] # "absent"
  BY DEF QueueInv, PassInv
<1>2. /\ PassType' /\ pass'[k].at = "scan" /\ pass'[k].todo = pass[k].todo \ {d}
      /\ \A l \in Passes \ {k} : pass'[l] = pass[l]
  <2> DEFINE D == pass[k].todo \ {d}
  <2>1. D \in SUBSET Deliveries /\ pass' = [pass EXCEPT ![k].todo = D]
    BY <1>0
  <2> HIDE DEF D
  <2>2. /\ PassType' /\ pass'[k].at = "scan" /\ pass'[k].todo = D
        /\ \A l \in Passes \ {k} : pass'[l] = pass[l]
    <3>1. PassType'
      BY <1>0, <2>1, PassTypes
    <3>2. pass'[k].at = "scan" /\ pass'[k].todo = D /\ \A l \in Passes \ {k} : pass'[l] = pass[l]
      BY <1>0, <2>1, PassEffects
    <3> QED
      BY <3>1, <3>2
  <2> QED
    BY <2>2 DEF D
<1>3. /\ pass'[k].at \notin {"reconcile", "replay"} /\ pass[k].at \notin {"reconcile", "replay"}
      /\ \A e \in pass'[k].todo : queue[e] # "absent"
  BY <1>1, <1>2
<1> QED
  BY <1>2, <1>3, RestStep

LEMMA SkipKeeps ==
    ASSUME QueueInv, NEW k \in Passes, NEW d \in Deliveries, Skip(k, d)
    PROVE  Sound
<1>1. /\ RowType' /\ UNCHANGED <<row, claims, live, sent, history, crashes>>
      /\ pass' = [pass EXCEPT ![k].todo = pass[k].todo \ {d}]
  BY TypeParts, RowKeptType DEF QueueInv, Skip
<1> QED
  BY <1>1, NextEntryStep DEF Skip

\* A pending row that nobody has claimed, and whose sender is gone or to come.
LEMMA UnclaimedIs ==
    ASSUME QueueInv, NEW d \in Deliveries, d \notin claims, queue[d] = "pending"
    PROVE  /\ ~Sending(d) /\ live[d].at \in {"enqueued", "over"}
           /\ \A l \in Passes : ~Working(l, d)
           /\ live[d].at = "enqueued" => retries[d] = 0
<1>1. ~Sending(d) /\ (live[d].at = "enqueued" => retries[d] = 0) /\ \A l \in Passes : ~Working(l, d)
  BY DEF QueueInv, DInv, OwnerInv, Holds, Queued
<1>2. live[d].at \in LivePhases
  BY DEF QueueInv, TypeOK, LiveStates
<1>3. live[d].at \notin {"new", "refused"}
  BY DEF QueueInv, DInv, OwnerInv
<1> QED
  BY <1>1, <1>2, <1>3 DEF Sending, LivePhases

LEMMA RetireKeeps ==
    ASSUME QueueInv, NEW k \in Passes, NEW d \in Deliveries, Retire(k, d)
    PROVE  Sound
<1>0. RowType /\ OtherTypes /\ PassType /\ pass[k].at = "scan"
      /\ UNCHANGED <<claims, live, sent, history, crashes>>
  BY TypeParts DEF QueueInv, OtherTypes, Retire
<1>d. pass[k].todo \subseteq Deliveries
  BY <1>0 DEF PassType, PassStates
<1> DEFINE D == pass[k].todo \ {d}
<1>t. D \in SUBSET Deliveries
  BY <1>d
<1>a. \A e \in pass[k].todo : queue[e] # "absent"
  BY DEF QueueInv, PassInv
<1>1. CASE Fault /\ pass' = [pass EXCEPT ![k] = [pass[k] EXCEPT !.todo = D]]
  <2>1. pass' = [pass EXCEPT ![k].todo = D]
    BY <1>1
  <2>2. RowType' /\ UNCHANGED row
    BY <1>0, <1>1, RowTypes DEF Fault
  <2> QED
    BY <1>0, <2>1, <2>2, NextEntryStep
<1>2. CASE Fault /\ pass' = [pass EXCEPT ![k] = Resting(k)]
  <2>1. RowType' /\ UNCHANGED row
    BY <1>0, <1>2, RowTypes DEF Fault
  <2> QED
    BY <1>0, <1>2, <2>1, ToRestStep
<1>3. CASE MoveToFailed(d) /\ pass' = [pass EXCEPT ![k].todo = D]
  <2>1. RowType' /\ OtherRows(d) /\ queue[d] = "pending" /\ queue'[d] = "failed"
    BY <1>0, <1>3, RowTypes, RowEffects
  <2>2. PassType'
    BY <1>0, <1>t, <1>3, PassTypes
  <2>3. pass'[k].at = "scan" /\ pass'[k].todo = D /\ \A l \in Passes \ {k} : pass'[l] = pass[l]
    BY <1>0, <1>t, <1>3, PassEffects
  <2>4. TypeOK'
    BY <1>0, <2>1, <2>2, TypeParts DEF OtherTypes, LiveType, SentType, HistoryType, history
  <2>5. live[d].at = "over" /\ ~Sending(d) /\ \A l \in Passes : ~Working(l, d)
    <3>1. d \notin claims /\ retries[d] >= MaxRetries
      BY DEF Retire, Exhausted
    <3>2. retries[d] # 0
      BY <3>1
    <3> QED
      BY <2>1, <3>1, <3>2, UnclaimedIs
  <2>6. Move(d)
    BY <1>0, <2>1 DEF Move, Fate, Reached, history
  <2>7. ASSUME NEW e \in Deliveries \ {d}
        PROVE  DInv(e)' /\ Fate(e)' = Fate(e) /\ Reached(e)' = Reached(e)
    <3>1. WorkSame(e)
      BY <1>0, <2>3 DEF WorkSame, Working
    <3>2. Same(e)
      BY <1>0, <2>1, <3>1 DEF Same, OtherRows, history
    <3> QED
      BY <3>2, SameKeeps, SameFate DEF QueueInv
  <2>8. DInv(d)'
    <3>1. \A l \in Passes : ~Working(l, d)'
      BY <2>5, <1>0, <2>3 DEF Working
    <3>2. live'[d].at = "over" /\ ~Holds(d)' /\ ~Sending(d)'
      BY <1>0, <2>5 DEF Holds, Sending
    <3>3. OwnerInv(d)'
      BY <3>1, <3>2 DEF OwnerInv
    <3>4. MarkInv(d)'
      BY <1>0, <2>1, <3>1, <3>2 DEF MarkInv, QueueInv, DInv, history
    <3>5. SentInv(d)'
      BY <2>1, <3>1, <3>2 DEF SentInv
    <3> QED
      BY <3>3, <3>4, <3>5 DEF DInv
  <2>9. ASSUME NEW l \in Passes PROVE PassInv(l)'
    <3>1. pass'[l].todo \subseteq pass[l].todo /\ pass[l].todo \subseteq Deliveries
      BY <1>0, <2>3 DEF PassType, PassStates
    <3>2. pass'[l].at \in {"reconcile", "replay"} => l # k
      BY <2>3
    <3> QED
      BY <2>1, <2>3, <3>1, <3>2 DEF QueueInv, PassInv, OtherRows, Queued
  <2> QED
    BY <2>4, <2>6, <2>7, <2>8, <2>9, MoveRefines DEF Sound, QueueInv
<1> QED
  BY <1>1, <1>2, <1>3 DEF Retire

LEMMA TakeKeeps ==
    ASSUME QueueInv, NEW k \in Passes, NEW d \in Deliveries, Take(k, d)
    PROVE  Sound
<1> DEFINE x == [at |-> IF NeedsReconciling(d) THEN "reconcile" ELSE "replay",
                 todo |-> pass[k].todo \ {d}, entry |-> d, next |-> 1]
<1>0. /\ RowType /\ OtherTypes /\ PassType /\ pass[k].at = "scan" /\ d \notin claims
      /\ queue[d] = "pending" /\ retries[d] < MaxRetries
      /\ claims' = claims \cup {d} /\ pass' = [pass EXCEPT ![k] = x]
      /\ UNCHANGED <<row, live, sent, history, crashes, faults>>
  <2>1. RowType /\ OtherTypes /\ PassType
    BY TypeParts DEF QueueInv, OtherTypes
  <2>2. ~(retries[d] >= MaxRetries) => retries[d] < MaxRetries
    BY <2>1 DEF RowType
  <2> QED
    BY <2>1, <2>2 DEF Take, StillPending, Exhausted
<1>1. pass[k].todo \subseteq Deliveries /\ \A e \in pass[k].todo : queue[e] # "absent"
  BY <1>0 DEF PassType, PassStates, QueueInv, PassInv
<1>2. PassType' /\ pass'[k] = x /\ \A l \in Passes \ {k} : pass'[l] = pass[l]
  <2>1. pass[k].todo \ {d} \in SUBSET Deliveries /\ x.at \in PassPhases
    BY <1>1 DEF PassPhases
  <2>2. PassType'
    BY <1>0, <2>1, PassTypes DEF PassPhases
  <2> QED
    BY <1>0, <2>2 DEF PassType
<1>3. /\ pass'[k].at = IF NeedsReconciling(d) THEN "reconcile" ELSE "replay"
      /\ pass'[k].todo = pass[k].todo \ {d} /\ pass'[k].entry = d /\ pass'[k].next = 1
  BY <1>2
<1>4. ~Sending(d) /\ \A l \in Passes : ~Working(l, d)
  BY <1>0, UnclaimedIs
<1>5. RowType' /\ OtherRows(d) /\ RowSame(d)
  BY <1>0, RowKeptType, RowEffects
<1>6. TypeOK'
  BY <1>0, <1>2, <1>5, TypeParts DEF OtherTypes, LiveType, SentType, HistoryType, history
<1>7. PassTouches(k, d)
  BY <1>0, <1>2, <1>3, <1>5 DEF PassTouches, Working, history
<1>8. PassInv(k)'
  BY <1>0, <1>1, <1>3 DEF PassInv, row
<1>9. /\ Working(k, d)' /\ \A l \in Passes \ {k} : ~Working(l, d)'
      /\ ~Sending(d)' /\ live'[d] = live[d] /\ (NeedsReconciling(d)' <=> NeedsReconciling(d))
  BY <1>0, <1>2, <1>3, <1>4, <1>5 DEF Working, Sending, NeedsReconciling, RowSame
<1>10. OwnerInv(d)'
  <2>1. d \in claims' /\ RowSame(d) /\ ~Holds(d)'
    BY <1>0, <1>5, <1>9 DEF Holds
  <2>2. OwnerInv(d)
    BY DEF QueueInv, DInv
  <2>3. /\ live'[d].at = live[d].at /\ Fresh(live'[d].at) = Fresh(live[d].at)
        /\ sent' = sent /\ live'[d].at \notin {"new", "refused"}
    BY <1>0, <1>9, <2>2 DEF history, OwnerInv
  <2>4. ASSUME NEW l \in Passes, Working(l, d)' PROVE l = k
    BY <1>9, <2>4
  <2> QED
    BY <1>0, <1>3, <1>9, <2>1, <2>2, <2>3, <2>4 DEF OwnerInv, RowSame
<1>11. MarkInv(d)'
  <2>1. MarkInv(d) /\ (d \in firstSent => NeedsReconciling(d))
    BY <1>0 DEF QueueInv, DInv, MarkInv
  <2>2. /\ ~Holds(d)' /\ sent' = sent /\ firstSent' = firstSent
        /\ \A l \in Passes : Working(l, d)' => l = k
    BY <1>0, <1>9 DEF Holds, history
  <2>3. pass'[k].at = "replay" => ~NeedsReconciling(d)
    BY <1>3
  <2> QED
    BY <1>9, <2>1, <2>2, <2>3 DEF MarkInv
<1>12. SentInv(d)'
  <2>1. \A p \in Payloads : ~(p < 1)
    OBVIOUS
  <2> QED
    BY <1>0, <1>3, <1>5, <1>9, <2>1 DEF QueueInv, DInv, SentInv, Queued, RowSame, history
<1>13. Move(d)
  BY <1>0, <1>5 DEF Move, Fate, Reached, RowSame, history
<1> QED
  BY <1>6, <1>7, <1>8, <1>10, <1>11, <1>12, <1>13, PassFrame DEF DInv

\* A pass at work is alone with a row that its first sender has left.
LEMMA WorkerIs ==
    ASSUME QueueInv, NEW k \in Passes, pass[k].at \in {"reconcile", "replay"},
           NEW d, d = pass[k].entry
    PROVE  /\ d \in Deliveries /\ Working(k, d) /\ \A l \in Passes \ {k} : ~Working(l, d)
           /\ d \in claims /\ queue[d] = "pending" /\ retries[d] < MaxRetries
           /\ live[d].at \in {"enqueued", "over"}
           /\ live[d].at = "enqueued" => pass[k].at = "replay" /\ pass[k].next = 1
<1>1. d \in Deliveries /\ Working(k, d)
  BY DEF QueueInv, PassInv, Working
<1>2. /\ \A l \in Passes \ {k} : ~Working(l, d)
      /\ d \in claims /\ queue[d] = "pending" /\ retries[d] < MaxRetries /\ ~Sending(d)
      /\ live[d].at = "enqueued" => pass[k].next = 1 /\ mark[d] = "none"
      /\ pass[k].at = "reconcile" => NeedsReconciling(d)
      /\ live[d].at \notin {"new", "refused"}
  BY <1>1 DEF QueueInv, DInv, OwnerInv
<1>3. live[d].at \in LivePhases
  BY <1>1 DEF QueueInv, TypeOK, LiveStates
<1> QED
  BY <1>1, <1>2, <1>3 DEF Sending, LivePhases, NeedsReconciling

\* A pass that is done with its entry.
LEMMA ReleaseStep ==
    ASSUME QueueInv, NEW k \in Passes, pass[k].at \in {"reconcile", "replay"},
           NEW d, d = pass[k].entry, live[d].at = "over", Release(k), RowType', OtherRows(d),
           SentType', \A e \in Deliveries \ {d} : sent'[e] = sent[e],
           UNCHANGED <<live, aborted, timedOut, firstSent, crashes>>,
           replayed' \in {replayed, replayed \cup ({d} \cap BestEffort)},
           d \in firstSent => sent'[d] = sent[d],
           \/ /\ queue'[d] = queue[d] /\ mark'[d] = mark[d]
              /\ sent'[d] = sent[d] \/ \E p \in Payloads : Reached(d)' = Reached(d) \cup {p}
           \/ queue'[d] = "failed" /\ sent'[d] = sent[d]
           \/ /\ queue'[d] = "acked" /\ sent'[d] = sent[d]
              /\ (d \in BestEffort /\ d \in replayed') \/ \A p \in Payloads : sent'[d][p] > 0
    PROVE  Sound
<1>0. RowType /\ OtherTypes /\ PassType
  BY TypeParts DEF QueueInv, OtherTypes
<1>1. /\ d \in Deliveries /\ Working(k, d) /\ queue[d] = "pending"
      /\ \A l \in Passes \ {k} : ~Working(l, d)
  BY WorkerIs
<1>2. PassType' /\ pass'[k].at = "scan" /\ pass'[k].todo = pass[k].todo
      /\ \A l \in Passes \ {k} : pass'[l] = pass[l]
  BY <1>0, PassTypes, PassEffects
<1>3. claims' = claims \ {d}
  BY DEF Release
<1>4. TypeOK'
  BY <1>0, <1>2, <1>3, TypeParts DEF OtherTypes, LiveType, HistoryType
<1>5. PassTouches(k, d)
  BY <1>1, <1>2, <1>3 DEF PassTouches, Working
<1>6. PassInv(k)'
  <2>1. pass[k].todo \subseteq Deliveries
    BY <1>0 DEF PassType, PassStates
  <2> QED
    BY <1>2, <2>1 DEF QueueInv, PassInv, OtherRows, Queued
<1>7. /\ \A l \in Passes : ~Working(l, d)'
      /\ live'[d].at = "over" /\ ~Holds(d)' /\ ~Sending(d)'
  BY <1>1, <1>2 DEF Working, Holds, Sending
<1>8. OwnerInv(d)'
  BY <1>7 DEF OwnerInv
<1>9. MarkInv(d)'
  BY <1>1, <1>7 DEF QueueInv, DInv, MarkInv, NeedsReconciling
<1>10. SentInv(d)'
  BY <1>1, <1>7 DEF SentInv
<1>11. Move(d)
  <2>1. Fate(d) = "owed" /\ (sent'[d] = sent[d] => Reached(d)' = Reached(d))
    BY <1>1 DEF Fate, Reached
  <2>2. CASE queue'[d] = queue[d]
    BY <1>1, <2>1, <2>2 DEF Move, Fate
  <2>3. CASE queue'[d] = "failed" /\ sent'[d] = sent[d]
    BY <2>1, <2>3 DEF Move, Fate
  <2>4. CASE /\ queue'[d] = "acked" /\ sent'[d] = sent[d]
             /\ d \in BestEffort \/ \A p \in Payloads : sent'[d][p] > 0
    <3>1. Fate(d)' \in {"withdrawn", "settled"}
      BY <2>4 DEF Fate
    <3>2. d \in BestEffort \/ Reached(d) = Payloads
      BY <2>4 DEF Reached
    <3> QED
      BY <2>1, <2>4, <3>1, <3>2 DEF Move
  <2> QED
    BY <1>1, <2>2, <2>3, <2>4
<1> QED
  BY <1>1, <1>4, <1>5, <1>6, <1>8, <1>9, <1>10, <1>11, PassFrame DEF DInv

\* A pass that goes on with its entry.
LEMMA WorkOnStep ==
    ASSUME QueueInv, NEW k \in Passes, pass[k].at \in {"reconcile", "replay"},
           NEW d, d = pass[k].entry, live[d].at = "over", d \notin firstSent,
           UNCHANGED <<row, claims, faults, live, aborted, timedOut, firstSent, crashes>>,
           PassType', SentType', \A e \in Deliveries \ {d} : sent'[e] = sent[e],
           pass'[k].at = "replay", pass'[k].entry = d, pass'[k].todo = pass[k].todo,
           \A l \in Passes \ {k} : pass'[l] = pass[l],
           sent'[d] = sent[d] \/ \E p \in Payloads : Reached(d)' = Reached(d) \cup {p},
           replayed' \in {replayed, replayed \cup ({d} \cap BestEffort)},
           IF d \in BestEffort THEN pass'[k].next > 1 => d \in replayed'
           ELSE \A p \in Payloads : p < pass'[k].next => sent'[d][p] > 0
    PROVE  Sound
<1>0. RowType /\ OtherTypes /\ PassType
  BY TypeParts DEF QueueInv, OtherTypes
<1>1. /\ d \in Deliveries /\ Working(k, d) /\ queue[d] = "pending" /\ d \in claims
      /\ retries[d] < MaxRetries
      /\ \A l \in Passes \ {k} : ~Working(l, d)
  BY WorkerIs
<1>2. RowType' /\ OtherRows(d) /\ RowSame(d)
  BY <1>0, <1>1, RowKeptType, RowEffects
<1>3. TypeOK'
  BY <1>0, <1>2, TypeParts DEF OtherTypes, LiveType, HistoryType
<1>4. PassTouches(k, d)
  BY <1>1, <1>2 DEF PassTouches, Working
<1>5. PassInv(k)'
  BY <1>1 DEF QueueInv, PassInv, row
<1>6. /\ Working(k, d)' /\ \A l \in Passes : Working(l, d)' => l = k
      /\ live'[d].at = "over" /\ ~Sending(d)' /\ ~Holds(d)'
  BY <1>1 DEF Working, Holds, Sending
<1>7. OwnerInv(d)'
  BY <1>1, <1>2, <1>6 DEF OwnerInv, RowSame
<1>8. MarkInv(d)'
  BY <1>6 DEF MarkInv
<1>9. SentInv(d)'
  BY <1>1, <1>2, <1>6 DEF SentInv, RowSame
<1>10. Move(d)
  <2>1. Fate(d) = "owed" /\ Fate(d)' = "owed" /\ (sent'[d] = sent[d] => Reached(d)' = Reached(d))
    BY <1>1, <1>2 DEF Fate, Reached, RowSame
  <2> QED
    BY <2>1 DEF Move
<1> QED
  BY <1>1, <1>3, <1>4, <1>5, <1>7, <1>8, <1>9, <1>10, PassFrame DEF DInv

LEMMA AckOrFailEffects ==
    ASSUME RowType, NEW d \in Deliveries, queue[d] = "pending", retries[d] < MaxRetries, AckOrFail(d)
    PROVE  /\ RowType' /\ OtherRows(d)
           /\ queue'[d] = "acked" \/ (queue'[d] = queue[d] /\ mark'[d] = mark[d])
<1>1. RowType'
  BY RowTypes
<1>2. CASE AckDelivery(d)
  BY <1>1, <1>2, RowEffects
<1>3. CASE RowFailed(d)
  BY <1>1, <1>3 DEF RowType, RowFailed, OtherRows, RowSame, Queued
<1>4. CASE UNCHANGED row
  BY <1>1, <1>4, RowEffects DEF RowSame
<1> QED
  BY <1>2, <1>3, <1>4 DEF AckOrFail

LEMMA ReconcileKeeps ==
    ASSUME QueueInv, NEW k \in Passes, Reconcile(k)
    PROVE  Sound
<1>d. PICK d \in Deliveries : d = pass[k].entry
  BY WorkerIs DEF Reconcile
<1>0. /\ RowType /\ OtherTypes /\ PassType /\ SentType /\ pass[k].at = "reconcile"
      /\ UNCHANGED <<live, sent, history, crashes>>
  BY TypeParts DEF QueueInv, OtherTypes, Reconcile
<1>1. /\ d \in Deliveries /\ Working(k, d) /\ live[d].at = "over" /\ queue[d] = "pending"
      /\ retries[d] < MaxRetries
  BY <1>0, <1>d, WorkerIs
<1>2. SentType'
  BY <1>0 DEF SentType
<1>3. ASSUME Release(k), RowType', OtherRows(d),
             \/ queue'[d] = queue[d] /\ mark'[d] = mark[d]
             \/ queue'[d] = "failed"
             \/ queue'[d] = "acked" /\ \A p \in Payloads : sent[d][p] > 0
      PROVE  Sound
  BY <1>0, <1>1, <1>2, <1>3, <1>d, ReleaseStep DEF history
<1>4. CASE Release(k) /\ AckOrFail(d) /\ \A p \in Payloads : sent[d][p] > 0
  BY <1>0, <1>1, <1>3, <1>4, AckOrFailEffects
<1>5. CASE Release(k) /\ FailDelivery(d)
  BY <1>0, <1>1, <1>3, <1>5, RowTypes, RowEffects
<1>6. CASE Release(k) /\ MoveToFailed(d)
  BY <1>0, <1>1, <1>3, <1>6, RowTypes, RowEffects
<1>7. CASE Release(k) /\ Fault
  BY <1>0, <1>1, <1>3, <1>7, RowTypes, RowEffects DEF Fault, RowSame
<1>8. CASE /\ \A p \in Payloads : sent[d][p] = 0
           /\ pass' = [pass EXCEPT ![k].at = "replay"] /\ UNCHANGED <<row, claims, faults>>
  <2>1. d \notin firstSent /\ pass[k].next = 1
    <3>1. ~(\E p \in Payloads : sent[d][p] > 0)
      BY <1>8
    <3> QED
      BY <1>0, <1>1, <3>1 DEF QueueInv, DInv, MarkInv, OwnerInv
  <2>2. /\ PassType' /\ pass'[k] = [pass[k] EXCEPT !.at = "replay"]
        /\ \A l \in Passes \ {k} : pass'[l] = pass[l]
    BY <1>0, <1>8, PassTypes, PassEffects DEF PassPhases
  <2>3. /\ pass'[k].at = "replay" /\ pass'[k].entry = d /\ pass'[k].todo = pass[k].todo
        /\ pass'[k].next = 1
    BY <1>0, <1>d, <2>1, <2>2 DEF PassType, PassStates
  <2>4. ~(1 > 1) /\ \A p \in Payloads : ~(p < 1)
    OBVIOUS
  <2> QED
    BY <1>0, <1>1, <1>2, <1>8, <2>1, <2>2, <2>3, <2>4, <1>d, WorkOnStep DEF history
<1> QED
  BY <1>4, <1>5, <1>6, <1>7, <1>8, <1>d DEF Reconcile

LEMMA ReplayKeeps ==
    ASSUME QueueInv, NEW k \in Passes, Replay(k)
    PROVE  Sound
<1>d. PICK d \in Deliveries : d = pass[k].entry
  BY WorkerIs DEF Replay
<1> DEFINE land == Land(d, pass[k].next) /\ replayed' = replayed \cup ({d} \cap BestEffort)
           miss == replayed' = replayed \cup ({d} \cap BestEffort) /\ UNCHANGED sent
           nextPayload == pass' = [pass EXCEPT ![k].next = @ + 1] /\ UNCHANGED <<row, claims, faults>>
<1>0. /\ RowType /\ OtherTypes /\ PassType /\ SentType /\ pass[k].at = "replay"
      /\ pass[k].next \in Payloads
      /\ UNCHANGED <<live, aborted, timedOut, firstSent, crashes>>
  BY TypeParts DEF QueueInv, OtherTypes, Replay
<1>1. /\ d \in Deliveries /\ Working(k, d) /\ live[d].at = "over" /\ queue[d] = "pending"
      /\ retries[d] < MaxRetries
  BY <1>0, <1>d, WorkerIs DEF Replay, ClaimTried
<1>2. d \notin firstSent /\ SentInv(d)
  BY <1>0, <1>1 DEF QueueInv, DInv, MarkInv
<1>3. ASSUME land \/ miss
      PROVE  /\ SentType' /\ \A e \in Deliveries \ {d} : sent'[e] = sent[e]
             /\ replayed' = replayed \cup ({d} \cap BestEffort)
             /\ sent'[d] = sent[d] \/ \E p \in Payloads : Reached(d)' = Reached(d) \cup {p}
  <2>1. CASE land
    <3>1. /\ sent'[d] = [sent[d] EXCEPT ![pass[k].next] =
                            IF sent[d][pass[k].next] < 2 THEN sent[d][pass[k].next] + 1 ELSE 2]
          /\ sent[d] \in [Payloads -> 0..2]
      BY <1>0, <1>1, <2>1 DEF Land, SentType
    <3>2. \A x \in 0..2 : (IF x < 2 THEN x + 1 ELSE 2) > 0
      OBVIOUS
    <3>3. Reached(d)' = Reached(d) \cup {pass[k].next}
      <4> DEFINE q == pass[k].next
      <4>1. sent[d][q] \in 0..2 /\ q \in Payloads
        BY <1>0, <3>1
      <4>2. sent'[d][q] > 0
        BY <3>1, <3>2, <4>1
      <4>3. ASSUME NEW p \in Payloads \ {q} PROVE sent'[d][p] = sent[d][p]
        BY <3>1
      <4> HIDE DEF q
      <4>4. Reached(d)' = Reached(d) \cup {q}
        BY <4>1, <4>2, <4>3 DEF Reached
      <4> QED
        BY <4>4 DEF q
    <3> QED
      BY <1>0, <1>1, <2>1, <3>3, LandType DEF Land, SentType
  <2>2. CASE miss
    BY <1>0, <2>2 DEF SentType
  <2> QED
    BY <1>3, <2>1, <2>2
<1>4. ASSUME land \/ miss, Release(k), RowType', OtherRows(d),
             (queue'[d] = queue[d] /\ mark'[d] = mark[d]) \/ (queue'[d] = "failed" /\ UNCHANGED sent)
      PROVE  Sound
  <2>1. /\ replayed' \in {replayed, replayed \cup ({d} \cap BestEffort)}
        /\ UNCHANGED sent => sent'[d] = sent[d]
        /\ SentType' /\ \A e \in Deliveries \ {d} : sent'[e] = sent[e]
        /\ sent'[d] = sent[d] \/ \E p \in Payloads : Reached(d)' = Reached(d) \cup {p}
    BY <1>3, <1>4
  <2>2. /\ pass[k].at \in {"reconcile", "replay"} /\ live[d].at = "over" /\ d \notin firstSent
        /\ UNCHANGED <<live, aborted, timedOut, firstSent, crashes>>
    BY <1>0, <1>1, <1>2
  <2>3. \/ /\ queue'[d] = queue[d] /\ mark'[d] = mark[d]
           /\ sent'[d] = sent[d] \/ \E p \in Payloads : Reached(d)' = Reached(d) \cup {p}
        \/ queue'[d] = "failed" /\ sent'[d] = sent[d]
    BY <1>4, <2>1
  <2> QED
    BY <1>d, <1>4, <2>1, <2>2, <2>3, ReleaseStep
<1>5. CASE (land \/ miss) /\ Release(k) /\ FailDelivery(d)
  BY <1>0, <1>1, <1>4, <1>5, RowTypes, RowEffects
<1>6. CASE miss /\ Release(k) /\ MoveToFailed(d)
  BY <1>0, <1>1, <1>4, <1>6, RowTypes, RowEffects
<1>7. CASE miss /\ Release(k) /\ Fault
  BY <1>0, <1>1, <1>4, <1>7, RowTypes, RowEffects DEF Fault, RowSame
<1>8. CASE nextPayload /\ (land \/ (miss /\ d \in BestEffort))
  <2>1. /\ PassType' /\ pass'[k].at = "replay" /\ pass'[k].todo = pass[k].todo
        /\ pass'[k].entry = d /\ pass'[k].next = pass[k].next + 1
        /\ \A l \in Passes \ {k} : pass'[l] = pass[l]
    BY <1>0, <1>d, <1>8, PassTypes, PassEffects
  <2>2. ASSUME d \notin BestEffort, NEW p \in Payloads, p < pass[k].next + 1
        PROVE  sent'[d][p] > 0
    <3>1. Land(d, pass[k].next)
      BY <1>8, <2>2
    <3>2. sent'[d][p] = IF p = pass[k].next THEN IF sent[d][p] < 2 THEN sent[d][p] + 1 ELSE 2
                        ELSE sent[d][p]
      BY <1>0, <1>1, <3>1 DEF Land, SentType
    <3>3. sent[d][p] \in 0..2
      <4>1. d \in Deliveries /\ p \in Payloads /\ sent \in [Deliveries -> [Payloads -> 0..2]]
        BY <1>0, <1>1 DEF SentType
      <4>2. sent[d] \in [Payloads -> 0..2]
        BY <4>1
      <4> QED
        BY <4>1, <4>2
    <3>4. p < pass[k].next => sent[d][p] > 0
      <4>1. \A q \in Payloads : q < pass[k].next => sent[d][q] > 0
        <5>1. d \notin BestEffort
          BY <2>2
        <5> QED
          BY <1>0, <1>1, <1>2, <5>1 DEF SentInv
      <4> QED
        BY <4>1
    <3>5. p < pass[k].next \/ p = pass[k].next
      BY <1>0, <2>2
    <3>6. CASE p = pass[k].next
      <4>1. sent'[d][p] = IF sent[d][p] < 2 THEN sent[d][p] + 1 ELSE 2
        BY <3>2, <3>6
      <4>2. \A x \in 0..2 : (IF x < 2 THEN x + 1 ELSE 2) > 0
        OBVIOUS
      <4> QED
        BY <3>3, <4>1, <4>2
    <3>7. CASE p # pass[k].next
      <4>1. sent'[d][p] = sent[d][p]
        BY <3>2, <3>7
      <4>2. sent[d][p] > 0
        BY <3>4, <3>5, <3>7
      <4> QED
        BY <4>1, <4>2
    <3> QED
      BY <3>6, <3>7
  <2>3. d \in BestEffort => d \in replayed'
    BY <1>3, <1>8
  <2> QED
    BY <1>0, <1>1, <1>2, <1>3, <1>8, <2>1, <2>2, <2>3, <1>d, WorkOnStep
<1> QED
  BY <1>5, <1>6, <1>7, <1>8, <1>d DEF Replay

LEMMA AckReplayKeeps ==
    ASSUME QueueInv, NEW k \in Passes, AckReplay(k)
    PROVE  Sound
<1>d. PICK d \in Deliveries : d = pass[k].entry
  BY WorkerIs DEF AckReplay
<1>0. /\ RowType /\ PassType /\ SentType /\ pass[k].at = "replay" /\ pass[k].next \notin Payloads
      /\ Release(k) /\ AckOrFail(d) /\ UNCHANGED <<live, sent, history, crashes>>
  BY <1>d, TypeParts DEF QueueInv, OtherTypes, AckReplay
<1>1. pass[k].next > 1 /\ \A p \in Payloads : p < pass[k].next
  BY <1>0 DEF PassType, PassStates
<1>2. /\ d \in Deliveries /\ Working(k, d) /\ live[d].at = "over" /\ queue[d] = "pending"
      /\ retries[d] < MaxRetries
  BY <1>0, <1>d, <1>1, WorkerIs
<1>3. (d \in BestEffort /\ d \in replayed) \/ \A p \in Payloads : sent[d][p] > 0
  BY <1>0, <1>1, <1>2 DEF QueueInv, DInv, SentInv
<1>4. /\ RowType' /\ OtherRows(d)
      /\ queue'[d] = "acked" \/ (queue'[d] = queue[d] /\ mark'[d] = mark[d])
  BY <1>0, <1>2, AckOrFailEffects
<1>5. SentType'
  BY <1>0 DEF SentType
<1> QED
  BY <1>0, <1>2, <1>3, <1>4, <1>5, <1>d, ReleaseStep DEF history

-----------------------------------------------------------------------------
(* A crash, and the start.                                                 *)

LEMMA BeforeStartIs ==
    ASSUME NEW k \in Passes
    PROVE  /\ BeforeStart(k) \in PassStates /\ BeforeStart(k).todo = {}
           /\ BeforeStart(k).at \notin {"reconcile", "replay"}
BY DEF BeforeStart, Resting, PassStates, PassPhases

LEMMA CrashKeeps ==
    ASSUME QueueInv, Crash
    PROVE  Sound
<1>0. RowType /\ OtherTypes /\ UNCHANGED <<row, sent, history, faults>> /\ claims' = {}
  BY TypeParts DEF QueueInv, Crash
<1>1. LiveType'
  <2>1. Fresh("over") \in LiveStates
    BY DEF Fresh, LiveStates, LivePhases
  <2> QED
    BY <1>0, <2>1 DEF Crash, OtherTypes, LiveType
<1>2. PassType' /\ \A k \in Passes : pass'[k] = BeforeStart(k)
  BY BeforeStartIs DEF Crash, PassType
<1>3. TypeOK'
  <2>1. RowType'
    BY <1>0, RowKeptType
  <2>2. crashes' \in 0..MaxCrashes
    BY <1>0 DEF Crash, OtherTypes
  <2> QED
    BY <1>0, <1>1, <1>2, <2>1, <2>2, TypeParts DEF OtherTypes, SentType, HistoryType, history
<1>4. ASSUME NEW d \in Deliveries PROVE DInv(d)'
  <2>1. \A k \in Passes : ~Working(k, d)'
    BY <1>2, BeforeStartIs DEF Working
  <2>2. \/ live'[d] = live[d] /\ live[d].at \in {"new", "refused"}
        \/ live'[d].at = "over"
    BY DEF Crash, Fresh
  <2>3. ~Sending(d)' /\ ~Holds(d)' /\ live'[d].at \notin {"sending", "calling", "acking", "enqueued"}
    BY <2>2 DEF Sending, Holds
  <2>4. RowSame(d) /\ sent'[d] = sent[d]
    BY <1>0 DEF row, RowSame
  <2>5. OwnerInv(d)'
    BY <2>1, <2>2, <2>3, <2>4 DEF QueueInv, DInv, OwnerInv, RowSame
  <2>6. MarkInv(d)'
    BY <1>0, <2>1, <2>3, <2>4 DEF QueueInv, DInv, MarkInv, RowSame, NeedsReconciling, history
  <2>7. SentInv(d)'
    BY <1>0, <2>1, <2>3, <2>4 DEF QueueInv, DInv, SentInv, RowSame, history
  <2> QED
    BY <2>5, <2>6, <2>7 DEF DInv
<1>5. ASSUME NEW k \in Passes PROVE PassInv(k)'
  BY <1>2, BeforeStartIs DEF PassInv
<1>6. ASSUME NEW d \in Deliveries PROVE Fate(d)' = Fate(d) /\ Reached(d)' = Reached(d)
  <2>1. live'[d].at \in {"new", "refused"} <=> live[d].at \in {"new", "refused"}
    BY DEF Crash, Fresh
  <2> QED
    BY <1>0, <2>1 DEF Fate, Reached, row, history
<1> QED
  BY <1>3, <1>4, <1>5, <1>6, StayRefines DEF Sound, QueueInv

LEMMA InitHolds == Init => QueueInv
<1> SUFFICES ASSUME Init PROVE QueueInv
  OBVIOUS
<1>1. RowType
  BY DEF Init, RowType, Marks
<1>2. LiveType /\ \A d \in Deliveries : live[d] = Fresh("new") /\ live[d].at = "new"
  BY DEF Init, LiveType, LiveStates, LivePhases, Fresh
<1>3. PassType /\ \A k \in Passes : pass[k] = BeforeStart(k)
  BY BeforeStartIs DEF Init, PassType
<1>4. SentType /\ \A d \in Deliveries : \A p \in Payloads : sent[d][p] = 0
  BY DEF Init, SentType
<1>5. TypeOK
  BY <1>1, <1>2, <1>3, <1>4, TypeParts DEF OtherTypes, HistoryType, Init
<1>6. ASSUME NEW d \in Deliveries PROVE DInv(d)
  <2>1. \A k \in Passes : ~Working(k, d)
    BY <1>3, BeforeStartIs DEF Working
  <2>2. queue[d] = "absent" /\ retries[d] = 0 /\ mark[d] = "none" /\ d \notin firstSent /\ ~Sending(d)
    BY <1>2 DEF Init, Sending
  <2> QED
    BY <1>2, <1>4, <2>1, <2>2 DEF DInv, OwnerInv, MarkInv, SentInv, Holds
<1>7. ASSUME NEW k \in Passes PROVE PassInv(k)
  BY <1>3, BeforeStartIs DEF PassInv
<1> QED
  BY <1>5, <1>6, <1>7 DEF QueueInv

LEMMA StutterKeeps ==
    ASSUME QueueInv, UNCHANGED vars
    PROVE  Sound
<1>0. RowType /\ OtherTypes /\ UNCHANGED <<row, claims, live, pass, sent, history, crashes, faults>>
  BY TypeParts DEF QueueInv, vars
<1>1. TypeOK'
  BY <1>0, RowKeptType, TypeParts DEF OtherTypes, LiveType, PassType, SentType, HistoryType, history
<1>2. ASSUME NEW d \in Deliveries
      PROVE  DInv(d)' /\ Fate(d)' = Fate(d) /\ Reached(d)' = Reached(d)
  <2>1. Same(d)
    BY <1>0 DEF Same, RowSame, WorkSame, Working, row, history
  <2> QED
    BY <2>1, SameKeeps, SameFate DEF QueueInv
<1>3. ASSUME NEW k \in Passes PROVE PassInv(k)'
  BY <1>0 DEF QueueInv, PassInv, row
<1> QED
  BY <1>1, <1>2, <1>3, StayRefines DEF Sound, QueueInv

LEMMA NextKeeps ==
    ASSUME QueueInv, [Next]_vars
    PROVE  Sound
<1>1. ASSUME NEW d \in Deliveries, Submit(d) \/ LiveStep(d) \/ BackoffElapses(d)
      PROVE  Sound
  BY <1>1, SubmitKeeps, ClaimKeeps, AbortKeeps, BeginCallKeeps, CallKeeps, TimeOutKeeps, ThrowKeeps,
     ReturnKeeps, AckKeeps, BackoffKeeps DEF LiveStep
<1>2. ASSUME NEW k \in Passes, PassStep(k)
      PROVE  Sound
  BY <1>2, StartPassKeeps, EndPassKeeps, ReconcileKeeps, ReplayKeeps, AckReplayKeeps, SkipKeeps,
     RetireKeeps, TakeKeeps DEF PassStep
<1> QED
  BY <1>1, <1>2, CrashKeeps, StutterKeeps DEF Next

-----------------------------------------------------------------------------
(* The claims.                                                             *)

\* No step forgets a row.
RowsStay == \A e \in Deliveries : Queued(e) => queue'[e] # "absent"

LEMMA RowWritesStay ==
    ASSUME TypeOK, NEW d \in Deliveries,
           \/ UNCHANGED row \/ Fault \/ Enqueue(d) \/ AckDelivery(d) \/ MoveToFailed(d)
           \/ \E m : MarkDelivery(d, m)
           \/ FailDelivery(d) \/ AckOrFail(d)
    PROVE  RowsStay
BY DEF TypeOK, RowsStay, Queued, row, Fault, Enqueue, AckDelivery, Delete, MoveToFailed,
   MarkDelivery, FailDelivery, AckOrFail, RowFailed

\* A step of the first sender of d keeps its claim with its row, or gives it
\* up, or leaves the one of a pass alone.
SenderStep(d) ==
    /\ RowsStay /\ pass' = pass
    /\ \A e \in Deliveries \ {d} : live'[e] = live[e] /\ (e \in claims' => e \in claims)
    /\ d \in claims' =>
         \/ Queued(d)' /\ Sending(d)'
         \/ d \in claims /\ ~Sending(d)

LEMMA SenderStepKeeps ==
    ASSUME QueueInv, ClaimsAreHeld, claims' \subseteq Deliveries,
           NEW d \in Deliveries, SenderStep(d)
    PROVE  ClaimsAreHeld'
<1> SUFFICES ASSUME NEW e \in claims'
             PROVE  (Queued(e)' /\ Sending(e)') \/ \E k \in Passes : Working(k, e)'
  BY DEF ClaimsAreHeld
<1>1. \A k \in Passes : Working(k, e) => Working(k, e)'
  BY DEF SenderStep, Working
<1>2. CASE e # d
  <2>1. e \in Deliveries /\ e \in claims /\ live'[e] = live[e]
    BY <1>2 DEF SenderStep
  <2>2. Queued(e) => Queued(e)'
    BY <2>1 DEF SenderStep, RowsStay, Queued
  <2> QED
    BY <1>1, <2>1, <2>2 DEF ClaimsAreHeld, Sending
<1>3. CASE e = d
  BY <1>1, <1>3 DEF SenderStep, ClaimsAreHeld
<1> QED
  BY <1>2, <1>3

\* A sender that leaves gives up what it claimed: without a row it has not
\* claimed anything.
LEMMA LeaveIsSenderStep ==
    ASSUME QueueInv, ClaimsAreHeld, NEW d \in Deliveries, Sending(d), Leave(d), pass' = pass,
           \/ UNCHANGED row \/ Fault \/ AckDelivery(d) \/ FailDelivery(d)
    PROVE  SenderStep(d)
<1>1. TypeOK
  BY DEF QueueInv
<1>2. RowsStay
  BY <1>1, RowWritesStay
<1>3. \A k \in Passes : ~Working(k, d)
  BY SenderAlone
<1>4. d \notin claims'
  BY <1>3 DEF Leave, ClaimsAreHeld
<1> QED
  BY <1>1, <1>2, <1>4 DEF SenderStep, Leave, TypeOK

\* A sender that goes on has its row, if there is one, and its claim.
LEMMA StayIsSenderStep ==
    ASSUME QueueInv, ClaimsAreHeld, NEW d \in Deliveries, Sending(d), Sending(d)',
           \A e \in Deliveries \ {d} : live'[e] = live[e], pass' = pass, claims' = claims,
           \/ UNCHANGED row \/ Fault \/ \E m : MarkDelivery(d, m)
    PROVE  SenderStep(d)
<1>1. RowsStay
  BY RowWritesStay DEF QueueInv
<1>2. d \in claims => Queued(d)
  BY SenderAlone DEF ClaimsAreHeld
<1> QED
  BY <1>1, <1>2 DEF SenderStep, RowsStay, Queued

\* The steps after which the sender is still at work.
LEMMA StayEffects ==
    ASSUME LiveType, NEW d \in Deliveries,
           \/ \E a \in {"sending", "calling", "threw", "timedOut", "acking"} :
                \/ live' = [live EXCEPT ![d].at = a]
                \/ live' = [live EXCEPT ![d].at = a, ![d].marked = TRUE]
                \/ live' = [live EXCEPT ![d].at = a, ![d].next = @ + 1]
           \/ live' = [live EXCEPT ![d].next = PayloadCount + 1, ![d].partial = TRUE] /\ Sending(d)
           \/ AfterError(d)
    PROVE  Sending(d)' /\ \A e \in Deliveries \ {d} : live'[e] = live[e]
<1>1. ASSUME NEW at, NEW next, NEW partial, NEW marked, LiveIs(d, at, next, partial, marked),
             at \in {"sending", "calling", "threw", "timedOut", "acking"}
      PROVE  Sending(d)' /\ \A e \in Deliveries \ {d} : live'[e] = live[e]
  BY <1>1 DEF LiveIs, Sending
<1>2. ASSUME NEW a \in {"sending", "calling", "threw", "timedOut", "acking"},
             \/ live' = [live EXCEPT ![d].at = a]
             \/ live' = [live EXCEPT ![d].at = a, ![d].marked = TRUE]
             \/ live' = [live EXCEPT ![d].at = a, ![d].next = @ + 1]
      PROVE  \E next, partial, marked : LiveIs(d, a, next, partial, marked)
  <2>1. a \in LivePhases
    BY DEF LivePhases
  <2> QED
    BY <1>2, <2>1, LiveEffects
<1>3. CASE live' = [live EXCEPT ![d].next = PayloadCount + 1, ![d].partial = TRUE] /\ Sending(d)
  <2>1. LiveIs(d, live[d].at, PayloadCount + 1, TRUE, live[d].marked)
    BY <1>3, LiveEffects
  <2> QED
    BY <1>1, <1>3, <2>1 DEF Sending
<1>4. CASE AfterError(d)
  <2>1. IF d \in BestEffort
        THEN LiveIs(d, "sending", live[d].next + 1, TRUE, live[d].marked)
        ELSE LiveIs(d, "threw", live[d].next, live[d].partial, live[d].marked)
    BY <1>4, LiveEffects
  <2> QED
    BY <1>1, <2>1
<1> QED
  BY <1>1, <1>2, <1>3, <1>4

LEMMA SubmitIsSenderStep ==
    ASSUME QueueInv, ClaimsAreHeld, NEW d \in Deliveries, Submit(d)
    PROVE  SenderStep(d)
<1>1. live[d].at = "new" /\ queue[d] = "absent" /\ \A k \in Passes : ~Working(k, d)
  BY DEF Submit, QueueInv, DInv, OwnerInv
<1>2. d \notin claims /\ claims' = claims /\ pass' = pass
  BY <1>1 DEF ClaimsAreHeld, Sending, Submit
<1>3. RowsStay
  BY RowWritesStay DEF QueueInv, Submit
<1>4. \A e \in Deliveries \ {d} : live'[e] = live[e]
  BY DEF QueueInv, TypeOK, Submit
<1> QED
  BY <1>2, <1>3, <1>4 DEF SenderStep

LEMMA ClaimIsSenderStep ==
    ASSUME QueueInv, ClaimsAreHeld, NEW d \in Deliveries, Claim(d)
    PROVE  SenderStep(d)
<1>1. TypeOK /\ LiveType /\ queue[d] = "pending" /\ ~Sending(d)
  BY DEF Claim, QueueInv, DInv, OwnerInv, TypeOK, LiveType, Sending
<1>2. RowsStay /\ pass' = pass /\ queue' = queue
  BY <1>1, RowWritesStay DEF Claim, row
<1>3. CASE d \in claims
  BY <1>1, <1>2, <1>3 DEF Claim, SenderStep, TypeOK
<1>4. CASE d \notin claims
  <2>1. claims' = claims \cup {d} /\ live' = [live EXCEPT ![d].at = "sending"]
    BY <1>4 DEF Claim
  <2>2. Sending(d)' /\ \A e \in Deliveries \ {d} : live'[e] = live[e]
    BY <1>1, <2>1, StayEffects
  <2> QED
    BY <1>1, <1>2, <2>1, <2>2 DEF SenderStep, Queued
<1> QED
  BY <1>3, <1>4

LEMMA LiveIsSenderStep ==
    ASSUME QueueInv, ClaimsAreHeld, NEW d \in Deliveries, LiveStep(d)
    PROVE  SenderStep(d)
<1>1. TypeOK /\ LiveType
  BY DEF QueueInv, TypeOK, LiveType
<1>2. CASE Claim(d)
  BY <1>2, ClaimIsSenderStep
<1>3. ASSUME Sending(d), EndAborted(d), pass' = pass PROVE SenderStep(d)
  BY <1>3, LeaveIsSenderStep DEF EndAborted
<1>4. CASE Abort(d)
  <2>1. Sending(d) /\ pass' = pass
    BY <1>4 DEF Abort, Sending
  <2>2. CASE d \in BestEffort
    <3>1. /\ live' = [live EXCEPT ![d].next = PayloadCount + 1, ![d].partial = TRUE]
          /\ UNCHANGED row /\ claims' = claims
      BY <1>4, <2>2 DEF Abort
    <3>2. Sending(d)' /\ \A e \in Deliveries \ {d} : live'[e] = live[e]
      BY <1>1, <2>1, <3>1, StayEffects
    <3> QED
      BY <2>1, <3>1, <3>2, StayIsSenderStep
  <2> QED
    BY <1>3, <1>4, <2>1, <2>2 DEF Abort
<1>5. CASE BeginCall(d)
  <2>1. Sending(d) /\ pass' = pass /\ claims' = claims
    BY <1>5 DEF BeginCall, Sending
  <2>2. UNCHANGED row \/ Fault \/ \E m : MarkDelivery(d, m)
    BY <1>5 DEF BeginCall
  <2>3. \/ live' = [live EXCEPT ![d].at = "calling"]
        \/ live' = [live EXCEPT ![d].at = "calling", ![d].marked = TRUE]
        \/ AfterError(d)
    BY <1>5 DEF BeginCall
  <2>4. Sending(d)' /\ \A e \in Deliveries \ {d} : live'[e] = live[e]
    BY <1>1, <2>3, StayEffects
  <2> QED
    BY <2>1, <2>2, <2>4, StayIsSenderStep
<1>6. CASE Call(d)
  <2>1. Sending(d) /\ pass' = pass /\ claims' = claims /\ UNCHANGED row
    BY <1>6 DEF Call, Sending
  <2>2. \/ live' = [live EXCEPT ![d].at = "sending", ![d].next = @ + 1]
        \/ live' = [live EXCEPT ![d].at = "timedOut"]
        \/ AfterError(d)
    BY <1>6 DEF Call
  <2>3. Sending(d)' /\ \A e \in Deliveries \ {d} : live'[e] = live[e]
    BY <1>1, <2>2, StayEffects
  <2> QED
    BY <2>1, <2>3, StayIsSenderStep
<1>7. CASE TimeOut(d)
  BY <1>3, <1>7 DEF TimeOut, Sending
<1>8. CASE Throw(d)
  BY <1>8, LeaveIsSenderStep DEF Throw, Sending
<1>9. CASE Ack(d)
  BY <1>9, LeaveIsSenderStep DEF Ack, Sending
<1>10. CASE Return(d)
  <2>1. Sending(d) /\ pass' = pass
    BY <1>10 DEF Return, Sending
  <2>2. CASE Leave(d) /\ (FailDelivery(d) \/ Fault)
    BY <2>1, <2>2, LeaveIsSenderStep
  <2>3. CASE /\ live' = [live EXCEPT ![d].at = "acking"] /\ claims' = claims
             /\ UNCHANGED row \/ Fault \/ \E m : MarkDelivery(d, m)
    <3>1. Sending(d)' /\ \A e \in Deliveries \ {d} : live'[e] = live[e]
      BY <1>1, <2>3, StayEffects
    <3> QED
      BY <2>1, <2>3, <3>1, StayIsSenderStep
  <2> QED
    BY <1>10, <2>2, <2>3 DEF Return
<1> QED
  BY <1>2, <1>4, <1>5, <1>6, <1>7, <1>8, <1>9, <1>10 DEF LiveStep

\* A step of pass k claims what it takes, and gives up what it leaves.
PassClaims(k) ==
    /\ RowsStay /\ live' = live
    /\ \A l \in Passes \ {k} : pass'[l] = pass[l]
    /\ \A e \in claims' : Working(k, e)' \/ (e \in claims /\ ~Working(k, e))

LEMMA PassClaimsKeeps ==
    ASSUME QueueInv, ClaimsAreHeld, NEW k \in Passes, PassClaims(k)
    PROVE  ClaimsAreHeld'
<1> SUFFICES ASSUME NEW e \in claims', ~Working(k, e)'
             PROVE  (Queued(e)' /\ Sending(e)') \/ \E l \in Passes : Working(l, e)'
  BY DEF ClaimsAreHeld
<1>1. e \in claims /\ e \in Deliveries /\ ~Working(k, e)
  BY DEF PassClaims, QueueInv, TypeOK
<1>2. CASE Queued(e) /\ Sending(e)
  BY <1>1, <1>2 DEF PassClaims, RowsStay, Queued, Sending
<1>3. ASSUME NEW l \in Passes, Working(l, e) PROVE Working(l, e)'
  BY <1>1, <1>3 DEF PassClaims, Working
<1> QED
  BY <1>1, <1>2, <1>3 DEF ClaimsAreHeld

LEMMA PassStepClaims ==
    ASSUME QueueInv, NEW k \in Passes, PassStep(k)
    PROVE  PassClaims(k)
<1>1. TypeOK /\ pass[k] \in PassStates
  BY DEF QueueInv, TypeOK
<1>2. \A l \in Passes \ {k} : pass'[l] = pass[l]
  BY <1>1 DEF PassStep, StartPass, EndPass, Reconcile, Replay, AckReplay, Skip, Retire, Take,
     Release, TypeOK
<1>3. live' = live
  BY DEF PassStep, StartPass, EndPass, Reconcile, Replay, AckReplay, Skip, Retire, Take
<1>4. CASE StartPass(k) \/ EndPass(k) \/ \E d \in Deliveries : Skip(k, d)
  <2>1. /\ UNCHANGED row /\ claims' = claims /\ pass[k].at \notin {"reconcile", "replay"}
    BY <1>4 DEF StartPass, EndPass, Skip
  <2> QED
    BY <1>2, <1>3, <2>1 DEF PassClaims, RowsStay, Working, row, Queued
<1>5. ASSUME NEW d \in Deliveries, Retire(k, d) PROVE PassClaims(k)
  <2>1. RowsStay
    BY <1>1, <1>5, RowWritesStay DEF Retire
  <2>2. claims' = claims /\ pass[k].at = "scan"
    BY <1>5 DEF Retire
  <2> QED
    BY <1>2, <1>3, <2>1, <2>2 DEF PassClaims, Working
<1>6. ASSUME NEW d \in Deliveries, Take(k, d) PROVE PassClaims(k)
  <2>1. RowsStay
    BY <1>1, <1>6, RowWritesStay DEF Take
  <2>2. claims' = claims \cup {d} /\ pass[k].at = "scan"
    BY <1>6 DEF Take
  <2>3. pass'[k].at \in {"reconcile", "replay"} /\ pass'[k].entry = d
    BY <1>1, <1>6 DEF Take, TypeOK
  <2> QED
    BY <1>2, <1>3, <2>1, <2>2, <2>3 DEF PassClaims, Working
<1>7. ASSUME pass[k].at \in {"reconcile", "replay"}, Reconcile(k) \/ Replay(k) \/ AckReplay(k)
      PROVE  PassClaims(k)
  <2> DEFINE d == pass[k].entry
  <2>1. d \in Deliveries
    BY <1>7 DEF QueueInv, PassInv
  <2>2. RowsStay
    <3>1. \/ UNCHANGED row \/ Fault \/ MoveToFailed(d) \/ FailDelivery(d) \/ AckOrFail(d)
      BY <1>7 DEF Reconcile, Replay, AckReplay
    <3> HIDE DEF d
    <3> QED
      BY <1>1, <2>1, <3>1, RowWritesStay
  <2>3. \/ claims' = claims \ {d}
        \/ /\ claims' = claims
           /\ \/ pass' = [pass EXCEPT ![k].at = "replay"]
              \/ pass' = [pass EXCEPT ![k].next = @ + 1]
    BY <1>7 DEF Reconcile, Replay, AckReplay, Release
  <2>4. CASE claims' = claims \ {d}
    BY <1>2, <1>3, <2>2, <2>4 DEF PassClaims, Working
  <2>5. CASE /\ claims' = claims
             /\ \/ pass' = [pass EXCEPT ![k].at = "replay"]
                \/ pass' = [pass EXCEPT ![k].next = @ + 1]
    <3>1. pass'[k].at \in {"reconcile", "replay"} /\ pass'[k].entry = d
      BY <1>1, <1>7, <2>5 DEF TypeOK, PassStates
    <3> QED
      BY <1>2, <1>3, <2>2, <2>5, <3>1 DEF PassClaims, Working
  <2> QED
    BY <2>3, <2>4, <2>5
<1>8. CASE Reconcile(k) \/ Replay(k) \/ AckReplay(k)
  BY <1>7, <1>8 DEF Reconcile, Replay, AckReplay
<1> QED
  BY <1>4, <1>5, <1>6, <1>8 DEF PassStep

LEMMA ClaimsKeep ==
    ASSUME QueueInv, ClaimsAreHeld, [Next]_vars
    PROVE  ClaimsAreHeld'
<1>1. claims' \subseteq Deliveries
  BY NextKeeps DEF Sound, QueueInv, TypeOK
<1>2. ASSUME NEW d \in Deliveries, Submit(d) \/ LiveStep(d) PROVE ClaimsAreHeld'
  BY <1>1, <1>2, SubmitIsSenderStep, LiveIsSenderStep, SenderStepKeeps
<1>3. ASSUME NEW k \in Passes, PassStep(k) PROVE ClaimsAreHeld'
  BY <1>3, PassStepClaims, PassClaimsKeeps
<1>4. CASE Crash
  BY <1>4 DEF Crash, ClaimsAreHeld
<1>5. CASE UNCHANGED vars \/ \E d \in Deliveries : BackoffElapses(d)
  BY <1>5 DEF vars, row, BackoffElapses, ClaimsAreHeld, Queued, Sending, Working
<1> QED
  BY <1>2, <1>3, <1>4, <1>5 DEF Next

-----------------------------------------------------------------------------
(* Theorems.                                                               *)

\* QueueInv is inductive: the deliveries, the passes that work on them and the
\* claims agree, whatever write fails and whenever the process dies.
THEOREM QueueInvHolds == Spec => []QueueInv
<1>1. QueueInv /\ [Next]_vars => QueueInv'
  BY NextKeeps DEF Sound
<1> QED
  BY InitHolds, <1>1, PTL DEF Spec

\* The variables keep their types; a row is never retried more often than
\* MAX_RETRIES allows.
THEOREM DeliveryTypeOK == Spec => []TypeOK
<1>1. QueueInv => TypeOK
  BY DEF QueueInv
<1> QED
  BY QueueInvHolds, <1>1, PTL

\* withActiveDeliveryClaim and the claims of the passes: no delivery has two
\* senders at a time.
THEOREM OneSenderHolds == Spec => []OneSender
<1>1. QueueInv => OneSender
  BY DEF QueueInv, DInv, OwnerInv, OneSender
<1> QED
  BY QueueInvHolds, <1>1, PTL

\* withActiveDeliveryClaim and the passes release in a finally: a claim does not
\* outlive the sender or the pass that made it.
THEOREM ClaimsAreHeldHolds == Spec => []ClaimsAreHeld
<1>1. Init => ClaimsAreHeld
  BY DEF Init, ClaimsAreHeld
<1>2. QueueInv /\ ClaimsAreHeld /\ [Next]_vars => ClaimsAreHeld'
  BY ClaimsKeep
<1> QED
  BY QueueInvHolds, <1>1, <1>2, PTL DEF Spec

\* "Remove after success": a row is acked only when everything was sent, but for
\* the deliveries that were aborted, timed out or replayed under best effort.
THEOREM AckedWasSentHolds == Spec => []AckedWasSent
<1>1. QueueInv => AckedWasSent
  BY DEF QueueInv, DInv, SentInv, AckedWasSent
<1> QED
  BY QueueInvHolds, <1>1, PTL

\* The write-ahead mark: what the first sender of a required delivery got through
\* is not sent again.
THEOREM FirstSendIsNotRepeatedHolds == Spec => []FirstSendIsNotRepeated
<1>1. QueueInv => FirstSendIsNotRepeated
  BY DEF QueueInv, DInv, MarkInv, FirstSendIsNotRepeated, TypeOK
<1> QED
  BY QueueInvHolds, <1>1, PTL

\* The queue implements DeliveryIntent: a delivery that is settled, withdrawn or
\* parked stays so, and nothing of it is sent any more.
THEOREM DeliveryQueueRefines == Spec => IsDeliveryIntent
<1>1. Init => I!Init
  <2> SUFFICES ASSUME Init PROVE I!Init
    OBVIOUS
  <2>1. ASSUME NEW d \in Deliveries
        PROVE  Fate(d) = "none" /\ {p \in Payloads : sent[d][p] > 0} = {}
    <3>1. live[d].at = "new" /\ queue[d] = "absent" /\ \A p \in Payloads : sent[d][p] = 0
      BY DEF Init, Fresh
    <3> QED
      BY <3>1 DEF Fate
  <2> QED
    BY <2>1 DEF I!Init
<1>2. QueueInv /\ [Next]_vars => [I!Next]_(I!vars)
  BY NextKeeps DEF Sound, Refines
<1> QED
  BY QueueInvHolds, <1>1, <1>2, PTL DEF Spec, IsDeliveryIntent, I!Spec
=============================================================================
