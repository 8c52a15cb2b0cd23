-------------------------- MODULE CommandLanesProofs --------------------------
(***************************************************************************)
(* Theorems about CommandLanes: types, no stranded and no lost work,       *)
(* starts once, within the limit and in order, waiters woken, for any      *)
(* lanes, entries, limits, waiters and number of resets.                   *)
(***************************************************************************)
EXTENDS CommandLanes, FiniteSetTheorems, SequenceTheorems, TLAPS

(* e is started before f.                                                  *)
GoesBefore(e, f, seq) ==
    \/ PriorityOf[e] > PriorityOf[f]
    \/ PriorityOf[e] = PriorityOf[f] /\ seq[e] < seq[f]

(* What a lane is by itself, between two steps or inside one.              *)
WellFormed(l, lane, seq) ==
    /\ lane \in LaneStates
    /\ \A e \in lane.active : LaneOf[e] = l
    /\ \A i \in 1 .. Len(lane.queue) :
         LaneOf[lane.queue[i]] = l /\ lane.queue[i] \notin lane.active
    /\ \A i, j \in 1 .. Len(lane.queue) :
         i < j => GoesBefore(lane.queue[i], lane.queue[j], seq)

(* The lane has no room for what it holds back.                            *)
Full(lane) == lane.queue # <<>> => Cardinality(lane.active) >= lane.maxConcurrent

(* What the rest of the state knows of a lane's entries.                   *)
Pending(l) ==
    \A i \in 1 .. Len(lanes[l].queue) :
        promise[lanes[l].queue[i]] = "pending" /\ lanes[l].queue[i] \notin executing

Works(l) ==
    \A e \in lanes[l].active : promise[e] = "pending" /\ startedIn[e] = lanes[l].generation

LaneInv(l) ==
    /\ WellFormed(l, lanes[l], sequence)
    /\ Full(lanes[l])
    /\ Pending(l)
    /\ Works(l)

(* What a waiter captured was started before, so it is not started again.  *)
CaptureInv(w) ==
    \A e \in captured[w] :
        /\ promise[e] # "none"
        /\ \A i \in 1 .. Len(lanes[LaneOf[e]].queue) : lanes[LaneOf[e]].queue[i] # e

ArrivalInv ==
    /\ \A e \in Entries : sequence[e] < nextSequence
    /\ \A e \in executing : promise[e] # "none"

IInv ==
    /\ TypeOK
    /\ ArrivalInv
    /\ \A l \in Lanes : LaneInv(l)
    /\ \A w \in Waiters : CaptureInv(w)
    /\ WaitersAreWoken
-----------------------------------------------------------------------------
(* Lanes by themselves.                                                    *)

(* A queue has no entry twice: one goes before the other.                  *)
LEMMA QueueIsInjective ==
    ASSUME NEW l \in Lanes, NEW lane, NEW seq \in [Entries -> Nat], WellFormed(l, lane, seq),
           NEW i \in 1 .. Len(lane.queue), NEW j \in 1 .. Len(lane.queue),
           lane.queue[i] = lane.queue[j]
    PROVE  i = j
<1>1. PriorityOf[lane.queue[i]] \in 0 .. 2 /\ seq[lane.queue[i]] \in Nat
  BY LanesAssumption DEF WellFormed, LaneStates
<1> QED  BY <1>1 DEF WellFormed, LaneStates, GoesBefore

(* What pump can start is in the queue and fits the lane.                  *)
LEMMA StartableBounds ==
    ASSUME NEW lane \in LaneStates
    PROVE  /\ IsFiniteSet(lane.active) /\ Cardinality(lane.active) \in Nat
           /\ lane.maxConcurrent \in Nat
           /\ Startable(lane) \in 0 .. Len(lane.queue)
           /\ Startable(lane) > 0 =>
                Cardinality(lane.active) + Startable(lane) <= lane.maxConcurrent
           /\ Startable(lane) < Len(lane.queue) =>
                Cardinality(lane.active) + Startable(lane) >= lane.maxConcurrent
<1>1. IsFiniteSet(lane.active) /\ Cardinality(lane.active) \in Nat
  BY FS_Subset, FS_CardinalityType, LanesAssumption DEF LaneStates
<1>2. lane.queue \in Seq(Entries) /\ lane.maxConcurrent \in {0, 1} \cup Limits
  BY DEF LaneStates
<1>3. \A n \in Limits : n \in Nat
  BY LanesAssumption
<1>4. lane.maxConcurrent \in Nat
  <2>1. CASE lane.maxConcurrent \in Limits
    BY <2>1, <1>3
  <2>2. CASE lane.maxConcurrent = 0 \/ lane.maxConcurrent = 1
    BY <2>2
  <2> QED  BY <1>2, <2>1, <2>2
<1>5. Len(lane.queue) \in Nat
  BY <1>2
<1> QED  BY <1>1, <1>4, <1>5 DEF Startable

(* The first n entries of an injective queue are n entries.                *)
LEMMA HeadCardinality ==
    ASSUME NEW q \in Seq(Entries), NEW n \in 0 .. Len(q),
           \A i, j \in 1 .. Len(q) : q[i] = q[j] => i = j
    PROVE  /\ IsFiniteSet({q[i] : i \in 1 .. n})
           /\ Cardinality({q[i] : i \in 1 .. n}) = n
<1> DEFINE T == {q[i] : i \in 1 .. n}
           f == [i \in 1 .. n |-> q[i]]
<1>1. IsFiniteSet(1 .. n) /\ Cardinality(1 .. n) = n
  BY FS_Interval
<1>2. f \in Surjection(1 .. n, T)
  BY DEF Surjection
<1>3. f \in Injection(1 .. n, T)
  BY DEF Injection, IsInjective
<1> QED  BY <1>1, <1>2, <1>3, FS_Surjection

(* The parts of a pumped lane.                                             *)
LEMMA PumpedParts ==
    ASSUME NEW lane \in LaneStates, NEW p, p = Pumped(lane)
    PROVE  LET n == Startable(lane)
           IN  /\ p \in LaneStates
               /\ p.maxConcurrent = lane.maxConcurrent /\ p.generation = lane.generation
               /\ p.active = lane.active \cup {lane.queue[i] : i \in 1 .. n}
               /\ Len(p.queue) = Len(lane.queue) - n
               /\ \A i \in 1 .. Len(p.queue) : p.queue[i] = lane.queue[i + n]
<1> DEFINE n == Startable(lane)
           q == lane.queue
           head == {q[i] : i \in 1 .. n}
<1>1. q \in Seq(Entries) /\ n \in 0 .. Len(q)
  BY StartableBounds DEF LaneStates
<1>2. p = [lane EXCEPT !.queue = SubSeq(q, n + 1, Len(q)), !.active = lane.active \cup head]
  BY DEF Pumped
<1>3. /\ p.queue = SubSeq(q, n + 1, Len(q)) /\ p.active = lane.active \cup head
      /\ p.maxConcurrent = lane.maxConcurrent /\ p.generation = lane.generation
  BY <1>2 DEF LaneStates
<1> HIDE DEF n, q
<1>4. /\ SubSeq(q, n + 1, Len(q)) \in Seq(Entries)
      /\ Len(SubSeq(q, n + 1, Len(q))) = Len(q) - n
      /\ \A i \in 1 .. Len(q) - n : SubSeq(q, n + 1, Len(q))[i] = q[i + n]
  BY <1>1
<1>5. head \subseteq Entries
  BY <1>1
<1>6. p \in LaneStates
  BY <1>2, <1>3, <1>4, <1>5 DEF LaneStates
<1> QED  BY <1>3, <1>4, <1>6 DEF n, q

(* p is a lane good and full, with what lane started in front of what it   *)
(* left in the queue, and within the limit.                                *)
PumpsTo(l, lane, p, seq) ==
    /\ WellFormed(l, p, seq) /\ Full(p)
    /\ p.maxConcurrent = lane.maxConcurrent /\ p.generation = lane.generation
    /\ lane.active \subseteq p.active
    /\ \A e \in p.active \ lane.active :
         \E i \in 1 .. Len(lane.queue) : lane.queue[i] = e
    /\ \A i \in 1 .. Len(p.queue) :
         \E j \in 1 .. Len(lane.queue) : p.queue[i] = lane.queue[j]
    /\ p.active # lane.active => Cardinality(p.active) <= p.maxConcurrent
    /\ \A e \in p.active \ lane.active : \A i \in 1 .. Len(p.queue) :
         GoesBefore(e, p.queue[i], seq)

(* So does pump with a good lane.                                          *)
LEMMA PumpedLane ==
    ASSUME NEW l \in Lanes, NEW lane, NEW seq \in [Entries -> Nat], WellFormed(l, lane, seq),
           NEW p, p = Pumped(lane)
    PROVE  PumpsTo(l, lane, p, seq)
<1> DEFINE n == Startable(lane)
           q == lane.queue
           head == {q[i] : i \in 1 .. n}
<1>1. lane \in LaneStates /\ q \in Seq(Entries)
  BY DEF WellFormed, LaneStates
<1>2. n \in 0 .. Len(q) /\ Len(q) \in Nat
  BY <1>1, StartableBounds
<1>3. /\ p \in LaneStates
      /\ p.maxConcurrent = lane.maxConcurrent /\ p.generation = lane.generation
      /\ p.active = lane.active \cup head
      /\ Len(p.queue) = Len(q) - n
      /\ \A i \in 1 .. Len(p.queue) : p.queue[i] = q[i + n]
  BY <1>1, PumpedParts
<1>4. /\ IsFiniteSet(lane.active) /\ Cardinality(lane.active) \in Nat
      /\ lane.maxConcurrent \in Nat
      /\ n > 0 => Cardinality(lane.active) + n <= lane.maxConcurrent
      /\ n < Len(q) => Cardinality(lane.active) + n >= lane.maxConcurrent
  BY <1>1, StartableBounds
<1>5. \A i, j \in 1 .. Len(q) : q[i] = q[j] => i = j
  BY QueueIsInjective
<1>6. IsFiniteSet(head) /\ Cardinality(head) = n
  <2> HIDE DEF n, q
  <2> QED  BY <1>1, <1>2, <1>5, HeadCardinality
<1>7. /\ \A i \in 1 .. Len(q) : LaneOf[q[i]] = l /\ q[i] \notin lane.active
      /\ \A i, j \in 1 .. Len(q) : i < j => GoesBefore(q[i], q[j], seq)
      /\ \A e \in lane.active : LaneOf[e] = l
  BY DEF WellFormed
<1> HIDE DEF n, q
<1>8. \A i \in 1 .. Len(p.queue) : i + n \in 1 .. Len(q) /\ i + n > n
  BY <1>2, <1>3
<1>9. head \cap lane.active = {}
  BY <1>2, <1>7
<1>10. Cardinality(p.active) = Cardinality(lane.active) + n
  <2>1. Cardinality(p.active) = Cardinality(lane.active) + Cardinality(head)
                                  - Cardinality(lane.active \cap head)
    BY <1>3, <1>4, <1>6, FS_Union
  <2>2. lane.active \cap head = {}
    BY <1>9
  <2>3. Cardinality(lane.active \cap head) = 0
    BY <2>2, FS_EmptySet
  <2>4. /\ Cardinality(lane.active) \in Nat /\ n \in Nat
        /\ Cardinality(head) = n
    BY <1>2, <1>4, <1>6
  <2> HIDE DEF head
  <2> QED  BY <2>1, <2>3, <2>4
<1>11. WellFormed(l, p, seq)
  <2>1. \A e \in p.active : LaneOf[e] = l
    BY <1>2, <1>3, <1>7
  <2>2. ASSUME NEW i \in 1 .. Len(p.queue)
        PROVE  LaneOf[p.queue[i]] = l /\ p.queue[i] \notin p.active
    <3>1. p.queue[i] = q[i + n] /\ i + n \in 1 .. Len(q)
      BY <1>3, <1>8
    <3>2. q[i + n] \notin head
      BY <1>2, <1>5, <1>8
    <3> QED  BY <3>1, <3>2, <1>3, <1>7
  <2>3. ASSUME NEW i \in 1 .. Len(p.queue), NEW j \in 1 .. Len(p.queue), i < j
        PROVE  GoesBefore(p.queue[i], p.queue[j], seq)
    <3>1. i + n < j + n
      BY <1>2, <2>3
    <3> QED  BY <3>1, <1>3, <1>7, <1>8, <2>3
  <2> QED  BY <1>3, <2>1, <2>2, <2>3 DEF WellFormed
<1>12. Full(p)
  <2> SUFFICES ASSUME p.queue # <<>>
               PROVE  Cardinality(p.active) >= p.maxConcurrent
    BY DEF Full
  <2>1. Len(p.queue) > 0
    <3>1. p.queue \in Seq(Entries)
      BY <1>3 DEF LaneStates
    <3> QED  BY <3>1
  <2> QED  BY <2>1, <1>2, <1>3, <1>4, <1>10
<1>13. p.active # lane.active => Cardinality(p.active) <= p.maxConcurrent
  <2>1. p.active # lane.active => n > 0
    BY <1>2, <1>3
  <2> QED  BY <2>1, <1>3, <1>4, <1>10
<1>14. \A e \in p.active \ lane.active : \E i \in 1 .. n : q[i] = e
  BY <1>3
<1>15. ASSUME NEW e \in p.active \ lane.active, NEW i \in 1 .. Len(p.queue)
       PROVE  GoesBefore(e, p.queue[i], seq)
  <2>1. PICK k \in 1 .. n : q[k] = e
    BY <1>14
  <2>2. k \in 1 .. Len(q) /\ k < i + n
    BY <1>2, <1>8
  <2> QED  BY <2>1, <2>2, <1>3, <1>7, <1>8
<1>16. \A e \in p.active \ lane.active : \E i \in 1 .. Len(q) : q[i] = e
  BY <1>2, <1>14
<1>17. \A i \in 1 .. Len(p.queue) : \E j \in 1 .. Len(q) : p.queue[i] = q[j]
  BY <1>3, <1>8
<1> QED  BY <1>3, <1>11, <1>12, <1>13, <1>15, <1>16, <1>17 DEF q, PumpsTo

(* A set of numbers that is not empty has a least one.                     *)
LEMMA LeastNumber ==
    ASSUME NEW T \in SUBSET Nat, T # {}
    PROVE  \E i \in T : \A j \in T : i <= j
<1>1. IsWellFoundedOn(OpToRel(<, Nat), Nat)
  BY NatLessThanWellFounded
<1>2. PICK i \in T : \A j \in T : <<j, i>> \notin OpToRel(<, Nat)
  BY <1>1, WFMin
<1>3. \A j \in T : ~(j < i)
  BY <1>2 DEF OpToRel
<1> QED  BY <1>3

(* f gives its place to e, which comes in front of it.                     *)
Yields(f, e, seq) ==
    \/ PriorityOf[f] < PriorityOf[e]
    \/ PriorityOf[f] = PriorityOf[e] /\ seq[f] > seq[e]

(* r is q with e at place k, in front of the first entry that yields to it.*)
PlacedAt(k, r, q, e, seq) ==
    /\ r[k] = e
    /\ \A i \in 1 .. k - 1 : r[i] = q[i] /\ ~Yields(q[i], e, seq)
    /\ \A i \in k + 1 .. Len(r) : r[i] = q[i - 1]
    /\ k <= Len(q) => Yields(q[k], e, seq)

LEMMA EnqueuedParts ==
    ASSUME NEW q \in Seq(Entries), NEW e \in Entries, NEW seq,
           NEW r, r = EnqueueLaneEntry(q, e, seq)
    PROVE  /\ r \in Seq(Entries) /\ Len(r) = Len(q) + 1
           /\ \E k \in 1 .. Len(r) : PlacedAt(k, r, q, e, seq)
<1> DEFINE Behind(i) == Yields(q[i], e, seq)
           behind == {i \in 1 .. Len(q) : Behind(i)}
<1> HIDE DEF Behind
<1>1. Len(q) \in Nat /\ behind \in SUBSET Nat
  OBVIOUS
<1>2. CASE behind = {}
  <2>1. r = Append(q, e)
    BY <1>2 DEF EnqueueLaneEntry, Behind, Yields
  <2>2. /\ r \in Seq(Entries) /\ Len(r) = Len(q) + 1 /\ r[Len(q) + 1] = e
        /\ \A i \in 1 .. Len(q) : r[i] = q[i]
    BY <2>1
  <2>3. \A i \in 1 .. Len(q) : ~Behind(i)
    BY <1>2
  <2>4. Len(q) + 1 \in 1 .. Len(r)
    BY <1>1, <2>2
  <2> DEFINE k == Len(q) + 1
  <2>5. /\ r[k] = e
        /\ \A i \in 1 .. k - 1 : r[i] = q[i] /\ ~Behind(i)
        /\ \A i \in k + 1 .. Len(r) : r[i] = q[i - 1]
        /\ k <= Len(q) => Behind(k)
    BY <1>1, <2>2, <2>3
  <2> HIDE DEF k
  <2> QED  BY <2>2, <2>4, <2>5 DEF k, Behind, PlacedAt
<1>3. CASE behind # {}
  <2> DEFINE k == CHOOSE i \in behind : \A j \in behind : i <= j
  <2>1. k \in behind /\ \A j \in behind : k <= j
    <3> HIDE DEF behind
    <3>1. \E i \in behind : \A j \in behind : i <= j
      BY <1>1, <1>3, LeastNumber
    <3> QED  BY <3>1
  <2>2. r = SubSeq(q, 1, k - 1) \o <<e>> \o SubSeq(q, k, Len(q))
    BY <1>3 DEF EnqueueLaneEntry, Behind, Yields, InsertAt
  <2> HIDE DEF k
  <2>3. k \in 1 .. Len(q) /\ Behind(k)
    BY <2>1
  <2>4. \A i \in 1 .. k - 1 : ~Behind(i)
    BY <2>1, <2>3, <1>1
  <2> DEFINE s == SubSeq(q, 1, k - 1)
             t == SubSeq(q, k, Len(q))
  <2>5. /\ s \in Seq(Entries) /\ Len(s) = k - 1
        /\ \A i \in 1 .. k - 1 : s[i] = q[i]
    BY <1>1, <2>3
  <2>6. /\ t \in Seq(Entries) /\ Len(t) = Len(q) - k + 1
        /\ \A i \in 1 .. Len(q) - k + 1 : t[i] = q[i + k - 1]
    BY <1>1, <2>3
  <2> HIDE DEF s, t
  <2>7. r = s \o <<e>> \o t
    BY <2>2 DEF s, t
  <2> DEFINE u == s \o <<e>>
  <2>8. /\ u \in Seq(Entries) /\ Len(u) = k /\ u[k] = e
        /\ \A i \in 1 .. k - 1 : u[i] = s[i]
    BY <2>3, <2>5
  <2>9. r = u \o t
    BY <2>7
  <2> HIDE DEF u
  <2>10. /\ r \in Seq(Entries) /\ Len(r) = Len(q) + 1 /\ r[k] = e
         /\ \A i \in 1 .. k - 1 : r[i] = s[i]
         /\ \A i \in k + 1 .. Len(r) : r[i] = t[i - k]
    <3>1. r \in Seq(Entries) /\ Len(r) = Len(u) + Len(t)
      BY <2>8, <2>6, <2>9, ConcatProperties
    <3>2. Len(r) = Len(q) + 1
      BY <1>1, <2>3, <2>8, <2>6, <3>1
    <3>3. \A i \in 1 .. Len(u) : r[i] = u[i]
      BY <2>8, <2>6, <2>9, ConcatProperties
    <3>4. \A i \in Len(u) + 1 .. Len(u) + Len(t) : r[i] = t[i - Len(u)]
      <4>1. \A i \in 1 .. Len(u) + Len(t) :
               (u \o t)[i] = IF i <= Len(u) THEN u[i] ELSE t[i - Len(u)]
        BY <2>8, <2>6, ConcatProperties
      <4>2. Len(u) \in Nat /\ Len(t) \in Nat
        BY <2>8, <2>6
      <4> QED  BY <4>1, <4>2, <2>9
    <3>5. k \in 1 .. Len(u) /\ \A i \in 1 .. k - 1 : i \in 1 .. Len(u)
      BY <1>1, <2>3, <2>8
    <3> QED  BY <2>8, <3>1, <3>2, <3>3, <3>4, <3>5
  <2>11. \A i \in k + 1 .. Len(r) : r[i] = q[i - 1]
    <3> SUFFICES ASSUME NEW i \in k + 1 .. Len(r) PROVE r[i] = q[i - 1]
      OBVIOUS
    <3>1. i - k \in 1 .. Len(q) - k + 1 /\ (i - k) + k - 1 = i - 1
      BY <1>1, <2>3, <2>10
    <3>2. t[i - k] = q[(i - k) + k - 1]
      BY <3>1, <2>6
    <3> QED  BY <3>1, <3>2, <2>10
  <2>12. k \in 1 .. Len(r)
    BY <1>1, <2>3, <2>10
  <2>13. /\ r[k] = e
         /\ \A i \in 1 .. k - 1 : r[i] = q[i] /\ ~Behind(i)
         /\ \A i \in k + 1 .. Len(r) : r[i] = q[i - 1]
         /\ k <= Len(q) => Behind(k)
    BY <2>3, <2>4, <2>5, <2>10, <2>11
  <2> QED  BY <2>10, <2>12, <2>13 DEF Behind, PlacedAt
<1> QED  BY <1>2, <1>3

(* p is lane, still good, with e somewhere in its queue.                   *)
EnqueuesTo(l, lane, e, p, seq) ==
    /\ WellFormed(l, p, seq)
    /\ p.active = lane.active /\ p.maxConcurrent = lane.maxConcurrent
    /\ p.generation = lane.generation
    /\ \A i \in 1 .. Len(p.queue) :
         \/ p.queue[i] = e
         \/ \E j \in 1 .. Len(lane.queue) : p.queue[i] = lane.queue[j]

(* So is a lane that receives e, the last to arrive.                       *)
LEMMA EnqueuedLane ==
    ASSUME NEW l \in Lanes, NEW lane, NEW old \in [Entries -> Nat], WellFormed(l, lane, old),
           NEW e \in Entries, LaneOf[e] = l, e \notin lane.active,
           \A i \in 1 .. Len(lane.queue) : lane.queue[i] # e,
           NEW seq \in [Entries -> Nat],
           \A f \in Entries \ {e} : seq[f] = old[f] /\ seq[f] < seq[e],
           NEW p, p = Queueing(lane, e, seq)
    PROVE  EnqueuesTo(l, lane, e, p, seq)
<1> DEFINE q == lane.queue
           r == EnqueueLaneEntry(q, e, seq)
<1>1. lane \in LaneStates /\ q \in Seq(Entries) /\ Len(q) \in Nat
  BY DEF WellFormed, LaneStates
<1>2. r \in Seq(Entries) /\ Len(r) = Len(q) + 1
  <2> HIDE DEF q
  <2> QED  BY <1>1, EnqueuedParts
<1>3. PICK k \in 1 .. Len(r) : PlacedAt(k, r, q, e, seq)
  <2> HIDE DEF q
  <2> QED  BY <1>1, EnqueuedParts
<1>4. p = [lane EXCEPT !.queue = r]
  BY DEF Queueing
<1> HIDE DEF r
<1>5. /\ p \in LaneStates
      /\ p.queue = r /\ p.active = lane.active /\ p.maxConcurrent = lane.maxConcurrent
      /\ p.generation = lane.generation
  BY <1>1, <1>2, <1>4 DEF LaneStates
<1>6. /\ \A i \in 1 .. Len(q) : /\ LaneOf[q[i]] = l /\ q[i] \notin lane.active
                                /\ q[i] \in Entries /\ q[i] # e
      /\ \A i, j \in 1 .. Len(q) : i < j => GoesBefore(q[i], q[j], old)
      /\ \A f \in lane.active : LaneOf[f] = l
  BY <1>1 DEF WellFormed
<1> HIDE DEF q
<1>7. ASSUME NEW i \in 1 .. Len(r)
      PROVE  \/ i < k /\ i \in 1 .. Len(q) /\ r[i] = q[i]
             \/ i = k /\ r[i] = e
             \/ i > k /\ i - 1 \in 1 .. Len(q) /\ r[i] = q[i - 1]
  <2>1. i \in Int /\ k \in Int /\ 1 <= i /\ 1 <= k /\ i <= Len(q) + 1 /\ k <= Len(q) + 1
    BY <1>1, <1>2
  <2>2. CASE i < k
    <3>1. i \in 1 .. k - 1 /\ i \in 1 .. Len(q)
      BY <2>1, <2>2, <1>1
    <3> QED  BY <2>2, <3>1, <1>3 DEF PlacedAt
  <2>3. CASE i = k
    BY <2>3, <1>3 DEF PlacedAt
  <2>4. CASE i > k
    <3>1. i \in k + 1 .. Len(r) /\ i - 1 \in 1 .. Len(q)
      BY <2>1, <2>4, <1>1, <1>2
    <3> QED  BY <2>4, <3>1, <1>3 DEF PlacedAt
  <2> QED  BY <2>1, <2>2, <2>3, <2>4
<1>8. \A f \in Entries : PriorityOf[f] \in 0 .. 2 /\ seq[f] \in Nat
  BY LanesAssumption
<1>9. \A i, j \in 1 .. Len(q) : i < j => GoesBefore(q[i], q[j], seq)
  BY <1>6 DEF GoesBefore
<1>10. \A i \in 1 .. k - 1 : GoesBefore(q[i], e, seq)
  <2> SUFFICES ASSUME NEW i \in 1 .. k - 1 PROVE GoesBefore(q[i], e, seq)
    OBVIOUS
  <2>1. i \in 1 .. Len(q) /\ ~Yields(q[i], e, seq)
    BY <1>1, <1>2, <1>3 DEF PlacedAt
  <2>2. q[i] \in Entries /\ q[i] # e /\ seq[q[i]] < seq[e]
    BY <2>1, <1>6
  <2> QED  BY <2>1, <2>2, <1>8 DEF GoesBefore, Yields
<1>11. \A i \in k .. Len(q) : GoesBefore(e, q[i], seq)
  <2> SUFFICES ASSUME NEW i \in k .. Len(q) PROVE GoesBefore(e, q[i], seq)
    OBVIOUS
  <2>1. k \in 1 .. Len(q) /\ i \in 1 .. Len(q) /\ Yields(q[k], e, seq)
    <3>1. k \in 1 .. Len(q) /\ i \in 1 .. Len(q) /\ k <= Len(q)
      BY <1>1, <1>2
    <3> QED  BY <3>1, <1>3 DEF PlacedAt
  <2>2. q[k] \in Entries /\ q[i] \in Entries /\ seq[q[k]] < seq[e]
    BY <2>1, <1>6
  <2>3. /\ PriorityOf[q[k]] \in 0 .. 2 /\ PriorityOf[q[i]] \in 0 .. 2
        /\ PriorityOf[e] \in 0 .. 2
        /\ seq[q[k]] \in Nat /\ seq[e] \in Nat
    BY <2>2, <1>8
  <2>4. PriorityOf[q[k]] < PriorityOf[e]
    BY <2>1, <2>2, <2>3 DEF Yields
  <2>5. k = i \/ GoesBefore(q[k], q[i], seq)
    <3>1. k = i \/ k < i
      BY <1>2
    <3> QED  BY <2>1, <3>1, <1>9
  <2>6. PriorityOf[q[i]] <= PriorityOf[q[k]]
    BY <2>3, <2>5 DEF GoesBefore
  <2>7. PriorityOf[e] > PriorityOf[q[i]]
    BY <2>3, <2>4, <2>6
  <2> QED  BY <2>7 DEF GoesBefore
<1>12. ASSUME NEW i \in 1 .. Len(r)
       PROVE  LaneOf[r[i]] = l /\ r[i] \notin lane.active
  <2>1. r[i] = e \/ \E j \in 1 .. Len(q) : r[i] = q[j]
    BY <1>7
  <2> QED  BY <2>1, <1>6
<1>13. ASSUME NEW i \in 1 .. Len(r), NEW j \in 1 .. Len(r), i < j
       PROVE  GoesBefore(r[i], r[j], seq)
  <2>1. i \in Int /\ j \in Int /\ k \in Int
    BY <1>2
  <2>2. /\ i < k => i \in 1 .. Len(q) /\ r[i] = q[i]
        /\ i = k => r[i] = e
        /\ i > k => i - 1 \in 1 .. Len(q) /\ r[i] = q[i - 1]
    BY <2>1, <1>7
  <2>3. /\ j < k => j \in 1 .. Len(q) /\ r[j] = q[j]
        /\ j = k => r[j] = e
        /\ j > k => j - 1 \in 1 .. Len(q) /\ r[j] = q[j - 1]
    BY <2>1, <1>7
  <2>4. CASE j < k
    BY <2>1, <2>4, <2>2, <2>3, <1>9, <1>13
  <2>5. CASE j = k
    <3>1. i \in 1 .. k - 1
      BY <2>1, <2>5, <1>13
    <3> QED  BY <2>1, <2>5, <2>2, <2>3, <3>1, <1>10
  <2>6. CASE i < k /\ k < j
    <3>1. i < j - 1
      BY <2>1, <2>6
    <3> QED  BY <2>6, <2>2, <2>3, <3>1, <1>9
  <2>7. CASE i = k
    <3>1. j - 1 \in k .. Len(q) /\ j > k
      BY <2>1, <2>7, <2>3, <1>13
    <3> QED  BY <2>7, <2>2, <2>3, <3>1, <1>11
  <2>8. CASE k < i
    <3>1. i - 1 < j - 1 /\ j > k
      BY <2>1, <2>8, <1>13
    <3> QED  BY <2>8, <2>2, <2>3, <3>1, <1>9
  <2> QED  BY <2>1, <2>4, <2>5, <2>6, <2>7, <2>8, <1>13
<1>14. ASSUME NEW i \in 1 .. Len(r)
       PROVE  r[i] = e \/ \E j \in 1 .. Len(q) : r[i] = q[j]
  BY <1>7
<1>15. WellFormed(l, p, seq)
  BY <1>5, <1>6, <1>12, <1>13 DEF WellFormed
<1> QED  BY <1>5, <1>14, <1>15 DEF q, EnqueuesTo

-----------------------------------------------------------------------------
(* One lane in a step.                                                     *)

(* e was not started before this step.                                     *)
Unstarted(l, e) ==
    \/ promise[e] = "none"
    \/ \E i \in 1 .. Len(lanes[l].queue) : lanes[l].queue[i] = e

(* What every step does to lane l.                                         *)
GoodStep(l) ==
    /\ lanes'[l] \in LaneStates /\ LaneInv(l)'
    /\ \A e \in lanes'[l].active \ lanes[l].active : Unstarted(l, e)
    /\ \A i \in 1 .. Len(lanes'[l].queue) : Unstarted(l, lanes'[l].queue[i])
    /\ ~(lanes'[l].active \subseteq lanes[l].active)
         => Cardinality(lanes'[l].active) <= lanes'[l].maxConcurrent
    /\ \A e \in lanes'[l].active \ lanes[l].active :
         \A i \in 1 .. Len(lanes'[l].queue) : GoesBefore(e, lanes'[l].queue[i], sequence')

(* The tasks a step starts, and only they, are of the lane's generation.   *)
StartsAreNoted ==
    /\ executing' \subseteq executing \cup Started
    /\ \A e \in Entries : startedIn'[e] = IF e \in Started THEN lanes'[LaneOf[e]].generation
                                         ELSE startedIn[e]

(* A lane that is pumped, from what the step first made of it.             *)
LEMMA LaneAdvances ==
    ASSUME NEW l \in Lanes, LaneInv(l), StartsAreNoted, sequence' \in [Entries -> Nat],
           NEW lane, WellFormed(l, lane, sequence'), lanes'[l] = Pumped(lane),
           lane.active \subseteq lanes[l].active,
           lane.active = {} \/ lane.generation = lanes[l].generation,
           \A e \in lane.active : promise'[e] = "pending",
           \A i \in 1 .. Len(lane.queue) : /\ promise'[lane.queue[i]] = "pending"
                                          /\ lane.queue[i] \notin lanes[l].active
                                          /\ lane.queue[i] \notin executing
                                          /\ Unstarted(l, lane.queue[i])
    PROVE  GoodStep(l)
<1>1. PICK p : p = lanes'[l]
  OBVIOUS
<1>2. PumpsTo(l, lane, p, sequence')
  BY <1>1, PumpedLane
<1> USE DEF PumpsTo
<1>3. p \in LaneStates /\ \A e \in p.active : e \in Entries /\ LaneOf[e] = l
  BY <1>2 DEF WellFormed, LaneStates
<1>4. \A e \in p.active \ lanes[l].active :
        \E i \in 1 .. Len(lane.queue) : lane.queue[i] = e
  BY <1>2
<1>5. ASSUME NEW e \in p.active
      PROVE  promise'[e] = "pending" /\ startedIn'[e] = p.generation
  <2>1. CASE e \in lane.active
    <3>1. e \in lanes[l].active /\ startedIn[e] = lanes[l].generation
      BY <2>1 DEF LaneInv, Works
    <3>2. e \notin Started
      BY <3>1, <1>3 DEF Started
    <3> QED  BY <2>1, <3>1, <3>2, <1>2, <1>3 DEF StartsAreNoted
  <2>2. CASE e \notin lane.active
    <3>1. promise'[e] = "pending" /\ e \notin lanes[l].active
      BY <2>2, <1>2
    <3>2. e \in Started
      BY <3>1, <1>1, <1>3 DEF Started
    <3> QED  BY <3>1, <3>2, <1>1, <1>3 DEF StartsAreNoted
  <2> QED  BY <2>1, <2>2
<1>6. \A i \in 1 .. Len(p.queue) :
        promise'[p.queue[i]] = "pending" /\ p.queue[i] \notin executing'
  <2>1. \A i \in 1 .. Len(p.queue) : LaneOf[p.queue[i]] = l /\ p.queue[i] \notin p.active
    BY <1>2 DEF WellFormed
  <2>2. \A i \in 1 .. Len(p.queue) : p.queue[i] \notin Started
    BY <2>1, <1>1 DEF Started
  <2> QED  BY <2>2, <1>2 DEF StartsAreNoted
<1>7. LaneInv(l)'
  BY <1>1, <1>2, <1>5, <1>6 DEF LaneInv, Pending, Works
<1>8. \A e \in p.active \ lanes[l].active : Unstarted(l, e)
  BY <1>4
<1>9. \A i \in 1 .. Len(p.queue) : Unstarted(l, p.queue[i])
  BY <1>2
<1> QED  BY <1>1, <1>2, <1>3, <1>7, <1>8, <1>9 DEF GoodStep

(* A lane that starts nothing: left alone, cleared or throttled to nothing.*)
LEMMA LaneRests ==
    ASSUME NEW l \in Lanes, LaneInv(l), StartsAreNoted, lanes'[l] \in LaneStates,
           lanes'[l].active = lanes[l].active, lanes'[l].generation = lanes[l].generation,
           lanes'[l].queue \in {lanes[l].queue, <<>>},
           lanes'[l].maxConcurrent \in {lanes[l].maxConcurrent, 0},
           \A e \in lanes[l].active : promise'[e] = promise[e],
           \A i \in 1 .. Len(lanes'[l].queue) :
              LET e == lanes[l].queue[i]
              IN  promise'[e] = promise[e] /\ sequence'[e] = sequence[e]
    PROVE  GoodStep(l)
<1>1. PICK p : p = lanes'[l]
  OBVIOUS
<1> DEFINE lane == lanes[l]
<1>2. /\ WellFormed(l, lane, sequence) /\ Full(lane)
      /\ \A i \in 1 .. Len(lane.queue) :
           promise[lane.queue[i]] = "pending" /\ lane.queue[i] \notin executing
      /\ \A e \in lane.active : promise[e] = "pending" /\ startedIn[e] = lane.generation
  BY DEF LaneInv, Pending, Works
<1>3. /\ \A e \in lane.active : e \in Entries /\ LaneOf[e] = l
      /\ \A i \in 1 .. Len(lane.queue) :
           LaneOf[lane.queue[i]] = l /\ lane.queue[i] \notin lane.active
      /\ \A i, j \in 1 .. Len(lane.queue) :
           i < j => GoesBefore(lane.queue[i], lane.queue[j], sequence)
  BY <1>2 DEF WellFormed, LaneStates
<1>4. \/ p.queue = lane.queue
      \/ p.queue = <<>> /\ Len(p.queue) = 0
  BY <1>1
<1>5. ASSUME NEW i \in 1 .. Len(p.queue)
      PROVE  /\ i \in 1 .. Len(lane.queue) /\ p.queue[i] = lane.queue[i]
             /\ promise'[p.queue[i]] = "pending" /\ p.queue[i] \notin executing'
             /\ sequence'[p.queue[i]] = sequence[p.queue[i]]
  <2>1. i \in 1 .. Len(lane.queue) /\ p.queue[i] = lane.queue[i]
    BY <1>4
  <2>2. p.queue[i] \notin Started
    BY <2>1, <1>1, <1>3 DEF Started
  <2> QED  BY <2>1, <2>2, <1>1, <1>2 DEF StartsAreNoted
<1>6. WellFormed(l, p, sequence')
  BY <1>1, <1>3, <1>5 DEF WellFormed, GoesBefore
<1>7. Full(p)
  <2>1. IsFiniteSet(p.active) /\ Cardinality(p.active) \in Nat
    BY <1>1, StartableBounds
  <2> QED  BY <1>1, <1>2, <1>4, <2>1 DEF Full
<1>8. \A e \in p.active : promise'[e] = "pending" /\ startedIn'[e] = p.generation
  <2>1. \A e \in p.active : e \notin Started
    BY <1>1, <1>3 DEF Started
  <2> QED  BY <2>1, <1>1, <1>2, <1>3 DEF StartsAreNoted
<1>9. LaneInv(l)'
  BY <1>1, <1>5, <1>6, <1>7, <1>8 DEF LaneInv, Pending, Works
<1>10. \A i \in 1 .. Len(p.queue) : Unstarted(l, p.queue[i])
  BY <1>5 DEF Unstarted
<1> QED  BY <1>1, <1>9, <1>10 DEF GoodStep

-----------------------------------------------------------------------------
(* Steps.                                                                  *)

(* What a step does to the waiters: it wakes them, or takes no task from   *)
(* any lane.                                                               *)
WaitsAreKept ==
    /\ captured' = captured
    /\ \/ NotifyActiveTaskWaiters
       \/ /\ \A w \in Waiters : wait'[w] \in {wait[w], "timedOut"}
          /\ \A l \in Lanes : lanes[l].active \subseteq lanes'[l].active

(* What every step does to the whole.                                      *)
StepInv ==
    /\ TypeOK'
    /\ ArrivalInv'
    /\ \A l \in Lanes : GoodStep(l)
    /\ \A e \in Entries : promise[e] # "none" => promise'[e] # "none"

(* Run notes what starts.                                                  *)
LEMMA RunNotes ==
    ASSUME TypeOK, lanes' \in [Lanes -> LaneStates],
           Run(executing) \/ \E e \in Entries : Run(executing \ {e})
    PROVE  /\ executing' \subseteq Entries
           /\ startedIn' \in [Entries -> 0 .. MaxResets]
           /\ StartsAreNoted
<1>1. Started \subseteq Entries
  BY DEF Started
<1>2. executing' \subseteq executing \cup Started
  BY DEF Run
<1>3. startedIn' = [e \in Entries |-> IF e \in Started THEN lanes'[LaneOf[e]].generation
                                    ELSE startedIn[e]]
  BY DEF Run
<1>4. \A e \in Entries : lanes'[LaneOf[e]].generation \in 0 .. MaxResets
  BY LanesAssumption DEF LaneStates
<1>5. executing' \subseteq Entries
  BY <1>1, <1>2 DEF TypeOK
<1> QED  BY <1>2, <1>3, <1>4, <1>5 DEF StartsAreNoted, TypeOK

(* Nothing starts, so nothing is to be noted.                              *)
LEMMA NothingStarts ==
    ASSUME TypeOK, \A l \in Lanes : lanes'[l].active \subseteq lanes[l].active,
           executing' \subseteq executing, startedIn' = startedIn
    PROVE  StartsAreNoted
BY LanesAssumption DEF Started, StartsAreNoted, TypeOK

(* A good lane has its entries, and no other lane has them.                *)
LEMMA LaneEntries ==
    ASSUME NEW l \in Lanes, LaneInv(l), TypeOK
    PROVE  /\ lanes[l] \in LaneStates /\ Len(lanes[l].queue) \in Nat
           /\ \A e \in lanes[l].active : /\ e \in Entries /\ LaneOf[e] = l
                                         /\ promise[e] = "pending"
                                         /\ startedIn[e] = lanes[l].generation
           /\ \A i \in 1 .. Len(lanes[l].queue) :
                LET e == lanes[l].queue[i]
                IN  /\ e \in Entries /\ LaneOf[e] = l /\ promise[e] = "pending"
                    /\ e \notin lanes[l].active /\ e \notin executing
<1>1. lanes[l] \in LaneStates /\ Len(lanes[l].queue) \in Nat
  BY DEF TypeOK, LaneStates
<1>2. \A i \in 1 .. Len(lanes[l].queue) : lanes[l].queue[i] \in Entries
  BY <1>1 DEF LaneStates
<1>3. \A e \in lanes[l].active : e \in Entries
  BY <1>1 DEF LaneStates
<1> QED  BY <1>1, <1>2, <1>3 DEF LaneInv, WellFormed, Pending, Works

(* A step that leaves the lanes, the promises and the order alone.         *)
LEMMA LanesRest ==
    ASSUME IInv, lanes' = lanes, promise' = promise, sequence' = sequence,
           executing' \subseteq executing, startedIn' = startedIn
    PROVE  \A l \in Lanes : GoodStep(l)
<1>1. StartsAreNoted
  BY NothingStarts DEF IInv
<1>2. ASSUME NEW l \in Lanes PROVE GoodStep(l)
  <2>1. lanes[l] \in LaneStates /\ LaneInv(l)
    BY DEF IInv, TypeOK
  <2> QED  BY <1>1, <2>1, LaneRests
<1> QED  BY <1>2

(* The lanes a step does not turn to.                                      *)
LEMMA OthersRest ==
    ASSUME IInv, NEW l \in Lanes, StartsAreNoted,
           \A k \in Lanes \ {l} : lanes'[k] = lanes[k],
           \A e \in Entries :
              LaneOf[e] # l => promise'[e] = promise[e] /\ sequence'[e] = sequence[e]
    PROVE  \A k \in Lanes \ {l} : GoodStep(k)
<1> SUFFICES ASSUME NEW k \in Lanes \ {l} PROVE GoodStep(k)
  OBVIOUS
<1>1. /\ lanes[k] \in LaneStates /\ LaneInv(k) /\ lanes'[k] = lanes[k]
      /\ \A e \in lanes[k].active : e \in Entries /\ LaneOf[e] = k
      /\ \A i \in 1 .. Len(lanes[k].queue) :
           lanes[k].queue[i] \in Entries /\ LaneOf[lanes[k].queue[i]] = k
  BY LaneEntries DEF IInv
<1> QED  BY <1>1, LaneRests

(* What a step does that turns to one lane, makes `lane` of it and pumps it*)
AdvancesTo(l, lane) ==
    /\ lanes' \in [Lanes -> LaneStates]
    /\ executing' \subseteq Entries /\ executing' \subseteq executing \cup Started
    /\ startedIn' \in [Entries -> 0 .. MaxResets]
    /\ \A k \in Lanes : GoodStep(k)
    /\ lane.active \subseteq lanes'[l].active
    /\ \A k \in Lanes \ {l} : lanes'[k] = lanes[k]

LEMMA OneLaneAdvances ==
    ASSUME IInv, NEW l \in Lanes, NEW lane, sequence' \in [Entries -> Nat],
           WellFormed(l, lane, sequence'), lanes' = [lanes EXCEPT ![l] = Pumped(lane)],
           Run(executing) \/ \E e \in Entries : Run(executing \ {e}),
           \A e \in Entries :
              LaneOf[e] # l => promise'[e] = promise[e] /\ sequence'[e] = sequence[e],
           lane.active \subseteq lanes[l].active,
           lane.active = {} \/ lane.generation = lanes[l].generation,
           \A e \in lane.active : promise'[e] = "pending",
           \A i \in 1 .. Len(lane.queue) : /\ promise'[lane.queue[i]] = "pending"
                                          /\ lane.queue[i] \notin lanes[l].active
                                          /\ lane.queue[i] \notin executing
                                          /\ Unstarted(l, lane.queue[i])
    PROVE  AdvancesTo(l, lane)
<1>1. TypeOK /\ LaneInv(l)
  BY DEF IInv
<1>2. lanes'[l] = Pumped(lane) /\ \A k \in Lanes \ {l} : lanes'[k] = lanes[k]
  BY <1>1 DEF TypeOK
<1>3. PumpsTo(l, lane, Pumped(lane), sequence')
  BY PumpedLane
<1>4. Pumped(lane) \in LaneStates /\ lane.active \subseteq Pumped(lane).active
  BY <1>3 DEF PumpsTo, WellFormed
<1>5. lanes' \in [Lanes -> LaneStates]
  BY <1>1, <1>4 DEF TypeOK
<1>6. /\ executing' \subseteq Entries /\ startedIn' \in [Entries -> 0 .. MaxResets]
      /\ StartsAreNoted
  BY <1>1, <1>5, RunNotes
<1>7. GoodStep(l)
  BY <1>1, <1>2, <1>6, LaneAdvances
<1>8. \A k \in Lanes \ {l} : GoodStep(k)
  BY <1>2, <1>6, OthersRest
<1> QED  BY <1>2, <1>4, <1>5, <1>6, <1>7, <1>8 DEF StartsAreNoted, AdvancesTo

(* A task that starts has a caller who waits for it.                       *)
LEMMA StartedArePending ==
    ASSUME \A l \in Lanes : GoodStep(l)
    PROVE  \A e \in Started : promise'[e] = "pending"
BY LanesAssumption DEF Started, GoodStep, LaneInv, Works

(* The steps of a caller.                                                  *)
LEMMA EnqueueStep ==
    ASSUME IInv, NEW e \in Entries, EnqueueCommandInLane(e)
    PROVE  StepInv /\ WaitsAreKept
<1> DEFINE l == LaneOf[e]
<1>1. /\ TypeOK /\ ArrivalInv /\ l \in Lanes /\ LaneInv(l) /\ promise[e] = "none"
      /\ \A k \in Lanes : LaneInv(k)
  BY LanesAssumption DEF IInv, EnqueueCommandInLane
<1>2. /\ gatewayDraining' = gatewayDraining /\ wait' = wait /\ captured' = captured
  BY DEF EnqueueCommandInLane, waitVars
<1>3. CASE gatewayDraining
  <2>1. /\ promise' = [promise EXCEPT ![e] = "refused"]
        /\ lanes' = lanes /\ executing' = executing /\ startedIn' = startedIn
        /\ sequence' = sequence /\ nextSequence' = nextSequence
    BY <1>3 DEF EnqueueCommandInLane, arrivalVars
  <2>2. TypeOK'
    BY <1>1, <1>2, <2>1 DEF TypeOK, Promises
  <2>3. ArrivalInv'
    BY <1>1, <2>1 DEF ArrivalInv, TypeOK
  <2>4. StartsAreNoted
    BY <1>1, <2>1, NothingStarts
  <2>5. ASSUME NEW k \in Lanes PROVE GoodStep(k)
    <3>1. /\ \A f \in lanes[k].active : f \in Entries /\ f # e
          /\ \A i \in 1 .. Len(lanes[k].queue) :
               lanes[k].queue[i] \in Entries /\ lanes[k].queue[i] # e
      BY <1>1, LaneEntries
    <3>2. /\ \A f \in lanes[k].active : promise'[f] = promise[f]
          /\ \A i \in 1 .. Len(lanes[k].queue) :
               promise'[lanes[k].queue[i]] = promise[lanes[k].queue[i]]
      BY <1>1, <2>1, <3>1 DEF TypeOK
    <3>3. lanes[k] \in LaneStates
      BY <1>1 DEF TypeOK
    <3> QED  BY <1>1, <2>1, <2>4, <3>2, <3>3, LaneRests
  <2>6. WaitsAreKept
    BY <1>2, <2>1 DEF WaitsAreKept
  <2>7. \A f \in Entries : promise[f] # "none" => promise'[f] # "none"
    BY <1>1, <2>1 DEF TypeOK
  <2> QED  BY <2>2, <2>3, <2>5, <2>6, <2>7 DEF StepInv
<1>4. CASE ~gatewayDraining
  <2> DEFINE lane == Queueing(lanes[l], e, sequence')
  <2>1. /\ promise' = [promise EXCEPT ![e] = "pending"]
        /\ sequence' = [sequence EXCEPT ![e] = nextSequence]
        /\ nextSequence' = nextSequence + 1
        /\ lanes' = [lanes EXCEPT ![l] = Pumped(lane)]
        /\ Run(executing)
    BY <1>4 DEF EnqueueCommandInLane
  <2>2. /\ sequence' \in [Entries -> Nat]
        /\ \A f \in Entries \ {e} : sequence'[f] = sequence[f] /\ sequence'[f] < sequence'[e]
        /\ \A f \in Entries : sequence'[f] < nextSequence'
    BY <1>1, <2>1 DEF TypeOK, ArrivalInv
  <2>3. /\ lanes[l] \in LaneStates /\ WellFormed(l, lanes[l], sequence)
        /\ sequence \in [Entries -> Nat]
    BY <1>1 DEF TypeOK, LaneInv
  <2>4. /\ e \notin lanes[l].active /\ e \notin executing
        /\ \A i \in 1 .. Len(lanes[l].queue) : lanes[l].queue[i] # e
        /\ \A f \in lanes[l].active : f \in Entries /\ promise[f] = "pending"
        /\ \A i \in 1 .. Len(lanes[l].queue) :
             LET f == lanes[l].queue[i]
             IN  /\ f \in Entries /\ promise[f] = "pending"
                 /\ f \notin lanes[l].active /\ f \notin executing
    BY <1>1, LaneEntries DEF ArrivalInv
  <2>5. EnqueuesTo(l, lanes[l], e, lane, sequence')
    <3> HIDE DEF l
    <3>1. l \in Lanes /\ LaneOf[e] = l
      BY <1>1 DEF l
    <3> QED  BY <2>2, <2>3, <2>4, <3>1, EnqueuedLane
  <2>6. /\ \A f \in lane.active : promise'[f] = "pending"
        /\ \A i \in 1 .. Len(lane.queue) : /\ promise'[lane.queue[i]] = "pending"
                                           /\ lane.queue[i] \notin lanes[l].active
                                           /\ lane.queue[i] \notin executing
                                           /\ Unstarted(l, lane.queue[i])
    <3>1. \A f \in Entries : promise'[f] = IF f = e THEN "pending" ELSE promise[f]
      BY <1>1, <2>1 DEF TypeOK
    <3> HIDE DEF lane
    <3> QED  BY <1>1, <2>4, <2>5, <3>1 DEF Unstarted, EnqueuesTo
  <2>7. \A f \in Entries : LaneOf[f] # l => promise'[f] = promise[f] /\ sequence'[f] = sequence[f]
    BY <1>1, <2>1 DEF TypeOK
  <2> HIDE DEF lane
  <2>8. AdvancesTo(l, lane)
    <3>1. /\ WellFormed(l, lane, sequence')
          /\ lane.active = lanes[l].active /\ lane.generation = lanes[l].generation
      BY <2>5 DEF EnqueuesTo
    <3> HIDE DEF l
    <3>2. l \in Lanes
      BY <1>1 DEF l
    <3> QED  BY <2>1, <2>2, <2>6, <2>7, <3>1, <3>2, OneLaneAdvances
  <2>9. promise' \in [Entries -> Promises] /\ nextSequence' \in Nat
    BY <1>1, <2>1 DEF TypeOK, Promises
  <2>10. TypeOK'
    BY <1>1, <1>2, <2>2, <2>8, <2>9 DEF TypeOK, AdvancesTo
  <2>11. \A f \in Entries : promise[f] # "none" => promise'[f] # "none"
    BY <1>1, <2>1 DEF TypeOK
  <2>12. ArrivalInv'
    BY <1>1, <2>2, <2>8, <2>11, StartedArePending DEF ArrivalInv, TypeOK, AdvancesTo
  <2>13. WaitsAreKept
    BY <1>2, <2>5, <2>8 DEF WaitsAreKept, EnqueuesTo, AdvancesTo
  <2> QED  BY <2>8, <2>10, <2>11, <2>12, <2>13 DEF StepInv, AdvancesTo
<1> QED  BY <1>3, <1>4

(* What the other functions first make of a lane is as good.               *)
LEMMA FreedLane ==
    ASSUME NEW l \in Lanes, NEW lane, NEW seq, WellFormed(l, lane, seq), NEW e
    PROVE  /\ WellFormed(l, Freed(lane, e), seq)
           /\ Freed(lane, e).queue = lane.queue /\ Freed(lane, e).active = lane.active \ {e}
           /\ Freed(lane, e).generation = lane.generation
BY DEF WellFormed, Freed, LaneStates

LEMMA LimitedLane ==
    ASSUME NEW l \in Lanes, NEW lane, NEW seq, WellFormed(l, lane, seq),
           NEW n, n = 0 \/ n \in Limits
    PROVE  /\ WellFormed(l, Limited(lane, n), seq)
           /\ Limited(lane, n).queue = lane.queue /\ Limited(lane, n).active = lane.active
           /\ Limited(lane, n).generation = lane.generation
           /\ Limited(lane, n).maxConcurrent = n
BY DEF WellFormed, Limited, LaneStates

LEMMA IdleLane ==
    ASSUME NEW l \in Lanes, NEW lane, NEW seq, WellFormed(l, lane, seq),
           lane.generation < MaxResets
    PROVE  /\ WellFormed(l, Idle(lane), seq)
           /\ Idle(lane).queue = lane.queue /\ Idle(lane).active = {}
<1>1. lane.generation + 1 \in 0 .. MaxResets
  BY LanesAssumption DEF WellFormed, LaneStates
<1> QED  BY <1>1 DEF WellFormed, Idle, LaneStates

LEMMA ClearStep ==
    ASSUME IInv, NEW l \in Lanes, ClearCommandLane(l)
    PROVE  StepInv /\ WaitsAreKept
<1> DEFINE cleared == ToSet(lanes[l].queue)
<1>1. /\ TypeOK /\ ArrivalInv /\ \A k \in Lanes : LaneInv(k)
  BY DEF IInv
<1>2. /\ lanes' = [lanes EXCEPT ![l].queue = <<>>]
      /\ promise' = [e \in Entries |-> IF e \in cleared THEN "cleared" ELSE promise[e]]
      /\ executing' = executing /\ startedIn' = startedIn
      /\ sequence' = sequence /\ nextSequence' = nextSequence
      /\ gatewayDraining' = gatewayDraining /\ wait' = wait /\ captured' = captured
  BY DEF ClearCommandLane, arrivalVars, waitVars
<1>3. cleared = {lanes[l].queue[i] : i \in 1 .. Len(lanes[l].queue)}
  BY <1>1 DEF ToSet, TypeOK, LaneStates
<1> HIDE DEF cleared
<1>4. \A e \in cleared : LaneOf[e] = l /\ promise[e] = "pending" /\ e \notin lanes[l].active
  BY <1>1, <1>3, LaneEntries
<1>5. ASSUME NEW k \in Lanes
      PROVE  /\ lanes'[k] \in LaneStates
             /\ lanes'[k].active = lanes[k].active
             /\ lanes'[k].generation = lanes[k].generation
             /\ lanes'[k].maxConcurrent = lanes[k].maxConcurrent
             /\ lanes'[k].queue = IF k = l THEN <<>> ELSE lanes[k].queue
  <2>1. lanes[k] \in LaneStates /\ lanes[l] \in LaneStates /\ <<>> \in Seq(Entries)
    BY <1>1, EmptySeq DEF TypeOK
  <2>2. lanes'[k] = IF k = l THEN [lanes[l] EXCEPT !.queue = <<>>] ELSE lanes[k]
    BY <1>1, <1>2 DEF TypeOK
  <2> QED  BY <2>1, <2>2 DEF LaneStates
<1>6. StartsAreNoted
  BY <1>1, <1>2, <1>5, NothingStarts
<1>7. ASSUME NEW k \in Lanes PROVE GoodStep(k)
  <2>1. \A e \in lanes[k].active : e \in Entries /\ LaneOf[e] = k /\ e \notin cleared
    BY <1>1, <1>4, LaneEntries
  <2>2. \A e \in lanes[k].active : promise'[e] = promise[e]
    BY <1>2, <2>1
  <2>3. ASSUME NEW i \in 1 .. Len(lanes'[k].queue)
        PROVE  promise'[lanes[k].queue[i]] = promise[lanes[k].queue[i]]
    <3>1. k # l
      BY <1>5, EmptySeq
    <3>2. lanes[k].queue[i] \in Entries /\ LaneOf[lanes[k].queue[i]] = k
      BY <1>1, <1>5, <3>1, LaneEntries
    <3> QED  BY <1>2, <1>4, <3>1, <3>2
  <2> QED  BY <1>1, <1>2, <1>5, <1>6, <2>2, <2>3, LaneRests
<1>8. lanes' \in [Lanes -> LaneStates]
  BY <1>1, <1>2, <1>5 DEF TypeOK
<1>9. TypeOK'
  BY <1>1, <1>2, <1>8 DEF TypeOK, Promises
<1>10. \A e \in Entries : promise[e] # "none" => promise'[e] # "none"
  BY <1>2
<1>11. ArrivalInv'
  BY <1>1, <1>2, <1>10 DEF ArrivalInv, TypeOK
<1>12. WaitsAreKept
  BY <1>2, <1>5 DEF WaitsAreKept
<1> QED  BY <1>7, <1>9, <1>10, <1>11, <1>12 DEF StepInv

LEMMA ConcurrencyStep ==
    ASSUME IInv, NEW l \in Lanes, NEW n, n = 0 \/ n \in Limits,
           SetCommandLaneConcurrency(l, n)
    PROVE  StepInv /\ WaitsAreKept
<1> DEFINE lane == Limited(lanes[l], n)
<1>1. /\ TypeOK /\ ArrivalInv /\ \A k \in Lanes : LaneInv(k)
      /\ WellFormed(l, lanes[l], sequence)
  BY DEF IInv, LaneInv
<1>2. /\ promise' = promise /\ sequence' = sequence /\ nextSequence' = nextSequence
      /\ gatewayDraining' = gatewayDraining /\ wait' = wait /\ captured' = captured
      /\ Run(executing)
  BY DEF SetCommandLaneConcurrency, arrivalVars, waitVars
<1>3. /\ WellFormed(l, lane, sequence)
      /\ lane.queue = lanes[l].queue /\ lane.active = lanes[l].active
      /\ lane.generation = lanes[l].generation /\ lane.maxConcurrent = n
  BY <1>1, LimitedLane
<1>4. /\ \A e \in lane.active : promise'[e] = "pending"
      /\ \A i \in 1 .. Len(lane.queue) : /\ promise'[lane.queue[i]] = "pending"
                                         /\ lane.queue[i] \notin lanes[l].active
                                         /\ lane.queue[i] \notin executing
                                         /\ Unstarted(l, lane.queue[i])
  BY <1>1, <1>2, <1>3, LaneEntries DEF Unstarted
<1> HIDE DEF lane
<1>5. /\ lanes' \in [Lanes -> LaneStates]
      /\ executing' \subseteq Entries /\ executing' \subseteq executing \cup Started
      /\ startedIn' \in [Entries -> 0 .. MaxResets]
      /\ \A k \in Lanes : GoodStep(k)
      /\ \A k \in Lanes : lanes[k].active \subseteq lanes'[k].active
  <2>1. CASE n = 0
    <3>1. lanes' = [lanes EXCEPT ![l] = lane]
      BY <2>1 DEF SetCommandLaneConcurrency, lane
    <3>2. /\ lanes'[l] = lane /\ lane \in LaneStates
          /\ \A k \in Lanes \ {l} : lanes'[k] = lanes[k]
          /\ lanes' \in [Lanes -> LaneStates]
      BY <3>1, <1>1, <1>3 DEF TypeOK, WellFormed
    <3>3. /\ executing' \subseteq Entries /\ startedIn' \in [Entries -> 0 .. MaxResets]
          /\ StartsAreNoted
      BY <1>1, <1>2, <3>2, RunNotes
    <3>4. GoodStep(l)
      BY <1>1, <1>2, <1>3, <2>1, <3>2, <3>3, LaneRests
    <3>5. \A k \in Lanes \ {l} : GoodStep(k)
      BY <1>2, <3>2, <3>3, OthersRest
    <3> QED  BY <1>3, <3>2, <3>3, <3>4, <3>5 DEF StartsAreNoted
  <2>2. CASE n # 0
    <3>1. lanes' = [lanes EXCEPT ![l] = Pumped(lane)]
      BY <2>2 DEF SetCommandLaneConcurrency, lane
    <3>2. sequence' \in [Entries -> Nat] /\ WellFormed(l, lane, sequence')
      BY <1>1, <1>2, <1>3 DEF TypeOK
    <3>3. AdvancesTo(l, lane)
      BY <1>2, <1>3, <1>4, <3>1, <3>2, OneLaneAdvances
    <3> QED  BY <1>3, <3>3 DEF AdvancesTo
  <2> QED  BY <2>1, <2>2
<1>6. TypeOK'
  BY <1>1, <1>2, <1>5 DEF TypeOK
<1>7. ArrivalInv'
  BY <1>1, <1>2, <1>5, StartedArePending DEF ArrivalInv, TypeOK
<1>8. WaitsAreKept
  BY <1>2, <1>5 DEF WaitsAreKept
<1> QED  BY <1>2, <1>5, <1>6, <1>7, <1>8 DEF StepInv

(* A task that ends or times out gives its slot back.                      *)
LEMMA SettleStep ==
    ASSUME IInv, NEW e \in Entries, TaskSettles(e) \/ TaskTimesOut(e)
    PROVE  StepInv /\ WaitsAreKept
<1> DEFINE l == LaneOf[e]
           lane == Freed(lanes[l], e)
<1>1. /\ TypeOK /\ ArrivalInv /\ \A k \in Lanes : LaneInv(k)
      /\ l \in Lanes /\ WellFormed(l, lanes[l], sequence)
  BY LanesAssumption DEF IInv, LaneInv
<1>2. /\ e \in executing /\ promise[e] = "pending"
      /\ promise' = [promise EXCEPT ![e] = "settled"]
      /\ Run(executing) \/ \E f \in Entries : Run(executing \ {f})
      /\ sequence' = sequence /\ nextSequence' = nextSequence
      /\ gatewayDraining' = gatewayDraining
      /\ ReleaseSlot(e)
  BY DEF TaskSettles, TaskTimesOut, arrivalVars
<1>3. /\ promise' \in [Entries -> Promises]
      /\ \A f \in Entries \ {e} : promise'[f] = promise[f]
      /\ \A f \in Entries : promise[f] # "none" => promise'[f] # "none"
  BY <1>1, <1>2 DEF TypeOK, Promises
<1>4. /\ lanes' \in [Lanes -> LaneStates]
      /\ executing' \subseteq Entries /\ executing' \subseteq executing \cup Started
      /\ startedIn' \in [Entries -> 0 .. MaxResets]
      /\ \A k \in Lanes : GoodStep(k)
      /\ WaitsAreKept /\ wait' \in [Waiters -> Waits]
  <2>1. CASE startedIn[e] = lanes[l].generation
    <3>1. lanes' = [lanes EXCEPT ![l] = Pumped(lane)] /\ NotifyActiveTaskWaiters
      BY <1>2, <2>1 DEF ReleaseSlot
    <3>2. /\ WellFormed(l, lane, sequence)
          /\ lane.queue = lanes[l].queue /\ lane.active = lanes[l].active \ {e}
          /\ lane.generation = lanes[l].generation
      BY <1>1, FreedLane
    <3> HIDE DEF lane
    <3>3. /\ \A f \in lane.active : promise'[f] = "pending"
          /\ \A i \in 1 .. Len(lane.queue) : /\ promise'[lane.queue[i]] = "pending"
                                             /\ lane.queue[i] \notin lanes[l].active
                                             /\ lane.queue[i] \notin executing
                                             /\ Unstarted(l, lane.queue[i])
      <4>1. \A f \in lanes[l].active : f \in Entries /\ promise[f] = "pending"
        BY <1>1, LaneEntries
      <4>2. \A i \in 1 .. Len(lanes[l].queue) :
               LET f == lanes[l].queue[i]
               IN  /\ f \in Entries /\ promise[f] = "pending"
                   /\ f \notin lanes[l].active /\ f \notin executing
        BY <1>1, LaneEntries
      <4> QED  BY <1>2, <1>3, <3>2, <4>1, <4>2 DEF Unstarted
    <3>4. sequence' \in [Entries -> Nat] /\ WellFormed(l, lane, sequence')
      BY <1>1, <1>2, <3>2 DEF TypeOK
    <3>5. \A f \in Entries :
            LaneOf[f] # l => promise'[f] = promise[f] /\ sequence'[f] = sequence[f]
      BY <1>2, <1>3
    <3>6. lane.active \subseteq lanes[l].active
      BY <3>2
    <3>7. AdvancesTo(l, lane)
      <4> HIDE DEF l
      <4>1. l \in Lanes
        BY <1>1 DEF l
      <4>2. Run(executing) \/ \E f \in Entries : Run(executing \ {f})
        BY <1>2
      <4>3. lanes' = [lanes EXCEPT ![l] = Pumped(lane)]
        BY <3>1
      <4>4. lane.generation = lanes[l].generation
        BY <3>2
      <4> QED  BY <3>3, <3>4, <3>5, <3>6, <4>1, <4>2, <4>3, <4>4, OneLaneAdvances
    <3>8. WaitsAreKept /\ wait' \in [Waiters -> Waits]
      BY <1>1, <3>1 DEF WaitsAreKept, NotifyActiveTaskWaiters, TypeOK, Waits
    <3> QED  BY <3>7, <3>8 DEF AdvancesTo
  <2>2. CASE startedIn[e] # lanes[l].generation
    <3>1. lanes' = lanes /\ wait' = wait /\ captured' = captured
      BY <1>2, <2>2 DEF ReleaseSlot, waitVars
    <3>2. /\ executing' \subseteq Entries /\ startedIn' \in [Entries -> 0 .. MaxResets]
          /\ StartsAreNoted
      BY <1>1, <1>2, <3>1, RunNotes DEF TypeOK
    <3>3. ASSUME NEW k \in Lanes PROVE GoodStep(k)
      <4>1. \A f \in lanes[k].active :
               f \in Entries /\ LaneOf[f] = k /\ startedIn[f] = lanes[k].generation
        BY <1>1, LaneEntries
      <4>2. \A f \in lanes[k].active : promise'[f] = promise[f]
        BY <1>3, <2>2, <4>1
      <4>3. \A i \in 1 .. Len(lanes[k].queue) :
               lanes[k].queue[i] \in Entries /\ lanes[k].queue[i] \notin executing
        BY <1>1, LaneEntries
      <4>4. \A i \in 1 .. Len(lanes[k].queue) :
               promise'[lanes[k].queue[i]] = promise[lanes[k].queue[i]]
        BY <1>2, <1>3, <4>3
      <4>5. lanes[k] \in LaneStates
        BY <1>1 DEF TypeOK
      <4> QED  BY <1>1, <1>2, <3>1, <3>2, <4>2, <4>4, <4>5, LaneRests
    <3>4. WaitsAreKept
      BY <3>1 DEF WaitsAreKept
    <3> QED  BY <1>1, <3>1, <3>2, <3>3, <3>4 DEF TypeOK, StartsAreNoted
  <2> QED  BY <2>1, <2>2
<1>5. captured' = captured
  BY <1>4 DEF WaitsAreKept
<1>6. TypeOK'
  BY <1>1, <1>2, <1>3, <1>4, <1>5 DEF TypeOK
<1>7. ArrivalInv'
  BY <1>1, <1>2, <1>3, <1>4, StartedArePending DEF ArrivalInv, TypeOK
<1> QED  BY <1>3, <1>4, <1>6, <1>7 DEF StepInv

(* What a lane made idle holds back was never started.                     *)
LEMMA IdleEntries ==
    ASSUME IInv, NEW l \in Lanes, lanes[l].generation < MaxResets, promise' = promise
    PROVE  /\ WellFormed(l, Idle(lanes[l]), sequence)
           /\ Idle(lanes[l]).active = {}
           /\ \A i \in 1 .. Len(Idle(lanes[l]).queue) :
                LET e == Idle(lanes[l]).queue[i]
                IN  /\ promise'[e] = "pending" /\ e \notin lanes[l].active
                    /\ e \notin executing /\ Unstarted(l, e)
<1>1. TypeOK /\ LaneInv(l) /\ WellFormed(l, lanes[l], sequence)
  BY DEF IInv, LaneInv
<1>2. /\ WellFormed(l, Idle(lanes[l]), sequence)
      /\ Idle(lanes[l]).queue = lanes[l].queue /\ Idle(lanes[l]).active = {}
  BY <1>1, IdleLane
<1> QED  BY <1>1, <1>2, LaneEntries DEF Unstarted

LEMMA ResetStep ==
    ASSUME IInv, NEW l \in Lanes, ResetCommandLane(l)
    PROVE  StepInv /\ WaitsAreKept
<1> DEFINE lane == Idle(lanes[l])
<1>1. TypeOK /\ ArrivalInv /\ lanes[l].generation < MaxResets
  BY DEF IInv, ResetCommandLane
<1>2. /\ promise' = promise /\ sequence' = sequence /\ nextSequence' = nextSequence
      /\ gatewayDraining' = gatewayDraining
  BY DEF ResetCommandLane, arrivalVars
<1>3. Run(executing) /\ NotifyActiveTaskWaiters /\ lanes' = [lanes EXCEPT ![l] = Pumped(lane)]
  BY DEF ResetCommandLane
<1>4. /\ WellFormed(l, lane, sequence) /\ lane.active = {}
      /\ \A i \in 1 .. Len(lane.queue) : /\ promise'[lane.queue[i]] = "pending"
                                         /\ lane.queue[i] \notin lanes[l].active
                                         /\ lane.queue[i] \notin executing
                                         /\ Unstarted(l, lane.queue[i])
  BY <1>1, <1>2, IdleEntries
<1> HIDE DEF lane
<1>5. sequence' \in [Entries -> Nat] /\ WellFormed(l, lane, sequence')
  BY <1>1, <1>2, <1>4 DEF TypeOK
<1>6. AdvancesTo(l, lane)
  BY <1>2, <1>3, <1>4, <1>5, OneLaneAdvances
<1>7. WaitsAreKept /\ wait' \in [Waiters -> Waits] /\ captured' = captured
  BY <1>1, <1>3 DEF WaitsAreKept, NotifyActiveTaskWaiters, TypeOK, Waits
<1>8. TypeOK'
  BY <1>1, <1>2, <1>6, <1>7 DEF TypeOK, AdvancesTo
<1>9. ArrivalInv'
  BY <1>1, <1>2, <1>6, StartedArePending DEF ArrivalInv, TypeOK, AdvancesTo
<1> QED  BY <1>2, <1>6, <1>7, <1>8, <1>9 DEF StepInv, AdvancesTo

LEMMA ResetAllStep ==
    ASSUME IInv, ResetAllLanes
    PROVE  StepInv /\ WaitsAreKept
<1>1. /\ TypeOK /\ ArrivalInv /\ \A l \in Lanes : LaneInv(l)
      /\ \A l \in Lanes : lanes[l].generation < MaxResets
  BY DEF IInv, ResetAllLanes
<1>2. /\ promise' = promise /\ sequence' = sequence /\ nextSequence' = nextSequence
      /\ gatewayDraining' = FALSE
  BY DEF ResetAllLanes, arrivalVars
<1>3. /\ Run(executing) /\ NotifyActiveTaskWaiters
      /\ lanes' = [l \in Lanes |-> Pumped(Idle(lanes[l]))]
  BY DEF ResetAllLanes
<1>4. sequence' \in [Entries -> Nat]
  BY <1>1, <1>2 DEF TypeOK
<1>5. ASSUME NEW l \in Lanes PROVE lanes'[l] \in LaneStates
  <2>1. WellFormed(l, Idle(lanes[l]), sequence')
    BY <1>1, <1>2, IdleEntries
  <2>2. PumpsTo(l, Idle(lanes[l]), Pumped(Idle(lanes[l])), sequence')
    BY <1>4, <2>1, PumpedLane
  <2> QED  BY <1>3, <2>2 DEF PumpsTo, WellFormed
<1>6. lanes' \in [Lanes -> LaneStates]
  BY <1>3, <1>5
<1>7. /\ executing' \subseteq Entries /\ startedIn' \in [Entries -> 0 .. MaxResets]
      /\ StartsAreNoted
  BY <1>1, <1>3, <1>6, RunNotes
<1>8. ASSUME NEW l \in Lanes PROVE GoodStep(l)
  <2> DEFINE lane == Idle(lanes[l])
  <2>1. /\ WellFormed(l, lane, sequence') /\ lane.active = {}
        /\ \A i \in 1 .. Len(lane.queue) : /\ promise'[lane.queue[i]] = "pending"
                                           /\ lane.queue[i] \notin lanes[l].active
                                           /\ lane.queue[i] \notin executing
                                           /\ Unstarted(l, lane.queue[i])
    BY <1>1, <1>2, IdleEntries
  <2>2. lanes'[l] = Pumped(lane)
    BY <1>3
  <2> HIDE DEF lane
  <2> QED  BY <1>1, <1>4, <1>7, <2>1, <2>2, LaneAdvances
<1>9. WaitsAreKept /\ wait' \in [Waiters -> Waits] /\ captured' = captured
  BY <1>1, <1>3 DEF WaitsAreKept, NotifyActiveTaskWaiters, TypeOK, Waits
<1>10. TypeOK'
  BY <1>1, <1>2, <1>4, <1>6, <1>7, <1>9 DEF TypeOK
<1>11. ArrivalInv'
  BY <1>1, <1>2, <1>7, <1>8, StartedArePending DEF ArrivalInv, TypeOK, StartsAreNoted
<1> QED  BY <1>2, <1>8, <1>9, <1>10, <1>11 DEF StepInv

(* The steps that leave the lanes alone.                                   *)
LEMMA QuietStep ==
    ASSUME IInv,
           \/ \E e \in Entries : LateTaskEnds(e)
           \/ \E w \in Waiters : WaitForActiveTasks(w) \/ WaiterTimesOut(w)
           \/ MarkGatewayDraining
           \/ UNCHANGED vars
    PROVE  /\ StepInv
           /\ lanes' = lanes /\ promise' = promise
<1>1. TypeOK /\ ArrivalInv
  BY DEF IInv
<1>2. /\ lanes' = lanes /\ promise' = promise /\ sequence' = sequence
      /\ nextSequence' = nextSequence /\ startedIn' = startedIn
      /\ executing' \subseteq executing
  BY DEF LateTaskEnds, WaitForActiveTasks, WaiterTimesOut, MarkGatewayDraining, vars,
         entryVars, arrivalVars, waitVars
<1>3. gatewayDraining' \in BOOLEAN
  BY <1>1 DEF LateTaskEnds, WaitForActiveTasks, WaiterTimesOut, MarkGatewayDraining, vars, TypeOK
<1>4. ActiveIn(lanes) \subseteq Entries
  BY <1>1 DEF ActiveIn, TypeOK, LaneStates
<1>5. wait' \in [Waiters -> Waits] /\ captured' \in [Waiters -> SUBSET Entries]
  <2>1. CASE UNCHANGED waitVars
    BY <2>1, <1>1 DEF waitVars, TypeOK
  <2>2. ASSUME NEW w \in Waiters, WaitForActiveTasks(w)
        PROVE  wait' \in [Waiters -> Waits] /\ captured' \in [Waiters -> SUBSET Entries]
    BY <2>2, <1>1, <1>4 DEF WaitForActiveTasks, TypeOK, Waits
  <2>3. ASSUME NEW w \in Waiters, WaiterTimesOut(w)
        PROVE  wait' \in [Waiters -> Waits] /\ captured' \in [Waiters -> SUBSET Entries]
    BY <2>3, <1>1 DEF WaiterTimesOut, TypeOK, Waits
  <2> QED  BY <2>1, <2>2, <2>3 DEF LateTaskEnds, MarkGatewayDraining, vars, waitVars
<1>6. \A l \in Lanes : GoodStep(l)
  BY <1>2, LanesRest
<1>7. TypeOK'
  BY <1>1, <1>2, <1>3, <1>5 DEF TypeOK
<1>8. ArrivalInv'
  BY <1>1, <1>2 DEF ArrivalInv
<1> QED  BY <1>2, <1>6, <1>7, <1>8 DEF StepInv

-----------------------------------------------------------------------------
(* The waiters.                                                            *)

(* What a waiter captured stays started, and none of it is started again.  *)
LEMMA CapturedStaysStarted ==
    ASSUME IInv, StepInv, NEW w \in Waiters
    PROVE  /\ \A e \in captured[w] :
                /\ promise'[e] # "none"
                /\ \A i \in 1 .. Len(lanes'[LaneOf[e]].queue) : lanes'[LaneOf[e]].queue[i] # e
           /\ captured[w] \cap ActiveIn(lanes') \subseteq captured[w] \cap ActiveIn(lanes)
<1>1. /\ TypeOK /\ CaptureInv(w) /\ \A l \in Lanes : GoodStep(l)
      /\ \A e \in Entries : promise[e] # "none" => promise'[e] # "none"
  BY DEF IInv, StepInv
<1>2. \A e \in captured[w] : e \in Entries /\ LaneOf[e] \in Lanes /\ ~Unstarted(LaneOf[e], e)
  BY <1>1, LanesAssumption DEF TypeOK, CaptureInv, Unstarted
<1>3. \A l \in Lanes :
        /\ \A e \in lanes'[l].active : LaneOf[e] = l
        /\ \A e \in lanes'[l].active \ lanes[l].active : Unstarted(l, e)
        /\ \A i \in 1 .. Len(lanes'[l].queue) : Unstarted(l, lanes'[l].queue[i])
  BY <1>1 DEF GoodStep, LaneInv, WellFormed
<1>4. ASSUME NEW e \in captured[w], e \in ActiveIn(lanes')
      PROVE  e \in ActiveIn(lanes)
  <2>1. PICK l \in Lanes : e \in lanes'[l].active
    BY <1>4 DEF ActiveIn
  <2>2. e \in lanes[l].active
    BY <2>1, <1>2, <1>3
  <2> QED  BY <2>2 DEF ActiveIn
<1>5. \A e \in captured[w] : promise'[e] # "none"
  BY <1>1, <1>2 DEF CaptureInv
<1>6. ASSUME NEW e \in captured[w], NEW i \in 1 .. Len(lanes'[LaneOf[e]].queue)
      PROVE  lanes'[LaneOf[e]].queue[i] # e
  <2>1. PICK l \in Lanes : l = LaneOf[e] /\ ~Unstarted(l, e)
    BY <1>2
  <2>2. i \in 1 .. Len(lanes'[l].queue)
    BY <2>1
  <2>3. Unstarted(l, lanes'[l].queue[i])
    BY <2>2, <1>1 DEF GoodStep
  <2> QED  BY <2>1, <2>3
<1> QED  BY <1>4, <1>5, <1>6

LEMMA WaitersStep ==
    ASSUME IInv, StepInv, WaitsAreKept
    PROVE  (\A w \in Waiters : CaptureInv(w))' /\ WaitersAreWoken'
<1>1. captured' = captured
  BY DEF WaitsAreKept
<1>2. ASSUME NEW w \in Waiters PROVE CaptureInv(w)'
  BY <1>1, CapturedStaysStarted DEF CaptureInv
<1>3. ASSUME NEW w \in Waiters
      PROVE  /\ wait'[w] \in StillWaiting => captured[w] \cap ActiveIn(lanes') # {}
             /\ wait'[w] = "drained" => captured[w] \cap ActiveIn(lanes') = {}
  <2>1. captured[w] \cap ActiveIn(lanes') \subseteq captured[w] \cap ActiveIn(lanes)
    BY CapturedStaysStarted
  <2>2. /\ wait[w] \in StillWaiting => captured[w] \cap ActiveIn(lanes) # {}
        /\ wait[w] = "drained" => captured[w] \cap ActiveIn(lanes) = {}
    BY DEF IInv, WaitersAreWoken
  <2>3. CASE NotifyActiveTaskWaiters
    BY <2>1, <2>2, <2>3 DEF NotifyActiveTaskWaiters, StillWaiting
  <2>4. CASE /\ wait'[w] \in {wait[w], "timedOut"}
             /\ \A l \in Lanes : lanes[l].active \subseteq lanes'[l].active
    <3>1. ActiveIn(lanes) \subseteq ActiveIn(lanes')
      BY <2>4 DEF ActiveIn
    <3> QED  BY <2>1, <2>2, <2>4, <3>1 DEF StillWaiting
  <2> QED  BY <2>3, <2>4 DEF WaitsAreKept
<1> QED  BY <1>1, <1>2, <1>3 DEF WaitersAreWoken

LEMMA WaitStep ==
    ASSUME IInv, StepInv, NEW w \in Waiters, WaitForActiveTasks(w)
    PROVE  (\A v \in Waiters : CaptureInv(v))' /\ WaitersAreWoken'
<1>1. /\ TypeOK /\ \A l \in Lanes : LaneInv(l)
      /\ lanes' = lanes /\ promise' = promise
  BY DEF IInv, WaitForActiveTasks, entryVars
<1>2. /\ captured' = [captured EXCEPT ![w] = ActiveIn(lanes)]
      /\ \E outcome \in IF ActiveIn(lanes) = {} THEN {"drained"}
                        ELSE {"waiting", "timedWaiting", "timedOut"} :
           wait' = [wait EXCEPT ![w] = outcome]
  BY DEF WaitForActiveTasks
<1>3. /\ captured'[w] = ActiveIn(lanes)
      /\ wait'[w] \in IF ActiveIn(lanes) = {} THEN {"drained"}
                     ELSE {"waiting", "timedWaiting", "timedOut"}
      /\ \A v \in Waiters \ {w} : captured'[v] = captured[v] /\ wait'[v] = wait[v]
  BY <1>1, <1>2 DEF TypeOK
<1>4. CaptureInv(w)'
  <2>1. ASSUME NEW e \in ActiveIn(lanes)
        PROVE  /\ promise[e] # "none"
               /\ \A i \in 1 .. Len(lanes[LaneOf[e]].queue) : lanes[LaneOf[e]].queue[i] # e
    <3>1. PICK l \in Lanes : e \in lanes[l].active
      BY DEF ActiveIn
    <3>2. LaneOf[e] = l /\ promise[e] = "pending"
      BY <1>1, <3>1, LaneEntries
    <3> QED  BY <1>1, <3>1, <3>2, LaneEntries
  <2> QED  BY <1>1, <1>3, <2>1 DEF CaptureInv
<1>5. \A v \in Waiters \ {w} : CaptureInv(v)'
  BY <1>1, <1>3 DEF IInv, CaptureInv
<1>6. ASSUME NEW v \in Waiters
      PROVE  /\ wait'[v] \in StillWaiting => captured'[v] \cap ActiveIn(lanes) # {}
             /\ wait'[v] = "drained" => captured'[v] \cap ActiveIn(lanes) = {}
  <2>1. CASE v = w
    BY <2>1, <1>3 DEF StillWaiting
  <2>2. CASE v # w
    BY <2>2, <1>3 DEF IInv, WaitersAreWoken
  <2> QED  BY <2>1, <2>2
<1> QED  BY <1>1, <1>4, <1>5, <1>6 DEF WaitersAreWoken

-----------------------------------------------------------------------------
(* The theorems.                                                           *)

LEMMA InitEstablishes ==
    ASSUME Init PROVE IInv
<1>1. <<>> \in Seq(Entries) /\ Len(<<>>) = 0
  BY EmptySeq
<1>2. ASSUME NEW l \in Lanes
      PROVE  lanes[l] = [queue |-> <<>>, active |-> {}, maxConcurrent |-> 1, generation |-> 0]
  BY DEF Init
<1>3. [queue |-> <<>>, active |-> {}, maxConcurrent |-> 1, generation |-> 0] \in LaneStates
  BY <1>1, LanesAssumption DEF LaneStates
<1>4. ASSUME NEW l \in Lanes PROVE LaneInv(l)
  <2>1. lanes[l] \in LaneStates /\ lanes[l].queue = <<>> /\ lanes[l].active = {}
    BY <1>2, <1>3
  <2>2. Len(lanes[l].queue) = 0
    BY <1>1, <2>1
  <2> QED  BY <2>1, <2>2 DEF LaneInv, WellFormed, Full, Pending, Works
<1>5. TypeOK
  <2>1. 0 \in 0 .. MaxResets
    BY LanesAssumption
  <2>2. lanes \in [Lanes -> LaneStates]
    BY <1>3 DEF Init
  <2> QED  BY <2>1, <2>2 DEF Init, TypeOK, Promises, Waits
<1>6. ArrivalInv
  BY DEF Init, ArrivalInv
<1>7. \A w \in Waiters : CaptureInv(w)
  BY DEF Init, CaptureInv
<1>8. WaitersAreWoken
  BY DEF Init, WaitersAreWoken, StillWaiting
<1> QED  BY <1>4, <1>5, <1>6, <1>7, <1>8 DEF IInv

(* Every step keeps the invariant and is good to every lane.               *)
LEMMA StepPreserves ==
    ASSUME IInv, [Next]_vars
    PROVE  IInv' /\ \A l \in Lanes : GoodStep(l)
<1>1. CASE StepInv /\ WaitsAreKept
  BY <1>1, WaitersStep DEF IInv, StepInv, GoodStep
<1>2. ASSUME NEW w \in Waiters, WaitForActiveTasks(w)
      PROVE  IInv' /\ \A l \in Lanes : GoodStep(l)
  <2>1. StepInv
    BY <1>2, QuietStep
  <2> QED  BY <1>2, <2>1, WaitStep DEF IInv, StepInv, GoodStep
<1>3. ASSUME NEW e \in Entries, EntryStep(e)
      PROVE  StepInv /\ WaitsAreKept
  <2>1. CASE EnqueueCommandInLane(e)
    BY <2>1, EnqueueStep
  <2>2. CASE TaskSettles(e) \/ TaskTimesOut(e)
    BY <2>2, SettleStep
  <2>3. CASE LateTaskEnds(e)
    <3>1. StepInv
      BY <2>3, QuietStep
    <3> QED  BY <2>3, <3>1 DEF LateTaskEnds, WaitsAreKept, waitVars
  <2> QED  BY <1>3, <2>1, <2>2, <2>3 DEF EntryStep
<1>4. ASSUME NEW l \in Lanes, LaneStep(l)
      PROVE  StepInv /\ WaitsAreKept
  <2>1. CASE ClearCommandLane(l)
    BY <2>1, ClearStep
  <2>2. CASE ResetCommandLane(l)
    BY <2>2, ResetStep
  <2>3. CASE \E n : (n = 0 \/ n \in Limits) /\ SetCommandLaneConcurrency(l, n)
    BY <2>3, ConcurrencyStep
  <2> QED  BY <1>4, <2>1, <2>2, <2>3 DEF LaneStep, SuspendLane, ResumeLane,
                                       ApplyGatewayLaneConcurrency
<1>5. ASSUME NEW w \in Waiters, WaiterTimesOut(w)
      PROVE  StepInv /\ WaitsAreKept
  <2>1. StepInv
    BY <1>5, QuietStep
  <2>2. \A v \in Waiters : wait'[v] \in {wait[v], "timedOut"}
    BY <1>5 DEF WaiterTimesOut, IInv, TypeOK
  <2> QED  BY <1>5, <2>1, <2>2 DEF WaiterTimesOut, WaitsAreKept
<1>6. CASE MarkGatewayDraining
  <2>1. StepInv
    BY <1>6, QuietStep
  <2> QED  BY <1>1, <1>6, <2>1 DEF MarkGatewayDraining, WaitsAreKept, waitVars
<1>7. CASE UNCHANGED vars
  <2>1. StepInv
    BY <1>7, QuietStep
  <2> QED  BY <1>1, <1>7, <2>1 DEF vars, WaitsAreKept, waitVars
<1>8. CASE ResetAllLanes
  BY <1>1, <1>8, ResetAllStep
<1> QED  BY <1>1, <1>2, <1>3, <1>4, <1>5, <1>6, <1>7, <1>8 DEF Next

-----------------------------------------------------------------------------
(* What is in a queue goes nowhere but to the tasks at work.               *)

Holds(lane, e) == \E i \in 1 .. Len(lane.queue) : lane.queue[i] = e

LEMMA HoldsIsToSet ==
    ASSUME NEW lane \in LaneStates, NEW e
    PROVE  Holds(lane, e) <=> e \in ToSet(lane.queue)
BY DEF Holds, ToSet, LaneStates

(* Pump loses nothing: the head of the queue runs, the rest stays in it.   *)
LEMMA PumpedHolds ==
    ASSUME NEW lane \in LaneStates, NEW e, Holds(lane, e)
    PROVE  Holds(Pumped(lane), e) \/ e \in Pumped(lane).active
<1> DEFINE n == Startable(lane)
           p == Pumped(lane)
<1>1. PICK i \in 1 .. Len(lane.queue) : lane.queue[i] = e
  BY DEF Holds
<1>2. /\ p.active = lane.active \cup {lane.queue[j] : j \in 1 .. n}
      /\ Len(p.queue) = Len(lane.queue) - n
      /\ \A j \in 1 .. Len(p.queue) : p.queue[j] = lane.queue[j + n]
  BY PumpedParts
<1>3. n \in 0 .. Len(lane.queue) /\ Len(lane.queue) \in Nat
  BY StartableBounds DEF LaneStates
<1> HIDE DEF n, p
<1>4. CASE i <= n
  BY <1>1, <1>2, <1>3, <1>4 DEF p
<1>5. CASE i > n
  <2>1. i - n \in 1 .. Len(p.queue) /\ (i - n) + n = i
    BY <1>1, <1>2, <1>3, <1>5
  <2>2. p.queue[i - n] = e
    BY <2>1, <1>1, <1>2
  <2> QED  BY <2>1, <2>2 DEF Holds, p
<1> QED  BY <1>1, <1>3, <1>4, <1>5

(* Neither does an arrival push anything out.                              *)
LEMMA QueueingHolds ==
    ASSUME NEW lane \in LaneStates, NEW e \in Entries, NEW seq,
           NEW f, f = e \/ Holds(lane, f)
    PROVE  Holds(Queueing(lane, e, seq), f)
<1> DEFINE q == lane.queue
           r == EnqueueLaneEntry(q, e, seq)
<1>1. q \in Seq(Entries) /\ Len(q) \in Nat
  BY DEF LaneStates
<1>2. /\ Len(r) = Len(q) + 1
      /\ \E k \in 1 .. Len(r) : PlacedAt(k, r, q, e, seq)
  BY <1>1, EnqueuedParts
<1>3. Queueing(lane, e, seq).queue = r
  BY DEF Queueing, LaneStates
<1> HIDE DEF r
<1>4. PICK k \in 1 .. Len(r) : PlacedAt(k, r, q, e, seq)
  BY <1>2
<1>5. CASE f = e
  BY <1>3, <1>4, <1>5 DEF PlacedAt, Holds
<1>6. CASE Holds(lane, f)
  <2>1. PICK i \in 1 .. Len(q) : q[i] = f
    BY <1>6 DEF Holds
  <2>2. CASE i < k
    <3>1. i \in 1 .. k - 1 /\ i \in 1 .. Len(r)
      BY <1>1, <1>2, <1>4, <2>1, <2>2
    <3> QED  BY <3>1, <2>1, <1>3, <1>4 DEF PlacedAt, Holds
  <2>3. CASE i >= k
    <3>1. i + 1 \in k + 1 .. Len(r) /\ i + 1 \in 1 .. Len(r) /\ (i + 1) - 1 = i
      BY <1>1, <1>2, <1>4, <2>1, <2>3
    <3>2. r[i + 1] = f
      BY <3>1, <2>1, <1>4 DEF PlacedAt
    <3> QED  BY <3>1, <3>2, <1>3 DEF Holds
  <2> QED  BY <1>1, <1>2, <1>4, <2>1, <2>2, <2>3
<1> QED  BY <1>5, <1>6

(* What a lane counts or holds back, it does so after a step too.          *)
KeepsHeld(l) ==
    \A e \in Entries : Holds(lanes[l], e) =>
        promise'[e] # "pending" \/ Holds(lanes'[l], e) \/ e \in lanes'[l].active

(* What every step does to callers, queues and tasks.                      *)
WorkKept ==
    /\ Started \subseteq executing'
    /\ \A e \in executing \ executing' : promise'[e] # "pending"
    /\ \A l \in Lanes : KeepsHeld(l)
    /\ \A e \in Entries : promise'[e] = "pending" /\ promise[e] # "pending" =>
         Holds(lanes'[LaneOf[e]], e) \/ e \in lanes'[LaneOf[e]].active

(* A lane that a step makes `lane` of, with the queue it had, and pumps.   *)
LEMMA PumpKeepsHeld ==
    ASSUME NEW l \in Lanes, NEW lane \in LaneStates, lane.queue = lanes[l].queue,
           lanes'[l] = lane \/ lanes'[l] = Pumped(lane)
    PROVE  KeepsHeld(l)
<1>1. \A e \in Entries : Holds(lanes[l], e) => Holds(lane, e)
  BY DEF Holds
<1> QED  BY <1>1, PumpedHolds DEF KeepsHeld

LEMMA RestKeepsHeld ==
    ASSUME NEW l \in Lanes, lanes'[l] = lanes[l]
    PROVE  KeepsHeld(l)
BY DEF KeepsHeld

LEMMA EnqueueKeepsWork ==
    ASSUME IInv, NEW e \in Entries, EnqueueCommandInLane(e)
    PROVE  WorkKept
<1> DEFINE l == LaneOf[e]
<1>1. TypeOK /\ l \in Lanes /\ lanes[l] \in LaneStates /\ promise[e] = "none"
  BY LanesAssumption DEF IInv, TypeOK, EnqueueCommandInLane
<1>2. CASE gatewayDraining
  <2>1. /\ promise' = [promise EXCEPT ![e] = "refused"]
        /\ lanes' = lanes /\ executing' = executing
    BY <1>2 DEF EnqueueCommandInLane
  <2>2. Started = {}
    BY <2>1 DEF Started
  <2>3. \A k \in Lanes : KeepsHeld(k)
    BY <2>1, RestKeepsHeld
  <2>4. \A f \in Entries : promise'[f] = "pending" => promise[f] = "pending"
    BY <1>1, <2>1 DEF TypeOK
  <2> QED  BY <2>1, <2>2, <2>3, <2>4 DEF WorkKept
<1>3. CASE ~gatewayDraining
  <2> DEFINE lane == Queueing(lanes[l], e, sequence')
  <2>1. /\ promise' = [promise EXCEPT ![e] = "pending"]
        /\ lanes' = [lanes EXCEPT ![l] = Pumped(lane)]
        /\ executing' = executing \cup Started
    BY <1>3 DEF EnqueueCommandInLane, Run
  <2>2. lanes'[l] = Pumped(lane) /\ \A k \in Lanes \ {l} : lanes'[k] = lanes[k]
    BY <1>1, <2>1 DEF TypeOK
  <2>3. lane \in LaneStates
    <3>1. /\ lanes[l].queue \in Seq(Entries)
          /\ EnqueueLaneEntry(lanes[l].queue, e, sequence') \in Seq(Entries)
      BY <1>1, EnqueuedParts DEF LaneStates
    <3> QED  BY <1>1, <3>1 DEF Queueing, LaneStates
  <2>4. \A f \in Entries : f = e \/ Holds(lanes[l], f) => Holds(lane, f)
    BY <1>1, QueueingHolds
  <2> HIDE DEF lane
  <2>5. \A f \in Entries : f = e \/ Holds(lanes[l], f) =>
          Holds(lanes'[l], f) \/ f \in lanes'[l].active
    BY <2>2, <2>3, <2>4, PumpedHolds
  <2>6. \A k \in Lanes : KeepsHeld(k)
    BY <2>2, <2>5, RestKeepsHeld DEF KeepsHeld
  <2>7. \A f \in Entries \ {e} : promise'[f] = promise[f]
    BY <1>1, <2>1 DEF TypeOK
  <2> QED  BY <2>1, <2>5, <2>6, <2>7 DEF WorkKept
<1> QED  BY <1>2, <1>3

LEMMA ClearKeepsWork ==
    ASSUME IInv, NEW l \in Lanes, ClearCommandLane(l)
    PROVE  WorkKept
<1>1. TypeOK /\ lanes[l] \in LaneStates
  BY DEF IInv, TypeOK
<1>2. /\ lanes' = [lanes EXCEPT ![l].queue = <<>>] /\ executing' = executing
      /\ \A e \in Entries : promise'[e] = IF e \in ToSet(lanes[l].queue) THEN "cleared"
                                          ELSE promise[e]
  BY DEF ClearCommandLane
<1>3. /\ \A k \in Lanes : lanes'[k].active = lanes[k].active
      /\ \A k \in Lanes \ {l} : lanes'[k] = lanes[k]
  BY <1>1, <1>2 DEF TypeOK, LaneStates
<1>4. Started = {}
  BY <1>3, LanesAssumption DEF Started
<1>5. KeepsHeld(l)
  BY <1>1, <1>2, HoldsIsToSet DEF KeepsHeld
<1>6. \A k \in Lanes : KeepsHeld(k)
  BY <1>3, <1>5, RestKeepsHeld
<1> QED  BY <1>2, <1>4, <1>6 DEF WorkKept

LEMMA ConcurrencyKeepsWork ==
    ASSUME IInv, NEW l \in Lanes, NEW n, n = 0 \/ n \in Limits,
           SetCommandLaneConcurrency(l, n)
    PROVE  WorkKept
<1> DEFINE lane == Limited(lanes[l], n)
<1>1. TypeOK /\ WellFormed(l, lanes[l], sequence)
  BY DEF IInv, LaneInv
<1>2. lane \in LaneStates /\ lane.queue = lanes[l].queue
  <2>1. WellFormed(l, lane, sequence) /\ lane.queue = lanes[l].queue
    BY <1>1, LimitedLane
  <2> QED  BY <2>1 DEF WellFormed
<1>3. /\ promise' = promise /\ executing' = executing \cup Started
      /\ lanes' = [lanes EXCEPT ![l] = IF n = 0 THEN lane ELSE Pumped(lane)]
  BY DEF SetCommandLaneConcurrency, Run
<1> HIDE DEF lane
<1>4. /\ lanes'[l] = lane \/ lanes'[l] = Pumped(lane)
      /\ \A k \in Lanes \ {l} : lanes'[k] = lanes[k]
  BY <1>1, <1>3 DEF TypeOK
<1>5. \A k \in Lanes : KeepsHeld(k)
  BY <1>2, <1>4, PumpKeepsHeld, RestKeepsHeld
<1> QED  BY <1>3, <1>5 DEF WorkKept

LEMMA SettleKeepsWork ==
    ASSUME IInv, NEW e \in Entries, TaskSettles(e) \/ TaskTimesOut(e)
    PROVE  WorkKept
<1> DEFINE l == LaneOf[e]
           lane == Freed(lanes[l], e)
<1>1. TypeOK /\ l \in Lanes /\ WellFormed(l, lanes[l], sequence)
  BY LanesAssumption DEF IInv, LaneInv
<1>2. lane \in LaneStates /\ lane.queue = lanes[l].queue
  <2>1. WellFormed(l, lane, sequence) /\ lane.queue = lanes[l].queue
    BY <1>1, FreedLane
  <2> QED  BY <2>1 DEF WellFormed
<1>3. /\ promise' = [promise EXCEPT ![e] = "settled"]
      /\ executing' = executing \cup Started \/ executing' = (executing \ {e}) \cup Started
      /\ lanes' = lanes \/ lanes' = [lanes EXCEPT ![l] = Pumped(lane)]
  BY DEF TaskSettles, TaskTimesOut, ReleaseSlot, Run
<1> HIDE DEF lane
<1>4. \A k \in Lanes : KeepsHeld(k)
  <2>1. CASE lanes' = lanes
    BY <2>1, RestKeepsHeld
  <2>2. CASE lanes' = [lanes EXCEPT ![l] = Pumped(lane)]
    <3>1. lanes'[l] = Pumped(lane) /\ \A k \in Lanes \ {l} : lanes'[k] = lanes[k]
      BY <1>1, <2>2 DEF TypeOK
    <3> HIDE DEF l
    <3> QED  BY <1>1, <1>2, <3>1, PumpKeepsHeld, RestKeepsHeld
  <2> QED  BY <1>3, <2>1, <2>2
<1>5. /\ promise'[e] = "settled"
      /\ \A f \in Entries \ {e} : promise'[f] = promise[f]
  BY <1>1, <1>3 DEF TypeOK
<1> QED  BY <1>3, <1>4, <1>5 DEF WorkKept

(* One lane is reset, or all of them.                                      *)
LEMMA ResetKeepsWork ==
    ASSUME IInv, ResetAllLanes \/ \E l \in Lanes : ResetCommandLane(l)
    PROVE  WorkKept
<1>1. TypeOK /\ \A l \in Lanes : WellFormed(l, lanes[l], sequence)
  BY DEF IInv, LaneInv
<1>2. promise' = promise /\ executing' = executing \cup Started
  BY DEF ResetAllLanes, ResetCommandLane, Run
<1>3. ASSUME NEW l \in Lanes
      PROVE  KeepsHeld(l)
  <2>1. CASE lanes'[l] = lanes[l]
    BY <2>1, RestKeepsHeld
  <2>2. CASE lanes'[l] = Pumped(Idle(lanes[l])) /\ lanes[l].generation < MaxResets
    <3>1. /\ WellFormed(l, Idle(lanes[l]), sequence)
          /\ Idle(lanes[l]).queue = lanes[l].queue
      BY <1>1, <2>2, IdleLane
    <3>2. Idle(lanes[l]) \in LaneStates
      BY <3>1 DEF WellFormed
    <3> QED  BY <2>2, <3>1, <3>2, PumpKeepsHeld
  <2> QED  BY <1>1, <2>1, <2>2 DEF ResetAllLanes, ResetCommandLane, TypeOK
<1> QED  BY <1>2, <1>3 DEF WorkKept

LEMMA QuietKeepsWork ==
    ASSUME \/ \E e \in Entries : LateTaskEnds(e)
           \/ \E w \in Waiters : WaitForActiveTasks(w) \/ WaiterTimesOut(w)
           \/ MarkGatewayDraining
           \/ UNCHANGED vars
    PROVE  WorkKept
<1>1. /\ lanes' = lanes /\ promise' = promise
      /\ executing' = executing
         \/ \E e : executing' = executing \ {e} /\ promise[e] # "pending"
  BY DEF LateTaskEnds, WaitForActiveTasks, WaiterTimesOut, MarkGatewayDraining, vars, entryVars
<1>2. Started = {} /\ \A l \in Lanes : KeepsHeld(l)
  BY <1>1, RestKeepsHeld DEF Started
<1> QED  BY <1>1, <1>2 DEF WorkKept

LEMMA StepKeepsWork ==
    ASSUME IInv, [Next]_vars
    PROVE  WorkKept
<1>1. ASSUME NEW e \in Entries, EntryStep(e) PROVE WorkKept
  BY <1>1, EnqueueKeepsWork, SettleKeepsWork, QuietKeepsWork DEF EntryStep
<1>2. ASSUME NEW l \in Lanes, LaneStep(l) PROVE WorkKept
  <2>1. CASE \E n : (n = 0 \/ n \in Limits) /\ SetCommandLaneConcurrency(l, n)
    BY <2>1, ConcurrencyKeepsWork
  <2> QED  BY <1>2, <2>1, ClearKeepsWork, ResetKeepsWork
           DEF LaneStep, SuspendLane, ResumeLane, ApplyGatewayLaneConcurrency
<1> QED  BY <1>1, <1>2, ResetKeepsWork, QuietKeepsWork DEF Next

(* Who waits keeps its place: a step that takes a task from its lane has   *)
(* told its caller, or the task goes on without its slot.                  *)
LEMMA WorkPreserves ==
    ASSUME IInv, NothingIsLost, [Next]_vars
    PROVE  NothingIsLost'
<1>1. TypeOK /\ TypeOK' /\ WorkKept /\ \A l \in Lanes : LaneInv(l)'
  BY StepPreserves, StepKeepsWork DEF IInv
<1>2. ASSUME NEW l \in Lanes, NEW e \in lanes'[l].active
      PROVE  e \in executing'
  <2>1. e \in Entries /\ LaneOf[e] = l /\ promise'[e] = "pending"
    BY <1>1 DEF LaneInv, WellFormed, Works, TypeOK, LaneStates
  <2>2. CASE e \in lanes[l].active
    <3>1. e \in executing
      BY <2>2 DEF NothingIsLost, ActiveIn
    <3> QED  BY <1>1, <2>1, <3>1 DEF WorkKept
  <2>3. CASE e \notin lanes[l].active
    BY <1>1, <2>1, <2>3 DEF WorkKept, Started
  <2> QED  BY <2>2, <2>3
<1>3. ASSUME NEW e \in Entries, promise'[e] = "pending"
      PROVE  e \in executing' \/ e \in ToSet(lanes'[LaneOf[e]].queue)
  <2> DEFINE l == LaneOf[e]
  <2>1. l \in Lanes /\ lanes[l] \in LaneStates /\ lanes'[l] \in LaneStates
    BY <1>1, LanesAssumption DEF TypeOK
  <2>2. CASE promise[e] = "pending" /\ e \in executing
    BY <1>1, <1>3, <2>2 DEF WorkKept
  <2>3. CASE promise[e] = "pending" /\ Holds(lanes[l], e)
    <3>1. Holds(lanes'[l], e) \/ e \in lanes'[l].active
      BY <1>1, <1>3, <2>1, <2>3 DEF WorkKept, KeepsHeld
    <3> QED  BY <2>1, <3>1, <1>2, HoldsIsToSet
  <2>4. CASE promise[e] # "pending"
    <3>1. Holds(lanes'[l], e) \/ e \in lanes'[l].active
      BY <1>1, <1>3, <2>4 DEF WorkKept
    <3> QED  BY <2>1, <3>1, <1>2, HoldsIsToSet
  <2>5. promise[e] = "pending" => e \in executing \/ Holds(lanes[l], e)
    BY <2>1, HoldsIsToSet DEF NothingIsLost
  <2> QED  BY <2>2, <2>3, <2>4, <2>5
<1> QED  BY <1>2, <1>3 DEF NothingIsLost, ActiveIn

LEMMA InitLosesNothing ==
    ASSUME Init
    PROVE  NothingIsLost
BY DEF Init, NothingIsLost, ActiveIn

-----------------------------------------------------------------------------
(* The parts of IInv stand together through every step of the lanes.       *)
THEOREM LanesInvHolds == Spec => []IInv
<1>1. Init => IInv
  BY InitEstablishes
<1>2. IInv /\ [Next]_vars => IInv'
  BY StepPreserves
<1> QED  BY <1>1, <1>2, PTL DEF Spec

(* The lanes, entries and waiters keep their types: a lane's limit is one  *)
(* that was set, and resets do not run past their bound.                   *)
THEOREM LanesTypeOK == Spec => []TypeOK
<1>1. IInv => TypeOK
  BY DEF IInv
<1> QED  BY <1>1, LanesInvHolds, PTL

(* Whatever drains a lane drains it fully: no entry waits in a lane that   *)
(* has room for it.                                                        *)
THEOREM NoStrandedWorkHolds == Spec => []NoStrandedWork
<1>1. IInv => NoStrandedWork
  BY DEF IInv, LaneInv, Full, NoStrandedWork
<1> QED  BY <1>1, LanesInvHolds, PTL

(* No step forgets a caller or keeps a slot for a task that has ended:     *)
(* pump and the queue lose no entry, a cleared queue has told its callers, *)
(* and what a reset takes the slot from goes on to its end.                *)
THEOREM NothingIsLostHolds == Spec => []NothingIsLost
<1>1. Init => NothingIsLost
  BY InitLosesNothing
<1>2. IInv /\ NothingIsLost /\ [Next]_vars => NothingIsLost'
  BY WorkPreserves
<1> QED  BY <1>1, <1>2, LanesInvHolds, PTL DEF Spec

(* What a lane starts was in its queue or has just arrived, so it does not *)
(* run already.                                                            *)
THEOREM StartsOnceHolds == Spec => StartsOnce
<1> DEFINE Once ==
      \A l \in Lanes : \A e \in lanes'[l].active \ lanes[l].active :
         e \notin executing /\ promise'[e] = "pending"
<1>1. ASSUME IInv, [Next]_vars PROVE Once
  <2> SUFFICES ASSUME NEW l \in Lanes, NEW e \in lanes'[l].active \ lanes[l].active
               PROVE  e \notin executing /\ promise'[e] = "pending"
    OBVIOUS
  <2>1. ArrivalInv /\ LaneInv(l) /\ LaneInv(l)' /\ Unstarted(l, e)
    BY <1>1, StepPreserves DEF IInv, GoodStep
  <2> QED  BY <2>1 DEF ArrivalInv, LaneInv, Pending, Works, Unstarted
<1>2. IInv /\ [Next]_vars => [Once]_vars
  BY <1>1
<1> QED  BY <1>2, LanesInvHolds, PTL DEF Spec, StartsOnce

(* Every release of a captured task wakes its waiter, and what a drained   *)
(* waiter waited for does not run again.                                   *)
THEOREM WaitersAreWokenHolds == Spec => []WaitersAreWoken
<1>1. IInv => WaitersAreWoken
  BY DEF IInv
<1> QED  BY <1>1, LanesInvHolds, PTL

(* A lane that starts a task does not run more of them than its limit.     *)
THEOREM StartsWithinLimitHolds == Spec => StartsWithinLimit
<1> DEFINE Within ==
      \A l \in Lanes :
         ~(lanes'[l].active \subseteq lanes[l].active)
            => Cardinality(lanes'[l].active) <= lanes'[l].maxConcurrent
<1>1. IInv /\ [Next]_vars => [Within]_vars
  BY StepPreserves DEF GoodStep
<1> QED  BY <1>1, LanesInvHolds, PTL DEF Spec, StartsWithinLimit

(* A lane starts its entries by priority and arrival.                      *)
THEOREM StartsInOrderHolds == Spec => StartsInOrder
<1> DEFINE InOrder ==
      \A l \in Lanes :
         \A e \in lanes'[l].active \ lanes[l].active, f \in ToSet(lanes'[l].queue) :
            \/ PriorityOf[e] > PriorityOf[f]
            \/ PriorityOf[e] = PriorityOf[f] /\ sequence'[e] < sequence'[f]
<1>1. ASSUME IInv, [Next]_vars PROVE InOrder
  <2> SUFFICES ASSUME NEW l \in Lanes,
                      NEW e \in lanes'[l].active \ lanes[l].active,
                      NEW f \in ToSet(lanes'[l].queue)
               PROVE  GoesBefore(e, f, sequence')
    BY DEF GoesBefore
  <2>1. GoodStep(l)
    BY <1>1, StepPreserves
  <2>2. lanes'[l].queue \in Seq(Entries)
    BY <2>1 DEF GoodStep, LaneStates
  <2>3. PICK i \in 1 .. Len(lanes'[l].queue) : lanes'[l].queue[i] = f
    BY <2>2 DEF ToSet
  <2> QED  BY <2>1, <2>3 DEF GoodStep
<1>2. IInv /\ [Next]_vars => [InOrder]_vars
  BY <1>1
<1> QED  BY <1>2, LanesInvHolds, PTL DEF Spec, StartsInOrder

=============================================================================
