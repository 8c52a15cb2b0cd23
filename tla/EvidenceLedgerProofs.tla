------------------------- MODULE EvidenceLedgerProofs -------------------------
(***************************************************************************)
(* Proofs about EvidenceLedger, for any calls and packs: the ledger stays  *)
(* a chain that verifies, with heights that count its blocks, through any  *)
(* failure of a write, and it changes at its end only (EvidenceChain).     *)
(***************************************************************************)
EXTENDS EvidenceLedger, FiniteSetTheorems, SequenceTheorems, TLAPS

\* A ledger that is as it was written.
Linked(rs) ==
    /\ rs \in Seq(Receipts)
    /\ VerifyEvidenceChain(rs)
    /\ \A i \in 1 .. Len(rs) : rs[i].block_height = i - 1

LedgerInv == TypeOK /\ Linked(lines)

-----------------------------------------------------------------------------
(* Chains.                                                                 *)

\* Front and Last by their elements.
LEMMA FrontLast ==
    ASSUME NEW S, NEW s \in Seq(S), s # <<>>
    PROVE  /\ Len(s) \in Nat \ {0}
           /\ Last(s) \in S /\ Last(s) = s[Len(s)]
           /\ Front(s) \in Seq(S) /\ Len(Front(s)) = Len(s) - 1
           /\ \A i \in 1 .. Len(Front(s)) : Front(s)[i] = s[i]
<1>1. Len(s) \in Nat \ {0}
  OBVIOUS
<1>2. Last(s) = s[Len(s)] /\ Last(s) \in S
  BY <1>1 DEF Last
<1>3. \A i \in 1 .. Len(s) - 1 : s[i] \in S
  BY <1>1
<1>4. /\ Front(s) \in Seq(S)
      /\ Len(Front(s)) = (IF 1 <= Len(s) - 1 THEN (Len(s) - 1) - 1 + 1 ELSE 0)
      /\ \A i \in 1 .. (Len(s) - 1) - 1 + 1 : Front(s)[i] = s[1 + i - 1]
  BY <1>1, <1>3, SubSeqProperties, Len(s) - 1 \in Int DEF Front
<1>5. Len(Front(s)) = Len(s) - 1
  <2> DEFINE n == Len(s)
             m == Len(Front(s))
  <2>1. n \in Nat \ {0} /\ m = (IF 1 <= n - 1 THEN (n - 1) - 1 + 1 ELSE 0)
    BY <1>1, <1>4
  <2> HIDE DEF n, m
  <2>2. m = n - 1
    BY <2>1
  <2> QED
    BY <2>2 DEF n, m
<1>6. \A i \in 1 .. Len(Front(s)) : Front(s)[i] = s[i]
  <2> SUFFICES ASSUME NEW i \in 1 .. Len(Front(s)) PROVE Front(s)[i] = s[i]
    OBVIOUS
  <2>1. i \in 1 .. (Len(s) - 1) - 1 + 1 /\ 1 + i - 1 = i
    BY <1>1, <1>5
  <2> QED
    BY <1>4, <2>1
<1> QED
  BY <1>1, <1>2, <1>4, <1>5, <1>6

\* commitEvidenceReceipt makes a receipt out of any ledger.
LEMMA NewReceiptType ==
    ASSUME NEW rs \in Seq(Receipts), NEW c \in Commits
    PROVE  NewReceipt(rs, c) \in Receipts
<1>1. CASE rs = <<>>
  BY <1>1 DEF NewReceipt, Receipts, Hashes, ProofHash
<1>2. CASE rs # <<>>
  <2>1. Last(rs) \in Receipts
    BY <1>2, FrontLast
  <2>2. Last(rs).block_height + 1 \in Nat /\ Append(Last(rs).proof, c) \in Seq(Commits)
    BY <2>1 DEF Receipts, Hashes
  <2> QED
    BY <1>2, <2>1, <2>2 DEF NewReceipt, Receipts, Hashes, ProofHash
<1> QED
  BY <1>1, <1>2

\* A receipt made from the head of a chain is its next link.
LEMMA NewReceiptLinks ==
    ASSUME NEW rs, Linked(rs), NEW c \in Commits
    PROVE  Linked(Append(rs, NewReceipt(rs, c)))
<1> DEFINE r == NewReceipt(rs, c)
           ts == Append(rs, r)
<1>1. rs \in Seq(Receipts) /\ r \in Receipts
  BY NewReceiptType DEF Linked
<1>2. /\ ts \in Seq(Receipts) /\ Len(ts) = Len(rs) + 1 /\ Len(rs) \in Nat
      /\ ts[Len(ts)] = r /\ \A i \in 1 .. Len(rs) : ts[i] = rs[i]
  BY <1>1
<1>3. /\ r.commit = c /\ r.proof = ProofHash(r.previous, r.commit)
      /\ r.previous = (IF rs = <<>> THEN <<>> ELSE rs[Len(rs)].proof)
      /\ r.block_height = (IF rs = <<>> THEN 0 ELSE rs[Len(rs)].block_height + 1)
  BY <1>1, FrontLast DEF NewReceipt
<1>4. rs # <<>> => Len(rs) \in 1 .. Len(rs)
  BY <1>1
<1>5. ASSUME NEW i \in 1 .. Len(ts)
      PROVE  /\ ts[i].previous = (IF i = 1 THEN <<>> ELSE ts[i - 1].proof)
             /\ ts[i].proof = ProofHash(ts[i].previous, ts[i].commit)
             /\ ts[i].block_height = i - 1
  <2>1. CASE i \in 1 .. Len(rs)
    <3>1. ts[i] = rs[i] /\ (i # 1 => ts[i - 1] = rs[i - 1])
      BY <1>2, <2>1
    <3> QED
      BY <2>1, <3>1 DEF Linked, VerifyEvidenceChain
  <2>2. CASE i = Len(rs) + 1
    <3>1. CASE rs = <<>>
      BY <1>2, <1>3, <2>2, <3>1
    <3>2. CASE rs # <<>>
      <4>1. rs[Len(rs)].block_height = Len(rs) - 1
        BY <1>4, <3>2 DEF Linked
      <4>2. ts[i] = r /\ i # 1 /\ ts[i - 1] = rs[Len(rs)]
        BY <1>2, <1>4, <2>2, <3>2
      <4> QED
        BY <1>2, <1>3, <2>2, <3>2, <4>1, <4>2
    <3> QED
      BY <3>1, <3>2
  <2> QED
    BY <1>2, <2>1, <2>2
<1> QED
  BY <1>2, <1>5 DEF Linked, VerifyEvidenceChain

\* A chain without its last receipt is a chain.
LEMMA FrontLinks ==
    ASSUME NEW rs, Linked(rs), rs # <<>>
    PROVE  Linked(Front(rs))
<1>1. rs \in Seq(Receipts) /\ VerifyEvidenceChain(rs)
  BY DEF Linked
<1>2. /\ Front(rs) \in Seq(Receipts) /\ Len(Front(rs)) = Len(rs) - 1 /\ Len(rs) \in Nat \ {0}
      /\ \A i \in 1 .. Len(Front(rs)) : Front(rs)[i] = rs[i]
  BY <1>1, FrontLast
<1>3. ASSUME NEW i \in 1 .. Len(Front(rs))
      PROVE  /\ i \in 1 .. Len(rs)
             /\ Front(rs)[i] = rs[i] /\ (i # 1 => Front(rs)[i - 1] = rs[i - 1])
  BY <1>2
<1> QED
  BY <1>1, <1>2, <1>3 DEF Linked, VerifyEvidenceChain

-----------------------------------------------------------------------------
(* The invariant.                                                          *)

\* Every end of a write leaves a chain.
LEMMA WritesLink ==
    ASSUME LedgerInv, end = "receipt" => lines # <<>>, NEW c \in Commits,
           \/ AppendEvidenceReceipt(NewReceipt(lines, c))
           \/ AppendStops(NewReceipt(lines, c))
    PROVE  /\ Linked(lines') /\ malformed' \in Nat /\ end' \in Ends
           /\ end' = "receipt" => lines' # <<>>
<1> DEFINE r == NewReceipt(lines, c)
<1>1. Linked(lines) /\ malformed \in Nat /\ lines \in Seq(Receipts)
  BY DEF LedgerInv, TypeOK
<1>2. Linked(Append(lines, r)) /\ Append(lines, r) # <<>>
  BY <1>1, NewReceiptLinks
<1>3. Linked(Joined)
  BY <1>1, FrontLinks DEF Joined
<1>4. CASE AppendEvidenceReceipt(r)
  BY <1>1, <1>2, <1>3, <1>4 DEF AppendEvidenceReceipt, Ends
<1>5. CASE AppendStops(r)
  BY <1>1, <1>2, <1>3, <1>5 DEF AppendStops, Ends
<1> QED
  BY <1>4, <1>5

\* What is inductive: the chain, and a receipt at the end that is one.
IInv == LedgerInv /\ (end = "receipt" => lines # <<>>)

\* The empty ledger is a chain.
LEMMA EmptyLinks == Linked(<<>>)
BY DEF Linked, VerifyEvidenceChain

\* A ledger starts empty.
LEMMA InitInv == Init => IInv
BY EmptyLinks DEF Init, IInv, LedgerInv, TypeOK, Ends

\* No call leaves the invariant.
LEMMA NextInv == IInv /\ [Next]_vars => IInv'
<1> SUFFICES ASSUME IInv, [Next]_vars PROVE IInv'
  OBVIOUS
<1>1. ASSUME NEW c \in Commits, CommitEvidenceReceipt(c) PROVE IInv'
  <2>1. AppendEvidenceReceipt(NewReceipt(lines, c)) /\ called' = called \cup {c}
        /\ returned' = returned \cup {NewReceipt(lines, c)}
    BY <1>1 DEF CommitEvidenceReceipt, ReadEvidenceReceipts, Call
  <2>2. NewReceipt(lines, c) \in Receipts
    BY NewReceiptType DEF IInv, LedgerInv, TypeOK
  <2> QED
    BY <2>1, <2>2, WritesLink DEF IInv, LedgerInv, TypeOK, Linked
<1>2. ASSUME NEW c \in Commits, CommitFails(c) PROVE IInv'
  <2>1. called' = called \cup {c} /\ returned' = returned
    BY <1>2 DEF CommitFails, Call
  <2>2. CASE UNCHANGED file
    BY <2>1, <2>2 DEF IInv, LedgerInv, TypeOK, file
  <2>3. CASE AppendStops(NewReceipt(lines, c)) \/ AppendEvidenceReceipt(NewReceipt(lines, c))
    BY <2>1, <2>3, WritesLink DEF IInv, LedgerInv, TypeOK, Linked
  <2> QED
    BY <1>2, <2>2, <2>3 DEF CommitFails, ReadEvidenceReceipts
<1>3. CASE ClearEvidenceLedger
  BY <1>3, EmptyLinks DEF ClearEvidenceLedger, IInv, LedgerInv, TypeOK, Ends
<1>4. CASE UNCHANGED vars
  BY <1>4 DEF IInv, LedgerInv, TypeOK, vars, file
<1> QED
  BY <1>1, <1>2, <1>3, <1>4 DEF Next

\* It holds for good.
LEMMA SpecInv == Spec => []IInv
BY InitInv, NextInv, PTL DEF Spec

\* The ledger's files and the receipts handed out are what their types say.
THEOREM LedgerTypeCorrect == Spec => []TypeOK
<1>1. IInv => TypeOK
  BY DEF IInv, LedgerInv
<1> QED
  BY <1>1, SpecInv, PTL

\* verifyEvidenceChain accepts the ledger, however many commits failed and
\* wherever their writes stopped.
THEOREM LedgerAlwaysVerifies == Spec => []LedgerVerifies
<1>1. IInv => LedgerVerifies
  BY DEF IInv, LedgerInv, Linked, LedgerVerifies, ReadEvidenceReceipts
<1> QED
  BY <1>1, SpecInv, PTL

\* block_height is the place of a receipt in the ledger.
THEOREM HeightsAlwaysCount == Spec => []HeightsCount
<1>1. IInv => HeightsCount
  BY DEF IInv, LedgerInv, Linked, HeightsCount, ReadEvidenceReceipts
<1> QED
  BY <1>1, SpecInv, PTL

-----------------------------------------------------------------------------
(* What verification finds.                                                *)

\* A chain with another call in one of its receipts does not verify.
LEMMA AlteredFails ==
    ASSUME NEW rs, Linked(rs), NEW i \in 1 .. Len(rs),
           NEW c \in Commits \ {rs[i].commit}
    PROVE  ~VerifyEvidenceChain([rs EXCEPT ![i].commit = c])
<1> DEFINE ts == [rs EXCEPT ![i].commit = c]
<1>1. /\ rs \in Seq(Receipts) /\ rs[i] \in Receipts
      /\ rs[i].proof = Append(rs[i].previous, rs[i].commit)
  BY DEF Linked, VerifyEvidenceChain, ProofHash
<1>2. rs[i].previous \in Seq(Commits) /\ rs[i].commit \in Commits
  BY <1>1 DEF Receipts, Hashes
<1>3. Append(rs[i].previous, c) # Append(rs[i].previous, rs[i].commit)
  BY <1>2, AppendInjective
<1>4. /\ Len(ts) = Len(rs)
      /\ ts[i].commit = c /\ ts[i].previous = rs[i].previous /\ ts[i].proof = rs[i].proof
  BY <1>1 DEF Receipts
<1> QED
  BY <1>1, <1>3, <1>4 DEF VerifyEvidenceChain, ProofHash

\* Neither does a chain with a receipt taken out of it before its last.
LEMMA RemovedFails ==
    ASSUME NEW rs, Linked(rs), NEW i \in 1 .. Len(rs), i < Len(rs)
    PROVE  ~VerifyEvidenceChain(RemoveAt(rs, i))
<1> DEFINE ts == RemoveAt(rs, i)
           a == SubSeq(rs, 1, i - 1)
           b == SubSeq(rs, i + 1, Len(rs))
<1>1. rs \in Seq(Receipts) /\ Len(rs) \in Nat /\ i \in Nat /\ i >= 1
  BY DEF Linked
<1>2. /\ a \in Seq(Receipts) /\ Len(a) = i - 1
      /\ \A j \in 1 .. i - 1 : a[j] = rs[j]
  <2>1. \A j \in 1 .. i - 1 : rs[j] \in Receipts
    BY <1>1
  <2>2. /\ a \in Seq(Receipts)
        /\ Len(a) = (IF 1 <= i - 1 THEN (i - 1) - 1 + 1 ELSE 0)
        /\ \A j \in 1 .. (i - 1) - 1 + 1 : a[j] = rs[1 + j - 1]
    BY <1>1, <2>1, SubSeqProperties, i - 1 \in Int
  <2> QED
    BY <1>1, <2>2
<1>3. /\ b \in Seq(Receipts) /\ Len(b) = Len(rs) - i
      /\ b[1] = rs[i + 1]
  <2>1. \A j \in i + 1 .. Len(rs) : rs[j] \in Receipts
    BY <1>1
  <2>2. /\ b \in Seq(Receipts)
        /\ Len(b) = (IF i + 1 <= Len(rs) THEN Len(rs) - (i + 1) + 1 ELSE 0)
        /\ \A j \in 1 .. Len(rs) - (i + 1) + 1 : b[j] = rs[i + 1 + j - 1]
    BY <1>1, <2>1, SubSeqProperties, i + 1 \in Int
  <2> QED
    BY <1>1, <2>2
<1>0. ts = a \o b
  BY DEF RemoveAt
<1> HIDE DEF ts, a, b
<1>4. /\ Len(ts) = Len(rs) - 1
      /\ ts[i] = rs[i + 1]
      /\ i > 1 => ts[i - 1] = rs[i - 1]
  <2>2. /\ Len(ts) = Len(a) + Len(b) /\ (Len(b) >= 1 => ts[Len(a) + 1] = b[1])
        /\ \A j \in 1 .. Len(a) : ts[j] = a[j]
    <3>1. /\ Len(ts) = Len(a) + Len(b)
          /\ \A j \in 1 .. Len(a) + Len(b) :
                ts[j] = IF j <= Len(a) THEN a[j] ELSE b[j - Len(a)]
      BY <1>0, <1>2, <1>3, ConcatProperties
    <3>2. Len(a) \in Nat /\ Len(b) \in Nat
      BY <1>2, <1>3
    <3> QED
      BY <3>1, <3>2
  <2>3. Len(a) \in Nat /\ Len(b) \in Nat /\ Len(a) + 1 = i /\ Len(b) >= 1
    BY <1>1, <1>2, <1>3
  <2>4. Len(ts) = Len(rs) - 1
    BY <1>1, <1>2, <1>3, <2>2
  <2>5. ts[i] = rs[i + 1]
    BY <1>3, <2>2, <2>3
  <2>6. i > 1 => ts[i - 1] = a[i - 1] /\ a[i - 1] = rs[i - 1]
    BY <1>1, <1>2, <2>2
  <2> QED
    BY <2>4, <2>5, <2>6
<1>5. /\ rs[i + 1].previous = Append(rs[i].previous, rs[i].commit)
      /\ rs[i].previous = (IF i = 1 THEN <<>> ELSE rs[i - 1].proof)
  <2>1. i + 1 \in 1 .. Len(rs) /\ i + 1 # 1 /\ (i + 1) - 1 = i
    BY <1>1
  <2> QED
    BY <1>1, <2>1 DEF Linked, VerifyEvidenceChain, ProofHash
<1>6. Append(rs[i].previous, rs[i].commit) # rs[i].previous
  <2>0. rs[i] \in Receipts
    BY <1>1
  <2>1. rs[i].previous \in Seq(Commits) /\ rs[i].commit \in Commits
    BY <2>0 DEF Receipts, Hashes
  <2>2. Len(Append(rs[i].previous, rs[i].commit)) = Len(rs[i].previous) + 1
    BY <2>1, AppendProperties
  <2>3. Len(rs[i].previous) \in Nat
    BY <2>1
  <2> QED
    BY <2>2, <2>3
<1>7. SUFFICES ASSUME VerifyEvidenceChain(ts) PROVE FALSE
  BY DEF ts
<1>8. i \in 1 .. Len(ts)
  BY <1>1, <1>4
<1>9. ts[i].previous = (IF i = 1 THEN <<>> ELSE ts[i - 1].proof)
  BY <1>7, <1>8 DEF VerifyEvidenceChain
<1>10. ts[i].previous = rs[i].previous
  BY <1>1, <1>4, <1>5, <1>9
<1> QED
  BY <1>4, <1>5, <1>6, <1>10

\* A ledger that was altered, or lost a receipt other than its last, is found
\* out by verifyEvidenceChain.
THEOREM TamperingIsAlwaysFound == Spec => []TamperingIsFound
<1>1. IInv => TamperingIsFound
  BY AlteredFails, RemovedFails
  DEF IInv, LedgerInv, TamperingIsFound, ReadEvidenceReceipts
<1> QED
  BY <1>1, SpecInv, PTL

-----------------------------------------------------------------------------
(* What is lost.                                                           *)

Lost == returned \ ToSet(lines)

\* What is inductive: a receipt that lost its newline was not handed out, so
\* that the line it is joined to takes nothing with it but its own.
LossInv ==
    /\ \A r \in returned : r.commit \in called
    /\ end = "receipt" => Last(lines) \notin returned
    /\ IsFiniteSet(Lost)
    /\ Cardinality(Lost) <= malformed

\* The receipts of a ledger but its last are those of its front.
LEMMA FrontToSet ==
    ASSUME NEW rs \in Seq(Receipts), rs # <<>>
    PROVE  ToSet(rs) \subseteq ToSet(Front(rs)) \cup {Last(rs)}
<1>1. /\ Len(rs) \in Nat \ {0} /\ Last(rs) = rs[Len(rs)]
      /\ Len(Front(rs)) = Len(rs) - 1
      /\ \A i \in 1 .. Len(Front(rs)) : Front(rs)[i] = rs[i]
  BY FrontLast
<1> SUFFICES ASSUME NEW i \in 1 .. Len(rs) PROVE rs[i] \in ToSet(Front(rs)) \cup {Last(rs)}
  BY DEF ToSet
<1>2. i = Len(rs) => rs[i] = Last(rs)
  BY <1>1
<1>3. i # Len(rs) => i \in 1 .. Len(Front(rs))
  BY <1>1
<1>4. Front(rs) \in Seq(Receipts) => DOMAIN Front(rs) = 1 .. Len(Front(rs))
  OBVIOUS
<1>5. i \in 1 .. Len(Front(rs)) => rs[i] = Front(rs)[i] /\ rs[i] \in ToSet(Front(rs))
  <2> DEFINE f == Front(rs)
  <2>1. f \in Seq(Receipts) /\ DOMAIN f = 1 .. Len(f)
    BY <1>4, FrontLast
  <2>2. \A j \in 1 .. Len(f) : f[j] = rs[j]
    BY <1>1
  <2> HIDE DEF f
  <2> QED
    BY <2>1, <2>2 DEF f, ToSet
<1> QED
  BY <1>2, <1>3, <1>5

\* An appended receipt joins those that were there.
LEMMA AppendToSet ==
    ASSUME NEW rs \in Seq(Receipts), NEW r \in Receipts
    PROVE  /\ ToSet(rs) \subseteq ToSet(Append(rs, r)) /\ r \in ToSet(Append(rs, r))
           /\ Last(Append(rs, r)) = r
<1> DEFINE ts == Append(rs, r)
<1>1. /\ ts \in Seq(Receipts) /\ Len(ts) = Len(rs) + 1 /\ Len(rs) \in Nat
      /\ ts[Len(ts)] = r /\ \A i \in 1 .. Len(rs) : ts[i] = rs[i]
  OBVIOUS
<1>2. Len(ts) \in 1 .. Len(ts) /\ \A i \in 1 .. Len(rs) : i \in 1 .. Len(ts)
  BY <1>1
<1> QED
  BY <1>1, <1>2 DEF ToSet, Last

\* A set that grows by no more than one element counts one more at most.
LEMMA GrowsByOne ==
    ASSUME NEW S, IsFiniteSet(S), NEW x, NEW T, T \subseteq S \cup {x}
    PROVE  IsFiniteSet(T) /\ Cardinality(T) <= Cardinality(S) + 1
<1>1. /\ IsFiniteSet(S \cup {x}) /\ Cardinality(S) \in Nat
      /\ Cardinality(S \cup {x}) \in {Cardinality(S), Cardinality(S) + 1}
  BY FS_AddElement, FS_CardinalityType
<1>2. IsFiniteSet(T) /\ Cardinality(T) <= Cardinality(S \cup {x}) /\ Cardinality(T) \in Nat
  BY <1>1, FS_Subset, FS_CardinalityType
<1> QED
  BY <1>1, <1>2

\* What a write does to the receipts handed out before it: it loses none.
LEMMA WritesLoseNothing ==
    ASSUME IInv, LossInv, NEW c \in Commits \ called,
           \/ AppendEvidenceReceipt(NewReceipt(lines, c))
           \/ AppendStops(NewReceipt(lines, c))
    PROVE  /\ returned \ ToSet(lines') \subseteq Lost
           /\ NewReceipt(lines, c) \in ToSet(lines') \/ malformed' = malformed + 1
              \/ end' # "newline"
           /\ malformed' \in {malformed, malformed + 1}
           /\ end' = "receipt" => Last(lines') = NewReceipt(lines, c)
           /\ NewReceipt(lines, c) \notin returned
<1> DEFINE r == NewReceipt(lines, c)
<1>1. lines \in Seq(Receipts) /\ r \in Receipts /\ r.commit = c /\ r \notin returned
  BY NewReceiptType DEF IInv, LedgerInv, TypeOK, NewReceipt, LossInv
<1>2. ToSet(lines) \subseteq ToSet(Append(lines, r)) /\ r \in ToSet(Append(lines, r))
      /\ Last(Append(lines, r)) = r
  BY <1>1, AppendToSet
<1>3. returned \ ToSet(Joined) \subseteq Lost
  <2>1. CASE end = "receipt"
    <3>1. lines # <<>> /\ Last(lines) \notin returned
      BY <2>1 DEF IInv, LossInv
    <3> QED
      BY <1>1, <2>1, <3>1, FrontToSet DEF Joined, Lost
  <2>2. CASE end # "receipt"
    BY <2>2 DEF Joined, Lost
  <2> QED
    BY <2>1, <2>2
<1> HIDE DEF r
<1>4. CASE AppendEvidenceReceipt(r)
  BY <1>1, <1>2, <1>3, <1>4 DEF AppendEvidenceReceipt, Lost, r
<1>5. CASE AppendStops(r)
  BY <1>1, <1>2, <1>3, <1>5 DEF AppendStops, Lost, r
<1> QED
  BY <1>4, <1>5 DEF r

\* No call loses a receipt but to the line it makes malformed.
LEMMA NextLoss == IInv /\ LossInv /\ [Next]_vars => LossInv'
<1> SUFFICES ASSUME IInv, LossInv, [Next]_vars PROVE LossInv'
  OBVIOUS
<1>0. malformed \in Nat /\ Cardinality(Lost) \in Nat
  BY FS_CardinalityType DEF IInv, LedgerInv, TypeOK, LossInv
<1>1. ASSUME NEW c \in Commits, CommitEvidenceReceipt(c) PROVE LossInv'
  <2> DEFINE r == NewReceipt(lines, c)
  <2>1. /\ c \notin called /\ called' = called \cup {c}
        /\ AppendEvidenceReceipt(r) /\ returned' = returned \cup {r} /\ end' = "newline"
    BY <1>1 DEF CommitEvidenceReceipt, ReadEvidenceReceipts, Call, AppendEvidenceReceipt
  <2>2. r.commit = c
    BY DEF NewReceipt
  <2>3. /\ returned \ ToSet(lines') \subseteq Lost
        /\ malformed' \in {malformed, malformed + 1}
        /\ r \in ToSet(lines') \/ malformed' = malformed + 1
    BY <2>1, WritesLoseNothing
  <2>4. CASE r \in ToSet(lines')
    <3>1. Lost' \subseteq Lost
      BY <2>1, <2>3, <2>4 DEF Lost
    <3>2. /\ IsFiniteSet(Lost') /\ Cardinality(Lost') \in Nat
          /\ Cardinality(Lost') <= Cardinality(Lost)
      BY <3>1, FS_Subset, FS_CardinalityType DEF LossInv
    <3> QED
      BY <1>0, <2>1, <2>2, <2>3, <3>2 DEF LossInv
  <2>5. CASE malformed' = malformed + 1
    <3>1. Lost' \subseteq Lost \cup {r}
      BY <2>1, <2>3 DEF Lost
    <3>2. IsFiniteSet(Lost') /\ Cardinality(Lost') <= Cardinality(Lost) + 1
          /\ Cardinality(Lost') \in Nat
      BY <3>1, GrowsByOne, FS_CardinalityType DEF LossInv
    <3> QED
      BY <1>0, <2>1, <2>2, <2>5, <3>2 DEF LossInv
  <2> QED
    BY <2>3, <2>4, <2>5
<1>2. ASSUME NEW c \in Commits, CommitFails(c) PROVE LossInv'
  <2> DEFINE r == NewReceipt(lines, c)
  <2>1. c \notin called /\ called' = called \cup {c} /\ returned' = returned
    BY <1>2 DEF CommitFails, Call
  <2>2. CASE UNCHANGED file
    BY <2>1, <2>2 DEF LossInv, Lost, file
  <2>3. CASE AppendStops(r) \/ AppendEvidenceReceipt(r)
    <3>1. /\ returned \ ToSet(lines') \subseteq Lost
          /\ malformed' \in {malformed, malformed + 1}
          /\ end' = "receipt" => Last(lines') = r
          /\ r \notin returned
      BY <2>1, <2>3, WritesLoseNothing
    <3>2. Lost' \subseteq Lost
      BY <2>1, <3>1 DEF Lost
    <3>3. /\ IsFiniteSet(Lost') /\ Cardinality(Lost') \in Nat
          /\ Cardinality(Lost') <= Cardinality(Lost)
      BY <3>2, FS_Subset, FS_CardinalityType DEF LossInv
    <3> HIDE DEF r
    <3> QED
      BY <1>0, <2>1, <3>1, <3>3 DEF LossInv
  <2> QED
    BY <1>2, <2>2, <2>3 DEF CommitFails, ReadEvidenceReceipts
<1>3. CASE ClearEvidenceLedger
  <2>1. returned' = {} /\ Lost' = {} /\ malformed' = 0 /\ end' = "newline"
    BY <1>3 DEF ClearEvidenceLedger, Lost
  <2> QED
    BY <2>1, FS_EmptySet DEF LossInv
<1>4. CASE UNCHANGED vars
  BY <1>4 DEF LossInv, Lost, vars, file
<1> QED
  BY <1>1, <1>2, <1>3, <1>4 DEF Next

\* A receipt that was handed out and is gone was lost to a malformed line, and
\* each such line lost one at most, however many commits failed.
THEOREM LossIsAlwaysMalformed == Spec => []LossIsMalformed
<1>1. Init => LossInv
  <2> SUFFICES ASSUME Init PROVE LossInv
    OBVIOUS
  <2>1. returned = {} /\ Lost = {} /\ malformed = 0 /\ end = "newline"
    BY DEF Init, Lost
  <2> QED
    BY <2>1, FS_EmptySet DEF LossInv
<1>2. LossInv => LossIsMalformed
  BY DEF LossInv, LossIsMalformed, Lost, ReadEvidenceReceipts
<1> QED
  BY <1>1, <1>2, NextLoss, SpecInv, PTL DEF Spec

-----------------------------------------------------------------------------
(* The abstract chain.                                                     *)

\* The chain is as long as the ledger.
LEMMA CallsType ==
    ASSUME NEW rs \in Seq(Receipts)
    PROVE  CallsOf(rs) \in Seq(Commits) /\ Len(CallsOf(rs)) = Len(rs)
<1>1. Len(rs) \in Nat /\ \A i \in 1 .. Len(rs) : rs[i] \in Receipts
  OBVIOUS
<1>2. \A i \in 1 .. Len(rs) : rs[i].commit \in Commits
  BY <1>1 DEF Receipts
<1>3. CallsOf(rs) \in [1 .. Len(rs) -> Commits]
  BY <1>2 DEF CallsOf
<1> QED
  BY <1>1, <1>3

\* A receipt added to the ledger adds its call to the chain.
LEMMA CallsAppend ==
    ASSUME NEW rs \in Seq(Receipts), NEW r \in Receipts
    PROVE  CallsOf(Append(rs, r)) = Append(CallsOf(rs), r.commit)
<1>1. CallsOf(rs) \in Seq(Commits) /\ Len(CallsOf(rs)) = Len(rs)
  BY CallsType
<1> QED
  BY <1>1 DEF CallsOf

\* The last receipt taken from the ledger takes its call from the chain.
LEMMA CallsFront ==
    ASSUME NEW rs \in Seq(Receipts), rs # <<>>
    PROVE  CallsOf(Front(rs)) = Front(CallsOf(rs))
<1>1. CallsOf(rs) \in Seq(Commits) /\ Len(CallsOf(rs)) = Len(rs) /\ CallsOf(rs) # <<>>
  BY CallsType, FrontLast
<1>2. /\ Front(rs) \in Seq(Receipts) /\ Len(Front(rs)) = Len(rs) - 1
      /\ \A i \in 1 .. Len(Front(rs)) : Front(rs)[i] = rs[i]
  BY FrontLast
<1>3. /\ Front(CallsOf(rs)) \in Seq(Commits) /\ Len(Front(CallsOf(rs))) = Len(rs) - 1
      /\ \A i \in 1 .. Len(rs) - 1 : Front(CallsOf(rs))[i] = CallsOf(rs)[i]
  BY <1>1, FrontLast
<1>4. Front(CallsOf(rs)) = [i \in 1 .. Len(rs) - 1 |-> CallsOf(rs)[i]]
  BY <1>3
<1>5. \A i \in 1 .. Len(rs) - 1 : CallsOf(rs)[i] = rs[i].commit
  BY DEF CallsOf
<1> QED
  BY <1>2, <1>4, <1>5 DEF CallsOf

\* Whatever becomes of a write, it is a step of the chain, or none.
LEMMA WritesRefine ==
    ASSUME IInv, NEW c \in Commits,
           \/ AppendEvidenceReceipt(NewReceipt(lines, c))
           \/ AppendStops(NewReceipt(lines, c))
    PROVE  [Chain!Next]_(Chain!vars)
<1> DEFINE r == NewReceipt(lines, c)
<1>1. /\ lines \in Seq(Receipts) /\ r \in Receipts /\ r.commit = c
      /\ end \in Ends /\ (end = "receipt" => lines # <<>>)
  BY NewReceiptType DEF IInv, LedgerInv, TypeOK, NewReceipt
<1>2. CallsOf(Append(lines, r)) = Append(CallsOf(lines), c)
  BY <1>1, CallsAppend
<1>3. CASE end = "newline" /\ lines' = Append(lines, r)
  BY <1>2, <1>3 DEF Chain!Next, Chain!Add, ReadEvidenceReceipts
<1>4. CASE end = "receipt" /\ lines' = Front(lines) /\ end' # "receipt"
  <2>1. CallsOf(lines') = Front(CallsOf(lines))
    BY <1>1, <1>4, CallsFront
  <2> QED
    BY <1>4, <2>1 DEF Chain!Next, Chain!Drop, Chain!Front, Front, ReadEvidenceReceipts
<1>5. CASE end # "receipt" /\ lines' = lines /\ end' # "receipt"
  BY <1>5 DEF Chain!vars, ReadEvidenceReceipts
<1> QED
  BY <1>1, <1>3, <1>4, <1>5 DEF AppendEvidenceReceipt, AppendStops, Joined, Ends

\* Every call is a step of the chain, or none.
LEMMA NextRefines == IInv /\ [Next]_vars => [Chain!Next]_(Chain!vars)
<1> SUFFICES ASSUME IInv, [Next]_vars PROVE [Chain!Next]_(Chain!vars)
  OBVIOUS
<1>1. ASSUME NEW c \in Commits, CommitEvidenceReceipt(c) PROVE [Chain!Next]_(Chain!vars)
  BY <1>1, WritesRefine DEF CommitEvidenceReceipt, ReadEvidenceReceipts
<1>2. ASSUME NEW c \in Commits, CommitFails(c) PROVE [Chain!Next]_(Chain!vars)
  <2>1. CASE UNCHANGED file
    BY <2>1 DEF file, Chain!vars, ReadEvidenceReceipts
  <2>2. CASE ~UNCHANGED file
    BY <1>2, <2>2, WritesRefine DEF CommitFails, ReadEvidenceReceipts
  <2> QED
    BY <2>1, <2>2
<1>3. CASE ClearEvidenceLedger
  <2>1. CallsOf(lines') = <<>>
    BY <1>3 DEF ClearEvidenceLedger, CallsOf
  <2> QED
    BY <1>3, <2>1 DEF ClearEvidenceLedger, Chain!Next, Chain!Clear, ReadEvidenceReceipts
<1>4. CASE UNCHANGED vars
  BY <1>4 DEF vars, file, Chain!vars, ReadEvidenceReceipts
<1> QED
  BY <1>1, <1>2, <1>3, <1>4 DEF Next

\* The ledger implements the abstract chain.
THEOREM LedgerRefinesChain == Spec => ChainGrowsAtItsEnd
<1>1. Init => Chain!Init
  BY DEF Init, Chain!Init, CallsOf, ReadEvidenceReceipts
<1> QED
  BY <1>1, NextRefines, SpecInv, PTL DEF Spec, ChainGrowsAtItsEnd, Chain!Spec
=============================================================================
