--------------------------- MODULE TraTrailProofs ---------------------------
(***************************************************************************)
(* Theorems about the trails of TraGovernance: what a call leaves in the   *)
(* audit log and the ledger, through failing writes, crashes and resets,   *)
(* for every set of packs, sessions and calls.                             *)
(***************************************************************************)
EXTENDS TraGovernanceProofs

\* Where a call has recorded nothing yet.
Unopened == {"idle", "approval", "approved", "refused", "llm", "text2sql",
             "insert", "insertAudit", "insertBlocked"}

\* Where it has passed the stages below Rank.
Running == {"text2sql", "dbQuery", "ruleEval", "decision", "commit", "commitAudit"}

Rank(l) == IF l = "text2sql" THEN 1
           ELSE IF l = "dbQuery" THEN 2
           ELSE IF l = "ruleEval" THEN 3
           ELSE IF l = "decision" THEN 4
           ELSE 5

\* The log holds stage st of c, not blocked.
Recorded(c, st) ==
    \E e \in Trail(c) : e.step = st /\ e.pack = pack[c] /\ e.status # "BLOCKED"

\* A trail is about one pack and holds its stages in order.
StagesInOrder(c) ==
    \A e \in Trail(c) :
        /\ e.pack = pack[c]
        /\ e.step \in PipelineSteps /\ e.status # "BLOCKED" =>
              /\ e.step \in DeclaredStages(pack[c])
              /\ \A st \in DeclaredStages(pack[c]) :
                    StageRank[st] < StageRank[e.step] => Recorded(c, st)

\* Who was blocked failed over it.
BlockedIsAlone(c) ==
    \A e \in Trail(c) :
        e.status = "BLOCKED" =>
            /\ pc[c] = "failed"
            /\ \A f \in Trail(c) : f = e
            /\ \A r \in ledger : r.trail # c

\* What a call has recorded where it is.
RecordsReach(c) ==
    /\ pc[c] \in Unopened => Trail(c) = {}
    /\ pc[c] \in Running =>
          \A st \in DeclaredStages(pack[c]) :
             StageRank[st] < Rank(pc[c]) => Recorded(c, st)
    /\ pc[c] = "ruleEval" => pack[c] \in RulePacks
    /\ pc[c] \in {"commit", "commitAudit"} => pack[c] \in LedgerPacks
    /\ pc[c] \in {"insert", "insertAudit", "insertBlocked"} => tool[c] = "write"

\* A receipt is its call's, and its stages are recorded unless a reset
\* cleared them and not the receipt.
ReceiptsAreBacked(c) ==
    /\ \A r \in ledger : r.trail = c =>
          /\ r.pack = pack[c]
          /\ pc[c] \in {"commitAudit", "answered", "failed"}
          /\ resetCut \/ resetStep = "ledger" \/
             \A st \in DeclaredStages(pack[c]) \ {"LEDGER_COMMIT"} : Recorded(c, st)
    /\ pc[c] = "commitAudit" => \E r \in ledger : r.trail = c /\ r.pack = pack[c]

TrailInv(c) ==
    /\ StagesInOrder(c)
    /\ BlockedIsAlone(c)
    /\ RecordsReach(c)
    /\ ReceiptsAreBacked(c)

\* A reset has the gateway to itself.
ResetIsAlone == resetStep # "none" => \A c \in Calls : pc[c] \notin Stages

TrailsInv ==
    /\ ResetIsAlone
    /\ \A c \in Calls : TrailInv(c)

-----------------------------------------------------------------------------
(* The stages and their ranks.                                             *)

\* The ranks, one by one.
LEMMA Ranks ==
    /\ StageRank["TEXT2SQL_GEN"] = 1 /\ StageRank["DB_QUERY"] = 2
    /\ StageRank["RULE_EVAL"] = 3 /\ StageRank["AGENT_DECISION"] = 4
    /\ StageRank["LEDGER_COMMIT"] = 5
BY DEF StageRank

\* What a pack declares are steps of the pipeline.
LEMMA StagesArePipelineSteps ==
    ASSUME NEW p
    PROVE  DeclaredStages(p) \subseteq PipelineSteps
BY DEF DeclaredStages, PipelineSteps

-----------------------------------------------------------------------------
(* What a step does to one call's trail.                                   *)

\* The step leaves what c recorded alone; c goes on where it is or fails.
Rests(c) ==
    /\ Trail(c)' = Trail(c)
    /\ pack'[c] = pack[c] /\ tool'[c] = tool[c]
    /\ pc'[c] \in {pc[c], "failed"}
    /\ \A r : r.trail = c => (r \in ledger' <=> r \in ledger)
    /\ (resetCut \/ resetStep = "ledger") => (resetCut' \/ resetStep' = "ledger")

\* So what is said of c stays true.
LEMMA TrailRests ==
    ASSUME NEW c \in Calls, TrailInv(c), Rests(c)
    PROVE  TrailInv(c)'
<1>1. \A st : Recorded(c, st)' <=> Recorded(c, st)
  BY DEF Rests, Recorded
<1>2. \A e : e \in Trail(c)' <=> e \in Trail(c)
  BY DEF Rests
<1>3. StagesInOrder(c)'
  BY <1>1, <1>2 DEF TrailInv, StagesInOrder, Rests
<1>4. BlockedIsAlone(c)'
  BY <1>2 DEF TrailInv, BlockedIsAlone, Rests
<1>5. RecordsReach(c)'
  BY <1>1, <1>2 DEF TrailInv, RecordsReach, Rests, Unopened, Running
<1>6. ReceiptsAreBacked(c)'
  BY <1>1 DEF TrailInv, ReceiptsAreBacked, Rests
<1> QED  BY <1>3, <1>4, <1>5, <1>6 DEF TrailInv

\* c has recorded nothing and does not start to; its pack may be chosen yet.
LEMMA TrailStaysEmpty ==
    ASSUME NEW c \in Calls, TrailInv(c), pc[c] \in Unopened,
           UNCHANGED <<audit, ledger, resetStep, resetCut>>,
           pc'[c] \in Unopened \cup {"failed"},
           pc'[c] \in {"insert", "insertAudit", "insertBlocked"} => tool'[c] = "write"
    PROVE  TrailInv(c)'
<1>1. Trail(c) = {} /\ Trail(c)' = {}
  BY DEF TrailInv, RecordsReach, Trail
<1>2. \A r \in ledger' : r.trail # c
  BY DEF TrailInv, ReceiptsAreBacked, Unopened
<1>3. StagesInOrder(c)' /\ BlockedIsAlone(c)'
  BY <1>1 DEF StagesInOrder, BlockedIsAlone
<1>4. \A st \in DeclaredStages(pack'[c]) : StageRank[st] \in Nat /\ StageRank[st] >= 1
  BY Ranks, StagesArePipelineSteps DEF PipelineSteps
<1>5. RecordsReach(c)'
  BY <1>1, <1>4 DEF RecordsReach, Unopened, Running, Rank
<1>6. ReceiptsAreBacked(c)'
  BY <1>2 DEF ReceiptsAreBacked, Unopened
<1> QED  BY <1>3, <1>5, <1>6 DEF TrailInv

\* c is blocked before it recorded anything.
LEMMA TrailIsBlocked ==
    ASSUME NEW c \in Calls, TrailInv(c), pc[c] \in Unopened,
           NEW st \in Steps,
           audit' = audit \cup {Event(c, st, "BLOCKED", pack'[c])},
           UNCHANGED <<ledger, resetStep, resetCut>>,
           pc'[c] = "failed"
    PROVE  TrailInv(c)'
<1> DEFINE e == Event(c, st, "BLOCKED", pack'[c])
<1>1. e.trail = c /\ e.status = "BLOCKED" /\ e.pack = pack'[c]
  BY DEF Event
<1>2. \A f : f \in Trail(c)' <=> f = e
  BY <1>1 DEF TrailInv, RecordsReach, Trail
<1>3. \A r \in ledger' : r.trail # c
  BY DEF TrailInv, ReceiptsAreBacked, Unopened
<1>4. StagesInOrder(c)' /\ BlockedIsAlone(c)'
  BY <1>1, <1>2, <1>3 DEF StagesInOrder, BlockedIsAlone
<1>5. RecordsReach(c)'
  BY DEF RecordsReach, Unopened, Running
<1>6. ReceiptsAreBacked(c)'
  BY <1>3 DEF ReceiptsAreBacked
<1> QED  BY <1>4, <1>5, <1>6 DEF TrailInv

\* c records the stage it is at and goes on at l, past all that this stage
\* leaves out.
LEMMA TrailAdvances ==
    ASSUME NEW c \in Calls, TrailInv(c), pc[c] \in Running,
           NEW s \in DeclaredStages(pack[c]), StageRank[s] = Rank(pc[c]),
           NEW status \in {"SUCCESS", "FAILURE"},
           NEW l \in (Running \ {"text2sql", "commitAudit"}) \cup {"answered"},
           \A st \in DeclaredStages(pack[c]) :
              StageRank[st] < Rank(l) => StageRank[st] < Rank(pc[c]) \/ st = s,
           l = "ruleEval" => pack[c] \in RulePacks,
           l = "commit" => pack[c] \in LedgerPacks,
           \A r \in ledger : r.trail = c => l = "answered",
           audit' = audit \cup {Event(c, s, status, pack[c])},
           pc'[c] = l, pack'[c] = pack[c],
           UNCHANGED <<ledger, resetStep, resetCut>>
    PROVE  /\ TrailInv(c)'
           /\ Recorded(c, s)'
           /\ \A st : Recorded(c, st) => Recorded(c, st)'
<1> DEFINE e == Event(c, s, status, pack[c])
<1>1. e.trail = c /\ e.status # "BLOCKED" /\ e.pack = pack[c] /\ e.step = s
  BY DEF Event
<1>2. \A f : f \in Trail(c)' <=> f \in Trail(c) \/ f = e
  BY <1>1 DEF Trail
<1>3. Recorded(c, s)' /\ \A st : Recorded(c, st) => Recorded(c, st)'
  BY <1>1, <1>2 DEF Recorded
<1>4. \A st \in DeclaredStages(pack[c]) : StageRank[st] < Rank(pc[c]) => Recorded(c, st)
  BY DEF TrailInv, RecordsReach
<1>5. StagesInOrder(c)'
  <2> SUFFICES ASSUME NEW f \in Trail(c)'
               PROVE  /\ f.pack = pack[c]
                      /\ f.step \in PipelineSteps /\ f.status # "BLOCKED" =>
                           /\ f.step \in DeclaredStages(pack[c])
                           /\ \A st \in DeclaredStages(pack[c]) :
                                StageRank[st] < StageRank[f.step] => Recorded(c, st)'
    BY DEF StagesInOrder
  <2>1. CASE f \in Trail(c)
    BY <2>1, <1>3 DEF TrailInv, StagesInOrder
  <2>2. CASE f = e
    BY <2>2, <1>1, <1>3, <1>4
  <2> QED  BY <1>2, <2>1, <2>2
<1>6. \A f \in Trail(c)' : f.status # "BLOCKED"
  BY <1>1, <1>2 DEF TrailInv, BlockedIsAlone, Running
<1>7. RecordsReach(c)'
  BY <1>3, <1>4 DEF RecordsReach, Unopened, Running
<1>8. ReceiptsAreBacked(c)'
  BY <1>3 DEF TrailInv, ReceiptsAreBacked, Running
<1> QED  BY <1>3, <1>5, <1>6, <1>7, <1>8 DEF TrailInv, BlockedIsAlone

-----------------------------------------------------------------------------
(* Steps.                                                                  *)

\* A call's step records for that call only, and no reset is under way.
Touches(c) ==
    /\ UNCHANGED <<tool, resetStep, resetCut>>
    /\ \A d \in Calls \ {c} :
          /\ pc'[d] = pc[d] /\ pack'[d] = pack[d]
          /\ Trail(d)' = Trail(d)
          /\ \A r : r.trail = d => (r \in ledger' <=> r \in ledger)

\* Appending an event of c's trail, or of none, adds to no other trail.
LEMMA AppendTouches ==
    ASSUME NEW c \in Calls, NEW e, e.trail \in {c} \cup OwnTrails,
           audit' \in {audit, audit \cup {e}}
    PROVE  \A d \in Calls \ {c} : Trail(d)' = Trail(d)
BY GovernanceAssumption DEF Trail

\* A guarded append of an event of c adds it, or fails c.
LEMMA AppendThenTouches ==
    ASSUME TypeOK, NEW c \in Calls, NEW st, NEW status, NEW l,
           AppendThen(c, Event(c, st, status, pack[c]), l)
    PROVE  /\ Touches(c) /\ ledger' = ledger /\ pack' = pack
           /\ \/ pc'[c] = l /\ audit' = audit \cup {Event(c, st, status, pack[c])}
              \/ pc'[c] = "failed" /\ audit' = audit
<1>1. Event(c, st, status, pack[c]).trail = c
  BY DEF Event
<1>2. \A d \in Calls \ {c} : Trail(d)' = Trail(d)
  BY <1>1, AppendTouches DEF AppendThen
<1> QED  BY <1>2 DEF AppendThen, Goto, TypeOK, Touches, resets

\* Whatever is decided before the model answers records nothing but a refusal.
LEMMA OpeningTrail ==
    ASSUME TypeOK, NEW c \in Calls, TrailInv(c),
           NEW r \in Packs \cup {NoPack}, NEW g \in Packs,
           \/ BeforeToolCall(c)
           \/ Execute(c)
           \/ Chat(c, r, g)
    PROVE  TrailInv(c)' /\ Touches(c)
<1>1. /\ \A d \in Calls \ {c} : pack'[d] = pack[d] /\ pc'[d] = pc[d]
      /\ UNCHANGED <<tool, ledger, resetStep, resetCut>>
      /\ pc[c] \in {"idle", "approved"}
  BY DEF BeforeToolCall, Execute, Chat, BindPack, StartPipeline, Goto, TypeOK, logs, resets
<1>2. \/ audit' = audit /\ pc'[c] \in {"refused", "approved", "approval", "llm", "failed"}
      \/ /\ audit' = audit \cup {Event(c, "TEXT2SQL_GEN", "BLOCKED", pack'[c])}
         /\ pc'[c] = "failed"
  BY DEF BeforeToolCall, Execute, Chat, StartPipeline, Goto, TypeOK, logs
<1>3. TrailInv(c)'
  BY <1>1, <1>2, TrailStaysEmpty, TrailIsBlocked DEF Unopened, Steps, PipelineSteps
<1>4. Event(c, "TEXT2SQL_GEN", "BLOCKED", pack'[c]).trail = c
  BY DEF Event
<1>5. \A d \in Calls \ {c} : Trail(d)' = Trail(d)
  BY <1>2, <1>4, AppendTouches DEF Trail
<1> QED  BY <1>1, <1>3, <1>5 DEF Touches

\* The decision is an event of no call.
LEMMA ApprovalTrail ==
    ASSUME TypeOK, NEW c \in Calls, TrailInv(c), NEW d, ResolveApproval(c, d)
    PROVE  TrailInv(c)' /\ Touches(c)
<1> DEFINE e(status) == Event("consent", "DATA_CONSENT", status, hookPack[c])
<1>0. \A status : e(status).trail \in OwnTrails
  BY DEF Event, OwnTrails
<1>1. \E status \in Statuses : audit' \in {audit, audit \cup {e(status)}}
  BY DEF ResolveApproval, Statuses
<1>2. \A b \in Calls : Trail(b)' = Trail(b)
  BY <1>0, <1>1, GovernanceAssumption DEF Trail
<1>3. /\ UNCHANGED <<tool, pack, ledger, resetStep, resetCut>>
      /\ pc[c] = "approval" /\ pc'[c] \in {"approved", "refused"}
      /\ \A b \in Calls \ {c} : pc'[b] = pc[b]
  BY DEF ResolveApproval, Goto, TypeOK, resets
<1>4. Touches(c)
  BY <1>2, <1>3 DEF Touches
<1>5. Trail(c)' = {} /\ \A r \in ledger' : r.trail # c
  BY <1>2, <1>3 DEF TrailInv, RecordsReach, ReceiptsAreBacked, Unopened
<1>6. TrailInv(c)'
  BY <1>3, <1>5 DEF TrailInv, StagesInOrder, BlockedIsAlone, RecordsReach, ReceiptsAreBacked,
     Unopened, Running
<1> QED  BY <1>4, <1>6

\* A call that only fails keeps its trail.
LEMMA FailureTrail ==
    ASSUME TypeOK, NEW c \in Calls, TrailInv(c),
           UNCHANGED <<tool, pack, audit, ledger, resetStep, resetCut>>, Goto(c, "failed")
    PROVE  TrailInv(c)' /\ Touches(c)
<1>1. Rests(c) /\ Touches(c)
  BY DEF Rests, Touches, Goto, TypeOK, Trail
<1> QED  BY <1>1, TrailRests

\* The model's answer opens the pipeline or a write; the answers that are no
\* acceptable SQL block it.
LEMMA LlmTrail ==
    ASSUME TypeOK, NEW c \in Calls, TrailInv(c),
           LlmFails(c) \/ LlmUnsafe(c) \/ LlmAnswers(c)
    PROVE  TrailInv(c)' /\ Touches(c)
<1>1. CASE Goto(c, "failed") /\ UNCHANGED <<tool, pack, logs, resets>>
  BY <1>1, FailureTrail DEF logs, resets
<1>2. CASE LlmAnswers(c)
  <2>1. /\ pc[c] = "llm" /\ pc'[c] \in {"insert", "text2sql"}
        /\ pc'[c] = "insert" => tool[c] = "write"
        /\ UNCHANGED <<tool, pack, audit, ledger, resetStep, resetCut>>
        /\ \A d \in Calls \ {c} : pc'[d] = pc[d]
    BY <1>2 DEF LlmAnswers, Goto, TypeOK, logs, resets
  <2>2. TrailInv(c)'
    BY <2>1, TrailStaysEmpty DEF Unopened
  <2> QED  BY <2>1, <2>2 DEF Touches, Trail
<1>3. CASE /\ LlmUnsafe(c)
           /\ AppendThen(c, Event(c, "TEXT2SQL_GEN", "BLOCKED", pack[c]), "failed")
  <2>1. /\ Touches(c) /\ ledger' = ledger /\ pack' = pack /\ pc'[c] = "failed"
        /\ audit' \in {audit, audit \cup {Event(c, "TEXT2SQL_GEN", "BLOCKED", pack'[c])}}
    BY <1>3, AppendThenTouches
  <2>2. pc[c] = "llm"
    BY <1>3 DEF LlmUnsafe
  <2> QED
    BY <2>1, <2>2, TrailStaysEmpty, TrailIsBlocked DEF Touches, Unopened, Steps, PipelineSteps
<1> QED  BY <1>1, <1>2, <1>3 DEF LlmFails, LlmUnsafe

\* A stage is recorded, with all its pack declares before it, or the call
\* fails without it.
LEMMA StageTrail ==
    ASSUME TypeOK, NEW c \in Calls, TrailInv(c),
           Text2Sql(c) \/ DbQuery(c) \/ RuleEval(c) \/ AgentDecision(c)
    PROVE  /\ TrailInv(c)' /\ Touches(c)
           /\ pc'[c] = "answered" =>
                /\ pc[c] = "decision" /\ pack[c] \notin LedgerPacks /\ pack' = pack
                /\ \A st \in DeclaredStages(pack[c]) : Recorded(c, st)'
<1> DEFINE p == pack[c]
<1>1. \A st \in DeclaredStages(p) :
        /\ st \in {"TEXT2SQL_GEN", "DB_QUERY", "RULE_EVAL", "AGENT_DECISION", "LEDGER_COMMIT"}
        /\ st = "RULE_EVAL" => p \in RulePacks
        /\ st = "LEDGER_COMMIT" => p \in LedgerPacks
  BY DEF DeclaredStages
<1>2. {"TEXT2SQL_GEN", "DB_QUERY", "AGENT_DECISION"} \subseteq DeclaredStages(p)
  BY DEF DeclaredStages
<1>3. p \in RulePacks => "RULE_EVAL" \in DeclaredStages(p)
  BY DEF DeclaredStages
<1>4. \A st \in DeclaredStages(p) :
        pc[c] \in Running /\ StageRank[st] < Rank(pc[c]) => Recorded(c, st)
  BY DEF TrailInv, RecordsReach
<1>5. CASE Goto(c, "failed") /\ UNCHANGED <<tool, pack, logs, resets>>
  <2>1. pc'[c] = "failed"
    BY <1>5 DEF Goto, TypeOK
  <2> QED  BY <1>5, <2>1, FailureTrail DEF logs, resets
<1>6. ASSUME NEW s \in DeclaredStages(p), NEW status \in {"SUCCESS", "FAILURE"},
             NEW l \in (Running \ {"text2sql", "commitAudit"}) \cup {"answered"},
             pc[c] \in {"text2sql", "dbQuery", "ruleEval", "decision"},
             StageRank[s] = Rank(pc[c]),
             \A st \in DeclaredStages(p) :
                StageRank[st] < Rank(l) => StageRank[st] < Rank(pc[c]) \/ st = s,
             l = "ruleEval" => p \in RulePacks,
             l = "commit" => p \in LedgerPacks,
             AppendThen(c, Event(c, s, status, p), l)
      PROVE  /\ TrailInv(c)' /\ Touches(c)
             /\ pc'[c] = "failed"
                \/ /\ pc'[c] = l /\ pack' = pack /\ Recorded(c, s)'
                   /\ \A st : Recorded(c, st) => Recorded(c, st)'
  <2>1. /\ Touches(c) /\ ledger' = ledger /\ pack' = pack
        /\ \/ pc'[c] = l /\ audit' = audit \cup {Event(c, s, status, p)}
           \/ pc'[c] = "failed" /\ audit' = audit
    BY <1>6, AppendThenTouches
  <2>2. \A r \in ledger : r.trail # c
    BY <1>6 DEF TrailInv, ReceiptsAreBacked
  <2>3. CASE pc'[c] = "failed" /\ audit' = audit
    <3>1. Rests(c)
      BY <2>1, <2>3 DEF Rests, Touches, Trail
    <3> QED  BY <2>1, <2>3, <3>1, TrailRests
  <2>4. CASE pc'[c] = l /\ audit' = audit \cup {Event(c, s, status, p)}
    BY <1>6, <2>1, <2>2, <2>4, TrailAdvances DEF Touches, Running
  <2> QED  BY <2>1, <2>3, <2>4
<1>7. CASE Text2Sql(c)
  BY <1>1, <1>2, <1>6, <1>7, Ranks DEF Text2Sql, Rank, Running
<1>8. CASE DbQuery(c)
  <2>1. CASE AppendThen(c, Event(c, "DB_QUERY", "SUCCESS", p), AfterDbQuery(p))
    <3>1. CASE p \in RulePacks
      BY <1>1, <1>2, <1>6, <1>8, <2>1, <3>1, Ranks DEF DbQuery, AfterDbQuery, Rank, Running
    <3>2. CASE p \notin RulePacks
      BY <1>1, <1>2, <1>6, <1>8, <2>1, <3>2, Ranks DEF DbQuery, AfterDbQuery, Rank, Running
    <3> QED  BY <3>1, <3>2
  <2> QED  BY <1>5, <1>8, <2>1 DEF DbQuery
<1>9. CASE RuleEval(c)
  <2>1. ASSUME NEW status \in {"SUCCESS", "FAILURE"},
               AppendThen(c, Event(c, "RULE_EVAL", status, p), "decision")
        PROVE  TrailInv(c)' /\ Touches(c) /\ pc'[c] # "answered"
    <3>1. pc[c] = "ruleEval" /\ p \in RulePacks
      BY <1>9 DEF RuleEval, TrailInv, RecordsReach
    <3> QED  BY <1>1, <1>3, <1>6, <2>1, <3>1, Ranks DEF Rank, Running
  <2> QED  BY <1>5, <1>9, <2>1 DEF RuleEval
<1>10. CASE AgentDecision(c)
  <2>1. pc[c] = "decision" /\ "AGENT_DECISION" \in DeclaredStages(p)
    BY <1>2, <1>10 DEF AgentDecision
  <2>2. CASE p \in LedgerPacks
    BY <1>1, <1>6, <1>10, <2>1, <2>2, Ranks DEF AgentDecision, Rank, Running
  <2>3. CASE p \notin LedgerPacks
    <3>1. /\ TrailInv(c)' /\ Touches(c)
          /\ pc'[c] = "failed"
             \/ /\ pack' = pack /\ Recorded(c, "AGENT_DECISION")'
                /\ \A st : Recorded(c, st) => Recorded(c, st)'
      BY <1>1, <1>6, <1>10, <2>1, <2>3, Ranks DEF AgentDecision, Rank, Running
    <3>2. \A st \in DeclaredStages(p) \ {"AGENT_DECISION"} : Recorded(c, st)
      BY <1>1, <1>4, <2>1, <2>3, Ranks DEF Rank, Running
    <3> QED  BY <2>1, <2>3, <3>1, <3>2
  <2> QED  BY <2>2, <2>3
<1> QED  BY <1>5, <1>7, <1>8, <1>9, <1>10

\* The receipt is written when every stage before it is recorded, and its own
\* event after it.
LEMMA CommitTrail ==
    ASSUME TypeOK, NEW c \in Calls, TrailInv(c),
           LedgerCommit(c) \/ LedgerCommitAudit(c)
    PROVE  /\ TrailInv(c)' /\ Touches(c)
           /\ pc'[c] = "answered" =>
                /\ pc[c] = "commitAudit" /\ pack' = pack
                /\ \A st \in DeclaredStages(pack[c]) : Recorded(c, st)'
                /\ \E r \in ledger' : r.trail = c /\ r.pack = pack[c]
<1> DEFINE p == pack[c]
           receipt == [trail |-> c, session |-> session[c], pack |-> p]
           e == Event(c, "LEDGER_COMMIT", "SUCCESS", p)
<1>1. \A st \in DeclaredStages(p) \ {"LEDGER_COMMIT"} : StageRank[st] < 5
  BY Ranks DEF DeclaredStages
<1>2. pc[c] \in {"commit", "commitAudit"} =>
        /\ p \in LedgerPacks /\ "LEDGER_COMMIT" \in DeclaredStages(p)
        /\ \A st \in DeclaredStages(p) \ {"LEDGER_COMMIT"} : Recorded(c, st)
  BY <1>1 DEF TrailInv, RecordsReach, Running, Rank, DeclaredStages
<1>3. CASE LedgerCommit(c)
  <2>1. CASE pc'[c] = "failed" /\ ledger' = ledger
    <3>1. Goto(c, "failed") /\ UNCHANGED <<tool, pack, audit, resetStep, resetCut>>
      BY <1>3, <2>1 DEF LedgerCommit, Goto, TypeOK, resets
    <3> QED  BY <2>1, <3>1, FailureTrail
  <2>2. CASE ledger' = ledger \cup {receipt} /\ Goto(c, "commitAudit")
    <3>1. /\ pc[c] = "commit" /\ pc'[c] = "commitAudit"
          /\ UNCHANGED <<tool, pack, audit, resetStep, resetCut>>
          /\ \A d \in Calls \ {c} : pc'[d] = pc[d]
      BY <1>3, <2>2 DEF LedgerCommit, Goto, TypeOK, resets
    <3>2. Touches(c)
      BY <2>2, <3>1 DEF Touches, Trail
    <3>3. \A st : Recorded(c, st)' <=> Recorded(c, st)
      BY <3>1 DEF Recorded, Trail
    <3>4. StagesInOrder(c)'
      BY <3>1, <3>3 DEF TrailInv, StagesInOrder, Trail
    <3>5. BlockedIsAlone(c)'
      BY <3>1 DEF TrailInv, BlockedIsAlone, Trail
    <3>6. RecordsReach(c)'
      BY <3>1, <3>3 DEF TrailInv, RecordsReach, Unopened, Running, Rank
    <3>7. ReceiptsAreBacked(c)'
      <4>1. \A r \in ledger : r.trail # c
        BY <3>1 DEF TrailInv, ReceiptsAreBacked
      <4>2. receipt.trail = c /\ receipt.pack = p /\ receipt \in ledger'
        BY <2>2
      <4>3. \A r \in ledger' : r.trail = c => r = receipt
        BY <2>2, <4>1
      <4>4. \A st \in DeclaredStages(p) \ {"LEDGER_COMMIT"} : Recorded(c, st)'
        BY <1>2, <3>1, <3>3
      <4> HIDE DEF receipt
      <4> QED  BY <3>1, <4>2, <4>3, <4>4 DEF ReceiptsAreBacked
    <3> QED  BY <3>1, <3>2, <3>4, <3>5, <3>6, <3>7 DEF TrailInv
  <2> QED  BY <1>3, <2>1, <2>2 DEF LedgerCommit, Goto, TypeOK
<1>4. CASE LedgerCommitAudit(c)
  <2>1. /\ Touches(c) /\ ledger' = ledger /\ pack' = pack /\ pc[c] = "commitAudit"
        /\ \/ pc'[c] = "answered" /\ audit' = audit \cup {e}
           \/ pc'[c] = "failed" /\ audit' = audit
    BY <1>4, AppendThenTouches DEF LedgerCommitAudit
  <2>2. CASE pc'[c] = "failed" /\ audit' = audit
    <3>1. Rests(c)
      BY <2>1, <2>2 DEF Rests, Touches, Trail
    <3> QED  BY <2>1, <2>2, <3>1, TrailRests
  <2>3. CASE pc'[c] = "answered" /\ audit' = audit \cup {e}
    <3>1. /\ StageRank["LEDGER_COMMIT"] = Rank(pc[c])
          /\ pc[c] \in Running
          /\ \A st \in DeclaredStages(p) :
               StageRank[st] < Rank("answered") => StageRank[st] < Rank(pc[c])
      BY <2>1, Ranks DEF Rank, Running
    <3>2. /\ TrailInv(c)' /\ Recorded(c, "LEDGER_COMMIT")'
          /\ \A st : Recorded(c, st) => Recorded(c, st)'
      BY <1>2, <2>1, <2>3, <3>1, TrailAdvances DEF Touches
    <3>3. \E r \in ledger : r.trail = c /\ r.pack = p
      BY <2>1 DEF TrailInv, ReceiptsAreBacked
    <3> QED  BY <1>2, <2>1, <3>2, <3>3
  <2> QED  BY <2>1, <2>2, <2>3
<1> QED  BY <1>3, <1>4

\* A write has the one event of its outcome.
LEMMA WriteTrail ==
    ASSUME TypeOK, NEW c \in Calls, TrailInv(c),
           Insert(c) \/ InsertAudit(c) \/ InsertBlocked(c)
    PROVE  /\ TrailInv(c)' /\ Touches(c) /\ tool[c] = "write"
<1> DEFINE e(status) == Event(c, "DEVICE_IMPORT", status, pack[c])
<1>1. /\ pc[c] \in {"insert", "insertAudit", "insertBlocked"}
      /\ pc[c] \in Unopened /\ tool[c] = "write"
  BY DEF Insert, InsertAudit, InsertBlocked, TrailInv, RecordsReach, Unopened
<1>2. CASE InsertBlocked(c)
  <2>1. /\ Touches(c) /\ ledger' = ledger /\ pack' = pack /\ pc'[c] = "failed"
        /\ audit' \in {audit, audit \cup {e("BLOCKED")}}
    BY <1>2, AppendThenTouches DEF InsertBlocked
  <2> QED
    BY <1>1, <2>1, TrailStaysEmpty, TrailIsBlocked DEF Touches, Steps
<1>3. CASE Insert(c) \/ InsertAudit(c)
  <2>1. /\ UNCHANGED <<tool, pack, ledger, resetStep, resetCut>>
        /\ \A d \in Calls \ {c} : pc'[d] = pc[d]
        /\ \/ audit' = audit /\ pc'[c] \in {"insertAudit", "insertBlocked"}
           \/ audit' = audit \cup {e("SUCCESS")} /\ pc'[c] = "answered"
    BY <1>3 DEF Insert, InsertAudit, Goto, TypeOK, logs, resets
  <2>2. /\ e("SUCCESS").trail = c /\ e("SUCCESS").status = "SUCCESS"
        /\ e("SUCCESS").pack = pack[c] /\ e("SUCCESS").step = "DEVICE_IMPORT"
    BY DEF Event
  <2>3. \A d \in Calls \ {c} : Trail(d)' = Trail(d)
    BY <2>1, <2>2, AppendTouches DEF Trail
  <2>4. Touches(c)
    BY <2>1, <2>3 DEF Touches
  <2>5. CASE audit' = audit /\ pc'[c] \in {"insertAudit", "insertBlocked"}
    BY <1>1, <2>1, <2>4, <2>5, TrailStaysEmpty DEF Unopened
  <2>6. CASE audit' = audit \cup {e("SUCCESS")} /\ pc'[c] = "answered"
    <3>1. \A f : f \in Trail(c)' <=> f = e("SUCCESS")
      BY <1>1, <2>2, <2>6 DEF TrailInv, RecordsReach, Trail
    <3>2. \A r \in ledger' : r.trail # c
      BY <1>1, <2>1 DEF TrailInv, ReceiptsAreBacked
    <3>3. StagesInOrder(c)' /\ BlockedIsAlone(c)'
      BY <2>1, <2>2, <3>1 DEF StagesInOrder, BlockedIsAlone, PipelineSteps
    <3>4. RecordsReach(c)' /\ ReceiptsAreBacked(c)'
      BY <2>6, <3>2 DEF RecordsReach, ReceiptsAreBacked, Unopened, Running
    <3> QED  BY <1>1, <2>4, <3>3, <3>4 DEF TrailInv
  <2> QED  BY <2>1, <2>5, <2>6
<1> QED  BY <1>1, <1>2, <1>3
\* A call's step keeps its trail in order and answers only what is recorded.
LEMMA CallTrail ==
    ASSUME TypeOK, NEW c \in Calls, TrailInv(c), CallStep(c)
    PROVE  /\ TrailInv(c)' /\ Touches(c)
           /\ pc[c] # "answered" /\ pc'[c] = "answered" /\ tool[c] # "write" =>
                /\ \A st \in DeclaredStages(pack[c]) : Recorded(c, st)'
                /\ pack' = pack
                /\ pack[c] \in LedgerPacks =>
                      \E r \in ledger' : r.trail = c /\ r.pack = pack[c]
<1>0. /\ pc \in [Calls -> Labels]
      /\ pack[c] \in Packs
  BY DEF TypeOK, Labels
<1>1. \A r \in Packs \cup {NoPack}, g \in Packs :
        (BeforeToolCall(c) \/ Execute(c) \/ Chat(c, r, g)) => pc'[c] # "answered"
  BY <1>0 DEF BeforeToolCall, Execute, Chat, StartPipeline, Goto
<1>2. \A d : ResolveApproval(c, d) => pc'[c] # "answered"
  BY <1>0 DEF ResolveApproval, Goto
<1>3. (LlmFails(c) \/ LlmUnsafe(c) \/ LlmAnswers(c)) => pc'[c] # "answered"
  BY <1>0 DEF LlmFails, LlmUnsafe, LlmAnswers, AppendThen, Goto
<1>4. CASE LedgerCommit(c) \/ LedgerCommitAudit(c)
  BY <1>4, CommitTrail
<1>5. CASE Text2Sql(c) \/ DbQuery(c) \/ RuleEval(c) \/ AgentDecision(c)
  BY <1>5, StageTrail
<1>6. CASE Insert(c) \/ InsertAudit(c) \/ InsertBlocked(c)
  BY <1>6, WriteTrail
<1>7. CASE LlmFails(c) \/ LlmUnsafe(c) \/ LlmAnswers(c)
  BY <1>3, <1>7, LlmTrail
<1>8. ASSUME NEW d \in {"allow-once", "allow-always", "deny", "timeout", "cancelled"},
             ResolveApproval(c, d)
      PROVE  TrailInv(c)' /\ Touches(c) /\ pc'[c] # "answered"
  BY <1>2, <1>8, ApprovalTrail
<1>9. ASSUME NEW r \in Packs \cup {NoPack}, NEW g \in Packs,
             BeforeToolCall(c) \/ Execute(c) \/ Chat(c, r, g)
      PROVE  TrailInv(c)' /\ Touches(c) /\ pc'[c] # "answered"
  BY <1>1, <1>9, OpeningTrail
<1>10. CASE BeforeToolCall(c) \/ Execute(c)
  BY <1>9, <1>10, PolicyAssumption
<1> QED  BY <1>4, <1>5, <1>6, <1>7, <1>8, <1>9, <1>10 DEF CallStep

\* Who acts has the gateway to itself, so a reset never meets a call halfway.
LEMMA OperatorTrail ==
    ASSUME TypeOK, TrailsInv, OperatorStep \/ ResetStep \/ Restart
    PROVE  TrailsInv'
<1>1. \A c \in Calls : TrailInv(c)
  BY DEF TrailsInv
<1>2. SUFFICES /\ ResetIsAlone'
               /\ \A c \in Calls : TrailInv(c)'
  BY DEF TrailsInv
<1>3. ASSUME UNCHANGED <<tool, pack, audit, ledger>>,
             \A c \in Calls : pc'[c] \in {pc[c], "failed"},
             (resetCut \/ resetStep = "ledger") => (resetCut' \/ resetStep' = "ledger")
      PROVE  \A c \in Calls : TrailInv(c)'
  <2> SUFFICES ASSUME NEW c \in Calls PROVE TrailInv(c)'
    OBVIOUS
  <2>1. Rests(c)
    BY <1>3 DEF Rests, Trail
  <2> QED  BY <1>1, <2>1, TrailRests
<1>4. ASSUME NEW e, e.trail \in OwnTrails, audit' \in {audit, audit \cup {e}},
             UNCHANGED <<tool, pack, ledger, pc>>,
             (resetCut \/ resetStep = "ledger") => (resetCut' \/ resetStep' = "ledger")
      PROVE  \A c \in Calls : TrailInv(c)'
  <2> SUFFICES ASSUME NEW c \in Calls PROVE TrailInv(c)'
    OBVIOUS
  <2>1. Trail(c)' = Trail(c)
    BY <1>4, GovernanceAssumption DEF Trail
  <2>2. Rests(c)
    BY <1>4, <2>1 DEF Rests
  <2> QED  BY <1>1, <2>2, TrailRests
<1>5. CASE OperatorStep
  <2>1. Quiet /\ UNCHANGED calls /\ UNCHANGED <<ledger, resetCut>>
    BY <1>5 DEF OperatorStep, PutGrant, PutSessionPack, DeleteSessionPack, InitializeTra,
       ResetTra, Operate, logs, resets
  <2>2. ResetIsAlone'
    BY <2>1 DEF Quiet, ResetIsAlone, calls
  <2>3. ASSUME NEW p \in Packs, NEW scopes \in SUBSET Scopes, PutGrant(p, scopes)
        PROVE  \A c \in Calls : TrailInv(c)'
    <3> DEFINE e == Event("grant", "AGENT_DOMAIN_GRANT",
                          IF scopes # {} THEN "SUCCESS" ELSE "BLOCKED", p)
    <3>1. e.trail \in OwnTrails
      BY DEF Event, OwnTrails
    <3>2. /\ audit' \in {audit, audit \cup {e}}
          /\ UNCHANGED <<tool, pack, ledger, pc, resetStep, resetCut>>
      BY <2>3 DEF PutGrant, calls, resets
    <3> HIDE DEF e
    <3> QED  BY <1>4, <3>1, <3>2
  <2>4. CASE audit' = audit
    BY <1>3, <2>1, <2>2, <2>4 DEF calls, Quiet
  <2>5. audit' = audit \/ \E p \in Packs, scopes \in SUBSET Scopes : PutGrant(p, scopes)
    BY <1>5 DEF OperatorStep, PutSessionPack, DeleteSessionPack, InitializeTra, ResetTra, logs
  <2> QED  BY <2>2, <2>3, <2>4, <2>5
<1>6. CASE ResetStep
  <2>1. resetStep # "none" /\ UNCHANGED calls
    BY <1>6 DEF ResetStep, ClearTraDataAccessGrants, ClearAgentDomainGrants, ClearAuditEvents,
       ClearEvidenceLedger, RecordTraReset, ResetFails
  <2>2. \A c \in Calls : pc[c] \notin Stages
    BY <2>1 DEF TrailsInv, ResetIsAlone
  <2>3. ResetIsAlone'
    BY <2>1, <2>2 DEF ResetIsAlone, calls
  <2>4. CASE ClearTraDataAccessGrants \/ ClearAgentDomainGrants \/ ResetFails
    BY <1>3, <2>1, <2>3, <2>4 DEF ClearTraDataAccessGrants, ClearAgentDomainGrants, ResetFails,
       calls, logs
  <2>5. CASE RecordTraReset
    <3> DEFINE e == Event("operator", "TRA_RESET", "SUCCESS", NoPack)
    <3>1. e.trail \in OwnTrails
      BY DEF Event, OwnTrails
    <3>2. /\ audit' = audit \cup {e} /\ resetStep = "record"
          /\ UNCHANGED <<tool, pack, ledger, pc, resetCut>>
      BY <2>5 DEF RecordTraReset, calls
    <3> HIDE DEF e
    <3> QED  BY <1>4, <2>3, <3>1, <3>2
  <2>6. CASE ClearAuditEvents \/ ClearEvidenceLedger
    <3> SUFFICES ASSUME NEW c \in Calls PROVE TrailInv(c)'
      BY <2>3
    <3>1. TrailInv(c) /\ pc[c] \notin Stages /\ UNCHANGED <<tool, pc, pack>>
      BY <1>1, <2>1, <2>2 DEF calls
    <3>2. \A st \in DeclaredStages(pack[c]) :
            pc[c] \in Running => ~(StageRank[st] < Rank(pc[c]))
      BY <3>1 DEF Running, Stages
    <3>3. CASE ClearAuditEvents
      <4>1. Trail(c)' = {} /\ ledger' = ledger /\ resetStep' = "ledger"
        BY <3>3 DEF ClearAuditEvents, Trail
      <4>2. StagesInOrder(c)' /\ BlockedIsAlone(c)'
        BY <4>1 DEF StagesInOrder, BlockedIsAlone
      <4>3. RecordsReach(c)' /\ ReceiptsAreBacked(c)'
        BY <3>1, <3>2, <4>1 DEF TrailInv, RecordsReach, ReceiptsAreBacked
      <4> QED  BY <4>2, <4>3 DEF TrailInv
    <3>4. CASE ClearEvidenceLedger
      <4>1. audit' = audit /\ ledger' = {}
        BY <3>4 DEF ClearEvidenceLedger
      <4>2. \A st : Recorded(c, st)' <=> Recorded(c, st)
        BY <3>1, <4>1 DEF Recorded, Trail
      <4>3. StagesInOrder(c)' /\ BlockedIsAlone(c)'
        BY <3>1, <4>1, <4>2 DEF TrailInv, StagesInOrder, BlockedIsAlone, Trail
      <4>4. RecordsReach(c)'
        BY <3>1, <4>1, <4>2 DEF TrailInv, RecordsReach, Trail
      <4>5. ReceiptsAreBacked(c)'
        BY <3>1, <4>1 DEF ReceiptsAreBacked, Stages
      <4> QED  BY <4>3, <4>4, <4>5 DEF TrailInv
    <3> QED  BY <2>6, <3>3, <3>4
  <2> QED  BY <1>6, <2>3, <2>4, <2>5, <2>6 DEF ResetStep
<1>7. CASE Restart
  <2>1. /\ UNCHANGED <<tool, pack, audit, ledger>> /\ resetStep' = "none"
        /\ \A c \in Calls : pc'[c] \in {pc[c], "failed"}
        /\ (resetCut \/ resetStep = "ledger") => resetCut'
    BY <1>7 DEF Restart, logs
  <2> QED  BY <1>3, <2>1 DEF ResetIsAlone
<1> QED  BY <1>5, <1>6, <1>7

-----------------------------------------------------------------------------
(* The theorems.                                                           *)

\* Every step keeps every trail in order.
LEMMA NextTrail ==
    ASSUME TypeOK, TrailsInv, [Next]_vars
    PROVE  TrailsInv'
<1>1. ASSUME NEW c \in Calls, CallStep(c)
      PROVE  TrailsInv'
  <2>1. TrailInv(c)' /\ Touches(c)
    BY <1>1, CallTrail DEF TrailsInv
  <2>2. ASSUME NEW d \in Calls \ {c}
        PROVE  TrailInv(d)'
    <3>1. Rests(d)
      BY <2>1 DEF Touches, Rests
    <3> QED  BY <3>1, TrailRests DEF TrailsInv
  <2>3. resetStep' = "none"
    <3>1. Quiet \/ pc[c] \in Stages
      BY <1>1 DEF CallStep, BeforeToolCall, ResolveApproval, Execute, Chat, LlmFails, LlmUnsafe,
         LlmAnswers, Text2Sql, DbQuery, RuleEval, AgentDecision, LedgerCommit,
         LedgerCommitAudit, Insert, InsertAudit, InsertBlocked, Stages
    <3> QED  BY <2>1, <3>1 DEF Touches, Quiet, TrailsInv, ResetIsAlone
  <2> QED  BY <2>1, <2>2, <2>3 DEF TrailsInv, ResetIsAlone
<1>2. CASE UNCHANGED vars
  <2>1. \A c \in Calls : Rests(c)
    BY <1>2 DEF vars, logs, calls, resets, Rests, Trail
  <2>2. \A c \in Calls : TrailInv(c)'
    BY <2>1, TrailRests DEF TrailsInv
  <2>3. ResetIsAlone'
    BY <1>2 DEF vars, calls, resets, TrailsInv, ResetIsAlone
  <2> QED  BY <2>2, <2>3 DEF TrailsInv
<1> QED  BY <1>1, <1>2, OperatorTrail DEF Next

\* Every trail is in order, and every receipt is backed by its trail, in every
\* reachable state.
THEOREM TrailsInvHolds == Spec => []TrailsInv
<1>1. Init => TrailsInv
  <2>1. Init => ResetIsAlone
    BY DEF Init, ResetIsAlone
  <2> SUFFICES ASSUME Init, NEW c \in Calls PROVE TrailInv(c)
    BY <2>1 DEF TrailsInv
  <2>2. Trail(c) = {} /\ ledger = {} /\ pc[c] = "idle"
    BY DEF Init, Trail
  <2> QED
    BY <2>2 DEF TrailInv, StagesInOrder, BlockedIsAlone, RecordsReach,
       ReceiptsAreBacked, Unopened, Running
<1> QED  BY <1>1, NextTrail, TypeCorrect, PTL DEF Spec

\* Governance invariant 3: a receipt leads back to the events of its trail,
\* whatever failed or died while its call ran, except behind a reset that
\* stopped between the two files.
THEOREM ReceiptsTraceToAuditHolds == Spec => []ReceiptsTraceToAudit
<1>1. ASSUME TypeOK, TrailsInv PROVE ReceiptsTraceToAudit
  <2> SUFFICES ASSUME ~resetCut, resetStep # "ledger", NEW r \in ledger,
                      NEW st \in DeclaredStages(r.pack) \ {"LEDGER_COMMIT"}
               PROVE  \E e \in audit : /\ e.trail = r.trail /\ e.step = st
                                      /\ e.pack = r.pack /\ e.status # "BLOCKED"
    BY DEF ReceiptsTraceToAudit
  <2>1. PICK c \in Calls : r.trail = c
    BY <1>1 DEF TypeOK, Receipts
  <2>2. r.pack = pack[c] /\ Recorded(c, st)
    BY <1>1, <2>1 DEF TrailsInv, TrailInv, ReceiptsAreBacked
  <2> QED  BY <2>1, <2>2 DEF Recorded, Trail
<1> QED  BY <1>1, TrailsInvHolds, TypeCorrect, PTL

\* A trail holds the stages its pack declares in their order, and no stage
\* the pack does not declare.
THEOREM TrailIsStagePrefixHolds == Spec => []TrailIsStagePrefix
<1>1. TrailsInv => TrailIsStagePrefix
  BY DEF TrailsInv, TrailInv, StagesInOrder, Recorded, TrailIsStagePrefix
<1> QED  BY <1>1, TrailsInvHolds, PTL

\* Fail-closed: what was blocked records nothing else, has no receipt and does
\* not answer.
THEOREM BlockedTrailStopsHolds == Spec => []BlockedTrailStops
<1>1. ASSUME TrailsInv PROVE BlockedTrailStops
  <2> SUFFICES ASSUME NEW c \in Calls, NEW e \in Trail(c), e.status = "BLOCKED"
               PROVE  Trail(c) = {e} /\ (\A r \in ledger : r.trail # c) /\ pc[c] # "answered"
    BY DEF BlockedTrailStops
  <2> QED  BY <1>1 DEF TrailsInv, TrailInv, BlockedIsAlone
<1> QED  BY <1>1, TrailsInvHolds, PTL

\* Governance invariant 2: no query is answered before the log has every stage
\* that its pack declares, and the ledger its receipt.
THEOREM AnsweredIsAuditedHolds == Spec => AnsweredIsAudited
<1> DEFINE Answers(c) == pc[c] # "answered" /\ pc'[c] = "answered" /\ tool[c] # "write"
           Audited(c) ==
             /\ \A st \in DeclaredStages(pack[c]) :
                  \E e \in audit' : e.trail = c /\ e.step = st /\ e.pack = pack[c]
             /\ pack[c] \in LedgerPacks =>
                  \E r \in ledger' : r.trail = c /\ r.pack = pack[c]
<1>1. ASSUME TypeOK, TrailsInv, Next, NEW c \in Calls, Answers(c)
      PROVE  Audited(c)
  <2>1. ASSUME NEW d \in Calls, CallStep(d)
        PROVE  d = c
    <3>1. Touches(d)
      BY <1>1, <2>1, CallTrail DEF TrailsInv
    <3> QED  BY <1>1, <3>1 DEF Touches
  <2>2. ~OperatorStep /\ ~ResetStep
    BY <1>1 DEF OperatorStep, PutGrant, PutSessionPack, DeleteSessionPack, InitializeTra,
       ResetTra, ResetStep, ClearTraDataAccessGrants, ClearAgentDomainGrants,
       ClearAuditEvents, ClearEvidenceLedger, RecordTraReset, ResetFails, calls
  <2>3. ~Restart
    BY <1>1 DEF Restart
  <2>4. CallStep(c)
    BY <1>1, <2>1, <2>2, <2>3 DEF Next
  <2>5. /\ \A st \in DeclaredStages(pack[c]) : Recorded(c, st)'
        /\ pack' = pack
        /\ pack[c] \in LedgerPacks => \E r \in ledger' : r.trail = c /\ r.pack = pack[c]
    BY <1>1, <2>4, CallTrail DEF TrailsInv
  <2> QED  BY <2>5 DEF Recorded, Trail
<1>2. TypeOK /\ TrailsInv /\ [Next]_vars
        => [\A c \in Calls : Answers(c) => Audited(c)]_vars
  BY <1>1
<1> QED  BY <1>2, TrailsInvHolds, TypeCorrect, PTL DEF Spec, AnsweredIsAudited


-----------------------------------------------------------------------------
(* The rows of a write and its event.                                      *)

\* Rows of c are in a table that a reset empties.
Holds(c) == <<c, "emptied">> \in rows

\* Such rows are those of a call whose transaction committed, and one that
\* answered has its event in the log.
RowIsBacked(c) ==
    Holds(c) =>
        /\ pc[c] \in {"insertAudit", "insertBlocked", "failed", "answered"}
        /\ pc[c] = "answered" => Event(c, "DEVICE_IMPORT", "SUCCESS", pack[c]) \in audit

\* A reset that is under way has emptied those tables first.
RowsInv ==
    /\ resetStep # "none" => \A c \in Calls : ~Holds(c)
    /\ \A c \in Calls : RowIsBacked(c)

\* Where no row is added and no event taken away, what answered stays backed.
LEMMA RowRests ==
    ASSUME NEW c \in Calls, RowIsBacked(c),
           rows' \subseteq rows, audit \subseteq audit',
           pack'[c] = pack[c], pc'[c] \in {pc[c], "failed"}
    PROVE  RowIsBacked(c)'
BY DEF RowIsBacked, Holds, Event

\* A step of c adds no rows but those of c, which its transaction enters.
LEMMA CallRows ==
    ASSUME TypeOK, NEW c \in Calls, CallStep(c)
    PROVE  /\ audit \subseteq audit'
           /\ rows' = rows \/ (Insert(c) /\ rows' \subseteq rows \cup ({c} \X Tables))
<1>1. ASSUME NEW e, NEW l, AppendThen(c, e, l)
      PROVE  audit \subseteq audit'
  BY <1>1 DEF AppendThen
<1>2. audit \subseteq audit'
  <2>1. CASE \E d \in {"allow-once", "allow-always", "deny", "timeout", "cancelled"} :
               ResolveApproval(c, d)
    BY <2>1 DEF ResolveApproval
  <2>2. CASE \/ BeforeToolCall(c) \/ Execute(c)
             \/ \E r \in Packs \cup {NoPack}, g \in Packs : Chat(c, r, g)
    BY <2>2 DEF BeforeToolCall, Execute, Chat, StartPipeline, logs
  <2>3. CASE LlmFails(c) \/ LlmUnsafe(c) \/ LlmAnswers(c)
    BY <1>1, <2>3 DEF LlmFails, LlmUnsafe, LlmAnswers, logs
  <2>4. CASE Text2Sql(c) \/ DbQuery(c) \/ RuleEval(c) \/ AgentDecision(c)
    BY <1>1, <2>4 DEF Text2Sql, DbQuery, RuleEval, AgentDecision, logs
  <2>5. CASE LedgerCommit(c) \/ LedgerCommitAudit(c)
    BY <1>1, <2>5 DEF LedgerCommit, LedgerCommitAudit
  <2>6. CASE Insert(c) \/ InsertAudit(c) \/ InsertBlocked(c)
    BY <1>1, <2>6 DEF Insert, InsertAudit, InsertBlocked, logs
  <2> QED  BY <2>1, <2>2, <2>3, <2>4, <2>5, <2>6 DEF CallStep
<1>3. rows' = rows \/ (Insert(c) /\ rows' \subseteq rows \cup ({c} \X Tables))
  BY DEF CallStep, BeforeToolCall, ResolveApproval, Execute, Chat, LlmFails, LlmUnsafe,
     LlmAnswers, Text2Sql, DbQuery, RuleEval, AgentDecision, LedgerCommit,
     LedgerCommitAudit, Insert, InsertAudit, InsertBlocked
<1> QED  BY <1>2, <1>3

\* A call whose transaction committed ends its write, backed by its event when
\* it answers.
LEMMA WriterRows ==
    ASSUME TypeOK, NEW c \in Calls, RowIsBacked(c), CallStep(c)
    PROVE  RowIsBacked(c)'
<1>0. pc \in [Calls -> Labels]
  BY DEF TypeOK, Labels
<1>1. CASE Insert(c)
  BY <1>0, <1>1 DEF Insert, Goto, RowIsBacked, calls
<1>2. CASE ~Holds(c) /\ ~Insert(c)
  BY <1>2, CallRows DEF RowIsBacked, Holds
<1>3. CASE Holds(c) /\ ~Insert(c)
  <2>1. pc[c] \in {"insertAudit", "insertBlocked", "failed", "answered"}
    BY <1>3 DEF RowIsBacked
  <2>2. InsertAudit(c) \/ InsertBlocked(c)
    BY <1>3, <2>1 DEF CallStep, BeforeToolCall, ResolveApproval, Execute, Chat, LlmFails,
       LlmUnsafe, LlmAnswers, Text2Sql, DbQuery, RuleEval, AgentDecision, LedgerCommit,
       LedgerCommitAudit
  <2>3. CASE InsertAudit(c)
    BY <1>0, <2>3 DEF InsertAudit, Goto, RowIsBacked, Event
  <2>4. CASE InsertBlocked(c)
    BY <1>0, <2>4 DEF InsertBlocked, AppendThen, Goto, RowIsBacked
  <2> QED  BY <2>2, <2>3, <2>4
<1> QED  BY <1>1, <1>2, <1>3

\* Every step keeps the rows backed; a reset has nothing to lose when it clears
\* the log.
LEMMA RowsKeep ==
    ASSUME TypeOK, TrailsInv, RowsInv, [Next]_vars
    PROVE  RowsInv'
<1>1. ASSUME NEW c \in Calls, CallStep(c)
      PROVE  RowsInv'
  <2>1. Touches(c) /\ audit \subseteq audit'
    BY <1>1, CallTrail, CallRows DEF TrailsInv
  <2>2. ASSUME NEW d \in Calls \ {c}
        PROVE  RowIsBacked(d)'
    <3>1. Holds(d)' => Holds(d)
      BY <1>1, CallRows DEF Holds
    <3> QED  BY <1>1, <2>1, <3>1 DEF Touches, RowsInv, RowIsBacked, Event
  <2>3. RowIsBacked(c)'
    BY <1>1, WriterRows DEF RowsInv
  <2>4. resetStep' # "none" => \A d \in Calls : ~Holds(d)'
    <3>1. Insert(c) => resetStep = "none"
      BY DEF Insert, Stages, TrailsInv, ResetIsAlone
    <3> QED  BY <1>1, <2>1, <3>1, CallRows DEF Touches, RowsInv, Holds
  <2> QED  BY <2>2, <2>3, <2>4 DEF RowsInv
<1>2. CASE OperatorStep
  <2>1. /\ resetStep = "none" /\ UNCHANGED calls
        /\ rows' \subseteq rows /\ audit \subseteq audit'
        /\ resetStep' = "none" \/ rows' = Kept(rows)
    BY <1>2 DEF OperatorStep, PutGrant, PutSessionPack, DeleteSessionPack, InitializeTra,
       ResetTra, ClearingStops, Kept, Operate, Quiet, logs, resets
  <2>2. rows' = Kept(rows) => \A c \in Calls : ~Holds(c)'
    BY DEF Kept, Holds
  <2> QED  BY <2>1, <2>2, RowRests DEF RowsInv, calls
<1>3. CASE ResetStep
  <2>1. \A c \in Calls : ~Holds(c)'
    BY <1>3 DEF RowsInv, Holds, ResetStep, ClearTraDataAccessGrants, ClearAgentDomainGrants,
       ClearAuditEvents, ClearEvidenceLedger, RecordTraReset, ResetFails
  <2> QED  BY <2>1 DEF RowsInv, RowIsBacked
<1>4. CASE Restart
  BY <1>4, RowRests DEF Restart, RowsInv, logs
<1>5. CASE UNCHANGED vars
  BY <1>5, RowRests DEF vars, RowsInv, Holds, logs, calls, resets
<1> QED  BY <1>1, <1>2, <1>3, <1>4, <1>5 DEF Next

\* No call that told its user a write was done leaves rows in the tables that a
\* reset empties without the event of their entry, through failing appends,
\* crashes, resets and re-initializations.
THEOREM WrittenRowsAreAuditedHolds == Spec => []WrittenRowsAreAudited
<1>1. Init => RowsInv
  BY DEF Init, RowsInv, RowIsBacked, Holds
<1>2. TypeOK /\ RowsInv => WrittenRowsAreAudited
  <2> SUFFICES ASSUME TypeOK, RowsInv, NEW r \in Emptied(rows), pc[r[1]] = "answered"
               PROVE  Event(r[1], "DEVICE_IMPORT", "SUCCESS", pack[r[1]]) \in audit
    BY DEF WrittenRowsAreAudited
  <2>1. r \in Calls \X Tables /\ r \in rows /\ r[2] = "emptied"
    BY DEF TypeOK, Emptied
  <2>2. r[1] \in Calls /\ Holds(r[1])
    BY <2>1 DEF Holds
  <2> QED  BY <2>2 DEF RowsInv, RowIsBacked
<1> QED  BY <1>1, <1>2, RowsKeep, TrailsInvHolds, TypeCorrect, PTL DEF Spec


-----------------------------------------------------------------------------
(* The promise of AuditTrail.                                              *)

\* Its variables, as TraGovernance has them.
OutcomeMap == [c \in Calls |-> Outcome(pc[c])]
Recordings == {Entry(e) : e \in {f \in audit : f.trail \in Calls}}
Receipted == {<<r.trail, r.pack>> : r \in ledger}

\* What an event is in the abstract trail.
LEMMA EntryOfEvent ==
    ASSUME NEW c, NEW st, NEW status, NEW p
    PROVE  Entry(Event(c, st, status, p)) =
             <<c, IF status = "BLOCKED" THEN "BLOCKED" ELSE st, p>>
BY DEF Entry, Event

\* An event of a call adds its entry, any other event none.
LEMMA RecordingsGrow ==
    ASSUME NEW e, audit' = audit \cup {e}
    PROVE  /\ e.trail \in Calls => Recordings' = Recordings \cup {Entry(e)}
           /\ e.trail \notin Calls => Recordings' = Recordings
BY DEF Recordings, Entry

\* An event of a call, added to the log, is an entry added to the trail.
LEMMA EventRecorded ==
    ASSUME NEW c \in Calls, NEW st, NEW status, NEW p,
           audit' = audit \cup {Event(c, st, status, p)}
    PROVE  Recordings' =
             Recordings \cup {<<c, IF status = "BLOCKED" THEN "BLOCKED" ELSE st, p>>}
<1> DEFINE e == Event(c, st, status, p)
<1>1. e.trail = c /\ audit' = audit \cup {e}
  BY DEF Event
<1>2. Entry(e) = <<c, IF status = "BLOCKED" THEN "BLOCKED" ELSE st, p>>
  BY EntryOfEvent
<1>3. Recordings' = Recordings \cup {Entry(e)}
  <2> HIDE DEF e
  <2> QED  BY <1>1, RecordingsGrow
<1> QED  BY <1>2, <1>3

\* The entries of c are those of its events.
LEMMA RecordingsOf ==
    ASSUME NEW c \in Calls, TrailInv(c)
    PROVE  /\ \A x \in Recordings : x[1] = c => x[3] = pack[c]
           /\ \A st : Recorded(c, st) => <<c, st, pack[c]>> \in Recordings
           /\ Trail(c) = {} => \A x \in Recordings : x[1] # c
<1>1. \A x \in Recordings : x[1] = c => \E e \in Trail(c) : x[3] = e.pack
  BY DEF Recordings, Entry, Trail
<1>2. \A st : Recorded(c, st) => <<c, st, pack[c]>> \in Recordings
  BY DEF Recordings, Entry, Trail, Recorded
<1> QED  BY <1>1, <1>2 DEF TrailInv, StagesInOrder

\* Calls only fail, nothing is recorded: an abstract failure, or no step.
LEMMA FailuresSimulate ==
    ASSUME Recordings' = Recordings, Receipted' = Receipted,
           \A c \in Calls : \/ Outcome(pc'[c]) = Outcome(pc[c])
                            \/ Outcome(pc[c]) = "open" /\ Outcome(pc'[c]) = "failed"
    PROVE  T!Next
<1> DEFINE S == {c \in Calls : Outcome(pc[c]) = "open" /\ Outcome(pc'[c]) # "open"}
<1>1. T!Fail(S)
  BY DEF T!Fail, Recordings, Receipted
<1>2. S \in SUBSET T!Open
  BY DEF T!Open
<1> QED  BY <1>1, <1>2 DEF T!Next

\* What a step that moves only c does to the outcomes.
LEMMA OutcomeMoves ==
    ASSUME TypeOK, NEW c \in Calls, NEW l, pc'[c] = l,
           \A d \in Calls \ {c} : pc'[d] = pc[d]
    PROVE  /\ OutcomeMap' = [OutcomeMap EXCEPT ![c] = Outcome(l)]
           /\ Outcome(pc[c]) = Outcome(l) => OutcomeMap' = OutcomeMap
BY DEF OutcomeMap

\* What an open call may do in AuditTrail.
LEMMA OpenCallSteps ==
    ASSUME NEW c \in T!Open, NEW p \in Packs,
           \/ \E s \in DeclaredStages(p) : T!Record(c, p, s)
           \/ T!Commit(c, p) \/ T!Enter(c, p) \/ T!Block(c, p)
    PROVE  T!Next
BY DEF T!Next

\* A call is blocked before anything of it is recorded.
LEMMA BlockSimulates ==
    ASSUME TypeOK, NEW c \in Calls, TrailInv(c), pc[c] \in Unopened \ {"refused"},
           NEW st, NEW p \in Packs,
           audit' = audit \cup {Event(c, st, "BLOCKED", p)}, ledger' = ledger,
           pc'[c] = "failed", \A d \in Calls \ {c} : pc'[d] = pc[d]
    PROVE  T!Next
<1>1. Recordings' = Recordings \cup {<<c, "BLOCKED", p>>}
  BY EventRecorded
<1>2. OutcomeMap' = [OutcomeMap EXCEPT ![c] = "failed"]
  BY OutcomeMoves DEF Outcome, Over
<1>3. \A x \in Recordings : x[1] # c
  BY RecordingsOf DEF TrailInv, RecordsReach
<1>4. T!Block(c, p)
  BY <1>1, <1>2, <1>3 DEF T!Block, T!Unbegun, Recordings, OutcomeMap
<1>5. c \in T!Open
  BY DEF T!Open, Outcome, Over, Unopened
<1> QED  BY <1>4, <1>5, OpenCallSteps

\* A stage is recorded after those its pack declares before it; what answers
\* with it has them all.
LEMMA RecordSimulates ==
    ASSUME TypeOK, NEW c \in Calls, TrailInv(c), TrailInv(c)', pc[c] \in Running,
           NEW s \in DeclaredStages(pack[c]), StageRank[s] = Rank(pc[c]),
           NEW status \in {"SUCCESS", "FAILURE"},
           audit' = audit \cup {Event(c, s, status, pack[c])},
           ledger' = ledger, pack'[c] = pack[c],
           pc'[c] \in Running \cup {"answered"}, \A d \in Calls \ {c} : pc'[d] = pc[d],
           pc'[c] = "answered" => \A st \in DeclaredStages(pack[c]) : Recorded(c, st)',
           s = "LEDGER_COMMIT" => pc[c] = "commitAudit"
    PROVE  T!Next
<1> DEFINE p == pack[c]
<1>0. p \in Packs
  BY DEF TypeOK
<1>1. Recordings' = Recordings \cup {<<c, s, p>>}
  BY EventRecorded
<1>2. /\ \A x \in Recordings : x[1] = c => x[3] = p
      /\ \A st : Recorded(c, st) => <<c, st, p>> \in Recordings
  BY RecordingsOf
<1>3. \A st \in DeclaredStages(p) : StageRank[st] < StageRank[s] => <<c, st, p>> \in Recordings
  BY <1>2 DEF TrailInv, RecordsReach
<1>4. s = "LEDGER_COMMIT" => <<c, p>> \in Receipted
  <2>1. s = "LEDGER_COMMIT" => \E r \in ledger : r.trail = c /\ r.pack = p
    BY DEF TrailInv, ReceiptsAreBacked
  <2> QED  BY <2>1 DEF Receipted
<1>5. \/ OutcomeMap' = OutcomeMap
      \/ /\ OutcomeMap' = [OutcomeMap EXCEPT ![c] = "answered"]
         /\ \A st \in DeclaredStages(p) : <<c, st, p>> \in Recordings'
  <2>1. CASE pc'[c] \in Running
    <3>1. Outcome(pc[c]) = Outcome(pc'[c])
      BY <2>1 DEF Outcome, Over, Running
    <3> QED  BY <3>1, OutcomeMoves
  <2>2. CASE pc'[c] = "answered"
    <3>1. OutcomeMap' = [OutcomeMap EXCEPT ![c] = "answered"]
      BY <2>2, OutcomeMoves DEF Outcome
    <3>2. \A st : Recorded(c, st)' => <<c, st, p>> \in Recordings'
      BY DEF Recordings, Entry, Trail, Recorded
    <3> QED  BY <2>2, <3>1, <3>2
  <2> QED  BY <2>1, <2>2
<1>6. T!Record(c, p, s)
  BY <1>0, <1>1, <1>2, <1>3, <1>4, <1>5
     DEF T!Record, T!Recorded, Recordings, OutcomeMap, Receipted
<1>7. c \in T!Open
  BY DEF T!Open, Outcome, Over, Running
<1> QED  BY <1>0, <1>6, <1>7, OpenCallSteps

\* A receipt is written when all but its own stage is recorded.
LEMMA CommitSimulates ==
    ASSUME TypeOK, NEW c \in Calls, TrailInv(c), LedgerCommit(c)
    PROVE  T!Next
<1>p. PICK p \in Packs : p = pack[c]
  BY DEF TypeOK
<1> DEFINE receipt == [trail |-> c, session |-> session[c], pack |-> p]
<1>0. pc[c] = "commit" /\ Recordings' = Recordings
  BY DEF LedgerCommit, Recordings
<1>1. CASE Goto(c, "failed") /\ UNCHANGED ledger
  BY <1>0, <1>1, FailuresSimulate DEF Goto, TypeOK, Outcome, Over, Receipted
<1>2. CASE ledger' = ledger \cup {receipt} /\ Goto(c, "commitAudit")
  <2>1. Receipted' = Receipted \cup {<<c, p>>}
    <3>1. receipt.trail = c /\ receipt.pack = p /\ ledger' = ledger \cup {receipt}
      BY <1>2
    <3> HIDE DEF receipt
    <3> QED  BY <3>1 DEF Receipted
  <2>2. OutcomeMap' = OutcomeMap
    <3>1. /\ pc'[c] = "commitAudit"
          /\ \A d \in Calls \ {c} : pc'[d] = pc[d]
      BY <1>2 DEF Goto, TypeOK
    <3>2. Outcome(pc[c]) = Outcome("commitAudit")
      BY <1>0 DEF Outcome, Over
    <3> QED  BY <3>1, <3>2, OutcomeMoves
  <2>3. "LEDGER_COMMIT" \in DeclaredStages(p)
    BY <1>0, <1>p DEF TrailInv, RecordsReach, DeclaredStages
  <2>4. \A st \in DeclaredStages(p) \ {"LEDGER_COMMIT"} : StageRank[st] < 5
    BY Ranks DEF DeclaredStages
  <2>5. \A st \in DeclaredStages(p) \ {"LEDGER_COMMIT"} : <<c, st, p>> \in Recordings
    BY <1>0, <1>p, <2>4, RecordingsOf DEF TrailInv, RecordsReach, Running, Rank
  <2>6. T!Commit(c, p)
    BY <1>0, <2>1, <2>2, <2>3, <2>5
       DEF T!Commit, T!Recorded, Recordings, OutcomeMap, Receipted
  <2>7. c \in T!Open
    BY <1>0 DEF T!Open, Outcome, Over
  <2> QED  BY <2>6, <2>7, OpenCallSteps
<1> QED  BY <1>1, <1>2, <1>p DEF LedgerCommit

\* A write answers with its one event.
LEMMA EnterSimulates ==
    ASSUME TypeOK, NEW c \in Calls, TrailInv(c), pc[c] = "insertAudit",
           audit' = audit \cup {Event(c, "DEVICE_IMPORT", "SUCCESS", pack[c])},
           ledger' = ledger, Goto(c, "answered")
    PROVE  T!Next
<1>p. PICK p \in Packs : p = pack[c]
  BY DEF TypeOK
<1>1. Recordings' = Recordings \cup {<<c, "DEVICE_IMPORT", p>>}
  BY <1>p, EventRecorded
<1>2. OutcomeMap' = [OutcomeMap EXCEPT ![c] = "answered"]
  <2>1. pc'[c] = "answered" /\ \A d \in Calls \ {c} : pc'[d] = pc[d]
    BY DEF Goto, TypeOK
  <2> QED  BY <2>1, OutcomeMoves DEF Outcome
<1>3. \A x \in Recordings : x[1] # c
  BY RecordingsOf DEF TrailInv, RecordsReach, Unopened
<1>4. T!Enter(c, p)
  BY <1>1, <1>2, <1>3 DEF T!Enter, T!Unbegun, Recordings, OutcomeMap
<1>5. c \in T!Open
  BY DEF T!Open, Outcome, Over
<1> QED  BY <1>4, <1>5, OpenCallSteps

\* Before the model answers, and when it does, a call moves on, fails, or is
\* blocked.
LEMMA OpeningSimulates ==
    ASSUME TypeOK, TypeOK', NEW c \in Calls, TrailInv(c),
           NEW r \in Packs \cup {NoPack}, NEW g \in Packs,
           \/ BeforeToolCall(c) \/ Execute(c) \/ Chat(c, r, g)
           \/ LlmFails(c) \/ LlmUnsafe(c) \/ LlmAnswers(c)
    PROVE  T!Next
<1>1. /\ \A d \in Calls \ {c} : pc'[d] = pc[d]
      /\ ledger' = ledger
      /\ pc[c] \in {"idle", "approved", "llm"}
  BY DEF BeforeToolCall, Execute, Chat, StartPipeline, LlmFails, LlmUnsafe, LlmAnswers,
     AppendThen, Goto, TypeOK, logs
<1>2. \/ /\ audit' = audit
         /\ pc'[c] \in {"refused", "approved", "approval", "llm", "failed", "insert", "text2sql"}
      \/ /\ audit' = audit \cup {Event(c, "TEXT2SQL_GEN", "BLOCKED", pack'[c])}
         /\ pc'[c] = "failed"
  BY DEF BeforeToolCall, Execute, Chat, StartPipeline, LlmFails, LlmUnsafe, LlmAnswers,
     AppendThen, Goto, TypeOK, logs
<1>3. CASE /\ audit' = audit
           /\ pc'[c] \in {"refused", "approved", "approval", "llm", "failed", "insert",
                          "text2sql"}
  BY <1>1, <1>3, FailuresSimulate DEF Outcome, Over, Recordings, Receipted
<1>4. CASE /\ audit' = audit \cup {Event(c, "TEXT2SQL_GEN", "BLOCKED", pack'[c])}
           /\ pc'[c] = "failed"
  <2>1. pack'[c] \in Packs
    BY DEF TypeOK
  <2> QED  BY <1>1, <1>4, <2>1, BlockSimulates DEF Unopened
<1> QED  BY <1>2, <1>3, <1>4

\* A stage of the pipeline is recorded, or its call fails.
LEMMA StageSimulates ==
    ASSUME TypeOK, NEW c \in Calls, TrailInv(c), TrailInv(c)',
           \/ Text2Sql(c) \/ DbQuery(c) \/ RuleEval(c) \/ AgentDecision(c)
           \/ LedgerCommitAudit(c)
    PROVE  T!Next
<1> DEFINE p == pack[c]
<1>1. CASE Goto(c, "failed") /\ UNCHANGED <<audit, ledger>>
  <2>1. pc[c] \in Running
    BY DEF Text2Sql, DbQuery, RuleEval, AgentDecision, LedgerCommitAudit, Running
  <2> QED
    BY <1>1, <2>1, FailuresSimulate DEF Goto, TypeOK, Outcome, Over, Running, Recordings, Receipted
<1>2. ASSUME NEW s \in DeclaredStages(p), NEW status \in {"SUCCESS", "FAILURE"},
             NEW l \in Running \cup {"answered"},
             pc[c] \in Running, StageRank[s] = Rank(pc[c]),
             s = "LEDGER_COMMIT" => pc[c] = "commitAudit",
             AppendThen(c, Event(c, s, status, p), l)
      PROVE  T!Next
  <2>1. /\ ledger' = ledger /\ pack' = pack
        /\ \A d \in Calls \ {c} : pc'[d] = pc[d]
        /\ \/ pc'[c] = l /\ audit' = audit \cup {Event(c, s, status, p)}
           \/ pc'[c] = "failed" /\ audit' = audit
    BY <1>2, AppendThenTouches DEF Touches
  <2>2. CASE pc'[c] = "failed" /\ audit' = audit
    BY <1>2, <2>1, <2>2, FailuresSimulate DEF Outcome, Over, Running, Recordings, Receipted
  <2>3. CASE pc'[c] = l /\ audit' = audit \cup {Event(c, s, status, p)}
    <3>1. pc'[c] = "answered" => \A st \in DeclaredStages(p) : Recorded(c, st)'
      BY StageTrail, CommitTrail
    <3> QED  BY <1>2, <2>1, <2>3, <3>1, RecordSimulates
  <2> QED  BY <2>1, <2>2, <2>3
<1>3. {"TEXT2SQL_GEN", "DB_QUERY", "AGENT_DECISION"} \subseteq DeclaredStages(p)
  BY DEF DeclaredStages
<1>4. CASE Text2Sql(c)
  BY <1>2, <1>3, <1>4, Ranks DEF Text2Sql, Rank, Running
<1>5. CASE DbQuery(c)
  <2>1. AfterDbQuery(p) \in Running
    BY DEF AfterDbQuery, Running
  <2> QED
    BY <1>1, <1>2, <1>3, <1>5, <2>1, Ranks DEF DbQuery, Rank, Running, logs
<1>6. CASE RuleEval(c)
  <2>1. pc[c] = "ruleEval" /\ "RULE_EVAL" \in DeclaredStages(p)
    BY <1>6 DEF RuleEval, TrailInv, RecordsReach, DeclaredStages
  <2>2. ASSUME NEW status \in {"SUCCESS", "FAILURE"},
               AppendThen(c, Event(c, "RULE_EVAL", status, p), "decision")
        PROVE  T!Next
    BY <1>2, <2>1, <2>2, Ranks DEF Rank, Running
  <2> QED  BY <1>1, <1>6, <2>2 DEF RuleEval, logs
<1>7. CASE AgentDecision(c)
  BY <1>2, <1>3, <1>7, Ranks DEF AgentDecision, Rank, Running
<1>8. CASE LedgerCommitAudit(c)
  <2>1. pc[c] = "commitAudit" /\ "LEDGER_COMMIT" \in DeclaredStages(p)
    BY <1>8 DEF LedgerCommitAudit, TrailInv, RecordsReach, DeclaredStages
  <2> QED  BY <1>2, <1>8, <2>1, Ranks DEF LedgerCommitAudit, Rank, Running
<1> QED  BY <1>4, <1>5, <1>6, <1>7, <1>8

\* A write enters its rows, and answers or is blocked.
LEMMA WriteSimulates ==
    ASSUME TypeOK, NEW c \in Calls, TrailInv(c),
           Insert(c) \/ InsertAudit(c) \/ InsertBlocked(c)
    PROVE  T!Next
<1>1. CASE /\ UNCHANGED <<audit, ledger>>
           /\ pc[c] \in {"insert", "insertAudit", "insertBlocked"}
           /\ \E l \in {"insertAudit", "insertBlocked", "failed"} : Goto(c, l)
  BY <1>1, FailuresSimulate DEF Goto, TypeOK, Outcome, Over, Recordings, Receipted
<1>2. CASE Insert(c)
  BY <1>1, <1>2 DEF Insert, logs
<1>3. CASE InsertAudit(c)
  BY <1>1, <1>3, EnterSimulates DEF InsertAudit
<1>4. CASE InsertBlocked(c)
  <2>1. pack[c] \in Packs /\ pc[c] = "insertBlocked" /\ ledger' = ledger
    BY <1>4 DEF TypeOK, InsertBlocked, AppendThen
  <2>2. CASE /\ audit' = audit \cup {Event(c, "DEVICE_IMPORT", "BLOCKED", pack[c])}
             /\ Goto(c, "failed")
    BY <2>1, <2>2, BlockSimulates DEF Goto, TypeOK, Unopened
  <2>3. CASE UNCHANGED audit /\ Goto(c, "failed")
    BY <1>1, <2>1, <2>3
  <2> QED  BY <1>4, <2>2, <2>3 DEF InsertBlocked, AppendThen
<1> QED  BY <1>2, <1>3, <1>4

\* Where calls stay or fail and only events of no call are added, the trails
\* do not change.
LEMMA OwnEventsSimulate ==
    ASSUME NEW e, e.trail \in OwnTrails, audit' \in {audit, audit \cup {e}}, ledger' = ledger,
           \A c \in Calls : \/ Outcome(pc'[c]) = Outcome(pc[c])
                            \/ Outcome(pc[c]) = "open" /\ Outcome(pc'[c]) = "failed"
    PROVE  T!Next
<1>1. Recordings' = Recordings
  BY GovernanceAssumption, RecordingsGrow DEF Recordings
<1> QED  BY <1>1, FailuresSimulate DEF Receipted

\* The operator forgets trails and receipts only between calls.
LEMMA OperatorSimulates ==
    ASSUME TypeOK, TrailsInv, OperatorStep \/ ResetStep \/ Restart
    PROVE  T!Next
<1>1. ASSUME NEW t \in OwnTrails, NEW step, NEW status, NEW p,
             audit' \in {audit, audit \cup {Event(t, step, status, p)}},
             UNCHANGED <<ledger, pc>>
      PROVE  T!Next
  <2>1. Event(t, step, status, p).trail \in OwnTrails
    BY DEF Event
  <2> QED  BY <1>1, <2>1, OwnEventsSimulate
<1>2. {"grant", "operator"} \subseteq OwnTrails
  BY DEF OwnTrails
<1>3. CASE OperatorStep
  <2>1. ASSUME NEW p \in Packs, NEW scopes \in SUBSET Scopes, PutGrant(p, scopes)
        PROVE  T!Next
    BY <1>1, <1>2, <2>1 DEF PutGrant, calls
  <2>2. UNCHANGED <<audit, ledger, pc>> \/
          \E p \in Packs, scopes \in SUBSET Scopes : PutGrant(p, scopes)
    BY <1>3 DEF OperatorStep, PutSessionPack, DeleteSessionPack, InitializeTra, ResetTra,
       logs, calls
  <2> QED  BY <1>1, <1>2, <2>1, <2>2
<1>4. CASE ClearAuditEvents \/ ClearEvidenceLedger
  <2>1. /\ resetStep # "none" /\ OutcomeMap' = OutcomeMap
        /\ \A c \in Calls : pc[c] \notin Stages
    BY <1>4 DEF ClearAuditEvents, ClearEvidenceLedger, calls, OutcomeMap, TrailsInv, ResetIsAlone
  <2>2. T!Undisturbed
    <3> SUFFICES ASSUME NEW c \in Calls, Outcome(pc[c]) = "open",
                        NEW x \in Recordings
                 PROVE  x[1] # c
      BY DEF T!Undisturbed, T!Open, T!Unbegun, Recordings
    <3>1. pc[c] \in Unopened
      BY <2>1 DEF TypeOK, Outcome, Over, Unopened, Waiting, Stages
    <3>2. TrailInv(c)
      BY DEF TrailsInv
    <3> QED  BY <3>1, <3>2, RecordingsOf DEF TrailInv, RecordsReach
  <2>3. CASE ClearAuditEvents
    <3>1. Recordings' = {} /\ Receipted' = Receipted
      BY <2>3 DEF ClearAuditEvents, Recordings, Receipted
    <3>2. T!ForgetTrails
      BY <2>1, <2>2, <3>1 DEF T!ForgetTrails, Recordings, Receipted, OutcomeMap
    <3> QED  BY <3>2 DEF T!Next
  <2>4. CASE ClearEvidenceLedger
    <3>1. Receipted' = {} /\ Recordings' = Recordings
      BY <2>4 DEF ClearEvidenceLedger, Recordings, Receipted
    <3>2. T!ForgetReceipts
      BY <2>1, <2>2, <3>1 DEF T!ForgetReceipts, Recordings, Receipted, OutcomeMap
    <3> QED  BY <3>2 DEF T!Next
  <2> QED  BY <1>4, <2>3, <2>4
<1>5. CASE ClearTraDataAccessGrants \/ ClearAgentDomainGrants \/ RecordTraReset \/ ResetFails
  BY <1>1, <1>2, <1>5 DEF ClearTraDataAccessGrants, ClearAgentDomainGrants, RecordTraReset,
     ResetFails, logs, calls
<1>6. CASE Restart
  <2>1. \A c \in Calls : \/ Outcome(pc'[c]) = Outcome(pc[c])
                         \/ Outcome(pc[c]) = "open" /\ Outcome(pc'[c]) = "failed"
    BY <1>6 DEF Restart, Outcome, Over
  <2> QED  BY <1>6, <2>1, FailuresSimulate DEF Restart, logs, Recordings, Receipted
<1> QED  BY <1>3, <1>4, <1>5, <1>6 DEF ResetStep

\* Every step is one of AuditTrail, or leaves its variables alone.
LEMMA NextSimulates ==
    ASSUME TypeOK, TypeOK', TrailsInv, TrailsInv', [Next]_vars
    PROVE  [T!Next]_(T!vars)
<1>1. ASSUME NEW c \in Calls, CallStep(c)
      PROVE  T!Next
  <2>1. TrailInv(c) /\ TrailInv(c)'
    BY DEF TrailsInv
  <2>2. ASSUME NEW d \in {"allow-once", "allow-always", "deny", "timeout", "cancelled"},
               ResolveApproval(c, d)
        PROVE  T!Next
    <3>1. \E status \in Statuses :
            audit' \in {audit, audit \cup {Event("consent", "DATA_CONSENT", status, hookPack[c])}}
      BY <2>2 DEF ResolveApproval, Statuses
    <3>2. \A status : Event("consent", "DATA_CONSENT", status, hookPack[c]).trail \in OwnTrails
      BY DEF Event, OwnTrails
    <3>3. /\ ledger' = ledger
          /\ \A b \in Calls : \/ Outcome(pc'[b]) = Outcome(pc[b])
                              \/ Outcome(pc[b]) = "open" /\ Outcome(pc'[b]) = "failed"
      BY <2>2 DEF ResolveApproval, Goto, TypeOK, Outcome, Over
    <3> QED  BY <3>1, <3>2, <3>3, OwnEventsSimulate
  <2>3. CASE BeforeToolCall(c) \/ Execute(c) \/ LlmFails(c) \/ LlmUnsafe(c) \/ LlmAnswers(c)
    BY <2>1, <2>3, OpeningSimulates, PolicyAssumption
  <2>4. CASE \E r \in Packs \cup {NoPack}, g \in Packs : Chat(c, r, g)
    BY <2>1, <2>4, OpeningSimulates
  <2>5. CASE \/ Text2Sql(c) \/ DbQuery(c) \/ RuleEval(c) \/ AgentDecision(c)
             \/ LedgerCommitAudit(c)
    BY <2>1, <2>5, StageSimulates
  <2>6. CASE LedgerCommit(c)
    BY <2>1, <2>6, CommitSimulates
  <2>7. CASE Insert(c) \/ InsertAudit(c) \/ InsertBlocked(c)
    BY <2>1, <2>7, WriteSimulates
  <2> QED  BY <1>1, <2>2, <2>3, <2>4, <2>5, <2>6, <2>7 DEF CallStep
<1>2. CASE UNCHANGED vars
  BY <1>2 DEF vars, logs, calls, T!vars
<1> QED  BY <1>1, <1>2, OperatorSimulates DEF Next

\* The governed paths implement AuditTrail: through failing appends, crashes
\* and resets nothing is added to what is recorded of a call that is over, and
\* trails are forgotten only all at once, between calls.
THEOREM KeepsTrailsHolds == Spec => KeepsTrails
<1>1. Init => T!Init
  BY DEF Init, T!Init, Outcome, Over
<1>2. TypeOK /\ TypeOK' /\ TrailsInv /\ TrailsInv' /\ [Next]_vars => [T!Next]_(T!vars)
  BY NextSimulates
<1> QED  BY <1>1, <1>2, TrailsInvHolds, TypeCorrect, PTL DEF Spec, KeepsTrails, T!Spec

=============================================================================
