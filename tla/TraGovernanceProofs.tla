------------------------- MODULE TraGovernanceProofs -------------------------
(* Theorems of TraGovernance, for every set of packs, sessions and calls.    *)
EXTENDS TraGovernance, TLAPS

Labels == Waiting \cup Stages \cup Over

-----------------------------------------------------------------------------
(* The operators of TraPolicy keep to their sets.                          *)

\* Reading the grant file, in whatever state it is, yields a grant map.
LEMMA ReadGrantFileType ==
    ASSUME NEW file \in GrantMaps \cup {NoFile}, NEW shared \in GrantMaps
    PROVE  ReadGrantFile(file, shared) \in GrantMaps
BY DEF ReadGrantFile, FilterToCeiling, GrantMaps

\* Setting a pack's entry yields a grant map.
LEMMA WithGrantType ==
    ASSUME NEW file \in GrantMaps \cup {NoFile}, NEW shared \in GrantMaps,
           NEW p \in Packs, NEW scopes \in SUBSET Scopes
    PROVE  WithGrant(file, shared, p, scopes) \in GrantMaps
BY ReadGrantFileType DEF WithGrant, GrantMaps

\* Keeping a standing consent yields consent entries, and touches one pack.
LEMMA GrantTraDataAccessType ==
    ASSUME NEW con \in [Packs -> ConsentEntries], NEW s \in Sessions, NEW p \in Packs
    PROVE  /\ GrantTraDataAccess(con, s, p) \in [Packs -> ConsentEntries]
           /\ \A q \in Packs \ {p} : GrantTraDataAccess(con, s, p)[q] = con[q]
BY DEF GrantTraDataAccess, ConsentEntries

\* A session always resolves to a pack.
LEMMA ResolveType ==
    ASSUME NEW ov \in [Sessions -> Packs \cup {NoPack}],
           NEW lk \in [Sessions -> Packs \cup {NoPack}],
           NEW s \in Sessions, NEW r \in Packs \cup {NoPack}, NEW g \in Packs
    PROVE  ResolveCoordinatorAgentPack(ov, lk, s, r, g) \in Packs
BY DEF ResolveCoordinatorAgentPack

\* Binding a session keeps the three maps typed and gives the call a pack.
LEMMA BindPackType ==
    ASSUME TypeOK, NEW c \in Calls, NEW r \in Packs \cup {NoPack}, NEW g \in Packs,
           BindPack(c, r, g)
    PROVE  /\ pack' \in [Calls -> Packs]
           /\ pack'[c] \in Packs
           /\ override' \in [Sessions -> Packs \cup {NoPack}]
           /\ lock' \in [Sessions -> Packs \cup {NoPack}]
<1> DEFINE s == session[c]
           p == ResolveCoordinatorAgentPack(override, lock, s, r, g)
<1>1. s \in Sessions
  BY DEF TypeOK
<1>2. p \in Packs
  BY <1>1, ResolveType DEF TypeOK
<1>3. /\ pack' = [pack EXCEPT ![c] = p]
      /\ override' = BoundOverride(override, s, r)
      /\ lock' = BoundLock(lock, s, p)
  BY DEF BindPack
<1>4. pack' \in [Calls -> Packs] /\ pack'[c] \in Packs
  BY <1>2, <1>3 DEF TypeOK
<1>5. override' \in [Sessions -> Packs \cup {NoPack}]
  BY <1>1, <1>3 DEF TypeOK, BoundOverride
<1>6. lock' \in [Sessions -> Packs \cup {NoPack}]
  BY <1>1, <1>2, <1>3 DEF TypeOK, BoundLock
<1> QED
  BY <1>4, <1>5, <1>6

\* An event built from typed parts is one of Events.
LEMMA EventType ==
    ASSUME NEW t \in Calls \cup OwnTrails, NEW st \in Steps,
           NEW status \in Statuses, NEW p \in Packs \cup {NoPack}
    PROVE  Event(t, st, status, p) \in Events
BY DEF Event, Events

\* A guarded append keeps the type invariant.
LEMMA AppendThenType ==
    ASSUME TypeOK, NEW c \in Calls, NEW e \in Events, NEW l \in Labels,
           AppendThen(c, e, l), UNCHANGED rows
    PROVE  TypeOK'
<1>1. audit' \subseteq Events
  BY DEF AppendThen, TypeOK
<1>2. pc' \in [Calls -> Labels]
  BY DEF AppendThen, TypeOK, Goto, Labels, Over
<1> QED
  BY <1>1, <1>2 DEF AppendThen, TypeOK, stores, resets, Labels

-----------------------------------------------------------------------------
(* Type correctness.                                                       *)

\* The files an earlier gateway left are of their types.
LEMMA InitType == Init => TypeOK
<1> SUFFICES ASSUME Init PROVE TypeOK
  OBVIOUS
<1> USE PolicyAssumption, NoFileAssumption, GovernanceAssumption
<1>1. grantFile \in GrantMaps \cup {NoFile} /\ emptyFile \in GrantMaps
  BY DEF Init, GrantMaps, NoGrants, Ceiling, Scopes
<1>2. consent \in [Packs -> ConsentEntries]
  <2>1. PICK entry \in LegacyEntries : consent = LegacyConsent(entry)
    BY DEF Init
  <2>2. entry \in ConsentEntries
    OBVIOUS
  <2> QED
    BY <2>1, <2>2 DEF LegacyConsent, NoConsent, ConsentEntries
<1>3. pack \in [Calls -> Packs]
  BY DEF Init
<1>4. /\ pc \in [Calls -> Labels]
      /\ hookPack \in [Calls -> Packs \cup {NoPack}]
      /\ override \in [Sessions -> Packs \cup {NoPack}]
      /\ lock \in [Sessions -> Packs \cup {NoPack}]
  BY DEF Init, Labels, Waiting
<1>5. /\ mounted \in BOOLEAN /\ rows \subseteq Calls \X Tables
      /\ audit \subseteq Events /\ ledger \subseteq Receipts
      /\ tool \in [Calls -> Tools] /\ session \in [Calls -> Sessions]
      /\ resetStep \in ResetSteps
  BY DEF Init, ResetSteps
<1>6. resetCut \in BOOLEAN /\ inherited = consent /\ ops = 0
  BY DEF Init
<1>7. ops \in 0 .. MaxOps
  BY <1>6
<1> QED
  BY <1>1, <1>2, <1>3, <1>4, <1>5, <1>6, <1>7 DEF TypeOK, Labels

\* So are those a tool call or a chat request leaves, step by step.
LEMMA CallStepType ==
    ASSUME TypeOK, NEW c \in Calls, CallStep(c)
    PROVE  TypeOK'
<1> USE PolicyAssumption DEF Labels
<1>0. /\ pack[c] \in Packs /\ session[c] \in Sessions
      /\ SuggestedPack[session[c]] \in Packs /\ DefaultPack \in Packs
      /\ hookPack[c] \in Packs \cup {NoPack} /\ mounted \in BOOLEAN
  BY DEF TypeOK
<1>goto. \A l \in Labels : Goto(c, l) => pc' \in [Calls -> Labels]
  BY DEF TypeOK, Goto
<1>e. \A st \in PipelineSteps \cup {"DEVICE_IMPORT"}, status \in Statuses :
          Event(c, st, status, pack[c]) \in Events
  BY <1>0, EventType DEF Steps
<1>1. CASE BeforeToolCall(c)
  <2>1. BindPack(c, NoPack, SuggestedPack[session[c]])
    BY <1>1 DEF BeforeToolCall
  <2>2. /\ pack' \in [Calls -> Packs] /\ pack'[c] \in Packs
        /\ override' \in [Sessions -> Packs \cup {NoPack}]
        /\ lock' \in [Sessions -> Packs \cup {NoPack}]
    BY <2>1, <1>0, BindPackType
  <2>3. hookPack' \in [Calls -> Packs \cup {NoPack}]
    BY <2>2, <1>1 DEF BeforeToolCall, TypeOK
  <2>4. pc' \in [Calls -> Labels]
    BY <1>1, <1>goto DEF BeforeToolCall, Waiting, Over
  <2> QED
    BY <2>2, <2>3, <2>4, <1>1 DEF BeforeToolCall, TypeOK, logs, resets
<1>2. ASSUME NEW d \in {"allow-once", "allow-always", "deny", "timeout", "cancelled"},
             ResolveApproval(c, d)
      PROVE  TypeOK'
  <2>1. d = "allow-always" => OffersAlways(c)
    BY <1>2 DEF ResolveApproval, Decisions
  <2>2. \A status \in Statuses : Event("consent", "DATA_CONSENT", status, hookPack[c]) \in Events
    BY <1>0, EventType DEF Steps, OwnTrails
  <2>3. audit' \subseteq Events
    BY <1>2, <2>2 DEF ResolveApproval, TypeOK, Statuses
  <2>4. (d = "allow-always" /\ tool[c] = "query") => hookPack[c] \in Packs
    BY <2>1 DEF OffersAlways
  <2>5. consent' \in [Packs -> ConsentEntries]
    <3>1. consent \in [Packs -> ConsentEntries]
      BY DEF TypeOK
    <3>2. \/ consent' = consent
          \/ /\ d = "allow-always" /\ tool[c] = "query"
             /\ consent' = GrantTraDataAccess(consent, session[c], hookPack[c])
      BY <1>2 DEF ResolveApproval
    <3>3. CASE d = "allow-always" /\ tool[c] = "query"
      <4>1. hookPack[c] \in Packs /\ session[c] \in Sessions
        BY <1>0, <2>4, <3>3
      <4>2. GrantTraDataAccess(consent, session[c], hookPack[c])
                \in [Packs -> ConsentEntries]
        BY <3>1, <4>1, GrantTraDataAccessType
      <4> QED
        BY <3>1, <3>2, <4>2
    <3> QED
      BY <3>1, <3>2, <3>3
  <2>6. pc' \in [Calls -> Labels]
    BY <1>2, <1>goto DEF ResolveApproval, Waiting, Over
  <2> QED
    BY <2>3, <2>5, <2>6, <1>2 DEF ResolveApproval, TypeOK, resets
<1>3. CASE Execute(c)
  <2>1. BindPack(c, NoPack, SuggestedPack[session[c]])
    BY <1>3 DEF Execute
  <2>2. /\ pack' \in [Calls -> Packs] /\ pack'[c] \in Packs
        /\ override' \in [Sessions -> Packs \cup {NoPack}]
        /\ lock' \in [Sessions -> Packs \cup {NoPack}]
    BY <2>1, <1>0, BindPackType
  <2>3. Event(c, "TEXT2SQL_GEN", "BLOCKED", pack'[c]) \in Events
    BY <1>0, <2>2, EventType DEF Steps, PipelineSteps, Statuses
  <2>4. audit' \subseteq Events /\ pc' \in [Calls -> Labels]
    BY <1>3, <2>3, <1>goto DEF Execute, StartPipeline, TypeOK, Waiting, Over
  <2> QED
    BY <2>2, <2>4, <1>3 DEF Execute, TypeOK, resets
<1>4. ASSUME NEW r \in Packs \cup {NoPack}, NEW g \in Packs, Chat(c, r, g)
      PROVE  TypeOK'
  <2>1. BindPack(c, r, g)
    BY <1>4 DEF Chat
  <2>2. /\ pack' \in [Calls -> Packs] /\ pack'[c] \in Packs
        /\ override' \in [Sessions -> Packs \cup {NoPack}]
        /\ lock' \in [Sessions -> Packs \cup {NoPack}]
    BY <2>1, <1>0, BindPackType
  <2>3. Event(c, "TEXT2SQL_GEN", "BLOCKED", pack'[c]) \in Events
    BY <1>0, <2>2, EventType DEF Steps, PipelineSteps, Statuses
  <2>4. audit' \subseteq Events /\ pc' \in [Calls -> Labels]
    BY <1>4, <2>3, <1>goto DEF Chat, StartPipeline, TypeOK, Waiting, Over
  <2> QED
    BY <2>2, <2>4, <1>4 DEF Chat, TypeOK, resets
<1>5. CASE LlmFails(c)
  <2>1. pc' \in [Calls -> Labels]
    BY <1>5, <1>goto DEF LlmFails, Over
  <2> QED
    BY <2>1, <1>5 DEF LlmFails, TypeOK, stores, logs, resets
<1>6. CASE LlmUnsafe(c)
  <2>1. CASE tool[c] = "write"
    <3>1. pc' \in [Calls -> Labels]
      BY <2>1, <1>6, <1>goto DEF LlmUnsafe, Over
    <3> QED
      BY <3>1, <2>1, <1>6 DEF LlmUnsafe, TypeOK, stores, logs, resets
  <2>2. CASE tool[c] # "write"
    BY <2>2, <1>6, <1>e, AppendThenType DEF LlmUnsafe, Over, PipelineSteps, Statuses
  <2> QED
    BY <2>1, <2>2
<1>7. CASE LlmAnswers(c)
  <2>1. pc' \in [Calls -> Labels]
    BY <1>7, <1>goto DEF LlmAnswers, Stages
  <2> QED
    BY <2>1, <1>7 DEF LlmAnswers, TypeOK, stores, logs, resets
<1>8. CASE Text2Sql(c)
  BY <1>8, <1>e, AppendThenType DEF Text2Sql, Stages, PipelineSteps, Statuses
<1>9. CASE DbQuery(c)
  <2>1. AfterDbQuery(pack[c]) \in Labels
    BY DEF AfterDbQuery, Stages
  <2>2. CASE AppendThen(c, Event(c, "DB_QUERY", "SUCCESS", pack[c]), AfterDbQuery(pack[c]))
    BY <2>1, <2>2, <1>9, <1>e, AppendThenType DEF DbQuery, PipelineSteps, Statuses
  <2>3. CASE ~AppendThen(c, Event(c, "DB_QUERY", "SUCCESS", pack[c]), AfterDbQuery(pack[c]))
    <3>1. pc' \in [Calls -> Labels]
      BY <2>3, <1>9, <1>goto DEF DbQuery, Over
    <3> QED
      BY <3>1, <2>3, <1>9 DEF DbQuery, TypeOK, stores, logs, resets
  <2> QED
    BY <2>2, <2>3
<1>10. CASE RuleEval(c)
  <2> DEFINE Recorded == \E status \in {"SUCCESS", "FAILURE"} :
               AppendThen(c, Event(c, "RULE_EVAL", status, pack[c]), "decision")
  <2>1. CASE Recorded
    BY <2>1, <1>10, <1>e, AppendThenType DEF RuleEval, Stages, PipelineSteps, Statuses
  <2>2. CASE ~Recorded
    <3>1. Goto(c, "failed") /\ pc' \in [Calls -> Labels]
      BY <2>2, <1>10, <1>goto DEF RuleEval, Over
    <3> QED
      BY <3>1, <2>2, <1>10 DEF RuleEval, TypeOK, stores, logs, resets
  <2> QED
    BY <2>1, <2>2
<1>11. CASE AgentDecision(c)
  BY <1>11, <1>e, AppendThenType DEF AgentDecision, Stages, Over, PipelineSteps, Statuses
<1>12. CASE LedgerCommit(c)
  <2>1. ledger' \subseteq Receipts
    BY <1>0, <1>12 DEF LedgerCommit, TypeOK, Receipts
  <2>2. pc' \in [Calls -> Labels]
    BY <1>12, <1>goto DEF LedgerCommit, Stages, Over
  <2> QED
    BY <2>1, <2>2, <1>12 DEF LedgerCommit, TypeOK, stores, resets
<1>13. CASE LedgerCommitAudit(c)
  BY <1>13, <1>e, AppendThenType DEF LedgerCommitAudit, Over, PipelineSteps, Statuses
<1>14. CASE Insert(c)
  <2>1. pc' \in [Calls -> Labels]
    BY <1>14, <1>goto DEF Insert, Stages
  <2>2. rows' \subseteq Calls \X Tables
    BY <1>14 DEF Insert, TypeOK
  <2> QED
    BY <2>1, <2>2, <1>14 DEF Insert, TypeOK, stores, logs, resets
<1>15. CASE InsertAudit(c)
  <2>1. audit' \subseteq Events
    BY <1>15, <1>e DEF InsertAudit, TypeOK, Statuses
  <2>2. pc' \in [Calls -> Labels]
    BY <1>15, <1>goto DEF InsertAudit, Stages, Over
  <2> QED
    BY <2>1, <2>2, <1>15 DEF InsertAudit, TypeOK, stores, resets
<1>16. CASE InsertBlocked(c)
  BY <1>16, <1>e, AppendThenType DEF InsertBlocked, Over, Statuses
<1> QED
  BY <1>1, <1>2, <1>3, <1>4, <1>5, <1>6, <1>7, <1>8, <1>9, <1>10, <1>11, <1>12,
     <1>13, <1>14, <1>15, <1>16 DEF CallStep

\* And those the operator's routes write.
LEMMA OperatorStepType ==
    ASSUME TypeOK, OperatorStep
    PROVE  TypeOK'
<1>ops. Operate => ops' \in 0 .. MaxOps
  BY GovernanceAssumption DEF TypeOK, Operate
<1>1. ASSUME NEW p \in Packs, NEW scopes \in SUBSET Scopes, PutGrant(p, scopes)
      PROVE  TypeOK'
  <2> DEFINE next == WithGrant(grantFile, emptyFile, p, scopes)
  <2>1. next \in GrantMaps
    BY WithGrantType DEF TypeOK
  <2>2. emptyFile' \in GrantMaps /\ grantFile' \in GrantMaps \cup {NoFile}
    BY <1>1, <2>1 DEF PutGrant, TypeOK
  <2>3. \A status \in Statuses : Event("grant", "AGENT_DOMAIN_GRANT", status, p) \in Events
    BY EventType DEF Steps, OwnTrails, TypeOK
  <2>4. audit' \subseteq Events
    BY <1>1, <2>3 DEF PutGrant, TypeOK, Statuses
  <2> QED
    BY <2>2, <2>4, <1>1, <1>ops DEF PutGrant, TypeOK, calls, resets
<1>2. ASSUME NEW s \in Sessions, NEW p \in Packs, PutSessionPack(s, p)
      PROVE  TypeOK'
  BY <1>2, <1>ops DEF PutSessionPack, TypeOK, logs, calls, resets
<1>3. ASSUME NEW s \in Sessions, DeleteSessionPack(s)
      PROVE  TypeOK'
  BY <1>3, <1>ops DEF DeleteSessionPack, TypeOK, logs, calls, resets
<1>4. CASE InitializeTra
  BY <1>4, <1>ops DEF InitializeTra, ClearingStops, Kept, TypeOK, stores, logs, calls, resets
<1>5. CASE ResetTra
  BY <1>5, <1>ops DEF ResetTra, ClearingStops, Kept, TypeOK, stores, logs, calls, ResetSteps
<1> QED
  BY <1>1, <1>2, <1>3, <1>4, <1>5 DEF OperatorStep

\* And those a reset clears, one after the other.
LEMMA ResetStepType ==
    ASSUME TypeOK, ResetStep
    PROVE  TypeOK'
<1>1. CASE ClearTraDataAccessGrants
  BY <1>1 DEF ClearTraDataAccessGrants, NoConsent, ConsentEntries, TypeOK, logs, calls,
     ResetSteps
<1>2. CASE ClearAgentDomainGrants
  BY <1>2 DEF ClearAgentDomainGrants, TypeOK, logs, calls, ResetSteps
<1>3. CASE ClearAuditEvents
  BY <1>3 DEF ClearAuditEvents, TypeOK, stores, calls, ResetSteps
<1>4. CASE ClearEvidenceLedger
  BY <1>4 DEF ClearEvidenceLedger, TypeOK, stores, calls, ResetSteps
<1>5. CASE RecordTraReset
  <2>1. Event("operator", "TRA_RESET", "SUCCESS", NoPack) \in Events
    BY EventType DEF Steps, OwnTrails, Statuses, TypeOK
  <2> QED
    BY <2>1, <1>5 DEF RecordTraReset, TypeOK, stores, calls, ResetSteps
<1>6. CASE ResetFails
  BY <1>6 DEF ResetFails, TypeOK, stores, logs, calls, ResetSteps
<1> QED
  BY <1>1, <1>2, <1>3, <1>4, <1>5, <1>6 DEF ResetStep

\* And those a gateway finds that died at any point.
LEMMA RestartType ==
    ASSUME TypeOK, Restart
    PROVE  TypeOK'
<1>1. pc' \in [Calls -> Labels]
  BY DEF Restart, TypeOK, Labels, Over
<1>2. emptyFile' \in GrantMaps
  BY DEF Restart, NoGrants, GrantMaps
<1>3. ops' \in 0 .. MaxOps
  BY GovernanceAssumption DEF Restart, TypeOK
<1> QED
  BY <1>1, <1>2, <1>3 DEF Restart, TypeOK, Labels, logs, ResetSteps

\* Every state of the gateway is well typed: the policy files, the logs, the
\* calls and the reset under way hold only what their code can put there.
THEOREM TypeCorrect == Spec => []TypeOK
<1>1. TypeOK /\ [Next]_vars => TypeOK'
  <2> SUFFICES ASSUME TypeOK, [Next]_vars PROVE TypeOK'
    OBVIOUS
  <2>1. CASE \E c \in Calls : CallStep(c)
    BY <2>1, CallStepType
  <2>2. CASE OperatorStep
    BY <2>2, OperatorStepType
  <2>3. CASE ResetStep
    BY <2>3, ResetStepType
  <2>4. CASE Restart
    BY <2>4, RestartType
  <2>5. CASE UNCHANGED vars
    BY <2>5 DEF vars, stores, logs, calls, resets, TypeOK
  <2> QED
    BY <2>1, <2>2, <2>3, <2>4, <2>5 DEF Next
<1> QED
  BY <1>1, InitType, PTL DEF Spec

-----------------------------------------------------------------------------
(* Session packs.                                                          *)

\* Binding a session keeps an override and its lock together, and moves a
\* lock only to what is then the session's override.
LEMMA BindPackLocks ==
    ASSUME TypeOK, OverrideIsLocked, NEW c \in Calls, NEW r \in Packs \cup {NoPack},
           NEW g \in Packs, BindPack(c, r, g)
    PROVE  /\ OverrideIsLocked'
           /\ \A s \in Sessions :
                 (lock[s] # NoPack /\ lock'[s] # lock[s]) => lock'[s] = override'[s]
<1> DEFINE s == session[c]
           p == ResolveCoordinatorAgentPack(override, lock, s, r, g)
<1>1. s \in Sessions
  BY DEF TypeOK
<1>2. /\ override' = BoundOverride(override, s, r)
      /\ lock' = BoundLock(lock, s, p)
  BY DEF BindPack
<1>3. \A t \in Sessions \ {s} : override'[t] = override[t] /\ lock'[t] = lock[t]
  BY <1>2 DEF TypeOK, BoundOverride, BoundLock
<1>4. lock'[s] = p
  BY <1>1, <1>2 DEF TypeOK, BoundLock
<1>5. CASE r = NoPack
  <2>1. override'[s] = override[s]
    BY <1>2, <1>5 DEF BoundOverride
  <2>2. p = IF override[s] # NoPack THEN override[s]
            ELSE IF lock[s] # NoPack THEN lock[s] ELSE g
    BY <1>5 DEF ResolveCoordinatorAgentPack
  <2> QED
    BY <1>1, <1>3, <1>4, <2>1, <2>2 DEF OverrideIsLocked
<1>6. CASE r # NoPack
  <2>1. override'[s] = r
    BY <1>1, <1>2, <1>6 DEF BoundOverride, TypeOK
  <2>2. p = r
    BY <1>6 DEF ResolveCoordinatorAgentPack
  <2> QED
    BY <1>1, <1>3, <1>4, <2>1, <2>2 DEF OverrideIsLocked
<1> QED
  BY <1>5, <1>6

\* Every step keeps an override and its lock together, and moves a lock only
\* by choice.
LEMMA NextLocks ==
    ASSUME TypeOK, OverrideIsLocked, Next
    PROVE  /\ OverrideIsLocked'
           /\ \A s \in Sessions :
                 (lock[s] # NoPack /\ lock'[s] # lock[s]) => lock'[s] = override'[s]
<1> DEFINE Moved == \A s \in Sessions :
                 (lock[s] # NoPack /\ lock'[s] # lock[s]) => lock'[s] = override'[s]
<1>same. (UNCHANGED <<override, lock>>) => OverrideIsLocked' /\ Moved
  BY DEF OverrideIsLocked
<1>1. ASSUME NEW c \in Calls, CallStep(c)
      PROVE  OverrideIsLocked' /\ Moved
  <2>0. session[c] \in Sessions /\ SuggestedPack[session[c]] \in Packs
    BY PolicyAssumption DEF TypeOK
  <2>1. CASE BeforeToolCall(c)
    BY <2>0, <2>1, BindPackLocks DEF BeforeToolCall
  <2>2. CASE Execute(c)
    BY <2>0, <2>2, BindPackLocks DEF Execute
  <2>3. ASSUME NEW r \in Packs \cup {NoPack}, NEW g \in Packs, Chat(c, r, g)
        PROVE  OverrideIsLocked' /\ Moved
    BY <2>3, BindPackLocks DEF Chat
  <2>4. ASSUME NEW d \in {"allow-once", "allow-always", "deny", "timeout", "cancelled"},
               ResolveApproval(c, d)
        PROVE  UNCHANGED <<override, lock>>
    BY <2>4 DEF ResolveApproval
  <2>5. (LlmFails(c) \/ LlmUnsafe(c) \/ LlmAnswers(c)) => UNCHANGED <<override, lock>>
    BY DEF LlmFails, LlmUnsafe, LlmAnswers, AppendThen, stores
  <2>6. (Text2Sql(c) \/ DbQuery(c) \/ RuleEval(c) \/ AgentDecision(c))
            => UNCHANGED <<override, lock>>
    BY DEF Text2Sql, DbQuery, RuleEval, AgentDecision, AppendThen, stores
  <2>7. (LedgerCommit(c) \/ LedgerCommitAudit(c)) => UNCHANGED <<override, lock>>
    BY DEF LedgerCommit, LedgerCommitAudit, AppendThen, stores
  <2>8. (Insert(c) \/ InsertAudit(c) \/ InsertBlocked(c)) => UNCHANGED <<override, lock>>
    BY DEF Insert, InsertAudit, InsertBlocked, AppendThen, stores
  <2> QED
    BY <1>1, <1>same, <2>1, <2>2, <2>3, <2>4, <2>5, <2>6, <2>7, <2>8 DEF CallStep
<1>2. CASE OperatorStep
  <2>1. ASSUME NEW s \in Sessions, NEW p \in Packs \cup {NoPack},
               override' = [override EXCEPT ![s] = p], lock' = [lock EXCEPT ![s] = p]
        PROVE  OverrideIsLocked' /\ Moved
    BY <2>1 DEF TypeOK, OverrideIsLocked
  <2>2. ASSUME NEW p \in Packs, NEW scopes \in SUBSET Scopes, PutGrant(p, scopes)
        PROVE  UNCHANGED <<override, lock>>
    BY <2>2 DEF PutGrant
  <2>3. (InitializeTra \/ ResetTra) => UNCHANGED <<override, lock>>
    BY DEF InitializeTra, ResetTra, stores
  <2>4. \A s \in Sessions, p \in Packs : PutSessionPack(s, p) => OverrideIsLocked' /\ Moved
    BY <2>1 DEF PutSessionPack
  <2>5. \A s \in Sessions : DeleteSessionPack(s) => OverrideIsLocked' /\ Moved
    BY <2>1 DEF DeleteSessionPack
  <2> QED
    BY <1>2, <1>same, <2>2, <2>3, <2>4, <2>5 DEF OperatorStep
<1>3. (ResetStep \/ Restart) => UNCHANGED <<override, lock>>
  BY DEF ResetStep, ClearTraDataAccessGrants, ClearAgentDomainGrants, ClearAuditEvents,
     ClearEvidenceLedger, RecordTraReset, ResetFails, Restart, stores
<1> QED
  BY <1>1, <1>2, <1>3, <1>same DEF Next

\* The session-pack file never holds an override its lock disagrees with,
\* whatever tools, chats and operators bind, and however often they do.
THEOREM SessionPacksAgree == Spec => []OverrideIsLocked
<1>1. Init => OverrideIsLocked
  BY DEF Init, OverrideIsLocked
<1>2. TypeOK /\ OverrideIsLocked /\ [Next]_vars => OverrideIsLocked'
  <2>1. TypeOK /\ OverrideIsLocked /\ Next => OverrideIsLocked'
    BY NextLocks
  <2>2. OverrideIsLocked /\ UNCHANGED vars => OverrideIsLocked'
    BY DEF OverrideIsLocked, vars, stores
  <2> QED
    BY <2>1, <2>2
<1> QED
  BY <1>1, <1>2, TypeCorrect, PTL DEF Spec

\* A session keeps the pack it is locked to until somebody chooses another or
\* clears the choice.
THEOREM LockIsSticky == Spec => LockMovesOnlyByChoice
<1>1. TypeOK /\ OverrideIsLocked /\ [Next]_vars
        => [\A s \in Sessions :
              (lock[s] # NoPack /\ lock'[s] # lock[s]) => lock'[s] = override'[s]]_vars
  BY NextLocks
<1> QED
  BY <1>1, TypeCorrect, SessionPacksAgree, PTL DEF Spec, LockMovesOnlyByChoice

-----------------------------------------------------------------------------
(* Standing consents.                                                      *)

NoStandingConsent ==
    \A p \in Packs, s \in Sessions : ~HasTraDataAccessGrant(consent, s, p)

\* While a reset clears what follows the consents, there is none: the approval
\* that could give one is kept out until the reset is over.
ConsentInv ==
    /\ StandingConsentIsAudited
    /\ resetStep \in {"grants", "audit", "ledger", "record"} => NoStandingConsent

\* A step that adds no standing consent, loses no event and does not advance
\* a reset keeps the invariant.
LEMMA ConsentFrame ==
    ASSUME ConsentInv, UNCHANGED <<consent, inherited>>, audit \subseteq audit',
           resetStep' \in {"none", "consents"} \/ UNCHANGED resetStep
    PROVE  ConsentInv'
BY DEF ConsentInv, StandingConsentIsAudited, NoStandingConsent

\* Guarded appends frame the consents.
LEMMA AppendThenFrame ==
    ASSUME NEW c, NEW e, NEW l, AppendThen(c, e, l)
    PROVE  UNCHANGED <<consent, inherited>> /\ audit \subseteq audit' /\ UNCHANGED resetStep
BY DEF AppendThen, stores, resets

\* The event of a decision is appended before the decision is kept.
LEMMA ResolveApprovalConsent ==
    ASSUME TypeOK, ConsentInv, NEW c \in Calls,
           NEW d \in {"allow-once", "allow-always", "deny", "timeout", "cancelled"},
           ResolveApproval(c, d)
    PROVE  ConsentInv'
<1> DEFINE q == hookPack[c]
           e == Event("consent", "DATA_CONSENT", "SUCCESS", q)
<1>1. UNCHANGED <<resetStep, inherited>> /\ resetStep = "none" /\ audit \subseteq audit'
  BY DEF ResolveApproval, resets, Quiet
<1>2. CASE UNCHANGED consent
  BY <1>1, <1>2, ConsentFrame
<1>3. CASE consent' # consent
  <2>1. /\ d = "allow-always" /\ tool[c] = "query"
        /\ consent' = GrantTraDataAccess(consent, session[c], q)
    BY <1>3 DEF ResolveApproval
  <2>2. audit' = audit \cup {e}
    BY <2>1, <1>3 DEF ResolveApproval
  <2>3. q \in AlwaysPacks /\ q \in Packs
    BY <2>1, PolicyAssumption DEF ResolveApproval, Decisions, OffersAlways
  <2>4. \A p \in Packs \ {q} : consent'[p] = consent[p]
    <3>1. consent \in [Packs -> ConsentEntries] /\ session[c] \in Sessions
      BY DEF TypeOK
    <3>2. \A p \in Packs \ {q} :
              GrantTraDataAccess(consent, session[c], q)[p] = consent[p]
      BY <2>3, <3>1, GrantTraDataAccessType
    <3> QED
      BY <2>1, <3>2
  <2>5. e \in audit' /\ e.step = "DATA_CONSENT" /\ e.status = "SUCCESS" /\ e.pack = q
    BY <2>2 DEF Event
  <2>6. \A p \in Packs \ {q}, s \in Sessions :
            HasTraDataAccessGrant(consent', s, p) = HasTraDataAccessGrant(consent, s, p)
    BY <2>4 DEF HasTraDataAccessGrant
  <2> QED
    BY <1>1, <2>3, <2>5, <2>6 DEF ConsentInv, StandingConsentIsAudited
<1> QED
  BY <1>2, <1>3

\* No step keeps a consent without its event, or drops the event first.
LEMMA NextConsent ==
    ASSUME TypeOK, ConsentInv, Next
    PROVE  ConsentInv'
<1> DEFINE Framed == /\ UNCHANGED <<consent, inherited>> /\ audit \subseteq audit'
                     /\ resetStep' \in {"none", "consents"} \/ UNCHANGED resetStep
<1>frame. Framed => ConsentInv'
  BY ConsentFrame
<1>1. ASSUME NEW c \in Calls, CallStep(c)
      PROVE  ConsentInv'
  <2>1. ASSUME NEW d \in {"allow-once", "allow-always", "deny", "timeout", "cancelled"},
               ResolveApproval(c, d)
        PROVE  ConsentInv'
    BY <2>1, ResolveApprovalConsent
  <2>2. (BeforeToolCall(c) \/ Execute(c)) => Framed
    BY DEF BeforeToolCall, Execute, StartPipeline, logs, resets
  <2>3. ASSUME NEW r, NEW g, Chat(c, r, g)
        PROVE  Framed
    BY <2>3 DEF Chat, StartPipeline, resets
  <2>4. (LlmFails(c) \/ LlmUnsafe(c) \/ LlmAnswers(c)) => Framed
    BY AppendThenFrame DEF LlmFails, LlmUnsafe, LlmAnswers, stores, logs, resets
  <2>5. (Text2Sql(c) \/ DbQuery(c) \/ RuleEval(c) \/ AgentDecision(c)) => Framed
    BY AppendThenFrame DEF Text2Sql, DbQuery, RuleEval, AgentDecision, stores, logs, resets
  <2>6. (LedgerCommit(c) \/ LedgerCommitAudit(c)) => Framed
    BY AppendThenFrame DEF LedgerCommit, LedgerCommitAudit, stores, resets
  <2>7. (Insert(c) \/ InsertAudit(c) \/ InsertBlocked(c)) => Framed
    BY AppendThenFrame DEF Insert, InsertAudit, InsertBlocked, stores, logs, resets
  <2> QED
    BY <1>1, <1>frame, <2>1, <2>2, <2>3, <2>4, <2>5, <2>6, <2>7 DEF CallStep
<1>2. CASE OperatorStep
  <2>1. ASSUME NEW p \in Packs, NEW scopes \in SUBSET Scopes, PutGrant(p, scopes)
        PROVE  Framed
    BY <2>1 DEF PutGrant, resets
  <2>2. ASSUME NEW s \in Sessions, NEW p \in Packs, PutSessionPack(s, p)
        PROVE  Framed
    BY <2>2 DEF PutSessionPack, logs, resets
  <2>3. ASSUME NEW s \in Sessions, DeleteSessionPack(s)
        PROVE  Framed
    BY <2>3 DEF DeleteSessionPack, logs, resets
  <2>4. (InitializeTra \/ ResetTra) => Framed
    BY DEF InitializeTra, ResetTra, stores, logs, resets
  <2> QED
    BY <1>2, <1>frame, <2>1, <2>2, <2>3, <2>4 DEF OperatorStep
<1>3. CASE ClearTraDataAccessGrants
  <2>1. NoStandingConsent'
    BY <1>3 DEF ClearTraDataAccessGrants, NoConsent, NoStandingConsent, HasTraDataAccessGrant
  <2> QED
    BY <2>1 DEF ConsentInv, StandingConsentIsAudited, NoStandingConsent
<1>4. CASE ClearAgentDomainGrants \/ ClearAuditEvents \/ ClearEvidenceLedger
  <2>1. NoStandingConsent'
    BY <1>4 DEF ClearAgentDomainGrants, ClearAuditEvents, ClearEvidenceLedger, ConsentInv,
       NoStandingConsent, stores
  <2> QED
    BY <2>1 DEF ConsentInv, StandingConsentIsAudited, NoStandingConsent
<1>5. (RecordTraReset \/ ResetFails \/ Restart) => Framed
  BY DEF RecordTraReset, ResetFails, Restart, stores, logs
<1> QED
  BY <1>1, <1>2, <1>3, <1>4, <1>5, <1>frame DEF Next, ResetStep

\* No consent outlives or precedes its record: as long as one lets a session
\* query unasked, either it was found in the files of an earlier gateway and no
\* reset has cleared it, or the manifest of its pack allows one and the log
\* holds the decision that gave it.
THEOREM StandingConsentsAreAudited == Spec => []StandingConsentIsAudited
<1>1. Init => ConsentInv
  <2> SUFFICES ASSUME Init PROVE ConsentInv
    OBVIOUS
  <2>1. inherited = consent /\ resetStep = "none"
    BY DEF Init
  <2> QED
    BY <2>1 DEF ConsentInv, StandingConsentIsAudited
<1>2. TypeOK /\ ConsentInv /\ [Next]_vars => ConsentInv'
  <2>1. TypeOK /\ ConsentInv /\ Next => ConsentInv'
    BY NextConsent
  <2>2. ConsentInv /\ UNCHANGED vars => ConsentInv'
    BY DEF ConsentInv, StandingConsentIsAudited, NoStandingConsent, vars, stores, logs, resets
  <2> QED
    BY <2>1, <2>2
<1>3. ConsentInv => StandingConsentIsAudited
  BY DEF ConsentInv
<1> QED
  BY <1>1, <1>2, <1>3, TypeCorrect, PTL DEF Spec
=============================================================================
