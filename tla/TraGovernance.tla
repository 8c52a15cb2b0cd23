---------------------------- MODULE TraGovernance ----------------------------
(***************************************************************************)
(* The governed paths of the TRA (trust runtime): the before_tool_call     *)
(* hook and its approval, the query and write tools, the HTTP chat route,  *)
(* the chat pipeline with its audit trail and evidence receipt, and the    *)
(* operator's routes that grant scopes, bind packs, initialize and reset.  *)
(*                                                                         *)
(* The gateway is one Node process: a call gives way to others only where  *)
(* the code awaits, which is the approval, the hop from the hook to the    *)
(* tool, and the language model.  Everything between two awaits runs       *)
(* without interleaving, but it is a sequence of separate file writes, so  *)
(* an append can fail and the process can die between any two of them.     *)
(* Each write is therefore a step, and Quiet keeps other work out while a  *)
(* synchronous section is under way.                                       *)
(***************************************************************************)
EXTENDS TraPolicy, Naturals

CONSTANTS
    Calls,              \* tool calls and chat requests; each runs once
    RulePacks,          \* packs whose pipeline has the RULE_EVAL stage
    LedgerPacks,        \* packs whose pipeline has the LEDGER_COMMIT stage
    AlwaysWritePacks,   \* packs whose manifest has consent.write.allowAlways
    LegacyEntries,      \* bound: the entries a consent file found may hold
    Faults,             \* which faults happen: "write", "crash"
    MaxOps              \* bound: operator requests and restarts

\* Trails of events no call owns: their ids have prefixes of their own.
OwnTrails == {"consent", "grant", "operator"}

ASSUME GovernanceAssumption ==
    /\ Calls \cap OwnTrails = {}
    /\ RulePacks \subseteq Packs
    /\ LedgerPacks \subseteq Packs
    /\ AlwaysWritePacks \subseteq WritePacks
    /\ LegacyEntries \subseteq ConsentEntries
    /\ Faults \subseteq {"write", "crash"}
    /\ MaxOps \in Nat

VARIABLES
    grantFile,  \* agent-domain-grants.json
    emptyFile,  \* the grants object of the EMPTY_FILE constant, in memory
    consent,    \* consent-grants.json
    override,   \* session-agent-packs.json, sessions
    lock,       \* session-agent-packs.json, locks
    mounted,    \* does local_tra.db hold a user profile?
    rows,       \* per call and kind of table, whose INSERTs local_tra.db holds
    audit,      \* events.jsonl
    ledger,     \* ledger.jsonl, as the set of its receipts
    tool,       \* per call: what it runs
    session,    \* per call: the session it runs in
    pack,       \* per call: the pack it was last resolved to
    hookPack,   \* per call: the pack its hook checked, or NoPack
    pc,         \* per call: where it is
    resetStep,  \* what a reset under way does next, or "none"
    resetCut,   \* history: a reset stopped between audit and ledger
    inherited,  \* history: the consents found at the start and not yet cleared
    ops         \* operator requests and restarts so far

stores == <<grantFile, emptyFile, consent, override, lock>>
logs == <<audit, ledger>>
calls == <<tool, session, pack, hookPack, pc>>
resets == <<resetStep, resetCut, inherited>>
vars == <<stores, mounted, rows, logs, calls, resets, ops>>

-----------------------------------------------------------------------------
Tools == {"query", "write", "chat"}

\* The tables a personal write may INSERT into: those that an initialization
\* or a reset empties (laboratory results, body measures), and those that
\* neither does (vitals, wearables, the registries of devices and sources).
Tables == {"emptied", "kept"}
Emptied(rs) == {r \in rs : r[2] = "emptied"}
Kept(rs) == {r \in rs : r[2] = "kept"}

\* Where a call is: waiting, in a synchronous section, or over.
Waiting == {"idle", "approval", "approved", "llm"}
Stages == {"text2sql", "dbQuery", "ruleEval", "decision", "commit", "commitAudit",
           "insert", "insertAudit", "insertBlocked"}
Over == {"refused", "failed", "answered"}

ResetSteps == {"none", "consents", "grants", "audit", "ledger", "record"}
PipelineSteps == {"TEXT2SQL_GEN", "DB_QUERY", "RULE_EVAL", "AGENT_DECISION", "LEDGER_COMMIT"}
Steps == PipelineSteps \cup {"DATA_CONSENT", "DEVICE_IMPORT", "AGENT_DOMAIN_GRANT", "TRA_RESET"}
Statuses == {"SUCCESS", "FAILURE", "BLOCKED"}

Events == [trail : Calls \cup OwnTrails, step : Steps, status : Statuses,
           pack : Packs \cup {NoPack}]
Receipts == [trail : Calls, session : Sessions, pack : Packs]

Event(trail, step, status, p) ==
    [trail |-> trail, step |-> step, status |-> status, pack |-> p]

\* No synchronous section is under way.
Quiet == resetStep = "none" /\ \A c \in Calls : pc[c] \notin Stages

Goto(c, l) == pc' = [pc EXCEPT ![c] = l]

\* A plausible bug: a failed append is swallowed and the call goes on.
AppendThen_Swallows(c, e, l) ==
    /\ \/ audit' = audit \cup {e}
       \/ "write" \in Faults /\ UNCHANGED audit
    /\ Goto(c, l)
    /\ UNCHANGED <<stores, mounted, ledger, tool, session, pack, hookPack, resets, ops>>

\* Append event e and go on at l; when the append fails the call throws.
AppendThen(c, e, l) ==
    /\ \/ audit' = audit \cup {e} /\ Goto(c, l)
       \/ "write" \in Faults /\ Goto(c, "failed") /\ UNCHANGED audit
    /\ UNCHANGED <<stores, mounted, ledger, tool, session, pack, hookPack, resets, ops>>

TypeOK ==
    /\ grantFile \in GrantMaps \cup {NoFile}
    /\ emptyFile \in GrantMaps
    /\ consent \in [Packs -> ConsentEntries]
    /\ override \in [Sessions -> Packs \cup {NoPack}]
    /\ lock \in [Sessions -> Packs \cup {NoPack}]
    /\ mounted \in BOOLEAN
    /\ rows \subseteq Calls \X Tables
    /\ audit \subseteq Events
    /\ ledger \subseteq Receipts
    /\ tool \in [Calls -> Tools]
    /\ session \in [Calls -> Sessions]
    /\ pack \in [Calls -> Packs]
    /\ hookPack \in [Calls -> Packs \cup {NoPack}]
    /\ pc \in [Calls -> Waiting \cup Stages \cup Over]
    /\ resetStep \in ResetSteps
    /\ resetCut \in BOOLEAN
    /\ inherited \in [Packs -> ConsentEntries]
    /\ ops \in 0 .. MaxOps

\* A gateway that starts over the files an earlier one left: with or without
\* a grant file, with a consent file of version 1, with or without a profile.
Init ==
    /\ grantFile \in {NoFile, [p \in Packs |-> Ceiling(p)]}
    /\ emptyFile = NoGrants
    /\ \E entry \in LegacyEntries : consent = LegacyConsent(entry)
    /\ inherited = consent
    /\ override = [s \in Sessions |-> NoPack]
    /\ lock = [s \in Sessions |-> NoPack]
    /\ mounted \in BOOLEAN
    /\ rows = {} /\ audit = {} /\ ledger = {}
    /\ tool \in [Calls -> Tools]
    /\ session \in [Calls -> Sessions]
    /\ pack = [c \in Calls |-> SuggestedPack[session[c]]]
    /\ hookPack = [c \in Calls |-> NoPack]
    /\ pc = [c \in Calls |-> "idle"]
    /\ resetStep = "none" /\ resetCut = FALSE
    /\ ops = 0

-----------------------------------------------------------------------------
(* The hook, the approval and the tools.                                   *)

RequiredScope(t) == IF t = "write" THEN "tra.write" ELSE "tra.chat"

Granted(p, scope) == HasAgentDomainGrant(grantFile, emptyFile, p, scope)

\* Resolve the pack of c's session and bind the session to it.
BindPack(c, requested, suggested) ==
    LET s == session[c]
        p == ResolveCoordinatorAgentPack(override, lock, s, requested, suggested)
    IN  /\ pack' = [pack EXCEPT ![c] = p]
        /\ override' = BoundOverride(override, s, requested)
        /\ lock' = BoundLock(lock, s, p)

\* The before_tool_call hook: a mounted runtime, the pack's domain grant and
\* (to write) its manifest decide whether to refuse, to ask, or to let pass.
BeforeToolCall(c) ==
    /\ Quiet /\ pc[c] = "idle" /\ tool[c] \in {"query", "write"}
    /\ BindPack(c, NoPack, SuggestedPack[session[c]])
    /\ LET p == pack'[c]
           allowed == /\ mounted
                      /\ Granted(p, RequiredScope(tool[c]))
                      /\ tool[c] = "write" => p \in WritePacks
           standing == /\ tool[c] = "query"
                       /\ p \in AlwaysPacks
                       /\ HasTraDataAccessGrant(consent, session[c], p)
       IN  /\ hookPack' = [hookPack EXCEPT ![c] = p]
           /\ Goto(c, IF ~allowed THEN "refused"
                      ELSE IF standing THEN "approved" ELSE "approval")
    /\ UNCHANGED <<grantFile, emptyFile, consent, mounted, rows, logs, tool, session,
                   resets, ops>>

OffersAlways(c) ==
    hookPack[c] \in IF tool[c] = "write" THEN AlwaysWritePacks ELSE AlwaysPacks

Decisions(c) ==
    {"allow-once", "deny", "timeout", "cancelled"}
        \cup (IF OffersAlways(c) THEN {"allow-always"} ELSE {})

\* The approval ends and onResolution runs.  Its failure is swallowed by the
\* notifier: the decision stands without its event and without its grant.
ResolveApproval(c, decision) ==
    LET granted == decision \in {"allow-once", "allow-always"}
        e == Event("consent", "DATA_CONSENT", IF granted THEN "SUCCESS" ELSE "BLOCKED",
                   hookPack[c])
        keep == decision = "allow-always" /\ tool[c] = "query"
    IN  /\ Quiet /\ pc[c] = "approval"
        /\ decision \in Decisions(c)
        /\ Goto(c, IF granted THEN "approved" ELSE "refused")
        /\ \/ /\ audit' = audit \cup {e}
              /\ consent' = IF keep THEN GrantTraDataAccess(consent, session[c], hookPack[c])
                            ELSE consent
           \/ /\ "write" \in Faults /\ audit' \in {audit, audit \cup {e}}
              /\ UNCHANGED consent
        /\ UNCHANGED <<grantFile, emptyFile, override, lock, mounted, rows, ledger, tool,
                       session, pack, hookPack, resets, ops>>

\* A plausible bug: the blocked pipeline is recorded and not left.
StartPipeline_GoesOn(c) ==
    /\ Goto(c, "llm")
    /\ audit' = IF mounted THEN audit
                ELSE audit \cup {Event(c, "TEXT2SQL_GEN", "BLOCKED", pack'[c])}

\* runTrustclawChat up to its await: without a profile the trail is one
\* BLOCKED event, which may fail to be appended like any other.
StartPipeline(c) ==
    \/ mounted /\ Goto(c, "llm") /\ UNCHANGED audit
    \/ /\ ~mounted /\ Goto(c, "failed")
       /\ \/ audit' = audit \cup {Event(c, "TEXT2SQL_GEN", "BLOCKED", pack'[c])}
          \/ "write" \in Faults /\ UNCHANGED audit

\* An approved tool starts: it resolves the session's pack again and checks
\* neither the grant nor the consent again.
Execute(c) ==
    /\ Quiet /\ pc[c] = "approved"
    /\ BindPack(c, NoPack, SuggestedPack[session[c]])
    /\ \/ tool[c] = "query" /\ StartPipeline(c)
       \/ /\ tool[c] = "write"
          /\ Goto(c, IF mounted THEN "llm" ELSE "failed")
          /\ UNCHANGED audit
    /\ UNCHANGED <<grantFile, emptyFile, consent, mounted, rows, ledger, tool, session,
                   hookPack, resets, ops>>

\* POST /api/agent/chat: the pack is bound before its grant is looked at.  A
\* request that names no agent suggests the default pack.
Chat(c, requested, suggested) ==
    /\ Quiet /\ pc[c] = "idle" /\ tool[c] = "chat"
    /\ suggested \in {SuggestedPack[session[c]], DefaultPack}
    /\ BindPack(c, requested, suggested)
    /\ \/ ~Granted(pack'[c], "tra.chat") /\ Goto(c, "refused") /\ UNCHANGED audit
       \/ Granted(pack'[c], "tra.chat") /\ StartPipeline(c)
    /\ UNCHANGED <<grantFile, emptyFile, consent, mounted, rows, ledger, tool, session,
                   hookPack, resets, ops>>

-----------------------------------------------------------------------------
(* The model answers; what follows has no further await.                   *)

\* The caller of the model throws: no event, the call fails.
LlmFails(c) ==
    /\ Quiet /\ pc[c] = "llm"
    /\ Goto(c, "failed")
    /\ UNCHANGED <<stores, mounted, rows, logs, tool, session, pack, hookPack, resets, ops>>

\* The answer holds no acceptable SQL: a SELECT for the pipeline (an empty
\* answer fails the read-only check too), an INSERT for a write.
LlmUnsafe(c) ==
    /\ Quiet /\ pc[c] = "llm"
    /\ IF tool[c] = "write"
       THEN /\ Goto(c, "failed")
            /\ UNCHANGED <<stores, mounted, logs, tool, session, pack, hookPack, resets, ops>>
       ELSE AppendThen(c, Event(c, "TEXT2SQL_GEN", "BLOCKED", pack[c]), "failed")
    /\ UNCHANGED rows

LlmAnswers(c) ==
    /\ Quiet /\ pc[c] = "llm"
    /\ Goto(c, IF tool[c] = "write" THEN "insert" ELSE "text2sql")
    /\ UNCHANGED <<stores, mounted, rows, logs, tool, session, pack, hookPack, resets, ops>>

Text2Sql(c) ==
    /\ pc[c] = "text2sql"
    /\ AppendThen(c, Event(c, "TEXT2SQL_GEN", "SUCCESS", pack[c]), "dbQuery")
    /\ UNCHANGED rows

\* A plausible bug: the rules of a pack that declares them are skipped.
AfterDbQuery_SkipsRules(p) == "decision"

AfterDbQuery(p) == IF p \in RulePacks THEN "ruleEval" ELSE "decision"

\* queryTra throws when the statement does not run; then nothing is recorded.
DbQuery(c) ==
    /\ pc[c] = "dbQuery"
    /\ \/ AppendThen(c, Event(c, "DB_QUERY", "SUCCESS", pack[c]),
                     AfterDbQuery(pack[c]))
       \/ /\ Goto(c, "failed")
          /\ UNCHANGED <<stores, mounted, logs, tool, session, pack, hookPack, resets, ops>>
    /\ UNCHANGED rows

\* A failed rule is recorded as FAILURE and the pipeline goes on; rules that
\* cannot be read throw, and then nothing is recorded.
RuleEval(c) ==
    /\ pc[c] = "ruleEval"
    /\ \/ \E status \in {"SUCCESS", "FAILURE"} :
             AppendThen(c, Event(c, "RULE_EVAL", status, pack[c]), "decision")
       \/ /\ Goto(c, "failed")
          /\ UNCHANGED <<stores, mounted, logs, tool, session, pack, hookPack, resets, ops>>
    /\ UNCHANGED rows

AgentDecision(c) ==
    /\ pc[c] = "decision"
    /\ AppendThen(c, Event(c, "AGENT_DECISION", "SUCCESS", pack[c]),
                  IF pack[c] \in LedgerPacks THEN "commit" ELSE "answered")
    /\ UNCHANGED rows

\* commitEvidenceReceipt, whose append may throw, then its audit event.
LedgerCommit(c) ==
    /\ pc[c] = "commit"
    /\ \/ /\ ledger' = ledger \cup {[trail |-> c, session |-> session[c], pack |-> pack[c]]}
          /\ Goto(c, "commitAudit")
       \/ "write" \in Faults /\ Goto(c, "failed") /\ UNCHANGED ledger
    /\ UNCHANGED <<stores, mounted, rows, audit, tool, session, pack, hookPack, resets, ops>>

LedgerCommitAudit(c) ==
    /\ pc[c] = "commitAudit"
    /\ AppendThen(c, Event(c, "LEDGER_COMMIT", "SUCCESS", pack[c]), "answered")
    /\ UNCHANGED rows

\* executePersonalWrite after its preview: one transaction into some of the
\* tables, which rolls back when no profile is left or a statement fails.
Insert(c) ==
    /\ pc[c] = "insert"
    /\ \/ /\ mounted /\ Goto(c, "insertAudit")
          /\ \E ts \in SUBSET Tables \ {{}} : rows' = rows \cup ({c} \X ts)
       \/ Goto(c, "insertBlocked") /\ UNCHANGED rows
    /\ UNCHANGED <<stores, mounted, logs, tool, session, pack, hookPack, resets, ops>>

\* A plausible bug: the event of a committed write is best effort.
InsertAudit_BestEffort(c) ==
    /\ pc[c] = "insertAudit"
    /\ \/ audit' = audit \cup {Event(c, "DEVICE_IMPORT", "SUCCESS", pack[c])}
       \/ "write" \in Faults /\ UNCHANGED audit
    /\ Goto(c, "answered")
    /\ UNCHANGED <<stores, mounted, rows, ledger, tool, session, pack, hookPack, resets, ops>>

\* The event of a committed write is appended inside the same try: when the
\* append throws, the catch records the write as blocked.
InsertAudit(c) ==
    /\ pc[c] = "insertAudit"
    /\ \/ /\ audit' = audit \cup {Event(c, "DEVICE_IMPORT", "SUCCESS", pack[c])}
          /\ Goto(c, "answered")
       \/ "write" \in Faults /\ Goto(c, "insertBlocked") /\ UNCHANGED audit
    /\ UNCHANGED <<stores, mounted, rows, ledger, tool, session, pack, hookPack, resets, ops>>

InsertBlocked(c) ==
    /\ pc[c] = "insertBlocked"
    /\ AppendThen(c, Event(c, "DEVICE_IMPORT", "BLOCKED", pack[c]), "failed")
    /\ UNCHANGED rows

-----------------------------------------------------------------------------
(* The operator's routes.                                                  *)

Operate == Quiet /\ ops < MaxOps /\ ops' = ops + 1

\* PUT /api/tra/agent-grants.  With no file to read, the entry is set in the
\* grants object of EMPTY_FILE itself, which is then written out.
PutGrant(p, scopes) ==
    /\ Operate
    /\ scopes \subseteq Ceiling(p)
    /\ LET next == WithGrant(grantFile, emptyFile, p, scopes)
           e == Event("grant", "AGENT_DOMAIN_GRANT",
                      IF scopes # {} THEN "SUCCESS" ELSE "BLOCKED", p)
       IN  /\ emptyFile' = IF grantFile = NoFile THEN next ELSE emptyFile
           /\ \/ grantFile' = next /\ audit' = audit \cup {e}
              \/ /\ "write" \in Faults /\ UNCHANGED audit
                 /\ grantFile' \in {next, grantFile}
    /\ UNCHANGED <<consent, override, lock, mounted, rows, ledger, calls, resets>>

\* PUT and DELETE /api/tra/session/agent-pack.
PutSessionPack(s, p) ==
    /\ Operate
    /\ override' = [override EXCEPT ![s] = p]
    /\ lock' = [lock EXCEPT ![s] = p]
    /\ UNCHANGED <<grantFile, emptyFile, consent, mounted, rows, logs, calls, resets>>

DeleteSessionPack(s) ==
    /\ Operate
    /\ override' = [override EXCEPT ![s] = NoPack]
    /\ lock' = [lock EXCEPT ![s] = NoPack]
    /\ UNCHANGED <<grantFile, emptyFile, consent, mounted, rows, logs, calls, resets>>

\* The statements of clearTraPersonalData, in no transaction, stop somewhere:
\* the profile is the last that they delete.
ClearingStops ==
    /\ "write" \in Faults
    /\ \/ /\ \E gone \in SUBSET Emptied(rows) : rows' = rows \ gone
          /\ UNCHANGED mounted
       \/ rows' = Kept(rows) /\ mounted' = FALSE

\* POST /api/tra/init: the personal data is deleted, as far as the statements
\* name its tables, then entered anew, the profile first.
InitializeTra ==
    /\ Operate
    /\ \/ mounted' = TRUE /\ rows' = Kept(rows)
       \/ ClearingStops
    /\ UNCHANGED <<stores, logs, calls, resets>>

\* A plausible bug: a reset may come between two stages of a call.
ResetTra_Meanwhile ==
    /\ resetStep = "none" /\ ops < MaxOps /\ ops' = ops + 1
    /\ \/ mounted' = FALSE /\ rows' = Kept(rows) /\ resetStep' = "consents"
       \/ ClearingStops /\ UNCHANGED resetStep
    /\ UNCHANGED <<stores, logs, calls, resetCut, inherited>>

\* POST /api/tra/reset, a file at a time, unless the database is not emptied.
ResetTra ==
    /\ Operate
    /\ \/ mounted' = FALSE /\ rows' = Kept(rows) /\ resetStep' = "consents"
       \/ ClearingStops /\ UNCHANGED resetStep
    /\ UNCHANGED <<stores, logs, calls, resetCut, inherited>>

\* A plausible bug: a reset leaves the standing consents.
ClearTraDataAccessGrants_Forgets ==
    /\ resetStep = "consents" /\ resetStep' = "grants"
    /\ inherited' = NoConsent
    /\ UNCHANGED <<stores, mounted, rows, logs, calls, resetCut, ops>>

ClearTraDataAccessGrants ==
    /\ resetStep = "consents" /\ resetStep' = "grants"
    /\ consent' = NoConsent /\ inherited' = NoConsent
    /\ UNCHANGED <<grantFile, emptyFile, override, lock, mounted, rows, logs, calls,
                   resetCut, ops>>

\* Writes the grants object of EMPTY_FILE out, whatever it holds by now.
ClearAgentDomainGrants ==
    /\ resetStep = "grants" /\ resetStep' = "audit"
    /\ grantFile' = emptyFile
    /\ UNCHANGED <<emptyFile, consent, override, lock, mounted, rows, logs, calls,
                   resetCut, inherited, ops>>

ClearAuditEvents ==
    /\ resetStep = "audit" /\ resetStep' = "ledger"
    /\ audit' = {}
    /\ UNCHANGED <<stores, mounted, rows, ledger, calls, resetCut, inherited, ops>>

\* A plausible bug: a reset leaves the receipts of the trails it cleared.
ClearEvidenceLedger_Forgets ==
    /\ resetStep = "ledger" /\ resetStep' = "record"
    /\ resetCut' = FALSE
    /\ UNCHANGED <<stores, mounted, rows, logs, calls, inherited, ops>>

ClearEvidenceLedger ==
    /\ resetStep = "ledger" /\ resetStep' = "record"
    /\ ledger' = {} /\ resetCut' = FALSE
    /\ UNCHANGED <<stores, mounted, rows, audit, calls, inherited, ops>>

RecordTraReset ==
    /\ resetStep = "record" /\ resetStep' = "none"
    /\ audit' = audit \cup {Event("operator", "TRA_RESET", "SUCCESS", NoPack)}
    /\ UNCHANGED <<stores, mounted, rows, ledger, calls, resetCut, inherited, ops>>

\* A file of the reset cannot be written: its request ends with an error.
ResetFails ==
    /\ "write" \in Faults
    /\ resetStep # "none" /\ resetStep' = "none"
    /\ resetCut' = (resetCut \/ resetStep = "ledger")
    /\ UNCHANGED <<stores, mounted, rows, logs, calls, inherited, ops>>

\* The process dies, between any two writes, and starts again: what was in
\* memory is gone, approvals and half-done work included.
Restart ==
    /\ "crash" \in Faults
    /\ ops < MaxOps /\ ops' = ops + 1
    /\ pc' = [c \in Calls |-> IF pc[c] \in {"idle"} \cup Over THEN pc[c] ELSE "failed"]
    /\ emptyFile' = NoGrants
    /\ resetStep' = "none"
    /\ resetCut' = (resetCut \/ resetStep = "ledger")
    /\ UNCHANGED <<grantFile, consent, override, lock, mounted, rows, logs, tool, session,
                   pack, hookPack, inherited>>

-----------------------------------------------------------------------------
CallStep(c) ==
    \/ BeforeToolCall(c)
    \/ \E d \in {"allow-once", "allow-always", "deny", "timeout", "cancelled"} :
          ResolveApproval(c, d)
    \/ Execute(c)
    \/ \E requested \in Packs \cup {NoPack}, suggested \in Packs :
          Chat(c, requested, suggested)
    \/ LlmFails(c)
    \/ LlmUnsafe(c)
    \/ LlmAnswers(c)
    \/ Text2Sql(c)
    \/ DbQuery(c)
    \/ RuleEval(c)
    \/ AgentDecision(c)
    \/ LedgerCommit(c)
    \/ LedgerCommitAudit(c)
    \/ Insert(c)
    \/ InsertAudit(c)
    \/ InsertBlocked(c)

OperatorStep ==
    \/ \E p \in Packs, scopes \in SUBSET Scopes : PutGrant(p, scopes)
    \/ \E s \in Sessions, p \in Packs : PutSessionPack(s, p)
    \/ \E s \in Sessions : DeleteSessionPack(s)
    \/ InitializeTra
    \/ ResetTra

ResetStep ==
    \/ ClearTraDataAccessGrants
    \/ ClearAgentDomainGrants
    \/ ClearAuditEvents
    \/ ClearEvidenceLedger
    \/ RecordTraReset
    \/ ResetFails

Next ==
    \/ \E c \in Calls : CallStep(c)
    \/ OperatorStep
    \/ ResetStep
    \/ Restart

Spec == Init /\ [][Next]_vars

-----------------------------------------------------------------------------
(* Properties.                                                             *)

Trail(c) == {e \in audit : e.trail = c}

\* The stages a pack's pipeline declares, and their order.
DeclaredStages(p) ==
    {"TEXT2SQL_GEN", "DB_QUERY", "AGENT_DECISION"}
        \cup (IF p \in RulePacks THEN {"RULE_EVAL"} ELSE {})
        \cup (IF p \in LedgerPacks THEN {"LEDGER_COMMIT"} ELSE {})

StageRank == [TEXT2SQL_GEN |-> 1, DB_QUERY |-> 2, RULE_EVAL |-> 3,
              AGENT_DECISION |-> 4, LEDGER_COMMIT |-> 5]

\* Governance invariant 3: a receipt leads back to the events of its trail.
\* Every receipt of the ledger has the event of every stage its pack declares
\* before the commit, under the same pack, except when a reset stopped after
\* it had cleared the events and before it cleared the receipts.
ReceiptsTraceToAudit ==
    resetCut \/ resetStep = "ledger" \/
    \A r \in ledger : \A st \in DeclaredStages(r.pack) \ {"LEDGER_COMMIT"} :
        \E e \in audit : /\ e.trail = r.trail /\ e.step = st
                        /\ e.pack = r.pack /\ e.status # "BLOCKED"

\* A trail names one pack, and it holds the stages that pack declares in their
\* order: an event is never there without those of the stages before it,
\* whatever append failed and wherever the process died.
TrailIsStagePrefix ==
    \A c \in Calls : \A e \in Trail(c) :
        (e.step \in PipelineSteps /\ e.status # "BLOCKED") =>
            /\ e.step \in DeclaredStages(e.pack)
            /\ \A st \in DeclaredStages(e.pack) :
                   StageRank[st] < StageRank[e.step] =>
                       \E f \in Trail(c) : f.step = st /\ f.pack = e.pack

\* Governance invariant 1, second half, and fail-closed: once a trail holds a
\* BLOCKED event it holds nothing else, it has no receipt, and its call does
\* not answer.
BlockedTrailStops ==
    \A c \in Calls : \A e \in Trail(c) :
        e.status = "BLOCKED" =>
            /\ Trail(c) = {e}
            /\ \A r \in ledger : r.trail # c
            /\ pc[c] # "answered"

\* Governance invariant 2: a call that answers a query has the event of every
\* declared stage in the log at that moment, and its receipt in the ledger.
AnsweredIsAudited ==
    [][\A c \in Calls :
         (pc[c] # "answered" /\ pc'[c] = "answered" /\ tool[c] # "write") =>
            /\ \A st \in DeclaredStages(pack[c]) :
                  \E e \in audit' : e.trail = c /\ e.step = st /\ e.pack = pack[c]
            /\ pack[c] \in LedgerPacks =>
                  \E r \in ledger' : r.trail = c /\ r.pack = pack[c]]_vars

\* What a personal write put into the tables that a reset empties is never
\* there without a trace of its entry: when the write answered and rows of it
\* are still in such a table, its DEVICE_IMPORT event is in the log, because a
\* reset empties those tables before it empties the log.  Rows that no event
\* backs are those of a call that failed or died after its transaction
\* committed, never of one that told its user it was done - and, of any call,
\* those in the tables no reset empties: they outlive the log.
WrittenRowsAreAudited ==
    \A r \in Emptied(rows) : pc[r[1]] = "answered" =>
        Event(r[1], "DEVICE_IMPORT", "SUCCESS", pack[r[1]]) \in audit

\* Whoever may query without being asked was asked: apart from the consents
\* of a version 1 file that no reset has cleared yet, a consent is kept only
\* for a pack whose manifest allows one, and for which the log holds the
\* user's DATA_CONSENT decision.  The decision is logged before it is kept,
\* and a reset drops the consents, those it found included, before the events.
StandingConsentIsAudited ==
    \A p \in Packs, s \in Sessions :
        HasTraDataAccessGrant(consent, s, p) =>
            \/ HasTraDataAccessGrant(inherited, s, p)
            \/ /\ p \in AlwaysPacks
               /\ \E e \in audit : /\ e.step = "DATA_CONSENT" /\ e.status = "SUCCESS"
                                   /\ e.pack = p

\* The two maps of the session-pack file agree: a session with an override is
\* locked to that same pack.
OverrideIsLocked ==
    \A s \in Sessions : override[s] # NoPack => lock[s] = override[s]

\* The pack a session is locked to changes only when somebody chooses a pack
\* for it or clears the choice: no hook, tool or chat that merely runs in the
\* session moves the lock, whichever agent it suggests.
LockMovesOnlyByChoice ==
    [][\A s \in Sessions :
         (lock[s] # NoPack /\ lock'[s] # lock[s]) => lock'[s] = override'[s]]_vars

Outcome(l) == IF l = "answered" THEN "answered"
              ELSE IF l \in Over THEN "failed" ELSE "open"

Entry(e) == <<e.trail, IF e.status = "BLOCKED" THEN "BLOCKED" ELSE e.step, e.pack>>

T == INSTANCE AuditTrail WITH
    Declared <- [p \in Packs |-> DeclaredStages(p)],
    Rank <- StageRank,
    outcome <- [c \in Calls |-> Outcome(pc[c])],
    trail <- {Entry(e) : e \in {f \in audit : f.trail \in Calls}},
    receipts <- {<<r.trail, r.pack>> : r \in ledger}

\* Through failing appends, crashes and resets the log and the ledger keep the
\* promise of AuditTrail: what is recorded of a call is never added to once
\* the call is over, and only a reset takes it away, with everything else and
\* while no call is between two of its stages.
KeepsTrails == T!Spec

-----------------------------------------------------------------------------
(* What the documents say and the code does not do.                        *)

\* A reset that ran to its end, by its own event, leaves no pack with a grant.
ResetRevokesEveryGrant ==
    [][(resetStep = "record" /\ audit' # audit) =>
         \A p \in Packs : ReadGrantFile(grantFile', emptyFile')[p] = {}]_vars

=============================================================================
