------------------------------ MODULE TraPolicy ------------------------------
(***************************************************************************)
(* The policy stores of the TRA (trust runtime) and the rules that read    *)
(* them: which scopes a pack's manifest allows, what the domain-grant file *)
(* says once it has been read and filtered, which standing consents skip   *)
(* an approval, and which pack a session is bound to.                      *)
(*                                                                         *)
(* Every operator is pure: it maps the content of the JSON files kept in   *)
(* the audit directory to a decision or to their next content.  The        *)
(* actions that call them are in TraGovernance.                            *)
(***************************************************************************)
CONSTANTS
    Packs,          \* the agent packs of the registry
    Sessions,       \* session keys, already scoped to an agent
    NoPack,         \* "no such entry" in the session-pack file
    NoFile,         \* a grant file that is missing or cannot be parsed
    WritePacks,     \* packs whose manifest has tools.write
    AlwaysPacks,    \* packs whose manifest has consent.read.allowAlways
    DefaultPack,    \* the pack a legacy (version 1) consent file is about
    SuggestedPack   \* the pack the registry suggests for a session's agent

ASSUME PolicyAssumption ==
    /\ NoPack \notin Packs
    /\ WritePacks \subseteq Packs
    /\ AlwaysPacks \subseteq Packs
    /\ DefaultPack \in Packs
    /\ SuggestedPack \in [Sessions -> Packs]

-----------------------------------------------------------------------------
(* Domain grants: agent-domain-scopes.ts and agent-domain-grants.ts.  The  *)
(* panel.* scopes only gate read-only pages and are left out.              *)

Scopes == {"tra.chat", "tra.write"}

GrantMaps == [Packs -> SUBSET Scopes]
NoGrants == [p \in Packs |-> {}]

ASSUME NoFileAssumption == NoFile \notin GrantMaps

\* The scopes the pack's manifest allows: the schema demands a readTables
\* entry, so tra.chat is always among them.
Ceiling(p) == {"tra.chat"} \cup (IF p \in WritePacks THEN {"tra.write"} ELSE {})

FilterToCeiling(grants) == [p \in Packs |-> grants[p] \cap Ceiling(p)]

\* What a reader of the grant file gets.  When the file cannot be read it is
\* the grants object of the module's EMPTY_FILE constant, which `shared`
\* stands for: the object itself, not a fresh copy.
ReadGrantFile(file, shared) ==
    IF file = NoFile THEN shared ELSE FilterToCeiling(file)

HasAgentDomainGrant(file, shared, p, scope) ==
    scope \in ReadGrantFile(file, shared)[p]

\* The grants after setting (or, with no scope left, deleting) p's entry.
WithGrant(file, shared, p, scopes) ==
    [ReadGrantFile(file, shared) EXCEPT ![p] = scopes \cap Ceiling(p)]

-----------------------------------------------------------------------------
(* Standing consents: consent-store.ts.                                    *)

ConsentEntries == [always : BOOLEAN, sessions : SUBSET Sessions]
NoConsent == [p \in Packs |-> [always |-> FALSE, sessions |-> {}]]

\* A version 1 file holds one entry, read as the default pack's: its sessions
\* and its standing consent.
LegacyConsent(entry) == [NoConsent EXCEPT ![DefaultPack] = entry]

HasTraDataAccessGrant(consent, s, p) ==
    consent[p].always \/ s \in consent[p].sessions

GrantTraDataAccess(consent, s, p) ==
    [consent EXCEPT ![p] = [always |-> TRUE, sessions |-> @.sessions \cup {s}]]

-----------------------------------------------------------------------------
(* Session packs: session-agent-pack.ts and session-pack-coordinator.ts.   *)

\* A plausible bug: the lock an earlier request left is not looked at.
ResolveCoordinatorAgentPack_IgnoresLock(override, lock, s, requested, suggested) ==
    IF requested # NoPack THEN requested
    ELSE IF override[s] # NoPack THEN override[s]
    ELSE suggested

\* The pack a tool, hook or chat request of session s runs as: the one the
\* request names, else the session's override, else its lock, else the pack
\* suggested for the agent the request names.
ResolveCoordinatorAgentPack(override, lock, s, requested, suggested) ==
    IF requested # NoPack THEN requested
    ELSE IF override[s] # NoPack THEN override[s]
    ELSE IF lock[s] # NoPack THEN lock[s]
    ELSE suggested

\* With bindLock, resolving leaves the session locked to the pack it found;
\* only a named pack is also recorded as the session's override.
BoundOverride(override, s, requested) ==
    IF requested = NoPack THEN override ELSE [override EXCEPT ![s] = requested]

BoundLock(lock, s, resolved) == [lock EXCEPT ![s] = resolved]
=============================================================================
