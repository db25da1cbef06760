------------------------------- MODULE Panes -------------------------------
(***************************************************************************)
(* The life of panes: create or find by context key, edit, upgrade, close, *)
(* expire, trash, restore, purge, and the two sweepers                     *)
(* (packages/relay/src/http/routes/panes.ts, trash.ts, my-trash.ts,        *)
(* my-panes.ts, index.ts and hard-delete-sweeper.ts).                      *)
(*                                                                         *)
(* Each handler reads, awaits and then writes by id; nothing but a unique  *)
(* index or a transaction makes the two halves one. All panes here use one *)
(* template, whose versions are 1 .. latest.                               *)
(***************************************************************************)
EXTENDS Naturals, FiniteSets

CONSTANTS
    Requests,     \* HTTP requests; each runs one handler
    Agents, Humans,
    NoHuman,      \* an unclaimed agent's owner
    OwnerOf,      \* ownerHumanId of each agent
    Immune,       \* humans of tier "system" or "paid" without a limit
    Keys, NoKey,  \* context_key
    NoPane,
    Cap,          \* MAX_PANES_PER_AGENT, 0 for none
    Batch,        \* HARD_DELETE_BATCH
    MaxPane,      \* bound of the model: panes ever created
    MaxVersion    \* MAX_VERSIONS_PER_ARTIFACT

ASSUME PanesAssumption ==
    /\ NoHuman \notin Humans /\ NoKey \notin Keys
    /\ OwnerOf \in [Agents -> Humans \cup {NoHuman}]
    /\ Immune \subseteq Humans
    /\ Cap \in Nat /\ Batch \in Nat \ {0}
    /\ MaxPane \in Nat /\ MaxVersion \in Nat \ {0}
    /\ NoPane \notin Nat

PaneId == 1 .. MaxPane
Version == 1 .. MaxVersion

(* open: status; lapsed: expiresAt has passed; aged: deletedAt is past the *)
(* owner's retention; agents: the rows of kind "agent" in participants.    *)
Pane == [agent : Agents, human : Humans \cup {NoHuman}, key : Keys \cup {NoKey},
         version : Version, open : BOOLEAN, lapsed : BOOLEAN,
         trashed : BOOLEAN, aged : BOOLEAN, agents : SUBSET Agents]

Creates == {"find", "insert", "reread"}
Joins == {"join", "mint"}
Writes == {"patch", "upgrade", "append", "close", "trash", "restore", "purge"}

(* What a request carries across its awaits. *)
Job == [step : {"new", "done"} \cup Creates \cup Joins \cup Writes,
        agent : Agents, pane : PaneId \cup {NoPane}, key : Keys \cup {NoKey},
        version : Version]

VARIABLES
    panes,      \* the table: a record for every id that has a row
    issued,     \* ids handed out so far
    latest,     \* Template.latestVersion
    job,        \* where each request stands
    ledger,     \* deletion_log: <<phase, id>>
    ttlIds,     \* what the TTL sweeper is about to trash
    hardIds,    \* what the hard-delete sweeper is about to purge
    hardStep,   \* its next statement
    answered,   \* history: <<agent, id>> that creation was answered with
    tokens      \* history: agent tokens handed out for <<agent, id>>

vars == <<panes, issued, latest, job, ledger, ttlIds, hardIds, hardStep,
          answered, tokens>>

sweepers == <<ttlIds, hardIds, hardStep>>
history == <<answered, tokens>>

PanesTypeOK ==
    /\ DOMAIN panes \subseteq 1 .. issued
    /\ \A p \in DOMAIN panes : panes[p] \in Pane
    /\ issued \in 0 .. MaxPane
    /\ latest \in Version
    /\ job \in [Requests -> Job]
    /\ ledger \subseteq {"soft_deleted", "restored", "hard_deleted"} \X PaneId
    /\ ttlIds \subseteq PaneId /\ hardIds \subseteq PaneId
    /\ hardStep \in {"idle", "read", "audit", "delete"}
    /\ answered \subseteq Agents \X PaneId
    /\ tokens \in [Agents \X PaneId -> Nat]

PanesInit ==
    /\ panes = [p \in {} |-> p]
    /\ issued = 0
    /\ latest = 1
    /\ job \in [Requests -> {[step |-> "new", agent |-> a, pane |-> NoPane,
                              key |-> NoKey, version |-> 1] : a \in Agents}]
    /\ ledger = {}
    /\ ttlIds = {} /\ hardIds = {} /\ hardStep = "idle"
    /\ answered = {}
    /\ tokens = [x \in Agents \X PaneId |-> 0]

-----------------------------------------------------------------------------
Rows == DOMAIN panes
Live(p) == p \in Rows /\ ~panes[p].trashed
Goto(r, step) == job' = [job EXCEPT ![r].step = step]
Done(r) == Goto(r, "done")
Update(p, row) == panes' = [panes EXCEPT ![p] = row]
Without(ids) == [p \in Rows \ ids |-> panes[p]]
Log(phase, ids) == ledger' = ledger \cup ({phase} \X ids)

(* assertPaneInScope: the agents of one human share their panes.           *)
Scope(a) == {a} \cup {b \in Agents : OwnerOf[a] # NoHuman /\ OwnerOf[b] = OwnerOf[a]}
InScope(a, p) == p \in Rows /\ panes[p].agent \in Scope(a)

(* A pane that may still be edited, upgraded and joined.                   *)
Editable(p) == Live(p) /\ panes[p].open /\ ~panes[p].lapsed

(* Seeded bug: the database has no unique index. *)
OccupiedNever(v, h, k, except) == FALSE

(* The rows the dedup lookup looks for, and the unique index over          *)
(* (template_version_id, owner_human_id, context_key): NULLs are distinct, *)
(* trashed rows count.                                                     *)
Keyed(v, h, k) == {p \in Rows : /\ h # NoHuman /\ k # NoKey
                                /\ panes[p].version = v
                                /\ panes[p].human = h /\ panes[p].key = k}
Occupied(v, h, k, except) == Keyed(v, h, k) \ except # {}

CountedOpen(a) == {p \in Rows : panes[p].agent = a /\ panes[p].open}

-----------------------------------------------------------------------------
(* POST /v1/panes: the version is resolved, then the soft cap counts.      *)
Create(r) ==
    /\ job[r].step = "new" /\ issued < MaxPane
    /\ \E k \in Keys \cup {NoKey}, v \in 1 .. latest :
           job' = [job EXCEPT ![r].step =
                       IF Cap > 0 /\ Cardinality(CountedOpen(job[r].agent)) >= Cap
                       THEN "done" ELSE "find",
                   ![r].key = k, ![r].version = v]
    /\ UNCHANGED <<panes, issued, latest, ledger, sweepers, history>>

Find(r) ==
    /\ job[r].step = "find"
    /\ LET hits == {p \in Keyed(job[r].version, OwnerOf[job[r].agent], job[r].key) :
                        ~panes[p].trashed}
       IN IF hits = {}
          THEN Goto(r, "insert")
          ELSE \E p \in hits : job' = [job EXCEPT ![r].step = "join", ![r].pane = p]
    /\ UNCHANGED <<panes, issued, latest, ledger, sweepers, history>>

(* prisma.pane.create with its participants, P2002 on the dedup index.     *)
Insert(r) ==
    LET j == job[r]  h == OwnerOf[j.agent]  p == issued + 1 IN
    /\ j.step = "insert"
    /\ IF Occupied(j.version, h, j.key, {})
       THEN Goto(r, "reread") /\ UNCHANGED <<panes, issued, history>>
       ELSE /\ issued < MaxPane
            /\ issued' = p
            /\ panes' = [q \in Rows \cup {p} |->
                   IF q = p
                   THEN [agent |-> j.agent, human |-> h, key |-> j.key,
                         version |-> j.version, open |-> TRUE, lapsed |-> FALSE,
                         trashed |-> FALSE, aged |-> FALSE, agents |-> {j.agent}]
                   ELSE panes[q]]
            /\ answered' = answered \cup {<<j.agent, p>>}
            /\ tokens' = [tokens EXCEPT ![<<j.agent, p>>] = @ + 1]
            /\ Done(r)
    /\ UNCHANGED <<latest, ledger, sweepers>>

(* The loser of a race resolves to the live winner; a trashed one, or none, *)
(* is a conflict.                                                          *)
ReRead(r) ==
    LET j == job[r]
        winners == {p \in Keyed(j.version, OwnerOf[j.agent], j.key) : ~panes[p].trashed}
    IN /\ j.step = "reread"
       /\ IF winners = {}
          THEN Done(r)
          ELSE \E p \in winners : job' = [job EXCEPT ![r].step = "join", ![r].pane = p]
       /\ UNCHANGED <<panes, issued, latest, ledger, sweepers, history>>

(* Seeded bug: an agent of the same owner is answered without a row. *)
JoinAny(r) ==
    /\ job[r].step = "join" /\ Done(r)
    /\ answered' = answered \cup {<<job[r].agent, job[r].pane>>}
    /\ UNCHANGED <<panes, issued, latest, ledger, sweepers, tokens>>

(* mintCrossAgentParticipantIfNeeded: find, then create.                   *)
Join(r) ==
    LET j == job[r] IN
    /\ j.step = "join"
    /\ IF j.pane \in Rows /\ j.agent \in panes[j.pane].agents
       THEN Done(r) /\ answered' = answered \cup {<<j.agent, j.pane>>}
       ELSE Goto(r, "mint") /\ UNCHANGED answered
    /\ UNCHANGED <<panes, issued, latest, ledger, sweepers, tokens>>

(* Seeded bug: a lost race on the index is answered with a token. *)
MintTwice(r) ==
    LET j == job[r]  a == j.agent  p == j.pane IN
    /\ j.step = "mint" /\ Done(r)
    /\ IF p \in Rows
       THEN /\ Update(p, [panes[p] EXCEPT !.agents = @ \cup {a}])
            /\ answered' = answered \cup {<<a, p>>}
            /\ tokens' = [tokens EXCEPT ![<<a, p>>] = @ + 1]
       ELSE UNCHANGED <<panes, answered, tokens>>
    /\ UNCHANGED <<issued, latest, ledger, sweepers>>

Mint(r) ==
    LET j == job[r]  a == j.agent  p == j.pane IN
    /\ j.step = "mint"
    /\ Done(r)
    /\ \/ p \notin Rows /\ UNCHANGED <<panes, answered, tokens>>
       \/ /\ p \in Rows /\ a \in panes[p].agents
          /\ answered' = answered \cup {<<a, p>>}
          /\ UNCHANGED <<panes, tokens>>
       \/ /\ p \in Rows /\ a \notin panes[p].agents
          /\ Update(p, [panes[p] EXCEPT !.agents = @ \cup {a}])
          /\ answered' = answered \cup {<<a, p>>}
          /\ tokens' = [tokens EXCEPT ![<<a, p>>] = @ + 1]
    /\ UNCHANGED <<issued, latest, ledger, sweepers>>

CreateStep(r) == Create(r) \/ Find(r) \/ Insert(r) \/ ReRead(r) \/ Join(r) \/ Mint(r)

-----------------------------------------------------------------------------
(* The other handlers load the pane and check it; the write by id follows. *)
Begin(r, step, p) == job' = [job EXCEPT ![r].step = step, ![r].pane = p]

Load(r) ==
    /\ job[r].step = "new"
    /\ \E p \in Rows :
           \/ InScope(job[r].agent, p) /\ Editable(p) /\ Begin(r, "patch", p)
           \/ InScope(job[r].agent, p) /\ Live(p) /\ panes[p].open /\ Begin(r, "close", p)
           \/ OwnerOf[job[r].agent] = panes[p].human /\ panes[p].human # NoHuman
              /\ Live(p) /\ Begin(r, "trash", p)
           \/ InScope(job[r].agent, p) /\ panes[p].trashed /\ Begin(r, "restore", p)
           \/ InScope(job[r].agent, p) /\ panes[p].trashed /\ Begin(r, "purge", p)
    /\ UNCHANGED <<panes, issued, latest, ledger, sweepers, history>>

(* MAX_VERSIONS_PER_ARTIFACT. Seeded bug: one more.                        *)
BelowVersionCapOffByOne == latest <= MaxVersion
BelowVersionCap == latest < MaxVersion

(* POST /:id/upgrade to a named version, or to the next one with an inline *)
(* template. The schema gate and its acknowledgement only refuse.          *)
LoadUpgrade(r) ==
    /\ job[r].step = "new"
    /\ \E p \in Rows :
           /\ InScope(job[r].agent, p) /\ Editable(p)
           /\ \/ \E v \in 1 .. latest \ {panes[p].version} :
                     job' = [job EXCEPT ![r].step = "upgrade", ![r].pane = p, ![r].version = v]
              \/ /\ BelowVersionCap
                 /\ job' = [job EXCEPT ![r].step = "append", ![r].pane = p,
                                       ![r].version = latest + 1]
    /\ UNCHANGED <<panes, issued, latest, ledger, sweepers, history>>

(* PATCH /:id with a ttl. Any other field leaves no trace here.            *)
Patch(r) ==
    /\ job[r].step = "patch" /\ Done(r)
    /\ IF job[r].pane \in Rows
       THEN Update(job[r].pane, [panes[job[r].pane] EXCEPT !.lapsed = FALSE])
       ELSE UNCHANGED panes
    /\ UNCHANGED <<issued, latest, ledger, sweepers, history>>

(* The UPDATE fails when the row is gone or the dedup index refuses it.    *)
Upgrade(r) ==
    LET p == job[r].pane  v == job[r].version IN
    /\ job[r].step = "upgrade" /\ Done(r)
    /\ IF p \in Rows /\ ~Occupied(v, panes[p].human, panes[p].key, {p})
       THEN Update(p, [panes[p] EXCEPT !.version = v])
       ELSE UNCHANGED panes
    /\ UNCHANGED <<issued, latest, ledger, sweepers, history>>

(* One transaction: the version, latestVersion and the pane.               *)
InlineUpgrade(r) ==
    LET p == job[r].pane  v == job[r].version IN
    /\ job[r].step = "append" /\ Done(r)
    /\ IF p \in Rows /\ latest < v
       THEN latest' = v /\ Update(p, [panes[p] EXCEPT !.version = v])
       ELSE UNCHANGED <<panes, latest>>
    /\ UNCHANGED <<issued, ledger, sweepers, history>>

(* DELETE /v1/panes/:id closes. (Its attachments are deleted by            *)
(* Attachments, its event is appended by EventLog.)                        *)
Close(r) ==
    /\ job[r].step = "close" /\ Done(r)
    /\ IF job[r].pane \in Rows
       THEN Update(job[r].pane, [panes[job[r].pane] EXCEPT !.open = FALSE, !.lapsed = TRUE])
       ELSE UNCHANGED panes
    /\ UNCHANGED <<issued, latest, ledger, sweepers, history>>

(* DELETE /v1/my-panes/:id: one transaction with the deletion log.         *)
MoveToTrash(r) ==
    /\ job[r].step = "trash" /\ Done(r)
    /\ IF job[r].pane \in Rows
       THEN /\ Update(job[r].pane, [panes[job[r].pane] EXCEPT !.trashed = TRUE, !.aged = FALSE])
            /\ Log("soft_deleted", {job[r].pane})
       ELSE UNCHANGED <<panes, ledger>>
    /\ UNCHANGED <<issued, latest, sweepers, history>>

Restore(r) ==
    /\ job[r].step = "restore" /\ Done(r)
    /\ IF job[r].pane \in Rows
       THEN /\ Update(job[r].pane, [panes[job[r].pane] EXCEPT !.trashed = FALSE, !.aged = FALSE])
            /\ Log("restored", {job[r].pane})
       ELSE UNCHANGED <<panes, ledger>>
    /\ UNCHANGED <<issued, latest, sweepers, history>>

(* Permanent deletion: the log row and the DELETE are one transaction.     *)
Purge(r) ==
    /\ job[r].step = "purge" /\ Done(r)
    /\ IF job[r].pane \in Rows
       THEN panes' = Without({job[r].pane}) /\ Log("hard_deleted", {job[r].pane})
       ELSE UNCHANGED <<panes, ledger>>
    /\ UNCHANGED <<issued, latest, sweepers, history>>

EditStep(r) ==
    \/ Load(r) \/ LoadUpgrade(r)
    \/ Patch(r) \/ Upgrade(r) \/ InlineUpgrade(r) \/ Close(r)
    \/ MoveToTrash(r) \/ Restore(r) \/ Purge(r)

-----------------------------------------------------------------------------
(* Time: expiresAt passes, and deletedAt passes the retention window.      *)
Lapse(p) ==
    /\ p \in Rows /\ ~panes[p].lapsed
    /\ Update(p, [panes[p] EXCEPT !.lapsed = TRUE])
    /\ UNCHANGED <<issued, latest, job, ledger, sweepers, history>>

Age(p) ==
    /\ p \in Rows /\ panes[p].trashed /\ ~panes[p].aged
    /\ panes[p].human \notin Immune
    /\ Update(p, [panes[p] EXCEPT !.aged = TRUE])
    /\ UNCHANGED <<issued, latest, job, ledger, sweepers, history>>

(* sweepExpiredPanes: candidates, then one transaction over their ids.     *)
TtlRead ==
    /\ ttlIds = {}
    /\ ttlIds' = {p \in Rows : panes[p].lapsed /\ ~panes[p].trashed}
    /\ ttlIds' # {}
    /\ UNCHANGED <<panes, issued, latest, job, ledger, hardIds, hardStep, history>>

(* Seeded bug: a pane that was closed is skipped. *)
TtlWriteOpen ==
    /\ ttlIds # {}
    /\ panes' = [p \in Rows |-> IF p \in ttlIds /\ panes[p].open
                                THEN [panes[p] EXCEPT !.trashed = TRUE, !.aged = FALSE]
                                ELSE panes[p]]
    /\ Log("soft_deleted", ttlIds)
    /\ ttlIds' = {}
    /\ UNCHANGED <<issued, latest, job, hardIds, hardStep, history>>

TtlWrite ==
    /\ ttlIds # {}
    /\ panes' = [p \in Rows |-> IF p \in ttlIds
                                THEN [panes[p] EXCEPT !.trashed = TRUE, !.aged = FALSE]
                                ELSE panes[p]]
    /\ Log("soft_deleted", ttlIds)
    /\ ttlIds' = {}
    /\ UNCHANGED <<issued, latest, job, hardIds, hardStep, history>>

(* sweepPanes: whichever 2 * Batch trashed rows the database returns, of  *)
(* which at most Batch that are past retention go on; the audit rows, and  *)
(* the DELETE by id. The process may stop in between.                      *)
Trashed == {p \in Rows : panes[p].trashed}
Some(n, S) == IF Cardinality(S) <= n THEN {S} ELSE {T \in SUBSET S : Cardinality(T) = n}

HardRead ==
    /\ hardStep = "read"
    /\ \E seen \in Some(2 * Batch, Trashed) :
           \E due \in Some(Batch, {p \in seen : panes[p].aged}) :
               /\ hardIds' = due
               /\ hardStep' = IF due = {} THEN "idle" ELSE "audit"
    /\ UNCHANGED <<panes, issued, latest, job, ledger, ttlIds, history>>

(* Seeded bug: rows are deleted first and audited afterwards. *)
HardAuditLater ==
    /\ hardStep = "audit" /\ hardStep' = "delete"
    /\ panes' = Without(hardIds)
    /\ UNCHANGED <<issued, latest, job, ledger, ttlIds, hardIds, history>>

HardAudit ==
    /\ hardStep = "audit" /\ hardStep' = "delete"
    /\ Log("hard_deleted", hardIds)
    /\ UNCHANGED <<panes, issued, latest, job, ttlIds, hardIds, history>>

(* Seeded bug: the pass is not re-armed once it has deleted. *)
HardDeleteOnce ==
    /\ hardStep = "delete" /\ UNCHANGED hardStep
    /\ panes' = Without(hardIds)
    /\ UNCHANGED <<issued, latest, job, ledger, ttlIds, hardIds, history>>

HardDelete ==
    /\ hardStep = "delete" /\ hardStep' = "idle"
    /\ panes' = Without(hardIds)
    /\ hardIds' = {}
    /\ UNCHANGED <<issued, latest, job, ledger, ttlIds, history>>

HardStops ==
    /\ hardStep \in {"audit", "delete"}
    /\ hardStep' = "idle" /\ hardIds' = {}
    /\ UNCHANGED <<panes, issued, latest, job, ledger, ttlIds, history>>

HardTick ==
    /\ hardStep = "idle" /\ hardStep' = "read"
    /\ UNCHANGED <<panes, issued, latest, job, ledger, ttlIds, hardIds, history>>

TtlSweep == TtlRead \/ TtlWrite
HardSweep == HardTick \/ HardRead \/ HardAudit \/ HardDelete

PanesNext ==
    \/ \E r \in Requests : CreateStep(r) \/ EditStep(r)
    \/ \E p \in PaneId : Lapse(p) \/ Age(p)
    \/ TtlSweep \/ HardSweep \/ HardStops

PanesSpec == PanesInit /\ [][PanesNext]_vars

(* The sweepers' timers re-arm after every pass, and the clock runs. A     *)
(* process that restarts again and again still lets some pass complete.    *)
PanesFair ==
    /\ \A p \in PaneId : WF_vars(Lapse(p)) /\ WF_vars(Age(p))
    /\ WF_vars(TtlRead) /\ WF_vars(TtlWrite)
    /\ WF_vars(HardTick) /\ WF_vars(HardRead) /\ SF_vars(HardAudit)
    /\ SF_vars(HardDelete)

-----------------------------------------------------------------------------
(* Whatever the interleaving, a pane leaves the table only with a          *)
(* soft_deleted and a hard_deleted row in deletion_log: trash, TTL sweep,  *)
(* purge and a sweeper that dies between its statements all keep the trail *)
(* complete.                                                               *)
DeletionTrail ==
    \A p \in 1 .. issued \ Rows :
        {<<"soft_deleted", p>>, <<"hard_deleted", p>>} \subseteq ledger

(* Concurrent creations with one context key and upgrades that move a      *)
(* keyed pane into another version never leave an owner with two rows of   *)
(* one (version, key), which the dedup lookup would pick from at random.   *)
KeyHeldOnce ==
    \A p, q \in Rows : p \in Keyed(panes[q].version, panes[q].human, panes[q].key) => p = q

(* An agent that POST /v1/panes answered with a pane, its own or one found *)
(* by context key before or after a lost race, is a participant of it for  *)
(* as long as the pane exists.                                             *)
AnsweredAgentsHold ==
    \A x \in answered : x[2] \in Rows => x[1] \in panes[x[2]].agents

(* No two requests are given a token for the same agent on the same pane,  *)
(* although each looks for a participant before it creates one.            *)
OneTokenPerAgent == \A x \in Agents \X PaneId : tokens[x] <= 1

(* A pane never stays live for ever: it lapses, is closed or trashed, and  *)
(* the TTL sweeper puts back what was restored.                            *)
PanesEndInTrash == <>[](\A p \in Rows : panes[p].trashed)

(* A trashed pane whose retention has passed is purged or restored, as     *)
(* long as the batch sees every trashed row.                               *)
DueIsPurged ==
    \A p \in PaneId : (p \in Rows /\ panes[p].aged) ~> (p \notin Rows \/ ~panes[p].aged)

(* Does not hold: a pane is restored between the sweeper's (or a purge     *)
(* request's) read and its DELETE, and is deleted although it is live.     *)
OnlyTrashedArePurged ==
    [][\A p \in Rows : p \notin Rows' => panes[p].trashed]_vars

(* What creations, edits and both sweepers keep of a pane, its key and its *)
(* agents.                                                                 *)
PanesInv ==
    /\ PanesTypeOK /\ DeletionTrail /\ KeyHeldOnce
    /\ AnsweredAgentsHold /\ OneTokenPerAgent

(* A pane ends in the trash, and the trash is emptied.                     *)
PanesEnd == PanesEndInTrash /\ DueIsPurged
=============================================================================
