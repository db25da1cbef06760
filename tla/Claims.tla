------------------------------- MODULE Claims -------------------------------
(* How an agent gets its owner                                             *)
(* (packages/relay/src/http/routes/agents.ts, self.ts, register.ts and     *)
(* http/auth.ts).                                                          *)
(*                                                                         *)
(* An agent registers without an owner and may create panes, also several  *)
(* with one context key. A human mints claim codes; POST /agents/claim     *)
(* reads the agent when it authenticates, then the code, and moves both,   *)
(* with the agent's panes, in a transaction of five awaited statements.    *)
(* On Postgres each statement reads what is committed when it runs; what   *)
(* the transaction has written is seen by nobody before its commit, and    *)
(* who wants to write the same row or index entry waits. Panes carry the   *)
(* owner that was read when their creation authenticated.                  *)
(***************************************************************************)
EXTENDS Naturals, FiniteSets

CONSTANTS
    Workers,      \* agents
    Owners,       \* humans
    Nobody,
    Codes, Claimers, Makers,
    ContextKeys, NoContext,
    MaxRow        \* bound of the model: panes ever created

ASSUME ClaimsAssumption ==
    /\ Nobody \notin Owners /\ NoContext \notin ContextKeys /\ MaxRow \in Nat

VARIABLES
    owner,        \* Agent.ownerHumanId
    code,         \* claim_codes: state and human
    paneRow,      \* panes: agent, owner, key, rank (2 if not trashed, +1 if open)
    claim,        \* requests to POST /v1/agents/claim: the next statement, the panes
                  \* written and not yet committed, those it will write, and those
                  \* with a key it found open and not trashed
    maker,        \* requests to POST /v1/panes
    claimedWith   \* history: <<code, agent>> answered with ok

claimVars == <<owner, code, paneRow, claim, maker, claimedWith>>

Ids == 1 .. MaxRow

\* Before, in and after the transaction; the code is locked from the second of its
\* statements on, the agent's row from the third.
WithCode == {"bind", "unkeyed", "find", "write", "commit"}
WithAgent == WithCode \ {"bind"}
ClaimSteps == {"auth", "code", "consume"} \cup WithCode \cup {"done", "failed"}

ClaimsTypeOK ==
    /\ owner \in [Workers -> Owners \cup {Nobody}]
    /\ code \in [Codes -> [state : {"new", "live", "expired", "used", "gone"},
                           human : Owners]]
    /\ DOMAIN paneRow \subseteq Ids
    /\ \A p \in DOMAIN paneRow :
           paneRow[p] \in [agent : Workers, owner : Owners \cup {Nobody},
                       key : ContextKeys \cup {NoContext}, rank : 0 .. 3]
    /\ claim \in [Claimers -> [step : ClaimSteps, agent : Workers, code : Codes,
                               moved : SUBSET Ids, winners : SUBSET Ids,
                               found : SUBSET Ids]]
    /\ maker \in [Makers -> [step : {"auth", "insert", "done"}, agent : Workers,
                             owner : Owners \cup {Nobody}]]
    /\ claimedWith \subseteq Codes \X Workers

ClaimsInit ==
    /\ owner = [a \in Workers |-> Nobody]
    /\ code \in [Codes -> [state : {"new"}, human : Owners]]
    /\ paneRow = [p \in {} |-> p]
    /\ claim \in [Claimers -> [step : {"auth"}, agent : Workers, code : Codes,
                               moved : {{}}, winners : {{}}, found : {{}}]]
    /\ maker \in [Makers -> [step : {"auth"}, agent : Workers, owner : {Nobody}]]
    /\ claimedWith = {}

-----------------------------------------------------------------------------
(* POST /v1/self/claim-codes, the end of its life, and sweepAuthTokens.    *)
MintCode(c) ==
    /\ code[c].state = "new"
    /\ code' = [code EXCEPT ![c].state = "live"]
    /\ UNCHANGED <<owner, paneRow, claim, maker, claimedWith>>

CodeExpires(c) ==
    /\ code[c].state = "live"
    /\ code' = [code EXCEPT ![c].state = "expired"]
    /\ UNCHANGED <<owner, paneRow, claim, maker, claimedWith>>

(* Seeded bug: a swept code is marked and stays. *)
SweepCodeMarked(c) ==
    /\ code[c].state \in {"expired", "used"}
    /\ code' = [code EXCEPT ![c].state = "swept"]
    /\ UNCHANGED <<owner, paneRow, claim, maker, claimedWith>>

SweepCode(c) ==
    /\ code[c].state \in {"expired", "used"}
    /\ \A r \in Claimers : claim[r].code = c => claim[r].step \notin WithCode
    /\ code' = [code EXCEPT ![c].state = "gone"]
    /\ UNCHANGED <<owner, paneRow, claim, maker, claimedWith>>

-----------------------------------------------------------------------------
(* requireAgent reads the row; an owned agent is refused.                  *)
Authenticate(r) ==
    /\ claim[r].step = "auth"
    /\ claim' = [claim EXCEPT ![r].step =
                    IF owner[claim[r].agent] = Nobody THEN "code" ELSE "done"]
    /\ UNCHANGED <<owner, code, paneRow, maker, claimedWith>>

ReadCode(r) ==
    /\ claim[r].step = "code"
    /\ claim' = [claim EXCEPT ![r].step =
                    IF code[claim[r].code].state = "live" THEN "consume" ELSE "done"]
    /\ UNCHANGED <<owner, code, paneRow, maker, claimedWith>>

Unowned(a, k) ==
    {p \in DOMAIN paneRow : /\ paneRow[p].agent = a /\ paneRow[p].owner = Nobody
                            /\ paneRow[p].key = k}

Keyed(a) == UNION {Unowned(a, k) : k \in ContextKeys}

(* Seeded bug: every keyed pane of the agent is moved. *)
WinnersAll(a) == Keyed(a)

(* Of the panes of each key the newest of the highest rank. Seeded bug:    *)
(* the newest, whatever its rank.                                          *)
BeatsByAge(p, q) == p > q
Beats(p, q) ==
    \/ paneRow[p].rank > paneRow[q].rank
    \/ paneRow[p].rank = paneRow[q].rank /\ p > q
Winners(a) ==
    {p \in DOMAIN paneRow : \E k \in ContextKeys :
         p \in Unowned(a, k) /\ \A q \in Unowned(a, k) \ {p} : Beats(p, q)}

(* The unique index over (template version, owner, key).                   *)
SlotsFree(h, moved) ==
    \A p \in moved, q \in DOMAIN paneRow :
        p # q /\ paneRow[p].key # NoContext /\ paneRow[q].key = paneRow[p].key
            => paneRow[q].owner # h /\ q \notin moved

(* An uncommitted move holds the index entry of the human's key.           *)
SlotHeld(h, k) ==
    \E x \in Claimers : code[claim[x].code].human = h
                        /\ \E q \in claim[x].moved : paneRow[q].key = k

(* Seeded bug: the code is consumed without looking at consumedAt. *)
ConsumableAlways(c) == TRUE
Consumable(c) == code[c].state \in {"live", "expired"}

Ended(r, step) ==
    claim' = [claim EXCEPT ![r].step = step, ![r].moved = {}, ![r].winners = {},
                           ![r].found = {}]

-----------------------------------------------------------------------------
(* The transaction, one action for each statement. A code, an agent or an  *)
(* index entry that another one has written is waited for.                 *)
ConsumeCode(r) ==
    LET c == claim[r].code IN
    /\ claim[r].step = "consume"
    /\ \A x \in Claimers \ {r} : claim[x].code = c => claim[x].step \notin WithCode
    /\ claim' = [claim EXCEPT ![r].step = IF Consumable(c) THEN "bind" ELSE "done"]
    /\ UNCHANGED <<owner, code, paneRow, maker, claimedWith>>

(* The owner is overwritten without being looked at.                       *)
Bind(r) ==
    /\ claim[r].step = "bind"
    /\ \A x \in Claimers : claim[x].agent = claim[r].agent => claim[x].step \notin WithAgent
    /\ claim' = [claim EXCEPT ![r].step = "unkeyed"]
    /\ UNCHANGED <<owner, code, paneRow, maker, claimedWith>>

MoveUnkeyed(r) ==
    /\ claim[r].step = "unkeyed"
    /\ claim' = [claim EXCEPT ![r].step = "find",
                              ![r].moved = Unowned(claim[r].agent, NoContext)]
    /\ UNCHANGED <<owner, code, paneRow, maker, claimedWith>>

FindKeyed(r) ==
    LET a == claim[r].agent IN
    /\ claim[r].step = "find"
    /\ claim' = [claim EXCEPT ![r].step = "write", ![r].winners = Winners(a),
                  ![r].found = {p \in Keyed(a) : paneRow[p].rank = 3}]
    /\ UNCHANGED <<owner, code, paneRow, maker, claimedWith>>

(* The winners of the answer are written by their ids; a P2002 rolls all   *)
(* of it back.                                                             *)
WriteKeyed(r) ==
    LET h == code[claim[r].code].human IN
    /\ claim[r].step = "write"
    /\ \A p \in claim[r].winners : ~SlotHeld(h, paneRow[p].key)
    /\ IF SlotsFree(h, claim[r].winners)
       THEN claim' = [claim EXCEPT ![r].step = "commit", ![r].moved = @ \cup claim[r].winners]
       ELSE Ended(r, "done")
    /\ UNCHANGED <<owner, code, paneRow, maker, claimedWith>>

Commit(r) ==
    LET a == claim[r].agent  c == claim[r].code  h == code[c].human IN
    /\ claim[r].step = "commit"
    /\ Ended(r, "done")
    /\ code' = [code EXCEPT ![c].state = "used"]
    /\ owner' = [owner EXCEPT ![a] = h]
    /\ paneRow' = [p \in DOMAIN paneRow |->
                      IF p \in claim[r].moved
                      THEN [paneRow[p] EXCEPT !.owner = h] ELSE paneRow[p]]
    /\ claimedWith' = claimedWith \cup {<<c, a>>}
    /\ UNCHANGED maker

(* The transaction times out, meets a deadlock or dies with its process.   *)
ClaimAborts(r) ==
    /\ claim[r].step \in WithCode
    /\ Ended(r, "failed")
    /\ UNCHANGED <<owner, code, paneRow, maker, claimedWith>>

ClaimStep(r) ==
    \/ Authenticate(r) \/ ReadCode(r)
    \/ ConsumeCode(r) \/ Bind(r) \/ MoveUnkeyed(r) \/ FindKeyed(r) \/ WriteKeyed(r)
    \/ Commit(r) \/ ClaimAborts(r)

-----------------------------------------------------------------------------
(* POST /v1/panes, as far as ownership goes: an owner's keyed pane is      *)
(* found, or refused by the index; without an owner it is just inserted.   *)
AuthenticateMaker(m) ==
    /\ maker[m].step = "auth"
    /\ maker' = [maker EXCEPT ![m].step = "insert", ![m].owner = owner[maker[m].agent]]
    /\ UNCHANGED <<owner, code, paneRow, claim, claimedWith>>

InsertPane(m) ==
    LET h == maker[m].owner  next == Cardinality(DOMAIN paneRow) + 1 IN
    /\ maker[m].step = "insert"
    /\ maker' = [maker EXCEPT ![m].step = IF next < MaxRow THEN "auth" ELSE "done"]
    /\ \E k \in ContextKeys \cup {NoContext} :
         /\ h # Nobody /\ k # NoContext => ~SlotHeld(h, k)
         /\ IF next > MaxRow \/ (h # Nobody /\ k # NoContext
                  /\ \E p \in DOMAIN paneRow : paneRow[p].owner = h /\ paneRow[p].key = k)
           THEN UNCHANGED paneRow
           ELSE paneRow' = [p \in DOMAIN paneRow \cup {next} |->
                    IF p = next
                    THEN [agent |-> maker[m].agent, owner |-> h, key |-> k, rank |-> 3]
                    ELSE paneRow[p]]
    /\ UNCHANGED <<owner, code, claim, claimedWith>>

MakerStep(m) == AuthenticateMaker(m) \/ InsertPane(m)

(* An unowned pane is closed, trashed by the TTL sweep, or restored by the *)
(* human who owns its agent; what a claim has moved is locked. Nobody      *)
(* looks at the rank of a pane that is owned or has no key: it stays.      *)
Rerank(p, rank) ==
    /\ paneRow[p].owner = Nobody /\ paneRow[p].key # NoContext
    /\ \A r \in Claimers : p \notin claim[r].moved
    /\ paneRow' = [paneRow EXCEPT ![p].rank = rank]
    /\ UNCHANGED <<owner, code, claim, maker, claimedWith>>

Close(p) ==
    p \in DOMAIN paneRow /\ paneRow[p].rank = 3 /\ Rerank(p, 2)

Trash(p) ==
    p \in DOMAIN paneRow /\ paneRow[p].rank \in {2, 3} /\ Rerank(p, paneRow[p].rank - 2)

Restore(p) ==
    /\ p \in DOMAIN paneRow /\ paneRow[p].rank \in {0, 1}
    /\ owner[paneRow[p].agent] # Nobody
    /\ Rerank(p, paneRow[p].rank + 2)

ClaimsNext ==
    \/ \E c \in Codes : MintCode(c) \/ CodeExpires(c) \/ SweepCode(c)
    \/ \E r \in Claimers : ClaimStep(r)
    \/ \E m \in Makers : MakerStep(m)
    \/ \E p \in Ids : Close(p) \/ Trash(p) \/ Restore(p)

ClaimsSpec == ClaimsInit /\ [][ClaimsNext]_claimVars

-----------------------------------------------------------------------------
(* A claim code makes one agent its human's, also when two agents present  *)
(* it at once and while the sweeper collects it.                           *)
CodeClaimsOnce ==
    \A x, y \in claimedWith : x[1] = y[1] => x = y

(* However many panes an unclaimed agent has created under one key, they   *)
(* never stand in the way of its claim: the transaction that holds a valid *)
(* code and writes its winners fails only on a pane its human already has  *)
(* under that key, through another agent or from an earlier claim.         *)
ClaimIsNotBlocked ==
    [][\A r \in Claimers :
           claim[r].step = "write" /\ claim'[r].step = "done" =>
               \E p \in claim[r].winners, q \in DOMAIN paneRow :
                   /\ paneRow[q].owner = code[claim[r].code].human
                   /\ paneRow[q].key = paneRow[p].key /\ paneRow[q].key # NoContext]_claimVars

(* For each pane with a key that was open when the claim looked, that pane *)
(* or another that was open then and has its key belongs to the human when *)
(* the claim commits: what is left behind is debris, or came later, or the *)
(* one that followed was closed while the claim ran.                       *)
CurrentWhenReadFollows ==
    [][\A r \in Claimers :
           claim[r].step = "commit" /\ claim'[r].step = "done" =>
               \A p \in claim[r].found : \E q \in claim[r].found :
                   /\ paneRow[q].agent = claim[r].agent /\ paneRow[q].key = paneRow[p].key
                   /\ paneRow'[q].owner = code[claim[r].code].human]_claimVars

(* Does not hold: of the panes of a key that are open throughout, one      *)
(* follows. If the winner is closed or trashed between the findMany and    *)
(* the updateMany, it is moved all the same, and the one that is open then *)
(* stays behind without an owner (agents.ts:112-113 calls it debris).      *)
CurrentPaneFollows ==
    [][\A r \in Claimers :
           claim[r].step = "commit" /\ claim'[r].step = "done" =>
               \A p \in {x \in claim[r].found : paneRow[x].rank = 3} :
                   \E q \in claim[r].found :
                       /\ paneRow[q].rank = 3 /\ paneRow[q].key = paneRow[p].key
                       /\ paneRow'[q].owner = code[claim[r].code].human]_claimVars

(* agents.ts says "Once an agent is owned, it stays owned". Does not hold: *)
(* two claims with the codes of two humans both find it unowned, and the   *)
(* second overwrites the first.                                            *)
OwnedStaysOwned ==
    [][\A a \in Workers : owner[a] # Nobody => owner'[a] = owner[a]]_claimVars

(* A claim happens once, is not blocked and takes the panes along.         *)
ClaimsAreSound ==
    [](ClaimsTypeOK /\ CodeClaimsOnce) /\ ClaimIsNotBlocked /\ CurrentWhenReadFollows
=============================================================================
