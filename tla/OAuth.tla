-------------------------------- MODULE OAuth --------------------------------
(* The authorization server of the MCP connector and the key of the agent  *)
(* behind it (packages/relay/src/http/routes/oauth.ts, mcp/oauth.ts and    *)
(* the key routes of self.ts), for one human and one client.               *)
(*                                                                         *)
(* A consent is used once and provisions an agent, or reuses the oldest    *)
(* one; its API key is sealed into the agent and into every token. A code  *)
(* is exchanged once for a pair of tokens, a refresh replaces the pair.    *)
(* Nothing here is one transaction except the two rows of a pair.          *)
(***************************************************************************)
EXTENDS Naturals, FiniteSets

CONSTANTS
    Consents,     \* pending authorizations, each shown to the human once
    Decisions,    \* requests to POST /oauth/authorize/decision
    Exchanges,    \* requests to POST /oauth/token
    Revokers,     \* requests to POST /oauth/revoke
    NoConsent, NoKey,
    MaxKey, MaxPair  \* bounds of the model

ASSUME OAuthAssumption ==
    /\ MaxKey \in Nat \ {0} /\ MaxPair \in Nat
    /\ NoConsent \notin Consents /\ NoKey \notin Nat

VARIABLES
    consent,      \* state of each oauth_pending_authorizations row
    connector,    \* the claude-mcp agents, oldest first: key hash, sealed copy;
                  \* history: how the key they once had was replaced
    keysMade,     \* keys generated so far
    decision,     \* requests
    authCode,     \* oauth_auth_codes, one per decision
    handover,     \* pendingAgentKeys, in memory
    pair,         \* oauth_tokens, two rows each
    exchange, revoker,
    codeOf,       \* history: consent of each issued code
    cut           \* history: pairs whose rotation or revocation was cut short

oauthVars == <<consent, connector, keysMade, decision, authCode, handover, pair,
               exchange, revoker, codeOf, cut>>
agentState == <<connector, keysMade>>
consentState == <<consent, decision, authCode, codeOf>>

Keys == 1 .. MaxKey
Pairs == 1 .. MaxPair
Issued == DOMAIN pair
Sealed == Keys \cup {NoKey}

ConnectorRow == [hash : Keys, sealed : Sealed, revoked : BOOLEAN,
                 replaced : {"no", "healed", "rotated"}]
DecisionRow ==
    [step : {"read", "consume", "find", "heal", "create", "code", "done"},
     consent : Consents, agent : Nat, key : Sealed]
PairRow ==
    [access : {"live", "dead"}, refresh : {"live", "dead"},
     agent : Nat, key : Keys, code : Decisions, parent : 0 .. MaxPair]
ExchangeRow ==
    [step : {"new", "consume", "refresh", "access", "issue", "done"},
     code : Decisions, parent : 0 .. MaxPair, key : Sealed]

OAuthTypeOK ==
    /\ consent \in [Consents -> {"new", "live", "gone"}]
    /\ \A a \in DOMAIN connector : connector[a] \in ConnectorRow
    /\ keysMade \in 0 .. MaxKey
    /\ decision \in [Decisions -> DecisionRow]
    /\ authCode \in [Decisions -> {"none", "live", "expired", "used"}]
    /\ handover \in [Decisions -> Sealed]
    /\ Issued \subseteq Pairs
    /\ \A p \in Issued : pair[p] \in PairRow
    /\ exchange \in [Exchanges -> ExchangeRow]
    /\ revoker \in [Revokers -> [step : {"new", "refresh", "access", "done"},
                                 pair : 0 .. MaxPair]]
    /\ codeOf \in [Decisions -> Consents \cup {NoConsent}]
    /\ cut \subseteq Pairs

OAuthInit ==
    /\ consent = [c \in Consents |-> "new"]
    /\ keysMade \in {0, 1}
    /\ connector = [a \in 1 .. keysMade |->
                        [hash |-> 1, sealed |-> NoKey, revoked |-> FALSE, replaced |-> "no"]]
    /\ decision \in [Decisions -> [step : {"read"}, consent : Consents, agent : {0},
                                   key : {NoKey}]]
    /\ authCode = [d \in Decisions |-> "none"]
    /\ handover = [d \in Decisions |-> NoKey]
    /\ pair = [p \in {} |-> p]
    /\ exchange \in [Exchanges -> [step : {"new"}, code : Decisions, parent : {0},
                                   key : {NoKey}]]
    /\ revoker = [r \in Revokers |-> [step |-> "new", pair |-> 0]]
    /\ codeOf = [d \in Decisions |-> NoConsent]
    /\ cut = {}

-----------------------------------------------------------------------------
(* GET /oauth/authorize, and the record's expiry.                          *)
Authorize(c) ==
    /\ consent[c] = "new" /\ consent' = [consent EXCEPT ![c] = "live"]
    /\ UNCHANGED <<agentState, decision, authCode, handover, pair, exchange, revoker,
                   codeOf, cut>>

(* Seeded bug: an expired record is marked and stays. *)
ConsentExpiresMarked(c) ==
    /\ consent[c] = "live" /\ consent' = [consent EXCEPT ![c] = "expired"]
    /\ UNCHANGED <<agentState, decision, authCode, handover, pair, exchange, revoker,
                   codeOf, cut>>

ConsentExpires(c) ==
    /\ consent[c] = "live" /\ consent' = [consent EXCEPT ![c] = "gone"]
    /\ UNCHANGED <<agentState, decision, authCode, handover, pair, exchange, revoker,
                   codeOf, cut>>

(* POST /oauth/authorize/decision.                                         *)
ReadConsent(d) ==
    /\ decision[d].step = "read" /\ consent[decision[d].consent] = "live"
    /\ decision' = [decision EXCEPT ![d].step = "consume"]
    /\ UNCHANGED <<consent, agentState, authCode, handover, pair, exchange, revoker,
                   codeOf, cut>>

(* Seeded bug: the consent is deleted without counting.                    *)
UseConsentUncounted(d) ==
    /\ decision[d].step = "consume"
    /\ consent' = [consent EXCEPT ![decision[d].consent] = "gone"]
    /\ decision' = [decision EXCEPT ![d].step = "find"]
    /\ UNCHANGED <<agentState, authCode, handover, pair, exchange, revoker, codeOf, cut>>

(* deleteMany; "deny" ends here.                                           *)
UseConsent(d) ==
    LET c == decision[d].consent IN
    /\ decision[d].step = "consume"
    /\ \E allow \in BOOLEAN :
           decision' = [decision EXCEPT ![d].step =
               IF consent[c] = "live" /\ allow THEN "find" ELSE "done"]
    /\ consent' = [consent EXCEPT ![c] = "gone"]
    /\ UNCHANGED <<agentState, authCode, handover, pair, exchange, revoker, codeOf, cut>>

(* provisionMcpAgent: the oldest agent that is not revoked.                *)
Usable == {a \in DOMAIN connector : ~connector[a].revoked}
Oldest(a) == a \in Usable /\ \A b \in Usable : a <= b

FindAgent(d) ==
    /\ decision[d].step = "find"
    /\ IF Usable = {}
       THEN decision' = [decision EXCEPT ![d].step = "create"]
       ELSE \E a \in Usable : Oldest(a) /\
                decision' = [decision EXCEPT ![d].agent = a,
                    ![d].key = connector[a].sealed,
                    ![d].step = IF connector[a].sealed = NoKey THEN "heal" ELSE "code"]
    /\ UNCHANGED <<consent, agentState, authCode, handover, pair, exchange, revoker,
                   codeOf, cut>>

(* An agent of before the sealed copy gets a new key. Seeded bug: the key  *)
(* is not sealed into the agent.                                           *)
HealUnsealed(d) ==
    LET a == decision[d].agent  k == keysMade + 1 IN
    /\ decision[d].step = "heal" /\ k \in Keys
    /\ keysMade' = k
    /\ connector' = [connector EXCEPT ![a].hash = k]
    /\ decision' = [decision EXCEPT ![d].key = k, ![d].step = "code"]
    /\ UNCHANGED <<consent, authCode, handover, pair, exchange, revoker, codeOf, cut>>

HealAgent(d) ==
    LET a == decision[d].agent  k == keysMade + 1 IN
    /\ decision[d].step = "heal" /\ k \in Keys
    /\ keysMade' = k
    /\ connector' = [connector EXCEPT ![a].hash = k, ![a].sealed = k, ![a].replaced =
                      IF @ = "no" /\ connector[a].sealed # NoKey THEN "healed" ELSE @]
    /\ decision' = [decision EXCEPT ![d].key = k, ![d].step = "code"]
    /\ UNCHANGED <<consent, authCode, handover, pair, exchange, revoker, codeOf, cut>>

CreateAgent(d) ==
    LET a == Cardinality(DOMAIN connector) + 1  k == keysMade + 1 IN
    /\ decision[d].step = "create" /\ k \in Keys
    /\ keysMade' = k
    /\ connector' = [b \in DOMAIN connector \cup {a} |->
           IF b = a THEN [hash |-> k, sealed |-> k, revoked |-> FALSE,
                        replaced |-> "no"] ELSE connector[b]]
    /\ decision' = [decision EXCEPT ![d].agent = a, ![d].key = k, ![d].step = "code"]
    /\ UNCHANGED <<consent, authCode, handover, pair, exchange, revoker, codeOf, cut>>

IssueCode(d) ==
    /\ decision[d].step = "code"
    /\ decision' = [decision EXCEPT ![d].step = "done"]
    /\ authCode' = [authCode EXCEPT ![d] = "live"]
    /\ handover' = [handover EXCEPT ![d] = decision[d].key]
    /\ codeOf' = [codeOf EXCEPT ![d] = decision[d].consent]
    /\ UNCHANGED <<consent, agentState, pair, exchange, revoker, cut>>

Decide(d) == ReadConsent(d) \/ UseConsent(d) \/ FindAgent(d) \/ HealAgent(d)
                 \/ CreateAgent(d) \/ IssueCode(d)

AuthCodeExpires(d) ==
    /\ authCode[d] = "live" /\ authCode' = [authCode EXCEPT ![d] = "expired"]
    /\ UNCHANGED <<consent, agentState, decision, handover, pair, exchange, revoker,
                   codeOf, cut>>

-----------------------------------------------------------------------------
(* exchangeCode: client, redirect and PKCE are right, or it ends there.    *)
ReadAuthCode(x) ==
    /\ exchange[x].step = "new" /\ authCode[exchange[x].code] = "live"
    /\ exchange' = [exchange EXCEPT ![x].step = "consume"]
    /\ UNCHANGED <<consentState, agentState, handover, pair, revoker, cut>>

CodeUnused(d) == authCode[d] \in {"live", "expired"}

(* The UPDATE decides; the key is then taken out of memory. Without it the *)
(* client has to authorize again.                                          *)
UseAuthCode(x) ==
    LET d == exchange[x].code IN
    /\ exchange[x].step = "consume"
    /\ IF CodeUnused(d)
       THEN /\ authCode' = [authCode EXCEPT ![d] = "used"]
            /\ handover' = [handover EXCEPT ![d] = NoKey]
            /\ exchange' = [exchange EXCEPT ![x].key = handover[d],
                   ![x].step = IF handover[d] = NoKey THEN "done" ELSE "issue"]
       ELSE /\ exchange' = [exchange EXCEPT ![x].step = "done"]
            /\ UNCHANGED <<authCode, handover>>
    /\ UNCHANGED <<consent, decision, codeOf, agentState, pair, revoker, cut>>

(* exchangeRefresh: the row, its revocation, and that of the access token. *)
ReadRefresh(x) ==
    /\ exchange[x].step = "new"
    /\ \E p \in Issued :
           /\ pair[p].refresh = "live"
           /\ exchange' = [exchange EXCEPT ![x] =
                  [step |-> "refresh", code |-> pair[p].code, parent |-> p,
                   key |-> pair[p].key]]
    /\ UNCHANGED <<consentState, agentState, handover, pair, revoker, cut>>

RevokeRefresh(x) ==
    /\ exchange[x].step = "refresh"
    /\ pair' = [pair EXCEPT ![exchange[x].parent].refresh = "dead"]
    /\ exchange' = [exchange EXCEPT ![x].step = "access"]
    /\ UNCHANGED <<consentState, agentState, handover, revoker, cut>>

(* Seeded bug: the access token of the old pair is left to expire.         *)
RevokeAccessSkipped(x) ==
    /\ exchange[x].step = "access"
    /\ exchange' = [exchange EXCEPT ![x].step = "issue"]
    /\ UNCHANGED <<consentState, agentState, handover, pair, revoker, cut>>

RevokeAccess(x) ==
    /\ exchange[x].step = "access"
    /\ pair' = [pair EXCEPT ![exchange[x].parent].access = "dead"]
    /\ exchange' = [exchange EXCEPT ![x].step = "issue"]
    /\ UNCHANGED <<consentState, agentState, handover, revoker, cut>>

(* issueTokenPair, one transaction.                                        *)
IssuePair(x) ==
    LET p == Cardinality(Issued) + 1  d == exchange[x].code IN
    /\ exchange[x].step = "issue" /\ p \in Pairs
    /\ pair' = [q \in Issued \cup {p} |->
           IF q = p THEN [access |-> "live", refresh |-> "live",
                          agent |-> decision[d].agent, key |-> exchange[x].key,
                          code |-> d, parent |-> exchange[x].parent]
                    ELSE pair[q]]
    /\ exchange' = [exchange EXCEPT ![x].step = "done"]
    /\ UNCHANGED <<consentState, agentState, handover, revoker, cut>>

Exchange(x) == ReadAuthCode(x) \/ UseAuthCode(x) \/ ReadRefresh(x) \/ RevokeRefresh(x)
                   \/ RevokeAccess(x) \/ IssuePair(x)

(* POST /oauth/revoke with an access token, or with a refresh token, whose *)
(* access token is revoked next.                                           *)
ReadToken(r) ==
    /\ revoker[r].step = "new"
    /\ \E p \in Issued :
           /\ pair[p].refresh = "live"
           /\ revoker' = [revoker EXCEPT ![r] = [step |-> "refresh", pair |-> p]]
    /\ UNCHANGED <<consentState, agentState, handover, pair, exchange, cut>>

RevokeToken(r) ==
    /\ revoker[r].step = "refresh"
    /\ pair' = [pair EXCEPT ![revoker[r].pair].refresh = "dead"]
    /\ revoker' = [revoker EXCEPT ![r].step = "access"]
    /\ UNCHANGED <<consentState, agentState, handover, exchange, cut>>

RevokeItsAccess(r) ==
    /\ revoker[r].step \in {"new", "access"}
    /\ \E p \in IF revoker[r].step = "new" THEN Issued ELSE {revoker[r].pair} :
           pair' = [pair EXCEPT ![p].access = "dead"]
    /\ revoker' = [revoker EXCEPT ![r].step = "done"]
    /\ UNCHANGED <<consentState, agentState, handover, exchange, cut>>

RevokeStep(r) == ReadToken(r) \/ RevokeToken(r) \/ RevokeItsAccess(r)

(* A token reaches its end of life, and the sweeper takes the row.         *)
AccessExpires(p) ==
    /\ p \in Issued /\ pair[p].access = "live"
    /\ pair' = [pair EXCEPT ![p].access = "dead"]
    /\ UNCHANGED <<consentState, agentState, handover, exchange, revoker, cut>>

(* The relay restarts: requests are gone, and the keys kept in memory.     *)
Restart ==
    /\ \E x \in Exchanges : exchange[x].step \notin {"new", "done"}
    /\ handover' = [d \in Decisions |-> NoKey]
    /\ cut' = cut \cup {exchange[x].parent : x \in {y \in Exchanges :
                            exchange[y].step \in {"refresh", "access"}}}
                  \cup {revoker[r].pair : r \in {s \in Revokers : revoker[s].step = "access"}}
    /\ exchange' = [x \in Exchanges |-> IF exchange[x].step = "new" THEN exchange[x]
                                        ELSE [exchange[x] EXCEPT !.step = "done"]]
    /\ revoker' = [r \in Revokers |-> IF revoker[r].step = "new" THEN revoker[r]
                                      ELSE [revoker[r] EXCEPT !.step = "done"]]
    /\ decision' = [d \in Decisions |-> IF decision[d].step = "read" THEN decision[d]
                                        ELSE [decision[d] EXCEPT !.step = "done"]]
    /\ UNCHANGED <<consent, agentState, authCode, pair, codeOf>>

(* POST /v1/self/agents/:id/revoke-key and rotate-key, which replaces the  *)
(* hash and leaves the sealed copy.                                        *)
RevokeKey(a) ==
    /\ a \in Usable
    /\ connector' = [connector EXCEPT ![a].revoked = TRUE]
    /\ UNCHANGED <<consentState, keysMade, handover, pair, exchange, revoker, cut>>

RotateKey(a) ==
    /\ a \in Usable /\ keysMade < MaxKey
    /\ keysMade' = keysMade + 1
    /\ connector' = [connector EXCEPT ![a].hash = keysMade + 1, ![a].replaced = "rotated"]
    /\ UNCHANGED <<consentState, handover, pair, exchange, revoker, cut>>

OAuthNext ==
    \/ \E c \in Consents : Authorize(c) \/ ConsentExpires(c)
    \/ \E d \in Decisions : Decide(d) \/ AuthCodeExpires(d)
    \/ \E x \in Exchanges : Exchange(x)
    \/ \E r \in Revokers : RevokeStep(r)
    \/ \E p \in Pairs : AccessExpires(p)
    \/ \E a \in DOMAIN connector : RevokeKey(a) \/ RotateKey(a)
    \/ Restart

OAuthSpec == OAuthInit /\ [][OAuthNext]_oauthVars

-----------------------------------------------------------------------------
(* A consent yields one code, although two clicks read it together, and a  *)
(* code one pair of tokens, although two exchanges read it together.       *)
ConsentYieldsOnce ==
    /\ \A d, e \in Decisions : codeOf[d] # NoConsent /\ codeOf[d] = codeOf[e] => d = e
    /\ \A p, q \in Issued : pair[p].parent = 0 /\ pair[q].parent = 0
                               /\ pair[p].code = pair[q].code => p = q

(* Once a refresh token is rotated or revoked, its access token is dead    *)
(* too, unless a request is still at work on the pair or a restart cut it  *)
(* short; two refreshes and a revocation may meet on one pair.             *)
BusyOn(p) ==
    \/ \E x \in Exchanges : exchange[x].step = "access" /\ exchange[x].parent = p
    \/ \E r \in Revokers : revoker[r].step = "access" /\ revoker[r].pair = p
RotatedPairIsDead ==
    \A p \in Issued : pair[p].refresh = "dead" /\ p \notin cut =>
        pair[p].access = "dead" \/ BusyOn(p)

Opens(p) == connector[pair[p].agent].hash = pair[p].key

(* Consents, exchanges, refreshes and restarts never cut a live token off  *)
(* from its agent: it opens the key the agent has, until that key is       *)
(* rotated by the human or replaced by a second healing.                   *)
LiveTokensAuthenticate ==
    \A p \in Issued :
        pair[p].access = "live" => Opens(p) \/ connector[pair[p].agent].replaced # "no"

(* The documentation: "previously-issued OAuth tokens [...] keep           *)
(* authenticating - overlapping authorize flows no longer invalidate each  *)
(* other's live tokens". Does not hold: two flows that meet an agent of    *)
(* before the sealed copy both heal it, and the first one's tokens die.    *)
OverlapKeepsTokens ==
    \A p \in Issued :
        pair[p].access = "live" => Opens(p) \/ connector[pair[p].agent].replaced = "rotated"

(* Does not hold: two refreshes read the token before either revokes it.   *)
RefreshedOnce ==
    \A p, q \in Issued : pair[p].parent # 0 /\ pair[p].parent = pair[q].parent => p = q

(* Consents, pairs and keys over all requests that meet.                   *)
OAuthInv ==
    OAuthTypeOK /\ ConsentYieldsOnce /\ RotatedPairIsDead /\ LiveTokensAuthenticate
=============================================================================
