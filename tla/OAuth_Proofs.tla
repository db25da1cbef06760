----------------------------- MODULE OAuth_Proofs -----------------------------
(* What holds of the connections of remote MCP clients, for every number   *)
(* of consents, exchanges and revocations, and of the rate limit in front  *)
(* of the relay's routes, for every number of checks, replicas and         *)
(* addresses: the inductive invariants OAuthIInv and RateIInv, the lemmas  *)
(* on their rows, and the theorems OAuthSound and RateSound.               *)
EXTENDS OAuth, RateLimit, TLAPS, FiniteSetTheorems, SequenceTheorems


(* Rows that are numbered as they come, from 1.                            *)
Numbered(S) == IsFiniteSet(S) /\ S = 1 .. Cardinality(S)

LEMMA NextNumber ==
  ASSUME NEW S, Numbered(S)
  PROVE  /\ Cardinality(S) \in Nat
         /\ Cardinality(S) + 1 \notin S
         /\ S \subseteq Nat \ {0}
         /\ Numbered(S \cup {Cardinality(S) + 1})
<1> DEFINE n == Cardinality(S)
<1>1. n \in Nat
  BY FS_CardinalityType DEF Numbered
<1>2. S = 1 .. n
  BY DEF Numbered
<1>3. S \cup {n + 1} = 1 .. (n + 1)
  BY <1>1, <1>2
<1>4. IsFiniteSet(1 .. (n + 1)) /\ Cardinality(1 .. (n + 1)) = n + 1
  BY <1>1, FS_Interval
<1>5. n + 1 \notin S /\ S \subseteq Nat \ {0}
  BY <1>1, <1>2
<1>6. IsFiniteSet(S \cup {n + 1}) /\ Cardinality(S \cup {n + 1}) = n + 1
  BY <1>3, <1>4
<1> QED BY <1>1, <1>3, <1>5, <1>6 DEF Numbered

-----------------------------------------------------------------------------
(* A decision that has passed the consent, whatever becomes of it.         *)
Past(d) ==
    decision[d].step \in {"find", "heal", "create", "code"} \/ codeOf[d] # NoConsent

(* A consent is used up by the one decision that passed it, and a code     *)
(* belongs to a decision that is over.                                     *)
ConsentsUsed ==
    /\ \A d \in Decisions : Past(d) => consent[decision[d].consent] = "gone"
    /\ \A d, e \in Decisions :
           Past(d) /\ Past(e) /\ decision[d].consent = decision[e].consent => d = e
    /\ \A d \in Decisions : codeOf[d] # NoConsent =>
           codeOf[d] = decision[d].consent /\ decision[d].step = "done"

(* An exchange that has used an authorization code and not yet issued.     *)
Firsts == {x \in Exchanges : exchange[x].step = "issue" /\ exchange[x].parent = 0}

CodesUsed ==
    /\ \A d \in Decisions : authCode[d] # "none" => decision[d].step = "done"
    /\ \A x \in Exchanges : exchange[x].step \in {"new", "consume"} => exchange[x].parent = 0
    /\ \A x \in Firsts : authCode[exchange[x].code] = "used"
    /\ \A x, y \in Firsts : exchange[x].code = exchange[y].code => x = y
    /\ \A p \in Issued : pair[p].parent = 0 => authCode[pair[p].code] = "used"
    /\ \A p \in Issued, x \in Firsts : pair[p].parent = 0 => pair[p].code # exchange[x].code
    /\ \A p, q \in Issued : pair[p].parent = 0 /\ pair[q].parent = 0
                               /\ pair[p].code = pair[q].code => p = q

(* A key that opens its agent, or did until the agent's key was replaced.  *)
Fits(a, k) ==
    /\ a \in DOMAIN connector /\ k \in Keys
    /\ connector[a].replaced = "no" => k = connector[a].hash /\ k = connector[a].sealed

(* Every key on its way to a token fits: it was handed on from the agent   *)
(* to the decision, to memory, to the exchange and to the pair.            *)
KeysFit ==
    /\ \A a \in DOMAIN connector :
           connector[a].sealed # NoKey => Fits(a, connector[a].sealed)
    /\ \A d \in Decisions :
           /\ decision[d].step = "heal" => decision[d].agent \in DOMAIN connector
           /\ decision[d].step = "code" => Fits(decision[d].agent, decision[d].key)
           /\ handover[d] # NoKey =>
                 decision[d].step = "done" /\ Fits(decision[d].agent, handover[d])
    /\ \A x \in Exchanges :
           exchange[x].step = "consume" => authCode[exchange[x].code] # "none"
    /\ \A x \in Exchanges : exchange[x].step \in {"refresh", "access", "issue"} =>
           /\ decision[exchange[x].code].step = "done"
           /\ Fits(decision[exchange[x].code].agent, exchange[x].key)
    /\ \A p \in Issued :
           /\ decision[pair[p].code].step = "done"
           /\ pair[p].agent = decision[pair[p].code].agent
           /\ Fits(pair[p].agent, pair[p].key)

(* The rows are numbered, and a request at work on a pair has one.         *)
RowsNumbered ==
    /\ Numbered(DOMAIN connector) /\ Numbered(Issued)
    /\ \A x \in Exchanges : exchange[x].step \in {"refresh", "access"} =>
           exchange[x].parent \in Issued
    /\ \A r \in Revokers : revoker[r].step \in {"refresh", "access"} =>
           revoker[r].pair \in Issued

OAuthIInv ==
    /\ OAuthTypeOK /\ RowsNumbered /\ ConsentsUsed /\ CodesUsed /\ RotatedPairIsDead
    /\ KeysFit

-----------------------------------------------------------------------------
LEMMA OAuthIInvInit == OAuthInit => OAuthIInv
<1> SUFFICES ASSUME OAuthInit PROVE OAuthIInv
  OBVIOUS
<1> USE OAuthAssumption DEF OAuthInit
<1>1. Numbered(DOMAIN connector)
  <2>1. keysMade \in Nat /\ DOMAIN connector = 1 .. keysMade
    OBVIOUS
  <2> QED BY <2>1, FS_Interval DEF Numbered
<1>2. Issued = {} /\ Numbered(Issued)
  <2>1. Issued = {}
    BY DEF Issued
  <2>2. {} = 1 .. 0
    OBVIOUS
  <2> QED BY <2>1, <2>2, FS_EmptySet DEF Numbered
<1>3. OAuthTypeOK
  BY <1>2 DEF OAuthTypeOK, Keys, Sealed, Pairs, ConnectorRow, DecisionRow, ExchangeRow
<1>4. RowsNumbered
  BY <1>1, <1>2 DEF RowsNumbered
<1>5. ConsentsUsed
  BY DEF ConsentsUsed, Past
<1>6. CodesUsed
  BY <1>2 DEF CodesUsed, Firsts
<1>7. RotatedPairIsDead
  BY <1>2 DEF RotatedPairIsDead
<1>8. KeysFit
  BY <1>2 DEF KeysFit
<1> QED BY <1>3, <1>4, <1>5, <1>6, <1>7, <1>8 DEF OAuthIInv

(* Each action keeps the types of what it writes.                          *)
LEMMA OAuthTypesStep ==
  ASSUME OAuthTypeOK, RowsNumbered, KeysFit, OAuthNext
  PROVE  OAuthTypeOK'
<1>0. /\ DOMAIN connector \subseteq Nat
      /\ Cardinality(DOMAIN connector) \in Nat
      /\ Cardinality(Issued) \in Nat
      /\ Keys \subseteq Nat /\ Keys \subseteq Sealed /\ NoKey \in Sealed
      /\ Pairs \subseteq 0 .. MaxPair
  <2>1. /\ DOMAIN connector \subseteq Nat
        /\ Cardinality(DOMAIN connector) \in Nat
    BY NextNumber DEF RowsNumbered
  <2>2. Cardinality(Issued) \in Nat
    BY NextNumber DEF RowsNumbered
  <2> QED BY <2>1, <2>2, OAuthAssumption DEF Keys, Sealed, Pairs
<1>c. /\ decision \in [Decisions -> DecisionRow]
      /\ authCode \in [Decisions -> {"none", "live", "expired", "used"}]
      /\ handover \in [Decisions -> Sealed]
      /\ codeOf \in [Decisions -> Consents \cup {NoConsent}]
  BY DEF OAuthTypeOK
<1>p. /\ \A p \in Issued : pair[p] \in PairRow
      /\ \A a \in DOMAIN connector : connector[a] \in ConnectorRow
  BY DEF OAuthTypeOK
<1>x. exchange \in [Exchanges -> ExchangeRow]
  BY DEF OAuthTypeOK
<1>1. ASSUME NEW c \in Consents, Authorize(c) \/ ConsentExpires(c) PROVE OAuthTypeOK'
  BY <1>1 DEF Authorize, ConsentExpires, OAuthTypeOK, agentState, Issued
<1>2. ASSUME NEW d \in Decisions, ReadConsent(d) \/ UseConsent(d) PROVE OAuthTypeOK'
  <2>1. decision' \in [Decisions -> DecisionRow]
    <3>1. CASE ReadConsent(d)
      BY <1>c, <3>1 DEF ReadConsent, DecisionRow
    <3>2. CASE UseConsent(d)
      BY <1>c, <3>2 DEF UseConsent, DecisionRow
    <3> QED BY <1>2, <3>1, <3>2
  <2> QED BY <1>2, <2>1 DEF ReadConsent, UseConsent, OAuthTypeOK, agentState, Issued
<1>3. ASSUME NEW d \in Decisions, FindAgent(d) PROVE OAuthTypeOK'
  <2>1. decision' \in [Decisions -> DecisionRow]
    <3>1. CASE Usable = {}
      BY <1>3, <1>c, <3>1 DEF FindAgent, DecisionRow
    <3>2. CASE Usable # {}
      <4>1. PICK a \in Usable : decision' = [decision EXCEPT ![d].agent = a,
                    ![d].key = connector[a].sealed,
                    ![d].step = IF connector[a].sealed = NoKey THEN "heal" ELSE "code"]
        BY <1>3, <3>2 DEF FindAgent
      <4>2. a \in Nat /\ connector[a].sealed \in Sealed
        BY <1>0, <1>p DEF Usable, ConnectorRow
      <4>3. [decision[d] EXCEPT !.agent = a, !.key = connector[a].sealed,
                !.step = IF connector[a].sealed = NoKey THEN "heal" ELSE "code"]
                \in DecisionRow
        BY <1>c, <4>2 DEF DecisionRow
      <4> QED BY <1>c, <4>1, <4>3
    <3> QED BY <3>1, <3>2
  <2> QED BY <1>3, <2>1 DEF FindAgent, OAuthTypeOK, agentState, Issued
<1>4. ASSUME NEW d \in Decisions, HealAgent(d) PROVE OAuthTypeOK'
  <2>1. /\ decision' \in [Decisions -> DecisionRow]
        /\ keysMade' \in 0 .. MaxKey
    BY <1>0, <1>4, OAuthAssumption DEF HealAgent, OAuthTypeOK, DecisionRow, Keys, Sealed
  <2>2. \A a \in DOMAIN connector' : connector'[a] \in ConnectorRow
    BY <1>0, <1>4 DEF HealAgent, OAuthTypeOK, ConnectorRow
  <2> QED BY <1>4, <2>1, <2>2 DEF HealAgent, OAuthTypeOK, Issued
<1>5. ASSUME NEW d \in Decisions, CreateAgent(d) PROVE OAuthTypeOK'
  <2>1. /\ decision' \in [Decisions -> DecisionRow]
        /\ keysMade' \in 0 .. MaxKey
    BY <1>0, <1>5, OAuthAssumption DEF CreateAgent, OAuthTypeOK, DecisionRow, Keys, Sealed
  <2>2. \A a \in DOMAIN connector' : connector'[a] \in ConnectorRow
    BY <1>0, <1>5 DEF CreateAgent, OAuthTypeOK, ConnectorRow
  <2> QED BY <1>5, <2>1, <2>2 DEF CreateAgent, OAuthTypeOK, Issued
<1>6. ASSUME NEW d \in Decisions, IssueCode(d) \/ AuthCodeExpires(d) PROVE OAuthTypeOK'
  <2>1. /\ decision' \in [Decisions -> DecisionRow]
        /\ handover' \in [Decisions -> Sealed]
        /\ codeOf' \in [Decisions -> Consents \cup {NoConsent}]
        /\ authCode' \in [Decisions -> {"none", "live", "expired", "used"}]
    <3>1. CASE IssueCode(d)
      <4>1. decision[d].key \in Sealed /\ decision[d].consent \in Consents
        BY <1>c DEF DecisionRow
      <4>2. decision' \in [Decisions -> DecisionRow]
        BY <1>c, <3>1 DEF IssueCode, DecisionRow
      <4> QED BY <1>c, <3>1, <4>1, <4>2 DEF IssueCode
    <3>2. CASE AuthCodeExpires(d)
      BY <1>c, <3>2 DEF AuthCodeExpires
    <3> QED BY <1>6, <3>1, <3>2
  <2> QED BY <1>6, <2>1 DEF IssueCode, AuthCodeExpires, OAuthTypeOK, agentState, Issued
<1>7. ASSUME NEW x \in Exchanges, ReadAuthCode(x) \/ UseAuthCode(x) PROVE OAuthTypeOK'
  <2>1. /\ exchange' \in [Exchanges -> ExchangeRow]
        /\ handover' \in [Decisions -> Sealed]
        /\ authCode' \in [Decisions -> {"none", "live", "expired", "used"}]
    <3>1. CASE ReadAuthCode(x)
      BY <1>c, <1>x, <3>1 DEF ReadAuthCode, ExchangeRow, consentState
    <3>2. CASE UseAuthCode(x)
      BY <1>0, <1>c, <1>x, <3>2 DEF UseAuthCode, ExchangeRow
    <3> QED BY <1>7, <3>1, <3>2
  <2> QED BY <1>7, <2>1 DEF ReadAuthCode, UseAuthCode, OAuthTypeOK, agentState,
                            consentState, Issued
<1>8. ASSUME NEW x \in Exchanges, ReadRefresh(x) PROVE OAuthTypeOK'
  <2>1. exchange' \in [Exchanges -> ExchangeRow]
    <3>1. PICK p \in Issued : exchange' = [exchange EXCEPT ![x] =
              [step |-> "refresh", code |-> pair[p].code, parent |-> p, key |-> pair[p].key]]
      BY <1>8 DEF ReadRefresh
    <3>2. pair[p].code \in Decisions /\ pair[p].key \in Sealed /\ p \in 0 .. MaxPair
      BY <1>0, <1>p DEF PairRow, OAuthTypeOK
    <3> QED BY <1>x, <3>1, <3>2 DEF ExchangeRow
  <2> QED BY <1>8, <2>1 DEF ReadRefresh, OAuthTypeOK, agentState, consentState, Issued
<1>9. ASSUME NEW x \in Exchanges, RevokeRefresh(x) \/ RevokeAccess(x) PROVE OAuthTypeOK'
  <2>1. exchange' \in [Exchanges -> ExchangeRow]
    BY <1>9, <1>x DEF RevokeRefresh, RevokeAccess, ExchangeRow
  <2>2. Issued' = Issued /\ \A p \in Issued : pair'[p] \in PairRow
    <3>1. CASE RevokeRefresh(x)
      BY <1>p, <3>1 DEF RevokeRefresh, PairRow, Issued
    <3>2. CASE RevokeAccess(x)
      BY <1>p, <3>2 DEF RevokeAccess, PairRow, Issued
    <3> QED BY <1>9, <3>1, <3>2
  <2> QED BY <1>9, <2>1, <2>2 DEF RevokeRefresh, RevokeAccess, OAuthTypeOK, agentState,
                                  consentState
<1>10. ASSUME NEW x \in Exchanges, IssuePair(x) PROVE OAuthTypeOK'
  <2>1. exchange' \in [Exchanges -> ExchangeRow]
    BY <1>10 DEF IssuePair, OAuthTypeOK, ExchangeRow
  <2>2. /\ Issued' = Issued \cup {Cardinality(Issued) + 1}
        /\ Cardinality(Issued) + 1 \in Pairs
    BY <1>10 DEF IssuePair, Issued
  <2>4. exchange[x].key \in Keys
    BY <1>10 DEF IssuePair, KeysFit, Fits
  <2>3. \A p \in Issued' : pair'[p] \in PairRow
    BY <1>10, <2>2, <2>4 DEF IssuePair, OAuthTypeOK, PairRow, ExchangeRow, DecisionRow
  <2> QED BY <1>10, <2>1, <2>2, <2>3 DEF IssuePair, OAuthTypeOK, agentState, consentState
<1>11. ASSUME NEW r \in Revokers, RevokeStep(r) PROVE OAuthTypeOK'
  <2>1. revoker' \in [Revokers -> [step : {"new", "refresh", "access", "done"},
                                   pair : 0 .. MaxPair]]
    BY <1>0, <1>11 DEF RevokeStep, ReadToken, RevokeToken, RevokeItsAccess, OAuthTypeOK
  <2>2. Issued' = Issued /\ \A p \in Issued : pair'[p] \in PairRow
    <3>1. CASE ReadToken(r)
      BY <1>p, <3>1 DEF ReadToken, Issued
    <3>2. CASE RevokeToken(r)
      BY <1>p, <3>2 DEF RevokeToken, PairRow, Issued
    <3>3. CASE RevokeItsAccess(r)
      <4>1. PICK q : pair' = [pair EXCEPT ![q].access = "dead"]
        BY <3>3 DEF RevokeItsAccess
      <4> QED BY <1>p, <4>1 DEF PairRow, Issued
    <3> QED BY <1>11, <3>1, <3>2, <3>3 DEF RevokeStep
  <2> QED BY <1>11, <2>1, <2>2 DEF RevokeStep, ReadToken, RevokeToken, RevokeItsAccess,
                                   OAuthTypeOK, agentState, consentState
<1>12. ASSUME NEW p \in Pairs, AccessExpires(p) PROVE OAuthTypeOK'
  <2>2. Issued' = Issued /\ \A q \in Issued : pair'[q] \in PairRow
    BY <1>12, <1>p DEF AccessExpires, PairRow, Issued
  <2> QED BY <1>12, <2>2 DEF AccessExpires, OAuthTypeOK, agentState, consentState
<1>13. ASSUME NEW a \in DOMAIN connector, RevokeKey(a) \/ RotateKey(a) PROVE OAuthTypeOK'
  <2>1. \A b \in DOMAIN connector' : connector'[b] \in ConnectorRow
    <3>1. CASE RevokeKey(a)
      BY <1>p, <3>1 DEF RevokeKey, ConnectorRow
    <3>2. CASE RotateKey(a)
      <4>1. keysMade + 1 \in Keys
        BY <3>2, OAuthAssumption DEF RotateKey, OAuthTypeOK, Keys
      <4> QED BY <1>p, <3>2, <4>1 DEF RotateKey, ConnectorRow
    <3> QED BY <1>13, <3>1, <3>2
  <2>2. keysMade' \in 0 .. MaxKey
    BY <1>13, OAuthAssumption DEF RevokeKey, RotateKey, OAuthTypeOK
  <2> QED BY <1>13, <2>1, <2>2 DEF RevokeKey, RotateKey, OAuthTypeOK, consentState, Issued
<1>14. ASSUME Restart PROVE OAuthTypeOK'
  <2>1. /\ exchange' \in [Exchanges -> ExchangeRow]
        /\ decision' \in [Decisions -> DecisionRow]
        /\ handover' \in [Decisions -> Sealed]
    <3>1. exchange' \in [Exchanges -> ExchangeRow]
      BY <1>x, <1>14 DEF Restart, ExchangeRow
    <3>2. decision' \in [Decisions -> DecisionRow]
      BY <1>c, <1>14 DEF Restart, DecisionRow
    <3>3. handover' \in [Decisions -> Sealed]
      BY <1>0, <1>14 DEF Restart
    <3> QED BY <3>1, <3>2, <3>3
  <2>2. revoker' \in [Revokers -> [step : {"new", "refresh", "access", "done"},
                                   pair : 0 .. MaxPair]]
    BY <1>14 DEF Restart, OAuthTypeOK
  <2>3. cut' \subseteq Pairs
    BY <1>14 DEF Restart, OAuthTypeOK, RowsNumbered
  <2> QED BY <1>14, <2>1, <2>2, <2>3 DEF Restart, OAuthTypeOK, agentState, Issued
<1> QED
  BY <1>1, <1>2, <1>3, <1>4, <1>5, <1>6, <1>7, <1>8, <1>9, <1>10, <1>11, <1>12, <1>13, <1>14
  DEF OAuthNext, Decide, Exchange

(* Rows are numbered, and none disappears from under a request.            *)
LEMMA RowsNumberedStep ==
  ASSUME OAuthTypeOK, RowsNumbered, OAuthNext
  PROVE  RowsNumbered'
<1>1. DOMAIN connector \subseteq DOMAIN connector' /\ Numbered(DOMAIN connector')
  <2>1. CASE \E d \in Decisions : CreateAgent(d)
    <3>1. DOMAIN connector' = DOMAIN connector \cup {Cardinality(DOMAIN connector) + 1}
      BY <2>1 DEF CreateAgent
    <3> QED BY <3>1, NextNumber DEF RowsNumbered
  <2>2. CASE ~\E d \in Decisions : CreateAgent(d)
    <3>1. DOMAIN connector' = DOMAIN connector
      BY <2>2 DEF OAuthNext, Authorize, ConsentExpires, Decide, ReadConsent, UseConsent,
           FindAgent, HealAgent, IssueCode, AuthCodeExpires, Exchange, ReadAuthCode,
           UseAuthCode, ReadRefresh, RevokeRefresh, RevokeAccess, IssuePair, RevokeStep,
           ReadToken, RevokeToken, RevokeItsAccess, AccessExpires, RevokeKey, RotateKey,
           Restart, agentState
    <3> QED BY <3>1 DEF RowsNumbered
  <2> QED BY <2>1, <2>2
<1>2. Issued \subseteq Issued' /\ Numbered(Issued')
  <2>1. CASE \E x \in Exchanges : IssuePair(x)
    <3>1. Issued' = Issued \cup {Cardinality(Issued) + 1}
      BY <2>1 DEF IssuePair, Issued
    <3> QED BY <3>1, NextNumber DEF RowsNumbered
  <2>2. CASE ~\E x \in Exchanges : IssuePair(x)
    <3>1. Issued' = Issued
      BY <2>2 DEF Issued, OAuthNext, Authorize, ConsentExpires, Decide, ReadConsent,
           UseConsent, FindAgent, HealAgent, CreateAgent, IssueCode, AuthCodeExpires,
           Exchange, ReadAuthCode, UseAuthCode, ReadRefresh, RevokeRefresh, RevokeAccess,
           RevokeStep, ReadToken, RevokeToken, RevokeItsAccess, AccessExpires, RevokeKey,
           RotateKey, Restart
    <3> QED BY <3>1 DEF RowsNumbered
  <2> QED BY <2>1, <2>2
<1>3. \A x \in Exchanges : exchange'[x].step \in {"refresh", "access"} =>
          exchange'[x].parent \in Issued
  <2> SUFFICES ASSUME NEW x \in Exchanges, exchange'[x].step \in {"refresh", "access"}
               PROVE  exchange'[x].parent \in Issued
    OBVIOUS
  <2>1. CASE exchange' = exchange
    BY <2>1 DEF RowsNumbered
  <2>2. CASE \E y \in Exchanges : Exchange(y)
    BY <2>2 DEF Exchange, ReadAuthCode, UseAuthCode, ReadRefresh, RevokeRefresh,
                RevokeAccess, IssuePair, RowsNumbered, OAuthTypeOK, ExchangeRow
  <2>3. CASE Restart
    BY <2>3 DEF Restart, RowsNumbered, OAuthTypeOK, ExchangeRow
  <2>4. \/ exchange' = exchange \/ Restart \/ \E y \in Exchanges : Exchange(y)
    BY DEF OAuthNext, Authorize, ConsentExpires, Decide, ReadConsent, UseConsent,
           FindAgent, HealAgent, CreateAgent, IssueCode, AuthCodeExpires, RevokeStep,
           ReadToken, RevokeToken, RevokeItsAccess, AccessExpires, RevokeKey, RotateKey
  <2> QED BY <2>1, <2>2, <2>3, <2>4
<1>4. \A r \in Revokers : revoker'[r].step \in {"refresh", "access"} =>
          revoker'[r].pair \in Issued
  <2> SUFFICES ASSUME NEW r \in Revokers, revoker'[r].step \in {"refresh", "access"}
               PROVE  revoker'[r].pair \in Issued
    OBVIOUS
  <2>1. CASE revoker' = revoker
    BY <2>1 DEF RowsNumbered
  <2>2. CASE \E q \in Revokers : RevokeStep(q)
    BY <2>2 DEF RevokeStep, ReadToken, RevokeToken, RevokeItsAccess, RowsNumbered, OAuthTypeOK
  <2>3. CASE Restart
    BY <2>3 DEF Restart, RowsNumbered, OAuthTypeOK
  <2>4. \/ revoker' = revoker \/ Restart \/ \E q \in Revokers : RevokeStep(q)
    BY DEF OAuthNext, Authorize, ConsentExpires, Decide, ReadConsent, UseConsent,
           FindAgent, HealAgent, CreateAgent, IssueCode, AuthCodeExpires, Exchange,
           ReadAuthCode, UseAuthCode, ReadRefresh, RevokeRefresh, RevokeAccess, IssuePair,
           AccessExpires, RevokeKey, RotateKey
  <2> QED BY <2>1, <2>2, <2>3, <2>4
<1> QED BY <1>1, <1>2, <1>3, <1>4 DEF RowsNumbered

(* One decision passes a consent: its DELETE finds the row, and takes it.  *)
LEMMA ConsentsStep ==
  ASSUME OAuthTypeOK, ConsentsUsed, OAuthNext
  PROVE  ConsentsUsed'
<1> USE DEF ConsentsUsed, Past
<1>1. ASSUME UNCHANGED <<consent, decision, codeOf>> PROVE ConsentsUsed'
  BY <1>1
<1>2. ASSUME NEW c \in Consents, Authorize(c) \/ ConsentExpires(c) PROVE ConsentsUsed'
  <2>1. \A k \in Consents : consent[k] = "gone" => consent'[k] = "gone"
    BY <1>2 DEF Authorize, ConsentExpires, OAuthTypeOK
  <2>2. \A d \in Decisions : decision[d].consent \in Consents
    BY DEF OAuthTypeOK, DecisionRow
  <2> QED BY <1>2, <2>1, <2>2 DEF Authorize, ConsentExpires
<1>3. ASSUME NEW d \in Decisions, UseConsent(d) PROVE ConsentsUsed'
  BY <1>3 DEF UseConsent, OAuthTypeOK, DecisionRow
(* Past the consent a decision keeps it, and is not done before its code.  *)
<1>4. ASSUME UNCHANGED <<consent, codeOf>>,
             \A d \in Decisions :
                 /\ decision'[d].consent = decision[d].consent
                 /\ Past(d)' => Past(d)
                 /\ decision[d].step = "done" => decision'[d].step = "done"
      PROVE  ConsentsUsed'
  BY <1>4
<1>5. ASSUME NEW d \in Decisions, ReadConsent(d) \/ FindAgent(d) \/ HealAgent(d)
                                     \/ CreateAgent(d)
      PROVE  ConsentsUsed'
  <2>1. UNCHANGED <<consent, codeOf>>
    BY <1>5 DEF ReadConsent, FindAgent, HealAgent, CreateAgent
  <2>2. ASSUME NEW e \in Decisions
        PROVE  /\ decision'[e].consent = decision[e].consent
               /\ Past(e)' => Past(e)
               /\ decision[e].step = "done" => decision'[e].step = "done"
    <3>1. CASE ReadConsent(d)
      BY <3>1 DEF ReadConsent, OAuthTypeOK, DecisionRow
    <3>2. CASE FindAgent(d)
      <4>1. decision \in [Decisions -> DecisionRow] /\ decision[d].step = "find"
        BY <3>2 DEF FindAgent, OAuthTypeOK
      <4>2. CASE Usable = {}
        BY <3>2, <4>1, <4>2 DEF FindAgent, DecisionRow
      <4>3. CASE Usable # {}
        <5>1. PICK a \in Usable : decision' = [decision EXCEPT ![d].agent = a,
                    ![d].key = connector[a].sealed,
                    ![d].step = IF connector[a].sealed = NoKey THEN "heal" ELSE "code"]
          BY <3>2, <4>3 DEF FindAgent
        <5>2. /\ decision'[d].consent = decision[d].consent
              /\ \A f \in Decisions : f # d => decision'[f] = decision[f]
          BY <4>1, <5>1 DEF DecisionRow
        <5>3. CASE e = d
          BY <3>2, <4>1, <5>2, <5>3 DEF FindAgent
        <5>4. CASE e # d
          BY <3>2, <5>2, <5>4 DEF FindAgent
        <5> QED BY <5>3, <5>4
      <4> QED BY <4>2, <4>3
    <3>3. CASE HealAgent(d)
      BY <3>3 DEF HealAgent, OAuthTypeOK, DecisionRow
    <3>4. CASE CreateAgent(d)
      BY <3>4 DEF CreateAgent, OAuthTypeOK, DecisionRow
    <3> QED BY <1>5, <3>1, <3>2, <3>3, <3>4
  <2> QED BY <1>4, <2>1, <2>2
<1>6. ASSUME NEW d \in Decisions, IssueCode(d) PROVE ConsentsUsed'
  BY <1>6 DEF IssueCode, OAuthTypeOK, DecisionRow
<1>7. ASSUME Restart PROVE ConsentsUsed'
  <2>1. UNCHANGED <<consent, codeOf>>
    BY <1>7 DEF Restart
  <2>2. ASSUME NEW e \in Decisions
        PROVE  /\ decision'[e].consent = decision[e].consent
               /\ Past(e)' => Past(e)
               /\ decision[e].step = "done" => decision'[e].step = "done"
    BY <1>7 DEF Restart, OAuthTypeOK, DecisionRow
  <2> QED BY <1>4, <2>1, <2>2
<1> QED
  BY <1>1, <1>2, <1>3, <1>5, <1>6, <1>7
  DEF OAuthNext, Decide, AuthCodeExpires, Exchange, ReadAuthCode, UseAuthCode, ReadRefresh,
      RevokeRefresh, RevokeAccess, IssuePair, RevokeStep, ReadToken, RevokeToken,
      RevokeItsAccess, AccessExpires, RevokeKey, RotateKey, consentState

(* What is over for a decision stays: its consent and its agent.           *)
LEMMA DoneStays ==
  ASSUME OAuthTypeOK, OAuthNext, NEW d \in Decisions, decision[d].step = "done"
  PROVE  /\ decision'[d].step = "done"
         /\ decision'[d].agent = decision[d].agent
<1>1. CASE \E e \in Decisions : Decide(e)
  <2> PICK e \in Decisions : Decide(e)
    BY <1>1
  <2>1. e # d
    BY DEF Decide, ReadConsent, UseConsent, FindAgent, HealAgent, CreateAgent, IssueCode
  <2>2. decision'[d] = decision[d]
    BY <2>1 DEF Decide, ReadConsent, UseConsent, FindAgent, HealAgent, CreateAgent,
                IssueCode, OAuthTypeOK
  <2> QED BY <2>2
<1>2. CASE Restart
  BY <1>2 DEF Restart, OAuthTypeOK, DecisionRow
<1>3. CASE decision' = decision
  BY <1>3
<1>4. decision' = decision \/ Restart \/ \E e \in Decisions : Decide(e)
  BY DEF OAuthNext, Authorize, ConsentExpires, AuthCodeExpires, Exchange, ReadAuthCode,
         UseAuthCode, ReadRefresh, RevokeRefresh, RevokeAccess, IssuePair, RevokeStep,
         ReadToken, RevokeToken, RevokeItsAccess, AccessExpires, RevokeKey, RotateKey,
         consentState
<1> QED BY <1>1, <1>2, <1>3, <1>4

(* Tokens die, but a row keeps what it was issued for.                     *)
SameRows ==
    /\ Issued' = Issued
    /\ \A p \in Issued : /\ pair'[p].agent = pair[p].agent /\ pair'[p].key = pair[p].key
                         /\ pair'[p].code = pair[p].code
                         /\ pair'[p].parent = pair[p].parent

LEMMA RowsStay ==
  ASSUME OAuthTypeOK, OAuthNext, ~\E x \in Exchanges : IssuePair(x)
  PROVE  SameRows
<1> USE DEF SameRows, Issued
<1>1. CASE pair' = pair
  BY <1>1
<1>2. CASE \E x \in Exchanges : RevokeRefresh(x) \/ RevokeAccess(x)
  BY <1>2 DEF RevokeRefresh, RevokeAccess, OAuthTypeOK, PairRow
<1>3. CASE \E r \in Revokers : RevokeToken(r)
  BY <1>3 DEF RevokeToken, OAuthTypeOK, PairRow
<1>4. CASE \E r \in Revokers : RevokeItsAccess(r)
  <2>1. PICK p : pair' = [pair EXCEPT ![p].access = "dead"]
    BY <1>4 DEF RevokeItsAccess
  <2> QED BY <2>1 DEF OAuthTypeOK, PairRow
<1>5. CASE \E p \in Pairs : AccessExpires(p)
  BY <1>5 DEF AccessExpires, OAuthTypeOK, PairRow
<1>6. \/ pair' = pair
      \/ \E x \in Exchanges : RevokeRefresh(x) \/ RevokeAccess(x)
      \/ \E r \in Revokers : RevokeToken(r) \/ RevokeItsAccess(r)
      \/ \E p \in Pairs : AccessExpires(p)
  BY DEF OAuthNext, Authorize, ConsentExpires, Decide, ReadConsent, UseConsent, FindAgent,
         HealAgent, CreateAgent, IssueCode, AuthCodeExpires, Exchange, ReadAuthCode,
         UseAuthCode, ReadRefresh, RevokeStep, ReadToken, RevokeKey, RotateKey, Restart
<1> QED BY <1>1, <1>2, <1>3, <1>4, <1>5, <1>6

(* An authorization code is used by one exchange, which issues one pair.   *)
LEMMA CodesStep ==
  ASSUME OAuthTypeOK, RowsNumbered, CodesUsed, OAuthNext
  PROVE  CodesUsed'
<1>0. 0 \notin Issued
  BY NextNumber DEF RowsNumbered
<1>1. \A d \in Decisions : authCode[d] # "none" => decision'[d].step = "done"
  BY DoneStays DEF CodesUsed
<1>2. ASSUME UNCHANGED <<authCode, exchange>>, SameRows PROVE CodesUsed'
  BY <1>1, <1>2 DEF CodesUsed, Firsts, SameRows
<1>3. ASSUME NEW d \in Decisions, IssueCode(d) PROVE CodesUsed'
  <2>1. authCode[d] = "none" /\ decision'[d].step = "done"
    BY <1>3 DEF IssueCode, CodesUsed, OAuthTypeOK, DecisionRow
  <2>2. /\ authCode'[d] = "live"
        /\ \A e \in Decisions : e # d => authCode'[e] = authCode[e]
        /\ UNCHANGED <<exchange, pair>>
    BY <1>3 DEF IssueCode, OAuthTypeOK
  <2>3. \A x \in Exchanges : exchange[x].code \in Decisions
    BY DEF OAuthTypeOK, ExchangeRow
  <2>4. \A p \in Issued : pair[p].code \in Decisions
    BY DEF OAuthTypeOK, PairRow
  <2> QED BY <1>1, <2>1, <2>2, <2>3, <2>4 DEF CodesUsed, Firsts, Issued
<1>4. ASSUME NEW d \in Decisions, AuthCodeExpires(d) PROVE CodesUsed'
  <2>1. authCode[d] = "live" /\ authCode' = [authCode EXCEPT ![d] = "expired"]
        /\ UNCHANGED <<exchange, pair>>
    BY <1>4 DEF AuthCodeExpires
  <2>2. \A e \in Decisions : /\ authCode'[e] # "none" => authCode[e] # "none"
                             /\ authCode[e] = "used" => authCode'[e] = "used"
    BY <2>1 DEF OAuthTypeOK
  <2>3. \A x \in Exchanges : exchange[x].code \in Decisions
    BY DEF OAuthTypeOK, ExchangeRow
  <2>4. \A p \in Issued : pair[p].code \in Decisions
    BY DEF OAuthTypeOK, PairRow
  <2> QED BY <1>1, <2>1, <2>2, <2>3, <2>4 DEF CodesUsed, Firsts, Issued
(* A request that holds no used code, before and after.                    *)
<1>5. ASSUME UNCHANGED authCode, SameRows, Firsts' \subseteq Firsts,
             \A x \in Exchanges : /\ x \in Firsts' => exchange'[x].code = exchange[x].code
                                  /\ exchange'[x].step \in {"new", "consume"} =>
                                        exchange'[x].parent = 0
      PROVE  CodesUsed'
  <2>1. Firsts \subseteq Exchanges
    BY DEF Firsts
  <2> QED BY <1>1, <1>5, <2>1 DEF CodesUsed, SameRows
<1>6. ASSUME NEW x \in Exchanges, ReadAuthCode(x) PROVE CodesUsed'
  <2>1. UNCHANGED <<authCode, pair>>
    BY <1>6 DEF ReadAuthCode, consentState
  <2> QED BY <1>5, <1>6, <2>1 DEF ReadAuthCode, OAuthTypeOK, ExchangeRow, SameRows, Firsts,
                                  Issued, CodesUsed
<1>7. ASSUME NEW x \in Exchanges, ReadRefresh(x) \/ RevokeRefresh(x) \/ RevokeAccess(x)
      PROVE  CodesUsed'
  <2>1. UNCHANGED authCode /\ SameRows
    <3>1. ~\E y \in Exchanges : IssuePair(y)
      BY <1>7 DEF IssuePair, ReadRefresh, RevokeRefresh, RevokeAccess, OAuthTypeOK, ExchangeRow
    <3> QED BY <1>7, <3>1, RowsStay DEF ReadRefresh, RevokeRefresh, RevokeAccess, consentState
  <2>2. \A y \in Exchanges : y # x => exchange'[y] = exchange[y]
    BY <1>7 DEF ReadRefresh, RevokeRefresh, RevokeAccess, OAuthTypeOK
  <2>3. exchange'[x].step \in {"refresh", "access", "issue"} /\ exchange'[x].parent # 0
    BY <1>0, <1>7 DEF ReadRefresh, RevokeRefresh, RevokeAccess, OAuthTypeOK, ExchangeRow,
                      RowsNumbered
  <2> QED BY <1>5, <2>1, <2>2, <2>3 DEF Firsts, CodesUsed
<1>8. ASSUME NEW x \in Exchanges, UseAuthCode(x) PROVE CodesUsed'
  <2> DEFINE d == exchange[x].code
  <2>1. d \in Decisions /\ exchange[x].parent = 0 /\ exchange[x].step = "consume"
    BY <1>8 DEF UseAuthCode, OAuthTypeOK, ExchangeRow, CodesUsed
  <2>2. UNCHANGED <<pair, decision>> /\ SameRows
    BY <1>8 DEF UseAuthCode, SameRows, Issued
  <2>3. /\ \A y \in Exchanges : y # x => exchange'[y] = exchange[y]
        /\ exchange'[x].code = d /\ exchange'[x].parent = 0
        /\ exchange'[x].step \in {"done", "issue"}
    BY <1>8, <2>1 DEF UseAuthCode, OAuthTypeOK, ExchangeRow
  <2>4. CASE CodeUnused(d)
    <3>1. /\ authCode[d] \in {"live", "expired"} /\ authCode'[d] = "used"
          /\ \A e \in Decisions : e # d => authCode'[e] = authCode[e]
      BY <1>8, <2>1, <2>4 DEF UseAuthCode, OAuthTypeOK, CodeUnused
    <3>2. \A y \in Exchanges : exchange[y].code \in Decisions
      BY DEF OAuthTypeOK, ExchangeRow
    <3>3. \A p \in Issued : pair[p].code \in Decisions
      BY DEF OAuthTypeOK, PairRow
    <3> HIDE DEF d
    <3>4. x \notin Firsts /\ Firsts' \subseteq Firsts \cup {x}
      BY <2>3, <2>1 DEF Firsts
    <3>5. \A y \in Firsts : exchange[y].code # d
      BY <3>1 DEF CodesUsed
    <3>6. \A p \in Issued : pair[p].parent = 0 => pair[p].code # d
      BY <3>1 DEF CodesUsed
    <3>7. \A y \in Firsts' : y # x => y \in Firsts /\ exchange'[y].code = exchange[y].code
      BY <2>3, <3>4 DEF Firsts
    <3>8. x \in Firsts' => exchange'[x].code = d
      BY <2>3
    <3>9. /\ \A e \in Decisions : authCode'[e] # "none" => decision'[e].step = "done"
      <4>1. authCode[d] # "none"
        BY <3>1
      <4> QED BY <1>1, <2>1, <3>1, <4>1
    <3>10. \A y \in Exchanges : exchange'[y].step \in {"new", "consume"} => exchange'[y].parent = 0
      BY <2>3 DEF CodesUsed
    <3>11. \A y \in Firsts' : y \in Exchanges /\ authCode'[exchange'[y].code] = "used"
      BY <2>1, <3>1, <3>2, <3>4, <3>5, <3>7, <3>8 DEF CodesUsed, Firsts
    <3>12. \A y, z \in Firsts' : exchange'[y].code = exchange'[z].code => y = z
      BY <3>5, <3>7, <3>8 DEF CodesUsed
    <3>13. \A p \in Issued : pair[p].parent = 0 => authCode'[pair[p].code] = "used"
      BY <3>1, <3>3, <3>6 DEF CodesUsed
    <3>14. \A p \in Issued, y \in Firsts' :
               pair[p].parent = 0 => pair[p].code # exchange'[y].code
      BY <3>6, <3>7, <3>8 DEF CodesUsed
    <3> QED BY <2>2, <3>9, <3>10, <3>11, <3>12, <3>13, <3>14 DEF CodesUsed, SameRows
  <2>5. CASE ~CodeUnused(d)
    <3>1. UNCHANGED authCode /\ exchange'[x].step = "done"
      BY <1>8, <2>5 DEF UseAuthCode, OAuthTypeOK, ExchangeRow
    <3> QED BY <1>5, <2>2, <2>3, <3>1 DEF Firsts, CodesUsed
  <2> QED BY <2>4, <2>5
<1>9. ASSUME NEW x \in Exchanges, IssuePair(x) PROVE CodesUsed'
  <2> DEFINE p == Cardinality(Issued) + 1
  <2>1. p \notin Issued /\ Issued' = Issued \cup {p}
    BY <1>9, NextNumber DEF IssuePair, Issued, RowsNumbered
  <2>2. /\ pair'[p].parent = exchange[x].parent /\ pair'[p].code = exchange[x].code
        /\ \A q \in Issued : pair'[q] = pair[q]
        /\ UNCHANGED authCode
    BY <1>9, <2>1 DEF IssuePair, Issued, consentState
  <2>3. /\ \A y \in Exchanges : y # x => exchange'[y] = exchange[y]
        /\ exchange[x].step = "issue" /\ exchange'[x].step = "done"
    BY <1>9 DEF IssuePair, OAuthTypeOK, ExchangeRow
  <2> HIDE DEF p
  <2>4. Firsts' = Firsts \ {x} /\ (exchange[x].parent = 0 => x \in Firsts)
    BY <2>3 DEF Firsts
  <2>5. \A y \in Firsts' : y \in Firsts /\ y \in Exchanges /\ exchange'[y] = exchange[y]
    BY <2>3, <2>4 DEF Firsts
  <2> QED BY <1>1, <2>1, <2>2, <2>3, <2>4, <2>5 DEF CodesUsed
<1>10. ASSUME Restart PROVE CodesUsed'
  <2>1. UNCHANGED <<authCode, pair>>
    BY <1>10 DEF Restart
  <2>2. \A x \in Exchanges : \/ exchange'[x] = exchange[x] /\ exchange[x].step = "new"
                             \/ exchange'[x].step = "done"
    BY <1>10 DEF Restart, OAuthTypeOK, ExchangeRow
  <2> QED BY <1>5, <2>1, <2>2 DEF Firsts, SameRows, Issued, CodesUsed
<1>11. \/ UNCHANGED <<authCode, exchange>>
       \/ \E d \in Decisions : IssueCode(d) \/ AuthCodeExpires(d)
       \/ \E x \in Exchanges : Exchange(x)
       \/ Restart
  BY DEF OAuthNext, Authorize, ConsentExpires, Decide, ReadConsent, UseConsent, FindAgent,
         HealAgent, CreateAgent, RevokeStep, ReadToken, RevokeToken, RevokeItsAccess,
         AccessExpires, RevokeKey, RotateKey, consentState, Exchange
<1>12. UNCHANGED exchange => ~\E x \in Exchanges : IssuePair(x)
  BY DEF IssuePair, OAuthTypeOK, ExchangeRow
<1> QED
  BY <1>2, <1>3, <1>4, <1>6, <1>7, <1>8, <1>9, <1>10, <1>11, <1>12, RowsStay DEF Exchange

(* Whoever kills a refresh token goes on to the access token, or dies.     *)
LEMMA RotatedStep ==
  ASSUME OAuthTypeOK, RowsNumbered, RotatedPairIsDead, OAuthNext
  PROVE  RotatedPairIsDead'
<1>1. ASSUME UNCHANGED <<pair, cut>>, \A p \in Issued : BusyOn(p) => BusyOn(p)'
      PROVE  RotatedPairIsDead'
  BY <1>1 DEF RotatedPairIsDead, Issued
<1>2. ASSUME UNCHANGED <<pair, cut, exchange, revoker>> PROVE RotatedPairIsDead'
  BY <1>1, <1>2 DEF BusyOn
<1>3. ASSUME NEW x \in Exchanges, ReadAuthCode(x) \/ UseAuthCode(x) \/ ReadRefresh(x)
      PROVE  RotatedPairIsDead'
  <2>1. /\ UNCHANGED <<pair, cut, revoker>> /\ exchange[x].step # "access"
        /\ \A y \in Exchanges : y # x => exchange'[y] = exchange[y]
    BY <1>3 DEF ReadAuthCode, UseAuthCode, ReadRefresh, OAuthTypeOK, ExchangeRow
  <2> QED BY <1>1, <2>1 DEF BusyOn
<1>4. ASSUME NEW x \in Exchanges, RevokeRefresh(x) \/ RevokeAccess(x)
      PROVE  RotatedPairIsDead'
  <2>0. PICK q : q = exchange[x].parent
    OBVIOUS
  <2>1. q \in Issued /\ SameRows /\ UNCHANGED <<cut, revoker>>
    <3>1. ~\E y \in Exchanges : IssuePair(y)
      BY <1>4 DEF IssuePair, RevokeRefresh, RevokeAccess, OAuthTypeOK, ExchangeRow
    <3> QED BY <1>4, <2>0, <3>1, RowsStay DEF RevokeRefresh, RevokeAccess, RowsNumbered
  <2>2. \A y \in Exchanges : y # x => exchange'[y] = exchange[y]
    BY <1>4 DEF RevokeRefresh, RevokeAccess, OAuthTypeOK
  <2>3. CASE RevokeRefresh(x)
    <3>1. exchange[x].step = "refresh" /\ exchange'[x].step = "access"
          /\ exchange'[x].parent = q
      BY <2>0, <2>3 DEF RevokeRefresh, OAuthTypeOK, ExchangeRow
    <3>2. \A p \in Issued : p # q => pair'[p] = pair[p]
      BY <2>0, <2>3 DEF RevokeRefresh, Issued
    <3>3. BusyOn(q)' /\ \A p \in Issued : BusyOn(p) => BusyOn(p)'
      BY <2>1, <2>2, <3>1 DEF BusyOn
    <3> QED BY <2>1, <3>2, <3>3 DEF RotatedPairIsDead, SameRows
  <2>4. CASE RevokeAccess(x)
    <3>1. /\ pair'[q].access = "dead"
          /\ \A p \in Issued : p # q => pair'[p] = pair[p]
      <4>1. pair[q] \in PairRow /\ pair' = [pair EXCEPT ![q].access = "dead"]
        BY <2>0, <2>1, <2>4 DEF RevokeAccess, OAuthTypeOK
      <4> QED BY <2>1, <4>1 DEF Issued, PairRow
    <3>2. \A p \in Issued : p # q /\ BusyOn(p) => BusyOn(p)'
      BY <2>0, <2>1, <2>2 DEF BusyOn
    <3> QED BY <2>1, <3>1, <3>2 DEF RotatedPairIsDead, SameRows
  <2> QED BY <1>4, <2>3, <2>4
<1>5. ASSUME NEW x \in Exchanges, IssuePair(x) PROVE RotatedPairIsDead'
  <2> DEFINE p == Cardinality(Issued) + 1
  <2>1. p \notin Issued /\ Issued' = Issued \cup {p}
    BY <1>5, NextNumber DEF IssuePair, Issued, RowsNumbered
  <2>2. /\ pair'[p].refresh = "live"
        /\ \A q \in Issued : pair'[q] = pair[q]
        /\ UNCHANGED <<cut, revoker>>
    BY <1>5, <2>1 DEF IssuePair, Issued
  <2>3. /\ \A y \in Exchanges : y # x => exchange'[y] = exchange[y]
        /\ exchange[x].step = "issue"
    BY <1>5 DEF IssuePair, OAuthTypeOK
  <2> HIDE DEF p
  <2>4. \A q \in Issued : BusyOn(q) => BusyOn(q)'
    BY <2>2, <2>3 DEF BusyOn
  <2> QED BY <2>1, <2>2, <2>4 DEF RotatedPairIsDead
<1>6. ASSUME NEW r \in Revokers, ReadToken(r) PROVE RotatedPairIsDead'
  <2>1. /\ UNCHANGED <<pair, cut, exchange>> /\ revoker[r].step # "access"
        /\ \A s \in Revokers : s # r => revoker'[s] = revoker[s]
    BY <1>6 DEF ReadToken, OAuthTypeOK
  <2> QED BY <1>1, <2>1 DEF BusyOn
<1>7. ASSUME NEW r \in Revokers, RevokeToken(r) PROVE RotatedPairIsDead'
  <2>0. PICK q : q = revoker[r].pair
    OBVIOUS
  <2>1. /\ UNCHANGED <<cut, exchange>> /\ q \in Issued /\ Issued' = Issued
        /\ revoker[r].step = "refresh" /\ revoker'[r].step = "access" /\ revoker'[r].pair = q
        /\ \A s \in Revokers : s # r => revoker'[s] = revoker[s]
        /\ \A p \in Issued : p # q => pair'[p] = pair[p]
    BY <1>7, <2>0 DEF RevokeToken, OAuthTypeOK, RowsNumbered, Issued
  <2>2. BusyOn(q)' /\ \A p \in Issued : BusyOn(p) => BusyOn(p)'
    BY <2>1 DEF BusyOn
  <2> QED BY <2>1, <2>2 DEF RotatedPairIsDead
<1>8. ASSUME NEW r \in Revokers, RevokeItsAccess(r) PROVE RotatedPairIsDead'
  <2>1. PICK q \in IF revoker[r].step = "new" THEN Issued ELSE {revoker[r].pair} :
            pair' = [pair EXCEPT ![q].access = "dead"]
    BY <1>8 DEF RevokeItsAccess
  <2>2. /\ UNCHANGED <<cut, exchange>> /\ revoker[r].step \in {"new", "access"}
        /\ \A s \in Revokers : s # r => revoker'[s] = revoker[s]
    BY <1>8 DEF RevokeItsAccess, OAuthTypeOK
  <2>3. q \in Issued
    BY <2>1, <2>2 DEF RowsNumbered
  <2>4. /\ Issued' = Issued /\ pair'[q].access = "dead"
        /\ \A p \in Issued : p # q => pair'[p] = pair[p]
    BY <2>1, <2>3 DEF Issued, OAuthTypeOK, PairRow
  <2>5. \A p \in Issued : p # q /\ BusyOn(p) => BusyOn(p)'
    BY <2>1, <2>2 DEF BusyOn
  <2> QED BY <2>2, <2>4, <2>5 DEF RotatedPairIsDead
<1>9. ASSUME NEW q \in Pairs, AccessExpires(q) PROVE RotatedPairIsDead'
  <2>1. /\ Issued' = Issued /\ pair'[q].access = "dead" /\ q \in Issued
        /\ \A p \in Issued : p # q => pair'[p] = pair[p]
        /\ UNCHANGED <<cut, exchange, revoker>>
    BY <1>9 DEF AccessExpires, Issued, OAuthTypeOK, PairRow
  <2> QED BY <2>1 DEF RotatedPairIsDead, BusyOn
<1>10. ASSUME Restart PROVE RotatedPairIsDead'
  <2>1. UNCHANGED pair /\ \A p \in Issued : BusyOn(p) \/ p \in cut => p \in cut'
    BY <1>10 DEF Restart, BusyOn
  <2> QED BY <2>1 DEF RotatedPairIsDead, Issued
<1> QED
  BY <1>2, <1>3, <1>4, <1>5, <1>6, <1>7, <1>8, <1>9, <1>10
  DEF OAuthNext, Authorize, ConsentExpires, Decide, ReadConsent, UseConsent, FindAgent,
      HealAgent, CreateAgent, IssueCode, AuthCodeExpires, Exchange, RevokeStep, RevokeKey,
      RotateKey

FitsNext(a, k) ==
    /\ a \in DOMAIN connector' /\ k \in Keys
    /\ connector'[a].replaced = "no" => k = connector'[a].hash /\ k = connector'[a].sealed

(* A key that fits goes on fitting: an agent's hash changes only together  *)
(* with the note that its key was replaced.                                *)
LEMMA FitsStays ==
  ASSUME OAuthTypeOK, RowsNumbered, KeysFit, OAuthNext, NEW a, NEW k, Fits(a, k)
  PROVE  FitsNext(a, k)
<1>1. CASE UNCHANGED connector
  BY <1>1 DEF Fits, FitsNext
<1>2. ASSUME NEW d \in Decisions, HealAgent(d) PROVE FitsNext(a, k)
  <2> DEFINE b == decision[d].agent
  <2>1. b \in DOMAIN connector
    BY <1>2 DEF HealAgent, KeysFit
  <2>2. CASE a # b
    BY <1>2, <2>1, <2>2 DEF HealAgent, Fits, FitsNext
  <2>3. CASE a = b
    <3>1. connector[a].replaced = "no" => connector[a].sealed # NoKey
      BY OAuthAssumption DEF Fits, FitsNext, Keys
    <3>2. /\ a \in DOMAIN connector'
          /\ connector'[a].replaced = IF connector[a].replaced = "no"
                 /\ connector[a].sealed # NoKey THEN "healed" ELSE connector[a].replaced
      BY <1>2, <2>1, <2>3 DEF HealAgent, OAuthTypeOK, ConnectorRow
    <3>3. connector'[a].replaced # "no"
      BY <3>1, <3>2
    <3> QED BY <3>2, <3>3 DEF Fits, FitsNext
  <2> QED BY <2>2, <2>3
<1>3. ASSUME NEW d \in Decisions, CreateAgent(d) PROVE FitsNext(a, k)
  <2>1. a # Cardinality(DOMAIN connector) + 1
    BY NextNumber DEF RowsNumbered, Fits, FitsNext
  <2> QED BY <1>3, <2>1 DEF CreateAgent, Fits, FitsNext
<1>4. ASSUME NEW b \in DOMAIN connector, RevokeKey(b) \/ RotateKey(b) PROVE FitsNext(a, k)
  <2>1. a \in DOMAIN connector' /\ connector[b] \in ConnectorRow
    BY <1>4 DEF RevokeKey, RotateKey, Fits, FitsNext, OAuthTypeOK
  <2>2. CASE a # b
    BY <1>4, <2>1, <2>2 DEF RevokeKey, RotateKey, Fits, FitsNext
  <2>3. CASE a = b /\ RevokeKey(b)
    BY <2>1, <2>3 DEF RevokeKey, Fits, FitsNext, ConnectorRow
  <2>4. CASE a = b /\ RotateKey(b)
    <3>1. connector'[a].replaced = "rotated"
      BY <2>1, <2>4 DEF RotateKey, ConnectorRow
    <3> QED BY <2>1, <3>1 DEF Fits, FitsNext
  <2> QED BY <1>4, <2>2, <2>3, <2>4
<1> QED
  BY <1>1, <1>2, <1>3, <1>4
  DEF OAuthNext, Authorize, ConsentExpires, Decide, ReadConsent, UseConsent, FindAgent,
      IssueCode, AuthCodeExpires, Exchange, ReadAuthCode, UseAuthCode, ReadRefresh,
      RevokeRefresh, RevokeAccess, IssuePair, RevokeStep, ReadToken, RevokeToken,
      RevokeItsAccess, AccessExpires, Restart, agentState

(* The sealed copy of an agent's key, from which all keys are handed on.   *)
LEMMA SealedFits ==
  ASSUME OAuthTypeOK, RowsNumbered, KeysFit, OAuthNext
  PROVE  /\ DOMAIN connector \subseteq DOMAIN connector'
         /\ \A a \in DOMAIN connector' :
                connector'[a].sealed # NoKey => FitsNext(a, connector'[a].sealed)
<1> DEFINE Goal(a) == connector'[a].sealed # NoKey => FitsNext(a, connector'[a].sealed)
<1>1. CASE UNCHANGED connector
  BY <1>1 DEF KeysFit, Fits, FitsNext
<1>2. ASSUME NEW d \in Decisions, HealAgent(d)
      PROVE  /\ DOMAIN connector' = DOMAIN connector
             /\ \A a \in DOMAIN connector' : Goal(a)
  <2>0. PICK b \in DOMAIN connector : b = decision[d].agent
    BY <1>2 DEF HealAgent, KeysFit
  <2>1. /\ DOMAIN connector' = DOMAIN connector
        /\ keysMade + 1 \in Keys
        /\ \A a \in DOMAIN connector : a # b => connector'[a] = connector[a]
    BY <1>2, <2>0 DEF HealAgent
  <2>2. connector'[b].hash = keysMade + 1 /\ connector'[b].sealed = keysMade + 1
    BY <1>2, <2>0 DEF HealAgent, OAuthTypeOK, ConnectorRow
  <2>3. Goal(b)
    BY <2>1, <2>2 DEF Fits, FitsNext
  <2>4. ASSUME NEW a \in DOMAIN connector, a # b PROVE Goal(a)
    BY <2>1, <2>4 DEF KeysFit, Fits, FitsNext
  <2> QED BY <2>1, <2>3, <2>4
<1>3. ASSUME NEW d \in Decisions, CreateAgent(d)
      PROVE  /\ DOMAIN connector \subseteq DOMAIN connector'
             /\ \A a \in DOMAIN connector' : Goal(a)
  <2>0. PICK b : b = Cardinality(DOMAIN connector) + 1
    OBVIOUS
  <2>1. /\ DOMAIN connector' = DOMAIN connector \cup {b}
        /\ b \notin DOMAIN connector
        /\ keysMade + 1 \in Keys
        /\ connector'[b].hash = keysMade + 1 /\ connector'[b].sealed = keysMade + 1
        /\ \A a \in DOMAIN connector : connector'[a] = connector[a]
    BY <1>3, <2>0, NextNumber DEF CreateAgent, RowsNumbered
  <2>3. Goal(b)
    BY <2>1 DEF Fits, FitsNext
  <2>4. ASSUME NEW a \in DOMAIN connector PROVE Goal(a)
    BY <2>1 DEF KeysFit, Fits, FitsNext
  <2> QED BY <2>1, <2>3, <2>4
<1>4. ASSUME NEW b \in DOMAIN connector, RevokeKey(b) \/ RotateKey(b)
      PROVE  /\ DOMAIN connector' = DOMAIN connector
             /\ \A a \in DOMAIN connector' : Goal(a)
  <2>1. DOMAIN connector' = DOMAIN connector
    BY <1>4 DEF RevokeKey, RotateKey
  <2>2. ASSUME NEW a \in DOMAIN connector PROVE connector'[a].sealed = connector[a].sealed
    <3>1. connector[b] \in ConnectorRow
      BY DEF OAuthTypeOK
    <3>2. CASE RevokeKey(b)
      BY <3>1, <3>2 DEF RevokeKey, ConnectorRow
    <3>3. CASE RotateKey(b)
      BY <3>1, <3>3 DEF RotateKey, ConnectorRow
    <3> QED BY <1>4, <3>2, <3>3
  <2> QED BY <2>1, <2>2, FitsStays DEF KeysFit
<1>5. \/ UNCHANGED connector
      \/ \E d \in Decisions : HealAgent(d) \/ CreateAgent(d)
      \/ \E b \in DOMAIN connector : RevokeKey(b) \/ RotateKey(b)
  BY DEF OAuthNext, Authorize, ConsentExpires, Decide, ReadConsent, UseConsent, FindAgent,
      IssueCode, AuthCodeExpires, Exchange, ReadAuthCode, UseAuthCode, ReadRefresh,
      RevokeRefresh, RevokeAccess, IssuePair, RevokeStep, ReadToken, RevokeToken,
      RevokeItsAccess, AccessExpires, Restart, agentState
<1> QED BY <1>1, <1>2, <1>3, <1>4, <1>5

(* A decision, and the key it leaves in memory.                            *)
DecisionFits(d) ==
    /\ decision[d].step = "heal" => decision[d].agent \in DOMAIN connector
    /\ decision[d].step = "code" => Fits(decision[d].agent, decision[d].key)
    /\ handover[d] # NoKey =>
           decision[d].step = "done" /\ Fits(decision[d].agent, handover[d])

LEMMA DecisionFitsStep ==
  ASSUME OAuthTypeOK, RowsNumbered, KeysFit, OAuthNext, NEW d \in Decisions
  PROVE  DecisionFits(d)'
<1>0. DecisionFits(d) /\ decision[d] \in DecisionRow
  BY DEF KeysFit, DecisionFits, OAuthTypeOK
<1>1. CASE decision'[d] = decision[d] /\ handover'[d] \in {NoKey, handover[d]}
  BY <1>0, <1>1, FitsStays, SealedFits DEF DecisionFits, Fits, FitsNext
<1>2. CASE ReadConsent(d) \/ UseConsent(d)
  <2>1. decision'[d].step \in {"consume", "find", "done"} /\ handover'[d] = handover[d]
        /\ decision[d].step # "done"
    BY <1>2 DEF ReadConsent, UseConsent, OAuthTypeOK, DecisionRow
  <2> QED BY <1>0, <2>1 DEF DecisionFits, Fits, FitsNext
<1>3. CASE FindAgent(d)
  <2>1. handover'[d] = NoKey
    BY <1>0, <1>3 DEF FindAgent, DecisionFits
  <2>2. CASE Usable = {}
    <3>1. decision'[d].step = "create"
      BY <1>3, <2>2 DEF FindAgent, OAuthTypeOK, DecisionRow
    <3> QED BY <2>1, <3>1 DEF DecisionFits, Fits, FitsNext
  <2>3. CASE Usable # {}
    <3>1. PICK a \in Usable : decision' = [decision EXCEPT ![d].agent = a,
                  ![d].key = connector[a].sealed,
                  ![d].step = IF connector[a].sealed = NoKey THEN "heal" ELSE "code"]
      BY <1>3, <2>3 DEF FindAgent
    <3>2. decision \in [Decisions -> DecisionRow]
      BY DEF OAuthTypeOK
    <3>3. /\ decision'[d].agent = a /\ decision'[d].key = connector[a].sealed
          /\ decision'[d].step = IF connector[a].sealed = NoKey THEN "heal" ELSE "code"
      BY <3>1, <3>2 DEF DecisionRow
    <3>4. a \in DOMAIN connector
      BY DEF Usable
    <3>5. connector[a].sealed # NoKey => FitsNext(a, connector[a].sealed)
      BY <3>4, FitsStays DEF KeysFit
    <3>6. a \in DOMAIN connector'
      BY <3>4, SealedFits
    <3> QED BY <2>1, <3>3, <3>5, <3>6 DEF DecisionFits, Fits, FitsNext
  <2> QED BY <2>2, <2>3
<1>4. CASE HealAgent(d)
  <2>1. /\ decision'[d].step = "code" /\ decision'[d].key = keysMade + 1
        /\ decision'[d].agent = decision[d].agent
        /\ handover'[d] = NoKey
    BY <1>0, <1>4 DEF HealAgent, OAuthTypeOK, DecisionRow, DecisionFits
  <2>2. decision[d].agent \in DOMAIN connector'
    BY <1>0, <1>4, SealedFits DEF HealAgent, DecisionFits
  <2>3. connector'[decision[d].agent].sealed = keysMade + 1 /\ keysMade + 1 \in Keys
    BY <1>0, <1>4, <2>2 DEF HealAgent, OAuthTypeOK, ConnectorRow, DecisionFits
  <2>4. keysMade + 1 # NoKey
    BY <2>3, OAuthAssumption DEF Keys
  <2>5. FitsNext(decision[d].agent, keysMade + 1)
    BY <1>4, <2>1, <2>2, <2>3, <2>4, SealedFits DEF Fits, FitsNext
  <2> QED BY <2>1, <2>5 DEF DecisionFits, Fits, FitsNext
<1>5. CASE CreateAgent(d)
  <2>0. PICK b : b = Cardinality(DOMAIN connector) + 1
    OBVIOUS
  <2>1. /\ decision'[d].step = "code" /\ decision'[d].key = keysMade + 1
        /\ decision'[d].agent = b
        /\ handover'[d] = NoKey
    BY <1>0, <1>5, <2>0 DEF CreateAgent, OAuthTypeOK, DecisionRow, DecisionFits
  <2>2. /\ b \in DOMAIN connector' /\ keysMade + 1 \in Keys
        /\ connector'[b].sealed = keysMade + 1 /\ connector'[b].hash = keysMade + 1
    BY <1>5, <2>0 DEF CreateAgent
  <2> QED BY <2>1, <2>2 DEF DecisionFits, Fits, FitsNext
<1>6. CASE IssueCode(d)
  <2>1. /\ decision'[d].step = "done" /\ decision'[d].agent = decision[d].agent
        /\ handover'[d] = decision[d].key /\ decision[d].step = "code"
    BY <1>0, <1>6 DEF IssueCode, OAuthTypeOK, DecisionRow
  <2> QED BY <1>0, <2>1, FitsStays DEF DecisionFits, Fits, FitsNext
<1>7. CASE Restart
  <2>1. handover'[d] = NoKey /\ decision'[d].step \in {"read", "done"}
    BY <1>0, <1>7 DEF Restart, OAuthTypeOK, DecisionRow
  <2> QED BY <2>1 DEF DecisionFits, Fits, FitsNext
<1>8. ASSUME NEW e \in Decisions, e # d, Decide(e)
      PROVE  decision'[d] = decision[d] /\ handover'[d] = handover[d]
  BY <1>8 DEF Decide, ReadConsent, UseConsent, FindAgent, HealAgent, CreateAgent,
              IssueCode, OAuthTypeOK
<1>9. ASSUME NEW x \in Exchanges, UseAuthCode(x)
      PROVE  decision'[d] = decision[d] /\ handover'[d] \in {NoKey, handover[d]}
  BY <1>9 DEF UseAuthCode, OAuthTypeOK
<1>10. \/ UNCHANGED <<decision, handover>> \/ Restart
       \/ \E e \in Decisions : Decide(e) \/ \E x \in Exchanges : UseAuthCode(x)
  BY DEF OAuthNext, Authorize, ConsentExpires, AuthCodeExpires, Exchange, ReadAuthCode,
         ReadRefresh, RevokeRefresh, RevokeAccess, IssuePair, RevokeStep, ReadToken,
         RevokeToken, RevokeItsAccess, AccessExpires, RevokeKey, RotateKey, consentState
<1> QED
  BY <1>1, <1>2, <1>3, <1>4, <1>5, <1>6, <1>7, <1>8, <1>9, <1>10 DEF Decide

(* The keys that the requests and the tokens hold.                         *)
LEMMA KeysFitStep ==
  ASSUME OAuthTypeOK, RowsNumbered, KeysFit, OAuthNext
  PROVE  KeysFit'
<1>0. /\ \A x \in Exchanges : exchange[x] \in ExchangeRow
      /\ \A p \in Issued : pair[p] \in PairRow
  BY DEF OAuthTypeOK
<1>1. \A d \in Decisions : authCode[d] # "none" => authCode'[d] # "none"
  BY DEF OAuthNext, Authorize, ConsentExpires, Decide, ReadConsent, UseConsent, FindAgent,
         HealAgent, CreateAgent, IssueCode, AuthCodeExpires, Exchange, ReadAuthCode,
         UseAuthCode, ReadRefresh, RevokeRefresh, RevokeAccess, IssuePair, RevokeStep,
         ReadToken, RevokeToken, RevokeItsAccess, AccessExpires, RevokeKey, RotateKey,
         Restart, consentState, OAuthTypeOK
(* What fits once fits on, for an exchange and for a pair.                 *)
<1>2. ASSUME NEW d \in Decisions, NEW k, decision[d].step = "done", Fits(decision[d].agent, k)
      PROVE  decision'[d].step = "done" /\ decision'[d].agent = decision[d].agent
             /\ FitsNext(decision[d].agent, k)
  BY <1>2, DoneStays, FitsStays
<1>3. ASSUME NEW x \in Exchanges
      PROVE  /\ exchange'[x].step = "consume" => authCode'[exchange'[x].code] # "none"
             /\ exchange'[x].step \in {"refresh", "access", "issue"} =>
                   /\ decision'[exchange'[x].code].step = "done"
                   /\ FitsNext(decision[exchange'[x].code].agent, exchange'[x].key)
                   /\ decision'[exchange'[x].code].agent = decision[exchange'[x].code].agent
                   /\ exchange'[x].code \in Decisions
  <2>0. exchange[x].code \in Decisions
    BY <1>0 DEF ExchangeRow
  <2>1. CASE exchange'[x] = exchange[x]
    BY <1>1, <1>2, <2>0, <2>1 DEF KeysFit
  <2>2. CASE ReadAuthCode(x)
    <3>1. exchange'[x].step = "consume" /\ exchange'[x].code = exchange[x].code
          /\ authCode[exchange[x].code] = "live"
      BY <2>2, <1>0 DEF ReadAuthCode, ExchangeRow, OAuthTypeOK
    <3> QED BY <1>1, <2>0, <3>1
  <2>3. CASE UseAuthCode(x)
    <3> DEFINE d == exchange[x].code
    <3>1. /\ exchange'[x].step \in {"done", "issue"} /\ exchange'[x].code = d
          /\ exchange'[x].step = "issue" =>
                 exchange'[x].key = handover[d] /\ handover[d] # NoKey
      BY <2>3, <1>0 DEF UseAuthCode, ExchangeRow, OAuthTypeOK
    <3> QED BY <1>2, <2>0, <3>1 DEF KeysFit
  <2>4. CASE ReadRefresh(x)
    <3>1. PICK p \in Issued : exchange' = [exchange EXCEPT ![x] =
              [step |-> "refresh", code |-> pair[p].code, parent |-> p, key |-> pair[p].key]]
      BY <2>4 DEF ReadRefresh
    <3>2. exchange'[x].step = "refresh" /\ exchange'[x].code = pair[p].code
          /\ exchange'[x].key = pair[p].key
      BY <3>1 DEF OAuthTypeOK
    <3>3. pair[p].code \in Decisions
      BY <1>0 DEF PairRow
    <3> QED BY <1>2, <3>2, <3>3 DEF KeysFit
  <2>5. CASE RevokeRefresh(x) \/ RevokeAccess(x)
    <3>1. /\ exchange'[x].step \in {"access", "issue"}
          /\ exchange[x].step \in {"refresh", "access"}
          /\ exchange'[x].code = exchange[x].code /\ exchange'[x].key = exchange[x].key
      BY <1>0, <2>5 DEF RevokeRefresh, RevokeAccess, ExchangeRow, OAuthTypeOK
    <3> QED BY <1>2, <2>0, <3>1 DEF KeysFit
  <2>6. CASE IssuePair(x) \/ (Restart /\ exchange'[x] # exchange[x])
    <3>1. exchange'[x].step = "done"
      BY <1>0, <2>6 DEF IssuePair, Restart, ExchangeRow, OAuthTypeOK
    <3> QED BY <3>1
  <2>7. ASSUME NEW y \in Exchanges, y # x, Exchange(y) PROVE exchange'[x] = exchange[x]
    BY <2>7 DEF Exchange, ReadAuthCode, UseAuthCode, ReadRefresh, RevokeRefresh,
                RevokeAccess, IssuePair, OAuthTypeOK
  <2>8. exchange' = exchange \/ Restart \/ \E y \in Exchanges : Exchange(y)
    BY DEF OAuthNext, Authorize, ConsentExpires, Decide, ReadConsent, UseConsent,
           FindAgent, HealAgent, CreateAgent, IssueCode, AuthCodeExpires, RevokeStep,
           ReadToken, RevokeToken, RevokeItsAccess, AccessExpires, RevokeKey, RotateKey
  <2> QED BY <2>1, <2>2, <2>3, <2>4, <2>5, <2>6, <2>7, <2>8 DEF Exchange
<1>4. ASSUME NEW p \in Issued'
      PROVE  /\ decision'[pair'[p].code].step = "done"
             /\ pair'[p].agent = decision'[pair'[p].code].agent
             /\ FitsNext(pair'[p].agent, pair'[p].key)
  <2>1. ASSUME NEW q \in Issued
        PROVE  /\ decision'[pair[q].code].step = "done"
               /\ pair[q].agent = decision'[pair[q].code].agent
               /\ FitsNext(pair[q].agent, pair[q].key)
    <3>1. pair[q].code \in Decisions
      BY <1>0 DEF PairRow
    <3> QED BY <1>2, <3>1 DEF KeysFit
  <2>2. CASE SameRows
    BY <2>1, <2>2 DEF SameRows
  <2>3. ASSUME NEW x \in Exchanges, IssuePair(x)
        PROVE  /\ decision'[pair'[p].code].step = "done"
               /\ pair'[p].agent = decision'[pair'[p].code].agent
               /\ FitsNext(pair'[p].agent, pair'[p].key)
    <3>0. PICK n : n = Cardinality(Issued) + 1
      OBVIOUS
    <3>1. n \notin Issued /\ Issued' = Issued \cup {n}
      BY <2>3, <3>0, NextNumber DEF IssuePair, Issued, RowsNumbered
    <3>2. /\ pair'[n].agent = decision[exchange[x].code].agent
          /\ pair'[n].key = exchange[x].key
          /\ pair'[n].code = exchange[x].code
          /\ \A q \in Issued : pair'[q] = pair[q]
      BY <2>3, <3>0, <3>1 DEF IssuePair, Issued
    <3>3. exchange[x].code \in Decisions /\ exchange[x].step = "issue"
      BY <1>0, <2>3 DEF ExchangeRow, IssuePair
    <3>4. CASE p = n
      BY <1>2, <3>2, <3>3, <3>4 DEF KeysFit
    <3>5. CASE p \in Issued
      BY <2>1, <3>2, <3>5
    <3> QED BY <3>1, <3>4, <3>5
  <2> QED BY <2>2, <2>3, RowsStay
<1>5. \A d \in Decisions : DecisionFits(d)'
  BY DecisionFitsStep
<1>6. \A a \in DOMAIN connector' :
          connector'[a].sealed # NoKey => FitsNext(a, connector'[a].sealed)
  BY SealedFits
<1> QED BY <1>3, <1>4, <1>5, <1>6 DEF KeysFit, DecisionFits, Fits, FitsNext

-----------------------------------------------------------------------------
LEMMA OAuthIInvStep == OAuthIInv /\ [OAuthNext]_oauthVars => OAuthIInv'
<1> SUFFICES ASSUME OAuthIInv, [OAuthNext]_oauthVars PROVE OAuthIInv'
  OBVIOUS
<1>1. CASE OAuthNext
  BY <1>1, OAuthTypesStep, RowsNumberedStep, ConsentsStep, CodesStep, RotatedStep,
     KeysFitStep DEF OAuthIInv
<1>2. CASE UNCHANGED oauthVars
  BY <1>2 DEF oauthVars, OAuthIInv, OAuthTypeOK, RowsNumbered, ConsentsUsed, Past, CodesUsed,
     Firsts, RotatedPairIsDead, BusyOn, KeysFit, Fits, FitsNext, Issued
<1> QED BY <1>1, <1>2

LEMMA OAuthIInvSuffices == OAuthIInv => OAuthInv
<1> SUFFICES ASSUME OAuthIInv PROVE OAuthInv
  OBVIOUS
<1>1. ConsentYieldsOnce
  BY DEF OAuthIInv, ConsentYieldsOnce, ConsentsUsed, Past, CodesUsed
<1>2. LiveTokensAuthenticate
  BY DEF OAuthIInv, LiveTokensAuthenticate, KeysFit, Fits, FitsNext, Opens
<1> QED BY <1>1, <1>2 DEF OAuthIInv, OAuthInv

(* The authorization server, for any number of consents, exchanges,        *)
(* refreshes, revocations and restarts.                                    *)
THEOREM OAuthSound == OAuthSpec => []OAuthInv
BY OAuthIInvInit, OAuthIInvStep, OAuthIInvSuffices, PTL DEF OAuthSpec

-----------------------------------------------------------------------------
(***************************************************************************)
(* Rate limit. A place holds of every check that it let through the entry, *)
(* as long as it counts, and holds no entry without its check.             *)
(***************************************************************************)
Store(p, k) == IF p = "redis" THEN zset[k] ELSE hits[p][k]

Entry(a) == <<a.by, a.time>>

TriesOK ==
    /\ tried \in SUBSET Tries /\ IsFiniteSet(tried)
    /\ \A a \in tried : a.time <= clock

Covered ==
    \A a \in tried : a.ok /\ a.time + Window > clock => Entry(a) \in Store(a.place, a.key)

Owed ==
    \A p \in Places, k \in BucketKeys : \A z \in Store(p, k) :
        \E a \in tried : Entry(a) = z /\ a.key = k /\ p \in a.held

OncePerKey == \A a, b \in tried : a.by = b.by /\ a.key = b.key => a = b

CountsIInv ==
    /\ clock \in Times /\ redisUp \in BOOLEAN
    /\ hits \in [Hosts -> [BucketKeys -> SUBSET (Checks \X Times)]]
    /\ zset \in [BucketKeys -> SUBSET (Checks \X Times)]
    /\ TriesOK /\ Covered /\ Owed /\ OncePerKey /\ WindowHolds /\ QuietIsAdmitted

FirstKey(r) == IF r.route = "both" THEN r.token ELSE r.key

CallersOK ==
    /\ req \in [Checks -> Requests]
    /\ \A q \in Checks : req[q].step # "new" => req[q].key \in Addresses
    /\ \A a \in tried : /\ req[a.by].step # "new"
                        /\ req[a.by].step = "second" => a.key = FirstKey(req[a.by])

RateIInv == CountsIInv /\ CallersOK /\ ClientIsCharged

-----------------------------------------------------------------------------
LEMMA RateNumbers ==
  /\ Limit \in Nat /\ Limit >= 1 /\ Window \in Nat /\ Window >= 1 /\ MaxTime \in Nat
<1>1. Limit \in Nat \ {0} /\ Window \in Nat \ {0} /\ MaxTime \in Nat
  BY RateAssumption
<1> QED BY <1>1

LEMMA RateStart == ASSUME RateInit PROVE RateIInv
<1>1. /\ clock \in Times /\ redisUp \in BOOLEAN /\ tried = {}
      /\ hits \in [Hosts -> [BucketKeys -> SUBSET (Checks \X Times)]]
      /\ zset \in [BucketKeys -> SUBSET (Checks \X Times)]
  <2>1. [k \in BucketKeys |-> {}] \in [BucketKeys -> SUBSET (Checks \X Times)]
    OBVIOUS
  <2> DEFINE none == [k \in BucketKeys |-> {}]
  <2>2. hits = [h \in Hosts |-> none] /\ zset = none /\ none \in [BucketKeys -> SUBSET (Checks \X Times)]
    BY <2>1 DEF RateInit
  <2> HIDE DEF none
  <2>3. hits \in [Hosts -> [BucketKeys -> SUBSET (Checks \X Times)]]
    BY <2>2
  <2>4. clock \in Times /\ redisUp \in BOOLEAN /\ tried = {}
    <3>1. clock = 0 /\ redisUp \in BOOLEAN /\ tried = {} BY DEF RateInit
    <3> QED BY <3>1, RateNumbers DEF Times
  <2> QED BY <2>2, <2>3, <2>4
<1>2. TriesOK /\ OncePerKey /\ Covered /\ QuietIsAdmitted
  BY <1>1, FS_EmptySet DEF TriesOK, OncePerKey, Covered, QuietIsAdmitted
<1>3. Owed
  BY DEF RateInit, Owed, Store, Places
<1>4. WindowHolds
  <2> SUFFICES ASSUME NEW t \in Times, NEW k \in BucketKeys, NEW p \in Places
               PROVE  Cardinality(Admitted(t, k, p)) <= Limit
    BY DEF WindowHolds
  <2>1. Admitted(t, k, p) = {}
    BY <1>1 DEF Admitted
  <2>2. Cardinality(Admitted(t, k, p)) = 0 BY <2>1, FS_EmptySet
  <2> QED BY <2>2, RateNumbers
<1>5. CallersOK
  <2>1. req \in [Checks -> Requests]
    BY DEF RateInit, Requests
  <2>2. \A q \in Checks : req[q].step = "new"
    BY DEF RateInit
  <2> QED BY <1>1, <2>1, <2>2 DEF CallersOK
<1>6. ClientIsCharged
  <2>1. \A q \in Checks : req[q].key = NoBucket BY DEF RateInit
  <2> QED BY <2>1 DEF ClientIsCharged
<1> QED BY <1>1, <1>2, <1>3, <1>4, <1>5, <1>6 DEF RateIInv, CountsIInv

-----------------------------------------------------------------------------
(* Which entries a place counts, and that it has finitely many.            *)
LEMMA CountedFinite ==
  ASSUME CountsIInv, NEW p \in Places, NEW k \in BucketKeys
  PROVE  /\ Store(p, k) \in SUBSET (Checks \X Times) /\ IsFiniteSet(Store(p, k))
         /\ IsFiniteSet(Recent(Store(p, k))) /\ Cardinality(Recent(Store(p, k))) \in Nat
<1>1. Store(p, k) \in SUBSET (Checks \X Times)
  <2>1. CASE p = "redis"
    BY <2>1 DEF CountsIInv, Store
  <2>2. CASE p # "redis"
    <3>1. p \in Hosts /\ hits \in [Hosts -> [BucketKeys -> SUBSET (Checks \X Times)]]
      BY <2>2 DEF CountsIInv, Places
    <3>2. hits[p] \in [BucketKeys -> SUBSET (Checks \X Times)]
      BY <3>1
    <3>3. hits[p][k] \in SUBSET (Checks \X Times)
      BY <3>2
    <3> QED BY <2>2, <3>3 DEF Store
  <2> QED BY <2>1, <2>2
<1> DEFINE entries == {Entry(a) : a \in tried}
           f == [a \in tried |-> Entry(a)]
<1>2. IsFiniteSet(entries)
  <2>1. IsFiniteSet(tried) BY DEF CountsIInv, TriesOK
  <2>2. f \in Surjection(tried, entries) BY DEF Surjection
  <2> HIDE DEF f, entries
  <2> QED BY <2>1, <2>2, FS_Surjection
<1>3. Store(p, k) \subseteq entries
  BY DEF CountsIInv, Owed
<1> HIDE DEF entries
<1>4. IsFiniteSet(Store(p, k))
  BY <1>2, <1>3, FS_Subset
<1>5. Recent(Store(p, k)) \subseteq Store(p, k)
  BY DEF Recent
<1>6. IsFiniteSet(Recent(Store(p, k)))
  BY <1>4, <1>5, FS_Subset
<1> QED BY <1>1, <1>4, <1>6, FS_CardinalityType

-----------------------------------------------------------------------------
(* What a check does, wherever its verdict comes from: it is counted once  *)
(* in every place that holds it, and entries that count stay.              *)
Tried(q, k, p, held, ok) ==
    LET a == Try(q, k, p, held, ok)
    IN /\ tried' = tried \cup {a}
       /\ ok = (Cardinality(Recent(Store(p, k))) < Limit)
       /\ ok => p \in held
       /\ \A r \in Places, j \in BucketKeys :
              /\ Recent(Store(r, j)) \subseteq Store(r, j)'
              /\ Store(r, j)' \subseteq
                     Store(r, j) \cup {z \in {<<q, clock>>} : r \in held /\ j = k}
              /\ r \in held /\ j = k => <<q, clock>> \in Store(r, j)'
       /\ hits' \in [Hosts -> [BucketKeys -> SUBSET (Checks \X Times)]]
       /\ zset' \in [BucketKeys -> SUBSET (Checks \X Times)]

LEMMA InMemory ==
  ASSUME CountsIInv, CallersOK, NEW q \in Checks, NEW k \in BucketKeys, NEW ok \in BOOLEAN,
         NEW held \in {{}, {"redis"}},
         CheckInProcess(q, k, ok, held),
         held = {} => UNCHANGED zset,
         held = {"redis"} => Multi(q, k)
  PROVE  \E p \in Places, h \in SUBSET Places : Tried(q, k, p, h, ok)
<1>1. PICK h : h = req[q].at OBVIOUS
<1>2. h \in Hosts /\ h # "redis" /\ h \in Places
  <2>1. "redis" \notin Hosts BY RateAssumption
  <2>2. req[q] \in Requests BY DEF CallersOK
  <2>3. h \in Hosts BY <1>1, <2>2 DEF Requests
  <2> QED BY <2>1, <2>3 DEF Places
<1>3. PICK recent : recent = Recent(hits[h][k]) OBVIOUS
<1>4. PICK stays : stays = recent \cup (IF ok THEN {<<q, clock>>} ELSE {}) OBVIOUS
<1>5. PICK all : all = held \cup (IF ok THEN {h} ELSE {}) OBVIOUS
<1>6. /\ ok = (Cardinality(recent) < Limit)
      /\ hits' = [hits EXCEPT ![h][k] = stays]
      /\ tried' = tried \cup {Try(q, k, h, all, ok)}
  BY <1>1, <1>3, <1>4, <1>5 DEF CheckInProcess
<1>7. all \in SUBSET Places /\ (ok => h \in all)
  BY <1>2, <1>5 DEF Places
<1>8. Store(h, k) = hits[h][k]
  BY <1>2 DEF Store
<1>9. /\ hits \in [Hosts -> [BucketKeys -> SUBSET (Checks \X Times)]]
      /\ zset \in [BucketKeys -> SUBSET (Checks \X Times)] /\ clock \in Times
  BY DEF CountsIInv
<1>10. PICK row : row = [hits[h] EXCEPT ![k] = stays] OBVIOUS
<1>11. hits' = [hits EXCEPT ![h] = row]
  BY <1>2, <1>6, <1>9, <1>10
<1>12. stays \in SUBSET (Checks \X Times)
  BY <1>2, <1>3, <1>4, <1>9 DEF Recent
<1>13. row \in [BucketKeys -> SUBSET (Checks \X Times)] /\ row[k] = stays
       /\ \A j \in BucketKeys : j # k => row[j] = hits[h][j]
  BY <1>2, <1>9, <1>10, <1>12
<1>14. /\ hits' \in [Hosts -> [BucketKeys -> SUBSET (Checks \X Times)]]
       /\ hits'[h] = row /\ \A g \in Hosts : g # h => hits'[g] = hits[g]
  BY <1>2, <1>9, <1>11, <1>13
<1>15. PICK more : more = Recent(zset[k]) \cup {<<q, clock>>} OBVIOUS
<1>16. more \in SUBSET (Checks \X Times)
  BY <1>9, <1>15 DEF Recent
<1>17. CASE held = {}
  <2>1. zset' = zset BY <1>17
  <2>2. ASSUME NEW r \in Places, NEW j \in BucketKeys
        PROVE  /\ Recent(Store(r, j)) \subseteq Store(r, j)'
               /\ Store(r, j)' \subseteq
                      Store(r, j) \cup {z \in {<<q, clock>>} : r \in all /\ j = k}
               /\ r \in all /\ j = k => <<q, clock>> \in Store(r, j)'
    <3>1. CASE r = "redis"
      BY <1>2, <1>5, <1>17, <2>1, <3>1 DEF Store, Recent
    <3>2. CASE r = h /\ j = k
      <4>1. Store(r, j)' = stays /\ Store(r, j) = hits[h][k]
        BY <1>2, <1>13, <1>14, <3>2 DEF Store
      <4> QED BY <1>3, <1>4, <1>5, <1>17, <3>2, <4>1 DEF Recent
    <3>3. CASE r # "redis" /\ ~(r = h /\ j = k)
      <4>1. Store(r, j)' = Store(r, j)
        BY <1>13, <1>14, <3>3 DEF Store, Places
      <4>2. ~(r \in all /\ j = k)
        BY <1>5, <1>17, <3>3
      <4> QED BY <4>1, <4>2 DEF Recent
    <3> QED BY <3>1, <3>2, <3>3
  <2> QED BY <1>2, <1>3, <1>6, <1>7, <1>8, <1>9, <1>14, <2>1, <2>2 DEF Tried
<1>18. CASE held = {"redis"}
  <2>1. zset' = [zset EXCEPT ![k] = more] BY <1>15, <1>18 DEF Multi
  <2>2. /\ zset' \in [BucketKeys -> SUBSET (Checks \X Times)]
        /\ zset'[k] = more /\ \A j \in BucketKeys : j # k => zset'[j] = zset[j]
    BY <1>9, <1>16, <2>1
  <2>3. ASSUME NEW r \in Places, NEW j \in BucketKeys
        PROVE  /\ Recent(Store(r, j)) \subseteq Store(r, j)'
               /\ Store(r, j)' \subseteq
                      Store(r, j) \cup {z \in {<<q, clock>>} : r \in all /\ j = k}
               /\ r \in all /\ j = k => <<q, clock>> \in Store(r, j)'
    <3>1. CASE r = "redis" /\ j = k
      <4>1. Store(r, j)' = more /\ Store(r, j) = zset[k] /\ r \in all
        BY <1>5, <1>18, <2>2, <3>1 DEF Store
      <4> QED BY <1>15, <3>1, <4>1 DEF Recent
    <3>2. CASE r = "redis" /\ j # k
      BY <2>2, <3>2 DEF Store, Recent
    <3>3. CASE r = h /\ j = k
      <4>1. Store(r, j)' = stays /\ Store(r, j) = hits[h][k]
        BY <1>2, <1>13, <1>14, <3>3 DEF Store
      <4> QED BY <1>2, <1>3, <1>4, <1>5, <1>18, <3>3, <4>1 DEF Recent
    <3>4. CASE r # "redis" /\ ~(r = h /\ j = k)
      <4>1. Store(r, j)' = Store(r, j)
        BY <1>13, <1>14, <3>4 DEF Store, Places
      <4>2. ~(r \in all /\ j = k)
        BY <1>5, <1>18, <3>4
      <4> QED BY <4>1, <4>2 DEF Recent
    <3> QED BY <3>1, <3>2, <3>3, <3>4
  <2> QED BY <1>2, <1>3, <1>6, <1>7, <1>8, <1>14, <2>2, <2>3 DEF Tried
<1> QED BY <1>17, <1>18

LEMMA InRedis ==
  ASSUME CountsIInv, NEW q \in Checks, NEW k \in BucketKeys, NEW ok \in BOOLEAN,
         CheckRedis(q, k, ok)
  PROVE  Tried(q, k, "redis", {"redis"}, ok)
<1>1. /\ hits \in [Hosts -> [BucketKeys -> SUBSET (Checks \X Times)]]
      /\ zset \in [BucketKeys -> SUBSET (Checks \X Times)] /\ clock \in Times
  BY DEF CountsIInv
<1>2. PICK more : more = Recent(zset[k]) \cup {<<q, clock>>} OBVIOUS
<1>3. zset' = [zset EXCEPT ![k] = more] /\ hits' = hits
  BY <1>2 DEF CheckRedis, Multi
<1>4. more \in SUBSET (Checks \X Times)
  BY <1>1, <1>2 DEF Recent
<1>5. /\ zset' \in [BucketKeys -> SUBSET (Checks \X Times)]
      /\ zset'[k] = more /\ \A j \in BucketKeys : j # k => zset'[j] = zset[j]
  BY <1>1, <1>3, <1>4
<1>6. ASSUME NEW r \in Places, NEW j \in BucketKeys
      PROVE  /\ Recent(Store(r, j)) \subseteq Store(r, j)'
             /\ Store(r, j)' \subseteq
                    Store(r, j) \cup {z \in {<<q, clock>>} : r \in {"redis"} /\ j = k}
             /\ r \in {"redis"} /\ j = k => <<q, clock>> \in Store(r, j)'
  <2>1. CASE r = "redis" /\ j = k
    <3>1. Store(r, j)' = more /\ Store(r, j) = zset[k]
      BY <1>5, <2>1 DEF Store
    <3> QED BY <1>2, <2>1, <3>1 DEF Recent
  <2>2. CASE ~(r = "redis" /\ j = k)
    <3>1. Store(r, j)' = Store(r, j)
      BY <1>3, <1>5, <2>2 DEF Store
    <3> QED BY <2>2, <3>1 DEF Recent
  <2> QED BY <2>1, <2>2
<1>7. Store("redis", k) = zset[k] BY DEF Store
<1>8. /\ tried' = tried \cup {Try(q, k, "redis", {"redis"}, ok)}
      /\ ok = (Cardinality(Recent(Store("redis", k))) < Limit)
  BY <1>7 DEF CheckRedis
<1> QED BY <1>1, <1>3, <1>5, <1>6, <1>8 DEF Tried

LEMMA CheckIsTried ==
  ASSUME CountsIInv, CallersOK, NEW q \in Checks, NEW k \in BucketKeys, NEW ok \in BOOLEAN,
         Check(q, k, ok)
  PROVE  \E p \in Places, held \in SUBSET Places : Tried(q, k, p, held, ok)
<1>1. CASE CheckRedis(q, k, ok)
  <2>1. "redis" \in Places /\ {"redis"} \in SUBSET Places BY DEF Places
  <2> QED BY <1>1, <2>1, InRedis
<1>2. CASE Multi(q, k) /\ CheckInProcess(q, k, ok, {"redis"})
  BY <1>2, InMemory
<1>3. CASE UNCHANGED zset /\ CheckInProcess(q, k, ok, {})
  BY <1>3, InMemory
<1> QED BY <1>1, <1>2, <1>3 DEF Check

-----------------------------------------------------------------------------
(* A check of a key that was not checked before by the same request keeps  *)
(* the books, and with them the limit, in both directions.                 *)
LEMMA BooksKept ==
  ASSUME CountsIInv, NEW q \in Checks, NEW k \in BucketKeys, NEW ok \in BOOLEAN,
         NEW p \in Places, NEW held \in SUBSET Places,
         Tried(q, k, p, held, ok), clock' = clock,
         \A b \in tried : b.by = q => b.key # k
  PROVE  TriesOK' /\ Covered' /\ Owed' /\ OncePerKey'
<1>1. PICK a : a = Try(q, k, p, held, ok) OBVIOUS
<1>2. /\ a.key = k /\ a.by = q /\ a.time = clock /\ a.place = p /\ a.held = held /\ a.ok = ok
      /\ Entry(a) = <<q, clock>>
  BY <1>1 DEF Try, Entry
<1>3. clock \in Times /\ clock \in Nat
  BY RateNumbers DEF CountsIInv, Times
<1>4. a \in Tries
  BY <1>1, <1>3 DEF Try, Tries
<1>5. tried' = tried \cup {a}
  BY <1>1 DEF Tried
<1>6. /\ tried \in SUBSET Tries /\ IsFiniteSet(tried)
      /\ \A b \in tried : b.time <= clock
  BY DEF CountsIInv, TriesOK
<1>7. TriesOK'
  <2>1. IsFiniteSet(tried') BY <1>5, <1>6, FS_AddElement
  <2> QED BY <1>2, <1>3, <1>4, <1>5, <1>6, <2>1 DEF TriesOK
<1>8. OncePerKey'
  BY <1>2, <1>5 DEF CountsIInv, OncePerKey
<1>9. Covered'
  <2> SUFFICES ASSUME NEW b \in tried', b.ok, b.time + Window > clock
               PROVE  Entry(b) \in Store(b.place, b.key)'
    BY DEF Covered, Entry
  <2>1. CASE b = a
    BY <1>2, <2>1 DEF Tried
  <2>2. CASE b \in tried
    <3>1. Entry(b) \in Store(b.place, b.key)
      BY <2>2 DEF CountsIInv, Covered
    <3>2. Entry(b)[2] = b.time /\ b.place \in Places /\ b.key \in BucketKeys
      BY <1>6, <2>2 DEF Entry, Tries
    <3>3. Entry(b) \in Recent(Store(b.place, b.key))
      BY <3>1, <3>2 DEF Recent
    <3> QED BY <3>2, <3>3 DEF Tried
  <2> QED BY <1>5, <2>1, <2>2
<1>10. Owed'
  <2> SUFFICES ASSUME NEW r \in Places, NEW j \in BucketKeys, NEW z \in Store(r, j)'
               PROVE  \E b \in tried' : Entry(b) = z /\ b.key = j /\ r \in b.held
    BY DEF Owed, Entry
  <2>1. CASE z \in Store(r, j)
    <3>1. PICK b \in tried : Entry(b) = z /\ b.key = j /\ r \in b.held
      BY <2>1 DEF CountsIInv, Owed
    <3> QED BY <1>5, <3>1
  <2>2. CASE z = <<q, clock>> /\ r \in held /\ j = k
    BY <1>2, <1>5, <2>2
  <2> QED BY <2>1, <2>2 DEF Tried
<1> QED BY <1>7, <1>8, <1>9, <1>10

LEMMA WindowKept ==
  ASSUME CountsIInv, NEW q \in Checks, NEW k \in BucketKeys, NEW ok \in BOOLEAN,
         NEW p \in Places, NEW held \in SUBSET Places,
         Tried(q, k, p, held, ok), clock' = clock
  PROVE  WindowHolds'
<1>1. PICK a : a = Try(q, k, p, held, ok) OBVIOUS
<1>2. /\ a.key = k /\ a.by = q /\ a.time = clock /\ a.place = p /\ a.ok = ok
  BY <1>1 DEF Try
<1>3. tried' = tried \cup {a}
  BY <1>1 DEF Tried
<1>4. clock \in Nat /\ tried \in SUBSET Tries /\ IsFiniteSet(tried)
  BY RateNumbers DEF CountsIInv, Times, TriesOK
<1> SUFFICES ASSUME NEW t \in Times, NEW j \in BucketKeys, NEW r \in Places
             PROVE  Cardinality(Admitted(t, j, r)') <= Limit
  BY DEF WindowHolds
<1> DEFINE was == Admitted(t, j, r)
           room == Recent(Store(p, k))
<1>5. Cardinality(was) <= Limit
  BY DEF CountsIInv, WindowHolds
<1>6. was \in SUBSET tried
  BY DEF Admitted
<1>7. IsFiniteSet(was) /\ Cardinality(was) \in Nat
  BY <1>4, <1>6, FS_Subset, FS_CardinalityType
<1>8. CASE ok /\ j = k /\ r = p /\ clock <= t /\ t < clock + Window
  <2>1. Admitted(t, j, r)' = was \cup {a}
    <3>1. a.ok /\ a.key = j /\ a.place = r /\ a.time <= t /\ t < a.time + Window
      BY <1>2, <1>8
    <3> QED BY <1>3, <3>1 DEF Admitted
  <2>2. Cardinality(room) < Limit /\ IsFiniteSet(room) /\ Cardinality(room) \in Nat
    BY <1>8, CountedFinite DEF Tried
  <2> DEFINE f == [b \in was |-> Entry(b)]
  <2>3. f \in Injection(was, room)
    <3>1. ASSUME NEW b \in was PROVE Entry(b) \in room
      <4>0. b \in tried /\ b.ok /\ b.key = j /\ b.place = r /\ t < b.time + Window
        BY Zenon DEF Admitted
      <4>1. b \in tried /\ b.ok /\ b.key = k /\ b.place = p /\ t < b.time + Window
        BY <1>8, <4>0
      <4>2. b.time \in Nat /\ t \in Nat /\ Window \in Nat
        BY <1>4, <4>1, RateNumbers DEF Tries, Times
      <4>3. b.time + Window > clock
        BY <1>4, <1>8, <4>1, <4>2
      <4>4. Entry(b) \in Store(p, k)
        BY <4>1, <4>3 DEF CountsIInv, Covered
      <4> QED BY <4>3, <4>4 DEF Recent, Entry
    <3>2. ASSUME NEW b \in was, NEW c \in was, Entry(b) = Entry(c) PROVE b = c
      <4>1. b \in tried /\ c \in tried /\ b.key = c.key
        BY <1>8 DEF Admitted
      <4>2. b.by = c.by BY <3>2 DEF Entry
      <4> QED BY <4>1, <4>2 DEF CountsIInv, OncePerKey
    <3>3. f \in [was -> room] BY <3>1
    <3> QED BY <3>2, <3>3 DEF Injection, IsInjective
  <2> HIDE DEF f, room, was
  <2>4. Cardinality(was) <= Cardinality(room)
    BY <2>2, <2>3, FS_Injection
  <2>5. Cardinality(was \cup {a}) <= Cardinality(was) + 1
    <3>1. Cardinality(was \cup {a}) = IF a \in was THEN Cardinality(was) ELSE Cardinality(was) + 1
      BY <1>7, FS_AddElement
    <3> QED BY <1>7, <3>1
  <2>6. Cardinality(was \cup {a}) \in Nat
    BY <1>7, FS_AddElement, FS_CardinalityType
  <2>7. Cardinality(was \cup {a}) <= Limit
    BY <1>7, <2>2, <2>4, <2>5, <2>6, RateNumbers
  <2> QED BY <2>1, <2>7
<1>9. CASE ~(ok /\ j = k /\ r = p /\ clock <= t /\ t < clock + Window)
  <2>1. ~(a.ok /\ a.key = j /\ a.place = r /\ a.time <= t /\ t < a.time + Window)
    BY <1>2, <1>9
  <2>2. Admitted(t, j, r)' = was
    BY <1>3, <2>1 DEF Admitted
  <2> QED BY <1>5, <2>2
<1> QED BY <1>8, <1>9

LEMMA QuietKept ==
  ASSUME CountsIInv, NEW q \in Checks, NEW k \in BucketKeys, NEW ok \in BOOLEAN,
         NEW p \in Places, NEW held \in SUBSET Places,
         Tried(q, k, p, held, ok), clock' = clock,
         \A b \in tried : b.by = q => b.key # k
  PROVE  QuietIsAdmitted'
<1>1. PICK a : a = Try(q, k, p, held, ok) OBVIOUS
<1>2. /\ a.key = k /\ a.by = q /\ a.time = clock /\ a.place = p /\ a.ok = ok
  BY <1>1 DEF Try
<1>3. tried' = tried \cup {a} /\ a \notin tried
  BY <1>1, <1>2 DEF Tried
<1>4. /\ clock \in Nat /\ tried \in SUBSET Tries /\ IsFiniteSet(tried)
      /\ \A b \in tried : b.time <= clock
  BY RateNumbers DEF CountsIInv, Times, TriesOK
<1>5. IsFiniteSet(tried')
  BY <1>3, <1>4, FS_AddElement
<1> SUFFICES ASSUME NEW b \in tried', ~b.ok PROVE Cardinality(HeldAgainst(b)') >= Limit
  BY DEF QuietIsAdmitted
<1>6. HeldAgainst(b)' \in SUBSET tried'
  BY DEF HeldAgainst
<1>7. IsFiniteSet(HeldAgainst(b)') /\ Cardinality(HeldAgainst(b)') \in Nat
  BY <1>5, <1>6, FS_Subset, FS_CardinalityType
<1>8. CASE b \in tried
  <2>1. HeldAgainst(b) \in SUBSET (HeldAgainst(b)')
    BY <1>3 DEF HeldAgainst
  <2>2. Cardinality(HeldAgainst(b)) >= Limit
    BY <1>8 DEF CountsIInv, QuietIsAdmitted
  <2>3. Cardinality(HeldAgainst(b)) <= Cardinality(HeldAgainst(b)')
        /\ Cardinality(HeldAgainst(b)) \in Nat
    BY <1>7, <2>1, FS_Subset, FS_CardinalityType
  <2> QED BY <1>7, <2>2, <2>3, RateNumbers
<1>9. CASE b = a
  <2> DEFINE room == Recent(Store(p, k))
             old == {c \in tried : c.key = k /\ p \in c.held /\ clock < c.time + Window}
             image == {Entry(c) : c \in old}
             f == [c \in old |-> Entry(c)]
  <2>1. Cardinality(room) >= Limit
    <3>1. ~(Cardinality(room) < Limit) BY <1>2, <1>9 DEF Tried
    <3>2. Cardinality(room) \in Nat BY CountedFinite
    <3> QED BY <3>1, <3>2, RateNumbers
  <2>2. room \in SUBSET image
    <3> SUFFICES ASSUME NEW z \in room PROVE z \in image
      OBVIOUS
    <3>1. PICK c \in tried : Entry(c) = z /\ c.key = k /\ p \in c.held
      BY DEF Recent, CountsIInv, Owed
    <3>2. c.time = z[2] BY <3>1 DEF Entry
    <3>3. clock < c.time + Window
      <4>1. z[2] + Window > clock BY DEF Recent
      <4>2. c.time \in Nat BY <1>4, <3>1 DEF Tries, Times
      <4> QED BY <1>4, <3>2, <4>1, <4>2, RateNumbers
    <3> QED BY <3>1, <3>3
  <2>3. old \in SUBSET (HeldAgainst(b)')
    BY <1>2, <1>3, <1>4, <1>9 DEF HeldAgainst
  <2>4. f \in Surjection(old, image) BY DEF Surjection
  <2> HIDE DEF room, old, image, f
  <2>5. IsFiniteSet(old) /\ Cardinality(old) <= Cardinality(HeldAgainst(b)')
        /\ Cardinality(old) \in Nat
    BY <1>7, <2>3, FS_Subset, FS_CardinalityType
  <2>6. IsFiniteSet(image) /\ Cardinality(image) <= Cardinality(old) /\ Cardinality(image) \in Nat
    BY <2>4, <2>5, FS_Surjection, FS_CardinalityType
  <2>7. Cardinality(room) <= Cardinality(image) /\ Cardinality(room) \in Nat
    BY <2>2, <2>6, FS_Subset, FS_CardinalityType
  <2> QED BY <1>7, <2>1, <2>5, <2>6, <2>7, RateNumbers
<1> QED BY <1>3, <1>8, <1>9

-----------------------------------------------------------------------------
(* The last hop that no proxy wrote down is the client, whatever the       *)
(* header said before the first proxy saw it.                              *)
LEMMA ClientFound ==
  ASSUME NEW o \in Origins
  PROVE  ResolveClientIp(o) = o.client /\ o.client \in Clients /\ o.client \in Addresses
<1>1. o.client \in Clients /\ o.client \notin Proxies /\ o.client \in Addresses
  <2>1. o.client \in Clients BY DEF Origins
  <2>2. Clients \cap Proxies = {} BY RateAssumption
  <2> QED BY <2>1, <2>2 DEF Addresses
<1>2. CASE o.via = << >>
  BY <1>1, <1>2 DEF ResolveClientIp, SocketAddress
<1>3. ASSUME SocketAddress(o) \in Proxies, NEW xff, xff = Forwarded(o),
             Len(xff) \in Nat, NEW n \in 1 .. Len(xff), xff[n] = o.client,
             \A j \in 1 .. Len(xff) : j > n => xff[j] \in Proxies
      PROVE  ResolveClientIp(o) = o.client
  <2> DEFINE outside == {i \in 1 .. Len(xff) : xff[i] \notin Proxies}
             Last(i) == i \in outside /\ \A j \in outside : j <= i
  <2>1. Last(n) BY <1>1, <1>3
  <2>2. \A i : Last(i) => i = n BY <2>1
  <2>3. ResolveClientIp(o) = xff[CHOOSE i \in outside : \A j \in outside : j <= i]
    BY <1>3, <2>1 DEF ResolveClientIp
  <2>4. (CHOOSE i \in outside : \A j \in outside : j <= i) = n
    BY <2>1, <2>2
  <2> QED BY <1>3, <2>3, <2>4
<1>4. o.via \in Seq(Proxies) /\ o.forged \in Seq(Addresses)
  <2>1. /\ o.via \in {<< >>} \cup {<<p>> : p \in Proxies}
                    \cup {<<p, q>> : p \in Proxies, q \in Proxies}
        /\ o.forged \in {<< >>} \cup {<<a>> : a \in Addresses}
    BY DEF Origins
  <2>2. << >> \in Seq(Proxies) /\ << >> \in Seq(Addresses)
    OBVIOUS
  <2>3. ASSUME NEW p \in Proxies, NEW q \in Proxies
        PROVE  <<p>> \in Seq(Proxies) /\ <<p, q>> \in Seq(Proxies)
    OBVIOUS
  <2>4. ASSUME NEW a \in Addresses PROVE <<a>> \in Seq(Addresses)
    OBVIOUS
  <2>5. o.via \in Seq(Proxies)
    <3>1. CASE o.via = << >> BY <3>1, <2>2
    <3>2. CASE \E p \in Proxies : o.via = <<p>>
      <4>1. PICK p \in Proxies : o.via = <<p>> BY <3>2
      <4> QED BY <4>1, <2>3
    <3>3. CASE \E p \in Proxies, q \in Proxies : o.via = <<p, q>>
      <4>1. PICK p \in Proxies, q \in Proxies : o.via = <<p, q>> BY <3>3
      <4> QED BY <4>1, <2>3
    <3> QED BY <2>1, <3>1, <3>2, <3>3
  <2>6. o.forged \in Seq(Addresses)
    <3>1. CASE o.forged = << >> BY <3>1, <2>2
    <3>2. CASE \E a \in Addresses : o.forged = <<a>>
      <4>1. PICK a \in Addresses : o.forged = <<a>> BY <3>2
      <4> QED BY <4>1, <2>4
    <3> QED BY <2>1, <3>1, <3>2
  <2> QED BY <2>5, <2>6
<1>5. CASE o.via # << >>
  <2>1. PICK m : m = Len(o.via) OBVIOUS
  <2>2. m \in Nat \ {0} /\ \A i \in 1 .. m : o.via[i] \in Proxies
    BY <1>4, <1>5, <2>1
  <2>3. SocketAddress(o) \in Proxies
    BY <1>5, <2>1, <2>2 DEF SocketAddress
  <2>4. PICK rest : rest = SubSeq(o.via, 1, m - 1) OBVIOUS
  <2>5. /\ rest \in Seq(Proxies) /\ Len(rest) \in Nat
        /\ \A i \in 1 .. Len(rest) : rest[i] \in Proxies
    <3>1. 1 \in Int /\ m - 1 \in Int /\ \A i \in 1 .. m - 1 : o.via[i] \in Proxies
      BY <2>2
    <3>2. rest \in Seq(Proxies) BY <2>4, <3>1, SubSeqProperties
    <3> QED BY <3>2
  <2>6. rest \in Seq(Addresses) /\ <<o.client>> \in Seq(Addresses)
    BY <1>1, <2>5 DEF Addresses
  <2>7. PICK head : head = o.forged \o <<o.client>> OBVIOUS
  <2>8. PICK n : n = Len(o.forged) + 1 OBVIOUS
  <2>9. head \in Seq(Addresses) /\ Len(head) = n /\ head[n] = o.client /\ n \in Nat \ {0}
    <3>1. Len(o.forged) \in Nat /\ Len(<<o.client>>) = 1 /\ <<o.client>>[1] = o.client
      BY <1>4
    <3>2. /\ head \in Seq(Addresses) /\ Len(head) = Len(o.forged) + Len(<<o.client>>)
          /\ \A i \in 1 .. Len(o.forged) + Len(<<o.client>>) :
                 head[i] = IF i <= Len(o.forged) THEN o.forged[i]
                           ELSE <<o.client>>[i - Len(o.forged)]
      BY <1>4, <2>6, <2>7, ConcatProperties
    <3> QED BY <2>8, <3>1, <3>2
  <2>10. PICK xff : xff = head \o rest OBVIOUS
  <2>11. /\ Len(xff) = n + Len(rest)
         /\ \A i \in 1 .. n + Len(rest) : xff[i] = IF i <= n THEN head[i] ELSE rest[i - n]
    BY <2>6, <2>9, <2>10, ConcatProperties
  <2>12. xff = Forwarded(o)
    BY <1>5, <2>1, <2>4, <2>7, <2>10 DEF Forwarded
  <2>13. n \in 1 .. Len(xff) /\ Len(xff) \in Nat /\ xff[n] = o.client
    BY <2>5, <2>9, <2>11
  <2>14. ASSUME NEW j \in 1 .. Len(xff), j > n PROVE xff[j] \in Proxies
    <3>1. PICK l : l = Len(rest) OBVIOUS
    <3>2. l \in Nat /\ n \in Nat /\ j \in 1 .. n + l
      BY <2>5, <2>9, <2>11, <3>1
    <3>3. j - n \in 1 .. l /\ ~ (j <= n)
      BY <2>14, <3>2
    <3>4. xff[j] = rest[j - n]
      BY <2>11, <3>1, <3>2, <3>3
    <3> QED BY <2>5, <3>1, <3>3, <3>4
  <2>15. ResolveClientIp(o) = o.client
    BY <1>3, <2>3, <2>12, <2>13, <2>14
  <2> QED BY <1>1, <2>15
<1> QED BY <1>1, <1>2, <1>5

-----------------------------------------------------------------------------
(* Nothing new is tried; time passes, or entries that do not count go.     *)
LEMMA TimeKeepsBooks ==
  ASSUME CountsIInv, tried' = tried, clock' \in Times, clock' >= clock, redisUp' \in BOOLEAN,
         hits' \in [Hosts -> [BucketKeys -> SUBSET (Checks \X Times)]],
         zset' \in [BucketKeys -> SUBSET (Checks \X Times)],
         \A r \in Places, j \in BucketKeys :
             Recent(Store(r, j)) \subseteq Store(r, j)' /\ Store(r, j)' \subseteq Store(r, j)
  PROVE  CountsIInv'
<1>1. /\ clock \in Nat /\ clock' \in Nat /\ tried \in SUBSET Tries
      /\ \A b \in tried : b.time <= clock /\ b.time \in Nat
  BY RateNumbers DEF CountsIInv, Times, TriesOK, Tries
<1>2. TriesOK'
  BY <1>1 DEF CountsIInv, TriesOK
<1>3. OncePerKey' /\ WindowHolds' /\ QuietIsAdmitted'
  BY DEF CountsIInv, OncePerKey, WindowHolds, Admitted, QuietIsAdmitted, HeldAgainst
<1>4. Covered'
  <2> SUFFICES ASSUME NEW b \in tried, b.ok, b.time + Window > clock'
               PROVE  Entry(b) \in Store(b.place, b.key)'
    BY DEF Covered, Entry
  <2>1. b.time + Window > clock BY <1>1, RateNumbers
  <2>2. Entry(b) \in Store(b.place, b.key)
    BY <2>1 DEF CountsIInv, Covered
  <2>3. Entry(b)[2] = b.time /\ b.place \in Places /\ b.key \in BucketKeys
    BY <1>1 DEF Entry, Tries
  <2>4. Entry(b) \in Recent(Store(b.place, b.key))
    BY <2>1, <2>2, <2>3 DEF Recent
  <2> QED BY <2>3, <2>4
<1>5. Owed'
  <2> SUFFICES ASSUME NEW r \in Places, NEW j \in BucketKeys, NEW z \in Store(r, j)'
               PROVE  \E b \in tried : Entry(b) = z /\ b.key = j /\ r \in b.held
    BY DEF Owed, Entry
  <2>1. z \in Store(r, j) OBVIOUS
  <2> QED BY <2>1 DEF CountsIInv, Owed
<1> QED BY <1>2, <1>3, <1>4, <1>5 DEF CountsIInv

LEMMA CallersRest ==
  ASSUME RateIInv, UNCHANGED <<req, tried>> PROVE CallersOK' /\ ClientIsCharged'
BY DEF RateIInv, CallersOK, FirstKey, ClientIsCharged

LEMMA TickKeeps == ASSUME RateIInv, Tick PROVE RateIInv'
<1>1. clock \in Nat /\ clock' \in Times /\ clock' >= clock
  BY RateNumbers DEF Tick, RateIInv, CountsIInv, Times
<1>2. UNCHANGED <<redisUp, hits, zset, req, tried>> BY DEF Tick
<1>3. \A r \in Places, j \in BucketKeys :
          Recent(Store(r, j)) \subseteq Store(r, j)' /\ Store(r, j)' \subseteq Store(r, j)
  BY <1>2 DEF Recent, Store
<1>4. CountsIInv' BY <1>1, <1>2, <1>3, TimeKeepsBooks DEF RateIInv, CountsIInv
<1> QED BY <1>2, <1>4, CallersRest DEF RateIInv

LEMMA TogglesKeep == ASSUME RateIInv, RedisToggles PROVE RateIInv'
<1>1. clock \in Nat /\ clock' = clock /\ clock' \in Times /\ clock' >= clock
  BY RateNumbers DEF RedisToggles, RateIInv, CountsIInv, Times
<1>2. redisUp' \in BOOLEAN /\ UNCHANGED <<hits, req, tried>>
  BY DEF RedisToggles
<1>3. zset \in [BucketKeys -> SUBSET (Checks \X Times)]
  BY DEF RateIInv, CountsIInv
<1>4. zset' \in {zset, [k \in BucketKeys |-> Recent(zset[k])]}
  BY DEF RedisToggles
<1>5. zset' \in [BucketKeys -> SUBSET (Checks \X Times)]
  BY <1>3, <1>4 DEF Recent
<1>6. \A j \in BucketKeys : Recent(zset[j]) \subseteq zset'[j] /\ zset'[j] \subseteq zset[j]
  BY <1>3, <1>4 DEF Recent
<1>7. \A r \in Places, j \in BucketKeys :
          Recent(Store(r, j)) \subseteq Store(r, j)' /\ Store(r, j)' \subseteq Store(r, j)
  BY <1>2, <1>6 DEF Store, Recent
<1>8. CountsIInv' BY <1>1, <1>2, <1>5, <1>7, TimeKeepsBooks DEF RateIInv, CountsIInv
<1> QED BY <1>2, <1>8, CallersRest DEF RateIInv

(* A check writes its request's row and its one new entry.                 *)
LEMMA CheckKeeps ==
  ASSUME RateIInv, NEW q \in Checks, NEW k \in BucketKeys, NEW ok \in BOOLEAN,
         Check(q, k, ok), UNCHANGED <<clock, redisUp>>,
         \A b \in tried : b.by = q => b.key # k,
         NEW row, req' = [req EXCEPT ![q] = row], row \in Requests,
         row.step # "new", row.key \in Addresses, row.key = row.client,
         row.step = "second" => k = FirstKey(row) /\ \A b \in tried : b.by # q
  PROVE  RateIInv'
<1>1. PICK p \in Places, held \in SUBSET Places : Tried(q, k, p, held, ok)
  BY CheckIsTried DEF RateIInv
<1>2. CountsIInv'
  <2>1. CountsIInv /\ clock' = clock /\ redisUp' = redisUp BY DEF RateIInv
  <2>2. TriesOK' /\ Covered' /\ Owed' /\ OncePerKey' BY <1>1, <2>1, BooksKept
  <2>3. WindowHolds' BY <1>1, <2>1, WindowKept
  <2>4. QuietIsAdmitted' BY <1>1, <2>1, QuietKept
  <2>5. clock' \in Times /\ redisUp' \in BOOLEAN BY <2>1 DEF CountsIInv, Times
  <2>6. /\ hits' \in [Hosts -> [BucketKeys -> SUBSET (Checks \X Times)]]
        /\ zset' \in [BucketKeys -> SUBSET (Checks \X Times)]
    BY <1>1 DEF Tried
  <2> QED BY <2>2, <2>3, <2>4, <2>5, <2>6 DEF CountsIInv
<1>3. PICK a : a = Try(q, k, p, held, ok) OBVIOUS
<1>4. tried' = tried \cup {a} /\ a.by = q /\ a.key = k
  BY <1>1, <1>3 DEF Tried, Try
<1>5. req \in [Checks -> Requests] /\ \A b \in tried : b.by \in Checks
  BY DEF RateIInv, CallersOK, CountsIInv, TriesOK, Tries
<1>6. /\ req' \in [Checks -> Requests] /\ req'[q] = row
      /\ \A c \in Checks : c # q => req'[c] = req[c]
  BY <1>5
<1>7. ClientIsCharged'
  BY <1>6 DEF RateIInv, ClientIsCharged
<1>8. CallersOK'
  <2>1. \A c \in Checks : req'[c].step # "new" => req'[c].key \in Addresses
    BY <1>6 DEF RateIInv, CallersOK
  <2>2. ASSUME NEW b \in tried'
        PROVE  /\ req'[b.by].step # "new"
               /\ req'[b.by].step = "second" => b.key = FirstKey(req'[b.by])
    <3>1. CASE b = a BY <1>4, <1>6, <3>1
    <3>2. CASE b \in tried /\ b.by = q BY <1>6, <3>2
    <3>3. CASE b \in tried /\ b.by # q
      BY <1>5, <1>6, <3>3 DEF RateIInv, CallersOK
    <3> QED BY <1>4, <3>1, <3>2, <3>3
  <2> QED BY <1>6, <2>1, <2>2 DEF CallersOK, FirstKey
<1> QED BY <1>2, <1>7, <1>8 DEF RateIInv

LEMMA FirstCheckKeeps == ASSUME RateIInv, NEW q \in Checks, FirstCheck(q) PROVE RateIInv'
<1>1. PICK o \in Origins, ok \in BOOLEAN :
          /\ Check(q, IF req[q].route = "both" THEN req[q].token ELSE ResolveClientIp(o), ok)
          /\ req' = [req EXCEPT ![q] = [@ EXCEPT
                 !.ok = ok, !.client = o.client, !.key = ResolveClientIp(o),
                 !.step = CASE req[q].route = "both" -> "second"
                            [] req[q].route = "general" /\ ok -> "second"
                            [] OTHER -> IF ok THEN "passed" ELSE "rejected"]]
  BY DEF FirstCheck
<1>2. ResolveClientIp(o) = o.client /\ o.client \in Clients /\ o.client \in Addresses
  BY ClientFound
<1>3. PICK r : r = req[q] OBVIOUS
<1>4. r \in Requests /\ r.step = "new" /\ req \in [Checks -> Requests]
  BY <1>3 DEF FirstCheck, RateIInv, CallersOK
<1>5. PICK row : row = [r EXCEPT !.ok = ok, !.client = o.client, !.key = o.client,
                 !.step = CASE r.route = "both" -> "second"
                            [] r.route = "general" /\ ok -> "second"
                            [] OTHER -> IF ok THEN "passed" ELSE "rejected"]
  OBVIOUS
<1>6. PICK k : k = IF r.route = "both" THEN r.token ELSE o.client OBVIOUS
<1>7. req' = [req EXCEPT ![q] = row] /\ Check(q, k, ok)
  BY <1>1, <1>2, <1>3, <1>5, <1>6
<1>8. /\ row \in Requests /\ row.step \in {"second", "passed", "rejected"}
      /\ row.key = o.client /\ row.client = o.client /\ row.route = r.route /\ row.token = r.token
  BY <1>2, <1>4, <1>5 DEF Requests
<1>9. k \in BucketKeys /\ k = FirstKey(row)
  BY <1>2, <1>4, <1>6, <1>8 DEF Requests, BucketKeys, FirstKey
<1>10. \A b \in tried : b.by # q
  BY <1>3, <1>4 DEF RateIInv, CallersOK
<1>11. UNCHANGED <<clock, redisUp>> BY DEF FirstCheck
<1> QED BY <1>2, <1>7, <1>8, <1>9, <1>10, <1>11, CheckKeeps

LEMMA SecondCheckKeeps == ASSUME RateIInv, NEW q \in Checks, SecondCheck(q) PROVE RateIInv'
<1>1. PICK ok \in BOOLEAN :
          /\ Check(q, IF req[q].route = "both" THEN req[q].key ELSE req[q].token, ok)
          /\ req' = [req EXCEPT ![q].step = IF ok /\ req[q].ok THEN "passed" ELSE "rejected"]
  BY DEF SecondCheck
<1>2. PICK r : r = req[q] OBVIOUS
<1>3. /\ r \in Requests /\ r.step = "second" /\ req \in [Checks -> Requests]
      /\ r.key \in Addresses
  BY <1>2 DEF SecondCheck, RateIInv, CallersOK
<1>4. r.key = r.client
  <2>1. "no key" \notin Addresses BY RateAssumption DEF Addresses
  <2> QED BY <1>2, <1>3, <2>1 DEF RateIInv, ClientIsCharged, NoBucket
<1>5. PICK row : row = [r EXCEPT !.step = IF ok /\ r.ok THEN "passed" ELSE "rejected"] OBVIOUS
<1>6. PICK k : k = IF r.route = "both" THEN r.key ELSE r.token OBVIOUS
<1>7. req' = [req EXCEPT ![q] = row] /\ Check(q, k, ok)
  BY <1>1, <1>2, <1>3, <1>5, <1>6
<1>8. /\ row \in Requests /\ row.step \in {"passed", "rejected"}
      /\ row.key = r.key /\ row.client = r.client
  BY <1>3, <1>5 DEF Requests
<1>9. k \in BucketKeys /\ k # FirstKey(r)
  <2>1. Bearers \cap Addresses = {} BY RateAssumption DEF Addresses
  <2>2. r.token \in Bearers BY <1>3 DEF Requests
  <2> QED BY <1>3, <1>6, <2>1, <2>2 DEF BucketKeys, FirstKey
<1>10. \A b \in tried : b.by = q => b.key # k
  BY <1>2, <1>3, <1>9 DEF RateIInv, CallersOK
<1>11. UNCHANGED <<clock, redisUp>> BY DEF SecondCheck
<1> QED BY <1>3, <1>4, <1>7, <1>8, <1>9, <1>10, <1>11, CheckKeeps

LEMMA RateStep == ASSUME RateIInv, [RateNext]_rateVars PROVE RateIInv'
<1>1. CASE Tick BY <1>1, TickKeeps
<1>2. CASE RedisToggles BY <1>2, TogglesKeep
<1>3. ASSUME NEW q \in Checks, FirstCheck(q) \/ SecondCheck(q) PROVE RateIInv'
  BY <1>3, FirstCheckKeeps, SecondCheckKeeps
<1>4. CASE UNCHANGED rateVars
  <2> USE <1>4 DEF rateVars
  <2>1. \A r \in Places, j \in BucketKeys :
            Recent(Store(r, j)) \subseteq Store(r, j)' /\ Store(r, j)' \subseteq Store(r, j)
    BY DEF Recent, Store
  <2>2. clock \in Nat /\ clock' \in Times /\ clock' >= clock
    BY RateNumbers DEF RateIInv, CountsIInv, Times
  <2>3. CountsIInv' BY <2>1, <2>2, TimeKeepsBooks DEF RateIInv, CountsIInv
  <2> QED BY <2>3, CallersRest DEF RateIInv
<1> QED BY <1>1, <1>2, <1>3, <1>4 DEF RateNext

LEMMA RateImplies == ASSUME RateIInv PROVE RateInv
<1>1. RateTypeOK
  BY DEF RateIInv, CountsIInv, CallersOK, TriesOK, RateTypeOK
<1> QED BY <1>1 DEF RateIInv, CountsIInv, RateInv

(* However checks, replicas and failures of Redis interleave, a key has at *)
(* most Limit admissions per window in one place, a refusal is owed to     *)
(* Limit others, and it is the client's own address that is charged.       *)
THEOREM RateSound == RateSpec => []RateInv
<1>1. RateInit => RateIInv BY RateStart
<1>2. RateIInv /\ [RateNext]_rateVars => RateIInv' BY RateStep
<1>3. RateIInv => RateInv BY RateImplies
<1> QED BY <1>1, <1>2, <1>3, PTL DEF RateSpec
===============================================================================
