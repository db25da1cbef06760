----------------------------- MODULE MCAccounts -----------------------------
(* Humans, agents and what they may ask for: small instances of SignIn,    *)
(* Claims, OAuth, TemplateCatalog, RateLimit and McpSessions. A behaviour  *)
(* exercises one of them, its focus, and leaves the others as they start.  *)
EXTENDS SignIn, Claims, OAuth, TemplateCatalog, RateLimit, McpSessions, TLC

VARIABLE focus

CONSTANTS b1, e1,         \* SignIn: a browser, an address
          g1, h1, c1,     \* Claims: an agent, a human, a code
          o1, k1          \* OAuth: a decision, a consent

(* Version 3 of the template does not follow version 1.                    *)
BreakingChange == {<<1, 3>>}

(* Requests are interchangeable. So that one set of permutations does,     *)
(* those of SignIn, Claims and RateLimit bear the same names.              *)
Symmetry == Permutations(Visits)

-----------------------------------------------------------------------------
(* Initial states: out of focus, one of those the component may start in.  *)
SignInStarts ==
    \/ focus = "sign-in" /\ SignInInit
    \/ /\ focus # "sign-in"
       /\ human = [e \in Emails |-> "none"]
       /\ visit = [v \in Visits |-> [step |-> "new", browser |-> b1, link |-> NoLink,
                                     invited |-> FALSE]]
       /\ invite = [i \in Invites |-> [step |-> "new", email |-> e1, known |-> FALSE]]
       /\ SignInInit

(* Two requests meet in the agent or in the code; whose come first is a    *)
(* matter of names. The panes are those of an agent that is claimed.       *)
ClaimsStart ==
    \/ /\ focus = "claims" /\ ClaimsInit
       /\ code[c1].human = h1 /\ \A m \in Makers : maker[m].agent = g1
       /\ \E x \in Claimers : claim[x].agent = g1 /\ claim[x].code = c1
       /\ \A x, y \in Claimers : x # y => (claim[x].agent = claim[y].agent
                                            <=> claim[x].code # claim[y].code)
       /\ (\A x \in Claimers : claim[x].code = c1) => \A c \in Codes : code[c].human = h1
    \/ /\ focus # "claims"
       /\ code = [c \in Codes |-> [state |-> "new", human |-> h1]]
       /\ claim = [x \in Claimers |-> [step |-> "auth", agent |-> g1, code |-> c1, moved |-> {},
                                        winners |-> {}, found |-> {}]]
       /\ maker = [m \in Makers |-> [step |-> "auth", agent |-> g1, owner |-> Nobody]]
       /\ ClaimsInit

(* OAuth after a first connection: o1 was answered, its code exchanged.    *)
Connected ==
    /\ consent = [c \in Consents |-> IF c = k1 THEN "gone" ELSE "new"]
    /\ keysMade = 1
    /\ connector = <<[hash |-> 1, sealed |-> 1, revoked |-> FALSE, replaced |-> "no"]>>
    /\ decision \in [Decisions -> [step : {"read"}, consent : Consents, agent : {0},
                                   key : {NoKey}]
                            \cup [step : {"done"}, consent : {k1}, agent : {1}, key : {1}]]
    /\ \A d \in Decisions : decision[d].step = "done" <=> d = o1
    /\ authCode = [d \in Decisions |-> IF d = o1 THEN "used" ELSE "none"]
    /\ handover = [d \in Decisions |-> NoKey]
    /\ pair = <<[access |-> "live", refresh |-> "live", agent |-> 1, key |-> 1,
                 code |-> o1, parent |-> 0]>>
    /\ exchange \in [Exchanges -> [step : {"new"}, code : Decisions, parent : {0},
                                   key : {NoKey}]]
    /\ revoker = [r \in Revokers |-> [step |-> "new", pair |-> 0]]
    /\ codeOf = [d \in Decisions |-> IF d = o1 THEN k1 ELSE NoConsent]
    /\ cut = {}

(* Which of two consents o1 answers is a matter of names; out of focus all *)
(* requests name the same consent and code.                                *)
OAuthStarts ==
    \/ focus = "oauth" /\ (Connected \/ (OAuthInit /\ decision[o1].consent = k1))
    \/ /\ focus # "oauth"
       /\ keysMade = 0
       /\ decision = [d \in Decisions |-> [step |-> "read", consent |-> k1, agent |-> 0,
                                           key |-> NoKey]]
       /\ exchange = [x \in Exchanges |-> [step |-> "new", code |-> o1, parent |-> 0,
                                           key |-> NoKey]]
       /\ OAuthInit

RateStarts ==
    \/ focus = "rate" /\ RateInit
    \/ /\ focus # "rate"
       /\ redisUp = TRUE
       /\ \E h \in Hosts, b \in Bearers :
              req = [r \in Checks |-> [step |-> "new", ok |-> TRUE, at |-> h,
                                         route |-> "one", token |-> b,
                                         client |-> NoBucket, key |-> NoBucket]]
       /\ RateInit

AccountsInit ==
    /\ focus \in {"sign-in", "claims", "oauth", "catalog", "rate", "mcp"}
    /\ SignInStarts /\ ClaimsStart /\ OAuthStarts /\ CatalogInit /\ RateStarts /\ McpInit

AccountsNext ==
    /\ UNCHANGED focus
    /\ \/ /\ focus = "sign-in" /\ SignInNext
          /\ UNCHANGED <<claimVars, oauthVars, catalogVars, rateVars, mcpVars>>
       \/ /\ focus = "claims" /\ ClaimsNext
          /\ UNCHANGED <<signInVars, oauthVars, catalogVars, rateVars, mcpVars>>
       \/ /\ focus = "oauth" /\ OAuthNext
          /\ UNCHANGED <<signInVars, claimVars, catalogVars, rateVars, mcpVars>>
       \/ /\ focus = "catalog" /\ CatalogNext
          /\ UNCHANGED <<signInVars, claimVars, oauthVars, rateVars, mcpVars>>
       \/ /\ focus = "rate" /\ RateNext
          /\ UNCHANGED <<signInVars, claimVars, oauthVars, catalogVars, mcpVars>>
       \/ /\ focus = "mcp" /\ McpNext
          /\ UNCHANGED <<signInVars, claimVars, oauthVars, catalogVars, rateVars>>

accountsVars == <<signInVars, claimVars, oauthVars, catalogVars, rateVars, mcpVars, focus>>

AccountsSpec == AccountsInit /\ [][AccountsNext]_accountsVars
=============================================================================
