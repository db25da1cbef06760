--------------------------- MODULE Accounts_Proofs ----------------------------
(* What holds of sign-in, of the claims of agents, of the MCP sessions and *)
(* of the catalog of templates, for every number of humans and requests.   *)
(* Each component has its inductive invariant: SignInIInv, ClaimsIInv,     *)
(* McpIInv and CatalogIInv. A name stands for it, for the lemmas that its  *)
(* proof needs, and for the theorem at the end of its part.                *)
EXTENDS SignIn, Claims, McpSessions, TemplateCatalog, TLAPS, FiniteSetTheorems,
        WellFoundedInduction

-----------------------------------------------------------------------------
(* A visit that has used its link and may still sign in with it.           *)
Holding(v) == visit[v].step \in {"find", "create", "verify", "bind", "login"}
Arrived(v) == visit[v].step \notin {"new", "done"}

(* A link that was asked for has its address for good, and the nonce and   *)
(* the visits that follow it belong to browsers that asked.                *)
LinksAsked ==
    /\ \A l \in Links : link[l].state # "new" => link[l].email \in Emails
    /\ \A b \in Browsers : nonce[b] # NoLink =>
           link[nonce[b]].state # "new" /\ <<b, link[nonce[b]].email>> \in asked
    /\ \A v \in Visits : visit[v].link # NoLink => link[visit[v].link].state # "new"
    /\ \A v \in Visits : Arrived(v) =>
           visit[v].link # NoLink /\ <<visit[v].browser, Address(v)>> \in asked

(* One visit uses a link, and then the link stays used.                    *)
LinksUsed ==
    /\ \A v \in Visits : Holding(v) =>
           link[visit[v].link].state \in {"used", "gone"} /\ logins[visit[v].link] = 0
    /\ \A v, w \in Visits : Holding(v) /\ Holding(w) /\ visit[v].link = visit[w].link => v = w
    /\ \A l \in Links : logins[l] # 0 => link[l].state \in {"used", "gone"}

(* The invitation a visit has seen is there until it is bound.             *)
InvitationsKept ==
    /\ \A v \in Visits : Arrived(v) /\ visit[v].invited =>
           /\ grant[Address(v)] # "none"
           /\ visit[v].step = "login" => grant[Address(v)] = "bound"
    /\ \A b \in promised : session[b] \in Emails /\ grant[session[b]] = "bound"

SignInIInv ==
    /\ SignInTypeOK /\ LinksAsked /\ LinksUsed /\ InvitationsKept
    /\ LinkLogsInOnce /\ SignedInAsAsked

SignInRest == LinksAsked /\ LinksUsed /\ InvitationsKept /\ LinkLogsInOnce /\ SignedInAsAsked
SignInCore == <<link, nonce, session, grant, visit, logins, asked, promised>>

LEMMA AdvanceVisit ==
  ASSUME visit \in [Visits -> VisitRow], NEW v \in Visits, NEW s \in VisitSteps,
         Advance(v, s)
  PROVE  /\ visit' \in [Visits -> VisitRow]
         /\ visit'[v] = [visit[v] EXCEPT !.step = s]
         /\ \A w \in Visits : /\ visit'[w].link = visit[w].link
                              /\ visit'[w].browser = visit[w].browser
                              /\ visit'[w].invited = visit[w].invited
                              /\ w # v => visit'[w].step = visit[w].step
         /\ visit'[v].step = s
<1>1. visit[v] \in VisitRow
  OBVIOUS
<1>2. [visit[v] EXCEPT !.step = s] \in VisitRow
  BY <1>1 DEF VisitRow
<1>3. visit' = [visit EXCEPT ![v] = [visit[v] EXCEPT !.step = s]]
  BY DEF Advance
<1>4. visit' \in [Visits -> VisitRow]
  BY <1>2, <1>3
<1>5. visit'[v] = [visit[v] EXCEPT !.step = s]
  BY <1>3
<1>6. \A w \in Visits \ {v} : visit'[w] = visit[w]
  BY <1>3
<1>7. /\ visit'[v].link = visit[v].link /\ visit'[v].browser = visit[v].browser
      /\ visit'[v].invited = visit[v].invited /\ visit'[v].step = s
  BY <1>1, <1>5 DEF VisitRow
<1> QED BY <1>4, <1>5, <1>6, <1>7

LEMMA SignInTypeStep ==
  ASSUME SignInTypeOK, LinksAsked, SignInNext
  PROVE  SignInTypeOK'
<1>a. human \in [Emails -> {"none", "unverified", "verified"}]
  BY DEF SignInTypeOK
<1>b. link \in [Links -> LinkRow]
  BY DEF SignInTypeOK
<1>c. nonce \in [Browsers -> Links \cup {NoLink}]
  BY DEF SignInTypeOK
<1>d. session \in [Browsers -> Emails \cup {NoEmail}]
  BY DEF SignInTypeOK
<1>e. grant \in [Emails -> {"none", "pending", "bound"}]
  BY DEF SignInTypeOK
<1>f. accessMode \in Modes
  BY DEF SignInTypeOK
<1>g. visit \in [Visits -> VisitRow]
  BY DEF SignInTypeOK
<1>h. invite \in [Invites -> InviteRow]
  BY DEF SignInTypeOK
<1>i. logins \in [Links -> Nat] /\ asked \subseteq Browsers \X Emails /\ promised \subseteq Browsers
  BY DEF SignInTypeOK
<1>1. human' \in [Emails -> {"none", "unverified", "verified"}]
  <2>1. \A v \in Visits : human' = human \/ human' = [human EXCEPT ![Address(v)] = "verified"]
                          => human' \in [Emails -> {"none", "unverified", "verified"}]
    BY <1>a
  <2> QED BY <2>1, <1>a DEF SignInNext, EndSession, RequestLink, VisitStep, OpenLink, Consume,
             FindHuman, CreateHuman, VerifyHuman, BindGrants, CreateLogin, VisitFails,
             LinkExpires, SweepLink, InviteStep, LookUpInvitee, LookUpGrant, UpdateGrant,
             UpsertGrant, RevokeGrant, SetVisibility, SignInState
<1>2. link' \in [Links -> LinkRow]
  <2>1. ASSUME NEW l \in Links, NEW s \in {"new", "live", "expired", "used", "gone"},
               link' = [link EXCEPT ![l].state = s]
        PROVE  link' \in [Links -> LinkRow]
    <3>1. [link[l] EXCEPT !.state = s] \in LinkRow
      BY <1>b DEF LinkRow
    <3> QED BY <1>b, <2>1, <3>1
  <2>2. CASE \E v \in Visits : Consume(v)
    <3>1. PICK v \in Visits : Consume(v)
      BY <2>2
    <3>2. visit[v].link \in Links \/ visit[v].link \notin Links
      OBVIOUS
    <3>3. CASE visit[v].link \in Links
      BY <3>1, <3>3, <2>1, <1>b DEF Consume
    <3>4. CASE visit[v].link \notin Links
      BY <3>1, <3>4, <1>b DEF Consume
    <3> QED BY <3>2, <3>3, <3>4
  <2>3. CASE \E b \in Browsers, e \in Emails : RequestLink(b, e)
    BY <2>3, <1>b DEF RequestLink, LinkRow
  <2>4. CASE \E l \in Links : LinkExpires(l) \/ SweepLink(l)
    BY <2>4, <2>1 DEF LinkExpires, SweepLink
  <2>5. ASSUME UNCHANGED link
        PROVE  link' \in [Links -> LinkRow]
    BY <2>5, <1>b
  <2> QED BY <2>2, <2>3, <2>4, <2>5 DEF SignInNext, EndSession, VisitStep, OpenLink,
             FindHuman, CreateHuman, VerifyHuman, BindGrants, CreateLogin, VisitFails,
             InviteStep, LookUpInvitee, LookUpGrant, UpdateGrant,
             UpsertGrant, RevokeGrant, SetVisibility, SignInState
<1>3. visit' \in [Visits -> VisitRow]
  <2>1. ASSUME NEW v \in Visits, NEW s \in VisitSteps, Advance(v, s)
        PROVE  visit' \in [Visits -> VisitRow]
    BY <2>1, <1>g, AdvanceVisit
  <2>2. CASE \E v \in Visits : OpenLink(v)
    <3>1. PICK v \in Visits : OpenLink(v)
      BY <2>2
    <3>2. PICK l \in Links, s \in VisitSteps, i \in BOOLEAN :
             visit' = [visit EXCEPT ![v].link = l, ![v].step = s, ![v].invited = i]
      BY <3>1 DEF OpenLink, VisitSteps
    <3>3. [visit[v] EXCEPT !.link = l, !.step = s, !.invited = i] \in VisitRow
      BY <1>g DEF VisitRow
    <3>4. visit' = [visit EXCEPT ![v] = [visit[v] EXCEPT !.link = l, !.step = s, !.invited = i]]
      BY <3>2
    <3> QED BY <1>g, <3>3, <3>4
  <2>3. CASE \E v \in Visits : BindGrants(v)
    <3>1. PICK v \in Visits : BindGrants(v)
      BY <2>3
    <3>2. [visit[v] EXCEPT !.step = "login", !.invited = FALSE] \in VisitRow
      BY <1>g DEF VisitRow, VisitSteps
    <3>3. visit' = [visit EXCEPT ![v] = [visit[v] EXCEPT !.step = "login", !.invited = FALSE]]
          => visit' \in [Visits -> VisitRow]
      BY <1>g, <3>2
    <3>4. Advance(v, "login")
          \/ visit' = [visit EXCEPT ![v] = [visit[v] EXCEPT !.step = "login", !.invited = FALSE]]
      BY <3>1 DEF BindGrants
    <3> QED BY <2>1, <3>3, <3>4 DEF VisitSteps
  <2>4. CASE \E e \in Emails : RevokeGrant(e)
    <3>1. PICK e \in Emails : RevokeGrant(e)
      BY <2>4
    <3>2. \A v \in Visits, i \in BOOLEAN : [visit[v] EXCEPT !.invited = i] \in VisitRow
      BY <1>g DEF VisitRow
    <3>3. \A v \in Visits : visit[v].invited \in BOOLEAN
      BY <1>g DEF VisitRow
    <3>4. visit' = [v \in Visits |-> [visit[v] EXCEPT !.invited =
                     visit[v].invited /\ visit[v].link # NoLink /\ Address(v) # e]]
      BY <3>1 DEF RevokeGrant
    <3> QED BY <3>2, <3>3, <3>4
  <2>5. ASSUME UNCHANGED visit
        PROVE  visit' \in [Visits -> VisitRow]
    BY <2>5, <1>g
  <2>6. CASE \E v \in Visits : Consume(v) \/ FindHuman(v) \/ CreateHuman(v) \/ VerifyHuman(v)
                               \/ CreateLogin(v) \/ VisitFails(v)
    <3>1. PICK v \in Visits : Consume(v) \/ FindHuman(v) \/ CreateHuman(v) \/ VerifyHuman(v)
                               \/ CreateLogin(v) \/ VisitFails(v)
      BY <2>6
    <3>2. \E s \in VisitSteps : Advance(v, s)
      <4>1. CASE Consume(v)
        BY <4>1 DEF Consume, VisitSteps
      <4>2. CASE FindHuman(v)
        BY <4>2 DEF FindHuman, VisitSteps
      <4>3. CASE CreateHuman(v) \/ VerifyHuman(v) \/ CreateLogin(v) \/ VisitFails(v)
        BY <4>3 DEF CreateHuman, VerifyHuman, CreateLogin, VisitFails, VisitSteps
      <4> QED BY <3>1, <4>1, <4>2, <4>3
    <3> QED BY <2>1, <3>2
  <2> QED BY <2>2, <2>3, <2>4, <2>5, <2>6 DEF SignInNext, EndSession, RequestLink, VisitStep,
             LinkExpires, SweepLink, InviteStep, LookUpInvitee, LookUpGrant, UpdateGrant,
             UpsertGrant, SetVisibility, SignInState
<1>4. invite' \in [Invites -> InviteRow]
  <2>1. CASE \E i \in Invites : InviteStep(i)
    <3>1. PICK i \in Invites : InviteStep(i)
      BY <2>1
    <3>2. \A s \in {"new", "look", "update", "upsert", "done"} : \A k \in BOOLEAN :
             /\ [invite[i] EXCEPT !.step = s, !.known = k] \in InviteRow
             /\ [invite[i] EXCEPT !.step = s] \in InviteRow
      BY <1>h DEF InviteRow
    <3>3. \E s \in {"new", "look", "update", "upsert", "done"} : \E k \in BOOLEAN :
             \/ invite' = [invite EXCEPT ![i] = [invite[i] EXCEPT !.step = s, !.known = k]]
             \/ invite' = [invite EXCEPT ![i] = [invite[i] EXCEPT !.step = s]]
      <4>1. CASE LookUpInvitee(i)
        <5> DEFINE k == human[invite[i].email] # "none"
                   s == IF k THEN "look" ELSE "upsert"
        <5>1. invite' = [invite EXCEPT ![i] = [invite[i] EXCEPT !.step = s, !.known = k]]
          BY <4>1 DEF LookUpInvitee
        <5>2. k \in BOOLEAN /\ s \in {"new", "look", "update", "upsert", "done"}
          OBVIOUS
        <5> QED BY <5>1, <5>2
      <4>2. CASE LookUpGrant(i)
        <5> DEFINE s == IF grant[invite[i].email] = "bound" THEN "update" ELSE "upsert"
        <5>1. invite' = [invite EXCEPT ![i] = [invite[i] EXCEPT !.step = s]]
          BY <4>2 DEF LookUpGrant, Proceed
        <5>2. s \in {"new", "look", "update", "upsert", "done"}
          OBVIOUS
        <5> QED BY <5>1, <5>2
      <4>3. CASE UpdateGrant(i) \/ UpsertGrant(i)
        BY <4>3 DEF UpdateGrant, UpsertGrant, Proceed
      <4> QED BY <3>1, <4>1, <4>2, <4>3 DEF InviteStep
    <3> QED BY <1>h, <3>2, <3>3
  <2>2. ASSUME UNCHANGED invite
        PROVE  invite' \in [Invites -> InviteRow]
    BY <2>2, <1>h
  <2> QED BY <2>1, <2>2 DEF SignInNext, EndSession, RequestLink, VisitStep, OpenLink, Consume,
             FindHuman, CreateHuman, VerifyHuman, BindGrants, CreateLogin, VisitFails,
             LinkExpires, SweepLink, RevokeGrant, SetVisibility, SignInState, sharing
<1>5. grant' \in [Emails -> {"none", "pending", "bound"}]
  <2>1. CASE \E i \in Invites : UpsertGrant(i)
    BY <2>1, <1>e DEF UpsertGrant
  <2>2. CASE \E v \in Visits : BindGrants(v)
    <3>1. PICK v \in Visits : BindGrants(v)
      BY <2>2
    <3>2. grant' = grant \/ grant' = [grant EXCEPT ![Address(v)] =
                               IF grant[Address(v)] = "pending" THEN "bound" ELSE grant[Address(v)]]
      BY <3>1 DEF BindGrants
    <3> QED BY <1>e, <3>2
  <2>3. CASE \E e \in Emails : RevokeGrant(e)
    BY <2>3, <1>e DEF RevokeGrant
  <2>4. ASSUME UNCHANGED grant
        PROVE  grant' \in [Emails -> {"none", "pending", "bound"}]
    BY <2>4, <1>e
  <2> QED BY <2>1, <2>2, <2>3, <2>4 DEF SignInNext, EndSession, RequestLink, VisitStep, OpenLink,
             Consume, FindHuman, CreateHuman, VerifyHuman, CreateLogin, VisitFails, InviteStep,
             LookUpInvitee, LookUpGrant, UpdateGrant,
             LinkExpires, SweepLink, SetVisibility, SignInState, sharing
<1>6. accessMode' \in Modes
  BY <1>f DEF SignInNext, EndSession, RequestLink, VisitStep, OpenLink,
             Consume, FindHuman, CreateHuman, VerifyHuman, BindGrants, CreateLogin, VisitFails,
             InviteStep, LookUpInvitee, LookUpGrant, UpdateGrant, UpsertGrant, RevokeGrant,
             LinkExpires, SweepLink, SetVisibility, SignInState, sharing
<1>7. nonce' \in [Browsers -> Links \cup {NoLink}]
  <2>1. CASE \E b \in Browsers, e \in Emails : RequestLink(b, e)
    BY <2>1, <1>c DEF RequestLink
  <2>2. CASE \E v \in Visits : CreateLogin(v)
    BY <2>2, <1>c DEF CreateLogin
  <2>3. ASSUME UNCHANGED nonce
        PROVE  nonce' \in [Browsers -> Links \cup {NoLink}]
    BY <2>3, <1>c
  <2> QED BY <2>1, <2>2, <2>3 DEF SignInNext, EndSession, VisitStep, OpenLink,
             Consume, FindHuman, CreateHuman, VerifyHuman, BindGrants, VisitFails,
             InviteStep, LookUpInvitee, LookUpGrant, UpdateGrant, UpsertGrant, RevokeGrant,
             LinkExpires, SweepLink, SetVisibility, SignInState, cookies
<1>8. session' \in [Browsers -> Emails \cup {NoEmail}]
  <2>1. CASE \E v \in Visits : CreateLogin(v)
    <3>1. PICK v \in Visits : CreateLogin(v)
      BY <2>1
    <3>2. visit[v].link \in Links \cup {NoLink} /\ visit[v].browser \in Browsers
      BY <1>g DEF VisitRow
    <3>3. visit[v].link \in Links /\ link[visit[v].link].state # "new"
      BY <3>1, <3>2 DEF CreateLogin, At, LinksAsked, Arrived
    <3>4. Address(v) \in Emails
      BY <3>3 DEF LinksAsked, Address
    <3> QED BY <3>1, <3>2, <3>4, <1>d DEF CreateLogin
  <2>2. CASE \E b \in Browsers : EndSession(b)
    BY <2>2, <1>d DEF EndSession
  <2>3. ASSUME UNCHANGED session
        PROVE  session' \in [Browsers -> Emails \cup {NoEmail}]
    BY <2>3, <1>d
  <2> QED BY <2>1, <2>2, <2>3 DEF SignInNext, RequestLink, VisitStep, OpenLink,
             Consume, FindHuman, CreateHuman, VerifyHuman, BindGrants, VisitFails,
             InviteStep, LookUpInvitee, LookUpGrant, UpdateGrant, UpsertGrant, RevokeGrant,
             LinkExpires, SweepLink, SetVisibility, SignInState, cookies
<1>9. logins' \in [Links -> Nat] /\ asked' \subseteq Browsers \X Emails /\ promised' \subseteq Browsers
  <2>1. CASE \E v \in Visits : CreateLogin(v)
    <3>1. PICK v \in Visits : CreateLogin(v)
      BY <2>1
    <3>2. visit[v].browser \in Browsers
      BY <1>g DEF VisitRow
    <3>3. logins' = [logins EXCEPT ![visit[v].link] = logins[visit[v].link] + 1]
      BY <3>1 DEF CreateLogin
    <3>4. visit[v].link \in Links
      BY <3>1, <1>g DEF CreateLogin, At, LinksAsked, Arrived, VisitRow
    <3>5. logins' \in [Links -> Nat]
      BY <3>3, <3>4, <1>i
    <3> QED BY <3>1, <3>2, <3>5, <1>i DEF CreateLogin
  <2>2. CASE \E b \in Browsers, e \in Emails : RequestLink(b, e)
    BY <2>2, <1>i DEF RequestLink
  <2>3. CASE \E b \in Browsers : EndSession(b)
    BY <2>3, <1>i DEF EndSession
  <2>4. CASE \E e \in Emails : RevokeGrant(e)
    BY <2>4, <1>i DEF RevokeGrant
  <2>5. ASSUME UNCHANGED signInHistory
        PROVE  logins' \in [Links -> Nat] /\ asked' \subseteq Browsers \X Emails
               /\ promised' \subseteq Browsers
    BY <2>5, <1>i DEF signInHistory
  <2> QED BY <2>1, <2>2, <2>3, <2>4, <2>5 DEF SignInNext, VisitStep, OpenLink,
             Consume, FindHuman, CreateHuman, VerifyHuman, BindGrants, VisitFails,
             InviteStep, LookUpInvitee, LookUpGrant, UpdateGrant, UpsertGrant,
             LinkExpires, SweepLink, SetVisibility
<1> QED BY <1>1, <1>2, <1>3, <1>4, <1>5, <1>6, <1>7, <1>8, <1>9 DEF SignInTypeOK

(* Steps that leave what the sign-ins are about alone.                     *)
LEMMA SignInAside ==
  ASSUME SignInRest, UNCHANGED SignInCore
  PROVE  SignInRest'
BY DEF SignInRest, SignInCore, LinksAsked, LinksUsed, InvitationsKept, LinkLogsInOnce,
       SignedInAsAsked, Holding, Arrived, Address

(* A visit goes on to its next statement, and writes nothing but humans.   *)
Walks(v) ==
    /\ Holding(v)
    /\ \E s \in {"create", "verify", "bind", "done"} : Advance(v, s)
    /\ UNCHANGED <<link, nonce, session, grant, logins, asked, promised>>

LEMMA SignInWalk ==
  ASSUME SignInTypeOK, SignInRest, NEW v \in Visits, Walks(v)
  PROVE  SignInRest'
<1>1. PICK s \in {"create", "verify", "bind", "done"} : Advance(v, s)
  BY DEF Walks
<1>2. s \in VisitSteps
  BY DEF VisitSteps
<1>3. /\ \A w \in Visits : /\ visit'[w].link = visit[w].link
                           /\ visit'[w].browser = visit[w].browser
                           /\ visit'[w].invited = visit[w].invited
                           /\ w # v => visit'[w].step = visit[w].step
      /\ visit'[v].step = s
  BY <1>1, <1>2, AdvanceVisit DEF SignInTypeOK
<1>4. \A w \in Visits : Holding(w)' => Holding(w)
  BY <1>3 DEF Holding, Walks
<1>5. \A w \in Visits : Arrived(w)' => Arrived(w)
  BY <1>3 DEF Arrived, Holding, Walks
<1>6. \A w \in Visits : Address(w)' = Address(w)
  BY <1>3 DEF Address, Walks
<1>7. LinksAsked'
  BY <1>3, <1>5, <1>6 DEF SignInRest, LinksAsked, Walks
<1>8. LinksUsed'
  BY <1>3, <1>4 DEF SignInRest, LinksUsed, Walks
<1>9. InvitationsKept'
  BY <1>3, <1>5, <1>6 DEF SignInRest, InvitationsKept, Walks
<1> QED BY <1>7, <1>8, <1>9 DEF SignInRest, LinkLogsInOnce, SignedInAsAsked, Walks

(* A link gets its address when it is asked for, and changes state only.   *)
LEMMA SignInRequest ==
  ASSUME SignInTypeOK, SignInRest, SignInAssumption,
         NEW b \in Browsers, NEW e \in Emails, RequestLink(b, e)
  PROVE  SignInRest'
<1>1. PICK l \in Links : /\ link[l].state = "new"
                         /\ link' = [link EXCEPT ![l] = [state |-> "live", email |-> e]]
                         /\ nonce' = [nonce EXCEPT ![b] = l]
  BY DEF RequestLink
<1>2. link \in [Links -> LinkRow] /\ nonce \in [Browsers -> Links \cup {NoLink}]
      /\ visit \in [Visits -> VisitRow]
  BY DEF SignInTypeOK
<1>3. link'[l].state = "live" /\ link'[l].email = e
      /\ \A k \in Links : k # l => link'[k] = link[k]
  BY <1>1, <1>2
<1>4. /\ asked' = asked \cup {<<b, e>>}
      /\ UNCHANGED <<session, visit, grant, logins, promised>>
  BY DEF RequestLink, sharing
<1>5. \A v \in Visits : visit[v].link # NoLink => visit[v].link \in Links /\ visit[v].link # l
  BY <1>1, <1>2 DEF SignInRest, LinksAsked, VisitRow
<1>6. \A v \in Visits : Arrived(v) => Address(v)' = Address(v)
  BY <1>3, <1>4, <1>5 DEF SignInRest, LinksAsked, Address
<1>7. \A v \in Visits : (Holding(v)' <=> Holding(v)) /\ (Arrived(v)' <=> Arrived(v))
  BY <1>4 DEF Holding, Arrived
<1>8. LinksAsked'
  <2>1. \A k \in Links : link'[k].state # "new" => link'[k].email \in Emails
    BY <1>3 DEF SignInRest, LinksAsked
  <2>2. \A c \in Browsers : nonce'[c] # NoLink =>
           link'[nonce'[c]].state # "new" /\ <<c, link'[nonce'[c]].email>> \in asked'
    <3> SUFFICES ASSUME NEW c \in Browsers, nonce'[c] # NoLink
                 PROVE  link'[nonce'[c]].state # "new" /\ <<c, link'[nonce'[c]].email>> \in asked'
      OBVIOUS
    <3>1. CASE c = b
      BY <3>1, <1>1, <1>2, <1>3, <1>4
    <3>2. CASE c # b
      <4>1. nonce'[c] = nonce[c] /\ nonce[c] \in Links
        BY <3>2, <1>1, <1>2
      <4>2. link[nonce[c]].state # "new" /\ <<c, link[nonce[c]].email>> \in asked
        BY <4>1 DEF SignInRest, LinksAsked
      <4>3. nonce[c] # l
        BY <4>2, <1>1
      <4> QED BY <4>1, <4>2, <4>3, <1>3, <1>4
    <3> QED BY <3>1, <3>2
  <2>3. \A v \in Visits : visit'[v].link # NoLink => link'[visit'[v].link].state # "new"
    BY <1>3, <1>4, <1>5 DEF SignInRest, LinksAsked
  <2>4. \A v \in Visits : Arrived(v)' =>
           visit'[v].link # NoLink /\ <<visit'[v].browser, Address(v)'>> \in asked'
    BY <1>4, <1>6, <1>7 DEF SignInRest, LinksAsked
  <2> QED BY <2>1, <2>2, <2>3, <2>4 DEF LinksAsked
<1>9. LinksUsed'
  <2>1. \A v \in Visits : Holding(v) => Arrived(v)
    BY DEF Holding, Arrived
  <2>2. \A v \in Visits : Holding(v) => visit[v].link \in Links /\ visit[v].link # l
    BY <2>1, <1>5 DEF SignInRest, LinksAsked
  <2>3. \A k \in Links : logins[k] # 0 => k # l
    BY <1>1 DEF SignInRest, LinksUsed
  <2> QED BY <1>3, <1>4, <1>7, <2>2, <2>3 DEF SignInRest, LinksUsed
<1>10. InvitationsKept'
  BY <1>4, <1>6, <1>7 DEF SignInRest, InvitationsKept
<1> QED BY <1>4, <1>8, <1>9, <1>10 DEF SignInRest, LinkLogsInOnce, SignedInAsAsked

(* A link that is out expires or is swept.                                 *)
LEMMA SignInLinkEnds ==
  ASSUME SignInTypeOK, SignInRest, NEW l \in Links, LinkExpires(l) \/ SweepLink(l)
  PROVE  SignInRest'
<1>0. link \in [Links -> LinkRow]
  BY DEF SignInTypeOK
<1>1. /\ link[l].state # "new"
      /\ \A k \in Links : link'[k].email = link[k].email
      /\ \A k \in Links : link'[k].state = "new" <=> link[k].state = "new"
      /\ \A k \in Links : link[k].state \in {"used", "gone"} => link'[k].state \in {"used", "gone"}
      /\ UNCHANGED <<nonce, session, visit, grant, logins, asked, promised>>
  <2>1. PICK s \in {"expired", "gone"} :
            /\ link' = [link EXCEPT ![l] = [link[l] EXCEPT !.state = s]]
            /\ link[l].state \in {"used", "gone"} => s = "gone"
    BY DEF LinkExpires, SweepLink
  <2>2. link[l] \in LinkRow
    BY <1>0
  <2>3. link'[l].state = s /\ link'[l].email = link[l].email
    BY <2>1, <2>2, <1>0 DEF LinkRow
  <2>4. \A k \in Links : k # l => link'[k] = link[k]
    BY <2>1, <1>0
  <2>5. link[l].state # "new"
    BY DEF LinkExpires, SweepLink
  <2>6. UNCHANGED <<nonce, session, visit, grant, logins, asked, promised>>
    BY DEF LinkExpires, SweepLink, cookies, sharing, signInHistory
  <2> QED BY <2>1, <2>3, <2>4, <2>5, <2>6
<1>2. nonce \in [Browsers -> Links \cup {NoLink}] /\ visit \in [Visits -> VisitRow]
  BY DEF SignInTypeOK
<1>3. \A v \in Visits : visit[v].link # NoLink => visit[v].link \in Links
  BY <1>2 DEF VisitRow
<1>4. \A v \in Visits : (Holding(v)' <=> Holding(v)) /\ (Arrived(v)' <=> Arrived(v))
  BY <1>1 DEF Holding, Arrived
<1>5. \A v \in Visits : Arrived(v) => Address(v)' = Address(v)
  BY <1>1, <1>3 DEF Address, SignInRest, LinksAsked
<1>6. LinksAsked'
  BY <1>1, <1>2, <1>3, <1>4, <1>5 DEF SignInRest, LinksAsked
<1>7. \A v \in Visits : Holding(v) => visit[v].link \in Links
  BY <1>3 DEF Holding, Arrived, SignInRest, LinksAsked
<1>8. LinksUsed'
  BY <1>1, <1>4, <1>7 DEF SignInRest, LinksUsed
<1>9. InvitationsKept'
  BY <1>1, <1>4, <1>5 DEF SignInRest, InvitationsKept
<1> QED BY <1>1, <1>6, <1>8, <1>9 DEF SignInRest, LinkLogsInOnce, SignedInAsAsked

(* GET /auth/verify reads the link, when the nonce is the browser's own.   *)
LEMMA SignInOpen ==
  ASSUME SignInTypeOK, SignInRest, SignInAssumption, NEW v \in Visits, OpenLink(v)
  PROVE  SignInRest'
<1>0. visit \in [Visits -> VisitRow] /\ grant \in [Emails -> {"none", "pending", "bound"}]
      /\ nonce \in [Browsers -> Links \cup {NoLink}]
  BY DEF SignInTypeOK
<1>1. PICK l \in Links, s \in {"consume", "done"} :
         /\ link[l].state = "live"
         /\ s = "consume" => nonce[visit[v].browser] = l
         /\ visit' = [visit EXCEPT ![v].link = l, ![v].step = s,
                                   ![v].invited = grant[link[l].email] = "pending"]
  BY DEF OpenLink, NonceMatches
<1>2. /\ visit'[v].link = l /\ visit'[v].step = s /\ visit'[v].browser = visit[v].browser
      /\ visit'[v].invited = (grant[link[l].email] = "pending")
      /\ \A w \in Visits : w # v => visit'[w] = visit[w]
  <2>1. visit[v] \in VisitRow
    BY <1>0
  <2>2. visit'[v] = [visit[v] EXCEPT !.link = l, !.step = s,
                                     !.invited = grant[link[l].email] = "pending"]
    BY <1>0, <1>1
  <2> QED BY <1>0, <1>1, <2>1, <2>2 DEF VisitRow
<1>3. visit[v].step = "new" /\ UNCHANGED <<link, nonce, session, grant, logins, asked, promised>>
  BY DEF OpenLink, At, cookies, sharing, signInHistory
<1>4. \A w \in Visits : Holding(w)' => Holding(w) /\ w # v
  BY <1>1, <1>2, <1>3 DEF Holding
<1>5. \A w \in Visits : w # v =>
         (Arrived(w)' <=> Arrived(w)) /\ Address(w)' = Address(w)
  BY <1>2, <1>3 DEF Arrived, Address
<1>6. Address(v)' = link[l].email
  BY <1>2, <1>3 DEF Address
<1>7. LinksAsked'
  <2>1. Arrived(v)' => visit'[v].link # NoLink /\ <<visit'[v].browser, Address(v)'>> \in asked'
    <3>1. CASE s = "done"
      BY <3>1, <1>2 DEF Arrived
    <3>2. CASE s = "consume"
      <4>1. visit[v].browser \in Browsers
        BY <1>0 DEF VisitRow
      <4>2. nonce[visit[v].browser] = l /\ l # NoLink
        BY <3>2, <1>1 DEF SignInAssumption
      <4>3. <<visit[v].browser, link[l].email>> \in asked
        BY <4>1, <4>2 DEF SignInRest, LinksAsked
      <4> QED BY <1>2, <1>3, <1>6, <4>2, <4>3
    <3> QED BY <3>1, <3>2
  <2>2. \A w \in Visits : Arrived(w)' =>
           visit'[w].link # NoLink /\ <<visit'[w].browser, Address(w)'>> \in asked'
    BY <2>1, <1>2, <1>3, <1>5 DEF SignInRest, LinksAsked
  <2>3. \A w \in Visits : visit'[w].link # NoLink => link'[visit'[w].link].state # "new"
    BY <1>1, <1>2, <1>3 DEF SignInRest, LinksAsked
  <2> QED BY <2>2, <2>3, <1>3 DEF SignInRest, LinksAsked
<1>8. LinksUsed'
  BY <1>2, <1>3, <1>4 DEF SignInRest, LinksUsed
<1>9. InvitationsKept'
  <2>1. Arrived(v)' /\ visit'[v].invited =>
           /\ grant'[Address(v)'] # "none"
           /\ visit'[v].step = "login" => grant'[Address(v)'] = "bound"
    BY <1>1, <1>2, <1>3, <1>6
  <2> QED BY <2>1, <1>2, <1>3, <1>5 DEF SignInRest, InvitationsKept
<1> QED BY <1>3, <1>7, <1>8, <1>9 DEF SignInRest, LinkLogsInOnce, SignedInAsAsked

(* Of the visits that opened a link one uses it.                           *)
LEMMA SignInConsume ==
  ASSUME SignInTypeOK, SignInRest, NEW v \in Visits, Consume(v)
  PROVE  SignInRest'
<1>0. visit \in [Visits -> VisitRow] /\ link \in [Links -> LinkRow]
      /\ nonce \in [Browsers -> Links \cup {NoLink}]
  BY DEF SignInTypeOK
<1>1. PICK l : l = visit[v].link
  OBVIOUS
<1>2. Arrived(v) /\ l \in Links /\ visit[v].step = "consume"
  <2>1. visit[v].step = "consume"
    BY DEF Consume, At
  <2> QED BY <2>1, <1>0, <1>1 DEF Arrived, SignInRest, LinksAsked, VisitRow
<1>3. PICK s \in {"find", "done"} : /\ Advance(v, s)
                                    /\ s = "find" => link[l].state \in {"live", "expired"}
                                                  /\ link' = [link EXCEPT ![l].state = "used"]
                                    /\ s = "done" => UNCHANGED link
  BY <1>1 DEF Consume
<1>4. UNCHANGED <<nonce, session, grant, logins, asked, promised>>
  BY DEF Consume, cookies, sharing, signInHistory
<1>5. /\ \A w \in Visits : /\ visit'[w].link = visit[w].link
                           /\ visit'[w].browser = visit[w].browser
                           /\ visit'[w].invited = visit[w].invited
                           /\ w # v => visit'[w].step = visit[w].step
      /\ visit'[v].step = s
  BY <1>0, <1>3, AdvanceVisit DEF VisitSteps
<1>6. /\ \A k \in Links : link'[k].email = link[k].email
      /\ \A k \in Links : link'[k].state = "new" <=> link[k].state = "new"
      /\ \A k \in Links : link[k].state \in {"used", "gone"} => link'[k].state \in {"used", "gone"}
      /\ s = "find" => link'[l].state = "used" /\ link[l].state \notin {"used", "gone"}
  <2>1. CASE s = "done"
    BY <2>1, <1>3
  <2>2. CASE s = "find"
    <3>1. link' = [link EXCEPT ![l] = [link[l] EXCEPT !.state = "used"]]
      BY <2>2, <1>3
    <3>2. link'[l].state = "used" /\ link'[l].email = link[l].email
      BY <3>1, <1>0, <1>2 DEF LinkRow
    <3>3. \A k \in Links : k # l => link'[k] = link[k]
      BY <3>1, <1>0
    <3> QED BY <2>2, <1>3, <3>2, <3>3
  <2> QED BY <2>1, <2>2
<1>7. \A w \in Visits : Arrived(w)' => Arrived(w)
  BY <1>2, <1>5 DEF Arrived
<1>8. \A w \in Visits : visit[w].link # NoLink => visit[w].link \in Links
  BY <1>0 DEF VisitRow
<1>9. \A w \in Visits : Arrived(w) => Address(w)' = Address(w) /\ visit[w].link \in Links
  BY <1>5, <1>6, <1>8 DEF Address, SignInRest, LinksAsked
<1>10. LinksAsked'
  BY <1>0, <1>4, <1>5, <1>6, <1>7, <1>8, <1>9 DEF SignInRest, LinksAsked
<1>11. \A w \in Visits : Holding(w) => Arrived(w)
  BY DEF Holding, Arrived
<1>12. LinksUsed'
  <2>1. \A w \in Visits : w # v => (Holding(w)' <=> Holding(w))
    BY <1>5 DEF Holding
  <2>2. Holding(v)' => s = "find"
    BY <1>5 DEF Holding
  <2>3. s = "find" => logins[l] = 0
    BY <1>2, <1>6 DEF SignInRest, LinksUsed
  <2>4. s = "find" => \A w \in Visits : w # v /\ Holding(w) => visit[w].link # l
    BY <1>6 DEF SignInRest, LinksUsed
  <2>5. \A w \in Visits : Holding(w)' =>
           link'[visit'[w].link].state \in {"used", "gone"} /\ logins'[visit'[w].link] = 0
    <3> SUFFICES ASSUME NEW w \in Visits, Holding(w)'
                 PROVE  link'[visit[w].link].state \in {"used", "gone"} /\ logins[visit[w].link] = 0
      BY <1>4, <1>5
    <3>1. CASE w = v
      BY <3>1, <2>2, <2>3, <1>1, <1>6
    <3>2. CASE w # v
      BY <3>2, <2>1, <1>6, <1>9, <1>11 DEF SignInRest, LinksUsed
    <3> QED BY <3>1, <3>2
  <2>6. \A w, x \in Visits : Holding(w)' /\ Holding(x)' /\ visit'[w].link = visit'[x].link => w = x
    BY <2>1, <2>2, <2>4, <1>1, <1>5 DEF SignInRest, LinksUsed
  <2> QED BY <2>5, <2>6, <1>4, <1>6 DEF SignInRest, LinksUsed
<1>13. InvitationsKept'
  <2>1. visit'[v].step # "login"
    BY <1>5
  <2> QED BY <2>1, <1>4, <1>5, <1>7, <1>9 DEF SignInRest, InvitationsKept
<1> QED BY <1>4, <1>10, <1>12, <1>13 DEF SignInRest, LinkLogsInOnce, SignedInAsAsked

(* The pending grants of the address are bound, or the UPDATE fails.       *)
LEMMA SignInBind ==
  ASSUME SignInTypeOK, SignInRest, NEW v \in Visits, BindGrants(v)
  PROVE  SignInRest'
<1>0. visit \in [Visits -> VisitRow] /\ grant \in [Emails -> {"none", "pending", "bound"}]
  BY DEF SignInTypeOK
<1>1. /\ visit[v].step = "bind"
      /\ UNCHANGED <<link, nonce, session, logins, asked, promised>>
  BY DEF BindGrants, At, cookies, signInHistory
<1>2. /\ visit'[v].step = "login"
      /\ visit'[v].invited => visit[v].invited
      /\ visit'[v].invited => grant' = [grant EXCEPT ![Address(v)] =
                                IF grant[Address(v)] = "pending" THEN "bound" ELSE grant[Address(v)]]
      /\ \A w \in Visits : /\ visit'[w].link = visit[w].link
                           /\ visit'[w].browser = visit[w].browser
                           /\ w # v => /\ visit'[w].step = visit[w].step
                                       /\ visit'[w].invited = visit[w].invited
  <2>1. CASE Advance(v, "login") /\ grant' = [grant EXCEPT ![Address(v)] =
                                IF grant[Address(v)] = "pending" THEN "bound" ELSE grant[Address(v)]]
    BY <2>1, <1>0, AdvanceVisit DEF VisitSteps
  <2>2. CASE visit' = [visit EXCEPT ![v].step = "login", ![v].invited = FALSE]
    <3>1. visit' = [visit EXCEPT ![v] = [visit[v] EXCEPT !.step = "login", !.invited = FALSE]]
      BY <2>2
    <3>2. visit[v] \in VisitRow
      BY <1>0
    <3>3. visit'[v] = [visit[v] EXCEPT !.step = "login", !.invited = FALSE]
      BY <3>1, <1>0
    <3>4. \A w \in Visits : w # v => visit'[w] = visit[w]
      BY <3>1, <1>0
    <3> QED BY <3>2, <3>3, <3>4 DEF VisitRow
  <2> QED BY <2>1, <2>2 DEF BindGrants
<1>3. \A e \in Emails : /\ grant[e] # "none" => grant'[e] # "none"
                        /\ grant[e] = "bound" => grant'[e] = "bound"
  <2>1. grant' = grant \/ grant' = [grant EXCEPT ![Address(v)] =
                                IF grant[Address(v)] = "pending" THEN "bound" ELSE grant[Address(v)]]
    BY DEF BindGrants
  <2> QED BY <2>1, <1>0
<1>4. \A w \in Visits : (Holding(w)' <=> Holding(w)) /\ (Arrived(w)' <=> Arrived(w))
                        /\ Address(w)' = Address(w)
  BY <1>1, <1>2 DEF Holding, Arrived, Address
<1>5. LinksAsked' /\ LinksUsed'
  BY <1>1, <1>2, <1>4 DEF SignInRest, LinksAsked, LinksUsed
<1>6. InvitationsKept'
  <2>1. \A w \in Visits : Arrived(w) => Address(w) \in Emails
    <3>1. \A w \in Visits : Arrived(w) => visit[w].link \in Links
      BY <1>0 DEF SignInRest, LinksAsked, VisitRow
    <3> QED BY <3>1 DEF SignInRest, LinksAsked, Address
  <2>2. visit'[v].invited => grant'[Address(v)] = "bound"
    <3>1. Arrived(v)
      BY <1>1 DEF Arrived
    <3>2. visit[v].invited => grant[Address(v)] # "none"
      BY <3>1 DEF SignInRest, InvitationsKept
    <3>3. grant[Address(v)] \in {"none", "pending", "bound"}
      BY <3>1, <2>1, <1>0
    <3> QED BY <3>1, <3>2, <3>3, <2>1, <1>0, <1>2
  <2>3. \A w \in Visits : Arrived(w)' /\ visit'[w].invited =>
           /\ grant'[Address(w)'] # "none"
           /\ visit'[w].step = "login" => grant'[Address(w)'] = "bound"
    <3> SUFFICES ASSUME NEW w \in Visits, Arrived(w), visit'[w].invited
                 PROVE  /\ grant'[Address(w)] # "none"
                        /\ visit'[w].step = "login" => grant'[Address(w)] = "bound"
      BY <1>4
    <3>1. CASE w = v
      BY <3>1, <2>2
    <3>2. CASE w # v
      BY <3>2, <2>1, <1>2, <1>3 DEF SignInRest, InvitationsKept
    <3> QED BY <3>1, <3>2
  <2> QED BY <2>3, <1>1, <1>3 DEF SignInRest, InvitationsKept
<1> QED BY <1>1, <1>5, <1>6 DEF SignInRest, LinkLogsInOnce, SignedInAsAsked

(* The visit that used the link signs its browser in.                      *)
LEMMA SignInLogin ==
  ASSUME SignInTypeOK, SignInRest, SignInAssumption, NEW v \in Visits, CreateLogin(v)
  PROVE  SignInRest'
<1>0. /\ visit \in [Visits -> VisitRow] /\ link \in [Links -> LinkRow]
      /\ nonce \in [Browsers -> Links \cup {NoLink}] /\ logins \in [Links -> Nat]
      /\ session \in [Browsers -> Emails \cup {NoEmail}] /\ promised \subseteq Browsers
  BY DEF SignInTypeOK
<1>1. PICK b, l : b = visit[v].browser /\ l = visit[v].link
  OBVIOUS
<1>2. /\ visit[v].step = "login" /\ Advance(v, "done")
      /\ session' = [session EXCEPT ![b] = Address(v)]
      /\ nonce' = [nonce EXCEPT ![b] = NoLink]
      /\ logins' = [logins EXCEPT ![l] = logins[l] + 1]
      /\ promised' = IF visit[v].invited THEN promised \cup {b} ELSE promised \ {b}
      /\ UNCHANGED <<link, grant, asked>>
  BY <1>1 DEF CreateLogin, At, sharing
<1>3. b \in Browsers /\ l \in Links \cup {NoLink}
  BY <1>0, <1>1 DEF VisitRow
<1>4. Arrived(v) /\ Holding(v)
  BY <1>2 DEF Arrived, Holding
<1>5. l \in Links /\ <<b, Address(v)>> \in asked
  BY <1>1, <1>3, <1>4 DEF SignInRest, LinksAsked
<1>6. Address(v) \in Emails /\ Address(v) # NoEmail
  BY <1>1, <1>5, <1>4 DEF SignInRest, LinksAsked, Address, SignInAssumption
<1>7. /\ \A w \in Visits : /\ visit'[w].link = visit[w].link
                           /\ visit'[w].browser = visit[w].browser
                           /\ visit'[w].invited = visit[w].invited
                           /\ w # v => visit'[w].step = visit[w].step
      /\ visit'[v].step = "done"
  BY <1>0, <1>2, AdvanceVisit DEF VisitSteps
<1>8. \A w \in Visits : (Holding(w)' => Holding(w) /\ w # v) /\ (Arrived(w)' => Arrived(w) /\ w # v)
                        /\ Address(w)' = Address(w)
  BY <1>2, <1>7 DEF Holding, Arrived, Address
<1>9. LinksAsked'
  <2>1. \A c \in Browsers : nonce'[c] # NoLink => nonce'[c] = nonce[c]
    BY <1>0, <1>2
  <2> QED BY <2>1, <1>2, <1>7, <1>8 DEF SignInRest, LinksAsked
<1>10. logins[l] = 0 /\ link[l].state \in {"used", "gone"}
  BY <1>1, <1>4 DEF SignInRest, LinksUsed
<1>11. logins'[l] = 1 /\ \A k \in Links : k # l => logins'[k] = logins[k]
  BY <1>0, <1>2, <1>5, <1>10
<1>12. LinksUsed'
  <2>1. \A w \in Visits : Holding(w)' => visit[w].link # l /\ visit[w].link \in Links
    <3>1. \A w \in Visits : Holding(w) => Arrived(w)
      BY DEF Holding, Arrived
    <3>2. \A w \in Visits : Holding(w) => visit[w].link \in Links
      BY <3>1, <1>0 DEF SignInRest, LinksAsked, VisitRow
    <3> QED BY <3>2, <1>1, <1>4, <1>8 DEF SignInRest, LinksUsed
  <2> QED BY <2>1, <1>2, <1>7, <1>8, <1>10, <1>11 DEF SignInRest, LinksUsed
<1>13. InvitationsKept'
  <2>1. \A w \in Visits : Arrived(w)' /\ visit'[w].invited =>
           /\ grant'[Address(w)'] # "none"
           /\ visit'[w].step = "login" => grant'[Address(w)'] = "bound"
    BY <1>2, <1>7, <1>8 DEF SignInRest, InvitationsKept
  <2>2. \A c \in promised' : session'[c] \in Emails /\ grant'[session'[c]] = "bound"
    <3> SUFFICES ASSUME NEW c \in promised'
                 PROVE  session'[c] \in Emails /\ grant[session'[c]] = "bound"
      BY <1>2
    <3>1. CASE c = b
      <4>1. visit[v].invited
        BY <3>1, <1>2
      <4>2. grant[Address(v)] = "bound"
        BY <4>1, <1>2, <1>4 DEF SignInRest, InvitationsKept
      <4> QED BY <3>1, <4>2, <1>0, <1>2, <1>3, <1>6
    <3>2. CASE c # b
      <4>1. c \in promised /\ session'[c] = session[c]
        BY <3>2, <1>0, <1>2
      <4> QED BY <4>1 DEF SignInRest, InvitationsKept
    <3> QED BY <3>1, <3>2
  <2> QED BY <2>1, <2>2 DEF InvitationsKept
<1>14. LinkLogsInOnce'
  BY <1>11 DEF SignInRest, LinkLogsInOnce
<1>15. SignedInAsAsked'
  BY <1>0, <1>2, <1>3, <1>5 DEF SignInRest, SignedInAsAsked
<1> QED BY <1>9, <1>12, <1>13, <1>14, <1>15 DEF SignInRest

LEMMA SignInSignOut ==
  ASSUME SignInTypeOK, SignInRest, NEW b \in Browsers, EndSession(b)
  PROVE  SignInRest'
<1>1. /\ session' = [session EXCEPT ![b] = NoEmail] /\ promised' = promised \ {b}
      /\ UNCHANGED <<link, nonce, grant, visit, logins, asked>>
  BY DEF EndSession, sharing
<1>2. \A c \in Browsers : c # b => session'[c] = session[c]
  BY <1>1 DEF SignInTypeOK
<1>3. session'[b] = NoEmail
  BY <1>1 DEF SignInTypeOK
<1>4. LinksAsked' /\ LinksUsed' /\ LinkLogsInOnce'
  BY <1>1 DEF SignInRest, LinksAsked, LinksUsed, LinkLogsInOnce, Holding, Arrived, Address
<1>5. InvitationsKept'
  <2>1. \A c \in promised' : c \in promised /\ session'[c] = session[c]
    BY <1>1, <1>2 DEF SignInTypeOK
  <2> QED BY <2>1, <1>1 DEF SignInRest, InvitationsKept, Arrived, Address
<1>6. SignedInAsAsked'
  BY <1>1, <1>2, <1>3 DEF SignInRest, SignedInAsAsked
<1> QED BY <1>4, <1>5, <1>6 DEF SignInRest

(* A grant that is there keeps what it is through the owner's upsert.      *)
LEMMA SignInUpsert ==
  ASSUME SignInTypeOK, SignInRest, NEW i \in Invites, UpsertGrant(i)
  PROVE  SignInRest'
<1>1. UNCHANGED <<link, nonce, session, visit, logins, asked, promised>>
  BY DEF UpsertGrant, SignInState, cookies, signInHistory
<1>2. \A e \in Emails : grant[e] # "none" => grant'[e] = grant[e]
  <2> DEFINE e == invite[i].email
             g == IF grant[e] # "none" THEN grant[e]
                  ELSE IF invite[i].known THEN "bound" ELSE "pending"
  <2>1. grant' = [grant EXCEPT ![e] = g]
    BY DEF UpsertGrant
  <2>2. grant[e] # "none" => g = grant[e]
    OBVIOUS
  <2> HIDE DEF e, g
  <2> QED BY <2>1, <2>2 DEF SignInTypeOK
<1>3. LinksAsked' /\ LinksUsed' /\ LinkLogsInOnce' /\ SignedInAsAsked'
  BY <1>1 DEF SignInRest, LinksAsked, LinksUsed, LinkLogsInOnce, SignedInAsAsked,
              Holding, Arrived, Address
<1>4. \A w \in Visits : Arrived(w) => Address(w) \in Emails
  <2>1. \A w \in Visits : Arrived(w) => visit[w].link \in Links
    BY DEF SignInTypeOK, SignInRest, LinksAsked, VisitRow
  <2> QED BY <2>1 DEF SignInRest, LinksAsked, Address
<1>5. \A w \in Visits : (Arrived(w)' <=> Arrived(w)) /\ Address(w)' = Address(w)
  BY <1>1 DEF Arrived, Address
<1>6. InvitationsKept'
  <2>1. \A w \in Visits : Arrived(w)' /\ visit'[w].invited =>
           /\ grant'[Address(w)'] # "none"
           /\ visit'[w].step = "login" => grant'[Address(w)'] = "bound"
    BY <1>1, <1>2, <1>4, <1>5 DEF SignInRest, InvitationsKept
  <2>2. \A c \in promised' : session'[c] \in Emails /\ grant'[session'[c]] = "bound"
    <3>1. \A c \in promised : session[c] \in Emails /\ grant[session[c]] = "bound"
      BY DEF SignInRest, InvitationsKept
    <3> QED BY <3>1, <1>1, <1>2
  <2> QED BY <2>1, <2>2 DEF InvitationsKept
<1> QED BY <1>3, <1>6 DEF SignInRest

LEMMA SignInRevoke ==
  ASSUME SignInTypeOK, SignInRest, NEW e \in Emails, RevokeGrant(e)
  PROVE  SignInRest'
<1>0. visit \in [Visits -> VisitRow] /\ grant \in [Emails -> {"none", "pending", "bound"}]
  BY DEF SignInTypeOK
<1>1. /\ UNCHANGED <<link, nonce, session, logins, asked>>
      /\ promised' = {b \in promised : session[b] # e}
      /\ grant' = [grant EXCEPT ![e] = "none"]
      /\ visit' = [w \in Visits |-> [visit[w] EXCEPT !.invited =
                     visit[w].invited /\ visit[w].link # NoLink /\ Address(w) # e]]
  BY DEF RevokeGrant, cookies
<1>2. \A w \in Visits : /\ visit'[w].link = visit[w].link
                        /\ visit'[w].browser = visit[w].browser
                        /\ visit'[w].step = visit[w].step
                        /\ visit'[w].invited =
                             (visit[w].invited /\ visit[w].link # NoLink /\ Address(w) # e)
  <2> SUFFICES ASSUME NEW w \in Visits
               PROVE  /\ visit'[w].link = visit[w].link
                      /\ visit'[w].browser = visit[w].browser
                      /\ visit'[w].step = visit[w].step
                      /\ visit'[w].invited =
                           (visit[w].invited /\ visit[w].link # NoLink /\ Address(w) # e)
    OBVIOUS
  <2>1. visit[w] \in VisitRow
    BY <1>0
  <2>2. visit'[w] = [visit[w] EXCEPT !.invited =
                       visit[w].invited /\ visit[w].link # NoLink /\ Address(w) # e]
    BY <1>1
  <2> QED BY <2>1, <2>2 DEF VisitRow
<1>3. \A w \in Visits : (Holding(w)' <=> Holding(w)) /\ (Arrived(w)' <=> Arrived(w))
                        /\ Address(w)' = Address(w)
  BY <1>1, <1>2 DEF Holding, Arrived, Address
<1>4. LinksAsked' /\ LinksUsed' /\ LinkLogsInOnce' /\ SignedInAsAsked'
  BY <1>1, <1>2, <1>3 DEF SignInRest, LinksAsked, LinksUsed, LinkLogsInOnce, SignedInAsAsked
<1>5. \A d \in Emails : d # e => grant'[d] = grant[d]
  BY <1>0, <1>1
<1>6. \A w \in Visits : Arrived(w) => Address(w) \in Emails
  <2>1. \A w \in Visits : Arrived(w) => visit[w].link \in Links
    BY <1>0 DEF SignInRest, LinksAsked, VisitRow
  <2> QED BY <2>1 DEF SignInRest, LinksAsked, Address
<1>7. InvitationsKept'
  <2>1. \A w \in Visits : Arrived(w)' /\ visit'[w].invited =>
           /\ grant'[Address(w)'] # "none"
           /\ visit'[w].step = "login" => grant'[Address(w)'] = "bound"
    <3> SUFFICES ASSUME NEW w \in Visits, Arrived(w), visit'[w].invited
                 PROVE  /\ grant'[Address(w)] # "none"
                        /\ visit'[w].step = "login" => grant'[Address(w)] = "bound"
      BY <1>3
    <3>1. visit[w].invited /\ Address(w) # e
      BY <1>2
    <3>2. grant'[Address(w)] = grant[Address(w)]
      BY <3>1, <1>5, <1>6
    <3> QED BY <3>1, <3>2, <1>2 DEF SignInRest, InvitationsKept
  <2>2. \A c \in promised' : session'[c] \in Emails /\ grant'[session'[c]] = "bound"
    <3>1. \A c \in promised : session[c] \in Emails /\ grant[session[c]] = "bound"
      BY DEF SignInRest, InvitationsKept
    <3> QED BY <3>1, <1>1, <1>5
  <2> QED BY <2>1, <2>2 DEF InvitationsKept
<1> QED BY <1>4, <1>7 DEF SignInRest

-----------------------------------------------------------------------------
LEMMA SignInInitIInv ==
  ASSUME SignInInit, SignInAssumption
  PROVE  SignInIInv
<1>1. SignInTypeOK
  BY DEF SignInInit, SignInTypeOK, LinkRow, VisitRow, InviteRow, VisitSteps, Modes
<1>2. \A v \in Visits : visit[v].step = "new" /\ visit[v].link = NoLink
  BY DEF SignInInit
<1>3. LinksAsked /\ LinksUsed /\ InvitationsKept
  BY <1>2 DEF SignInInit, LinksAsked, LinksUsed, InvitationsKept, Arrived, Holding
<1>4. LinkLogsInOnce /\ SignedInAsAsked
  BY DEF SignInInit, LinkLogsInOnce, SignedInAsAsked
<1> QED BY <1>1, <1>3, <1>4 DEF SignInIInv

LEMMA SignInStepIInv ==
  ASSUME SignInIInv, [SignInNext]_signInVars, SignInAssumption
  PROVE  SignInIInv'
<1>1. SignInTypeOK /\ SignInRest
  BY DEF SignInIInv, SignInRest
<1>2. CASE UNCHANGED signInVars
  <2>1. SignInTypeOK'
    BY <1>1, <1>2 DEF SignInTypeOK, signInVars
  <2>2. UNCHANGED SignInCore
    BY <1>2 DEF signInVars, SignInCore
  <2> QED BY <1>1, <2>1, <2>2, SignInAside DEF SignInIInv, SignInRest
<1>3. CASE SignInNext
  <2>1. SignInTypeOK'
    BY <1>1, <1>3, SignInTypeStep DEF SignInRest
  <2> SUFFICES SignInRest'
    BY <2>1 DEF SignInIInv, SignInRest
  <2>2. CASE \E v \in Visits : VisitStep(v)
    <3>1. PICK v \in Visits : VisitStep(v)
      BY <2>2
    <3>2. CASE FindHuman(v) \/ CreateHuman(v) \/ VerifyHuman(v) \/ VisitFails(v)
      <4>1. Walks(v)
        <5>1. CASE FindHuman(v)
          BY <5>1 DEF FindHuman, Walks, Holding, At, cookies, sharing, signInHistory
        <5>2. CASE CreateHuman(v)
          BY <5>2 DEF CreateHuman, Walks, Holding, At, cookies, sharing, signInHistory
        <5>3. CASE VerifyHuman(v) \/ VisitFails(v)
          BY <5>3 DEF VerifyHuman, VisitFails, Walks, Holding, At, cookies, sharing,
                      signInHistory
        <5> QED BY <3>2, <5>1, <5>2, <5>3
      <4> QED BY <1>1, <4>1, SignInWalk
    <3>3. CASE OpenLink(v)
      BY <1>1, <3>3, SignInOpen
    <3>4. CASE Consume(v)
      BY <1>1, <3>4, SignInConsume
    <3>5. CASE BindGrants(v)
      BY <1>1, <3>5, SignInBind
    <3>6. CASE CreateLogin(v)
      BY <1>1, <3>6, SignInLogin
    <3> QED BY <3>1, <3>2, <3>3, <3>4, <3>5, <3>6 DEF VisitStep
  <2>3. CASE \E b \in Browsers : EndSession(b)
    BY <1>1, <2>3, SignInSignOut
  <2>4. CASE \E b \in Browsers, e \in Emails : RequestLink(b, e)
    BY <1>1, <2>4, SignInRequest
  <2>5. CASE \E l \in Links : LinkExpires(l) \/ SweepLink(l)
    BY <1>1, <2>5, SignInLinkEnds
  <2>6. CASE \E i \in Invites : InviteStep(i)
    <3>1. PICK i \in Invites : InviteStep(i)
      BY <2>6
    <3>2. CASE UpsertGrant(i)
      BY <1>1, <3>2, SignInUpsert
    <3>3. CASE LookUpInvitee(i) \/ LookUpGrant(i) \/ UpdateGrant(i)
      <4>1. UNCHANGED SignInCore
        BY <3>3 DEF LookUpInvitee, LookUpGrant, UpdateGrant, SignInCore, SignInState, cookies,
                    signInHistory
      <4> QED BY <1>1, <4>1, SignInAside
    <3> QED BY <3>1, <3>2, <3>3 DEF InviteStep
  <2>7. CASE \E e \in Emails : RevokeGrant(e)
    BY <1>1, <2>7, SignInRevoke
  <2>8. CASE \E mode \in Modes : SetVisibility(mode)
    <3>1. UNCHANGED SignInCore
      BY <2>8 DEF SetVisibility, SignInCore, SignInState, cookies, signInHistory
    <3> QED BY <1>1, <3>1, SignInAside
  <2> QED BY <1>3, <2>2, <2>3, <2>4, <2>5, <2>6, <2>7, <2>8 DEF SignInNext
<1> QED BY <1>2, <1>3

LEMMA SignInSuffices ==
  ASSUME SignInIInv, SignInAssumption
  PROVE  SignInInv
<1>1. \A b \in promised : session[b] # NoEmail /\ grant[session[b]] = "bound"
  BY DEF SignInIInv, InvitationsKept, SignInAssumption
<1>2. InviteeGetsIn
  BY <1>1 DEF InviteeGetsIn, Access, SignInIInv, SignInTypeOK, Modes
<1> QED BY <1>2 DEF SignInIInv, SignInInv

(* A link signs in once, a browser only as an address it asked for, and    *)
(* who signs in after an invitation gets into the pane, for any number of  *)
(* links, browsers, visits and invitations.                                *)
THEOREM SignInSound == SignInSpec => []SignInInv
<1>1. SignInInit => SignInIInv
  BY SignInInitIInv, SignInAssumption
<1>2. SignInIInv /\ [SignInNext]_signInVars => SignInIInv'
  BY SignInStepIInv, SignInAssumption
<1>3. SignInIInv => SignInInv
  BY SignInSuffices, SignInAssumption
<1> QED BY <1>1, <1>2, <1>3, PTL DEF SignInSpec

(* A set of numbers up to n has a greatest one.                            *)
LEMMA GreatestExists ==
  ASSUME NEW n \in Nat, NEW S, S \subseteq 1 .. n, S # {}
  PROVE  \E m \in S : \A x \in S : x <= m
<1> DEFINE R == OpToRel(<, Nat)
           T == {n - x : x \in S}
<1>1. T \subseteq Nat /\ T # {}
  <2>1. \A x \in S : n - x \in Nat
    OBVIOUS
  <2>2. PICK x \in S : TRUE
    OBVIOUS
  <2>3. n - x \in T
    BY <2>2
  <2> QED BY <2>1, <2>3
<1>2. PICK t \in T : \A u \in T : ~ (<<u, t>> \in R)
  <2>1. IsWellFoundedOn(R, Nat)
    BY NatLessThanWellFounded
  <2> HIDE DEF R, T
  <2> QED BY <1>1, <2>1, WFMin
<1>3. PICK m \in S : t = n - m
  BY <1>2
<1>4. \A x \in S : ~ (n - x < n - m)
  <2> SUFFICES ASSUME NEW x \in S, n - x < n - m
               PROVE  FALSE
    OBVIOUS
  <2>1. n - x \in T /\ n - x \in Nat /\ n - m \in Nat
    OBVIOUS
  <2>2. <<n - x, t>> \in R
    BY <2>1, <1>3 DEF OpToRel
  <2> QED BY <1>2, <2>1, <2>2
<1>5. \A x \in S : x <= m
  BY <1>4
<1> QED BY <1>5

-----------------------------------------------------------------------------
PaneRowType == [agent : Workers, owner : Owners \cup {Nobody},
                key : ContextKeys \cup {NoContext}, rank : 0 .. 3]
CodeType == [state : {"new", "live", "expired", "used", "gone"}, human : Owners]
ClaimType == [step : ClaimSteps, agent : Workers, code : Codes, moved : SUBSET Ids,
              winners : SUBSET Ids, found : SUBSET Ids]
MakerType == [step : {"auth", "insert", "done"}, agent : Workers,
              owner : Owners \cup {Nobody}]

(* A code that has been answered with ok is used up; while an agent has no *)
(* owner neither have its panes, those that are being created included.    *)
CodesUsedUp == \A x \in claimedWith : code[x[1]].state \in {"used", "gone"}

PanesOfUnowned ==
    \A a \in Workers : owner[a] = Nobody =>
        /\ \A p \in DOMAIN paneRow : paneRow[p].agent = a => paneRow[p].owner = Nobody
        /\ \A m \in Makers : maker[m].agent = a /\ maker[m].step = "insert"
                                => maker[m].owner = Nobody

(* Who is in the transaction holds its code, unused, and from the third    *)
(* statement on its agent, alone.                                          *)
TxCode ==
    \A r \in Claimers : claim[r].step \in WithCode =>
        /\ code[claim[r].code].state \in {"live", "expired"}
        /\ \A x \in Claimers : x # r /\ claim[x].code = claim[r].code
                                  => claim[x].step \notin WithCode

TxAgent ==
    \A r, x \in Claimers : r # x /\ claim[r].step \in WithAgent
        /\ claim[x].step \in WithAgent => claim[r].agent # claim[x].agent

(* What it has found and written are panes of its agent that nobody owns.  *)
RowsOf(d) ==
    /\ \A p \in d.moved \cup d.winners \cup d.found :
           p \in DOMAIN paneRow /\ paneRow[p].agent = d.agent /\ paneRow[p].owner = Nobody
    /\ d.step \notin WithAgent => d.moved \cup d.winners \cup d.found = {}

(* Each key has one winner, which was open if any was; what is committed   *)
(* holds the winners.                                                      *)
FoundOf(d) ==
    /\ d.step \in {"write", "commit"} =>
           /\ \A p \in d.found : \E q \in d.found \cap d.winners :
                                  paneRow[q].key = paneRow[p].key
           /\ \A p, q \in d.winners : paneRow[p].key = paneRow[q].key => p = q
    /\ d.step = "commit" => d.winners \subseteq d.moved

RowsInOrder == \E n \in Nat : DOMAIN paneRow = 1 .. n

TxRows == \A r \in Claimers : RowsOf(claim[r]) /\ FoundOf(claim[r])

ClaimsIInv ==
    /\ ClaimsTypeOK /\ CodesUsedUp /\ PanesOfUnowned /\ CodeClaimsOnce
    /\ TxCode /\ TxAgent /\ TxRows /\ RowsInOrder

LEMMA ClaimsInitIInv == ClaimsInit => ClaimsIInv
<1> SUFFICES ASSUME ClaimsInit
             PROVE  ClaimsIInv
  OBVIOUS
<1>1. DOMAIN paneRow = {}
  BY DEF ClaimsInit
<1>2. \A r \in Claimers : /\ claim[r].step = "auth" /\ claim[r].moved = {}
                          /\ claim[r].winners = {} /\ claim[r].found = {}
  BY DEF ClaimsInit
<1>3. ClaimsTypeOK
  <2>1. claim \in [Claimers -> ClaimType]
    BY DEF ClaimsInit, ClaimType, ClaimSteps
  <2> QED BY <1>1, <2>1 DEF ClaimsInit, ClaimsTypeOK, ClaimType
<1>4. PanesOfUnowned
  BY <1>1 DEF ClaimsInit, PanesOfUnowned
<1>5. TxCode /\ TxAgent
  BY <1>2 DEF TxCode, TxAgent, WithCode, WithAgent
<1>6. TxRows
  BY <1>2 DEF TxRows, RowsOf, FoundOf, WithCode, WithAgent
<1>7. RowsInOrder
  <2>1. 0 \in Nat /\ {} = 1 .. 0
    OBVIOUS
  <2> QED BY <1>1, <2>1 DEF RowsInOrder
<1> QED BY <1>3, <1>4, <1>5, <1>6, <1>7 DEF ClaimsInit, ClaimsIInv, CodesUsedUp, CodeClaimsOnce

(* The next pane has a number of its own.                                  *)
LEMMA PanesAreFinite ==
  ASSUME ClaimsAssumption, ClaimsTypeOK
  PROVE  Cardinality(DOMAIN paneRow) \in Nat /\ DOMAIN paneRow \subseteq Nat
<1>1. IsFiniteSet(1 .. MaxRow)
  BY FS_Interval DEF ClaimsAssumption
<1>2. IsFiniteSet(DOMAIN paneRow)
  BY <1>1, FS_Subset DEF ClaimsTypeOK, Ids
<1> QED BY <1>2, FS_CardinalityType DEF ClaimsTypeOK, Ids

LEMMA NextIsNew ==
  ASSUME ClaimsAssumption, ClaimsIInv, NEW next, next = Cardinality(DOMAIN paneRow) + 1
  PROVE  next \notin DOMAIN paneRow
         /\ \E n \in Nat : DOMAIN paneRow \cup {next} = 1 .. n
<1>1. PICK n \in Nat : DOMAIN paneRow = 1 .. n
  BY DEF ClaimsIInv, RowsInOrder
<1>2. Cardinality(1 .. n) = n
  BY FS_Interval
<1>3. next = n + 1 /\ n + 1 \in Nat
  BY <1>1, <1>2
<1>4. (1 .. n) \cup {n + 1} = 1 .. (n + 1)
  OBVIOUS
<1> QED BY <1>1, <1>3, <1>4

(* A step that is none of a claim leaves what the claims hold.             *)
LEMMA TxKept ==
  ASSUME ClaimsIInv, UNCHANGED claim, DOMAIN paneRow \subseteq DOMAIN paneRow',
         \A p \in DOMAIN paneRow : /\ paneRow'[p].agent = paneRow[p].agent
                                   /\ paneRow'[p].key = paneRow[p].key
                                   /\ paneRow'[p].owner = paneRow[p].owner
  PROVE  TxAgent' /\ TxRows'
<1>1. TxAgent'
  BY DEF ClaimsIInv, TxAgent
<1>2. ASSUME NEW r \in Claimers
      PROVE  RowsOf(claim[r])' /\ FoundOf(claim[r])'
  <2>1. RowsOf(claim[r]) /\ FoundOf(claim[r])
    BY DEF ClaimsIInv, TxRows
  <2>2. \A p \in claim[r].moved \cup claim[r].winners \cup claim[r].found : p \in DOMAIN paneRow
    BY <2>1 DEF RowsOf
  <2>3. RowsOf(claim[r])'
    BY <2>1, <2>2 DEF RowsOf
  <2>4. FoundOf(claim[r])'
    BY <2>1, <2>2 DEF FoundOf
  <2> QED BY <2>3, <2>4
<1> QED BY <1>1, <1>2 DEF TxRows

(* What a code goes through.                                               *)
LEMMA CodeStep ==
  ASSUME ClaimsAssumption, ClaimsIInv, NEW c \in Codes,
         MintCode(c) \/ CodeExpires(c) \/ SweepCode(c)
  PROVE  ClaimsIInv'
<1>1. code \in [Codes -> CodeType] /\ claim \in [Claimers -> ClaimType]
  BY DEF ClaimsIInv, ClaimsTypeOK, CodeType, ClaimType
<1>2. PICK s \in {"live", "expired", "gone"} :
         /\ code' = [code EXCEPT ![c] = [code[c] EXCEPT !.state = s]]
         /\ code[c].state \in {"used", "gone"} => s = "gone"
         /\ s = "gone" => \A r \in Claimers : claim[r].code = c => claim[r].step \notin WithCode
  BY DEF MintCode, CodeExpires, SweepCode
<1>3. UNCHANGED <<owner, paneRow, claim, maker, claimedWith>>
  BY DEF MintCode, CodeExpires, SweepCode
<1>4. [code[c] EXCEPT !.state = s] \in CodeType
  BY <1>1 DEF CodeType
<1>5. code' \in [Codes -> CodeType]
  BY <1>1, <1>2, <1>4
<1>6. ClaimsTypeOK'
  BY <1>3, <1>5 DEF ClaimsIInv, ClaimsTypeOK, CodeType
<1>7. /\ code'[c].state = s /\ \A d \in Codes : d # c => code'[d] = code[d]
      /\ \A d \in Codes : code[d].state \in {"used", "gone"} => code'[d].state \in {"used", "gone"}
  BY <1>1, <1>2, <1>4 DEF CodeType
<1>8. CodesUsedUp'
  BY <1>3, <1>7 DEF ClaimsIInv, ClaimsTypeOK, CodesUsedUp
<1>9. TxCode'
  <2> SUFFICES ASSUME NEW r \in Claimers, claim[r].step \in WithCode
               PROVE  code'[claim[r].code].state \in {"live", "expired"}
    BY <1>3 DEF ClaimsIInv, TxCode
  <2>1. claim[r].code \in Codes /\ code[claim[r].code].state \in {"live", "expired"}
    BY <1>1 DEF ClaimsIInv, TxCode, ClaimType
  <2> QED BY <1>2, <1>7, <2>1
<1>10. TxAgent' /\ TxRows'
  BY <1>3, TxKept
<1> QED BY <1>3, <1>6, <1>8, <1>9, <1>10 DEF ClaimsIInv, PanesOfUnowned, CodeClaimsOnce, RowsInOrder

(* A claim goes on and changes nothing but itself.                         *)
LEMMA ClaimGoesOn ==
  ASSUME ClaimsAssumption, ClaimsIInv, NEW r \in Claimers, NEW d \in ClaimType,
         claim' = [claim EXCEPT ![r] = d],
         UNCHANGED <<owner, code, paneRow, maker, claimedWith>>,
         d.agent = claim[r].agent, d.code = claim[r].code,
         d.step \in WithCode =>
             \/ claim[r].step \in WithCode
             \/ /\ code[d.code].state \in {"live", "expired"}
                /\ \A x \in Claimers : x # r /\ claim[x].code = d.code
                                          => claim[x].step \notin WithCode,
         d.step \in WithAgent =>
             \/ claim[r].step \in WithAgent
             \/ \A x \in Claimers : x # r /\ claim[x].agent = d.agent
                                       => claim[x].step \notin WithAgent,
         RowsOf(d), FoundOf(d)
  PROVE  ClaimsIInv'
<1>1. claim \in [Claimers -> ClaimType]
  BY DEF ClaimsIInv, ClaimsTypeOK, ClaimType
<1>2. claim'[r] = d /\ \A x \in Claimers : x # r => claim'[x] = claim[x]
  BY <1>1
<1>3. ClaimsTypeOK'
  <2>1. claim' \in [Claimers -> ClaimType]
    BY <1>1
  <2> QED BY <2>1 DEF ClaimsIInv, ClaimsTypeOK, ClaimType
<1>4. TxCode'
  <2> SUFFICES ASSUME NEW y \in Claimers, claim'[y].step \in WithCode
               PROVE  /\ code[claim'[y].code].state \in {"live", "expired"}
                      /\ \A x \in Claimers : x # y /\ claim'[x].code = claim'[y].code
                                                => claim'[x].step \notin WithCode
    BY DEF TxCode
  <2>1. CASE y = r
    BY <1>2, <2>1 DEF ClaimsIInv, TxCode
  <2>2. CASE y # r
    <3>1. claim'[y] = claim[y]
      BY <1>2, <2>2
    <3> QED BY <1>2, <2>2, <3>1 DEF ClaimsIInv, TxCode
  <2> QED BY <2>1, <2>2
<1>5. TxAgent'
  <2> SUFFICES ASSUME NEW y \in Claimers, NEW x \in Claimers, y # x,
                      claim'[y].step \in WithAgent, claim'[x].step \in WithAgent
               PROVE  claim'[y].agent # claim'[x].agent
    BY DEF TxAgent
  <2> QED BY <1>2 DEF ClaimsIInv, TxAgent
<1>6. TxRows'
  <2>1. RowsOf(d)' /\ FoundOf(d)'
    BY DEF RowsOf, FoundOf
  <2>2. \A x \in Claimers : x # r => RowsOf(claim[x])' /\ FoundOf(claim[x])'
    BY <1>2 DEF ClaimsIInv, TxRows, RowsOf, FoundOf
  <2> QED BY <1>2, <2>1, <2>2 DEF TxRows, RowsOf, FoundOf
<1> QED BY <1>3, <1>4, <1>5, <1>6 DEF ClaimsIInv, PanesOfUnowned, CodeClaimsOnce, CodesUsedUp,
               RowsInOrder

(* The claim's steps outside the transaction, and into it.                 *)
LEMMA ClaimReadsStep ==
  ASSUME ClaimsAssumption, ClaimsIInv, NEW r \in Claimers,
         Authenticate(r) \/ ReadCode(r) \/ ConsumeCode(r) \/ Bind(r)
  PROVE  ClaimsIInv'
<1>1. claim[r] \in ClaimType /\ RowsOf(claim[r])
  BY DEF ClaimsIInv, ClaimsTypeOK, ClaimType, TxRows
<1>2. PICK s \in {"code", "consume", "done", "bind", "unkeyed"} :
         /\ claim' = [claim EXCEPT ![r] = [claim[r] EXCEPT !.step = s]]
         /\ s = "bind" =>
                /\ code[claim[r].code].state \in {"live", "expired"}
                /\ \A x \in Claimers : x # r /\ claim[x].code = claim[r].code
                                          => claim[x].step \notin WithCode
         /\ s = "unkeyed" =>
                /\ claim[r].step \in WithCode
                /\ \A x \in Claimers : x # r /\ claim[x].agent = claim[r].agent
                                          => claim[x].step \notin WithAgent
  <2>1. CASE Authenticate(r)
    BY <2>1 DEF Authenticate
  <2>2. CASE ReadCode(r)
    BY <2>2 DEF ReadCode
  <2>3. CASE ConsumeCode(r)
    BY <2>3 DEF ConsumeCode, Consumable
  <2>4. CASE Bind(r)
    BY <2>4 DEF Bind, WithCode
  <2> QED BY <2>1, <2>2, <2>3, <2>4
<1>3. UNCHANGED <<owner, code, paneRow, maker, claimedWith>>
      /\ claim[r].step \notin WithAgent
  BY DEF Authenticate, ReadCode, ConsumeCode, Bind, WithAgent, WithCode
<1>4. PICK d : d = [claim[r] EXCEPT !.step = s]
  OBVIOUS
<1>5. /\ d \in ClaimType /\ d.step = s /\ d.agent = claim[r].agent /\ d.code = claim[r].code
      /\ d.moved = claim[r].moved /\ d.winners = claim[r].winners /\ d.found = claim[r].found
  BY <1>1, <1>4 DEF ClaimType, ClaimSteps, WithCode
<1>6. RowsOf(d) /\ FoundOf(d)
  BY <1>1, <1>3, <1>5 DEF RowsOf, FoundOf
<1>7. s \in WithCode => s \in {"bind", "unkeyed"}
  BY DEF WithCode
<1>8. s \in WithAgent => s = "unkeyed"
  BY DEF WithCode, WithAgent
<1> QED BY <1>2, <1>3, <1>4, <1>5, <1>6, <1>7, <1>8, ClaimGoesOn

LEMMA WinnersAreUnowned ==
  ASSUME NEW a
  PROVE  /\ \A p \in Winners(a) : /\ p \in DOMAIN paneRow /\ paneRow[p].agent = a
                                  /\ paneRow[p].owner = Nobody
         /\ \A k : \A p \in Unowned(a, k) : /\ p \in DOMAIN paneRow /\ paneRow[p].agent = a
                                             /\ paneRow[p].owner = Nobody
BY DEF Winners, Unowned

(* Of two panes of a key not both beat the other.                          *)
LEMMA BeatsOneWay ==
  ASSUME ClaimsTypeOK, NEW p \in DOMAIN paneRow, NEW q \in DOMAIN paneRow,
         p \in Nat, q \in Nat, Beats(p, q), Beats(q, p)
  PROVE  FALSE
<1>1. paneRow[p].rank \in 0 .. 3 /\ paneRow[q].rank \in 0 .. 3
  BY DEF ClaimsTypeOK
<1> QED BY <1>1 DEF Beats

LEMMA OneWinner ==
  ASSUME ClaimsAssumption, ClaimsIInv, NEW a,
         NEW p \in Winners(a), NEW q \in Winners(a), paneRow[p].key = paneRow[q].key
  PROVE  p = q
<1> SUFFICES ASSUME p # q
             PROVE  FALSE
  OBVIOUS
<1>1. p \in DOMAIN paneRow /\ q \in DOMAIN paneRow /\ p \in Nat /\ q \in Nat
  BY WinnersAreUnowned, PanesAreFinite DEF ClaimsIInv
<1>2. PICK k \in ContextKeys : p \in Unowned(a, k)
                              /\ \A x \in Unowned(a, k) \ {p} : Beats(p, x)
  BY DEF Winners
<1>3. PICK l \in ContextKeys : q \in Unowned(a, l)
                              /\ \A x \in Unowned(a, l) \ {q} : Beats(q, x)
  BY DEF Winners
<1>4. k = l
  BY <1>2, <1>3 DEF Unowned
<1> QED BY <1>1, <1>2, <1>3, <1>4, BeatsOneWay DEF ClaimsIInv

(* If a pane of a key is open and not trashed, so is the winner.           *)
LEMMA OpenWinner ==
  ASSUME ClaimsAssumption, ClaimsIInv, NEW a, NEW k \in ContextKeys,
         NEW p \in Unowned(a, k), paneRow[p].rank = 3
  PROVE  \E q \in Winners(a) : q \in Unowned(a, k) /\ paneRow[q].rank = 3
<1>1. \A x \in Unowned(a, k) : x \in DOMAIN paneRow /\ x \in Nat /\ paneRow[x].rank \in 0 .. 3
  BY PanesAreFinite DEF Unowned, ClaimsIInv, ClaimsTypeOK
<1> DEFINE C == {q \in Unowned(a, k) : paneRow[q].rank = 3}
<1>2. p \in C /\ C \subseteq 1 .. MaxRow
  BY DEF Unowned, ClaimsIInv, ClaimsTypeOK, Ids
<1>3. PICK q \in C : \A x \in C : x <= q
  <2> HIDE DEF C
  <2> QED BY <1>2, GreatestExists DEF ClaimsAssumption
<1>4. \A x \in Unowned(a, k) \ {q} : Beats(q, x)
  <2> SUFFICES ASSUME NEW x \in Unowned(a, k) \ {q}
               PROVE  Beats(q, x)
    OBVIOUS
  <2>1. x \in Nat /\ q \in Nat /\ paneRow[x].rank \in 0 .. 3 /\ paneRow[q].rank = 3 /\ x # q
    BY <1>1, <1>3
  <2>2. CASE paneRow[x].rank = 3
    <3>1. x <= q
      BY <1>3, <2>2
    <3> QED BY <2>1, <2>2, <3>1 DEF Beats
  <2>3. CASE paneRow[x].rank # 3
    BY <2>1, <2>3 DEF Beats
  <2> QED BY <2>2, <2>3
<1>5. q \in Winners(a)
  BY <1>3, <1>4, <1>1 DEF Winners
<1> QED BY <1>3, <1>5

LEMMA MoveUnkeyedStep ==
  ASSUME ClaimsAssumption, ClaimsIInv, NEW r \in Claimers, MoveUnkeyed(r)
  PROVE  ClaimsIInv'
<1>1. claim[r] \in ClaimType /\ RowsOf(claim[r]) /\ DOMAIN paneRow \subseteq Ids
  BY DEF ClaimsIInv, ClaimsTypeOK, ClaimType, TxRows
<1>2. PICK M : M = Unowned(claim[r].agent, NoContext)
  OBVIOUS
<1>3. M \subseteq Ids
  BY <1>1, <1>2 DEF Unowned
<1>4. PICK d : d = [claim[r] EXCEPT !.step = "find", !.moved = M]
  OBVIOUS
<1>5. /\ d \in ClaimType /\ d.step = "find" /\ d.agent = claim[r].agent
      /\ d.code = claim[r].code /\ d.moved = M /\ d.winners = claim[r].winners
      /\ d.found = claim[r].found
  BY <1>1, <1>3, <1>4 DEF ClaimType, ClaimSteps, WithCode
<1>6. claim' = [claim EXCEPT ![r] = d]
      /\ UNCHANGED <<owner, code, paneRow, maker, claimedWith>>
  BY <1>2, <1>4 DEF MoveUnkeyed
<1>7. "find" \in WithAgent /\ claim[r].step \in WithAgent /\ claim[r].step \in WithCode
  BY DEF MoveUnkeyed, WithAgent, WithCode
<1>8. RowsOf(d) /\ FoundOf(d)
  BY <1>1, <1>2, <1>5, <1>7, WinnersAreUnowned DEF RowsOf, FoundOf
<1> QED BY <1>5, <1>6, <1>7, <1>8, ClaimGoesOn

LEMMA FindKeyedStep ==
  ASSUME ClaimsAssumption, ClaimsIInv, NEW r \in Claimers, FindKeyed(r)
  PROVE  ClaimsIInv'
<1>1. claim[r] \in ClaimType /\ RowsOf(claim[r]) /\ DOMAIN paneRow \subseteq Ids
  BY DEF ClaimsIInv, ClaimsTypeOK, ClaimType, TxRows
<1>2. PICK a, W, F : /\ a = claim[r].agent /\ W = Winners(a)
                     /\ F = {p \in Keyed(a) : paneRow[p].rank = 3}
  OBVIOUS
<1>3. \A p \in F : /\ p \in DOMAIN paneRow /\ paneRow[p].rank = 3
                   /\ \E k \in ContextKeys : p \in Unowned(a, k)
  BY <1>2 DEF Keyed, Unowned
<1>4. W \subseteq Ids /\ F \subseteq Ids
  BY <1>1, <1>2, <1>3, WinnersAreUnowned
<1>5. PICK d : d = [claim[r] EXCEPT !.step = "write", !.winners = W, !.found = F]
  OBVIOUS
<1>6. /\ d \in ClaimType /\ d.step = "write" /\ d.agent = claim[r].agent
      /\ d.code = claim[r].code /\ d.moved = claim[r].moved /\ d.winners = W /\ d.found = F
  BY <1>1, <1>4, <1>5 DEF ClaimType, ClaimSteps, WithCode
<1>7. claim' = [claim EXCEPT ![r] = d]
      /\ UNCHANGED <<owner, code, paneRow, maker, claimedWith>>
  BY <1>2, <1>5 DEF FindKeyed
<1>8. "write" \in WithAgent /\ claim[r].step \in WithAgent /\ claim[r].step \in WithCode
  BY DEF FindKeyed, WithAgent, WithCode
<1>9. RowsOf(d)
  BY <1>1, <1>2, <1>3, <1>6, <1>8, WinnersAreUnowned DEF RowsOf
<1>10. \A p \in F : \E q \in F \cap W : paneRow[q].key = paneRow[p].key
  <2> SUFFICES ASSUME NEW p \in F
               PROVE  \E q \in F \cap W : paneRow[q].key = paneRow[p].key
    OBVIOUS
  <2>1. PICK k \in ContextKeys : p \in Unowned(a, k)
    BY <1>3
  <2>2. PICK q \in Winners(a) : q \in Unowned(a, k) /\ paneRow[q].rank = 3
    BY <1>3, <2>1, OpenWinner
  <2> QED BY <1>2, <2>1, <2>2 DEF Unowned, Keyed
<1>11. FoundOf(d)
  BY <1>2, <1>6, <1>10, OneWinner DEF FoundOf
<1> QED BY <1>6, <1>7, <1>8, <1>9, <1>11, ClaimGoesOn

(* The request is answered, with an error, and the transaction forgotten.  *)
LEMMA ClaimEnds ==
  ASSUME ClaimsAssumption, ClaimsIInv, NEW r \in Claimers, NEW s \in {"done", "failed"},
         Ended(r, s), UNCHANGED <<owner, code, paneRow, maker, claimedWith>>
  PROVE  ClaimsIInv'
<1>1. claim[r] \in ClaimType
  BY DEF ClaimsIInv, ClaimsTypeOK, ClaimType
<1>2. PICK d : d = [claim[r] EXCEPT !.step = s, !.moved = {}, !.winners = {}, !.found = {}]
  OBVIOUS
<1>3. /\ d \in ClaimType /\ d.step = s /\ d.agent = claim[r].agent /\ d.code = claim[r].code
      /\ d.moved = {} /\ d.winners = {} /\ d.found = {}
  BY <1>1, <1>2 DEF ClaimType, ClaimSteps
<1>4. claim' = [claim EXCEPT ![r] = d]
  BY <1>2 DEF Ended
<1>5. RowsOf(d) /\ FoundOf(d) /\ s \notin WithCode /\ s \notin WithAgent
  BY <1>3 DEF RowsOf, FoundOf, WithCode, WithAgent
<1> QED BY <1>3, <1>4, <1>5, ClaimGoesOn

LEMMA WriteKeyedStep ==
  ASSUME ClaimsAssumption, ClaimsIInv, NEW r \in Claimers, WriteKeyed(r)
  PROVE  ClaimsIInv'
<1>1. claim[r] \in ClaimType /\ RowsOf(claim[r]) /\ FoundOf(claim[r])
  BY DEF ClaimsIInv, ClaimsTypeOK, ClaimType, TxRows
<1>2. UNCHANGED <<owner, code, paneRow, maker, claimedWith>> /\ claim[r].step = "write"
  BY DEF WriteKeyed
<1>3. CASE Ended(r, "done")
  BY <1>2, <1>3, ClaimEnds
<1>4. CASE claim' = [claim EXCEPT ![r].step = "commit", ![r].moved = @ \cup claim[r].winners]
  <2>1. PICK d : d = [claim[r] EXCEPT !.step = "commit", !.moved = @ \cup claim[r].winners]
    OBVIOUS
  <2>2. /\ d \in ClaimType /\ d.step = "commit" /\ d.agent = claim[r].agent
        /\ d.code = claim[r].code /\ d.moved = claim[r].moved \cup claim[r].winners
        /\ d.winners = claim[r].winners /\ d.found = claim[r].found
    BY <1>1, <2>1 DEF ClaimType, ClaimSteps, WithCode
  <2>3. claim' = [claim EXCEPT ![r] = d]
    BY <1>4, <2>1
  <2>4. "commit" \in WithAgent /\ claim[r].step \in WithAgent /\ claim[r].step \in WithCode
    BY <1>2 DEF WithAgent, WithCode
  <2>5. RowsOf(d)
    BY <1>1, <2>2, <2>4 DEF RowsOf
  <2>6. FoundOf(d)
    BY <1>1, <1>2, <2>2 DEF FoundOf
  <2> QED BY <1>2, <2>2, <2>3, <2>4, <2>5, <2>6, ClaimGoesOn
<1> QED BY <1>3, <1>4 DEF WriteKeyed

LEMMA CommitStep ==
  ASSUME ClaimsAssumption, ClaimsIInv, NEW r \in Claimers, Commit(r)
  PROVE  ClaimsIInv'
<1>1. claim \in [Claimers -> ClaimType] /\ code \in [Codes -> CodeType]
      /\ owner \in [Workers -> Owners \cup {Nobody}]
      /\ \A p \in DOMAIN paneRow : paneRow[p] \in PaneRowType
  BY DEF ClaimsIInv, ClaimsTypeOK, ClaimType, CodeType, PaneRowType
<1>2. claim[r] \in ClaimType /\ RowsOf(claim[r]) /\ claim[r].step = "commit"
  BY DEF ClaimsIInv, ClaimsTypeOK, ClaimType, TxRows, Commit
<1>3. PICK a, c, h, M : a = claim[r].agent /\ c = claim[r].code /\ h = code[c].human
                        /\ M = claim[r].moved
  OBVIOUS
<1>4. a \in Workers /\ c \in Codes /\ h \in Owners /\ h # Nobody
  BY <1>1, <1>3 DEF ClaimType, CodeType, ClaimsAssumption
<1>5. /\ code' = [code EXCEPT ![c] = [code[c] EXCEPT !.state = "used"]]
      /\ owner' = [owner EXCEPT ![a] = h]
      /\ paneRow' = [p \in DOMAIN paneRow |-> IF p \in M THEN [paneRow[p] EXCEPT !.owner = h]
                                              ELSE paneRow[p]]
      /\ claimedWith' = claimedWith \cup {<<c, a>>} /\ UNCHANGED maker
  BY <1>3 DEF Commit
<1>6. PICK d : d = [claim[r] EXCEPT !.step = "done", !.moved = {}, !.winners = {}, !.found = {}]
  OBVIOUS
<1>7. /\ d \in ClaimType /\ d.step = "done" /\ d.moved = {} /\ d.winners = {} /\ d.found = {}
  BY <1>2, <1>6 DEF ClaimType, ClaimSteps
<1>8. claim' = [claim EXCEPT ![r] = d]
  BY <1>6 DEF Commit, Ended
<1>9. claim' \in [Claimers -> ClaimType] /\ claim'[r] = d
      /\ \A x \in Claimers : x # r => claim'[x] = claim[x]
  BY <1>1, <1>7, <1>8
<1>10. [code[c] EXCEPT !.state = "used"] \in CodeType
  BY <1>1, <1>4 DEF CodeType
<1>11. code' \in [Codes -> CodeType] /\ owner' \in [Workers -> Owners \cup {Nobody}]
  BY <1>1, <1>4, <1>5, <1>10
<1>12. /\ DOMAIN paneRow' = DOMAIN paneRow
       /\ \A p \in DOMAIN paneRow : /\ paneRow'[p] \in PaneRowType
                                    /\ paneRow'[p].agent = paneRow[p].agent
                                    /\ paneRow'[p].key = paneRow[p].key
                                    /\ paneRow[p].agent # a => paneRow'[p] = paneRow[p]
  <2>1. \A p \in DOMAIN paneRow : /\ [paneRow[p] EXCEPT !.owner = h] \in PaneRowType
                                  /\ [paneRow[p] EXCEPT !.owner = h].agent = paneRow[p].agent
                                  /\ [paneRow[p] EXCEPT !.owner = h].key = paneRow[p].key
    BY <1>1, <1>4 DEF PaneRowType
  <2>2. \A p \in M : paneRow[p].agent = a
    BY <1>2, <1>3 DEF RowsOf
  <2> QED BY <1>1, <1>5, <2>1, <2>2
<1>13. claimedWith' \subseteq Codes \X Workers
  BY <1>4, <1>5 DEF ClaimsIInv, ClaimsTypeOK
<1>14. ClaimsTypeOK'
  <2>1. DOMAIN paneRow' \subseteq Ids /\ \A p \in DOMAIN paneRow' : paneRow'[p] \in PaneRowType
    BY <1>12 DEF ClaimsIInv, ClaimsTypeOK
  <2>2. UNCHANGED maker
    BY <1>5
  <2> QED BY <1>9, <1>11, <1>13, <2>1, <2>2
          DEF ClaimsIInv, ClaimsTypeOK, ClaimType, CodeType, PaneRowType
<1>15. code'[c].state = "used" /\ \A e \in Codes : e # c => code'[e] = code[e]
  BY <1>1, <1>4, <1>5, <1>10 DEF CodeType
<1>16. CodesUsedUp'
  BY <1>5, <1>15 DEF ClaimsIInv, ClaimsTypeOK, CodesUsedUp
<1>17. \A x \in Claimers : x # r =>
           /\ claim[x].step \in WithCode => claim[x].code # c
           /\ claim[x].step \in WithAgent => claim[x].agent # a
  <2>1. "commit" \in WithCode /\ "commit" \in WithAgent
    BY DEF WithCode, WithAgent
  <2> QED BY <1>2, <1>3, <2>1 DEF ClaimsIInv, TxCode, TxAgent
<1>18. code[c].state \in {"live", "expired"}
  BY <1>2, <1>3 DEF ClaimsIInv, TxCode, WithCode
<1>19. CodeClaimsOnce'
  <2>1. \A x \in claimedWith : x[1] # c
    BY <1>18 DEF ClaimsIInv, CodesUsedUp
  <2>2. \A x \in claimedWith' : x \in claimedWith \/ x = <<c, a>>
    BY <1>5
  <2>3. <<c, a>>[1] = c
    OBVIOUS
  <2>4. \A x, y \in claimedWith : x[1] = y[1] => x = y
    BY DEF ClaimsIInv, CodeClaimsOnce
  <2>5. ASSUME NEW x \in claimedWith', NEW y \in claimedWith', x[1] = y[1]
        PROVE  x = y
    <3>1. CASE x \in claimedWith
      BY <2>1, <2>2, <2>3, <2>4, <2>5, <3>1
    <3>2. CASE x = <<c, a>>
      BY <2>1, <2>2, <2>3, <2>5, <3>2
    <3> QED BY <2>2, <2>5, <3>1, <3>2
  <2> QED BY <2>5 DEF CodeClaimsOnce
<1>20. PanesOfUnowned'
  <2>1. \A b \in Workers : owner'[b] = Nobody => b # a /\ owner[b] = Nobody
    BY <1>1, <1>4, <1>5
  <2>2. \A p \in DOMAIN paneRow' : /\ p \in DOMAIN paneRow
                                   /\ paneRow'[p].agent = paneRow[p].agent
                                   /\ paneRow[p].agent # a => paneRow'[p] = paneRow[p]
    BY <1>12
  <2>3. UNCHANGED maker
    BY <1>5
  <2>4. PanesOfUnowned
    BY DEF ClaimsIInv
  <2> SUFFICES ASSUME NEW b \in Workers, owner'[b] = Nobody
               PROVE  /\ \A p \in DOMAIN paneRow' : paneRow'[p].agent = b
                                                     => paneRow'[p].owner = Nobody
                      /\ \A m \in Makers : maker[m].agent = b /\ maker[m].step = "insert"
                                             => maker[m].owner = Nobody
    BY <2>3 DEF PanesOfUnowned
  <2> QED BY <2>1, <2>2, <2>4 DEF PanesOfUnowned
<1>21. "done" \notin WithCode /\ "done" \notin WithAgent
  BY DEF WithCode, WithAgent
<1>22. TxCode'
  <2> SUFFICES ASSUME NEW y \in Claimers, claim'[y].step \in WithCode
               PROVE  /\ code'[claim'[y].code].state \in {"live", "expired"}
                      /\ \A x \in Claimers : x # y /\ claim'[x].code = claim'[y].code
                                                => claim'[x].step \notin WithCode
    BY DEF TxCode
  <2>1. y # r /\ claim'[y] = claim[y]
    BY <1>7, <1>9, <1>21
  <2>2. claim[y].code \in Codes /\ claim[y].code # c
    BY <1>1, <1>17, <2>1 DEF ClaimType
  <2>3. code'[claim[y].code].state \in {"live", "expired"}
    BY <1>15, <2>1, <2>2 DEF ClaimsIInv, TxCode
  <2>4. ASSUME NEW x \in Claimers, x # y, claim'[x].code = claim[y].code
        PROVE  claim'[x].step \notin WithCode
    <3>1. CASE x = r
      BY <1>7, <1>9, <1>21, <3>1
    <3>2. CASE x # r
      BY <1>9, <2>1, <2>4, <3>2 DEF ClaimsIInv, TxCode
    <3> QED BY <3>1, <3>2
  <2> QED BY <2>1, <2>3, <2>4
<1>23. TxAgent'
  BY <1>7, <1>9, <1>21 DEF ClaimsIInv, TxAgent
<1>24. TxRows'
  <2> SUFFICES ASSUME NEW x \in Claimers
               PROVE  RowsOf(claim[x])' /\ FoundOf(claim[x])'
    BY DEF TxRows
  <2>1. CASE x = r
    BY <1>7, <1>9, <1>21, <2>1 DEF RowsOf, FoundOf
  <2>2. CASE x # r
    <3>1. claim'[x] = claim[x] /\ RowsOf(claim[x]) /\ FoundOf(claim[x])
      BY <1>9, <2>2 DEF ClaimsIInv, TxRows
    <3>2. \A p \in claim[x].moved \cup claim[x].winners \cup claim[x].found :
             p \in DOMAIN paneRow /\ paneRow'[p] = paneRow[p]
      <4>1. CASE claim[x].step \in WithAgent
        BY <1>12, <1>17, <2>2, <3>1, <4>1 DEF RowsOf
      <4>2. CASE claim[x].step \notin WithAgent
        BY <3>1, <4>2 DEF RowsOf
      <4> QED BY <4>1, <4>2
    <3>3. RowsOf(claim[x])'
      BY <1>12, <3>1, <3>2 DEF RowsOf
    <3>4. FoundOf(claim[x])'
      BY <3>1, <3>2 DEF FoundOf
    <3> QED BY <3>3, <3>4
  <2> QED BY <2>1, <2>2
<1> QED BY <1>14, <1>16, <1>19, <1>20, <1>22, <1>23, <1>24, <1>12 DEF ClaimsIInv, RowsInOrder

LEMMA ClaimStepKeeps ==
  ASSUME ClaimsAssumption, ClaimsIInv, NEW r \in Claimers, ClaimStep(r)
  PROVE  ClaimsIInv'
<1>1. CASE Authenticate(r) \/ ReadCode(r) \/ ConsumeCode(r) \/ Bind(r)
  BY <1>1, ClaimReadsStep
<1>2. CASE MoveUnkeyed(r)
  BY <1>2, MoveUnkeyedStep
<1>3. CASE FindKeyed(r)
  BY <1>3, FindKeyedStep
<1>4. CASE WriteKeyed(r)
  BY <1>4, WriteKeyedStep
<1>5. CASE Commit(r)
  BY <1>5, CommitStep
<1>6. CASE ClaimAborts(r)
  BY <1>6, ClaimEnds DEF ClaimAborts
<1> QED BY <1>1, <1>2, <1>3, <1>4, <1>5, <1>6 DEF ClaimStep

LEMMA AuthMakerStep ==
  ASSUME ClaimsAssumption, ClaimsIInv, NEW m \in Makers, AuthenticateMaker(m)
  PROVE  ClaimsIInv'
<1>1. maker \in [Makers -> MakerType] /\ owner \in [Workers -> Owners \cup {Nobody}]
  BY DEF ClaimsIInv, ClaimsTypeOK, MakerType
<1>2. PICK h : h = owner[maker[m].agent]
  OBVIOUS
<1>3. /\ maker' = [maker EXCEPT ![m] = [maker[m] EXCEPT !.step = "insert", !.owner = h]]
      /\ UNCHANGED <<owner, code, paneRow, claim, claimedWith>>
  BY <1>2 DEF AuthenticateMaker
<1>4. [maker[m] EXCEPT !.step = "insert", !.owner = h] \in MakerType
  BY <1>1, <1>2 DEF MakerType
<1>5. maker' \in [Makers -> MakerType]
  BY <1>1, <1>3, <1>4
<1>6. ClaimsTypeOK'
  BY <1>3, <1>5 DEF ClaimsIInv, ClaimsTypeOK, MakerType
<1>7. maker'[m].agent = maker[m].agent /\ maker'[m].owner = h
      /\ \A o \in Makers : o # m => maker'[o] = maker[o]
  BY <1>1, <1>3 DEF MakerType
<1>8. PanesOfUnowned'
  BY <1>2, <1>3, <1>7 DEF ClaimsIInv, PanesOfUnowned
<1>9. TxCode' /\ TxAgent' /\ TxRows'
  BY <1>3, TxKept DEF ClaimsIInv, TxCode
<1> QED BY <1>3, <1>6, <1>8, <1>9 DEF ClaimsIInv, CodeClaimsOnce, CodesUsedUp, RowsInOrder

LEMMA InsertPaneStep ==
  ASSUME ClaimsAssumption, ClaimsIInv, NEW m \in Makers, InsertPane(m)
  PROVE  ClaimsIInv'
<1>1. maker \in [Makers -> MakerType] /\ \A p \in DOMAIN paneRow : paneRow[p] \in PaneRowType
  BY DEF ClaimsIInv, ClaimsTypeOK, MakerType, PaneRowType
<1>2. PICK next : next = Cardinality(DOMAIN paneRow) + 1
  OBVIOUS
<1>3. next \in Nat /\ next > 0
  BY <1>2, PanesAreFinite DEF ClaimsIInv
<1>4. PICK s \in {"auth", "done"} :
         maker' = [maker EXCEPT ![m] = [maker[m] EXCEPT !.step = s]]
  BY DEF InsertPane
<1>5. UNCHANGED <<owner, code, claim, claimedWith>> /\ maker[m].step = "insert"
  BY DEF InsertPane
<1>6. PICK k \in ContextKeys \cup {NoContext} :
         \/ UNCHANGED paneRow
         \/ /\ ~(next > MaxRow)
            /\ paneRow' = [p \in DOMAIN paneRow \cup {next} |->
                    IF p = next
                    THEN [agent |-> maker[m].agent, owner |-> maker[m].owner, key |-> k,
                          rank |-> 3]
                    ELSE paneRow[p]]
  BY <1>2 DEF InsertPane
<1>7. [maker[m] EXCEPT !.step = s] \in MakerType
  BY <1>1 DEF MakerType
<1>8. maker' \in [Makers -> MakerType]
  BY <1>1, <1>4, <1>7
<1>9. /\ maker'[m].step # "insert"
      /\ \A o \in Makers : o # m => maker'[o] = maker[o]
  BY <1>1, <1>4 DEF MakerType
<1>10. CASE UNCHANGED paneRow
  <2>1. ClaimsTypeOK'
    BY <1>5, <1>8, <1>10 DEF ClaimsIInv, ClaimsTypeOK, MakerType
  <2>2. PanesOfUnowned'
    BY <1>5, <1>9, <1>10 DEF ClaimsIInv, PanesOfUnowned
  <2>3. TxCode' /\ TxAgent' /\ TxRows'
    BY <1>5, <1>10, TxKept DEF ClaimsIInv, TxCode
  <2> QED BY <1>5, <1>10, <2>1, <2>2, <2>3
          DEF ClaimsIInv, CodeClaimsOnce, CodesUsedUp, RowsInOrder
<1>11. CASE /\ ~(next > MaxRow)
            /\ paneRow' = [p \in DOMAIN paneRow \cup {next} |->
                    IF p = next
                    THEN [agent |-> maker[m].agent, owner |-> maker[m].owner, key |-> k,
                          rank |-> 3]
                    ELSE paneRow[p]]
  <2>1. /\ DOMAIN paneRow' = DOMAIN paneRow \cup {next}
        /\ paneRow'[next] = [agent |-> maker[m].agent, owner |-> maker[m].owner, key |-> k,
                             rank |-> 3]
        /\ \A p \in DOMAIN paneRow : p # next => paneRow'[p] = paneRow[p]
    BY <1>11
  <2>2. paneRow'[next] \in PaneRowType
    BY <1>1, <2>1 DEF PaneRowType, MakerType
  <2>3. next \in Ids
    BY <1>3, <1>11 DEF Ids, ClaimsAssumption
  <2>4. \A p \in DOMAIN paneRow' : paneRow'[p] \in PaneRowType
    BY <1>1, <2>1, <2>2
  <2>5. DOMAIN paneRow' \subseteq Ids
    BY <2>1, <2>3 DEF ClaimsIInv, ClaimsTypeOK
  <2>6. ClaimsTypeOK'
    BY <1>5, <1>8, <2>4, <2>5 DEF ClaimsIInv, ClaimsTypeOK, MakerType, PaneRowType
  <2>7. paneRow'[next].agent = maker[m].agent /\ paneRow'[next].owner = maker[m].owner
    BY <2>1
  <2>8. PanesOfUnowned'
    BY <1>5, <1>9, <2>1, <2>7 DEF ClaimsIInv, PanesOfUnowned
  <2>9. next \notin DOMAIN paneRow /\ RowsInOrder'
    BY <1>2, <2>1, NextIsNew DEF RowsInOrder
  <2>10. TxCode' /\ TxAgent' /\ TxRows'
    <3>1. \A p \in DOMAIN paneRow : paneRow'[p] = paneRow[p]
      BY <2>1, <2>9
    <3> QED BY <1>5, <2>1, <3>1, TxKept DEF ClaimsIInv, TxCode
  <2>11. CodesUsedUp' /\ CodeClaimsOnce'
    BY <1>5 DEF ClaimsIInv, CodeClaimsOnce, CodesUsedUp
  <2> QED BY <2>6, <2>8, <2>9, <2>10, <2>11 DEF ClaimsIInv
<1> QED BY <1>6, <1>10, <1>11

LEMMA RerankStep ==
  ASSUME ClaimsAssumption, ClaimsIInv, NEW q, Close(q) \/ Trash(q) \/ Restore(q)
  PROVE  ClaimsIInv'
<1>1. \A p \in DOMAIN paneRow : paneRow[p] \in PaneRowType
  BY DEF ClaimsIInv, ClaimsTypeOK, PaneRowType
<1>2. PICK k \in 0 .. 3 : q \in DOMAIN paneRow /\ Rerank(q, k)
  <2>1. CASE Close(q)
    BY <2>1 DEF Close
  <2>2. CASE Trash(q)
    <3>1. paneRow[q].rank - 2 \in 0 .. 3
      BY <2>2 DEF Trash
    <3> QED BY <2>2, <3>1 DEF Trash
  <2>3. CASE Restore(q)
    <3>1. paneRow[q].rank + 2 \in 0 .. 3
      BY <2>3 DEF Restore
    <3> QED BY <2>3, <3>1 DEF Restore
  <2> QED BY <2>1, <2>2, <2>3
<1>3. /\ paneRow' = [paneRow EXCEPT ![q] = [paneRow[q] EXCEPT !.rank = k]]
      /\ UNCHANGED <<owner, code, claim, maker, claimedWith>>
  BY <1>2 DEF Rerank
<1>4. /\ [paneRow[q] EXCEPT !.rank = k] \in PaneRowType
      /\ [paneRow[q] EXCEPT !.rank = k].agent = paneRow[q].agent
      /\ [paneRow[q] EXCEPT !.rank = k].key = paneRow[q].key
      /\ [paneRow[q] EXCEPT !.rank = k].owner = paneRow[q].owner
  BY <1>1, <1>2 DEF PaneRowType
<1>5. DOMAIN paneRow' = DOMAIN paneRow
      /\ \A p \in DOMAIN paneRow : /\ paneRow'[p] \in PaneRowType
                                   /\ paneRow'[p].agent = paneRow[p].agent
                                   /\ paneRow'[p].key = paneRow[p].key
                                   /\ paneRow'[p].owner = paneRow[p].owner
  <2>1. DOMAIN paneRow' = DOMAIN paneRow
    BY <1>3
  <2>2. paneRow'[q] = [paneRow[q] EXCEPT !.rank = k]
    BY <1>2, <1>3
  <2>3. \A p \in DOMAIN paneRow : p # q => paneRow'[p] = paneRow[p]
    BY <1>3
  <2> QED BY <1>1, <1>4, <2>1, <2>2, <2>3
<1>6. ClaimsTypeOK'
  BY <1>3, <1>5 DEF ClaimsIInv, ClaimsTypeOK, PaneRowType
<1>7. PanesOfUnowned'
  BY <1>3, <1>5 DEF ClaimsIInv, PanesOfUnowned
<1>8. TxCode' /\ TxAgent' /\ TxRows'
  BY <1>3, <1>5, TxKept DEF ClaimsIInv, TxCode
<1> QED BY <1>3, <1>5, <1>6, <1>7, <1>8
        DEF ClaimsIInv, CodeClaimsOnce, CodesUsedUp, RowsInOrder

LEMMA ClaimsStepIInv ==
  ASSUME ClaimsAssumption, ClaimsIInv, [ClaimsNext]_claimVars
  PROVE  ClaimsIInv'
<1>1. CASE UNCHANGED claimVars
  <2>1. TxAgent' /\ TxRows'
    BY <1>1, TxKept DEF claimVars
  <2> QED BY <1>1, <2>1 DEF claimVars, ClaimsIInv, ClaimsTypeOK, PanesOfUnowned,
             CodeClaimsOnce, CodesUsedUp, RowsInOrder, TxCode
<1>2. CASE ClaimsNext
  <2>1. CASE \E c \in Codes : MintCode(c) \/ CodeExpires(c) \/ SweepCode(c)
    BY <2>1, CodeStep
  <2>2. CASE \E r \in Claimers : ClaimStep(r)
    BY <2>2, ClaimStepKeeps
  <2>3. CASE \E m \in Makers : MakerStep(m)
    BY <2>3, AuthMakerStep, InsertPaneStep DEF MakerStep
  <2>4. CASE \E p \in Ids : Close(p) \/ Trash(p) \/ Restore(p)
    BY <2>4, RerankStep
  <2> QED BY <1>2, <2>1, <2>2, <2>3, <2>4 DEF ClaimsNext
<1> QED BY <1>1, <1>2

-----------------------------------------------------------------------------
(* What takes a claim to its end is a step of its own.                     *)
LEMMA OwnStep ==
  ASSUME ClaimsIInv, ClaimsNext, NEW r \in Claimers, claim'[r].step # claim[r].step
  PROVE  ClaimStep(r)
<1>1. claim \in [Claimers -> ClaimType]
  BY DEF ClaimsIInv, ClaimsTypeOK, ClaimType
<1>2. PICK x \in Claimers : ClaimStep(x)
  BY DEF ClaimsNext, MintCode, CodeExpires, SweepCode, MakerStep, AuthenticateMaker,
         InsertPane, Close, Trash, Restore, Rerank
<1>3. \A y \in Claimers : y # x => claim'[y] = claim[y]
  BY <1>1, <1>2 DEF ClaimStep, Authenticate, ReadCode, ConsumeCode, Bind, MoveUnkeyed,
                    FindKeyed, WriteKeyed, Commit, ClaimAborts, Ended
<1> QED BY <1>2, <1>3

LEMMA NotBlockedStep ==
  ASSUME ClaimsAssumption, ClaimsIInv, ClaimsNext, NEW r \in Claimers,
         claim[r].step = "write", claim'[r].step = "done"
  PROVE  \E p \in claim[r].winners, q \in DOMAIN paneRow :
             /\ paneRow[q].owner = code[claim[r].code].human
             /\ paneRow[q].key = paneRow[p].key /\ paneRow[q].key # NoContext
<1>1. claim \in [Claimers -> ClaimType] /\ FoundOf(claim[r])
  BY DEF ClaimsIInv, ClaimsTypeOK, ClaimType, TxRows
<1>2. WriteKeyed(r)
  <2>1. ClaimStep(r)
    BY OwnStep
  <2>2. ~ClaimAborts(r)
    <3>1. ClaimAborts(r) => claim'[r].step = "failed"
      BY <1>1 DEF ClaimAborts, Ended
    <3> QED BY <3>1
  <2> QED BY <2>1, <2>2 DEF ClaimStep, Authenticate, ReadCode, ConsumeCode, Bind, MoveUnkeyed,
                            FindKeyed, Commit
<1>3. PICK h : h = code[claim[r].code].human
  OBVIOUS
<1>4. ~SlotsFree(h, claim[r].winners)
  <2>1. PICK d : d = [claim[r] EXCEPT !.step = "commit", !.moved = @ \cup claim[r].winners]
    OBVIOUS
  <2>2. d.step = "commit"
    BY <1>1, <2>1 DEF ClaimType
  <2>3. claim' # [claim EXCEPT ![r] = d]
    BY <1>1, <2>2
  <2> QED BY <1>2, <1>3, <2>1, <2>3 DEF WriteKeyed
<1>5. PICK p \in claim[r].winners, q \in DOMAIN paneRow :
         /\ p # q /\ paneRow[p].key # NoContext /\ paneRow[q].key = paneRow[p].key
         /\ paneRow[q].owner = h \/ q \in claim[r].winners
  BY <1>4 DEF SlotsFree
<1>6. q \notin claim[r].winners
  BY <1>1, <1>5 DEF FoundOf
<1> QED BY <1>3, <1>5, <1>6

LEMMA FollowsStep ==
  ASSUME ClaimsAssumption, ClaimsIInv, ClaimsNext, NEW r \in Claimers,
         claim[r].step = "commit", claim'[r].step = "done", NEW p \in claim[r].found
  PROVE  \E q \in claim[r].found :
             /\ paneRow[q].agent = claim[r].agent /\ paneRow[q].key = paneRow[p].key
             /\ paneRow'[q].owner = code[claim[r].code].human
<1>1. /\ claim \in [Claimers -> ClaimType] /\ RowsOf(claim[r]) /\ FoundOf(claim[r])
      /\ \A q \in DOMAIN paneRow : paneRow[q] \in PaneRowType
  BY DEF ClaimsIInv, ClaimsTypeOK, ClaimType, TxRows, PaneRowType
<1>2. Commit(r)
  <2>1. ClaimStep(r)
    BY OwnStep
  <2>2. ~ClaimAborts(r)
    <3>1. ClaimAborts(r) => claim'[r].step = "failed"
      BY <1>1 DEF ClaimAborts, Ended
    <3> QED BY <3>1
  <2> QED BY <2>1, <2>2 DEF ClaimStep, Authenticate, ReadCode, ConsumeCode, Bind, MoveUnkeyed,
                            FindKeyed, WriteKeyed
<1>3. PICK q \in claim[r].found \cap claim[r].winners : paneRow[q].key = paneRow[p].key
  BY <1>1 DEF FoundOf
<1>4. q \in claim[r].moved /\ q \in DOMAIN paneRow /\ paneRow[q].agent = claim[r].agent
  BY <1>1, <1>3 DEF FoundOf, RowsOf
<1>5. PICK h : h = code[claim[r].code].human
  OBVIOUS
<1>6. paneRow'[q] = [paneRow[q] EXCEPT !.owner = h]
  BY <1>2, <1>4, <1>5 DEF Commit
<1>7. [paneRow[q] EXCEPT !.owner = h].owner = h
  BY <1>1, <1>4 DEF PaneRowType
<1> QED BY <1>3, <1>4, <1>5, <1>6, <1>7

(* A code is used once; whatever happens between its statements, a claim   *)
(* is not stopped by the panes of its agent, and takes one of the panes    *)
(* that were open under a key when it looked.                              *)
THEOREM ClaimsSound == ClaimsSpec => ClaimsAreSound
<1>1. ClaimsInit => ClaimsIInv
  BY ClaimsInitIInv
<1>2. ClaimsIInv /\ [ClaimsNext]_claimVars => ClaimsIInv'
  BY ClaimsStepIInv, ClaimsAssumption
<1>3. ClaimsIInv => ClaimsTypeOK /\ CodeClaimsOnce
  BY DEF ClaimsIInv
<1> DEFINE NB == \A r \in Claimers :
           claim[r].step = "write" /\ claim'[r].step = "done" =>
               \E p \in claim[r].winners, q \in DOMAIN paneRow :
                   /\ paneRow[q].owner = code[claim[r].code].human
                   /\ paneRow[q].key = paneRow[p].key /\ paneRow[q].key # NoContext
           CF == \A r \in Claimers :
           claim[r].step = "commit" /\ claim'[r].step = "done" =>
               \A p \in claim[r].found : \E q \in claim[r].found :
                   /\ paneRow[q].agent = claim[r].agent /\ paneRow[q].key = paneRow[p].key
                   /\ paneRow'[q].owner = code[claim[r].code].human
<1>4. ClaimsIInv /\ [ClaimsNext]_claimVars => [NB]_claimVars
  BY NotBlockedStep, ClaimsAssumption
<1>5. ClaimsIInv /\ [ClaimsNext]_claimVars => [CF]_claimVars
  BY FollowsStep, ClaimsAssumption
<1>6. ClaimsSpec => []ClaimsIInv
  BY <1>1, <1>2, PTL DEF ClaimsSpec
<1>7. ClaimsSpec => ClaimIsNotBlocked
  BY <1>4, <1>6, PTL DEF ClaimsSpec, ClaimIsNotBlocked
<1>8. ClaimsSpec => CurrentWhenReadFollows
  BY <1>5, <1>6, PTL DEF ClaimsSpec, CurrentWhenReadFollows
<1>9. ClaimsSpec => [](ClaimsTypeOK /\ CodeClaimsOnce)
  BY <1>3, <1>6, PTL
<1> QED BY <1>7, <1>8, <1>9 DEF ClaimsAreSound

(* What is connecting takes the room it made, and no more initializes are  *)
(* connecting than once ran together.                                      *)
RoomKept ==
    /\ Cardinality(In("creating")) <= crowd
    /\ Cardinality(In("live")) + Cardinality(In("creating"))
           < MaxSessions + (IF crowd = 0 THEN 1 ELSE crowd)

McpIInv == McpTypeOK /\ RoomKept

LEMMA SessionsFinite ==
  ASSUME McpAssumption
  PROVE  /\ \A S \in SUBSET Sessions : /\ IsFiniteSet(S) /\ Cardinality(S) \in Nat
                                       /\ Cardinality(S) <= Cardinality(Sessions)
         /\ \A S \in SUBSET Sessions : \A T \in SUBSET S : Cardinality(T) <= Cardinality(S)
BY FS_Subset, FS_CardinalityType DEF McpAssumption

(* States of the table as sets of ids.                                     *)
LEMMA InStates ==
  ASSUME NEW state
  PROVE  In(state) \subseteq Sessions
BY DEF In

LEMMA McpInitIInv == McpAssumption /\ McpInit => McpIInv
<1> SUFFICES ASSUME McpAssumption, McpInit
             PROVE  McpIInv
  OBVIOUS
<1>1. Cardinality(Sessions) \in Nat
  BY SessionsFinite
<1>2. mcpSession \in [Sessions -> SessionRow]
  BY DEF McpInit, SessionRow, McpAssumption
<1>3. McpTypeOK
  BY <1>1, <1>2 DEF McpInit, McpTypeOK, McpAssumption
<1>4. In("creating") = {} /\ In("live") = {}
  BY DEF McpInit, In
<1>5. RoomKept
  BY <1>4, FS_EmptySet DEF RoomKept, McpInit, McpAssumption
<1> QED BY <1>3, <1>5 DEF McpIInv

(* The table after one session has changed its row.                        *)
LEMMA OneRow ==
  ASSUME McpTypeOK, NEW s \in Sessions, NEW row \in SessionRow,
         mcpSession' = [mcpSession EXCEPT ![s] = row]
  PROVE  /\ mcpSession' \in [Sessions -> SessionRow]
         /\ mcpSession'[s] = row
         /\ \A o \in Sessions : o # s => mcpSession'[o] = mcpSession[o]
BY DEF McpTypeOK

(* A session leaves the ones that connect, or that are live.               *)
LEMMA RowMoves ==
  ASSUME McpAssumption, McpTypeOK, NEW s \in Sessions, NEW row \in SessionRow,
         mcpSession' = [mcpSession EXCEPT ![s] = row]
  PROVE  /\ \A state \in {"creating", "live"} :
               /\ In(state)' = IF row.state = state THEN In(state) \cup {s} ELSE In(state) \ {s}
               /\ Cardinality(In(state)) \in Nat
               /\ Cardinality(In(state)') =
                      Cardinality(In(state)) + (IF row.state = state THEN 1 ELSE 0)
                                             - (IF s \in In(state) THEN 1 ELSE 0)
<1> SUFFICES ASSUME NEW state \in {"creating", "live"}
             PROVE  /\ In(state)' = IF row.state = state THEN In(state) \cup {s} ELSE In(state) \ {s}
                    /\ Cardinality(In(state)) \in Nat
                    /\ Cardinality(In(state)') =
                           Cardinality(In(state)) + (IF row.state = state THEN 1 ELSE 0)
                                                  - (IF s \in In(state) THEN 1 ELSE 0)
  OBVIOUS
<1>1. In(state)' = IF row.state = state THEN In(state) \cup {s} ELSE In(state) \ {s}
  BY OneRow DEF In
<1>2. IsFiniteSet(In(state)) /\ Cardinality(In(state)) \in Nat
  BY SessionsFinite, InStates
<1>3. Cardinality(In(state) \cup {s}) =
        IF s \in In(state) THEN Cardinality(In(state)) ELSE Cardinality(In(state)) + 1
  BY <1>2, FS_AddElement
<1>4. Cardinality(In(state) \ {s}) =
        IF s \in In(state) THEN Cardinality(In(state)) - 1 ELSE Cardinality(In(state))
  BY <1>2, FS_RemoveElement
<1> QED BY <1>1, <1>2, <1>3, <1>4

LEMMA McpInitializeStep ==
  ASSUME McpAssumption, McpIInv, NEW s \in Sessions, Initialize(s)
  PROVE  McpIInv'
<1>1. /\ now \in 0 .. MaxTick /\ crowd \in 0 .. Cardinality(Sessions)
      /\ mcpSession \in [Sessions -> SessionRow]
      /\ \A o \in Sessions : mcpSession[o].seen <= now
  BY DEF McpIInv, McpTypeOK
<1>2. PICK V \in Victims :
           mcpSession' = [o \in Sessions |->
               CASE o \in IdleSessions \cup V -> [mcpSession[o] EXCEPT !.state = "gone"]
                 [] o = s -> [state |-> "creating", seen |-> Stamp]
                 [] OTHER -> mcpSession[o]]
  BY DEF Initialize
<1>3. V \subseteq FreshSessions /\ Cardinality(V) = Over
  BY DEF Victims
<1>4. FreshSessions \subseteq In("live") /\ IdleSessions \subseteq In("live")
      /\ In("live") \ (IdleSessions \cup V) = FreshSessions \ V
  BY DEF FreshSessions, IdleSessions
<1>5. mcpSession[s].state = "none" /\ s \notin In("live") /\ s \notin In("creating")
  BY DEF Initialize, In
<1>6. s \notin IdleSessions \cup V
  BY <1>3, <1>4, <1>5
<1>7. /\ mcpSession'[s] = [state |-> "creating", seen |-> now]
      /\ \A o \in Sessions : o \in IdleSessions \cup V =>
             mcpSession'[o] = [mcpSession[o] EXCEPT !.state = "gone"]
      /\ \A o \in Sessions : o \notin IdleSessions \cup V /\ o # s =>
             mcpSession'[o] = mcpSession[o]
  BY <1>2, <1>6 DEF Stamp
<1>8. \A o \in Sessions : /\ [mcpSession[o] EXCEPT !.state = "gone"] \in SessionRow
                          /\ [mcpSession[o] EXCEPT !.state = "gone"].seen = mcpSession[o].seen
                          /\ [mcpSession[o] EXCEPT !.state = "gone"].state = "gone"
  BY <1>1 DEF SessionRow
<1>9. [state |-> "creating", seen |-> now] \in SessionRow
  BY <1>1 DEF SessionRow
<1>10. /\ \A o \in Sessions : mcpSession'[o] \in SessionRow
       /\ \A o \in Sessions : mcpSession'[o].seen <= now
  <2> SUFFICES ASSUME NEW o \in Sessions
               PROVE  mcpSession'[o] \in SessionRow /\ mcpSession'[o].seen <= now
    OBVIOUS
  <2>1. CASE o \in IdleSessions \cup V
    <3>1. mcpSession'[o] = [mcpSession[o] EXCEPT !.state = "gone"]
      BY <1>7, <2>1
    <3> QED BY <1>1, <1>8, <3>1
  <2>2. CASE o = s
    <3>1. now <= now
      BY <1>1
    <3> QED BY <1>7, <1>9, <2>2, <3>1
  <2>3. CASE o \notin IdleSessions \cup V /\ o # s
    BY <1>1, <1>7, <2>3
  <2> QED BY <2>1, <2>2, <2>3
<1>11. mcpSession' \in [Sessions -> SessionRow]
  BY <1>2, <1>10
<1>12. In("live")' = FreshSessions \ V
  <2>1. \A o \in Sessions : mcpSession'[o].state = "live"
                              <=> o \in In("live") /\ o \notin IdleSessions \cup V
    <3> SUFFICES ASSUME NEW o \in Sessions
                 PROVE  mcpSession'[o].state = "live"
                              <=> o \in In("live") /\ o \notin IdleSessions \cup V
      OBVIOUS
    <3>1. CASE o \in IdleSessions \cup V
      <4>1. mcpSession'[o].state = "gone"
        BY <1>7, <1>8, <3>1
      <4> QED BY <3>1, <4>1
    <3>2. CASE o = s
      BY <1>5, <1>7, <3>2
    <3>3. CASE o \notin IdleSessions \cup V /\ o # s
      BY <1>7, <3>3 DEF In
    <3> QED BY <3>1, <3>2, <3>3
  <2>2. In("live") \subseteq Sessions
    BY InStates
  <2> QED BY <1>4, <2>1, <2>2 DEF In
<1>13. In("creating")' = In("creating") \cup {s}
  <2>1. \A o \in Sessions : mcpSession'[o].state = "creating"
                              <=> o \in In("creating") \/ o = s
    <3> SUFFICES ASSUME NEW o \in Sessions
                 PROVE  mcpSession'[o].state = "creating" <=> o \in In("creating") \/ o = s
      OBVIOUS
    <3>1. CASE o \in IdleSessions \cup V
      <4>1. mcpSession'[o].state = "gone"
        BY <1>7, <1>8, <3>1
      <4>2. mcpSession[o].state = "live"
        BY <1>3, <1>4, <3>1 DEF In
      <4> QED BY <1>6, <3>1, <4>1, <4>2 DEF In
    <3>2. CASE o = s
      BY <1>7, <3>2
    <3>3. CASE o \notin IdleSessions \cup V /\ o # s
      BY <1>7, <3>3 DEF In
    <3> QED BY <3>1, <3>2, <3>3
  <2> QED BY <2>1 DEF In
<1> DEFINE c == Cardinality(In("creating"))
           f == Cardinality(FreshSessions)
<1>14. c \in Nat /\ Cardinality(In("creating")') = c + 1 /\ c + 1 <= Cardinality(Sessions)
  <2>1. IsFiniteSet(In("creating")) /\ c \in Nat
    BY SessionsFinite, InStates
  <2>2. Cardinality(In("creating") \cup {s}) = c + 1
    BY <2>1, <1>5, FS_AddElement
  <2>3. In("creating") \cup {s} \in SUBSET Sessions
    BY InStates
  <2> QED BY <1>13, <2>1, <2>2, <2>3, SessionsFinite
<1>15. f \in Nat /\ Cardinality(In("live")') \in Nat /\ Cardinality(In("live")') < MaxSessions
  <2>1. FreshSessions \in SUBSET Sessions
    BY <1>4, InStates
  <2>2. IsFiniteSet(FreshSessions) /\ f \in Nat
    BY <2>1, SessionsFinite
  <2>3. Cardinality(FreshSessions \ V) = f - Cardinality(V)
    <3>1. FreshSessions \cap V = V
      BY <1>3
    <3> QED BY <2>2, <3>1, FS_Difference
  <2>4. IsFiniteSet(FreshSessions \ V) /\ Cardinality(FreshSessions \ V) \in Nat
    BY <2>1, SessionsFinite
  <2>5. Cardinality(V) = IF f >= MaxSessions THEN f - MaxSessions + 1 ELSE 0
    BY <1>3 DEF Over
  <2>6. f - Cardinality(V) < MaxSessions
    BY <2>2, <2>5 DEF McpAssumption
  <2> QED BY <1>12, <2>2, <2>3, <2>4, <2>6
<1>16. Cardinality(Sessions) \in Nat /\ crowd \in Nat
  BY <1>1, SessionsFinite
<1>17. crowd' = (IF c + 1 > crowd THEN c + 1 ELSE crowd) /\ UNCHANGED <<now, user>>
  BY DEF Initialize
<1>18. McpTypeOK'
  <2>1. crowd' \in 0 .. Cardinality(Sessions)
    BY <1>1, <1>14, <1>16, <1>17
  <2> QED BY <1>10, <1>11, <1>17, <2>1 DEF McpIInv, McpTypeOK
<1>19. RoomKept'
  <2>1. Cardinality(In("creating")') <= crowd' /\ crowd' \in Nat /\ crowd' # 0
    BY <1>14, <1>16, <1>17
  <2>2. MaxSessions \in Nat
    BY DEF McpAssumption
  <2>3. PICK x, y, z : x = Cardinality(In("live")') /\ y = Cardinality(In("creating")')
                       /\ z = crowd'
    OBVIOUS
  <2>4. x \in Nat /\ y \in Nat /\ z \in Nat /\ x < MaxSessions /\ y <= z /\ z # 0
    BY <1>14, <1>15, <2>1, <2>3
  <2>5. x + y < MaxSessions + z
    BY <2>2, <2>4
  <2> QED BY <2>3, <2>4, <2>5 DEF RoomKept
<1> QED BY <1>18, <1>19 DEF McpIInv

(* Steps that move one session and leave the crowd.                        *)
LEMMA McpOtherStep ==
  ASSUME McpAssumption, McpIInv, NEW s \in Sessions,
         Register(s) \/ EndSessionOf(s) \/ \E u \in Users : Use(u, s)
  PROVE  McpIInv'
<1>1. /\ now \in 0 .. MaxTick /\ crowd \in 0 .. Cardinality(Sessions)
      /\ mcpSession \in [Sessions -> SessionRow]
      /\ \A o \in Sessions : mcpSession[o].seen <= now
      /\ user \in [Users -> Sessions \cup {Nothing}]
  BY DEF McpIInv, McpTypeOK
<1>2. PICK row \in SessionRow :
         /\ mcpSession' = [mcpSession EXCEPT ![s] = row]
         /\ row.seen <= now
         /\ row.state # "creating"
         /\ mcpSession[s].state \in {"creating", "live"}
  <2>1. CASE Register(s)
    <3>1. [state |-> "live", seen |-> now] \in SessionRow
      BY <1>1 DEF SessionRow
    <3>2. now <= now
      BY <1>1
    <3> QED BY <2>1, <3>1, <3>2 DEF Register, Stamp
  <2>2. CASE EndSessionOf(s)
    <3>1. /\ [mcpSession[s] EXCEPT !.state = "gone"] \in SessionRow
          /\ [mcpSession[s] EXCEPT !.state = "gone"].seen = mcpSession[s].seen
          /\ [mcpSession[s] EXCEPT !.state = "gone"].state = "gone"
      BY <1>1 DEF SessionRow
    <3>2. mcpSession' = [mcpSession EXCEPT ![s] = [mcpSession[s] EXCEPT !.state = "gone"]]
      BY <2>2 DEF EndSessionOf
    <3> QED BY <2>2, <3>1, <3>2, <1>1 DEF EndSessionOf
  <2>3. CASE \E u \in Users : Use(u, s)
    <3>1. /\ [mcpSession[s] EXCEPT !.seen = now] \in SessionRow
          /\ [mcpSession[s] EXCEPT !.seen = now].seen = now
          /\ [mcpSession[s] EXCEPT !.seen = now].state = mcpSession[s].state
      BY <1>1 DEF SessionRow
    <3>2. mcpSession' = [mcpSession EXCEPT ![s] = [mcpSession[s] EXCEPT !.seen = now]]
      BY <2>3 DEF Use, Stamp
    <3>3. now <= now
      BY <1>1
    <3> QED BY <2>3, <3>1, <3>2, <3>3 DEF Use
  <2> QED BY <2>1, <2>2, <2>3
<1>3. UNCHANGED <<now, crowd>> /\ user' \in [Users -> Sessions \cup {Nothing}]
  BY <1>1 DEF Register, EndSessionOf, Use
<1>4. McpTypeOK'
  BY <1>1, <1>2, <1>3, OneRow DEF McpIInv, McpTypeOK
<1> DEFINE c == Cardinality(In("creating"))
           l == Cardinality(In("live"))
<1>5. /\ c \in Nat /\ l \in Nat
      /\ Cardinality(In("creating")') = c - (IF s \in In("creating") THEN 1 ELSE 0)
      /\ Cardinality(In("live")') = l + (IF row.state = "live" THEN 1 ELSE 0)
                                      - (IF s \in In("live") THEN 1 ELSE 0)
  <2>1. row.state # "creating" /\ McpTypeOK
    BY <1>2 DEF McpIInv
  <2>2. \A state \in {"creating", "live"} :
           /\ Cardinality(In(state)) \in Nat
           /\ Cardinality(In(state)') =
                  Cardinality(In(state)) + (IF row.state = state THEN 1 ELSE 0)
                                         - (IF s \in In(state) THEN 1 ELSE 0)
    BY <1>2, <2>1, RowMoves
  <2>3. Cardinality(In("creating")) + 0 = Cardinality(In("creating"))
    BY <2>2
  <2> QED BY <2>1, <2>2, <2>3
<1>6. s \in In("creating") \/ s \in In("live")
  BY <1>2 DEF In
<1>7. ~(s \in In("creating") /\ s \in In("live"))
  BY DEF In
<1>8. crowd \in Nat /\ MaxSessions \in Nat
  BY <1>1, SessionsFinite DEF McpAssumption
<1>9. c <= crowd /\ l + c < MaxSessions + (IF crowd = 0 THEN 1 ELSE crowd)
  BY DEF McpIInv, RoomKept
<1>10. PICK x, y : x = Cardinality(In("live")') /\ y = Cardinality(In("creating")')
  OBVIOUS
<1>11. y <= c /\ x + y <= l + c /\ x \in Int /\ y \in Int
  BY <1>5, <1>6, <1>7, <1>10
<1>12. RoomKept'
  <2> HIDE DEF c, l
  <2>1. y <= crowd /\ x + y < MaxSessions + (IF crowd = 0 THEN 1 ELSE crowd)
    BY <1>5, <1>8, <1>9, <1>11
  <2> QED BY <1>3, <1>10, <2>1 DEF RoomKept
<1> QED BY <1>4, <1>12 DEF McpIInv

LEMMA McpStepIInv ==
  ASSUME McpAssumption, McpIInv, [McpNext]_mcpVars
  PROVE  McpIInv'
<1>1. CASE UNCHANGED mcpVars
  BY <1>1 DEF mcpVars, McpIInv, McpTypeOK, RoomKept, In
<1>2. CASE TimePasses
  <2>1. now' = now + 1 /\ now < MaxTick /\ UNCHANGED <<mcpSession, user, crowd>>
    BY <1>2 DEF TimePasses
  <2>2. now \in 0 .. MaxTick /\ mcpSession \in [Sessions -> SessionRow]
        /\ \A o \in Sessions : mcpSession[o].seen <= now
    BY DEF McpIInv, McpTypeOK
  <2>3. now' \in 0 .. MaxTick
    BY <2>1, <2>2 DEF McpAssumption
  <2>4. \A o \in Sessions : mcpSession[o].seen <= now'
    <3>1. \A o \in Sessions : mcpSession[o].seen \in 0 .. MaxTick
      BY <2>2 DEF SessionRow
    <3> QED BY <2>1, <2>2, <3>1 DEF McpAssumption
  <2>5. McpTypeOK'
    BY <2>1, <2>3, <2>4 DEF McpIInv, McpTypeOK
  <2> QED BY <2>1, <2>5 DEF McpIInv, RoomKept, In
<1>3. CASE \E u \in Users : Finish(u)
  <2>1. user' \in [Users -> Sessions \cup {Nothing}] /\ UNCHANGED <<now, mcpSession, crowd>>
    BY <1>3 DEF Finish, McpIInv, McpTypeOK
  <2> QED BY <2>1 DEF McpIInv, McpTypeOK, RoomKept, In
<1>4. CASE \E s \in Sessions : Initialize(s)
  BY <1>4, McpInitializeStep
<1>5. CASE \E s \in Sessions : Register(s) \/ EndSessionOf(s) \/ \E u \in Users : Use(u, s)
  BY <1>5, McpOtherStep
<1> QED BY <1>1, <1>2, <1>3, <1>4, <1>5 DEF McpNext

(* Who is thrown out to make room has been idle, or nobody older stays.    *)
LEMMA EvictionStep ==
  ASSUME McpAssumption, McpIInv, McpNext, NEW s \in Sessions, NEW i \in Sessions,
         mcpSession[i].state = "none", mcpSession'[i].state = "creating",
         mcpSession[s].state = "live", mcpSession'[s].state = "gone"
  PROVE  \/ now - mcpSession[s].seen > IdleTtl
         \/ \A o \in Sessions : mcpSession'[o].state = "live"
                => mcpSession[o].seen >= mcpSession[s].seen
<1>1. mcpSession \in [Sessions -> SessionRow] /\ now \in 0 .. MaxTick
  BY DEF McpIInv, McpTypeOK
<1>2. PICK n \in Sessions : Initialize(n)
  <2>1. ~TimePasses /\ ~(\E u \in Users : Finish(u))
    BY DEF TimePasses, Finish
  <2>2. \A n \in Sessions : ~Register(n)
    BY <1>1 DEF Register
  <2>3. \A n \in Sessions : ~EndSessionOf(n)
    BY <1>1 DEF EndSessionOf
  <2>4. \A n \in Sessions, u \in Users : ~Use(u, n)
    <3> SUFFICES ASSUME NEW n \in Sessions, NEW u \in Users, Use(u, n)
                 PROVE  FALSE
      OBVIOUS
    <3>1. mcpSession' = [mcpSession EXCEPT ![n] = [mcpSession[n] EXCEPT !.seen = Stamp]]
      BY DEF Use
    <3>2. [mcpSession[i] EXCEPT !.seen = Stamp].state = mcpSession[i].state
      BY <1>1 DEF SessionRow
    <3> QED BY <1>1, <3>1, <3>2
  <2> QED BY <2>1, <2>2, <2>3, <2>4 DEF McpNext
<1>3. PICK V \in Victims :
           mcpSession' = [o \in Sessions |->
               CASE o \in IdleSessions \cup V -> [mcpSession[o] EXCEPT !.state = "gone"]
                 [] o = n -> [state |-> "creating", seen |-> Stamp]
                 [] OTHER -> mcpSession[o]]
  BY <1>2 DEF Initialize
<1>4. V \subseteq FreshSessions /\ \A v \in V : Older(v) \subseteq V
  BY DEF Victims
<1>5. n \notin IdleSessions \cup V
  BY <1>2, <1>4 DEF Initialize, FreshSessions, IdleSessions, In
<1>6. /\ mcpSession'[n].state = "creating"
      /\ \A o \in Sessions : o \in IdleSessions \cup V => mcpSession'[o].state = "gone"
      /\ \A o \in Sessions : o \notin IdleSessions \cup V /\ o # n =>
             mcpSession'[o] = mcpSession[o]
  <2>1. \A o \in Sessions : [mcpSession[o] EXCEPT !.state = "gone"].state = "gone"
    BY <1>1 DEF SessionRow
  <2> QED BY <1>3, <1>5, <2>1
<1>7. s \in IdleSessions \/ s \in V
  BY <1>2, <1>6 DEF Initialize
<1>8. CASE s \in IdleSessions
  BY <1>8 DEF IdleSessions
<1>9. CASE s \in V
  <2> SUFFICES ASSUME NEW o \in Sessions, mcpSession'[o].state = "live"
               PROVE  mcpSession[o].seen >= mcpSession[s].seen
    OBVIOUS
  <2>1. o \notin IdleSessions \cup V /\ o # n /\ mcpSession[o].state = "live"
    BY <1>6
  <2>2. o \in FreshSessions /\ o \notin Older(s)
    BY <1>4, <1>9, <2>1 DEF FreshSessions, In
  <2>3. ~(mcpSession[o].seen < mcpSession[s].seen)
    BY <2>2 DEF Older
  <2>4. mcpSession[o].seen \in 0 .. MaxTick /\ mcpSession[s].seen \in 0 .. MaxTick
    BY <1>1 DEF SessionRow
  <2> QED BY <2>3, <2>4 DEF McpAssumption
<1> QED BY <1>7, <1>8, <1>9

(* The table of MCP sessions outgrows its cap only by the initializes that *)
(* run together, and never at the expense of the busier session.           *)
THEOREM SessionTableSound == McpSpec => SessionTableIsSound
<1>1. McpInit => McpIInv
  BY McpInitIInv, McpAssumption
<1>2. McpIInv /\ [McpNext]_mcpVars => McpIInv'
  BY McpStepIInv, McpAssumption
<1>3. McpIInv => McpTypeOK /\ SessionsBounded
  <2> SUFFICES ASSUME McpIInv
               PROVE  SessionsBounded
    BY DEF McpIInv
  <2>1. Cardinality(In("live")) \in Nat /\ Cardinality(In("creating")) \in Nat
    BY SessionsFinite, InStates, McpAssumption
  <2>2. crowd \in Nat /\ MaxSessions \in Nat
    BY SessionsFinite, McpAssumption DEF McpIInv, McpTypeOK, McpAssumption
  <2> QED BY <2>1, <2>2 DEF McpIInv, RoomKept, SessionsBounded
<1> DEFINE EF == \A s \in Sessions :
          (\E i \in Sessions : mcpSession[i].state = "none" /\ mcpSession'[i].state = "creating")
          /\ mcpSession[s].state = "live" /\ mcpSession'[s].state = "gone"
          => \/ now - mcpSession[s].seen > IdleTtl
             \/ \A o \in Sessions : mcpSession'[o].state = "live"
                    => mcpSession[o].seen >= mcpSession[s].seen
<1>4. McpIInv /\ [McpNext]_mcpVars => [EF]_mcpVars
  BY EvictionStep, McpAssumption
<1>5. McpSpec => []McpIInv
  BY <1>1, <1>2, PTL DEF McpSpec
<1>6. McpSpec => EvictionIsFair
  BY <1>4, <1>5, PTL DEF McpSpec, EvictionIsFair
<1>7. McpSpec => [](McpTypeOK /\ SessionsBounded)
  BY <1>3, <1>5, PTL
<1> QED BY <1>6, <1>7 DEF SessionTableIsSound

(* A number that has been answered is not above the latest version.        *)
NumbersTaken == \A n \in Numbers : appended[n] > 0 => n <= lastVersion

(* Each install that is still to be counted has its row.                   *)
Counting == {c \in Calls : call[c].stage = "count"}
CountCovered ==
    /\ IsFiniteSet(Counting) /\ IsFiniteSet(DOMAIN installs)
    /\ template # "gone" => installCount + Cardinality(Counting) <= Cardinality(DOMAIN installs)

(* The walk of a publisher that is alone still has what it has read, and   *)
(* has settled whatever it will not look at any more.                      *)
WalkKept(c) ==
    call[c].stage = "advance" /\ solo[c] =>
        /\ \A x \in call[c].todo : HasRow(x[1]) /\ installs[x[1]].version = x[2]
        /\ \A h \in DOMAIN installs : installs[h].active /\ installs[h].follow =>
               Settled(installs[h], call[c].version) \/ <<h, installs[h].version>> \in call[c].todo
WalksKept == \A c \in Calls : WalkKept(c)

CatalogRest == NumbersTaken /\ CountCovered /\ WalksKept /\ NumbersAreUnique /\ PanesKeepTemplate
CatalogIInv == CatalogTypeOK /\ CatalogRest

LEMMA CatalogInitIInv == CatalogAssumption /\ CatalogInit => CatalogIInv
<1> SUFFICES ASSUME CatalogAssumption, CatalogInit
             PROVE  CatalogIInv
  OBVIOUS
<1>1. Idle \in CallRow /\ Idle.stage = "new"
  <2>1. (CHOOSE h \in Installers : TRUE) \in Installers
    BY DEF CatalogAssumption
  <2>2. 1 \in Numbers
    BY DEF Numbers, CatalogAssumption
  <2> QED BY <2>1, <2>2 DEF Idle, CallRow, Stages
<1>2. call \in [Calls -> CallRow] /\ \A c \in Calls : call[c].stage = "new"
  BY <1>1 DEF CatalogInit
<1>3. DOMAIN installs = {}
  BY DEF CatalogInit, NoInstalls
<1>4. CatalogTypeOK
  <2>1. 1 \in Numbers /\ 0 \in 0 .. MaxLaunches
    BY DEF CatalogAssumption, Numbers
  <2>2. appended \in [Numbers -> Nat] /\ solo \in [Calls -> BOOLEAN]
    BY DEF CatalogInit
  <2>3. \A h \in DOMAIN installs : installs[h] \in Install
    BY <1>3
  <2> QED BY <1>2, <1>3, <2>1, <2>2, <2>3 DEF CatalogInit, CatalogTypeOK
<1>5. Counting = {}
  BY <1>2 DEF Counting
<1>6. CountCovered
  BY <1>3, <1>5, FS_EmptySet DEF CountCovered, CatalogInit
<1>7. WalksKept
  BY <1>2 DEF WalksKept, WalkKept
<1> QED BY <1>4, <1>6, <1>7
        DEF CatalogIInv, CatalogRest, CatalogInit, NumbersTaken, NumbersAreUnique, PanesKeepTemplate

-----------------------------------------------------------------------------
(* A request goes on: of its row only the stage changes.                   *)
LEMMA StepRow ==
  ASSUME call \in [Calls -> CallRow], NEW c \in Calls, NEW s \in Stages, Step(c, s)
  PROVE  /\ call' \in [Calls -> CallRow]
         /\ call'[c].stage = s
         /\ call'[c].version = call[c].version
         /\ \A d \in Calls : d # c => call'[d] = call[d]
<1>1. call' = [call EXCEPT ![c] = [call[c] EXCEPT !.stage = s]]
  BY DEF Step
<1>2. /\ [call[c] EXCEPT !.stage = s] \in CallRow
      /\ [call[c] EXCEPT !.stage = s].stage = s
      /\ [call[c] EXCEPT !.stage = s].version = call[c].version
  BY DEF CallRow
<1> QED BY <1>1, <1>2

(* The parts of the invariant that a step may disturb, one by one.         *)
LEMMA CountKept ==
  ASSUME CountCovered, CatalogTypeOK, Counting' \subseteq Counting,
         DOMAIN installs \subseteq DOMAIN installs', IsFiniteSet(DOMAIN installs'),
         installCount' \in Nat, installCount' <= installCount,
         template' # "gone" => template # "gone"
  PROVE  CountCovered'
<1>1. IsFiniteSet(Counting') /\ Cardinality(Counting') <= Cardinality(Counting)
      /\ Cardinality(Counting') \in Nat /\ Cardinality(Counting) \in Nat
  BY FS_Subset, FS_CardinalityType DEF CountCovered
<1>2. Cardinality(DOMAIN installs) <= Cardinality(DOMAIN installs')
      /\ Cardinality(DOMAIN installs') \in Nat /\ Cardinality(DOMAIN installs) \in Nat
  BY FS_Subset, FS_CardinalityType
<1>3. installCount \in Nat
  BY DEF CatalogTypeOK
<1>4. PICK a, b, x, y : /\ a = Cardinality(Counting') /\ b = Cardinality(Counting)
                        /\ x = Cardinality(DOMAIN installs') /\ y = Cardinality(DOMAIN installs)
  OBVIOUS
<1>5. template' # "gone" => installCount' + a <= x
  <2> SUFFICES ASSUME template' # "gone"
               PROVE  installCount' + a <= x
    OBVIOUS
  <2>1. installCount + b <= y
    BY <1>4 DEF CountCovered
  <2> QED BY <2>1, <1>1, <1>2, <1>3, <1>4
<1> QED BY <1>1, <1>4, <1>5 DEF CountCovered

(* The walks of the others end being alone when somebody writes.           *)
LEMMA WalksOfOthers ==
  ASSUME CatalogTypeOK, WalksKept, NEW c \in Calls,
         \A d \in Calls : d # c => call'[d] = call[d],
         \/ UNCHANGED installs /\ \A d \in Calls \ {c} : solo'[d] => solo[d]
         \/ CatalogWrites(c)
  PROVE  \A d \in Calls \ {c} : WalkKept(d)'
<1> SUFFICES ASSUME NEW d \in Calls \ {c}, call[d].stage = "advance", solo'[d]
             PROVE  WalkKept(d)'
  BY DEF WalkKept
<1>1. solo \in [Calls -> BOOLEAN] /\ call'[d] = call[d]
  BY DEF CatalogTypeOK
<1>2. solo[d] /\ UNCHANGED installs
  <2>1. ~CatalogWrites(c)
    BY <1>1 DEF CatalogWrites
  <2> QED BY <2>1
<1> QED BY <1>1, <1>2 DEF WalksKept, WalkKept, HasRow, Settled

(* What a write does to the histories of who is alone.                     *)
LEMMA SoloTyped ==
  ASSUME CatalogTypeOK, NEW c, CatalogWrites(c)
  PROVE  solo' \in [Calls -> BOOLEAN]
<1>1. \A d \in Calls : solo[d] \in BOOLEAN
  BY DEF CatalogTypeOK
<1> QED BY <1>1 DEF CatalogWrites

(* A row is written.                                                       *)
LEMMA PutRow ==
  ASSUME CatalogTypeOK, NEW h \in Installers, NEW row \in Install, PutInstall(h, row)
  PROVE  /\ DOMAIN installs' = DOMAIN installs \cup {h}
         /\ installs'[h] = row
         /\ \A g \in DOMAIN installs : g # h => installs'[g] = installs[g]
         /\ DOMAIN installs' \subseteq Installers
         /\ \A g \in DOMAIN installs' : installs'[g] \in Install
         /\ IsFiniteSet(DOMAIN installs) => IsFiniteSet(DOMAIN installs')
<1>1. /\ DOMAIN installs' = DOMAIN installs \cup {h}
      /\ installs'[h] = row
      /\ \A g \in DOMAIN installs : g # h => installs'[g] = installs[g]
  BY DEF PutInstall
<1>2. DOMAIN installs \subseteq Installers /\ \A g \in DOMAIN installs : installs[g] \in Install
  BY DEF CatalogTypeOK
<1>3. IsFiniteSet(DOMAIN installs) => IsFiniteSet(DOMAIN installs \cup {h})
  BY FS_AddElement
<1> QED BY <1>1, <1>2, <1>3

-----------------------------------------------------------------------------
(* A request that begins.                                                  *)
LEMMA StartStep ==
  ASSUME CatalogIInv, NEW c \in Calls, NEW job \in CallRow,
         job.stage \notin {"advance", "count"}, Start(c, job)
  PROVE  CatalogIInv'
<1>1. call \in [Calls -> CallRow] /\ solo \in [Calls -> BOOLEAN]
  BY DEF CatalogIInv, CatalogTypeOK
<1>2. /\ call' = [call EXCEPT ![c] = job]
      /\ UNCHANGED <<head, lastVersion, installs, installCount, panesOf, appended>>
      /\ solo' = [solo EXCEPT ![c] = \A d \in Calls \ {c} : call[d].stage \in {"new", "done"}]
  BY DEF Start
<1>3. call' \in [Calls -> CallRow] /\ solo' \in [Calls -> BOOLEAN]
      /\ \A d \in Calls : d # c => call'[d] = call[d] /\ solo'[d] = solo[d]
  BY <1>1, <1>2
<1>4. CatalogTypeOK'
  BY <1>2, <1>3 DEF CatalogIInv, CatalogTypeOK, head, panesOf
<1>5. Counting' \subseteq Counting
  BY <1>1, <1>2 DEF Counting
<1>6. CountCovered'
  <2>1. installCount \in Nat /\ installCount <= installCount
    BY DEF CatalogIInv, CatalogTypeOK
  <2> QED BY <1>2, <1>5, <2>1, CountKept DEF CatalogIInv, CatalogRest, CountCovered, head
<1>7. WalksKept'
  <2>1. \A d \in Calls \ {c} : WalkKept(d)'
    BY <1>2, <1>3, WalksOfOthers DEF CatalogIInv, CatalogRest
  <2>2. WalkKept(c)'
    BY <1>1, <1>2 DEF WalkKept
  <2> QED BY <2>1, <2>2 DEF WalksKept
<1> QED BY <1>2, <1>4, <1>6, <1>7
        DEF CatalogIInv, CatalogRest, NumbersTaken, NumbersAreUnique, PanesKeepTemplate, Here,
            head, panesOf

(* A request that goes on to a later stage and puts at most its row.       *)
LEMMA RowStep ==
  ASSUME CatalogIInv, NEW c \in Calls, NEW s \in Stages \ {"advance", "count"}, Step(c, s),
         UNCHANGED <<head, lastVersion, installCount, panesOf, appended>>,
         \/ UNCHANGED <<installs, solo>>
         \/ UNCHANGED installs /\ CatalogWrites(c)
         \/ \E h \in Installers, row \in Install : PutInstall(h, row) /\ CatalogWrites(c)
  PROVE  CatalogIInv'
<1>1. call \in [Calls -> CallRow] /\ solo \in [Calls -> BOOLEAN]
  BY DEF CatalogIInv, CatalogTypeOK
<1>2. /\ call' \in [Calls -> CallRow] /\ call'[c].stage = s
      /\ \A d \in Calls : d # c => call'[d] = call[d]
  BY <1>1, StepRow
<1>3. solo' \in [Calls -> BOOLEAN]
  BY <1>1, SoloTyped DEF CatalogIInv
<1>4. /\ DOMAIN installs \subseteq DOMAIN installs'
      /\ DOMAIN installs' \subseteq Installers
      /\ \A g \in DOMAIN installs' : installs'[g] \in Install
      /\ IsFiniteSet(DOMAIN installs')
  <2>1. CASE UNCHANGED installs
    BY <2>1 DEF CatalogIInv, CatalogTypeOK, CatalogRest, CountCovered
  <2>2. CASE \E h \in Installers, row \in Install : PutInstall(h, row)
    BY <2>2, PutRow DEF CatalogIInv, CatalogRest, CountCovered
  <2> QED BY <2>1, <2>2
<1>5. CatalogTypeOK'
  BY <1>2, <1>3, <1>4 DEF CatalogIInv, CatalogTypeOK, head, panesOf
<1>6. Counting' \subseteq Counting
  BY <1>2 DEF Counting
<1>7. CountCovered'
  <2>1. installCount \in Nat /\ installCount <= installCount
    BY DEF CatalogIInv, CatalogTypeOK
  <2> QED BY <1>4, <1>6, <2>1, CountKept DEF CatalogIInv, CatalogRest, head
<1>8. WalksKept'
  <2>1. \A d \in Calls \ {c} : WalkKept(d)'
    BY <1>2, WalksOfOthers DEF CatalogIInv, CatalogRest
  <2>2. WalkKept(c)'
    BY <1>2 DEF WalkKept
  <2> QED BY <2>1, <2>2 DEF WalksKept
<1> QED BY <1>5, <1>7, <1>8
        DEF CatalogIInv, CatalogRest, NumbersTaken, NumbersAreUnique, PanesKeepTemplate, Here,
            head, panesOf

(* The version and the latest number, in one transaction.                  *)
LEMMA AppendStep ==
  ASSUME CatalogIInv, NEW c \in Calls, AppendVersion(c), Here, Free(call[c].version)
  PROVE  CatalogIInv'
<1>1. /\ call \in [Calls -> CallRow] /\ solo \in [Calls -> BOOLEAN]
      /\ lastVersion \in Numbers /\ appended \in [Numbers -> Nat]
  BY DEF CatalogIInv, CatalogTypeOK
<1>2. PICK n \in Numbers : n = call[c].version
  BY <1>1 DEF CallRow
<1>3. /\ lastVersion' = n /\ appended' = [appended EXCEPT ![n] = appended[n] + 1]
      /\ Step(c, "scan") /\ CatalogWrites(c)
      /\ UNCHANGED <<head, installs, installCount, panesOf>>
  BY <1>2 DEF AppendVersion
<1>4. /\ call' \in [Calls -> CallRow] /\ call'[c].stage = "scan"
      /\ \A d \in Calls : d # c => call'[d] = call[d]
  BY <1>1, <1>3, StepRow DEF Stages
<1>5. solo' \in [Calls -> BOOLEAN]
  BY <1>3, SoloTyped DEF CatalogIInv
<1>6. lastVersion < n /\ appended[n] = 0
  <2>1. lastVersion < n /\ lastVersion \in Nat /\ n \in Nat
    BY <1>1, <1>2 DEF Free, Numbers
  <2>2. ~(n <= lastVersion)
    BY <2>1
  <2> QED BY <2>1, <2>2, <1>1 DEF CatalogIInv, CatalogRest, NumbersTaken
<1>7. /\ appended' \in [Numbers -> Nat] /\ appended'[n] = 1
      /\ \A m \in Numbers : m # n => appended'[m] = appended[m]
  BY <1>1, <1>3, <1>6
<1>8. CatalogTypeOK'
  BY <1>3, <1>4, <1>5, <1>7 DEF CatalogIInv, CatalogTypeOK, head, panesOf
<1>9. CountCovered'
  <2>1. installCount \in Nat /\ installCount <= installCount
    BY DEF CatalogIInv, CatalogTypeOK
  <2>2. Counting' \subseteq Counting
    BY <1>4 DEF Counting
  <2> QED BY <1>3, <2>1, <2>2, CountKept DEF CatalogIInv, CatalogRest, CountCovered, head
<1>10. WalksKept'
  <2>1. \A d \in Calls \ {c} : WalkKept(d)'
    BY <1>3, <1>4, WalksOfOthers DEF CatalogIInv, CatalogRest
  <2>2. WalkKept(c)'
    BY <1>4 DEF WalkKept
  <2> QED BY <2>1, <2>2 DEF WalksKept
<1>11. NumbersTaken'
  <2> SUFFICES ASSUME NEW m \in Numbers, appended'[m] > 0
               PROVE  m <= n
    BY <1>3 DEF NumbersTaken
  <2>1. n \in Nat /\ lastVersion \in Nat /\ m \in Nat
    BY <1>1, <1>2 DEF Numbers
  <2>2. CASE m = n
    BY <2>1, <2>2
  <2>3. CASE m # n
    <3>1. m <= lastVersion
      BY <2>3, <1>7 DEF CatalogIInv, CatalogRest, NumbersTaken
    <3> QED BY <3>1, <2>1, <1>6
  <2> QED BY <2>2, <2>3
<1>12. NumbersAreUnique'
  BY <1>7 DEF CatalogIInv, CatalogRest, NumbersAreUnique
<1> QED BY <1>3, <1>8, <1>9, <1>10, <1>11, <1>12
        DEF CatalogIInv, CatalogRest, PanesKeepTemplate, Here, head, panesOf

(* The followers the walk has to look at.                                  *)
LEMMA ScanStep ==
  ASSUME CatalogIInv, NEW c \in Calls, ScanFollowers(c)
  PROVE  /\ CatalogIInv'
         /\ call'[c].stage = "done" =>
                \A h \in DOMAIN installs : installs[h].active /\ installs[h].follow =>
                    installs[h].version = call[c].version
<1>1. /\ call \in [Calls -> CallRow] /\ DOMAIN installs \subseteq Installers
      /\ \A h \in DOMAIN installs : installs[h] \in Install
  BY DEF CatalogIInv, CatalogTypeOK
<1>2. PICK found : found = {h \in DOMAIN installs : /\ installs[h].active /\ installs[h].follow
                                                    /\ installs[h].version # call[c].version}
  OBVIOUS
<1>3. PICK s, todo : /\ s = IF found = {} THEN "done" ELSE "advance"
                     /\ todo = {<<h, installs[h].version>> : h \in found}
  OBVIOUS
<1>4. /\ call' = [call EXCEPT ![c] = [call[c] EXCEPT !.stage = s, !.todo = todo]]
      /\ UNCHANGED <<head, lastVersion, installs, installCount, panesOf, appended, solo>>
  BY <1>2, <1>3 DEF ScanFollowers
<1>5. todo \in SUBSET (Installers \X Numbers)
  BY <1>1, <1>2, <1>3 DEF Install
<1>6. /\ [call[c] EXCEPT !.stage = s, !.todo = todo] \in CallRow
      /\ [call[c] EXCEPT !.stage = s, !.todo = todo].stage = s
      /\ [call[c] EXCEPT !.stage = s, !.todo = todo].todo = todo
      /\ [call[c] EXCEPT !.stage = s, !.todo = todo].version = call[c].version
  BY <1>1, <1>3, <1>5 DEF CallRow, Stages
<1>7. /\ call' \in [Calls -> CallRow] /\ call'[c].stage = s /\ call'[c].todo = todo
      /\ call'[c].version = call[c].version
      /\ \A d \in Calls : d # c => call'[d] = call[d]
  BY <1>1, <1>4, <1>6
<1>8. CatalogTypeOK'
  BY <1>4, <1>7 DEF CatalogIInv, CatalogTypeOK, head, panesOf
<1>9. CountCovered'
  <2>1. installCount \in Nat /\ installCount <= installCount
    BY DEF CatalogIInv, CatalogTypeOK
  <2>2. Counting' \subseteq Counting
    BY <1>3, <1>7 DEF Counting
  <2> QED BY <1>4, <2>1, <2>2, CountKept DEF CatalogIInv, CatalogRest, CountCovered, head
<1>10. WalkKept(c)'
  <2>1. \A x \in todo : HasRow(x[1]) /\ installs[x[1]].version = x[2]
    BY <1>2, <1>3 DEF HasRow
  <2>2. \A h \in DOMAIN installs : installs[h].active /\ installs[h].follow =>
           installs[h].version = call[c].version \/ <<h, installs[h].version>> \in todo
    BY <1>2, <1>3
  <2> QED BY <2>1, <2>2, <1>4, <1>7 DEF WalkKept, HasRow, Settled
<1>11. WalksKept'
  <2>1. \A d \in Calls \ {c} : WalkKept(d)'
    BY <1>4, <1>7, WalksOfOthers DEF CatalogIInv, CatalogRest
  <2> QED BY <2>1, <1>10 DEF WalksKept
<1>12. CatalogIInv'
  BY <1>4, <1>8, <1>9, <1>11
     DEF CatalogIInv, CatalogRest, NumbersTaken, NumbersAreUnique, PanesKeepTemplate, Here,
         head, panesOf
<1>13. s = "done" => \A h \in DOMAIN installs : installs[h].active /\ installs[h].follow =>
                         installs[h].version = call[c].version
  BY <1>2, <1>3
<1> QED BY <1>7, <1>12, <1>13

(* One follower is moved, or blocked.                                      *)
LEMMA AdvanceStep ==
  ASSUME CatalogIInv, NEW c \in Calls, AdvanceOne(c)
  PROVE  /\ CatalogIInv'
         /\ solo'[c] => \A h \in DOMAIN installs :
               /\ installs[h].version # call[c].version /\ installs'[h].version = call[c].version
                      => ~Breaks(installs[h].version, call[c].version)
               /\ call'[c].stage = "done" /\ installs[h].active /\ installs[h].follow
                      => Settled(installs'[h], call[c].version)
<1>1. /\ call \in [Calls -> CallRow] /\ solo \in [Calls -> BOOLEAN]
      /\ DOMAIN installs \subseteq Installers
      /\ \A h \in DOMAIN installs : installs[h] \in Install
  BY DEF CatalogIInv, CatalogTypeOK
<1>2. PICK x \in call[c].todo :
           /\ IF HasRow(x[1])
              THEN PutInstall(x[1], IF Gate(x[2], call[c].version)
                                    THEN [installs[x[1]] EXCEPT !.blocked = TRUE]
                                    ELSE [installs[x[1]] EXCEPT !.version = call[c].version,
                                                                !.blocked = FALSE])
              ELSE UNCHANGED installs
           /\ call' = [call EXCEPT ![c].todo = IF HasRow(x[1]) THEN @ \ {x} ELSE {},
                                   ![c].stage = IF HasRow(x[1]) /\ call[c].todo # {x}
                                                THEN "advance" ELSE "done"]
  BY DEF AdvanceOne
<1>3. PICK g, n, todo, s :
         /\ g = x[1] /\ n = call[c].version
         /\ todo = IF HasRow(g) THEN call[c].todo \ {x} ELSE {}
         /\ s = IF HasRow(g) /\ call[c].todo # {x} THEN "advance" ELSE "done"
  OBVIOUS
<1>4. /\ call[c].stage = "advance" /\ CatalogWrites(c)
      /\ UNCHANGED <<head, lastVersion, installCount, panesOf, appended>>
  BY DEF AdvanceOne, StandsAt
<1>5. call[c] \in CallRow /\ n \in Numbers /\ call[c].todo \subseteq Installers \X Numbers
  BY <1>1, <1>3 DEF CallRow
<1>6. g \in Installers /\ x[2] \in Numbers /\ x = <<g, x[2]>>
  BY <1>3, <1>5
<1>7. call' = [call EXCEPT ![c] = [call[c] EXCEPT !.todo = todo, !.stage = s]]
  BY <1>2, <1>3
<1>8. /\ [call[c] EXCEPT !.todo = todo, !.stage = s] \in CallRow
      /\ [call[c] EXCEPT !.todo = todo, !.stage = s].stage = s
      /\ [call[c] EXCEPT !.todo = todo, !.stage = s].todo = todo
      /\ [call[c] EXCEPT !.todo = todo, !.stage = s].version = n
  <2>1. todo \subseteq Installers \X Numbers
    BY <1>3, <1>5
  <2>2. s \in Stages
    BY <1>3 DEF Stages
  <2> QED BY <1>3, <1>5, <2>1, <2>2 DEF CallRow
<1>9. /\ call' \in [Calls -> CallRow] /\ call'[c].stage = s /\ call'[c].todo = todo
      /\ call'[c].version = n
      /\ \A d \in Calls : d # c => call'[d] = call[d]
  BY <1>1, <1>7, <1>8
<1>10. solo' \in [Calls -> BOOLEAN] /\ (solo'[c] => solo[c])
  BY <1>1, <1>4, SoloTyped DEF CatalogIInv, CatalogWrites
<1>11. CASE HasRow(g)
  <2>1. PICK row : row = IF Breaks(x[2], n)
                         THEN [installs[g] EXCEPT !.blocked = TRUE]
                         ELSE [installs[g] EXCEPT !.version = n, !.blocked = FALSE]
    OBVIOUS
  <2>2. installs[g] \in Install
    BY <1>1, <1>11 DEF HasRow
  <2>3. /\ row \in Install
        /\ Breaks(x[2], n) => row.version = installs[g].version /\ row.blocked
        /\ ~Breaks(x[2], n) => row.version = n
        /\ row.active = installs[g].active /\ row.follow = installs[g].follow
    <3>1. CASE Breaks(x[2], n)
      BY <2>1, <2>2, <3>1 DEF Install
    <3>2. CASE ~Breaks(x[2], n)
      BY <2>1, <2>2, <3>2, <1>5 DEF Install
    <3> QED BY <3>1, <3>2
  <2>4. PutInstall(g, row)
    BY <1>2, <1>3, <1>11, <2>1 DEF Gate
  <2>5. /\ DOMAIN installs' = DOMAIN installs
        /\ installs'[g] = row
        /\ \A h \in DOMAIN installs : h # g => installs'[h] = installs[h]
        /\ \A h \in DOMAIN installs' : installs'[h] \in Install
    BY <1>6, <1>11, <2>3, <2>4, PutRow DEF CatalogIInv, HasRow
  <2>6. CatalogTypeOK'
    BY <1>4, <1>9, <1>10, <2>5 DEF CatalogIInv, CatalogTypeOK, head, panesOf
  <2>7. CountCovered'
    <3>1. installCount \in Nat /\ installCount <= installCount
      BY DEF CatalogIInv, CatalogTypeOK
    <3>2. Counting' \subseteq Counting
      BY <1>3, <1>9 DEF Counting
    <3>3. IsFiniteSet(DOMAIN installs)
      BY DEF CatalogIInv, CatalogRest, CountCovered
    <3> QED BY <1>4, <2>5, <3>1, <3>2, <3>3, CountKept DEF CatalogIInv, CatalogRest, head
  <2>8. todo = call[c].todo \ {x}
    BY <1>3, <1>11
  <2>9. ASSUME solo[c]
        PROVE  /\ \A y \in todo : y[1] \in DOMAIN installs /\ installs'[y[1]].version = y[2]
               /\ \A h \in DOMAIN installs : installs[h].active /\ installs[h].follow =>
                      Settled(installs'[h], n) \/ <<h, installs'[h].version>> \in todo
               /\ installs[g].version = x[2]
    <3>1. /\ \A y \in call[c].todo : y[1] \in DOMAIN installs /\ installs[y[1]].version = y[2]
          /\ \A h \in DOMAIN installs : installs[h].active /\ installs[h].follow =>
                 Settled(installs[h], n) \/ <<h, installs[h].version>> \in call[c].todo
      BY <1>3, <1>4, <2>9 DEF CatalogIInv, CatalogRest, WalksKept, WalkKept, HasRow
    <3>2. installs[g].version = x[2]
      BY <1>3, <3>1
    <3>3. \A y \in todo : y[1] # g
      <4> SUFFICES ASSUME NEW y \in todo, y[1] = g
                   PROVE  FALSE
        OBVIOUS
      <4>1. y \in Installers \X Numbers /\ y # x /\ y \in call[c].todo
        BY <1>5, <2>8
      <4>2. y[2] = x[2]
        BY <3>1, <3>2, <4>1
      <4>3. y = <<g, x[2]>>
        BY <4>1, <4>2
      <4> QED BY <4>1, <4>3, <1>6
    <3>4. \A y \in todo : y[1] \in DOMAIN installs /\ installs'[y[1]].version = y[2]
      BY <2>5, <2>8, <3>1, <3>3
    <3>5. Settled(installs'[g], n)
      BY <2>3, <2>5, <3>2 DEF Settled
    <3>6. \A h \in DOMAIN installs : installs[h].active /\ installs[h].follow =>
              Settled(installs'[h], n) \/ <<h, installs'[h].version>> \in todo
      <4> SUFFICES ASSUME NEW h \in DOMAIN installs, h # g,
                          installs[h].active, installs[h].follow
                   PROVE  Settled(installs'[h], n) \/ <<h, installs'[h].version>> \in todo
        BY <3>5
      <4>1. installs'[h] = installs[h]
        BY <2>5
      <4>2. <<h, installs[h].version>> # x
        BY <1>3
      <4> QED BY <3>1, <4>1, <4>2, <2>8
    <3> QED BY <3>2, <3>4, <3>6
  <2>10. \A h \in DOMAIN installs : installs'[h].active = installs[h].active
                                    /\ installs'[h].follow = installs[h].follow
    BY <2>3, <2>5
  <2>11. WalkKept(c)'
    <3> SUFFICES ASSUME solo'[c]
                 PROVE  WalkKept(c)'
      BY DEF WalkKept
    <3> QED BY <1>9, <1>10, <2>5, <2>9, <2>10 DEF WalkKept, HasRow
  <2>12. WalksKept'
    <3>1. \A d \in Calls \ {c} : WalkKept(d)'
      BY <1>4, <1>9, WalksOfOthers DEF CatalogIInv, CatalogRest
    <3> QED BY <2>11, <3>1 DEF WalksKept
  <2>13. CatalogIInv'
    BY <1>4, <2>6, <2>7, <2>12
       DEF CatalogIInv, CatalogRest, NumbersTaken, NumbersAreUnique, PanesKeepTemplate, Here,
           head, panesOf
  <2>14. ASSUME solo'[c], NEW h \in DOMAIN installs
         PROVE  /\ installs[h].version # n /\ installs'[h].version = n
                      => ~Breaks(installs[h].version, n)
                /\ call'[c].stage = "done" /\ installs[h].active /\ installs[h].follow
                      => Settled(installs'[h], n)
    <3>1. solo[c]
      BY <1>10, <2>14
    <3>2. h # g => installs'[h] = installs[h]
      BY <2>5
    <3>3. installs[g].version # n /\ installs'[g].version = n => ~Breaks(installs[g].version, n)
      BY <2>3, <2>5, <2>9, <3>1
    <3>4. call'[c].stage = "done" => todo = {}
      BY <1>3, <1>9, <1>11
    <3> QED BY <2>9, <3>1, <3>2, <3>3, <3>4
  <2> QED BY <1>3, <2>13, <2>14
<1>12. CASE ~HasRow(g)
  <2>1. UNCHANGED installs /\ s = "done"
    BY <1>2, <1>3, <1>12
  <2>2. ~solo[c]
    BY <1>3, <1>4, <1>12 DEF CatalogIInv, CatalogRest, WalksKept, WalkKept
  <2>3. CatalogTypeOK'
    BY <1>4, <1>9, <1>10, <2>1 DEF CatalogIInv, CatalogTypeOK, head, panesOf
  <2>4. CountCovered'
    <3>1. installCount \in Nat /\ installCount <= installCount
      BY DEF CatalogIInv, CatalogTypeOK
    <3>2. Counting' \subseteq Counting
      BY <2>1, <1>9 DEF Counting
    <3> QED BY <1>4, <2>1, <3>1, <3>2, CountKept DEF CatalogIInv, CatalogRest, CountCovered, head
  <2>5. WalksKept'
    <3>1. \A d \in Calls \ {c} : WalkKept(d)'
      BY <1>4, <1>9, WalksOfOthers DEF CatalogIInv, CatalogRest
    <3>2. WalkKept(c)'
      BY <2>1, <1>9 DEF WalkKept
    <3> QED BY <3>1, <3>2 DEF WalksKept
  <2>6. CatalogIInv'
    BY <1>4, <2>1, <2>3, <2>4, <2>5
       DEF CatalogIInv, CatalogRest, NumbersTaken, NumbersAreUnique, PanesKeepTemplate, Here,
           head, panesOf
  <2> QED BY <1>10, <2>2, <2>6
<1> QED BY <1>11, <1>12

LEMMA DieStep ==
  ASSUME CatalogIInv, NEW c \in Calls, AdvanceDies(c)
  PROVE  CatalogIInv'
<1>1. call \in [Calls -> CallRow] /\ solo \in [Calls -> BOOLEAN]
  BY DEF CatalogIInv, CatalogTypeOK
<1>2. /\ Step(c, "done") /\ solo' = [solo EXCEPT ![c] = FALSE]
      /\ UNCHANGED <<head, lastVersion, installs, installCount, panesOf, appended>>
  BY DEF AdvanceDies
<1>3. /\ call' \in [Calls -> CallRow] /\ call'[c].stage = "done"
      /\ \A d \in Calls : d # c => call'[d] = call[d]
  BY <1>1, <1>2, StepRow DEF Stages
<1>4. solo' \in [Calls -> BOOLEAN] /\ \A d \in Calls : d # c => solo'[d] = solo[d]
  BY <1>1, <1>2
<1>5. CatalogTypeOK'
  BY <1>2, <1>3, <1>4 DEF CatalogIInv, CatalogTypeOK, head, panesOf
<1>6. CountCovered'
  <2>1. installCount \in Nat /\ installCount <= installCount
    BY DEF CatalogIInv, CatalogTypeOK
  <2>2. Counting' \subseteq Counting
    BY <1>3 DEF Counting
  <2> QED BY <1>2, <2>1, <2>2, CountKept DEF CatalogIInv, CatalogRest, CountCovered, head
<1>7. WalksKept'
  <2>1. \A d \in Calls \ {c} : WalkKept(d)'
    BY <1>2, <1>3, <1>4, WalksOfOthers DEF CatalogIInv, CatalogRest
  <2>2. WalkKept(c)'
    BY <1>3 DEF WalkKept
  <2> QED BY <2>1, <2>2 DEF WalksKept
<1> QED BY <1>2, <1>5, <1>6, <1>7
        DEF CatalogIInv, CatalogRest, NumbersTaken, NumbersAreUnique, PanesKeepTemplate, Here,
            head, panesOf

(* The first install of a human: the row now, the count later.             *)
LEMMA FirstInstallStep ==
  ASSUME CatalogIInv, NEW c \in Calls, CreateInstall(c), Here, ~HasRow(call[c].human)
  PROVE  CatalogIInv'
<1>1. /\ call \in [Calls -> CallRow] /\ solo \in [Calls -> BOOLEAN]
  BY DEF CatalogIInv, CatalogTypeOK
<1>2. PICK h \in Installers : h = call[c].human
  BY <1>1 DEF CallRow
<1>3. /\ PutInstall(h, Fresh(c)) /\ Step(c, "count") /\ CatalogWrites(c)
      /\ call[c].stage = "create"
      /\ UNCHANGED <<head, lastVersion, installCount, panesOf, appended>>
  BY <1>2 DEF CreateInstall, StandsAt
<1>4. Fresh(c) \in Install
  BY <1>1 DEF Fresh, Install, CallRow
<1>5. /\ DOMAIN installs' = DOMAIN installs \cup {h} /\ h \notin DOMAIN installs
      /\ DOMAIN installs' \subseteq Installers
      /\ \A g \in DOMAIN installs' : installs'[g] \in Install
  BY <1>2, <1>3, <1>4, PutRow DEF CatalogIInv, HasRow
<1>6. /\ call' \in [Calls -> CallRow] /\ call'[c].stage = "count"
      /\ \A d \in Calls : d # c => call'[d] = call[d]
  BY <1>1, <1>3, StepRow DEF Stages
<1>7. solo' \in [Calls -> BOOLEAN]
  BY <1>3, SoloTyped DEF CatalogIInv
<1>8. CatalogTypeOK'
  BY <1>3, <1>5, <1>6, <1>7 DEF CatalogIInv, CatalogTypeOK, head, panesOf
<1>9. CountCovered'
  <2>1. Counting' = Counting \cup {c} /\ c \notin Counting
    BY <1>3, <1>6 DEF Counting
  <2>2. IsFiniteSet(Counting) /\ IsFiniteSet(DOMAIN installs)
    BY DEF CatalogIInv, CatalogRest, CountCovered
  <2>3. IsFiniteSet(Counting') /\ Cardinality(Counting') = Cardinality(Counting) + 1
    BY <2>1, <2>2, FS_AddElement
  <2>4. IsFiniteSet(DOMAIN installs')
        /\ Cardinality(DOMAIN installs') = Cardinality(DOMAIN installs) + 1
    BY <1>5, <2>2, FS_AddElement
  <2>5. Cardinality(Counting) \in Nat /\ Cardinality(DOMAIN installs) \in Nat
    BY <2>2, FS_CardinalityType
  <2>6. installCount + Cardinality(Counting) <= Cardinality(DOMAIN installs)
    BY DEF CatalogIInv, CatalogRest, CountCovered, Here
  <2>7. installCount' = installCount /\ installCount \in Nat
    BY <1>3 DEF CatalogIInv, CatalogTypeOK
  <2>8. installCount' + Cardinality(Counting') <= Cardinality(DOMAIN installs')
    BY <2>3, <2>4, <2>5, <2>6, <2>7
  <2> QED BY <2>3, <2>4, <2>8 DEF CountCovered
<1>10. WalksKept'
  <2>1. \A d \in Calls \ {c} : WalkKept(d)'
    BY <1>3, <1>6, WalksOfOthers DEF CatalogIInv, CatalogRest
  <2>2. WalkKept(c)'
    BY <1>6 DEF WalkKept
  <2> QED BY <2>1, <2>2 DEF WalksKept
<1> QED BY <1>3, <1>8, <1>9, <1>10
        DEF CatalogIInv, CatalogRest, NumbersTaken, NumbersAreUnique, PanesKeepTemplate, Here,
            head, panesOf

(* The counter is written on its own.                                      *)
LEMMA CounterStep ==
  ASSUME CatalogIInv, NEW c \in Calls, CountInstall(c) \/ UncountInstall(c)
  PROVE  CatalogIInv'
<1>1. /\ call \in [Calls -> CallRow] /\ solo \in [Calls -> BOOLEAN] /\ installCount \in Nat
  BY DEF CatalogIInv, CatalogTypeOK
<1>2. /\ Step(c, "done") /\ CatalogWrites(c)
      /\ UNCHANGED <<head, lastVersion, installs, panesOf, appended>>
  BY DEF CountInstall, UncountInstall
<1>3. /\ call' \in [Calls -> CallRow] /\ call'[c].stage = "done"
      /\ \A d \in Calls : d # c => call'[d] = call[d]
  BY <1>1, <1>2, StepRow DEF Stages
<1>4. solo' \in [Calls -> BOOLEAN]
  BY <1>2, SoloTyped DEF CatalogIInv
<1>5. installCount' \in Nat
  BY <1>1 DEF CountInstall, UncountInstall
<1>6. CatalogTypeOK'
  BY <1>2, <1>3, <1>4, <1>5 DEF CatalogIInv, CatalogTypeOK, head, panesOf
<1>7. CountCovered'
  <2>1. CASE CountInstall(c)
    <3>1. Counting' = Counting \ {c} /\ c \in Counting
      BY <1>3, <2>1 DEF Counting, CountInstall, StandsAt
    <3>2. IsFiniteSet(Counting) /\ IsFiniteSet(DOMAIN installs)
      BY DEF CatalogIInv, CatalogRest, CountCovered
    <3>3. IsFiniteSet(Counting') /\ Cardinality(Counting') = Cardinality(Counting) - 1
      BY <3>1, <3>2, FS_RemoveElement
    <3>4. Cardinality(Counting) \in Nat /\ Cardinality(DOMAIN installs) \in Nat
      BY <3>2, FS_CardinalityType
    <3>5. template' # "gone" => installCount' + Cardinality(Counting') <= Cardinality(DOMAIN installs')
      <4> SUFFICES ASSUME template' # "gone"
                   PROVE  installCount' + Cardinality(Counting') <= Cardinality(DOMAIN installs')
        OBVIOUS
      <4>1. Here /\ installCount' = installCount + 1 /\ installs' = installs
        BY <1>2, <2>1 DEF CountInstall, Here, head
      <4>2. installCount + Cardinality(Counting) <= Cardinality(DOMAIN installs)
        BY <4>1 DEF CatalogIInv, CatalogRest, CountCovered, Here
      <4> QED BY <1>1, <3>3, <3>4, <4>1, <4>2
    <3> QED BY <1>2, <3>2, <3>3, <3>5 DEF CountCovered
  <2>2. CASE UncountInstall(c)
    <3>1. installCount' <= installCount
      BY <1>1, <2>2 DEF UncountInstall
    <3>2. Counting' \subseteq Counting
      BY <1>3 DEF Counting
    <3> QED BY <1>2, <1>5, <3>1, <3>2, CountKept DEF CatalogIInv, CatalogRest, CountCovered, head
  <2> QED BY <2>1, <2>2
<1>8. WalksKept'
  <2>1. \A d \in Calls \ {c} : WalkKept(d)'
    BY <1>2, <1>3, WalksOfOthers DEF CatalogIInv, CatalogRest
  <2>2. WalkKept(c)'
    BY <1>3 DEF WalkKept
  <2> QED BY <2>1, <2>2 DEF WalksKept
<1> QED BY <1>2, <1>6, <1>7, <1>8
        DEF CatalogIInv, CatalogRest, NumbersTaken, NumbersAreUnique, PanesKeepTemplate, Here,
            head, panesOf

(* A pane is created on a version that is still there.                     *)
LEMMA LaunchStep ==
  ASSUME CatalogAssumption, CatalogIInv, NEW c \in Calls, LaunchPane(c), Here, created < MaxLaunches
  PROVE  CatalogIInv'
<1>1. /\ call \in [Calls -> CallRow] /\ solo \in [Calls -> BOOLEAN]
      /\ uses \in Nat /\ created \in 0 .. MaxLaunches
  BY DEF CatalogIInv, CatalogTypeOK
<1>2. /\ Step(c, "done") /\ CatalogWrites(c) /\ uses' = uses + 1 /\ created' = created + 1
      /\ UNCHANGED <<head, lastVersion, installs, installCount, appended>>
  BY DEF LaunchPane
<1>3. /\ call' \in [Calls -> CallRow] /\ call'[c].stage = "done"
      /\ \A d \in Calls : d # c => call'[d] = call[d]
  BY <1>1, <1>2, StepRow DEF Stages
<1>4. solo' \in [Calls -> BOOLEAN]
  BY <1>2, SoloTyped DEF CatalogIInv
<1>5. uses' \in Nat /\ created' \in 0 .. MaxLaunches
  BY <1>1, <1>2 DEF CatalogAssumption
<1>6. CatalogTypeOK'
  BY <1>2, <1>3, <1>4, <1>5 DEF CatalogIInv, CatalogTypeOK, head
<1>7. CountCovered'
  <2>1. installCount \in Nat /\ installCount <= installCount
    BY DEF CatalogIInv, CatalogTypeOK
  <2>2. Counting' \subseteq Counting
    BY <1>3 DEF Counting
  <2> QED BY <1>2, <2>1, <2>2, CountKept DEF CatalogIInv, CatalogRest, CountCovered, head
<1>8. WalksKept'
  <2>1. \A d \in Calls \ {c} : WalkKept(d)'
    BY <1>2, <1>3, WalksOfOthers DEF CatalogIInv, CatalogRest
  <2>2. WalkKept(c)'
    BY <1>3 DEF WalkKept
  <2> QED BY <2>1, <2>2 DEF WalksKept
<1> QED BY <1>2, <1>6, <1>7, <1>8
        DEF CatalogIInv, CatalogRest, NumbersTaken, NumbersAreUnique, PanesKeepTemplate, Here, head

(* The template goes with its installs, when no pane references it.        *)
LEMMA DeleteStep ==
  ASSUME CatalogIInv, NEW c \in Calls, DeleteTemplate(c), Here, ReferencesHold
  PROVE  CatalogIInv'
<1>1. /\ call \in [Calls -> CallRow] /\ solo \in [Calls -> BOOLEAN]
  BY DEF CatalogIInv, CatalogTypeOK
<1>2. /\ Step(c, "done") /\ CatalogWrites(c) /\ template' = "gone" /\ installs' = NoInstalls
      /\ UNCHANGED <<published, lastVersion, installCount, panesOf, appended>>
  BY DEF DeleteTemplate
<1>3. /\ call' \in [Calls -> CallRow] /\ call'[c].stage = "done"
      /\ \A d \in Calls : d # c => call'[d] = call[d]
  BY <1>1, <1>2, StepRow DEF Stages
<1>4. solo' \in [Calls -> BOOLEAN]
  BY <1>2, SoloTyped DEF CatalogIInv
<1>5. DOMAIN installs' = {}
  BY <1>2 DEF NoInstalls
<1>6. CatalogTypeOK'
  BY <1>2, <1>3, <1>4, <1>5 DEF CatalogIInv, CatalogTypeOK, panesOf
<1>7. CountCovered'
  <2>1. Counting' \subseteq Counting /\ IsFiniteSet(Counting)
    BY <1>3 DEF Counting, CatalogIInv, CatalogRest, CountCovered
  <2>2. IsFiniteSet(Counting')
    BY <2>1, FS_Subset
  <2>3. IsFiniteSet(DOMAIN installs')
    BY <1>5, FS_EmptySet
  <2> QED BY <1>2, <2>2, <2>3 DEF CountCovered
<1>8. WalksKept'
  <2>1. \A d \in Calls \ {c} : WalkKept(d)'
    BY <1>2, <1>3, WalksOfOthers DEF CatalogIInv, CatalogRest
  <2>2. WalkKept(c)'
    BY <1>3 DEF WalkKept
  <2> QED BY <2>1, <2>2 DEF WalksKept
<1>9. PanesKeepTemplate'
  <2>1. uses' = 0
    BY <1>2 DEF panesOf, ReferencesHold
  <2> QED BY <2>1 DEF PanesKeepTemplate
<1> QED BY <1>2, <1>6, <1>7, <1>8, <1>9
        DEF CatalogIInv, CatalogRest, NumbersTaken, NumbersAreUnique, panesOf

(* What happens to the template and its panes without a request.           *)
LEMMA AloneStep ==
  ASSUME CatalogIInv, PanePurged \/ Publish \/ TrashTemplate \/ RestoreTemplate
  PROVE  CatalogIInv'
<1>1. uses \in Nat /\ template \in {"live", "trashed", "gone"} /\ published \in BOOLEAN
  BY DEF CatalogIInv, CatalogTypeOK
<1>2. /\ UNCHANGED <<lastVersion, installs, installCount, created, call, appended, solo>>
      /\ template' \in {"live", "trashed", "gone"} /\ (template' = "gone" <=> template = "gone")
      /\ published' \in BOOLEAN /\ uses' \in Nat /\ (uses' > 0 => uses > 0)
  BY <1>1 DEF PanePurged, Publish, TrashTemplate, RestoreTemplate, head, panesOf
<1>3. CatalogTypeOK'
  BY <1>2 DEF CatalogIInv, CatalogTypeOK
<1>4. CountCovered' /\ WalksKept'
  BY <1>2 DEF CatalogIInv, CatalogRest, CountCovered, Counting, WalksKept, WalkKept, HasRow, Settled
<1> QED BY <1>2, <1>3, <1>4
        DEF CatalogIInv, CatalogRest, NumbersTaken, NumbersAreUnique, PanesKeepTemplate, Here

-----------------------------------------------------------------------------
(* A new request, of the fields its handler reads.                         *)
LEMMA JobStage ==
  ASSUME NEW i \in CallRow, NEW s \in Stages
  PROVE  /\ [i EXCEPT !.stage = s] \in CallRow
         /\ [i EXCEPT !.stage = s].stage = s
BY DEF CallRow

LEMMA JobVersion ==
  ASSUME NEW i \in CallRow, NEW s \in Stages, NEW n \in Numbers
  PROVE  /\ [i EXCEPT !.stage = s, !.version = n] \in CallRow
         /\ [i EXCEPT !.stage = s, !.version = n].stage = s
BY DEF CallRow

LEMMA JobHuman ==
  ASSUME NEW i \in CallRow, NEW s \in Stages, NEW h \in Installers
  PROVE  /\ [i EXCEPT !.stage = s, !.human = h] \in CallRow
         /\ [i EXCEPT !.stage = s, !.human = h].stage = s
BY DEF CallRow

LEMMA JobMove ==
  ASSUME NEW i \in CallRow, NEW s \in Stages, NEW h \in Installers, NEW n \in Numbers
  PROVE  /\ [i EXCEPT !.stage = s, !.human = h, !.version = n] \in CallRow
         /\ [i EXCEPT !.stage = s, !.human = h, !.version = n].stage = s
BY DEF CallRow

LEMMA StartsAll ==
  ASSUME CatalogIInv, NEW c \in Calls,
         \/ LoadTemplate(c) \/ LoadForInstall(c) \/ LoadForUninstall(c) \/ LoadForPolicy(c)
         \/ LoadForUpgrade(c) \/ LoadForLaunch(c) \/ LoadForDelete(c),
         CatalogAssumption
  PROVE  CatalogIInv'
<1>1. /\ lastVersion \in Numbers /\ DOMAIN installs \subseteq Installers
      /\ \A h \in DOMAIN installs : installs[h] \in Install
  BY DEF CatalogIInv, CatalogTypeOK
<1>2. Idle \in CallRow
  <2>1. (CHOOSE h \in Installers : TRUE) \in Installers
    BY DEF CatalogAssumption
  <2>2. 1 \in Numbers
    BY DEF Numbers, CatalogAssumption
  <2> QED BY <2>1, <2>2 DEF Idle, CallRow, Stages
<1>3. PICK i \in CallRow : i = Idle
  BY <1>2
<1>4. {"append", "lookup", "leave", "policy", "move", "unblock", "launch", "delete"} \subseteq Stages
  BY DEF Stages
<1>5. \E job \in CallRow : job.stage \notin {"advance", "count"} /\ Start(c, job)
  <2>1. CASE LoadTemplate(c)
    <3>1. lastVersion + 1 \in Numbers
      BY <1>1, <2>1 DEF LoadTemplate, Numbers, CatalogAssumption
    <3>2. PICK job : job = [i EXCEPT !.stage = "append", !.version = lastVersion + 1]
      OBVIOUS
    <3>3. job \in CallRow /\ job.stage = "append"
      BY <1>4, <3>1, <3>2, JobVersion
    <3>4. Start(c, job)
      BY <1>3, <2>1, <3>2 DEF LoadTemplate
    <3> QED BY <3>3, <3>4
  <2>2. CASE LoadForInstall(c)
    <3>1. PICK h \in Installers, f \in BOOLEAN :
             Start(c, [i EXCEPT !.stage = "lookup", !.human = h, !.follow = f,
                                   !.version = lastVersion])
      BY <2>2, <1>3 DEF LoadForInstall
    <3>2. PICK job : job = [i EXCEPT !.stage = "lookup", !.human = h, !.follow = f,
                                     !.version = lastVersion]
      OBVIOUS
    <3>3. job \in CallRow /\ job.stage = "lookup"
      BY <1>1, <1>4, <3>2 DEF CallRow
    <3>4. Start(c, job)
      BY <3>1, <3>2
    <3> QED BY <3>3, <3>4
  <2>3. CASE LoadForUninstall(c)
    <3>1. PICK h \in Installers : Start(c, [i EXCEPT !.stage = "leave", !.human = h])
      BY <2>3, <1>3 DEF LoadForUninstall
    <3>2. PICK job : job = [i EXCEPT !.stage = "leave", !.human = h]
      OBVIOUS
    <3>3. job \in CallRow /\ job.stage = "leave"
      BY <1>4, <3>2, JobHuman
    <3>4. Start(c, job)
      BY <3>1, <3>2
    <3> QED BY <3>3, <3>4
  <2>4. CASE LoadForPolicy(c)
    <3>1. PICK h \in Installers, f \in BOOLEAN :
             Start(c, [i EXCEPT !.stage = "policy", !.human = h, !.follow = f])
      BY <2>4, <1>3 DEF LoadForPolicy
    <3>2. PICK job : job = [i EXCEPT !.stage = "policy", !.human = h, !.follow = f]
      OBVIOUS
    <3>3. job \in CallRow /\ job.stage = "policy"
      BY <1>4, <3>2 DEF CallRow
    <3>4. Start(c, job)
      BY <3>1, <3>2
    <3> QED BY <3>3, <3>4
  <2>5. CASE LoadForUpgrade(c)
    <3>1. PICK h \in Installers, n \in 1 .. lastVersion :
             Start(c, [i EXCEPT !.stage = IF n = installs[h].version THEN "unblock" ELSE "move",
                                !.human = h, !.version = n])
      BY <2>5, <1>3 DEF LoadForUpgrade
    <3>2. n \in Numbers
      BY <1>1 DEF Numbers, CatalogAssumption
    <3>3. PICK s \in {"move", "unblock"} :
             s = IF n = installs[h].version THEN "unblock" ELSE "move"
      OBVIOUS
    <3>4. PICK job : job = [i EXCEPT !.stage = s, !.human = h, !.version = n]
      OBVIOUS
    <3>5. Start(c, job)
      BY <3>1, <3>3, <3>4
    <3>6. job \in CallRow /\ job.stage = s
      <4>1. s \in Stages
        BY <1>4, <3>3
      <4>2. /\ [i EXCEPT !.stage = s, !.human = h, !.version = n] \in CallRow
            /\ [i EXCEPT !.stage = s, !.human = h, !.version = n].stage = s
        BY <3>2, <4>1 DEF CallRow
      <4> QED BY <3>4, <4>2
    <3> QED BY <3>3, <3>5, <3>6
  <2>6. CASE LoadForLaunch(c)
    <3>1. PICK n \in {installs[h].version : h \in {g \in DOMAIN installs : ActiveInstall(g)}}
                         \cup {lastVersion} :
             Start(c, [i EXCEPT !.stage = "launch", !.version = n])
      BY <2>6, <1>3 DEF LoadForLaunch
    <3>2. n \in Numbers
      BY <1>1 DEF Install
    <3>3. PICK job : job = [i EXCEPT !.stage = "launch", !.version = n]
      OBVIOUS
    <3>4. job \in CallRow /\ job.stage = "launch"
      BY <1>4, <3>2, <3>3, JobVersion
    <3>5. Start(c, job)
      BY <3>1, <3>3
    <3> QED BY <3>4, <3>5
  <2>7. CASE LoadForDelete(c)
    <3>1. PICK job : job = [i EXCEPT !.stage = "delete"]
      OBVIOUS
    <3>2. job \in CallRow /\ job.stage = "delete"
      BY <1>4, <3>1, JobStage
    <3>3. Start(c, job)
      BY <1>3, <2>7, <3>1 DEF LoadForDelete
    <3> QED BY <3>2, <3>3
  <2> QED BY <2>1, <2>2, <2>3, <2>4, <2>5, <2>6, <2>7
<1> QED BY <1>5, StartStep

(* The steps of the installers that put at most a row.                     *)
LEMMA RowsAll ==
  ASSUME CatalogIInv, NEW c \in Calls,
         \/ AppendVersion(c) /\ ~(Here /\ Free(call[c].version))
         \/ LookUpInstall(c)
         \/ CreateInstall(c) /\ ~(Here /\ ~HasRow(call[c].human))
         \/ ResetInstall(c) \/ LeaveInstall(c) \/ SetPolicy(c) \/ MoveInstall(c)
         \/ UnblockInstall(c)
         \/ LaunchPane(c) /\ ~(Here /\ created < MaxLaunches)
         \/ DeleteTemplate(c) /\ ~(Here /\ ReferencesHold)
  PROVE  CatalogIInv'
<1>1. /\ call[c] \in CallRow /\ call[c].human \in Installers /\ call[c].version \in Numbers
      /\ call[c].follow \in BOOLEAN
      /\ \A h \in DOMAIN installs : installs[h] \in Install
  BY DEF CatalogIInv, CatalogTypeOK, CallRow
<1>2. PICK h \in Installers : h = call[c].human
  BY <1>1
<1>3. Fresh(c) \in Install
  BY <1>1 DEF Fresh, Install
<1>4. HasRow(h) => /\ [installs[h] EXCEPT !.active = FALSE] \in Install
                   /\ [installs[h] EXCEPT !.follow = call[c].follow] \in Install
                   /\ [installs[h] EXCEPT !.blocked = FALSE] \in Install
                   /\ [installs[h] EXCEPT !.version = call[c].version, !.blocked = FALSE] \in Install
  BY <1>1 DEF HasRow, Install
<1>5. {"done", "reset", "create", "uncount"} \subseteq Stages \ {"advance", "count"}
  BY DEF Stages
<1>6. /\ \E s \in Stages \ {"advance", "count"} : Step(c, s)
      /\ UNCHANGED <<head, lastVersion, installCount, panesOf, appended>>
      /\ \/ UNCHANGED <<installs, solo>>
         \/ UNCHANGED installs /\ CatalogWrites(c)
         \/ \E g \in Installers, row \in Install : PutInstall(g, row) /\ CatalogWrites(c)
  <2>1. CASE AppendVersion(c) /\ ~(Here /\ Free(call[c].version))
    BY <1>5, <2>1 DEF AppendVersion
  <2>2. CASE LookUpInstall(c)
    BY <1>5, <2>2 DEF LookUpInstall
  <2>3. CASE CreateInstall(c) /\ ~(Here /\ ~HasRow(call[c].human))
    <3>1. CASE Here
      BY <1>2, <1>3, <1>5, <2>3, <3>1 DEF CreateInstall
    <3>2. CASE ~Here
      BY <1>5, <2>3, <3>2 DEF CreateInstall
    <3> QED BY <3>1, <3>2
  <2>4. CASE ResetInstall(c)
    BY <1>2, <1>3, <1>5, <2>4 DEF ResetInstall
  <2>5. CASE LeaveInstall(c)
    <3>1. CASE HasRow(h)
      BY <1>2, <1>4, <1>5, <2>5, <3>1 DEF LeaveInstall
    <3>2. CASE ~HasRow(h)
      BY <1>2, <1>5, <2>5, <3>2 DEF LeaveInstall
    <3> QED BY <3>1, <3>2
  <2>6. CASE SetPolicy(c)
    <3>1. CASE HasRow(h)
      BY <1>2, <1>4, <1>5, <2>6, <3>1 DEF SetPolicy
    <3>2. CASE ~HasRow(h)
      BY <1>2, <1>5, <2>6, <3>2 DEF SetPolicy
    <3> QED BY <3>1, <3>2
  <2>7. CASE MoveInstall(c)
    <3>1. CASE HasRow(h)
      BY <1>2, <1>4, <1>5, <2>7, <3>1 DEF MoveInstall
    <3>2. CASE ~HasRow(h)
      BY <1>2, <1>5, <2>7, <3>2 DEF MoveInstall
    <3> QED BY <3>1, <3>2
  <2>10. CASE UnblockInstall(c)
    <3>1. CASE HasRow(h)
      BY <1>2, <1>4, <1>5, <2>10, <3>1 DEF UnblockInstall
    <3>2. CASE ~HasRow(h)
      BY <1>2, <1>5, <2>10, <3>2 DEF UnblockInstall
    <3> QED BY <3>1, <3>2
  <2>8. CASE LaunchPane(c) /\ ~(Here /\ created < MaxLaunches)
    BY <1>5, <2>8 DEF LaunchPane
  <2>9. CASE DeleteTemplate(c) /\ ~(Here /\ ReferencesHold)
    BY <1>5, <2>9 DEF DeleteTemplate, head
  <2> QED BY <2>1, <2>2, <2>3, <2>4, <2>5, <2>6, <2>7, <2>8, <2>9, <2>10
<1> QED BY <1>6, RowStep

LEMMA CatalogStepIInv ==
  ASSUME CatalogAssumption, CatalogIInv, [CatalogNext]_catalogVars
  PROVE  CatalogIInv'
<1>1. CASE UNCHANGED catalogVars
  BY <1>1 DEF catalogVars, CatalogIInv, CatalogTypeOK, CatalogRest, NumbersTaken, CountCovered,
              Counting, WalksKept, WalkKept, HasRow, Settled, NumbersAreUnique,
              PanesKeepTemplate, Here
<1>2. CASE \E c \in Calls : Publisher(c)
  BY <1>2, StartsAll, AppendStep, RowsAll, ScanStep, AdvanceStep, DieStep DEF Publisher
<1>3. CASE \E c \in Calls : Installer(c)
  BY <1>3, StartsAll, RowsAll, FirstInstallStep, CounterStep DEF Installer
<1>4. CASE \E c \in Calls : Owner(c)
  BY <1>4, StartsAll, RowsAll, LaunchStep, DeleteStep DEF Owner
<1>5. CASE PanePurged \/ Publish \/ TrashTemplate \/ RestoreTemplate
  BY <1>5, AloneStep
<1> QED BY <1>1, <1>2, <1>3, <1>4, <1>5 DEF CatalogNext

(* The walk of an undisturbed publisher, step by step.                     *)
LEMMA FollowersStep ==
  ASSUME CatalogAssumption, CatalogIInv, CatalogNext, NEW c \in Calls,
         call[c].stage \in {"scan", "advance"}, call'[c] # call[c], solo'[c],
         NEW h \in DOMAIN installs
  PROVE  /\ installs[h].version # call[c].version /\ installs'[h].version = call[c].version
                => ~Breaks(installs[h].version, call[c].version)
         /\ call'[c].stage = "done" /\ installs[h].active /\ installs[h].follow
                => Settled(installs'[h], call[c].version)
<1>1. call \in [Calls -> CallRow] /\ solo \in [Calls -> BOOLEAN]
  BY DEF CatalogIInv, CatalogTypeOK
<1>2. \A d \in Calls : d # c /\ (Publisher(d) \/ Installer(d) \/ Owner(d)) => call'[c] = call[c]
  <2> SUFFICES ASSUME NEW d \in Calls, d # c, Publisher(d) \/ Installer(d) \/ Owner(d)
               PROVE  call'[c] = call[c]
    OBVIOUS
  <2>1. \A s : Step(d, s) => call'[c] = call[c]
    BY <1>1 DEF Step
  <2>2. \A job : Start(d, job) => call'[c] = call[c]
    BY <1>1 DEF Start
  <2>3. CASE Publisher(d)
    BY <1>1, <2>1, <2>2, <2>3 DEF Publisher, LoadTemplate, AppendVersion, ScanFollowers,
                                  AdvanceOne, AdvanceDies
  <2>4. CASE Installer(d)
    BY <2>1, <2>2, <2>4 DEF Installer, LoadForInstall, LookUpInstall, CreateInstall,
       ResetInstall, CountInstall, LoadForUninstall, LeaveInstall, UncountInstall,
       LoadForPolicy, SetPolicy, LoadForUpgrade, MoveInstall,
       UnblockInstall
  <2>5. CASE Owner(d)
    BY <2>1, <2>2, <2>5 DEF Owner, LoadForLaunch, LaunchPane, LoadForDelete, DeleteTemplate
  <2> QED BY <2>3, <2>4, <2>5
<1>3. ~(PanePurged \/ Publish \/ TrashTemplate \/ RestoreTemplate)
  BY DEF PanePurged, Publish, TrashTemplate, RestoreTemplate
<1>4. Publisher(c) \/ Installer(c) \/ Owner(c)
  BY <1>2, <1>3 DEF CatalogNext
<1>5. ~Installer(c)
  BY DEF Installer, LoadForInstall, LookUpInstall, CreateInstall, ResetInstall, CountInstall,
         LoadForUninstall, LeaveInstall, UncountInstall, LoadForPolicy, SetPolicy,
         LoadForUpgrade, UnblockInstall, MoveInstall, StandsAt, Start
<1>6. ~Owner(c)
  BY DEF Owner, LoadForLaunch, LaunchPane, LoadForDelete, DeleteTemplate, StandsAt, Start
<1>7. ScanFollowers(c) \/ AdvanceOne(c)
  <2>1. ~LoadTemplate(c) /\ ~AppendVersion(c)
    BY DEF LoadTemplate, AppendVersion, StandsAt, Start
  <2>2. ~AdvanceDies(c)
    BY <1>1 DEF AdvanceDies
  <2> QED BY <1>4, <1>5, <1>6, <2>1, <2>2 DEF Publisher
<1>8. CASE ScanFollowers(c)
  <2>1. UNCHANGED installs
    BY <1>8 DEF ScanFollowers
  <2> QED BY <1>8, <2>1, ScanStep DEF Settled
<1>9. CASE AdvanceOne(c)
  BY <1>9, AdvanceStep
<1> QED BY <1>7, <1>8, <1>9

(* Numbers answered once, a count never above the installs, panes that     *)
(* keep their version, and followers that a publisher carries along or     *)
(* blocks, for any number of requests, humans and versions.                *)
THEOREM CatalogSound == CatalogSpec => CatalogIsSound
<1>1. CatalogInit => CatalogIInv
  BY CatalogInitIInv, CatalogAssumption
<1>2. CatalogIInv /\ [CatalogNext]_catalogVars => CatalogIInv'
  BY CatalogStepIInv, CatalogAssumption
<1>3. CatalogIInv => CatalogTypeOK /\ NumbersAreUnique /\ CountBelowInstalls /\ PanesKeepTemplate
  <2> SUFFICES ASSUME CatalogIInv
               PROVE  CountBelowInstalls
    BY DEF CatalogIInv, CatalogRest
  <2>1. Cardinality(Counting) \in Nat /\ Cardinality(DOMAIN installs) \in Nat
    BY FS_CardinalityType DEF CatalogIInv, CatalogRest, CountCovered
  <2>2. installCount \in Nat
    BY DEF CatalogIInv, CatalogTypeOK
  <2> QED BY <2>1, <2>2 DEF CatalogIInv, CatalogRest, CountCovered, CountBelowInstalls
<1> DEFINE FA == \A c \in Calls :
              call[c].stage \in {"scan", "advance"} /\ call'[c] # call[c] /\ solo'[c] =>
           \A h \in DOMAIN installs :
               /\ installs[h].version # call[c].version /\ installs'[h].version = call[c].version
                      => ~Breaks(installs[h].version, call[c].version)
               /\ call'[c].stage = "done" /\ installs[h].active /\ installs[h].follow
                      => Settled(installs'[h], call[c].version)
<1>4. CatalogIInv /\ [CatalogNext]_catalogVars => [FA]_catalogVars
  BY FollowersStep, CatalogAssumption
<1>5. CatalogSpec => []CatalogIInv
  BY <1>1, <1>2, PTL DEF CatalogSpec
<1>6. CatalogSpec => FollowersAreAdvanced
  BY <1>4, <1>5, PTL DEF CatalogSpec, FollowersAreAdvanced
<1>7. CatalogSpec => [](CatalogTypeOK /\ NumbersAreUnique /\ CountBelowInstalls /\ PanesKeepTemplate)
  BY <1>3, <1>5, PTL
<1> QED BY <1>6, <1>7 DEF CatalogIsSound
===============================================================================
