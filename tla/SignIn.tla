------------------------------- MODULE SignIn -------------------------------
(* Magic-link sign-in and the invitations it accepts                       *)
(* (packages/relay/src/http/routes/auth.ts, pane-sharing-service.ts,       *)
(* pane-access.ts, auth/human-auth.ts and auth-sweeper.ts).                *)
(*                                                                         *)
(* A link travels by mail, so any browser may open it, a mail client may   *)
(* prefetch it, and several links of one address are open at once. The     *)
(* verify handler is five statements without a transaction; invitations    *)
(* to a pane are written and revoked between any two of them.              *)
(***************************************************************************)
EXTENDS Naturals, FiniteSets

CONSTANTS
    Emails,       \* normalised addresses; humans.email is unique, so an
                  \* address also names its human
    Browsers, Links, Visits, Invites,
    NoEmail, NoLink

ASSUME SignInAssumption == NoEmail \notin Emails /\ NoLink \notin Links

VARIABLES
    human,        \* the humans table: verifiedAt null or not
    link,         \* magic_links: what has become of each
    nonce,        \* the nonce cookie of each browser: the link it was set for
    session,      \* the login of each browser: cookie and row
    grant,        \* pane_grants of one pane, by invited address
    accessMode,   \* Pane.accessMode
    visit,        \* requests to /auth/verify
    invite,       \* requests to POST /v1/panes/:id/grants
    logins,       \* history: sign-ins by each link
    asked,        \* history: <<browser, address>> that requested a link
    promised      \* history: browsers signed in after their invitation

signInVars == <<human, link, nonce, session, grant, accessMode, visit, invite,
                logins, asked, promised>>
cookies == <<nonce, session>>
sharing == <<grant, accessMode, invite>>
signInHistory == <<logins, asked, promised>>

Modes == {"invite_only", "link", "public"}
VisitSteps == {"new", "consume", "find", "create", "verify", "bind", "login", "done"}

LinkRow == [state : {"new", "live", "expired", "used", "gone"},
            email : Emails \cup {NoEmail}]
VisitRow == [step : VisitSteps, browser : Browsers,
             link : Links \cup {NoLink}, invited : BOOLEAN]
InviteRow == [step : {"new", "look", "update", "upsert", "done"},
              email : Emails, known : BOOLEAN]

SignInTypeOK ==
    /\ human \in [Emails -> {"none", "unverified", "verified"}]
    /\ link \in [Links -> LinkRow]
    /\ nonce \in [Browsers -> Links \cup {NoLink}]
    /\ session \in [Browsers -> Emails \cup {NoEmail}]
    /\ grant \in [Emails -> {"none", "pending", "bound"}]
    /\ accessMode \in Modes
    /\ visit \in [Visits -> VisitRow]
    /\ invite \in [Invites -> InviteRow]
    /\ logins \in [Links -> Nat]
    /\ asked \subseteq Browsers \X Emails
    /\ promised \subseteq Browsers

SignInInit ==
    /\ human \in [Emails -> {"none", "unverified"}]
    /\ link = [l \in Links |-> [state |-> "new", email |-> NoEmail]]
    /\ nonce = [b \in Browsers |-> NoLink]
    /\ session = [b \in Browsers |-> NoEmail]
    /\ grant = [e \in Emails |-> "none"]
    /\ accessMode = "invite_only"
    /\ visit \in [Visits -> [step : {"new"}, browser : Browsers,
                             link : {NoLink}, invited : {FALSE}]]
    /\ invite \in [Invites -> [step : {"new"}, email : Emails, known : {FALSE}]]
    /\ logins = [l \in Links |-> 0]
    /\ asked = {} /\ promised = {}

-----------------------------------------------------------------------------
Advance(v, step) == visit' = [visit EXCEPT ![v].step = step]
Address(v) == link[visit[v].link].email
At(v, step) == visit[v].step = step

(* POST /auth/request-link. A throttled request is answered alike and does *)
(* nothing; a browser keeps the nonce of its last request only.            *)
RequestLink(b, e) ==
    /\ \E l \in Links :
           /\ link[l].state = "new"
           /\ link' = [link EXCEPT ![l] = [state |-> "live", email |-> e]]
           /\ nonce' = [nonce EXCEPT ![b] = l]
    /\ asked' = asked \cup {<<b, e>>}
    /\ UNCHANGED <<human, session, sharing, visit, logins, promised>>

(* Seeded bug: the link opens in any browser. *)
NonceMatchesAny(b, l) == TRUE
NonceMatches(b, l) == nonce[b] = l

(* GET /auth/verify: the link is read, then the nonce is compared.         *)
OpenLink(v) ==
    /\ At(v, "new")
    /\ \E l \in Links :
           /\ link[l].state = "live"
           /\ visit' = [visit EXCEPT ![v].link = l,
                            ![v].step = IF NonceMatches(visit[v].browser, l)
                                        THEN "consume" ELSE "done",
                            ![v].invited = grant[link[l].email] = "pending"]
    /\ UNCHANGED <<human, link, cookies, sharing, signInHistory>>

(* Seeded bug: the UPDATE does not look at consumedAt. *)
ConsumeAnyway(v) ==
    /\ At(v, "consume") /\ Advance(v, "find")
    /\ link' = [link EXCEPT ![visit[v].link].state = "used"]
    /\ UNCHANGED <<human, cookies, sharing, signInHistory>>

(* UPDATE ... WHERE consumedAt IS NULL; expiry is not looked at again.     *)
Consume(v) ==
    LET l == visit[v].link IN
    /\ At(v, "consume")
    /\ IF link[l].state \in {"live", "expired"}
       THEN link' = [link EXCEPT ![l].state = "used"] /\ Advance(v, "find")
       ELSE UNCHANGED link /\ Advance(v, "done")
    /\ UNCHANGED <<human, cookies, sharing, signInHistory>>

FindHuman(v) ==
    /\ At(v, "find")
    /\ Advance(v, CASE human[Address(v)] = "none" -> "create"
                    [] human[Address(v)] = "unverified" -> "verify"
                    [] OTHER -> "bind")
    /\ UNCHANGED <<human, link, cookies, sharing, signInHistory>>

(* The loser of two first logins meets the unique index; the error is not  *)
(* handled, the link stays used.                                           *)
CreateHuman(v) ==
    /\ At(v, "create")
    /\ IF human[Address(v)] = "none"
       THEN human' = [human EXCEPT ![Address(v)] = "verified"] /\ Advance(v, "bind")
       ELSE UNCHANGED human /\ Advance(v, "done")
    /\ UNCHANGED <<link, cookies, sharing, signInHistory>>

VerifyHuman(v) ==
    /\ At(v, "verify") /\ Advance(v, "bind")
    /\ human' = [human EXCEPT ![Address(v)] = "verified"]
    /\ UNCHANGED <<link, cookies, sharing, signInHistory>>

(* Seeded bug: only a human who has just been created is bound. *)
BindNewcomer(v) ==
    /\ At(v, "bind") /\ Advance(v, "login")
    /\ grant' = [grant EXCEPT ![Address(v)] =
                    IF @ = "pending" /\ \A b \in Browsers : session[b] # Address(v)
                    THEN "bound" ELSE @]
    /\ UNCHANGED <<human, link, cookies, accessMode, invite, signInHistory>>

(* One UPDATE of the pending grants of the address; an error is logged and *)
(* the login goes on.                                                      *)
BindGrants(v) ==
    /\ At(v, "bind")
    /\ \/ /\ grant' = [grant EXCEPT ![Address(v)] = IF @ = "pending" THEN "bound" ELSE @]
          /\ Advance(v, "login")
       \/ /\ UNCHANGED grant
          /\ visit' = [visit EXCEPT ![v].step = "login", ![v].invited = FALSE]
    /\ UNCHANGED <<human, link, cookies, accessMode, invite, signInHistory>>

CreateLogin(v) ==
    LET b == visit[v].browser IN
    /\ At(v, "login") /\ Advance(v, "done")
    /\ session' = [session EXCEPT ![b] = Address(v)]
    /\ nonce' = [nonce EXCEPT ![b] = NoLink]
    /\ logins' = [logins EXCEPT ![visit[v].link] = @ + 1]
    /\ promised' = IF visit[v].invited THEN promised \cup {b} ELSE promised \ {b}
    /\ UNCHANGED <<human, link, sharing, asked>>

(* A statement fails, or the process dies, after the link was used.        *)
VisitFails(v) ==
    /\ visit[v].step \in {"find", "create", "verify", "login"} /\ Advance(v, "done")
    /\ UNCHANGED <<human, link, cookies, sharing, signInHistory>>

VisitStep(v) ==
    \/ OpenLink(v) \/ Consume(v) \/ FindHuman(v) \/ CreateHuman(v) \/ VerifyHuman(v)
    \/ BindGrants(v) \/ CreateLogin(v) \/ VisitFails(v)

(* POST /auth/logout, an expired login, or the sweeper's deletion of it.   *)
EndSession(b) ==
    /\ session[b] # NoEmail
    /\ session' = [session EXCEPT ![b] = NoEmail]
    /\ promised' = promised \ {b}
    /\ UNCHANGED <<human, link, nonce, sharing, visit, logins, asked>>

LinkExpires(l) ==
    /\ link[l].state = "live"
    /\ link' = [link EXCEPT ![l].state = "expired"]
    /\ UNCHANGED <<human, cookies, sharing, visit, signInHistory>>

(* sweepAuthTokens: expired links, and used ones after a grace period.     *)
SweepLink(l) ==
    /\ link[l].state \in {"expired", "used"}
    /\ link' = [link EXCEPT ![l].state = "gone"]
    /\ UNCHANGED <<human, cookies, sharing, visit, signInHistory>>

-----------------------------------------------------------------------------
Proceed(i, step) == invite' = [invite EXCEPT ![i].step = step]
SignInState == <<human, link, cookies, visit>>

(* createGrant: is there a human, has it a bound grant, then the write.    *)
LookUpInvitee(i) ==
    /\ invite[i].step = "new"
    /\ LET known == human[invite[i].email] # "none"
       IN invite' = [invite EXCEPT ![i].step = IF known THEN "look" ELSE "upsert",
                                   ![i].known = known]
    /\ UNCHANGED <<SignInState, grant, accessMode, signInHistory>>

LookUpGrant(i) ==
    /\ invite[i].step = "look"
    /\ Proceed(i, IF grant[invite[i].email] = "bound" THEN "update" ELSE "upsert")
    /\ UNCHANGED <<SignInState, grant, accessMode, signInHistory>>

(* Only the role changes; a grant revoked meanwhile makes the call fail.   *)
UpdateGrant(i) ==
    /\ invite[i].step = "update" /\ Proceed(i, "done")
    /\ UNCHANGED <<SignInState, grant, accessMode, signInHistory>>

(* Upsert by (pane, address): a new row is bound when the human was there  *)
(* at the lookup; an existing one keeps its humanId.                       *)
UpsertGrant(i) ==
    LET e == invite[i].email IN
    /\ invite[i].step = "upsert" /\ Proceed(i, "done")
    /\ grant' = [grant EXCEPT ![e] = IF @ # "none" THEN @
                                      ELSE IF invite[i].known THEN "bound" ELSE "pending"]
    /\ UNCHANGED <<SignInState, accessMode, signInHistory>>

InviteStep(i) == LookUpInvitee(i) \/ LookUpGrant(i) \/ UpdateGrant(i) \/ UpsertGrant(i)

(* Seeded bug: a revoked row is marked and stays. *)
RevokeGrantMarked(e) ==
    /\ grant[e] # "none"
    /\ grant' = [grant EXCEPT ![e] = "revoked"]
    /\ UNCHANGED <<SignInState, accessMode, invite, signInHistory>>

(* deleteGrant. What a visit had read of the row no longer counts.         *)
RevokeGrant(e) ==
    /\ grant[e] # "none"
    /\ grant' = [grant EXCEPT ![e] = "none"]
    /\ visit' = [v \in Visits |-> [visit[v] EXCEPT !.invited =
                     @ /\ visit[v].link # NoLink /\ Address(v) # e]]
    /\ promised' = {b \in promised : session[b] # e}
    /\ UNCHANGED <<human, link, cookies, accessMode, invite, logins, asked>>

SetVisibility(mode) ==
    /\ accessMode # mode /\ accessMode' = mode
    /\ UNCHANGED <<SignInState, grant, invite, signInHistory>>

(* resolveAccess for a person who does not own the pane.                   *)
Access(b) ==
    CASE accessMode = "public" -> "participant"
      [] accessMode = "link" -> "viewer"
      [] OTHER -> IF session[b] = NoEmail THEN "login"
                  ELSE IF grant[session[b]] = "bound" THEN "participant"
                  ELSE "not_found"

SignInNext ==
    \/ \E b \in Browsers : EndSession(b) \/ \E e \in Emails : RequestLink(b, e)
    \/ \E v \in Visits : VisitStep(v)
    \/ \E l \in Links : LinkExpires(l) \/ SweepLink(l)
    \/ \E i \in Invites : InviteStep(i)
    \/ \E e \in Emails : RevokeGrant(e)
    \/ \E mode \in Modes : SetVisibility(mode)

SignInSpec == SignInInit /\ [][SignInNext]_signInVars

-----------------------------------------------------------------------------
(* A link signs in at most once, however many browsers and prefetchers     *)
(* open it at the same time, and whether or not it expires, or is swept,   *)
(* while they do.                                                          *)
LinkLogsInOnce == \A l \in Links : logins[l] <= 1

(* A browser is only signed in as an address for which that browser itself *)
(* requested a link, whoever opens the mail and in whatever order.         *)
SignedInAsAsked ==
    \A b \in Browsers : session[b] # NoEmail => <<b, session[b]>> \in asked

(* Who signs in after having been invited gets into the pane, whatever     *)
(* other sign-ins, invitations and revocations of other people do, until   *)
(* that invitation is revoked; only a failed UPDATE leaves it pending.     *)
InviteeGetsIn ==
    \A b \in promised : Access(b) \in {"participant", "viewer"}

(* Does not hold: an invitation looks for the human before the first       *)
(* sign-in has created one and is stored after that sign-in bound the      *)
(* pending grants; its invitee is signed in and has no access.             *)
KnownInviteeIsBound ==
    \A e \in Emails : grant[e] = "pending" => human[e] # "verified"

(* Links, sessions and invitations, each through the races of the others.  *)
SignInInv == SignInTypeOK /\ LinkLogsInOnce /\ SignedInAsAsked /\ InviteeGetsIn
=============================================================================
