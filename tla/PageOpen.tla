------------------------------ MODULE PageOpen ------------------------------
(***************************************************************************)
(* The three doors of a pane and how a browser gets through them: the      *)
(* capability URL /s/:token (bridge/routes.ts), the owner's /panes/:id     *)
(* (owner-shell.ts) and the shared /p/:id (pane-access.ts, serve-pane.ts), *)
(* which redirect to each other and to /login (system-pages.ts).           *)
(*                                                                         *)
(* One browser, which navigates and accepts HTML, and one pane. A handler  *)
(* reads the login and the pane one after the other; the shell it answers  *)
(* with then asks for its content and for presence at the same door, whose *)
(* gates are passed anew. Headers, the rendering of the shell and of icons *)
(* are left out; tickets are WsGate's, what opens them Participants'.      *)
(***************************************************************************)
EXTENDS Naturals

CONSTANTS
    People, PaneOwner, NoOne    \* NoOne: no live login; a token bound to nobody

ASSUME OpenAssumption == PaneOwner \in People /\ NoOne \notin People

VARIABLES
    doorway,  \* the pane: deletedAt, open or not, access mode
    grantees, \* people with a grant
    link,     \* the participant of the token: revokedAt, humanId
    login,    \* whose login the browser's cookie is
    tab,      \* the browser: URL, the handler's step, redirects since the person
              \* last did something, and the door /login was reached from
    read,     \* what the handler has read of pane, participant and login
    page,     \* the shell that is shown: its door, and whether it says closed
    asked,    \* what content and presence of the shell were answered
    viewed,   \* who was recorded in humanPaneView, the recents, in this visit
    same      \* history: nothing has changed since the visit began

openVars == <<doorway, grantees, link, login, tab, read, page, asked, viewed, same>>
worldVars == <<doorway, grantees, link, login>>

Doors == {"s", "panes", "p"}
Modes == {"invite_only", "link"}       \* a public pane opens like one with a link
Blank == [door |-> "none", closed |-> FALSE]
Unasked == [content |-> "no", presence |-> "no"]

DoorwayRow == [trashed : BOOLEAN, closed : BOOLEAN, mode : Modes]
TabRow == [url : Doors \cup {"login", "home", "none"}, step : {"new", "load", "bind", "done"},
           hops : Nat, from : Doors \cup {"none"}]
PageReadRow == [pane : DoorwayRow, bound : People \cup {NoOne}, who : People \cup {NoOne}]

OpenTypeOK ==
    /\ doorway \in DoorwayRow
    /\ grantees \subseteq People
    /\ link \in [revoked : BOOLEAN, bound : People \cup {NoOne}]
    /\ login \in People \cup {NoOne}
    /\ tab \in TabRow /\ read \in PageReadRow
    /\ page \in [door : Doors \cup {"none", "refused"}, closed : BOOLEAN]
    /\ asked \in [{"content", "presence"} -> {"no", "given", "refused"}]
    /\ viewed \subseteq People /\ same \in BOOLEAN

Nothing == [pane |-> [trashed |-> FALSE, closed |-> FALSE, mode |-> "link"],
            bound |-> NoOne, who |-> NoOne]

OpenInit ==
    /\ doorway \in [trashed : {FALSE}, closed : {FALSE}, mode : Modes]
    /\ grantees = {}
    /\ link \in [revoked : {FALSE}, bound : People \cup {NoOne}]
    /\ login = NoOne
    /\ tab = [url |-> "none", step |-> "done", hops |-> 0, from |-> "none"]
    /\ read = Nothing
    /\ page = Blank /\ asked = Unasked
    /\ viewed = {} /\ same = TRUE

-----------------------------------------------------------------------------
(* The browser.                                                            *)

Visit(d) ==
    /\ tab.step = "done" /\ (tab.url # d \/ page.door = "refused")
    /\ tab' = [url |-> d, step |-> "new", hops |-> 0, from |-> "none"]
    /\ read' = Nothing /\ page' = Blank /\ asked' = Unasked /\ same' = TRUE
    /\ viewed' = {} /\ UNCHANGED worldVars

Redirect(d) ==
    /\ tab' = [tab EXCEPT !.url = d, !.step = "new", !.hops = @ + 1]
    /\ read' = Nothing /\ UNCHANGED <<page, asked>>

\* A bounce to /login carries the door as ?return=.
BounceToLogin ==
    /\ tab' = [tab EXCEPT !.from = tab.url, !.url = "login", !.step = "new", !.hops = @ + 1]
    /\ read' = Nothing /\ UNCHANGED <<page, asked>>

RefusePage ==
    /\ tab' = [tab EXCEPT !.step = "done"]
    /\ read' = Nothing /\ page' = [door |-> "refused", closed |-> FALSE] /\ UNCHANGED asked

ShowShell(pane) ==
    /\ tab' = [tab EXCEPT !.step = "done"]
    /\ read' = Nothing /\ page' = [door |-> tab.url, closed |-> pane.closed] /\ UNCHANGED asked

Handling(d, step) == tab.url = d /\ tab.step = step

\* recordView is not waited for, and its failure is logged.
MayRecord(h) ==
    \/ h # NoOne /\ viewed' = viewed \cup {h}
    \/ UNCHANGED viewed

-----------------------------------------------------------------------------
(* GET /s/:token.                                                          *)

\* loadByToken, without the binding. A revoked token leads to the other door,
\* whatever the pane is. The opener is recorded here already.
LoadByToken ==
    /\ Handling("s", "new")
    /\ IF link.revoked
       THEN Redirect("p") /\ UNCHANGED viewed
       ELSE /\ read' = [pane |-> doorway, bound |-> link.bound, who |-> NoOne]
            /\ tab' = [tab EXCEPT !.step = "load"] /\ UNCHANGED <<page, asked>>
            /\ MayRecord(login)
    /\ UNCHANGED <<worldVars, same>>

\* The owner is sent to the owner's door.
UpgradeOwner ==
    /\ Handling("s", "load")
    /\ IF login = PaneOwner THEN Redirect("panes")
       ELSE tab' = [tab EXCEPT !.step = "bind"] /\ UNCHANGED <<read, page, asked>>
    /\ UNCHANGED <<worldVars, viewed, same>>

\* A bound token is for its person.
CheckBound ==
    /\ Handling("s", "bind")
    /\ IF read.bound # NoOne /\ login = NoOne
       THEN BounceToLogin
       ELSE IF read.bound # NoOne /\ login # read.bound
       THEN RefusePage
       ELSE ShowShell(read.pane)
    /\ UNCHANGED <<worldVars, viewed, same>>

-----------------------------------------------------------------------------
(* GET /panes/:id, and GET /p/:id.                                         *)

\* redirectOrRequireHuman, then loadOwnedPane.
RequireHuman ==
    /\ Handling("panes", "new")
    /\ IF login = NoOne THEN BounceToLogin
       ELSE /\ read' = [Nothing EXCEPT !.who = login]
            /\ tab' = [tab EXCEPT !.step = "load"] /\ UNCHANGED <<page, asked>>
    /\ UNCHANGED <<worldVars, viewed, same>>

LoadOwnedPane ==
    /\ Handling("panes", "load")
    /\ IF read.who # PaneOwner \/ doorway.trashed
       THEN RefusePage /\ UNCHANGED viewed
       ELSE ShowShell(doorway) /\ MayRecord(read.who)
    /\ UNCHANGED <<worldVars, same>>

\* resolveHumanFromCookie, then loadPane and resolveAccess.
ResolveHuman ==
    /\ Handling("p", "new")
    /\ read' = [Nothing EXCEPT !.who = login]
    /\ tab' = [tab EXCEPT !.step = "load"]
    /\ UNCHANGED <<worldVars, page, asked, viewed, same>>

\* The grant of a grantee is read last; it may be gone by then.
ResolveAccess(h) ==
    IF ~doorway.trashed /\ doorway.mode # "invite_only" THEN "allow"
    ELSE IF h = NoOne THEN "login"
    ELSE IF ~doorway.trashed /\ (h = PaneOwner \/ h \in grantees) THEN "allow"
    ELSE "not_found"

OpenShared ==
    /\ Handling("p", "load")
    /\ CASE ResolveAccess(read.who) = "login" -> BounceToLogin /\ UNCHANGED viewed
         [] ResolveAccess(read.who) = "not_found" -> RefusePage /\ UNCHANGED viewed
         [] OTHER -> ShowShell(doorway) /\ MayRecord(read.who)
    /\ UNCHANGED <<worldVars, same>>

-----------------------------------------------------------------------------
(* What the shell asks for, tab its door.                                   *)

\* Seeded bug: the token's binding is checked without the cookie.
AdmitsWithoutCookie(d) ==
    CASE d = "s" -> ~link.revoked /\ link.bound = NoOne
      [] d = "panes" -> login = PaneOwner /\ ~doorway.trashed
      [] d = "p" -> ResolveAccess(login) = "allow"

Admits(d) ==
    CASE d = "s" -> ~link.revoked /\ link.bound \in {NoOne, login}
      [] d = "panes" -> login = PaneOwner /\ ~doorway.trashed
      [] d = "p" -> ResolveAccess(login) = "allow"

\* GET .../content, of a shell that is not closed, for a pane that is open.
AskContent ==
    /\ page.door \in Doors /\ ~page.closed
    /\ asked.content = "no"
    /\ asked' = [asked EXCEPT !.content =
                    IF Admits(page.door) /\ ~doorway.closed THEN "given" ELSE "refused"]
    /\ UNCHANGED <<worldVars, tab, read, page, viewed, same>>

\* GET .../presence, again and again.
AskPresence ==
    /\ page.door \in Doors
    /\ asked' = [asked EXCEPT !.presence = IF Admits(page.door) THEN "given" ELSE "refused"]
    /\ UNCHANGED <<worldVars, tab, read, page, viewed, same>>

-----------------------------------------------------------------------------
(* /login, and what others do.                                             *)

\* The page looks for ?returnUrl=, not for ?return=: it leads to /home, at once
\* for somebody who is signed in by then, or after the magic link.
LogIn(h) ==
    /\ tab.url = "login" /\ tab.step = "new"
    /\ login' = h /\ h \in People /\ (login = NoOne \/ login = h)
    /\ tab' = [tab EXCEPT !.url = "home", !.step = "done",
                        !.hops = IF login = NoOne THEN 0 ELSE @ + 1]
    /\ UNCHANGED <<doorway, grantees, link, read, page, asked, viewed, same>>

\* The person gives up on the login.
Leave ==
    /\ tab.url = "login" /\ tab.step = "new" /\ tab' = [tab EXCEPT !.step = "done"]
    /\ UNCHANGED <<worldVars, read, page, asked, viewed, same>>

\* The pane goes to the trash or out of it, is closed, and changes its mode; the
\* token is revoked; grants come and go; logins end, or begin in another tab.
Changes ==
    /\ \/ /\ \/ doorway' = [doorway EXCEPT !.trashed = ~@]
             \/ ~doorway.closed /\ doorway' = [doorway EXCEPT !.closed = TRUE]
             \/ \E m \in Modes \ {doorway.mode} : doorway' = [doorway EXCEPT !.mode = m]
          /\ UNCHANGED <<grantees, link, login>>
       \/ /\ \E h \in People \ {PaneOwner} :
                 grantees' \in {grantees \cup {h}, grantees \ {h}} \ {grantees}
          /\ UNCHANGED <<doorway, link, login>>
       \/ /\ ~link.revoked /\ link' = [link EXCEPT !.revoked = TRUE]
          /\ UNCHANGED <<doorway, grantees, login>>
       \/ /\ login' \in (IF login = NoOne THEN People ELSE {NoOne})
          /\ UNCHANGED <<doorway, grantees, link>>
    /\ same' = FALSE
    /\ UNCHANGED <<tab, read, page, asked, viewed>>

-----------------------------------------------------------------------------
OpenNext ==
    \/ \E d \in Doors : Visit(d)
    \/ LoadByToken \/ UpgradeOwner \/ CheckBound
    \/ RequireHuman \/ LoadOwnedPane \/ ResolveHuman \/ OpenShared
    \/ AskContent \/ AskPresence
    \/ \E h \in People : LogIn(h)
    \/ Leave \/ Changes

OpenSpec == OpenInit /\ [][OpenNext]_openVars

-----------------------------------------------------------------------------
(* Properties.                                                             *)

\* However logins, grants, tokens and the pane change under way, the doors do
\* not send a browser in a circle: three redirects at most, and the last one is
\* that of /login.
RedirectsEnd ==
    /\ tab.hops <= 3
    /\ tab.hops = 3 => tab.url = "home"

\* A shell that opened gets its content and its presence at the same door, as
\* long as nothing has changed: the gates that the handlers check, each in its
\* own way, agree.
GatesAgree ==
    same => "refused" \notin {asked.content, asked.presence}

\* And without a change the pane is shown to those alone whom the owner has let
\* in: the owner, people with a grant, everyone in the open modes, and holders
\* of a token that is theirs.
ShownToInvited ==
    same /\ page.door \in Doors =>
        \/ login = PaneOwner \/ login \in grantees
        \/ doorway.mode # "invite_only"
        \/ ~link.revoked /\ link.bound \in {NoOne, login}

OpenInv == OpenTypeOK /\ RedirectsEnd /\ GatesAgree /\ ShownToInvited

\* "bounce to /login carrying the return URL so the human lands back on this
\* pane after magic-link verify" (bridge/routes.ts:338-339). Violated.
LandsBackOnPane ==
    [][tab.from = "s" /\ (\E h \in People : LogIn(h)) => tab'.url = tab.from]_openVars

\* Not a property: nobody who is refused has the pane in the recents. The opener
\* of a token is recorded before its binding is checked.
RecentsWereShown == page.door = "refused" => viewed = {}
=============================================================================
