----------------------------- MODULE OwnerHome ------------------------------
(***************************************************************************)
(* The owner's home page, a single-page application: its views and the     *)
(* browser's history, the lists it renders once and then keeps up by hand, *)
(* and the controls that send requests (owner-shell-spa.ts), with what the *)
(* relay does with them (my-panes.ts, self.ts).                            *)
(*                                                                         *)
(* A request that was sent is served or not, and its answer arrives or not *)
(* ("Network error"). Layout, previews, haptics, search boxes, the filter  *)
(* chips and the copy buttons are left out, and so are a hash typed by hand*)
(* and the one menu that opens a pane in place of the home page.           *)
(***************************************************************************)
EXTENDS Naturals, Sequences, FiniteSets

CONSTANTS
    HomePanes,       \* panes of the owner
    NewPane,         \* the one of them that a launch creates
    NoPane,
    TagLists,        \* what the tag editor may save
    DefaultSegment,  \* data-default-seg: "store" for an empty library
    Sends,           \* slots for requests under way
    MaxEntry,        \* bound of the model: entries of the session history
    MaxSecret        \* bound of the model: keys the relay makes for the ownAgent

Hashes == {"home", "panes", "templates", "store"}

ASSUME HomeAssumption ==
    /\ NewPane \in HomePanes /\ NoPane \notin HomePanes /\ IsFiniteSet(HomePanes)
    /\ HomePanes \cap {"tile", "sheet", "rotate", "revoke", "agent"} = {}
    /\ DefaultSegment \in {"templates", "store"}
    /\ MaxEntry \in Nat \ {0} /\ MaxSecret \in Nat \ {0}

VARIABLES
    entries,   \* the session history: hash or pane of each entry, and as a
               \* ghost, where it was scrolled to when it was left
    place,     \* the current entry
    view,      \* the active view (with its segment), or "pane"
    mounted,   \* mountedPaneId: the pane in the host frame
    scroll,    \* .main's scrollTop: at the top, or not
    kept,      \* scrollPositions
    opening,   \* requests: panes whose shell the frame asked for
    revived,   \* history: panes that were out of the recents and that the relay
               \* saw opened again, since the page was loaded
    busy,      \* disabled controls: the tile, the button of the store's sheet,
               \* stars, the buttons of the ownAgent
    owned,     \* relay: the owner's panes: trashed, favorite, tags, in the recents
    listed,    \* page: each pane's row and card, its star and its tags
    strip,     \* page: tiles of the favorites strip
    chip,      \* page: the count of panes in the navigation
    editor,    \* page: each row's tag editor, or the save it waits for
    ownAgent,     \* relay: revoked, and the current key
    says,      \* page: what it says of the ownAgent: revoked, and a key
    sending,   \* requests: what is asked of whom, with what, and how far it is
    doubt      \* history: panes or agents of which an answer was lost, or will
               \* be, the request being one of a page that was left

viewVars == <<opening, revived>>
navVars == <<entries, place, view, mounted, scroll, kept, viewVars>>
listVars == <<owned, listed, strip, chip, editor>>
agentVars == <<ownAgent, says>>
homeVars == <<navVars, listVars, agentVars, busy, sending, doubt>>

Agent == "agent"
Free == [op |-> "none", on |-> NoPane, with |-> 0, step |-> "free"]
Ops == {"install", "launch", "star", "unstar", "trash", "hide", "tags", "rotate", "revoke"}

HomeTypeOK ==
    /\ entries \in Seq([hash : Hashes, pane : HomePanes \cup {NoPane}, top : 0 .. 1])
    /\ place \in 1 .. Len(entries) /\ Len(entries) <= MaxEntry
    /\ view \in Hashes \cup {"pane"} /\ mounted \in HomePanes \cup {NoPane}
    /\ scroll \in 0 .. 1 /\ kept \in [{"home", "panes", "templates"} -> 0 .. 1]
    /\ owned \in [HomePanes -> [trashed : BOOLEAN, favorite : BOOLEAN, tags : TagLists,
                                viewed : BOOLEAN]]
    /\ listed \in [HomePanes -> [row : BOOLEAN, card : BOOLEAN, star : BOOLEAN,
                                 tags : TagLists]]
    /\ strip \in [HomePanes -> Nat] /\ chip \in Nat
    /\ editor \in [HomePanes -> {"closed", "open"} \cup Sends]
    /\ ownAgent \in [revoked : BOOLEAN, key : 1 .. MaxSecret]
    /\ says \in [revoked : BOOLEAN, key : 0 .. MaxSecret]
    /\ \A r \in Sends : sending[r].op \in Ops \cup {"none"}
    /\ opening \subseteq HomePanes /\ revived \subseteq HomePanes

HomeInit ==
    /\ entries = <<[hash |-> "home", pane |-> NoPane, top |-> 0]>> /\ place = 1
    /\ view = "home" /\ mounted = NoPane
    /\ scroll = 0 /\ kept = [v \in {"home", "panes", "templates"} |-> 0]
    /\ busy = {} /\ doubt = {} /\ opening = {} /\ revived = {}
    /\ \E t \in TagLists :
           /\ owned = [p \in HomePanes |-> [trashed |-> FALSE, favorite |-> FALSE,
                                            tags |-> t, viewed |-> TRUE]]
           /\ listed = [p \in HomePanes |-> [row |-> TRUE, card |-> TRUE, star |-> FALSE,
                                             tags |-> t]]
    /\ strip = [p \in HomePanes |-> 0]
    /\ editor = [p \in HomePanes |-> "closed"]
    /\ chip = Cardinality(HomePanes)
    /\ ownAgent = [revoked |-> FALSE, key |-> 1] /\ says = [revoked |-> FALSE, key |-> 0]
    /\ sending = [r \in Sends |-> Free]

-----------------------------------------------------------------------------
(* Views and the history.                                                  *)

\* Both segments of the templates are one view.
ViewOf(v) == IF v = "store" THEN "templates" ELSE v

KeepScroll == IF view = "pane" THEN kept ELSE [kept EXCEPT ![ViewOf(view)] = scroll]

\* The entry that is left remembers, as a ghost, where it was scrolled to.
Left == IF view = "pane" THEN entries ELSE [entries EXCEPT ![place].top = scroll]

\* activate() with a hash of the history: an explicit segment it has for the
\* store alone.
SegmentOf(hash) == IF hash = "templates" THEN DefaultSegment ELSE hash

Restore(hash) ==
    /\ view' = SegmentOf(hash)
    /\ kept' = KeepScroll
    /\ scroll' = KeepScroll[ViewOf(hash)]

\* A click on the navigation, a segment or a link to a view: the URL of the
\* current entry is replaced, and the view starts at its top. The pane view
\* hides all of them.
GoTo(v) ==
    /\ view # "pane" /\ v # view
    /\ view' = v /\ kept' = KeepScroll /\ scroll' = 0
    /\ entries' = [entries EXCEPT ![place] = [hash |-> v, pane |-> NoPane, top |-> 0]]
    /\ UNCHANGED <<place, mounted, viewVars, listVars, agentVars, busy, sending, doubt>>

ScrollMain ==
    /\ view # "pane" /\ scroll' = 1 - scroll
    /\ UNCHANGED <<entries, place, view, mounted, kept, viewVars, listVars, agentVars, busy,
                   sending, doubt>>

\* Seeded bug: the frame is filled when it is blank only.
MountWhenBlank(p) ==
    /\ mounted' = IF mounted = NoPane THEN p ELSE mounted
    /\ opening' = IF mounted = NoPane THEN opening \cup {p} ELSE opening
    /\ view' = "pane" /\ kept' = KeepScroll /\ scroll' = 0

\* mountPaneHost: unless the frame shows the pane already it is swapped, and
\* asks the relay for the shell of the pane.
MountPaneHost(p) ==
    /\ mounted' = p
    /\ opening' = IF mounted = p THEN opening ELSE opening \cup {p}
    /\ view' = "pane" /\ kept' = KeepScroll /\ scroll' = 0

\* openPane pushes an entry, which cuts off what was forward.
OpenPane(p) ==
    /\ place < MaxEntry
    /\ entries' = Append(SubSeq(Left, 1, place), [hash |-> "home", pane |-> p, top |-> 0])
    /\ place' = place + 1
    /\ MountPaneHost(p)

\* A click on a row, a card or a menu's Open.
ClickPane(p) ==
    /\ view \in {"home", "panes"} /\ OpenPane(p)
    /\ UNCHANGED <<revived, listVars, agentVars, busy, sending, doubt>>

\* The relay serves the shell of a pane that is not in the trash, and records
\* that the owner viewed it (GET /panes/:id). The frame may have asked for it
\* more than once by then.
RecordsView(p) ==
    /\ p \in opening /\ ~owned[p].trashed
    /\ owned' = [owned EXCEPT ![p].viewed = TRUE]
    /\ revived' = IF owned[p].viewed THEN revived ELSE revived \cup {p}
    /\ opening' \in {opening, opening \ {p}}
    /\ UNCHANGED <<entries, place, view, mounted, scroll, kept, listed, strip, chip, editor,
                   agentVars, busy, sending, doubt>>

\* popstate. The hash of the entry becomes that of the view it led to.
Travel(to) ==
    /\ to \in DOMAIN entries /\ place' = to
    /\ IF entries[to].pane # NoPane
       THEN MountPaneHost(entries[to].pane) /\ entries' = Left
       ELSE /\ mounted' = NoPane /\ Restore(entries[to].hash)
            /\ entries' = [Left EXCEPT ![to].hash = view'] /\ UNCHANGED opening
    /\ UNCHANGED <<revived, listVars, agentVars, busy, sending, doubt>>

\* Nobody awaits the answer of a request of a page that was left; the relay may
\* still carry it out.
Abandoned(r) ==
    IF sending[r].step \in {"sent", "orphan"} /\ sending[r].op \notin {"install", "launch"}
    THEN [sending[r] EXCEPT !.step = "orphan"] ELSE Free

\* The page is loaded again, outside the pane view: the relay renders the lists
\* as they are by then.
ReloadHome ==
    /\ view # "pane"
    /\ view' = SegmentOf(entries[place].hash) /\ mounted' = NoPane
    /\ scroll' = 0 /\ kept' = [v \in DOMAIN kept |-> 0]
    /\ entries' = [i \in DOMAIN entries |->
                      [entries[i] EXCEPT !.top = 0, !.hash = IF i = place THEN view' ELSE @]]
    /\ sending' = [r \in Sends |-> Abandoned(r)]
    /\ busy' = {} /\ doubt' = {sending[r].on : r \in {q \in Sends : Abandoned(q) # Free}}
    /\ revived' = {}
    /\ listed' = [p \in HomePanes |->
                     [row |-> ~owned[p].trashed, star |-> owned[p].favorite,
                      card |-> owned[p].viewed /\ ~owned[p].trashed, tags |-> owned[p].tags]]
    /\ strip' = [p \in HomePanes |-> IF owned[p].favorite /\ ~owned[p].trashed THEN 1 ELSE 0]
    /\ editor' = [p \in HomePanes |-> "closed"]
    /\ says' = [revoked |-> ownAgent.revoked, key |-> 0]
    /\ chip' = Cardinality({p \in HomePanes : ~owned[p].trashed})
    /\ UNCHANGED <<place, opening, owned, ownAgent>>

-----------------------------------------------------------------------------
(* Requests.                                                               *)

SendReq(r, op, on, with) ==
    /\ sending[r] = Free
    /\ sending' = [sending EXCEPT ![r] = [op |-> op, on |-> on, with |-> with, step |-> "sent"]]

Answer(r, step) == sending' = [sending EXCEPT ![r].step = step]

Over(r) == sending' = [sending EXCEPT ![r] = Free]

Under(r, op) == sending[r].op = op /\ sending[r].step = "sent"

\* At the relay, which answers a page that still awaits it.
Asked(r, op) == sending[r].op = op /\ sending[r].step \in {"sent", "orphan"}

Reply(r, step) == IF sending[r].step = "orphan" THEN Over(r) ELSE Answer(r, step)

\* A tile of the library is launched; one of the store opens its sheet, which
\* installs first and whose button is enabled again whenever a sheet is opened.
ClickTile(r) ==
    /\ view = "templates" /\ "tile" \notin busy /\ SendReq(r, "launch", "tile", 0)
    /\ busy' = busy \cup {"tile"}
    /\ UNCHANGED <<navVars, listVars, agentVars, doubt>>

ClickInstall(r) ==
    /\ view = "store" /\ "sheet" \notin busy /\ SendReq(r, "install", "sheet", 0)
    /\ busy' = busy \cup {"sheet"}
    /\ UNCHANGED <<navVars, listVars, agentVars, doubt>>

OpenSheet ==
    /\ view = "store" /\ "sheet" \in busy /\ busy' = busy \ {"sheet"}
    /\ UNCHANGED <<navVars, listVars, agentVars, sending, doubt>>

Installed(r) ==
    /\ Under(r, "install")
    /\ sending' = [sending EXCEPT ![r].op = "launch"]
    /\ UNCHANGED <<navVars, listVars, agentVars, busy, doubt>>

\* The pane opens wherever the owner is by then. The control stays disabled.
Launched(r) ==
    /\ Under(r, "launch") /\ Over(r)
    /\ OpenPane(NewPane)
    /\ UNCHANGED <<revived, listVars, agentVars, busy, doubt>>

LaunchFails(r) ==
    /\ Under(r, "install") \/ Under(r, "launch")
    /\ Over(r) /\ busy' = busy \ {sending[r].on}
    /\ UNCHANGED <<navVars, listVars, agentVars, doubt>>

-----------------------------------------------------------------------------
(* Rows and cards.                                                         *)

ClickStar(r, p) ==
    /\ listed[p].row /\ p \notin busy
    /\ SendReq(r, IF listed[p].star THEN "unstar" ELSE "star", p, 0)
    /\ busy' = busy \cup {p}
    /\ UNCHANGED <<navVars, listVars, agentVars, doubt>>

\* Menus are made anew each time they are opened: a request under way keeps
\* none of them from sending another.
ClickDelete(r, p) ==
    /\ \/ listed[p].row /\ SendReq(r, "trash", p, 1)
       \/ listed[p].card /\ SendReq(r, "trash", p, 2)
    /\ UNCHANGED <<navVars, listVars, agentVars, busy, doubt>>

ClickHide(r, p) ==
    /\ listed[p].card /\ SendReq(r, "hide", p, 0)
    /\ UNCHANGED <<navVars, listVars, agentVars, busy, doubt>>

SetEditor(p, e) == editor' = [editor EXCEPT ![p] = e]

OpenTagEditor(p) ==
    /\ listed[p].row /\ editor[p] = "closed" /\ SetEditor(p, "open")
    /\ UNCHANGED <<navVars, owned, listed, strip, chip, agentVars, busy, sending, doubt>>

CancelTags(p) ==
    /\ editor[p] # "closed" /\ SetEditor(p, "closed")
    /\ UNCHANGED <<navVars, owned, listed, strip, chip, agentVars, busy, sending, doubt>>

SaveTags(r, p, t) ==
    /\ editor[p] = "open" /\ SendReq(r, "tags", p, t) /\ SetEditor(p, r)
    /\ UNCHANGED <<navVars, owned, listed, strip, chip, agentVars, busy, doubt>>

\* The relay: a favorite and new tags are for panes that are not in the trash;
\* moving one there again is answered like the first time; taking away a
\* favorite or a view says yes to everything.
Serves(r) ==
    LET p == sending[r].on
        gone == owned[p].trashed
    IN /\ \/ Asked(r, "star") /\ ~gone /\ owned' = [owned EXCEPT ![p].favorite = TRUE]
          \/ Asked(r, "unstar") /\ owned' = [owned EXCEPT ![p].favorite = FALSE]
          \/ Asked(r, "trash") /\ owned' = [owned EXCEPT ![p].trashed = TRUE]
          \/ Asked(r, "hide") /\ owned' = [owned EXCEPT ![p].viewed = FALSE]
          \/ Asked(r, "tags") /\ ~gone
             /\ owned' = [owned EXCEPT ![p].tags = sending[r].with]
       /\ Reply(r, "yes")
       /\ UNCHANGED <<navVars, listed, strip, chip, editor, agentVars, busy, doubt>>

Refuses(r) ==
    /\ Asked(r, "star") \/ Asked(r, "tags")
    /\ owned[sending[r].on].trashed
    /\ Reply(r, "no")
    /\ UNCHANGED <<navVars, listVars, agentVars, busy, doubt>>

\* The request or its answer does not get through.
IsLost(r) ==
    /\ sending[r].step \in {"sent", "yes", "orphan"}
    /\ sending[r].op \notin {"install", "launch"}
    /\ Reply(r, "no")
    /\ doubt' = doubt \cup {sending[r].on}
    /\ UNCHANGED <<navVars, listVars, agentVars, busy>>

Answered(r, op) == sending[r].op = op /\ sending[r].step = "yes" /\ Over(r)

\* The star and its tile on the strip.
ShowStar(r) ==
    LET p == sending[r].on IN
    /\ \/ /\ Answered(r, "star")
          /\ listed' = [listed EXCEPT ![p].star = TRUE]
          /\ strip' = [strip EXCEPT ![p] = @ + 1]
       \/ /\ Answered(r, "unstar")
          /\ listed' = [listed EXCEPT ![p].star = FALSE]
          /\ strip' = [strip EXCEPT ![p] = IF @ = 0 THEN 0 ELSE @ - 1]
    /\ busy' = busy \ {p}
    /\ UNCHANGED <<navVars, owned, chip, editor, agentVars, doubt>>

\* A delete from the list removes the row and counts down; one from the recents
\* removes the card. Neither looks at the other, or at whether it was there.
ShowDeleted(r) ==
    LET p == sending[r].on IN
    /\ Answered(r, "trash")
    /\ IF sending[r].with = 1
       THEN /\ listed' = [listed EXCEPT ![p].row = FALSE]
            /\ chip' = IF chip > 0 THEN chip - 1 ELSE 0
       ELSE /\ listed' = [listed EXCEPT ![p].card = FALSE] /\ UNCHANGED chip
    /\ UNCHANGED <<navVars, owned, strip, editor, agentVars, busy, doubt>>

ShowHidden(r) ==
    /\ Answered(r, "hide")
    /\ listed' = [listed EXCEPT ![sending[r].on].card = FALSE]
    /\ UNCHANGED <<navVars, owned, strip, chip, editor, agentVars, busy, doubt>>

\* The row shows what the answer says; the editor that sent it goes.
ShowTags(r) ==
    LET p == sending[r].on IN
    /\ Answered(r, "tags")
    /\ listed' = [listed EXCEPT ![p].tags = sending[r].with]
    /\ editor' = [editor EXCEPT ![p] = IF @ = r THEN "closed" ELSE @]
    /\ UNCHANGED <<navVars, owned, strip, chip, agentVars, busy, doubt>>

\* An alert; the control can be used again.
ShowFailure(r) ==
    LET p == sending[r].on IN
    /\ sending[r].step = "no" /\ Over(r)
    /\ busy' = busy \ (IF sending[r].op \in {"rotate", "revoke"} THEN {sending[r].op}
                       ELSE IF sending[r].op \in {"star", "unstar"} THEN {p} ELSE {})
    /\ editor' = [q \in HomePanes |-> IF editor[q] = r THEN "open" ELSE editor[q]]
    /\ UNCHANGED <<navVars, owned, listed, strip, chip, agentVars, doubt>>

-----------------------------------------------------------------------------
(* The agents view.                                                        *)

\* Success takes the button away, and a revocation both.
ClickRotate(r) ==
    /\ "rotate" \notin busy /\ ~says.revoked
    /\ SendReq(r, "rotate", Agent, 0) /\ busy' = busy \cup {"rotate"}
    /\ UNCHANGED <<navVars, listVars, agentVars, doubt>>

ClickRevoke(r) ==
    /\ "revoke" \notin busy /\ ~says.revoked
    /\ SendReq(r, "revoke", Agent, 0) /\ busy' = busy \cup {"revoke"}
    /\ UNCHANGED <<navVars, listVars, agentVars, doubt>>

\* A revoked ownAgent's key is not rotated (400).
ServesAgent(r) ==
    /\ \/ /\ Asked(r, "rotate") /\ ~ownAgent.revoked /\ ownAgent.key < MaxSecret
          /\ ownAgent' = [ownAgent EXCEPT !.key = @ + 1]
          /\ IF sending[r].step = "orphan" THEN Over(r)
             ELSE sending' = [sending EXCEPT ![r].step = "yes", ![r].with = ownAgent.key + 1]
       \/ /\ Asked(r, "rotate") /\ ownAgent.revoked
          /\ Reply(r, "no") /\ UNCHANGED ownAgent
       \/ /\ Asked(r, "revoke")
          /\ ownAgent' = [ownAgent EXCEPT !.revoked = TRUE]
          /\ Reply(r, "yes")
    /\ UNCHANGED <<navVars, listVars, says, busy, doubt>>

ShowAgent(r) ==
    /\ \/ Answered(r, "rotate") /\ says' = [says EXCEPT !.key = sending[r].with]
       \/ Answered(r, "revoke") /\ says' = [says EXCEPT !.revoked = TRUE]
    /\ UNCHANGED <<navVars, listVars, ownAgent, busy, doubt>>

-----------------------------------------------------------------------------
NavNext ==
    \/ \E v \in Hashes : GoTo(v)
    \/ ScrollMain \/ Travel(place - 1) \/ Travel(place + 1) \/ ReloadHome \/ OpenSheet
    \/ \E p \in HomePanes : ClickPane(p) \/ RecordsView(p)
    \/ \E r \in Sends :
           ClickTile(r) \/ ClickInstall(r) \/ Installed(r) \/ Launched(r) \/ LaunchFails(r)

ListNext ==
    \/ \E p \in HomePanes :
           \/ OpenTagEditor(p) \/ CancelTags(p)
           \/ \E r \in Sends :
                  \/ ClickStar(r, p) \/ ClickDelete(r, p) \/ ClickHide(r, p)
                  \/ \E t \in TagLists : SaveTags(r, p, t)
    \/ \E r \in Sends : Serves(r) \/ Refuses(r) \/ ShowStar(r) \/ ShowDeleted(r)
                        \/ ShowHidden(r) \/ ShowTags(r)

AgentsNext ==
    \E r \in Sends : ClickRotate(r) \/ ClickRevoke(r) \/ ServesAgent(r) \/ ShowAgent(r)

HomeNext ==
    \/ NavNext \/ ListNext \/ AgentsNext
    \/ \E r \in Sends : IsLost(r) \/ ShowFailure(r)

HomeSpec == HomeInit /\ [][HomeNext]_homeVars

-----------------------------------------------------------------------------
(* Properties.                                                             *)

\* The URL names what is shown, and a pane is alive in the frame exactly while
\* it is shown, however launches that answer late, Back and Forward follow each
\* other (owner-shell-spa.ts:1774-1844).
UrlIsShown ==
    IF entries[place].pane = NoPane
    THEN view = entries[place].hash /\ mounted = NoPane
    ELSE view = "pane" /\ mounted = entries[place].pane

\* A star that no request is changing shows the favorite, unless an answer was
\* lost, and the strip has one tile for each star and no other, whatever is
\* retried (owner-shell-spa.ts:2042-2120).
StarIsFavorite ==
    \A p \in HomePanes :
        /\ p \notin busy \cup doubt => listed[p].star = owned[p].favorite
        /\ listed[p].row => strip[p] = (IF listed[p].star THEN 1 ELSE 0)

\* What the page has taken away is in the trash, or out of the recents, at the
\* relay, unless the owner opened the pane again; what it calls revoked is
\* revoked; the key it reveals is the current one, unless an answer was lost.
GoneIsGone ==
    /\ \A p \in HomePanes :
           /\ ~listed[p].row => owned[p].trashed
           /\ ~listed[p].card => owned[p].trashed \/ ~owned[p].viewed \/ p \in revived
    /\ says.revoked => ownAgent.revoked
    /\ says.key # 0 /\ Agent \notin doubt => says.key = ownAgent.key

\* Back and Forward show an entry as it was left, scrolled to where it was; the
\* list behind a pane is not lost. The segments of an empty library are the
\* exception: both are the store by then.
ReturnsWhereLeft ==
    [][place' # place /\ view' # "pane" =>
           /\ ViewOf(view') = ViewOf(entries[place'].hash) /\ scroll' = entries[place'].top
           /\ DefaultSegment = "templates" => view' = entries[place'].hash]_homeVars

\* The page shows what is, and goes back to what was.
HomeIsSound ==
    [](HomeTypeOK /\ UrlIsShown /\ StarIsFavorite /\ GoneIsGone) /\ ReturnsWhereLeft

\* Not properties: a card that was hidden re-appears when the pane is opened
\* again, which needs a reload; the count in the navigation is the number of rows, which two
\* deletes of one row upset; the tags of a row are those of the relay, which the
\* answers to two saves may reach in the other order; and the tile of a template
\* that was launched can be launched again, which needs a reload.
CardIsView ==
    \A p \in HomePanes : owned[p].viewed /\ ~owned[p].trashed => listed[p].card
CountIsRows == chip = Cardinality({p \in HomePanes : listed[p].row})
TagsAreStored ==
    \A p \in HomePanes : doubt = {} /\ (\A r \in Sends : sending[r] = Free)
        => listed[p].tags = owned[p].tags
TileComesBack ==
    "tile" \in busy => \E r \in Sends : sending[r].on = "tile"
=============================================================================
