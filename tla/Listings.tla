------------------------------ MODULE Listings ------------------------------
(* The lists an agent pages through: GET /v1/panes, GET /v1/attachments and *)
(* GET /v1/feedback (relay/src/http/routes/panes.ts, attachments.ts,        *)
(* feedback.ts), each newest first, a page at a time, behind a cursor that  *)
(* names the last row of the page before, while rows come and go.           *)
EXTENDS Naturals, FiniteSets

CONSTANTS
    ListRows,        \* rows: <<createdAt, id>>
    PageSizes,       \* the limits a request may bear
    NoCursor,
    MaxMoves         \* bound: rows that come or go

(* Of two panes or attachments of one moment the id decides, in the order   *)
(* and in the cursor; the cursor of the feedback list is a moment only.     *)
Lists == {"panes", "attachments", "feedback"}

Newer(r, q) == r[1] > q[1] \/ (r[1] = q[1] /\ r[2] > q[2])

(* Seeded bug: the cursor's own row is not excluded. *)
PastInclusive(l, r, c) ==
    IF l = "feedback" THEN c[1] >= r[1] ELSE r = c \/ Newer(c, r)

Past(l, r, c) == IF l = "feedback" THEN c[1] > r[1] ELSE Newer(c, r)

ASSUME ListingAssumption ==
    /\ ListRows \subseteq Nat \X Nat /\ NoCursor \notin ListRows
    /\ PageSizes \subseteq Nat \ {0} /\ MaxMoves \in Nat

VARIABLES
    listed,          \* the rows that match the list's filter now
    moves,
    walk,            \* "no", "on", "over"
    list, cursor,    \* which list, and where the next page begins
    shown,           \* the rows of the pages so far
    ordered,         \* history: each page was older than those before it,
    wasListed,       \* what matched at some moment of the walk,
    stayed           \* what matched throughout

listVars == <<listed, moves, walk, list, cursor, shown, ordered, wasListed, stayed>>

ListInit ==
    /\ listed \in SUBSET ListRows /\ moves = 0
    /\ walk = "no" /\ list \in Lists /\ cursor = NoCursor
    /\ shown = {} /\ ordered = TRUE /\ wasListed = {} /\ stayed = {}

(* A row is created, restored, claimed to the same human, or reopened; it   *)
(* is trashed, purged, closed, or expires. A row that is committed late has *)
(* an earlier createdAt than rows that were listed before it.               *)
Move(rows) ==
    /\ moves < MaxMoves /\ moves' = moves + 1
    /\ listed' = rows
    /\ wasListed' = wasListed \cup rows /\ stayed' = stayed \cap rows
    /\ UNCHANGED <<walk, list, cursor, shown, ordered>>

Come(r) == r \notin listed /\ Move(listed \cup {r})
Go(r) == r \in listed /\ Move(listed \ {r})

StartWalk(l) ==
    /\ walk = "no" /\ walk' = "on"
    /\ list' = l /\ cursor' = NoCursor /\ shown' = {} /\ ordered' = TRUE
    /\ wasListed' = listed /\ stayed' = listed
    /\ UNCHANGED <<listed, moves>>

Ahead == {r \in listed : cursor = NoCursor \/ Past(list, r, cursor)}

(* The newest n of them, or all: one more is read to see if there are more. *)
Newest(n) ==
    {S \in SUBSET Ahead : /\ IF Cardinality(Ahead) > n THEN Cardinality(S) = n ELSE S = Ahead
                          /\ \A r \in S, q \in Ahead \ S : Newer(r, q)}

(* The last row of the page is the next cursor; without more there is none. *)
Resume(page) ==
    IF page = Ahead THEN walk' = "over" /\ UNCHANGED cursor
    ELSE /\ \E last \in page : /\ \A r \in page \ {last} : Newer(r, last)
                               /\ cursor' = last
         /\ UNCHANGED walk

AskPage(n) ==
    /\ walk = "on"
    /\ \E page \in Newest(n) :
           /\ shown' = shown \cup page
           /\ ordered' = (ordered /\ \A r \in page, q \in shown : Newer(q, r))
           /\ Resume(page)
    /\ UNCHANGED <<listed, moves, list, wasListed, stayed>>

ListNext ==
    \/ \E r \in ListRows : Come(r) \/ Go(r)
    \/ \E l \in Lists : StartWalk(l)
    \/ \E n \in PageSizes : AskPage(n)

ListSpec == ListInit /\ [][ListNext]_listVars

-----------------------------------------------------------------------------
(* Rows come newest first and none twice.                                   *)
NewestFirst == ordered

(* Every row a walk shows was in the list at some moment of the walk.       *)
WalkShowsListed == shown \subseteq wasListed

(* A walk that has ended has shown every row that stayed in the list; of    *)
(* feedback, one given in the same moment as another may be passed over.    *)
WalkShowsAllThatStayed ==
    walk = "over" =>
        \A r \in stayed : \/ r \in shown
                          \/ list = "feedback" /\ \E q \in shown : q # r /\ q[1] = r[1]

(* A paged list: whatever comes and goes between the pages, nothing is      *)
(* shown twice or out of order, and nothing that stayed is passed over.     *)
WalksAreSound == NewestFirst /\ WalkShowsListed /\ WalkShowsAllThatStayed
=============================================================================
