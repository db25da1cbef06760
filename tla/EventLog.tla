------------------------------ MODULE EventLog ------------------------------
(***************************************************************************)
(* The append-only event log of ONE pane: the writeEvent pipeline that     *)
(* POST /events and the WebSocket frame handler share, and the             *)
(* appendSystemEvent path of the handler's joined/left events              *)
(* (packages/relay/src/core/events.ts).                                    *)
(*                                                                         *)
(* An actor is a request in flight (a Writer) or a WebSocket session (a    *)
(* Session, which appends system events).  Every await of the code is a    *)
(* step boundary, so the steps of actors interleave freely: the pane read, *)
(* the cap count, the INSERT, the re-read after P2002, the broadcast.      *)
(*                                                                         *)
(* SerialInserts tells the two databases apart.  SQLite has one writer, so *)
(* ids become visible in the order they are allocated; Postgres takes the  *)
(* id from a sequence and makes the row visible at commit, so a lower id   *)
(* may appear after a higher one.                                          *)
(***************************************************************************)
EXTENDS Naturals, FiniteSets

CONSTANTS
    Writers,            \* request slots: how many writeEvent calls can overlap
    Sessions,           \* WebSocket sessions
    Authors,            \* identities that may write events
    System,             \* the author of system events
    Keys, NoKey,        \* idempotency keys; NoKey: the request carries none
    MaxEventsPerPane,   \* config.MAX_EVENTS_PER_PANE; 0 disables the cap
    SerialInserts,      \* TRUE: SQLite; FALSE: Postgres
    MaxId               \* bound of the model: ids the sequence hands out

ASSUME LogAssumption ==
    /\ Writers \cap Sessions = {}
    /\ System \notin Authors
    /\ NoKey \notin Keys
    /\ MaxEventsPerPane \in Nat
    /\ SerialInserts \in BOOLEAN
    /\ MaxId \in Nat
    /\ IsFiniteSet(Writers \cup Sessions)

Actors == Writers \cup Sessions
Ids == 1 .. MaxId
Request == [author : Authors \cup {System}, key : Keys \cup {NoKey}]
Event == [id : Ids, author : Authors \cup {System}, key : Keys \cup {NoKey}]
Ack == [author : Authors, key : Keys \cup {NoKey}, id : Ids, deduped : BOOLEAN]

VARIABLES
    pane,       \* the pane row: closed or expired, trashed, purged
    committed,  \* every event row ever committed
    nextId,     \* the id sequence of the events table
    pc,         \* where each actor's append stands
    req,        \* what it appends
    rowId,      \* the id its INSERT took
    published,  \* how many times publish() was called for each id
    acks        \* the acknowledgements sent to writers

logVars == <<pane, committed, nextId, pc, req, rowId, published, acks>>

Stages == {"idle", "count", "insert", "inserting", "reread", "publish"}

LogTypeOK ==
    /\ pane \in [shut : BOOLEAN, trashed : BOOLEAN, purged : BOOLEAN]
    /\ committed \subseteq Event
    /\ nextId \in 1 .. MaxId + 1
    /\ pc \in [Actors -> Stages]
    /\ req \in [Actors -> Request]
    /\ rowId \in [Actors -> Ids \cup {0}]
    /\ published \in [Ids -> Nat]
    /\ acks \subseteq Ack

SystemEvent == [author |-> System, key |-> NoKey]

LogInit ==
    /\ pane = [shut |-> FALSE, trashed |-> FALSE, purged |-> FALSE]
    /\ committed = {}
    /\ nextId = 1
    /\ pc = [a \in Actors |-> "idle"]
    /\ req = [a \in Actors |-> SystemEvent]
    /\ rowId = [a \in Actors |-> 0]
    /\ published = [i \in Ids |-> 0]
    /\ acks = {}

-----------------------------------------------------------------------------
(* The rows the events table holds: purging the pane cascades to them.     *)
Table == IF pane.purged THEN {} ELSE committed

(* The gates of writeEvent: not trashed, status open, not expired.         *)
AcceptsEvents == ~pane.shut /\ ~pane.trashed /\ ~pane.purged

Goto(a, stage) == pc' = [pc EXCEPT ![a] = stage]

(* The call returns or throws: its locals are gone.                        *)
Finish(a) ==
    /\ Goto(a, "idle")
    /\ req' = [req EXCEPT ![a] = SystemEvent]
    /\ rowId' = [rowId EXCEPT ![a] = 0]

(* A bound of the model, not of the code: no append starts unless an id is *)
(* left for it and for those already on their way to the sequence.         *)
IdsLeft ==
    nextId + Cardinality({a \in Actors : pc[a] \in {"count", "insert"}}) <= MaxId

(* A request arrives, the route (or the frame handler) reads the pane and  *)
(* writeEvent's gates pass; a request they refuse changes nothing.         *)
Receive(w) ==
    /\ pc[w] = "idle"
    /\ AcceptsEvents
    /\ IdsLeft
    /\ \E author \in Authors, key \in Keys \cup {NoKey} :
          req' = [req EXCEPT ![w] = [author |-> author, key |-> key]]
    /\ Goto(w, "count")
    /\ UNCHANGED <<pane, committed, nextId, rowId, published, acks>>

(* Seeded bug: the cap admits one event too many.                          *)
BelowCapOffByOne ==
    MaxEventsPerPane = 0 \/ Cardinality(Table) <= MaxEventsPerPane

BelowCap == MaxEventsPerPane = 0 \/ Cardinality(Table) < MaxEventsPerPane

(* The soft cap: count now, insert later.  Below it, schema validation and *)
(* the attachment-reference check may still refuse the event.              *)
CheckCap(w) ==
    /\ pc[w] = "count"
    /\ \/ BelowCap /\ Goto(w, "insert") /\ UNCHANGED <<req, rowId>>
       \/ Finish(w)                           \* 429, 422 or 403
    /\ UNCHANGED <<pane, committed, nextId, published, acks>>

(* prisma.event.create reaches the database and takes an id.               *)
BeginInsert(a) ==
    /\ pc[a] = "insert"
    /\ nextId <= MaxId
    /\ SerialInserts => \A b \in Actors : pc[b] # "inserting"
    /\ rowId' = [rowId EXCEPT ![a] = nextId]
    /\ nextId' = nextId + 1
    /\ Goto(a, "inserting")
    /\ UNCHANGED <<pane, committed, req, published, acks>>

(* Seeded bug: the unique index is missing.                                *)
SameKeyNoIndex(r) == {e \in Table : r.key # r.key}

(* Rows the unique index (pane_id, author_id, idempotency_key) lets one    *)
(* request collide with; NULL keys never collide.                          *)
SameKey(r) ==
    {e \in Table : r.key # NoKey /\ e.key = r.key /\ e.author = r.author}

NewRow(a) == [id |-> rowId[a], author |-> req[a].author, key |-> req[a].key]

(* The INSERT commits.                                                     *)
Persist(a) ==
    /\ pc[a] = "inserting"
    /\ ~pane.purged
    /\ SameKey(req[a]) = {}
    /\ committed' = committed \cup {NewRow(a)}
    /\ Goto(a, "publish")
    /\ UNCHANGED <<pane, nextId, req, rowId, published, acks>>

(* P2002: the key is taken; a second query will read the winner's row.     *)
Collide(a) ==
    /\ pc[a] = "inserting"
    /\ SameKey(req[a]) # {}
    /\ Goto(a, "reread")
    /\ UNCHANGED <<pane, committed, nextId, req, rowId, published, acks>>

(* Seeded bug: the retry is acknowledged with the id its own INSERT burnt. *)
ReReadOwnId(w) ==
    /\ pc[w] = "reread"
    /\ acks' = acks \cup {[author |-> req[w].author, key |-> req[w].key,
                           id |-> rowId[w], deduped |-> TRUE]}
    /\ Finish(w)
    /\ UNCHANGED <<pane, committed, nextId, published>>

(* Seeded bug: a deduped write is broadcast like a fresh one.              *)
ReReadAndPublish(w) ==
    /\ pc[w] = "reread"
    /\ \E e \in SameKey(req[w]) : published' = [published EXCEPT ![e.id] = @ + 1]
    /\ Finish(w)
    /\ UNCHANGED <<pane, committed, nextId, acks>>

(* The re-read: the retry is acknowledged with the existing row, which is  *)
(* not broadcast again.  If the row went with its pane the error surfaces. *)
ReRead(w) ==
    /\ pc[w] = "reread"
    /\ \/ \E e \in SameKey(req[w]) :
             acks' = acks \cup {[author |-> e.author, key |-> e.key,
                                 id |-> e.id, deduped |-> TRUE]}
       \/ SameKey(req[w]) = {} /\ UNCHANGED acks
    /\ Finish(w)
    /\ UNCHANGED <<pane, committed, nextId, published>>

(* P2003: the pane row is gone (410 to a writer, null to a session).       *)
LosePane(a) ==
    /\ pc[a] = "inserting"
    /\ pane.purged
    /\ Finish(a)
    /\ UNCHANGED <<pane, committed, nextId, published, acks>>

(* Seeded bug: system events are acknowledged too.                         *)
PublishAckAll(a) ==
    /\ pc[a] = "publish"
    /\ published' = [published EXCEPT ![rowId[a]] = @ + 1]
    /\ acks' = acks \cup {[author |-> req[a].author, key |-> req[a].key,
                           id |-> rowId[a], deduped |-> FALSE]}
    /\ Finish(a)
    /\ UNCHANGED <<pane, committed, nextId>>

(* A fresh row is broadcast (and its webhook fired), then acknowledged.    *)
Publish(a) ==
    /\ pc[a] = "publish"
    /\ published' = [published EXCEPT ![rowId[a]] = @ + 1]
    /\ acks' = IF a \in Writers
               THEN acks \cup {[author |-> req[a].author, key |-> req[a].key,
                                id |-> rowId[a], deduped |-> FALSE]}
               ELSE acks
    /\ Finish(a)
    /\ UNCHANGED <<pane, committed, nextId>>

(* A database error ends one append, the death of a process all of its    *)
(* own: an INSERT in flight rolls back, a committed row stays.             *)
Abort(A) ==
    /\ \E a \in A : pc[a] # "idle"
    /\ pc' = [a \in Actors |-> IF a \in A THEN "idle" ELSE pc[a]]
    /\ req' = [a \in Actors |-> IF a \in A THEN SystemEvent ELSE req[a]]
    /\ rowId' = [a \in Actors |-> IF a \in A THEN 0 ELSE rowId[a]]
    /\ UNCHANGED <<pane, committed, nextId, published, acks>>

(* appendSystemEvent: no gate and no cap.                                  *)
BeginSystemEvent(s) ==
    /\ pc[s] = "idle"
    /\ IdsLeft
    /\ Goto(s, "insert")
    /\ UNCHANGED <<pane, committed, nextId, req, rowId, published, acks>>

-----------------------------------------------------------------------------
(* What the rest of the relay does to the pane row.  Closing and expiring  *)
(* are final; the trash flag comes and goes; the purge is final.           *)
Shut ==
    /\ ~pane.shut /\ ~pane.purged
    /\ pane' = [pane EXCEPT !.shut = TRUE]

MoveToTrash ==
    /\ ~pane.trashed /\ ~pane.purged
    /\ pane' = [pane EXCEPT !.trashed = TRUE]

Restore ==
    /\ pane.trashed /\ ~pane.purged
    /\ pane' = [pane EXCEPT !.trashed = FALSE]

Purge ==
    /\ pane.trashed /\ ~pane.purged
    /\ pane' = [pane EXCEPT !.purged = TRUE]

PaneStep ==
    /\ Shut \/ MoveToTrash \/ Restore \/ Purge
    /\ UNCHANGED <<committed, nextId, pc, req, rowId, published, acks>>

WriterStep(w) == Receive(w) \/ CheckCap(w) \/ ReRead(w)

InsertStep(a) == BeginInsert(a) \/ Persist(a) \/ Collide(a) \/ LosePane(a)

LogNext ==
    \/ \E w \in Writers : WriterStep(w)
    \/ \E s \in Sessions : BeginSystemEvent(s)
    \/ \E a \in Actors : InsertStep(a) \/ Publish(a)
    \/ \E A \in SUBSET Actors : Abort(A)
    \/ PaneStep

LogSpec == LogInit /\ [][LogNext]_logVars

-----------------------------------------------------------------------------
(* Retries of one (author, idempotency key) are all answered with the same *)
(* event id, whichever of them won the unique index and whichever lost it. *)
RetriesAgree ==
    \A x, y \in acks :
        x.key # NoKey /\ x.key = y.key /\ x.author = y.author => x.id = y.id

(* An acknowledgement names a row of that very author and key, committed   *)
(* before the acknowledgement left.                                        *)
AcksAreDurable ==
    \A x \in acks :
        [id |-> x.id, author |-> x.author, key |-> x.key] \in committed

(* publish() runs at most once per row and only after the row committed:   *)
(* a collision, a retry or a failed insert never broadcasts.               *)
PublishedOnce ==
    \A i \in Ids : /\ published[i] <= 1
                   /\ published[i] = 1 => \E e \in committed : e.id = i

(* The cap is soft: writers that counted before another inserted overshoot *)
(* it, but by less than the number of writes in flight, however many       *)
(* requests follow one another and whatever system events do.              *)
OvershootBounded ==
    MaxEventsPerPane > 0 =>
        Cardinality({e \in committed : e.author # System})
            <= MaxEventsPerPane - 1 + Cardinality(Writers)

(* What retries may rely on: one key has one answer, an answer names a row *)
(* that is committed, and that row is broadcast at most once.              *)
WritesAreSound == LogTypeOK /\ RetriesAgree /\ AcksAreDurable /\ PublishedOnce
=============================================================================
