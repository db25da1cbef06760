--------------------------- MODULE TemplateRecords ---------------------------
(***************************************************************************)
(* Template-level records (packages/relay/src/core/template-records.ts,    *)
(* http/routes/template-records.ts) and their fan-out to the sockets of    *)
(* every pane derived from the template (ws/handler.ts, http/broadcast.ts).*)
(*                                                                         *)
(* The write path repeats core/records.ts statement by statement, with a   *)
(* template in place of the pane: its requests are those of Records.  What *)
(* is added here is the version a request or a socket goes by, and the     *)
(* session: a replay of at most Batch rows, a gap, the live filter, a lost *)
(* socket, and a store that survives it and goes on from its cursor.       *)
(***************************************************************************)
EXTENDS Records

CONSTANTS
    Sessions,     \* shells on panes of the template
    Batch,        \* MAX_RECORDS_REPLAY_BATCH
    MaxVersion    \* bound of the model: versions of the template

ASSUME TemplateRecordsAssumption ==
    /\ Batch \in Nat \ {0} /\ MaxVersion \in Nat \ {0}
    /\ Sessions \cap Clients = {}

VARIABLES
    declared,     \* the versions whose template_record_schema has the collection
    latest,       \* Template.latestVersion
    socket,       \* per session: state, and lastTplReplaySeq
    shown,        \* per session: its store, as cursor, copy and brought of Records
    lost,         \* history: sessions that a handshake has left without a row
    stale         \* history: sessions that were away when rows were removed

tplVars == <<vars, declared, latest, socket, shown, lost, stale>>
sessionVars == <<declared, latest, socket, shown, lost, stale>>

SocketStates == {"off", "deaf", "replayed", "live"}

TplTypeOK ==
    /\ latest \in 1 .. MaxVersion /\ declared \subseteq 1 .. latest
    /\ socket \in [Sessions -> [state : SocketStates, last : Nat]]
    /\ shown \in [Sessions -> [cursor : Nat, copy : [Keys -> Nat], brought : Nat]]
    /\ lost \subseteq Sessions /\ stale \subseteq Sessions

TplInit ==
    /\ Init
    /\ latest = 1 /\ declared \in SUBSET {1}
    /\ socket = [s \in Sessions |-> [state |-> "off", last |-> 0]]
    /\ shown = [s \in Sessions |->
           [cursor |-> 0, copy |-> [k \in Keys |-> 0], brought |-> 0]]
    /\ lost = {} /\ stale = {}

-----------------------------------------------------------------------------
\* Seeded bug: the version is inserted, the pointer stays.
AppendSchemaUnpointed ==
    /\ latest < MaxVersion
    /\ latest' = latest
    /\ declared' \in {declared, declared \cup {latest + 1}}
    /\ UNCHANGED <<vars, socket, shown, lost, stale>>

\* POST /:id/versions: a version that has the collection, or has it not.
AppendSchema ==
    /\ latest < MaxVersion
    /\ latest' = latest + 1
    /\ declared' \in {declared, declared \cup {latest + 1}}
    /\ UNCHANGED <<vars, socket, shown, lost, stale>>

\* loadTemplate and resolveCollection: a write goes by the latest version.
TplReceive(w, kind, key, match) ==
    /\ latest \in declared
    /\ RoomFor(kind)
    /\ Receive(w, kind, key, match)
    /\ UNCHANGED sessionVars

\* RecordStore: the deltas above the cursor are folded in.
Folded(store, batch) ==
    LET new == {d \in batch : d.seq > store.cursor}
        about(k) == CHOOSE d \in new : d.key = k
    IN  [cursor |-> Max({store.cursor} \cup {d.seq : d \in new}),
         copy |-> [k \in Keys |-> IF \E d \in new : d.key = k
                                  THEN IF about(k).live THEN about(k).seq ELSE 0
                                  ELSE store.copy[k]],
         brought |-> store.brought]

\* The bus callback drops what the replay has sent.
PassesFilter(s, d) == d.seq > socket[s].last

\* publishToTemplate: the sockets of every derived pane that have subscribed to
\* the template's bus. A socket between its replay and the subscription is not
\* reached and will never ask for it again; one that is away asks for rows, and
\* of a dropped collection there are none.
TplPublish(w) ==
    /\ Publish(w)
    /\ shown' = [s \in Sessions |->
           IF socket[s].state # "live" THEN shown[s]
           ELSE Folded(shown[s], {d \in out[w] : PassesFilter(s, d)})]
    /\ lost' = lost \cup {s \in Sessions : socket[s].state = "replayed"}
    /\ stale' = IF wjob[w].kind = "drop"
                THEN stale \cup {s \in Sessions : socket[s].state # "live"} ELSE stale
    /\ UNCHANGED <<declared, latest, socket>>

\* POST counts the live rows first.
TplCap(w) == CheckCap(w) /\ UNCHANGED sessionVars

\* The shells bring their cursors to a collection that is created.
Brought == [s \in Sessions |-> IF coll'.exists /\ ~coll.exists
                               THEN [shown[s] EXCEPT !.brought = shown[s].cursor]
                               ELSE shown[s]]

\* writeTemplateRecord: upsert of the collection and INSERT in one transaction,
\* and the re-read of a taken key.
TplPost(w) ==
    /\ wjob[w].kind = "post"
    /\ Bump(w) \/ CommitPost(w) \/ LookUp(w)
    /\ shown' = Brought
    /\ UNCHANGED <<declared, latest, socket, lost, stale>>

\* updateTemplateRecord: the reads, if_match, the bump and the UPDATE.
TplPatch(w) ==
    /\ wjob[w].kind = "patch"
    /\ ReadRow(w) \/ Bump(w) \/ CommitChange(w)
    /\ UNCHANGED sessionVars

\* deleteTemplateRecord: the same with a tombstone.
TplDelete(w) ==
    /\ wjob[w].kind = "delete"
    /\ ReadRow(w) \/ Bump(w) \/ CommitChange(w)
    /\ UNCHANGED sessionVars

\* deleteTemplateRecordCollection: what it removes, a shell that is away would
\* have asked for.
TplDrop(w) ==
    \/ ReadCollection(w) /\ UNCHANGED sessionVars
    \/ /\ CommitDrop(w)
       /\ stale' = IF coll.exists /\ ~coll'.exists
                   THEN stale \cup {s \in Sessions : socket[s].state # "live"} ELSE stale
       /\ UNCHANGED <<declared, latest, socket, shown, lost>>

\* A database error rolls the transaction back.
TplAbort(w) == Abort(w) /\ UNCHANGED sessionVars

TplWriterStep(w) ==
    \/ TplCap(w) \/ TplPost(w) \/ TplPatch(w) \/ TplDelete(w) \/ TplDrop(w)
    \/ TplPublish(w) \/ TplAbort(w)

\* The tombstone sweep; a shell that has not seen the tombstone keeps the row.
TplSweep(k) ==
    /\ Sweep(k)
    /\ stale' = stale \cup {s \in Sessions : shown[s].cursor < rows[k].seq}
    /\ UNCHANGED <<declared, latest, socket, shown, lost>>

-----------------------------------------------------------------------------
Unseen(s) == Above(shown[s].cursor)

\* Seeded bug: tombstones are not replayed.
FirstRowsLiveOnly(s) ==
    {k \in Unseen(s) : /\ Live(k)
                       /\ Cardinality({j \in Unseen(s) : rows[j].seq < rows[k].seq}) < Batch}

\* The rows a replay sends: the first Batch above the cursor, tombstones too.
FirstRows(s) ==
    {k \in Unseen(s) :
        Cardinality({j \in Unseen(s) : rows[j].seq < rows[k].seq}) < Batch}

\* The handshake of a socket whose pane is pinned to a version with the
\* collection. The store folds the batch; the filter starts from its last row.
ReplayRecords(s) ==
    /\ socket[s].state = "off"
    /\ \E pin \in 1 .. latest : pin \in declared
    /\ LET batch == {[key |-> k, seq |-> rows[k].seq, live |-> Live(k)] : k \in FirstRows(s)}
       IN  /\ shown' = [shown EXCEPT ![s] = Folded(@, batch)]
           /\ socket' = [socket EXCEPT ![s] =
                  [state |-> "replayed",
                   last |-> Max({shown[s].cursor} \cup {d.seq : d \in batch})]]
    /\ lost' = IF \E k \in Above(0) : rows[k].seq > socket'[s].last
               THEN lost \cup {s} ELSE lost
    /\ UNCHANGED <<vars, declared, latest, stale>>

\* The handshake of a socket whose pane is pinned to a version without it: the
\* client subscribes to every declared collection, and this is none of them.
SubscribeToNone(s) ==
    /\ socket[s].state = "off"
    /\ \E pin \in 1 .. latest : pin \notin declared
    /\ socket' = [socket EXCEPT ![s].state = "deaf"]
    /\ UNCHANGED <<vars, declared, latest, shown, lost, stale>>

\* subscribeToTemplate.
GoLive(s) ==
    /\ socket[s].state = "replayed"
    /\ socket' = [socket EXCEPT ![s].state = "live"]
    /\ UNCHANGED <<vars, declared, latest, shown, lost, stale>>

\* The socket closes; the shell keeps its store.
Disconnect(s) ==
    /\ socket[s].state # "off"
    /\ socket' = [socket EXCEPT ![s] = [state |-> "off", last |-> 0]]
    /\ UNCHANGED <<vars, declared, latest, shown, lost, stale>>

TplNext ==
    \/ AppendSchema
    \/ \E w \in Writers :
          \/ \E kind \in {"post", "patch", "delete", "drop"}, key \in Keys,
                match \in 1 .. MaxSeq \cup {NoMatch} : TplReceive(w, kind, key, match)
          \/ TplWriterStep(w)
    \/ \E k \in Keys : TplSweep(k)
    \/ \E s \in Sessions :
          ReplayRecords(s) \/ SubscribeToNone(s) \/ GoLive(s) \/ Disconnect(s)

TplSpec == TplInit /\ [][TplNext]_tplVars

-----------------------------------------------------------------------------
(* Properties.                                                             *)

\* The row is shown as it is.
AsItIs(s, k) == shown[s].copy[k] = (IF Live(k) THEN rows[k].seq ELSE 0)

\* A shell that is live, after whatever reconnects, drops and creations, shows
\* every row that is numbered above the cursor it brought to the collection as
\* it is when no broadcast is pending, unless a handshake has left it without
\* one: a publication in its gap, or a batch that was too small. If it was not
\* away when rows were dropped or swept, it shows no row that is gone, and no
\* other in an old state either (template-records.ts:371-709, records.ts:843,
\* handler.ts:781-862, record-store.ts:83-84).
SessionExact ==
    (\A w \in Writers : pc[w] # "publish") =>
        \A s \in Sessions, k \in Keys :
            socket[s].state = "live" /\ s \notin lost =>
                /\ Kept(k) /\ rows[k].seq > shown[s].brought => AsItIs(s, k)
                /\ s \notin stale => \/ AsItIs(s, k)
                                     \/ shown[s].copy[k] = 0 /\ rows[k].seq <= shown[s].brought

\* Not a property: "every pane derived from any version of the template sees the
\* same rows" (template-records.ts:4-6), since a pane goes by the version it is
\* pinned to and a write by the latest.
EveryPaneSees ==
    \A s \in Sessions : socket[s].state = "deaf" => \A k \in Keys : ~Live(k)

(* The sessions on a template's collection, over well-formed rows.         *)
SessionsInv == TplTypeOK /\ SessionExact
=============================================================================
