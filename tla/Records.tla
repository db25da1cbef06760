------------------------------- MODULE Records -------------------------------
(***************************************************************************)
(* One record collection of one open pane: the rows, the collection's      *)
(* write cursor seq, the transactions of POST, PATCH, DELETE and of the    *)
(* collection drop, the tombstone sweeper, readers that page through       *)
(* GET ?since=, and the stores of shells that stay connected               *)
(* (packages/relay/src/core/records.ts, bridge/client/record-store.ts).    *)
(* Template-level collections (core/template-records.ts) work alike.       *)
(*                                                                         *)
(* Every write bumps seq in the collection row and stamps it on the record *)
(* in the same transaction.  On Postgres (READ COMMITTED) the bump locks   *)
(* the collection row until the commit, but what a transaction read before *)
(* the bump may be stale.  SQLite runs one transaction at a time, and its  *)
(* broadcast follows before the next one commits.                          *)
(***************************************************************************)
EXTENDS Naturals, FiniteSets, FiniteSetsExt

CONSTANTS
    Writers,        \* requests in flight
    Readers,        \* clients that poll with a cursor
    Subscribers,    \* shells whose socket stays open
    Keys,           \* record keys
    NoMatch,        \* the request carries no if_match
    Nobody,         \* the collection row is not locked
    PageSize,       \* rows per page
    MaxRecords,     \* MAX_RECORDS_PER_COLLECTION; 0 disables the cap
    Serial,         \* TRUE: SQLite; FALSE: Postgres
    MaxSeq, MaxGen  \* bounds of the model: writes of one collection, and how
                    \* often it is created

ASSUME RecordsAssumption ==
    /\ Readers \cap Subscribers = {}
    /\ Nobody \notin Writers
    /\ NoMatch \notin Nat
    /\ Keys # {} /\ IsFiniteSet(Keys)
    /\ PageSize \in Nat \ {0}
    /\ MaxRecords \in Nat /\ MaxSeq \in Nat /\ MaxGen \in Nat
    /\ Serial \in BOOLEAN

Clients == Readers \cup Subscribers

(* born is the seq of the write that created a row, which tells apart the  *)
(* rows that held one key one after the other; 0: there is no such row.    *)
Row == [born : Nat, version : Nat, seq : Nat, deleted : BOOLEAN]
NoRecord == [born |-> 0, version |-> 0, seq |-> 0, deleted |-> FALSE]

WriterJob == [kind : {"post", "patch", "delete", "drop"}, key : Keys,
        match : Nat \cup {NoMatch},
        gen : Nat, born : Nat, seq : Nat, victims : SUBSET Keys]

(* What is broadcast: record.upsert, or record.delete with live = FALSE.   *)
Delta == [key : Keys, seq : Nat, live : BOOLEAN]

VARIABLES
    coll,       \* the collection row: does it exist, which one, its seq
    rows,       \* its records by key
    lock,       \* who holds the row lock of the collection
    pc,         \* where each request stands
    wjob,       \* what it asks for and what it has read
    out,        \* what it is about to broadcast
    cursor,     \* the highest seq each client has seen
    copy,       \* the seq of the row it shows for each key, 0 for none
    brought     \* history: the cursor each had when the collection was created

vars == <<coll, rows, lock, pc, wjob, out, cursor, copy, brought>>
clientVars == <<cursor, copy, brought>>

TypeOK ==
    /\ coll \in [exists : BOOLEAN, gen : Nat, seq : Nat]
    /\ rows \in [Keys -> Row]
    /\ lock \in Writers \cup {Nobody}
    /\ pc \in [Writers -> {"idle", "cap", "begin", "bump", "locked", "lookup",
                           "publish"}]
    /\ wjob \in [Writers -> WriterJob]
    /\ out \in [Writers -> SUBSET Delta]
    /\ cursor \in [Clients -> Nat]
    /\ copy \in [Clients -> [Keys -> Nat]]
    /\ brought \in [Clients -> Nat]

NoWriterJob == [kind |-> "post", key |-> CHOOSE k \in Keys : TRUE, match |-> NoMatch,
          gen |-> 0, born |-> 0, seq |-> 0, victims |-> {}]

Init ==
    /\ coll = [exists |-> FALSE, gen |-> 0, seq |-> 0]
    /\ rows = [k \in Keys |-> NoRecord]
    /\ lock = Nobody
    /\ pc = [w \in Writers |-> "idle"]
    /\ wjob = [w \in Writers |-> NoWriterJob]
    /\ out = [w \in Writers |-> {}]
    /\ cursor = [c \in Clients |-> 0]
    /\ copy = [c \in Clients |-> [k \in Keys |-> 0]]
    /\ brought = [c \in Clients |-> 0]

-----------------------------------------------------------------------------
Kept(k) == rows[k].born # 0
Live(k) == Kept(k) /\ ~rows[k].deleted

Goto(w, step) == pc' = [pc EXCEPT ![w] = step]

(* The request answers or throws, its transaction rolled back if open.     *)
Finish(w) ==
    /\ Goto(w, "idle")
    /\ wjob' = [wjob EXCEPT ![w] = NoWriterJob]
    /\ out' = [out EXCEPT ![w] = {}]
    /\ lock' = IF lock = w THEN Nobody ELSE lock

(* SQLite: a transaction begins when the last one is over and broadcast.   *)
MayBegin ==
    Serial => \A w \in Writers : pc[w] \notin {"bump", "locked", "publish"}

(* A request passed the pane, schema and author gates of its route.  An    *)
(* if_match names a version the row has had.                               *)
Receive(w, kind, key, match) ==
    /\ pc[w] = "idle"
    /\ match \in {NoMatch} \cup 1 .. rows[key].version
    /\ match # NoMatch => kind \in {"patch", "delete"}
    /\ wjob' = [wjob EXCEPT ![w] = [NoWriterJob EXCEPT !.kind = kind, !.key = key,
                                               !.match = match]]
    /\ Goto(w, IF kind = "post" THEN "cap" ELSE "begin")
    /\ UNCHANGED <<coll, rows, lock, out, clientVars>>

(* Seeded bug: the stage of another pipeline.                              *)
CheckCapMisspelt(w) ==
    /\ pc[w] = "cap"
    /\ IF MaxRecords > 0 /\ Cardinality({k \in Keys : Live(k)}) >= MaxRecords
       THEN Finish(w)
       ELSE Goto(w, "insert") /\ UNCHANGED <<wjob, out, lock>>
    /\ UNCHANGED <<coll, rows, clientVars>>

(* POST counts the live rows first; over the cap it answers 429.           *)
CheckCap(w) ==
    /\ pc[w] = "cap"
    /\ IF MaxRecords > 0 /\ Cardinality({k \in Keys : Live(k)}) >= MaxRecords
       THEN Finish(w)
       ELSE Goto(w, "begin") /\ UNCHANGED <<wjob, out, lock>>
    /\ UNCHANGED <<coll, rows, clientVars>>

(* Seeded bug: if_match is only heeded by PATCH.                           *)
ReadRowPatchMatch(w) ==
    /\ pc[w] = "begin" /\ wjob[w].kind \in {"patch", "delete"}
    /\ MayBegin
    /\ LET row == rows[wjob[w].key]
       IN  IF /\ coll.exists /\ Live(wjob[w].key)
              /\ wjob[w].kind = "delete" \/ wjob[w].match \in {NoMatch, row.version}
           THEN /\ wjob' = [wjob EXCEPT ![w].gen = coll.gen, ![w].born = row.born]
                /\ Goto(w, "bump")
                /\ UNCHANGED <<lock, out>>
           ELSE Finish(w)
    /\ UNCHANGED <<coll, rows, clientVars>>

(* PATCH and DELETE read the collection and the row in their transaction   *)
(* and answer 404 or 409 by what they find.                                *)
ReadRow(w) ==
    /\ pc[w] = "begin" /\ wjob[w].kind \in {"patch", "delete"}
    /\ MayBegin
    /\ LET row == rows[wjob[w].key]
       IN  IF /\ coll.exists /\ Live(wjob[w].key)
              /\ wjob[w].match \in {NoMatch, row.version}
           THEN /\ wjob' = [wjob EXCEPT ![w].gen = coll.gen, ![w].born = row.born]
                /\ Goto(w, "bump")
                /\ UNCHANGED <<lock, out>>
           ELSE Finish(w)
    /\ UNCHANGED <<coll, rows, clientVars>>

(* The drop reads the collection and its live rows.                        *)
ReadCollection(w) ==
    /\ pc[w] = "begin" /\ wjob[w].kind = "drop"
    /\ MayBegin
    /\ IF coll.exists
       THEN /\ wjob' = [wjob EXCEPT ![w].gen = coll.gen, ![w].seq = coll.seq,
                                  ![w].victims = {k \in Keys : Live(k)}]
            /\ Goto(w, "bump")
            /\ UNCHANGED <<lock, out>>
       ELSE Finish(w)
    /\ UNCHANGED <<coll, rows, clientVars>>

-----------------------------------------------------------------------------
(* Seeded bug: seq is bumped before the transaction, whose lock is gone.   *)
BumpUnlocked(w) ==
    /\ \/ pc[w] = "bump" /\ wjob[w].kind \in {"patch", "delete"}
       \/ pc[w] = "begin" /\ wjob[w].kind = "post" /\ MayBegin
    /\ wjob' = [wjob EXCEPT ![w].gen = IF coll.exists THEN coll.gen ELSE coll.gen + 1,
                          ![w].seq = IF coll.exists THEN coll.seq + 1 ELSE 1]
    /\ coll' = [exists |-> TRUE, gen |-> wjob'[w].gen, seq |-> wjob'[w].seq]
    /\ Goto(w, "locked")
    /\ UNCHANGED <<rows, lock, out, clientVars>>

(* The statement that bumps seq: upsert in a POST, whose transaction it    *)
(* begins, update by id otherwise, which fails when the collection is gone.*)
(* It waits for the row lock and keeps it.                                 *)
Bump(w) ==
    /\ \/ pc[w] = "bump" /\ wjob[w].kind \in {"patch", "delete"}
       \/ pc[w] = "begin" /\ wjob[w].kind = "post" /\ MayBegin
    /\ lock = Nobody
    /\ IF wjob[w].kind = "post" \/ (coll.exists /\ coll.gen = wjob[w].gen)
       THEN /\ wjob' = [wjob EXCEPT
                         ![w].gen = IF coll.exists THEN coll.gen ELSE coll.gen + 1,
                         ![w].seq = IF coll.exists THEN coll.seq + 1 ELSE 1]
            /\ lock' = w
            /\ Goto(w, "locked")
            /\ UNCHANGED out
       ELSE Finish(w)
    /\ UNCHANGED <<coll, rows, clientVars>>

(* The second statement and the commit, which makes both visible.  A       *)
(* collection that is created again counts from 1, below the cursors that  *)
(* the clients bring from the one that was dropped.                        *)
Write(w, row) ==
    /\ coll' = [exists |-> TRUE, gen |-> wjob[w].gen, seq |-> wjob[w].seq]
    /\ rows' = [rows EXCEPT ![wjob[w].key] = row]
    /\ lock' = Nobody
    /\ out' = [out EXCEPT ![w] = {[key |-> wjob[w].key, seq |-> wjob[w].seq,
                                   live |-> wjob[w].kind # "delete"]}]
    /\ brought' = IF coll.exists THEN brought ELSE cursor
    /\ Goto(w, "publish")
    /\ UNCHANGED <<wjob, cursor, copy>>

(* POST: the unique index (collection, key) refuses a key that is taken,   *)
(* by a tombstone too; the transaction rolls back.                         *)
CommitPost(w) ==
    /\ pc[w] = "locked" /\ wjob[w].kind = "post"
    /\ IF ~Kept(wjob[w].key)
       THEN Write(w, [born |-> wjob[w].seq, version |-> 1, seq |-> wjob[w].seq,
                      deleted |-> FALSE])
       ELSE /\ Goto(w, "lookup")
            /\ lock' = Nobody
            /\ UNCHANGED <<coll, rows, wjob, out, clientVars>>

(* ... and the existing row is the answer, or the error if it has gone.    *)
LookUp(w) ==
    /\ pc[w] = "lookup"
    /\ Finish(w)
    /\ UNCHANGED <<coll, rows, clientVars>>

(* PATCH: version + 1, whatever the version is by now; deletedAt is left   *)
(* alone.  DELETE: the tombstone keeps its version.  Both address the row  *)
(* by id and fail if it has been swept.                                    *)
CommitChange(w) ==
    /\ pc[w] = "locked" /\ wjob[w].kind \in {"patch", "delete"}
    /\ LET row == rows[wjob[w].key]
       IN  IF row.born = wjob[w].born
           THEN Write(w, IF wjob[w].kind = "patch"
                         THEN [row EXCEPT !.version = @ + 1, !.seq = wjob[w].seq]
                         ELSE [row EXCEPT !.deleted = TRUE, !.seq = wjob[w].seq])
           ELSE Finish(w) /\ UNCHANGED <<coll, rows, clientVars>>

(* Seeded bug: the tombstones of a drop reuse the seqs of their rows.      *)
CommitDropOldSeqs(w) ==
    /\ pc[w] = "bump" /\ wjob[w].kind = "drop"
    /\ lock = Nobody
    /\ coll' = [coll EXCEPT !.exists = FALSE]
    /\ rows' = [k \in Keys |-> NoRecord]
    /\ out' = [out EXCEPT ![w] = {[key |-> k, seq |-> rows[k].seq, live |-> FALSE]
                                    : k \in wjob[w].victims}]
    /\ Goto(w, "publish")
    /\ UNCHANGED <<lock, wjob, clientVars>>

(* The drop deletes the collection row, the cascade its records; the live  *)
(* rows it read get tombstones numbered from the seq it read.              *)
CommitDrop(w) ==
    /\ pc[w] = "bump" /\ wjob[w].kind = "drop"
    /\ lock = Nobody
    /\ IF coll.exists /\ coll.gen = wjob[w].gen
       THEN /\ coll' = [coll EXCEPT !.exists = FALSE]
            /\ rows' = [k \in Keys |-> NoRecord]
            /\ \E nth \in [wjob[w].victims -> 1 .. Cardinality(wjob[w].victims)] :
                  /\ \A j, k \in wjob[w].victims : nth[j] = nth[k] => j = k
                  /\ out' = [out EXCEPT ![w] =
                               {[key |-> k, seq |-> wjob[w].seq + nth[k],
                                 live |-> FALSE]
                                   : k \in wjob[w].victims}]
            /\ Goto(w, "publish")
            /\ UNCHANGED <<lock, wjob>>
       ELSE Finish(w) /\ UNCHANGED <<coll, rows>>
    /\ UNCHANGED clientVars

(* A database error: the transaction rolls back.                           *)
Abort(w) ==
    /\ pc[w] \in {"cap", "begin", "bump", "locked", "lookup"}
    /\ Finish(w)
    /\ UNCHANGED <<coll, rows, clientVars>>

(* What RecordStore.applyUpsert and applyDelete make of a batch of deltas, *)
(* one per key and in the order of their seq: those above the cursor are   *)
(* folded in, the others are stale.                                        *)
Fold(c, batch) ==
    LET new == {d \in batch : d.seq > cursor[c]}
        about(k) == CHOOSE d \in new : d.key = k
    IN  [cursor |-> Max({cursor[c]} \cup {d.seq : d \in new}),
         copy |-> [k \in Keys |-> IF \E d \in new : d.key = k
                                  THEN IF about(k).live THEN about(k).seq ELSE 0
                                  ELSE copy[c][k]]]

(* The broadcast, and every connected shell's store; then the answer.      *)
Publish(w) ==
    /\ pc[w] = "publish"
    /\ LET after(c) == IF c \in Subscribers THEN Fold(c, out[w]) ELSE Fold(c, {})
       IN  /\ cursor' = [c \in Clients |-> after(c).cursor]
           /\ copy' = [c \in Clients |-> after(c).copy]
    /\ Finish(w)
    /\ UNCHANGED <<coll, rows, brought>>

-----------------------------------------------------------------------------
Above(n) == {k \in Keys : Kept(k) /\ rows[k].seq > n}

(* Seeded bug: a page of live rows only.                                   *)
PageLiveOnly(n) ==
    LET shown == {k \in Above(n) : Live(k)}
    IN  {k \in shown : Cardinality({j \in shown : rows[j].seq < rows[k].seq})
                          < PageSize}

(* The rows above a cursor, tombstones included, in the order of their seq,*)
(* as many as a page holds.                                                *)
Page(n) ==
    {k \in Above(n) : Cardinality({j \in Above(n) : rows[j].seq < rows[k].seq})
                          < PageSize}

(* GET ?since=: the reader folds the page in and goes on from its end.     *)
Poll(c) ==
    /\ Page(cursor[c]) # {}
    /\ LET after == Fold(c, {[key |-> k, seq |-> rows[k].seq, live |-> Live(k)]
                                : k \in Page(cursor[c])})
       IN  /\ cursor' = [cursor EXCEPT ![c] = after.cursor]
           /\ copy' = [copy EXCEPT ![c] = after.copy]
    /\ UNCHANGED <<coll, rows, lock, pc, wjob, out, brought>>

(* sweepRecordTombstones: an old tombstone is removed for good.            *)
Sweep(k) ==
    /\ Kept(k) /\ rows[k].deleted
    /\ rows' = [rows EXCEPT ![k] = NoRecord]
    /\ UNCHANGED <<coll, lock, pc, wjob, out, clientVars>>

(* A bound of the model: a request starts while seq and the number of      *)
(* collections leave room for it.                                          *)
RoomFor(kind) ==
    /\ coll.seq + Cardinality({w \in Writers : pc[w] # "idle"}) < MaxSeq
    /\ kind = "drop" => coll.gen < MaxGen

WriterStep(w) ==
    \/ CheckCap(w) \/ ReadRow(w) \/ ReadCollection(w) \/ Bump(w)
    \/ CommitPost(w) \/ LookUp(w) \/ CommitChange(w) \/ CommitDrop(w)
    \/ Publish(w) \/ Abort(w)

Next ==
    \/ \E w \in Writers :
          \/ \E kind \in {"post", "patch", "delete", "drop"}, key \in Keys,
                match \in 1 .. MaxSeq \cup {NoMatch} :
                RoomFor(kind) /\ Receive(w, kind, key, match)
          \/ WriterStep(w)
    \/ \E c \in Readers : Poll(c)
    \/ \E k \in Keys : Sweep(k)

Spec == Init /\ [][Next]_vars

-----------------------------------------------------------------------------
(* Commits carry ascending seqs: whatever becomes visible in a collection  *)
(* is above everything that was, so that no cursor can pass a row by.      *)
SeqOrderIsCommitOrder ==
    [][\A k \in Keys : rows'[k] # rows[k] /\ rows'[k].born # 0 =>
          \A j \in Keys : Kept(j) => rows[j].seq < rows'[k].seq]_vars

(* A reader shows every row numbered up to its cursor in its current       *)
(* state: no page, however it interleaves with writes, makes it miss one.  *)
(* Rows numbered up to the cursor that it brought from a collection since  *)
(* dropped it never asks for (core/records.ts:843, record-store.ts:83-84). *)
ReaderInSync ==
    \A c \in Readers, k \in Keys :
        Kept(k) /\ brought[c] < rows[k].seq /\ rows[k].seq <= cursor[c] =>
            copy[c][k] = (IF Live(k) THEN rows[k].seq ELSE 0)

(* A shell that stays connected shows, whenever no broadcast is pending,   *)
(* no row that is gone and none in an old state, over every drop, creation *)
(* and sweep; and a row that it does not show is one that was numbered at  *)
(* or below the cursor it brought from a collection since dropped.         *)
SubscriberExact ==
    (\A w \in Writers : pc[w] # "publish") =>
        \A c \in Subscribers, k \in Keys :
            \/ copy[c][k] = (IF Live(k) THEN rows[k].seq ELSE 0)
            \/ copy[c][k] = 0 /\ rows[k].seq <= brought[c]

(* Not a property: a delta at or below a store's cursor is a duplicate, as *)
(* record-store.ts:78-80 takes it for one. The rows of a collection that   *)
(* is dropped and created again count from 1, and are passed over too.     *)
SurvivesRecreation ==
    (\A w \in Writers : pc[w] # "publish") =>
        \A c \in Subscribers, k \in Keys :
            copy[c][k] = (IF Live(k) THEN rows[k].seq ELSE 0)

(* A PATCH or DELETE with if_match that commits replaces the version it    *)
(* names, and no other.                                                    *)
IfMatchHonoured ==
    [][\A w \in Writers :
          /\ pc[w] = "locked" /\ pc'[w] = "publish"
          /\ wjob[w].match # NoMatch
          => rows[wjob[w].key].version = wjob[w].match]_vars

(* The shells that fold broadcasts in, over well-formed rows.              *)
SubscribersInv == TypeOK /\ SubscriberExact
=============================================================================
