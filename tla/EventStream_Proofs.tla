------------------------- MODULE EventStream_Proofs -------------------------
(***************************************************************************)
(* Proofs about the event log and its stream, for any number of clients,   *)
(* sessions, writers, identities, keys and replicas, with the in-process   *)
(* bus or Redis, on either database: what the write pipeline keeps, how    *)
(* far its soft cap can be overshot, that a session is never sent an event *)
(* twice, that it went live with all its replay owed it (on SQLite), and   *)
(* that the stream implements the abstract feed.  All but the first two    *)
(* rest on the log's invariant, which every step of the stream preserves.  *)
(***************************************************************************)
EXTENDS EventStream, TLAPS, WellFoundedInduction, FiniteSetTheorems

-----------------------------------------------------------------------------
(***************************************************************************)
(* The write pipeline: an append holds an id of its own from the sequence, *)
(* and from its commit to its broadcast its row is in the log.             *)
(***************************************************************************)
InFlight == {"inserting", "reread", "publish"}

(* What an append holds while it runs: a writer's identity, an id taken    *)
(* from the sequence that no committed row and no other INSERT has, and,   *)
(* from the commit to the broadcast, its row in the log.                   *)
AppendInv ==
    /\ \A w \in Writers : pc[w] # "idle" => req[w].author \in Authors
    /\ \A a \in Actors : pc[a] \in InFlight => rowId[a] \in Ids /\ rowId[a] < nextId
    /\ \A a, b \in Actors :
          pc[a] = "inserting" /\ pc[b] = "inserting" /\ a # b => rowId[a] # rowId[b]
    /\ \A a, b \in Actors :
          pc[a] = "publish" /\ pc[b] = "publish" /\ a # b => rowId[a] # rowId[b]
    /\ \A a \in Actors : pc[a] = "publish" =>
          NewRow(a) \in committed /\ published[rowId[a]] = 0

(* The log: its ids come from the sequence, none of them is in an INSERT   *)
(* that still runs, and one idempotency key has one row.                   *)
RowsInv ==
    /\ \A e \in committed : e.id < nextId
    /\ \A e \in committed : \A a \in Actors : pc[a] = "inserting" => e.id # rowId[a]
    /\ \A e, f \in committed :
          e.key # NoKey /\ e.key = f.key /\ e.author = f.author => e = f

LogInv == LogTypeOK /\ AppendInv /\ RowsInv /\ AcksAreDurable /\ PublishedOnce

-----------------------------------------------------------------------------
(* The invariant holds initially.                                          *)
LEMMA LogInvInit == LogInit => LogInv
<1>1. 1 \in 1 .. MaxId + 1
  BY LogAssumption
<1>2. LogInit => LogTypeOK
  BY <1>1 DEF LogInit, LogTypeOK, Stages, SystemEvent, Request
<1>3. LogInit => AppendInv /\ RowsInv
  BY DEF LogInit, AppendInv, RowsInv, InFlight, Actors
<1>4. LogInit => AcksAreDurable /\ PublishedOnce
  BY DEF LogInit, AcksAreDurable, PublishedOnce
<1> QED BY <1>2, <1>3, <1>4 DEF LogInv

(* Finishing an append keeps what the type invariant and AppendInv say of  *)
(* the actors: it only forgets.                                            *)
LEMMA FinishTypes ==
  ASSUME LogTypeOK, NEW a \in Actors, Finish(a)
  PROVE  /\ pc' \in [Actors -> Stages]
         /\ req' \in [Actors -> Request]
         /\ rowId' \in [Actors -> Ids \cup {0}]
         /\ pc'[a] = "idle"
         /\ \A b \in Actors : b # a => pc'[b] = pc[b] /\ req'[b] = req[b] /\ rowId'[b] = rowId[b]
  BY DEF LogTypeOK, Finish, Goto, Stages, SystemEvent, Request

(* A step that finishes one append and leaves the log alone.               *)
LEMMA FinishKeeps ==
  ASSUME LogInv, NEW a \in Actors, Finish(a),
         UNCHANGED <<pane, committed, nextId, published, acks>>
  PROVE  LogInv'
<1> USE DEF LogInv
<1>0. pc'[a] = "idle"
      /\ \A b \in Actors : b # a => pc'[b] = pc[b] /\ req'[b] = req[b] /\ rowId'[b] = rowId[b]
  BY FinishTypes
<1>1. LogTypeOK'
  BY FinishTypes DEF LogTypeOK
<1>2. AppendInv'
  BY <1>0 DEF AppendInv, InFlight, NewRow, Actors
<1>3. RowsInv'
  BY <1>0 DEF RowsInv
<1>4. AcksAreDurable' /\ PublishedOnce'
  BY DEF AcksAreDurable, PublishedOnce
<1> QED BY <1>1, <1>2, <1>3, <1>4
-----------------------------------------------------------------------------
(* One lemma per action.                                                   *)
LEMMA ReceiveKeeps ==
  ASSUME LogInv, NEW w \in Writers, Receive(w)
  PROVE  LogInv'
<1> USE DEF LogInv
<1>0. PICK author \in Authors, key \in Keys \cup {NoKey} :
         req' = [req EXCEPT ![w] = [author |-> author, key |-> key]]
  BY DEF Receive
<1>1. w \in Actors /\ pc' = [pc EXCEPT ![w] = "count"]
      /\ UNCHANGED <<pane, committed, nextId, rowId, published, acks>>
  BY DEF Receive, Goto, Actors
<1>2. LogTypeOK'
  BY <1>0, <1>1 DEF LogTypeOK, Stages, Request
<1>3. AppendInv'
  BY <1>0, <1>1 DEF AppendInv, InFlight, NewRow, LogTypeOK, Actors
<1>4. RowsInv'
  BY <1>1 DEF RowsInv, LogTypeOK
<1>5. AcksAreDurable' /\ PublishedOnce'
  BY <1>1 DEF AcksAreDurable, PublishedOnce
<1> QED BY <1>2, <1>3, <1>4, <1>5

(* Moving an actor between two stages that hold no id.                     *)
LEMMA StageKeeps ==
  ASSUME LogInv, NEW a \in Actors, NEW stage \in {"insert", "reread"},
         pc[a] # "idle",
         stage = "reread" => pc[a] = "inserting",
         Goto(a, stage),
         UNCHANGED <<pane, committed, nextId, req, rowId, published, acks>>
  PROVE  LogInv'
<1> USE DEF LogInv
<1>1. LogTypeOK'
  BY DEF LogTypeOK, Stages, Goto
<1>2. AppendInv'
  BY DEF AppendInv, InFlight, NewRow, LogTypeOK, Goto, Actors
<1>3. RowsInv'
  BY DEF RowsInv, LogTypeOK, Goto
<1>4. AcksAreDurable' /\ PublishedOnce'
  BY DEF AcksAreDurable, PublishedOnce
<1> QED BY <1>1, <1>2, <1>3, <1>4

LEMMA BeginInsertKeeps ==
  ASSUME LogInv, NEW a \in Actors, BeginInsert(a)
  PROVE  LogInv'
<1> USE DEF LogInv
<1>0. /\ pc[a] = "insert" /\ pc' = [pc EXCEPT ![a] = "inserting"]
      /\ rowId' = [rowId EXCEPT ![a] = nextId] /\ nextId' = nextId + 1
      /\ nextId \in Ids
      /\ UNCHANGED <<pane, committed, req, published, acks>>
  BY LogAssumption DEF BeginInsert, Goto, LogTypeOK, Ids
<1>1. LogTypeOK'
  BY <1>0, LogAssumption DEF LogTypeOK, Stages, Ids
<1>2. AppendInv'
  BY <1>0, LogAssumption DEF AppendInv, InFlight, NewRow, LogTypeOK, Actors, Ids
<1>3. RowsInv'
  <2>1. \A e \in committed : e.id \in Nat /\ e.id < nextId
    BY DEF LogTypeOK, RowsInv, Event, Ids
  <2> QED BY <1>0, <2>1 DEF RowsInv, LogTypeOK, Ids
<1>4. AcksAreDurable' /\ PublishedOnce'
  BY <1>0 DEF AcksAreDurable, PublishedOnce
<1> QED BY <1>1, <1>2, <1>3, <1>4

(* The commit: the index guarantees one row per key, the sequence that no  *)
(* row has this id yet.                                                    *)
LEMMA PersistKeeps ==
  ASSUME LogInv, NEW a \in Actors, Persist(a)
  PROVE  LogInv'
<1> USE DEF LogInv
<1> DEFINE row == NewRow(a)
<1>0. /\ pc[a] = "inserting" /\ pc' = [pc EXCEPT ![a] = "publish"]
      /\ committed' = committed \cup {row}
      /\ UNCHANGED <<pane, nextId, req, rowId, published, acks>>
  BY DEF Persist, Goto
<1>1. row \in Event /\ row.id = rowId[a] /\ row.author = req[a].author /\ row.key = req[a].key
  BY <1>0 DEF NewRow, Event, LogTypeOK, AppendInv, InFlight, Request
<1>2. published[rowId[a]] = 0
  BY <1>0 DEF PublishedOnce, RowsInv, AppendInv, InFlight, LogTypeOK
<1>3. LogTypeOK'
  BY <1>0, <1>1 DEF LogTypeOK, Stages
<1>4. AppendInv'
  <2>1. \A b \in Actors : NewRow(b)' = NewRow(b)
    BY <1>0 DEF NewRow
  <2>2. \A b \in Actors : pc[b] = "publish" => rowId[b] # rowId[a]
    <3> SUFFICES ASSUME NEW b \in Actors, pc[b] = "publish" PROVE rowId[b] # rowId[a]
      OBVIOUS
    <3>1. NewRow(b) \in committed /\ NewRow(b).id = rowId[b]
      BY DEF AppendInv, NewRow
    <3> QED BY <3>1, <1>0 DEF RowsInv
  <2> QED BY <1>0, <1>2, <2>1, <2>2 DEF AppendInv, InFlight, LogTypeOK, Actors
<1>5. RowsInv'
  <2>1. row.id < nextId
    BY <1>0, <1>1 DEF AppendInv, InFlight
  <2>2. \A b \in Actors : pc'[b] = "inserting" => row.id # rowId[b]
    BY <1>0, <1>1 DEF AppendInv, LogTypeOK
  <2>3. \A e \in committed : ~(row.key # NoKey /\ e.key = row.key /\ e.author = row.author)
    BY <1>1 DEF Persist, SameKey, Table
  <2> QED BY <1>0, <2>1, <2>2, <2>3 DEF RowsInv, LogTypeOK
<1>6. AcksAreDurable' /\ PublishedOnce'
  BY <1>0 DEF AcksAreDurable, PublishedOnce
<1> QED BY <1>3, <1>4, <1>5, <1>6

LEMMA ReReadKeeps ==
  ASSUME LogInv, NEW w \in Writers, ReRead(w)
  PROVE  LogInv'
<1>0. w \in Actors /\ pc[w] = "reread" /\ Finish(w)
      /\ UNCHANGED <<pane, committed, nextId, published>>
  BY DEF ReRead, Actors
<1>1. CASE UNCHANGED acks
  BY <1>0, <1>1, FinishKeeps
<1>2. ASSUME NEW e \in SameKey(req[w]),
             acks' = acks \cup {[author |-> e.author, key |-> e.key,
                                 id |-> e.id, deduped |-> TRUE]}
      PROVE  LogInv'
  <2> DEFINE ack == [author |-> e.author, key |-> e.key, id |-> e.id, deduped |-> TRUE]
  <2>1. e \in committed /\ e.author = req[w].author
    BY DEF SameKey, Table
  <2>2. e \in Event /\ req[w].author \in Authors
    BY <1>0, <2>1 DEF LogInv, LogTypeOK, AppendInv
  <2>3. ack \in Ack
    BY <2>1, <2>2 DEF Ack, Event
  <2>4. [id |-> ack.id, author |-> ack.author, key |-> ack.key] = e
    BY <2>2 DEF Event
  <2>5. /\ pc'[w] = "idle"
        /\ \A b \in Actors : b # w => pc'[b] = pc[b] /\ req'[b] = req[b] /\ rowId'[b] = rowId[b]
    BY <1>0, FinishTypes DEF LogInv
  <2>6. LogTypeOK'
    BY <1>0, <1>2, <2>3, FinishTypes DEF LogInv, LogTypeOK
  <2>7. AppendInv'
    BY <1>0, <2>5 DEF LogInv, AppendInv, InFlight, NewRow, Actors
  <2>8. RowsInv'
    BY <1>0, <2>5 DEF LogInv, RowsInv
  <2>9. AcksAreDurable'
    BY <1>0, <1>2, <2>1, <2>4 DEF LogInv, AcksAreDurable
  <2>10. PublishedOnce'
    BY <1>0 DEF LogInv, PublishedOnce
  <2> QED BY <2>6, <2>7, <2>8, <2>9, <2>10 DEF LogInv
<1> QED BY <1>1, <1>2 DEF ReRead

(* The broadcast: the row is in the log, was never broadcast before, and   *)
(* no other append is about to broadcast it.                               *)
LEMMA PublishKeeps ==
  ASSUME LogInv, NEW a \in Actors, Publish(a)
  PROVE  LogInv'
<1> DEFINE ack == [author |-> req[a].author, key |-> req[a].key,
                   id |-> rowId[a], deduped |-> FALSE]
<1>0. /\ pc[a] = "publish" /\ Finish(a)
      /\ published' = [published EXCEPT ![rowId[a]] = @ + 1]
      /\ UNCHANGED <<pane, committed, nextId>>
  BY DEF Publish
<1>1. rowId[a] \in Ids /\ published[rowId[a]] = 0 /\ NewRow(a) \in committed
  BY <1>0 DEF LogInv, AppendInv, InFlight
<1>2. /\ pc'[a] = "idle"
      /\ \A b \in Actors : b # a => pc'[b] = pc[b] /\ req'[b] = req[b] /\ rowId'[b] = rowId[b]
  BY <1>0, FinishTypes DEF LogInv
<1>3. acks' \subseteq Ack
  <2>1. CASE a \in Writers
    <3>1. ack \in Ack
      BY <1>0, <1>1, <2>1 DEF LogInv, AppendInv, Ack, LogTypeOK, Request
    <3> QED BY <2>1, <3>1 DEF Publish, LogInv, LogTypeOK
  <2>2. CASE a \notin Writers
    BY <2>2 DEF Publish, LogInv, LogTypeOK
  <2> QED BY <2>1, <2>2
<1>4. LogTypeOK'
  BY <1>0, <1>1, <1>3, FinishTypes DEF LogInv, LogTypeOK
<1>5. AppendInv'
  <2>1. \A b \in Actors : pc'[b] = "publish" => published'[rowId[b]] = 0
    BY <1>0, <1>1, <1>2 DEF LogInv, AppendInv, LogTypeOK
  <2> QED BY <1>0, <1>2, <2>1 DEF LogInv, AppendInv, InFlight, NewRow, Actors
<1>6. RowsInv'
  BY <1>0, <1>2 DEF LogInv, RowsInv
<1>7. AcksAreDurable'
  <2>1. [id |-> ack.id, author |-> ack.author, key |-> ack.key] \in committed
    BY <1>1 DEF NewRow
  <2> QED BY <1>0, <2>1 DEF Publish, LogInv, AcksAreDurable
<1>8. PublishedOnce'
  <2>1. \E e \in committed : e.id = rowId[a]
    BY <1>1 DEF NewRow
  <2> QED BY <1>0, <1>1, <2>1 DEF LogInv, PublishedOnce, LogTypeOK
<1> QED BY <1>4, <1>5, <1>6, <1>7, <1>8 DEF LogInv

(* A failure or a crash forgets the appends it hits and nothing else.      *)
LEMMA AbortKeeps ==
  ASSUME LogInv, NEW A \in SUBSET Actors, Abort(A)
  PROVE  LogInv'
<1>0. /\ \A a \in Actors : pc'[a] = "idle" \/ (pc'[a] = pc[a] /\ req'[a] = req[a] /\ rowId'[a] = rowId[a])
      /\ UNCHANGED <<pane, committed, nextId, published, acks>>
  BY DEF Abort
<1>1. LogTypeOK'
  BY DEF LogInv, Abort, LogTypeOK, Stages, SystemEvent, Request
<1>2. AppendInv'
  BY <1>0 DEF LogInv, AppendInv, InFlight, NewRow, Actors
<1>3. RowsInv'
  BY <1>0 DEF LogInv, RowsInv
<1>4. AcksAreDurable' /\ PublishedOnce'
  BY <1>0 DEF LogInv, AcksAreDurable, PublishedOnce
<1> QED BY <1>1, <1>2, <1>3, <1>4 DEF LogInv

LEMMA BeginSystemEventKeeps ==
  ASSUME LogInv, NEW s \in Sessions, BeginSystemEvent(s)
  PROVE  LogInv'
<1>0. s \in Actors /\ s \notin Writers /\ pc' = [pc EXCEPT ![s] = "insert"]
      /\ UNCHANGED <<pane, committed, nextId, req, rowId, published, acks>>
  BY LogAssumption DEF BeginSystemEvent, Goto, Actors
<1>1. LogTypeOK'
  BY <1>0 DEF LogInv, LogTypeOK, Stages
<1>2. AppendInv'
  BY <1>0 DEF LogInv, AppendInv, InFlight, NewRow, LogTypeOK, Actors
<1>3. RowsInv'
  BY <1>0 DEF LogInv, RowsInv, LogTypeOK
<1>4. AcksAreDurable' /\ PublishedOnce'
  BY <1>0 DEF LogInv, AcksAreDurable, PublishedOnce
<1> QED BY <1>1, <1>2, <1>3, <1>4 DEF LogInv

(* The rest of the relay only touches the pane row.                        *)
LEMMA PaneStepKeeps ==
  ASSUME LogInv, PaneStep
  PROVE  LogInv'
<1>1. LogTypeOK'
  BY DEF LogInv, LogTypeOK, PaneStep, Shut, MoveToTrash, Restore, Purge
<1>2. AppendInv' /\ RowsInv' /\ AcksAreDurable' /\ PublishedOnce'
  BY DEF LogInv, PaneStep, AppendInv, RowsInv, AcksAreDurable, PublishedOnce, NewRow
<1> QED BY <1>1, <1>2 DEF LogInv

-----------------------------------------------------------------------------
(* Every step of the pipeline keeps the invariant.                         *)
LEMMA LogInvStep == LogInv /\ [LogNext]_logVars => LogInv'
<1> SUFFICES ASSUME LogInv, [LogNext]_logVars PROVE LogInv'
  OBVIOUS
<1>1. ASSUME NEW w \in Writers, WriterStep(w) PROVE LogInv'
  <2>1. CASE Receive(w)
    BY <2>1, ReceiveKeeps
  <2>2. CASE CheckCap(w)
    <3>1. w \in Actors /\ pc[w] = "count"
          /\ UNCHANGED <<pane, committed, nextId, published, acks>>
      BY <2>2 DEF CheckCap, Actors
    <3>2. CASE Finish(w)
      BY <3>1, <3>2, FinishKeeps
    <3>3. CASE Goto(w, "insert") /\ UNCHANGED <<req, rowId>>
      BY <3>1, <3>3, StageKeeps
    <3> QED BY <2>2, <3>2, <3>3 DEF CheckCap
  <2>3. CASE ReRead(w)
    BY <2>3, ReReadKeeps
  <2> QED BY <1>1, <2>1, <2>2, <2>3 DEF WriterStep
<1>2. ASSUME NEW s \in Sessions, BeginSystemEvent(s) PROVE LogInv'
  BY <1>2, BeginSystemEventKeeps
<1>3. ASSUME NEW a \in Actors, InsertStep(a) \/ Publish(a) PROVE LogInv'
  <2>1. CASE BeginInsert(a)
    BY <2>1, BeginInsertKeeps
  <2>2. CASE Persist(a)
    BY <2>2, PersistKeeps
  <2>3. CASE Collide(a)
    BY <2>3, StageKeeps DEF Collide
  <2>4. CASE LosePane(a)
    BY <2>4, FinishKeeps DEF LosePane
  <2>5. CASE Publish(a)
    BY <2>5, PublishKeeps
  <2> QED BY <1>3, <2>1, <2>2, <2>3, <2>4, <2>5 DEF InsertStep
<1>4. ASSUME NEW A \in SUBSET Actors, Abort(A) PROVE LogInv'
  BY <1>4, AbortKeeps
<1>5. CASE PaneStep
  BY <1>5, PaneStepKeeps
<1>6. CASE UNCHANGED logVars
  BY <1>6 DEF logVars, LogInv, LogTypeOK, AppendInv, RowsInv, AcksAreDurable,
              PublishedOnce, NewRow
<1> QED BY <1>1, <1>2, <1>3, <1>4, <1>5, <1>6 DEF LogNext

(* The inductive invariant of the write pipeline.                          *)
THEOREM LogInvariant == LogSpec => []LogInv
BY LogInvInit, LogInvStep, PTL DEF LogSpec

(* The variables of the pipeline keep their types.                         *)
THEOREM LogTypeCorrect == LogSpec => []LogTypeOK
<1>1. LogInv => LogTypeOK
  BY DEF LogInv
<1> QED BY <1>1, LogInvariant, PTL

(* Acknowledgements name rows that were committed before they left.        *)
THEOREM AcksDurable == LogSpec => []AcksAreDurable
<1>1. LogInv => AcksAreDurable
  BY DEF LogInv
<1> QED BY <1>1, LogInvariant, PTL

(* Every row is broadcast at most once, and never before its commit.       *)
THEOREM BroadcastOnce == LogSpec => []PublishedOnce
<1>1. LogInv => PublishedOnce
  BY DEF LogInv
<1> QED BY <1>1, LogInvariant, PTL

(* All retries of one idempotency key are answered with one event id: the  *)
(* acknowledgements name rows, and one key has one row.                    *)
THEOREM RetriesGetOneAnswer == LogSpec => []RetriesAgree
<1>1. LogInv => RetriesAgree
  <2> SUFFICES ASSUME LogInv, NEW x \in acks, NEW y \in acks,
                      x.key # NoKey, x.key = y.key, x.author = y.author
               PROVE  x.id = y.id
    BY DEF RetriesAgree
  <2>1. /\ [id |-> x.id, author |-> x.author, key |-> x.key] \in committed
        /\ [id |-> y.id, author |-> y.author, key |-> y.key] \in committed
    BY DEF LogInv, AcksAreDurable
  <2> QED BY <2>1 DEF LogInv, RowsInv
<1> QED BY <1>1, LogInvariant, PTL

(* What retries may rely on, together.                                     *)
THEOREM WritesSound == LogSpec => []WritesAreSound
BY LogTypeCorrect, RetriesGetOneAnswer, AcksDurable, BroadcastOnce, PTL DEF WritesAreSound

-----------------------------------------------------------------------------
(***************************************************************************)
(* The soft cap.                                                           *)
(***************************************************************************)
UserRows == {e \in committed : e.author # System}
Admitted == {w \in Writers : pc[w] \in {"insert", "inserting"}}

(* Whoever passed the count while the pane was there found less than the   *)
(* cap, and at most every writer is past it; sessions append system events *)
(* only, and once the pane is purged nothing is appended any more.         *)
CapInv ==
    /\ IsFiniteSet(committed)
    /\ \A s \in Sessions : req[s] = SystemEvent
    /\ Cardinality(UserRows) <= MaxEventsPerPane - 1 + Cardinality(Writers)
    /\ ~pane.purged => Cardinality(UserRows) + Cardinality(Admitted)
                         <= MaxEventsPerPane - 1 + Cardinality(Writers)

LEMMA CapInvInit ==
  ASSUME MaxEventsPerPane > 0, LogInit
  PROVE  CapInv
<1>1. IsFiniteSet(Writers)
  BY LogAssumption, FS_Subset
<1>2. Cardinality(Writers) \in Nat /\ MaxEventsPerPane - 1 \in Nat
  BY <1>1, LogAssumption, FS_CardinalityType
<1>3. UserRows = {} /\ Admitted = {}
  BY DEF LogInit, UserRows, Admitted, Actors
<1>4. IsFiniteSet(committed) /\ Cardinality(UserRows) = 0 /\ Cardinality(Admitted) = 0
  BY <1>3, FS_EmptySet DEF LogInit
<1>5. \A s \in Sessions : req[s] = SystemEvent
  BY DEF LogInit, Actors
<1> QED BY <1>2, <1>4, <1>5 DEF CapInv

(* A step that adds no row and admits nobody keeps it.                     *)
LEMMA CapKept ==
  ASSUME CapInv, committed' = committed, Admitted' \subseteq Admitted,
         pane.purged => pane'.purged, \A s \in Sessions : req'[s] = SystemEvent
  PROVE  CapInv'
<1>1. IsFiniteSet(Writers) /\ IsFiniteSet(UserRows)
  BY LogAssumption, FS_Subset DEF CapInv, UserRows
<1>2. IsFiniteSet(Admitted)
  BY <1>1, FS_Subset DEF Admitted
<1>3. Cardinality(Admitted') <= Cardinality(Admitted)
      /\ Cardinality(Admitted) \in Nat /\ Cardinality(Admitted') \in Nat
  BY <1>2, FS_Subset, FS_CardinalityType
<1>4. UserRows' = UserRows
  BY DEF UserRows
<1>5. Cardinality(Writers) \in Nat /\ Cardinality(UserRows) \in Nat /\ MaxEventsPerPane \in Nat
  BY <1>1, FS_CardinalityType, LogAssumption
<1>6. SystemEvent' = SystemEvent
  BY DEF SystemEvent
<1> QED BY <1>3, <1>4, <1>5, <1>6 DEF CapInv

LEMMA CapCheck ==
  ASSUME MaxEventsPerPane > 0, CapInv, LogInv, NEW w \in Writers, CheckCap(w)
  PROVE  CapInv'
<1>0. w \in Actors /\ w \notin Sessions /\ UNCHANGED <<pane, committed>>
  BY LogAssumption DEF CheckCap, Actors
<1>1. CASE Finish(w)
  <2>1. Admitted' \subseteq Admitted
    BY <1>1 DEF Finish, Goto, Admitted, LogInv, LogTypeOK, Actors
  <2>2. \A s \in Sessions : req'[s] = SystemEvent
    BY <1>0, <1>1 DEF Finish, CapInv, LogInv, LogTypeOK, Actors
  <2> QED BY <1>0, <2>1, <2>2, CapKept
<1>2. CASE BelowCap /\ UNCHANGED req
  <2>1. IsFiniteSet(Writers) /\ IsFiniteSet(UserRows)
    BY LogAssumption, FS_Subset DEF CapInv, UserRows
  <2>2. Cardinality(Admitted') <= Cardinality(Writers) /\ Cardinality(Admitted') \in Nat
        /\ Cardinality(Writers) \in Nat
    BY <2>1, FS_Subset, FS_CardinalityType DEF Admitted
  <2>3. UserRows' = UserRows
    BY <1>0 DEF UserRows
  <2>4. ~pane.purged => Cardinality(UserRows) <= MaxEventsPerPane - 1
    <3> SUFFICES ASSUME ~pane.purged PROVE Cardinality(UserRows) <= MaxEventsPerPane - 1
      OBVIOUS
    <3>1. Cardinality(committed) < MaxEventsPerPane
      BY <1>2, LogAssumption DEF BelowCap, Table
    <3>2. UserRows \subseteq committed /\ IsFiniteSet(committed)
      BY DEF UserRows, CapInv
    <3>3. Cardinality(UserRows) <= Cardinality(committed)
          /\ Cardinality(UserRows) \in Nat /\ Cardinality(committed) \in Nat
      BY <3>2, FS_Subset, FS_CardinalityType
    <3> QED BY <3>1, <3>3, LogAssumption
  <2>5. Cardinality(UserRows) \in Nat
    BY <2>1, FS_CardinalityType
  <2>6. \A s \in Sessions : req'[s] = SystemEvent'
    BY <1>2 DEF CapInv, SystemEvent
  <2>7. ~pane.purged => Cardinality(UserRows) + Cardinality(Admitted')
           <= MaxEventsPerPane - 1 + Cardinality(Writers)
    BY <2>2, <2>4, <2>5, LogAssumption
  <2>8. IsFiniteSet(committed)
        /\ Cardinality(UserRows) <= MaxEventsPerPane - 1 + Cardinality(Writers)
    BY DEF CapInv
  <2> QED BY <1>0, <2>3, <2>6, <2>7, <2>8 DEF CapInv
<1> QED BY <1>1, <1>2 DEF CheckCap

LEMMA CapPersist ==
  ASSUME CapInv, LogInv, NEW a \in Actors, Persist(a)
  PROVE  CapInv'
<1>r. PICK row : row = NewRow(a)
  OBVIOUS
<1>0. /\ pc[a] = "inserting" /\ ~pane.purged /\ pc' = [pc EXCEPT ![a] = "publish"]
      /\ committed' = committed \cup {row} /\ UNCHANGED <<pane, req>>
      /\ row.author = req[a].author
  BY <1>r DEF Persist, Goto, NewRow
<1>1. IsFiniteSet(Writers) /\ IsFiniteSet(UserRows) /\ IsFiniteSet(committed')
  BY <1>0, LogAssumption, FS_Subset, FS_AddElement DEF CapInv, UserRows
<1>2. IsFiniteSet(Admitted)
  BY <1>1, FS_Subset DEF Admitted
<1>3. Cardinality(Admitted) \in Nat /\ Cardinality(UserRows) \in Nat
      /\ Cardinality(Writers) \in Nat /\ MaxEventsPerPane \in Nat
  BY <1>1, <1>2, FS_CardinalityType, LogAssumption
<1>4. /\ ~pane.purged
      /\ Cardinality(UserRows) + Cardinality(Admitted)
            <= MaxEventsPerPane - 1 + Cardinality(Writers)
  BY <1>0 DEF CapInv
<1>5. \A s \in Sessions : req'[s] = SystemEvent'
  BY <1>0 DEF CapInv, SystemEvent
<1>6. CASE a \in Writers
  <2>1. Admitted' = Admitted \ {a} /\ a \in Admitted
    BY <1>0, <1>6 DEF Admitted, LogInv, LogTypeOK, Actors
  <2>2. Cardinality(Admitted') = Cardinality(Admitted) - 1
    BY <1>2, <2>1, FS_RemoveElement
  <2>3. UserRows' \subseteq UserRows \cup {row}
    BY <1>0 DEF UserRows
  <2>4. Cardinality(UserRows \cup {row}) <= Cardinality(UserRows) + 1
        /\ IsFiniteSet(UserRows \cup {row})
    <3>1. IsFiniteSet(UserRows \cup {row})
          /\ Cardinality(UserRows \cup {row}) = IF row \in UserRows THEN Cardinality(UserRows)
                                              ELSE Cardinality(UserRows) + 1
      BY <1>1, FS_AddElement
    <3> QED BY <1>3, <3>1
  <2>5. Cardinality(UserRows') <= Cardinality(UserRows \cup {row})
    BY <2>3, <2>4, FS_Subset
  <2>6. Cardinality(UserRows') \in Nat /\ Cardinality(UserRows \cup {row}) \in Nat
        /\ Cardinality(Admitted') \in Nat
    BY <1>2, <2>1, <2>3, <2>4, FS_Subset, FS_CardinalityType, FS_RemoveElement
  <2>7. Cardinality(UserRows') + Cardinality(Admitted')
           <= MaxEventsPerPane - 1 + Cardinality(Writers)
    BY <1>3, <1>4, <2>2, <2>4, <2>5, <2>6
  <2>8. Cardinality(UserRows') <= MaxEventsPerPane - 1 + Cardinality(Writers)
    BY <1>3, <2>6, <2>7
  <2> QED BY <1>1, <1>5, <2>7, <2>8 DEF CapInv
<1>7. CASE a \in Sessions
  <2>1. row.author = System
    BY <1>0, <1>7 DEF CapInv, SystemEvent
  <2>2. UserRows' = UserRows
    BY <1>0, <2>1 DEF UserRows
  <2>3. Admitted' = Admitted
    BY <1>0, <1>7, LogAssumption DEF Admitted, LogInv, LogTypeOK, Actors
  <2>4. Cardinality(UserRows') <= MaxEventsPerPane - 1 + Cardinality(Writers)
    BY <2>2 DEF CapInv
  <2> QED BY <1>1, <1>4, <1>5, <2>2, <2>3, <2>4 DEF CapInv
<1> QED BY <1>6, <1>7 DEF Actors

LEMMA CapInvStep ==
  ASSUME MaxEventsPerPane > 0, CapInv, LogInv, [LogNext]_logVars
  PROVE  CapInv'
<1>0. LogTypeOK /\ Writers \cap Sessions = {} /\ Writers \subseteq Actors /\ Sessions \subseteq Actors
      /\ \A s \in Sessions : req[s] = SystemEvent
  BY LogAssumption DEF LogInv, Actors, CapInv
<1>1. ASSUME NEW w \in Writers, Receive(w) PROVE CapInv'
  <2>1. Admitted' \subseteq Admitted /\ UNCHANGED <<pane, committed>>
    BY <1>0, <1>1 DEF Receive, Goto, Admitted, LogTypeOK
  <2>2. \A s \in Sessions : req'[s] = SystemEvent
    BY <1>0, <1>1 DEF Receive, LogTypeOK
  <2> QED BY <2>1, <2>2, CapKept
<1>2. ASSUME NEW a \in Actors, Finish(a), UNCHANGED <<pane, committed>> PROVE CapInv'
  <2>1. Admitted' \subseteq Admitted
    BY <1>0, <1>2 DEF Finish, Goto, Admitted, LogTypeOK
  <2>2. \A s \in Sessions : req'[s] = SystemEvent
    BY <1>0, <1>2 DEF Finish, LogTypeOK
  <2> QED BY <1>2, <2>1, <2>2, CapKept
<1>3. ASSUME NEW s \in Sessions, BeginSystemEvent(s) PROVE CapInv'
  <2>1. Admitted' \subseteq Admitted /\ UNCHANGED <<pane, committed, req>>
    BY <1>0, <1>3 DEF BeginSystemEvent, Goto, Admitted, LogTypeOK
  <2> QED BY <1>0, <2>1, CapKept
<1>4. ASSUME NEW a \in Actors, InsertStep(a) PROVE CapInv'
  <2>1. CASE BeginInsert(a)
    <3>1. Admitted' \subseteq Admitted /\ UNCHANGED <<pane, committed, req>>
      BY <1>0, <2>1 DEF BeginInsert, Goto, Admitted, LogTypeOK
    <3> QED BY <1>0, <3>1, CapKept
  <2>2. CASE Persist(a)
    BY <2>2, CapPersist
  <2>3. CASE Collide(a)
    <3>1. Admitted' \subseteq Admitted /\ UNCHANGED <<pane, committed, req>>
      BY <1>0, <2>3 DEF Collide, Goto, Admitted, LogTypeOK
    <3> QED BY <1>0, <3>1, CapKept
  <2>4. CASE LosePane(a)
    BY <1>2, <2>4 DEF LosePane
  <2> QED BY <1>4, <2>1, <2>2, <2>3, <2>4 DEF InsertStep
<1>5. ASSUME NEW A \in SUBSET Actors, Abort(A) PROVE CapInv'
  <2>1. Admitted' \subseteq Admitted /\ UNCHANGED <<pane, committed>>
    BY <1>0, <1>5 DEF Abort, Admitted
  <2>2. \A s \in Sessions : req'[s] = SystemEvent
    BY <1>0, <1>5 DEF Abort
  <2> QED BY <2>1, <2>2, CapKept
<1>6. CASE PaneStep
  <2>1. Admitted' \subseteq Admitted /\ UNCHANGED <<committed, req>>
    BY <1>6 DEF PaneStep, Admitted
  <2>2. pane.purged => pane'.purged
    BY <1>0, <1>6 DEF PaneStep, Shut, MoveToTrash, Restore, Purge, LogTypeOK
  <2> QED BY <1>0, <2>1, <2>2, CapKept
<1>7. CASE UNCHANGED logVars
  <2>1. Admitted' \subseteq Admitted /\ UNCHANGED <<pane, committed, req>>
    BY <1>7 DEF logVars, Admitted
  <2> QED BY <1>0, <2>1, CapKept
<1>8. ASSUME NEW w \in Writers, ReRead(w) PROVE CapInv'
  BY <1>0, <1>2, <1>8 DEF ReRead
<1>9. ASSUME NEW a \in Actors, Publish(a) PROVE CapInv'
  BY <1>2, <1>9 DEF Publish
<1> QED BY <1>1, <1>3, <1>4, <1>5, <1>6, <1>7, <1>8, <1>9, CapCheck DEF LogNext, WriterStep

(* The cap is soft by less than the number of writes in flight, whatever   *)
(* the interleaving of counts and inserts.                                 *)
THEOREM OvershootIsBounded == LogSpec => []OvershootBounded
<1>1. CASE MaxEventsPerPane > 0
  <2>1. LogInit => CapInv
    BY <1>1, CapInvInit
  <2>2. CapInv /\ LogInv /\ [LogNext]_logVars => CapInv'
    BY <1>1, CapInvStep
  <2>3. CapInv => OvershootBounded
    BY DEF CapInv, OvershootBounded, UserRows
  <2> QED BY <2>1, <2>2, <2>3, LogInvariant, PTL DEF LogSpec
<1>2. CASE ~(MaxEventsPerPane > 0)
  <2>1. OvershootBounded
    BY <1>2 DEF OvershootBounded
  <2> QED BY <2>1, PTL
<1> QED BY <1>1, <1>2

-----------------------------------------------------------------------------
(***************************************************************************)
(* The stream: what a session was sent comes from the log and not twice.   *)
(***************************************************************************)
(* What has been sent on a session came from the log: nothing before the   *)
(* replay, and no event twice.                                             *)
SentInv ==
    /\ \A s \in Sessions, i \in Ids : sends[s][i] <= 1
    /\ \A s \in Sessions, i \in Ids :
          phase[s] \in {"none", "upgraded", "joining"} => sends[s][i] = 0
    /\ \A s \in Sessions, i \in Ids :
          sends[s][i] = 1 => \E e \in committed : e.id = i

(* Why the replay and the bus do not overlap: above lastReplayId, what a   *)
(* live session was sent has been published, and no copy of it is still on *)
(* its way to the session's replica.                                       *)
SourceInv ==
    /\ \A s \in Sessions, i \in Ids :
          phase[s] = "replayed" /\ sends[s][i] = 1 => i <= lastReplay[s]
    /\ \A s \in Sessions, i \in Ids :
          phase[s] = "live" /\ sends[s][i] = 1 /\ i > lastReplay[s] =>
             published[i] = 1 /\ <<HostOf[s], i>> \notin pending
    /\ \A r \in Replicas, i \in Ids : <<r, i>> \in pending => published[i] = 1

StreamInv == TypeOK /\ LogInv /\ SentInv /\ SourceInv

-----------------------------------------------------------------------------
(* A nonempty set of ids has a greatest one, and that is what Max finds.   *)
LEMMA MaxExists ==
  ASSUME NEW S \in SUBSET Ids, S # {}
  PROVE  Max(S) \in S /\ \A y \in S : y <= Max(S)
<1> DEFINE T == {MaxId - x : x \in S}
<1>1. \A x \in S : x \in Int /\ MaxId - x \in Nat
  BY LogAssumption DEF Ids
<1>2. PICK x0 \in S : TRUE
  OBVIOUS
<1>3. T \subseteq Nat /\ MaxId - x0 \in T
  BY <1>1, <1>2
<1>4. \E m \in T : \A t \in T : ~ (<<t, m>> \in OpToRel(<, Nat))
  <2> HIDE DEF T
  <2> QED BY <1>3, NatLessThanWellFounded, WFMin
<1>5. PICK m \in T : \A t \in T : ~ (<<t, m>> \in OpToRel(<, Nat))
  BY <1>4
<1>6. m \in Nat /\ \A t \in T : t \in Nat /\ m <= t
  <2> HIDE DEF T
  <2>1. m \in Nat /\ \A t \in T : t \in Nat
    BY <1>3
  <2>2. \A t \in T : ~ (t < m)
    BY <1>5, <2>1 DEF OpToRel
  <2> QED BY <2>1, <2>2
<1>7. PICK x \in S : m = MaxId - x
  OBVIOUS
<1>8. \A y \in S : x >= y
  BY <1>1, <1>6, <1>7, LogAssumption
<1> QED BY <1>1, <1>8 DEF Max

(* What Send does to the counters.                                         *)
LEMMA SendFacts ==
  ASSUME TypeOK, NEW B \in [Sessions -> SUBSET Ids], Send(B)
  PROVE  /\ sends' \in [Sessions -> [Ids -> Nat]]
         /\ received' \in [Clients -> SUBSET Ids]
         /\ \A s \in Sessions, i \in Ids :
               sends'[s][i] = IF HasSocket(s) /\ i \in B[s]
                              THEN sends[s][i] + 1 ELSE sends[s][i]
<1> DEFINE Sent(s) == IF HasSocket(s) THEN B[s] ELSE {}
           Row(s) == [i \in Ids |-> IF i \in Sent(s) THEN sends[s][i] + 1 ELSE sends[s][i]]
           Seen(c) == received[c] \cup
              UNION {B[s] : s \in {t \in Sessions : ClientOf[t] = c /\ sock[t] = "open"}}
<1>1. sends' = [s \in Sessions |-> Row(s)] /\ received' = [c \in Clients |-> Seen(c)]
  BY DEF Send
<1>2. \A s \in Sessions : Row(s) \in [Ids -> Nat]
  BY DEF TypeOK
<1>3. \A c \in Clients : Seen(c) \in SUBSET Ids
  BY DEF TypeOK
<1>4. sends' \in [Sessions -> [Ids -> Nat]]
  <2> HIDE DEF Row
  <2> QED BY <1>1, <1>2
<1>5. received' \in [Clients -> SUBSET Ids]
  <2> HIDE DEF Seen
  <2> QED BY <1>1, <1>3
<1>6. \A s \in Sessions, i \in Ids :
         sends'[s][i] = IF HasSocket(s) /\ i \in B[s] THEN sends[s][i] + 1 ELSE sends[s][i]
  BY <1>1
<1> QED BY <1>4, <1>5, <1>6

(* What an emit sends: one id, to live sessions that the replay left it to.*)
LEMMA EmitFacts ==
  ASSUME TypeOK, NEW i \in Ids, NEW R, Emit(i, R)
  PROVE  /\ sends' \in [Sessions -> [Ids -> Nat]]
         /\ received' \in [Clients -> SUBSET Ids]
         /\ \A s \in Sessions, j \in Ids :
               \/ sends'[s][j] = sends[s][j]
               \/ /\ j = i /\ phase[s] = "live" /\ HostOf[s] \in R /\ i > lastReplay[s]
                  /\ sends'[s][j] = sends[s][j] + 1
<1> DEFINE B == [s \in Sessions |->
                   IF phase[s] = "live" /\ HostOf[s] \in R /\ i > lastReplay[s]
                   THEN {i} ELSE {}]
<1>1. B \in [Sessions -> SUBSET Ids] /\ Send(B)
  BY DEF Emit
<1>2. \A s \in Sessions, j \in Ids :
         j \in B[s] => j = i /\ phase[s] = "live" /\ HostOf[s] \in R /\ i > lastReplay[s]
  OBVIOUS
<1> HIDE DEF B
<1> QED BY <1>1, <1>2, SendFacts

(* What a replay sends and remembers: rows of the table, none of them      *)
(* above the new lastReplayId.                                             *)
LEMMA ReplayFacts ==
  ASSUME TypeOK, NEW s \in Sessions, Replay(s)
  PROVE  /\ sends' \in [Sessions -> [Ids -> Nat]]
         /\ received' \in [Clients -> SUBSET Ids]
         /\ lastReplay' \in [Sessions -> Ids \cup {0}]
         /\ \A t \in Sessions : t # s => lastReplay'[t] = lastReplay[t]
         /\ \A t \in Sessions, i \in Ids :
               \/ sends'[t][i] = sends[t][i]
               \/ /\ t = s /\ i <= lastReplay'[s] /\ \E e \in committed : e.id = i
                  /\ sends'[t][i] = sends[t][i] + 1
<1> DEFINE batch == {e.id : e \in {f \in Table : f.id > since[s]}}
           B == [t \in Sessions |-> IF t = s THEN batch ELSE {}]
           last == IF batch = {} THEN since[s] ELSE Max(batch)
<1>1. batch \in SUBSET Ids /\ \A i \in batch : \E e \in committed : e.id = i
  BY DEF Table, TypeOK, LogTypeOK, Event
<1>2. last \in Ids \cup {0} /\ \A i \in batch : i <= last
  <2> HIDE DEF batch
  <2>1. CASE batch = {}
    BY <2>1 DEF TypeOK
  <2>2. CASE batch # {}
    <3>1. Max(batch) \in batch /\ \A i \in batch : i <= Max(batch)
      BY <1>1, <2>2, MaxExists
    <3> QED BY <1>1, <2>2, <3>1
  <2> QED BY <2>1, <2>2
<1>3. Send(B) /\ lastReplay' = [lastReplay EXCEPT ![s] = last]
  BY DEF Replay
<1>4. B \in [Sessions -> SUBSET Ids] /\ \A t \in Sessions : B[t] = IF t = s THEN batch ELSE {}
  BY <1>1
<1> HIDE DEF batch, B, last
<1>5. lastReplay' \in [Sessions -> Ids \cup {0}] /\ lastReplay'[s] = last
      /\ \A t \in Sessions : t # s => lastReplay'[t] = lastReplay[t]
  BY <1>2, <1>3 DEF TypeOK
<1> QED BY <1>1, <1>2, <1>3, <1>4, <1>5, SendFacts

-----------------------------------------------------------------------------
(* Every step of the stream is a step of the log or leaves the log alone.  *)
LEMMA StreamStepIsLogStep ==
  ASSUME [Next]_vars
  PROVE  [LogNext]_logVars
<1>1. CASE LogStep
  BY <1>1 DEF LogStep, LogNext, Actors
<1>2. CASE \E a \in Actors : PublishAndBroadcast(a)
  BY <1>2 DEF PublishAndBroadcast, LogNext
<1>3. CASE \E s \in Sessions : SessionStep(s)
  BY <1>3 DEF SessionStep, Handshake, Upgrade, Register, Replay, Subscribe, Drop,
              CloseEvent, Deregister, LogNext
<1>4. CASE \E r \in Replicas, i \in Ids : BusDeliver(r, i) \/ BusLose(r, i)
  BY <1>4 DEF BusDeliver, BusLose
<1>5. CASE \E r \in Replicas : Crash(r)
  <2>1. PICK r \in Replicas : Crash(r)
    BY <1>5
  <2> DEFINE A == {a \in Actors : HostOf[a] = r}
  <2>2. A \in SUBSET Actors /\ (Abort(A) \/ UNCHANGED logVars)
    BY <2>1 DEF Crash
  <2> HIDE DEF A
  <2> QED BY <2>2 DEF LogNext
<1>6. CASE PresenceExpires
  BY <1>6 DEF PresenceExpires
<1>7. CASE UNCHANGED vars
  BY <1>7 DEF vars
<1> QED BY <1>1, <1>2, <1>3, <1>4, <1>5, <1>6, <1>7 DEF Next

(* The log only grows.                                                     *)
LEMMA LogGrows ==
  ASSUME [LogNext]_logVars
  PROVE  committed \subseteq committed'
<1>1. CASE UNCHANGED logVars
  BY <1>1 DEF logVars
<1>2. CASE \E w \in Writers : WriterStep(w)
  BY <1>2 DEF WriterStep, Receive, CheckCap, ReRead
<1>3. CASE \E s \in Sessions : BeginSystemEvent(s)
  BY <1>3 DEF BeginSystemEvent
<1>4. CASE \E a \in Actors : InsertStep(a) \/ Publish(a)
  BY <1>4 DEF InsertStep, BeginInsert, Persist, Collide, LosePane, Publish
<1>5. CASE \E A \in SUBSET Actors : Abort(A)
  BY <1>5 DEF Abort
<1>6. CASE PaneStep
  BY <1>6 DEF PaneStep
<1> QED BY <1>1, <1>2, <1>3, <1>4, <1>5, <1>6 DEF LogNext

(* A step that sends and publishes nothing, puts nothing on the bus and    *)
(* moves sessions only along the handshake or out of it.                   *)
Quiet ==
    /\ UNCHANGED <<published, sends, lastReplay>>
    /\ committed \subseteq committed'
    /\ pending' \subseteq pending
    /\ \A s \in Sessions :
          \/ phase'[s] = phase[s]
          \/ phase'[s] \in {"upgraded", "joining"}
             /\ phase[s] \in {"none", "upgraded", "joining"}
          \/ phase'[s] = "live" /\ phase[s] = "replayed"
          \/ phase'[s] \in {"leaving", "left", "crashed"}

LEMMA QuietKeeps ==
  ASSUME TypeOK, SentInv, SourceInv, Quiet
  PROVE  SentInv' /\ SourceInv'
<1>1. SentInv'
  BY DEF SentInv, Quiet
<1>2. SourceInv'
  <2>1. \A s \in Sessions, i \in Ids :
           phase'[s] = "replayed" /\ sends'[s][i] = 1 => i <= lastReplay'[s]
    BY DEF SourceInv, Quiet
  <2>2. \A s \in Sessions, i \in Ids :
           phase'[s] = "live" /\ sends'[s][i] = 1 /\ i > lastReplay'[s] =>
              published'[i] = 1 /\ <<HostOf[s], i>> \notin pending'
    <3> SUFFICES ASSUME NEW s \in Sessions, NEW i \in Ids, phase'[s] = "live",
                        sends[s][i] = 1, i > lastReplay[s]
                 PROVE  published[i] = 1 /\ <<HostOf[s], i>> \notin pending
      BY DEF Quiet
    <3>1. i \in Nat /\ lastReplay[s] \in Nat
      BY DEF TypeOK, Ids
    <3>2. phase[s] # "replayed"
      BY <3>1 DEF SourceInv
    <3>3. phase[s] = "live"
      BY <3>2 DEF Quiet
    <3> QED BY <3>3 DEF SourceInv, Quiet
  <2> QED BY <2>1, <2>2 DEF SourceInv, Quiet
<1> QED BY <1>1, <1>2

StreamTypeOK ==
    /\ phase \in [Sessions -> Phases]
    /\ sock \in [Sessions -> {"none", "open", "dead", "closed"}]
    /\ since \in [Sessions -> Ids \cup {0}]
    /\ lastReplay \in [Sessions -> Ids \cup {0}]
    /\ sends \in [Sessions -> [Ids -> Nat]]
    /\ received \in [Clients -> SUBSET Ids]
    /\ presence \subseteq Sessions
    /\ pending \subseteq Replicas \X Ids

(* The id a publish broadcasts: a committed row that nobody broadcast yet. *)
LEMMA PublishFacts ==
  ASSUME LogInv, NEW a \in Actors, Publish(a)
  PROVE  /\ rowId[a] \in Ids
         /\ published[rowId[a]] = 0
         /\ published' = [published EXCEPT ![rowId[a]] = 1]
         /\ \E e \in committed : e.id = rowId[a]
         /\ committed' = committed
<1>1. pc[a] = "publish"
  BY DEF Publish
<1>2. rowId[a] \in Ids /\ published[rowId[a]] = 0 /\ NewRow(a) \in committed
  BY <1>1 DEF LogInv, AppendInv, InFlight
<1>3. NewRow(a).id = rowId[a]
  BY DEF NewRow
<1> QED BY <1>2, <1>3 DEF Publish, LogInv, LogTypeOK

(* The cursor is an id or 0.                                               *)
LEMMA CursorType ==
  ASSUME TypeOK, NEW c \in Clients
  PROVE  Cursor(c) \in Ids \cup {0}
<1>1. received[c] \in SUBSET Ids
  BY DEF TypeOK
<1>2. CASE received[c] = {}
  BY <1>2 DEF Cursor
<1>3. CASE received[c] # {}
  <2>1. Max(received[c]) \in received[c]
    BY <1>1, <1>3, MaxExists
  <2> QED BY <1>1, <1>3, <2>1 DEF Cursor
<1> QED BY <1>2, <1>3

(* Every step keeps the types of the stream's variables.                   *)
LEMMA StreamTypesKept ==
  ASSUME TypeOK, LogInv, [Next]_vars
  PROVE  StreamTypeOK'
<1>0. StreamTypeOK
  BY DEF TypeOK, StreamTypeOK
<1>1. ASSUME UNCHANGED streamVars PROVE StreamTypeOK'
  BY <1>0, <1>1 DEF StreamTypeOK, streamVars
<1>2. ASSUME NEW a \in Actors, PublishAndBroadcast(a) PROVE StreamTypeOK'
  <2>1. rowId[a] \in Ids
    BY <1>2, PublishFacts DEF PublishAndBroadcast
  <2>2. UNCHANGED <<phase, sock, since, lastReplay, presence>>
    BY <1>2 DEF PublishAndBroadcast
  <2>3. CASE RedisOn
    BY <1>0, <1>2, <2>1, <2>2, <2>3 DEF PublishAndBroadcast, StreamTypeOK
  <2>4. CASE ~RedisOn
    <3>1. Emit(rowId[a], Replicas) /\ UNCHANGED pending
      BY <1>2, <2>4 DEF PublishAndBroadcast
    <3> QED BY <1>0, <2>1, <2>2, <3>1, EmitFacts DEF StreamTypeOK
  <2> QED BY <2>3, <2>4
<1>3. ASSUME NEW s \in Sessions, SessionStep(s) PROVE StreamTypeOK'
  <2>1. CASE Upgrade(s)
    <3>1. Cursor(ClientOf[s]) \in Ids \cup {0}
      BY CursorType, StreamAssumption
    <3> QED BY <1>0, <2>1, <3>1 DEF StreamTypeOK, Upgrade, Enter, Phases
  <2>2. CASE Register(s)
    BY <1>0, <2>2 DEF StreamTypeOK, Register, Enter, Phases
  <2>3. CASE Replay(s)
    <3>1. UNCHANGED <<sock, since, presence, pending>> /\ Enter(s, "replayed")
      BY <2>3 DEF Replay
    <3> QED BY <1>0, <2>3, <3>1, ReplayFacts DEF StreamTypeOK, Enter, Phases
  <2>4. CASE Subscribe(s)
    BY <1>0, <2>4 DEF StreamTypeOK, Subscribe, Enter, Phases
  <2>5. CASE Drop(s)
    BY <1>0, <2>5 DEF StreamTypeOK, Drop
  <2>6. CASE CloseEvent(s)
    BY <1>0, <2>6 DEF StreamTypeOK, CloseEvent, Enter, Phases
  <2>7. CASE Deregister(s)
    BY <1>0, <2>7 DEF StreamTypeOK, Deregister, Enter, Phases
  <2> QED BY <1>3, <2>1, <2>2, <2>3, <2>4, <2>5, <2>6, <2>7 DEF SessionStep, Handshake
<1>4. ASSUME NEW r \in Replicas, NEW i \in Ids, BusDeliver(r, i) \/ BusLose(r, i)
      PROVE  StreamTypeOK'
  <2>1. CASE BusDeliver(r, i)
    <3>1. Emit(i, {r}) /\ pending' \subseteq pending
          /\ UNCHANGED <<phase, sock, since, lastReplay, presence>>
      BY <2>1 DEF BusDeliver
    <3> QED BY <1>0, <3>1, EmitFacts DEF StreamTypeOK
  <2>2. CASE BusLose(r, i)
    BY <1>0, <2>2 DEF BusLose, StreamTypeOK
  <2> QED BY <1>4, <2>1, <2>2
<1>5. ASSUME NEW r \in Replicas, Crash(r) PROVE StreamTypeOK'
  <2> DEFINE here == {s \in Sessions : HostOf[s] = r}
  <2>1. /\ phase' = [s \in Sessions |->
              IF s \in here /\ phase[s] # "none" THEN "crashed" ELSE phase[s]]
        /\ sock' = [s \in Sessions |->
              IF s \in here /\ sock[s] # "none" THEN "closed" ELSE sock[s]]
        /\ presence' \subseteq presence /\ pending' \subseteq pending
        /\ UNCHANGED <<since, lastReplay, sends, received>>
    BY <1>5 DEF Crash
  <2> HIDE DEF here
  <2>2. phase' \in [Sessions -> Phases]
    BY <1>0, <2>1 DEF StreamTypeOK, Phases
  <2>3. sock' \in [Sessions -> {"none", "open", "dead", "closed"}]
    BY <1>0, <2>1 DEF StreamTypeOK
  <2> QED BY <1>0, <2>1, <2>2, <2>3 DEF StreamTypeOK
<1>6. CASE PresenceExpires
  BY <1>0, <1>6 DEF PresenceExpires, StreamTypeOK
<1>7. CASE LogStep
  BY <1>1, <1>7 DEF LogStep
<1>8. CASE UNCHANGED vars
  BY <1>1, <1>8 DEF vars
<1> QED BY <1>2, <1>3, <1>4, <1>5, <1>6, <1>7, <1>8 DEF Next

-----------------------------------------------------------------------------
(* The steps that send: the replay, the in-process broadcast, the bus.     *)
LEMMA ReplayKeeps ==
  ASSUME StreamInv, NEW s \in Sessions, Replay(s)
  PROVE  SentInv' /\ SourceInv'
<1>0. /\ phase[s] = "joining" /\ phase' = [phase EXCEPT ![s] = "replayed"]
      /\ UNCHANGED <<committed, published, pending>>
  BY DEF Replay, Enter, logVars
<1>1. TypeOK /\ SentInv /\ SourceInv
  BY DEF StreamInv
<1>2. /\ \A t \in Sessions : t # s => lastReplay'[t] = lastReplay[t]
      /\ \A t \in Sessions, i \in Ids :
            \/ sends'[t][i] = sends[t][i]
            \/ /\ t = s /\ i <= lastReplay'[s] /\ \E e \in committed : e.id = i
               /\ sends'[t][i] = sends[t][i] + 1
  BY <1>1, ReplayFacts
<1>3. \A i \in Ids : sends[s][i] = 0
  BY <1>0, <1>1 DEF SentInv
<1>4. phase'[s] = "replayed" /\ \A t \in Sessions : t # s => phase'[t] = phase[t]
  BY <1>0, <1>1 DEF TypeOK
<1>5. SentInv'
  BY <1>0, <1>1, <1>2, <1>3, <1>4 DEF SentInv
<1>6. SourceInv'
  BY <1>0, <1>1, <1>2, <1>3, <1>4 DEF SourceInv
<1> QED BY <1>5, <1>6

LEMMA BroadcastKeeps ==
  ASSUME StreamInv, NEW a \in Actors, PublishAndBroadcast(a)
  PROVE  SentInv' /\ SourceInv'
<1> DEFINE id == rowId[a]
<1>0. TypeOK /\ LogTypeOK /\ SentInv /\ SourceInv /\ LogInv /\ Publish(a)
  BY DEF StreamInv, TypeOK, PublishAndBroadcast
<1>1. /\ id \in Ids /\ published[id] = 0
      /\ published' = [published EXCEPT ![id] = 1]
      /\ \E e \in committed : e.id = id
      /\ committed' = committed
  BY <1>0, PublishFacts
<1>2. UNCHANGED <<phase, lastReplay>>
  BY DEF PublishAndBroadcast
<1>3. \A i \in Ids : published'[i] = IF i = id THEN 1 ELSE published[i]
  BY <1>0, <1>1 DEF LogTypeOK
<1>4. \A s \in Sessions : phase[s] = "live" /\ id > lastReplay[s] => sends[s][id] = 0
  <2> SUFFICES ASSUME NEW s \in Sessions, phase[s] = "live", id > lastReplay[s]
               PROVE  sends[s][id] = 0
    OBVIOUS
  <2>1. sends[s][id] = 1 => published[id] = 1
    <3> HIDE DEF id
    <3> QED BY <1>0, <1>1 DEF SourceInv
  <2>2. sends[s][id] \in Nat /\ sends[s][id] <= 1
    BY <1>0, <1>1 DEF SentInv, TypeOK
  <2> QED BY <1>1, <2>1, <2>2
<1>5. CASE RedisOn
  <2>1. UNCHANGED sends
        /\ \A r \in Replicas, i \in Ids : <<r, i>> \in pending' =>
              i = id \/ <<r, i>> \in pending
    BY <1>5 DEF PublishAndBroadcast
  <2>2. SentInv'
    BY <1>0, <1>1, <1>2, <2>1 DEF SentInv
  <2>3. \A s \in Sessions, i \in Ids :
          phase'[s] = "live" /\ sends'[s][i] = 1 /\ i > lastReplay'[s] =>
             published'[i] = 1 /\ <<HostOf[s], i>> \notin pending'
    <3> SUFFICES ASSUME NEW s \in Sessions, NEW i \in Ids, phase[s] = "live",
                        sends[s][i] = 1, i > lastReplay[s]
                 PROVE  published'[i] = 1 /\ <<HostOf[s], i>> \notin pending'
      BY <1>2, <2>1
    <3>1. i # id
      BY <1>4
    <3>2. published[i] = 1 /\ <<HostOf[s], i>> \notin pending
      BY <1>0 DEF SourceInv
    <3>3. HostOf[s] \in Replicas
      BY StreamAssumption DEF Actors
    <3> QED BY <1>3, <2>1, <3>1, <3>2, <3>3
  <2>4. SourceInv'
    BY <1>0, <1>2, <1>3, <2>1, <2>3 DEF SourceInv
  <2> QED BY <2>2, <2>4
<1>6. CASE ~RedisOn
  <2>1. Emit(id, Replicas) /\ UNCHANGED pending
    BY <1>6 DEF PublishAndBroadcast
  <2>2. \A s \in Sessions, j \in Ids :
           \/ sends'[s][j] = sends[s][j]
           \/ /\ j = id /\ phase[s] = "live" /\ id > lastReplay[s]
              /\ sends'[s][j] = sends[s][j] + 1
    BY <1>0, <1>1, <2>1, EmitFacts
  <2>3. SentInv'
    BY <1>0, <1>1, <1>2, <1>4, <2>2 DEF SentInv
  <2>4. \A s \in Sessions, i \in Ids :
          phase'[s] = "live" /\ sends'[s][i] = 1 /\ i > lastReplay'[s] =>
             published'[i] = 1 /\ <<HostOf[s], i>> \notin pending'
    <3> SUFFICES ASSUME NEW s \in Sessions, NEW i \in Ids, phase[s] = "live",
                        sends'[s][i] = 1, i > lastReplay[s]
                 PROVE  published'[i] = 1 /\ <<HostOf[s], i>> \notin pending
      BY <1>2, <2>1
    <3>0. HostOf[s] \in Replicas
      BY StreamAssumption DEF Actors
    <3>1. CASE i = id
      BY <1>0, <1>1, <1>3, <3>0, <3>1 DEF SourceInv
    <3>2. CASE i # id
      BY <1>0, <1>3, <2>2, <3>2 DEF SourceInv
    <3> QED BY <3>1, <3>2
  <2>5. SourceInv'
    BY <1>0, <1>2, <1>3, <2>1, <2>2, <2>4 DEF SourceInv
  <2> QED BY <2>3, <2>5
<1> QED BY <1>5, <1>6

LEMMA BusKeeps ==
  ASSUME StreamInv, NEW r \in Replicas, NEW i \in Ids, BusDeliver(r, i)
  PROVE  SentInv' /\ SourceInv'
<1>0. /\ TypeOK /\ LogTypeOK /\ SentInv /\ SourceInv /\ LogInv
      /\ <<r, i>> \in pending /\ pending' = pending \ {<<r, i>>}
      /\ UNCHANGED <<phase, lastReplay, published, committed>>
  BY DEF StreamInv, TypeOK, BusDeliver, logVars
<1>1. \A s \in Sessions, j \in Ids :
         \/ sends'[s][j] = sends[s][j]
         \/ /\ j = i /\ phase[s] = "live" /\ HostOf[s] = r /\ i > lastReplay[s]
            /\ sends'[s][j] = sends[s][j] + 1
  BY <1>0, EmitFacts DEF BusDeliver
<1>2. published[i] = 1 /\ \E e \in committed : e.id = i
  BY <1>0 DEF SourceInv, LogInv, PublishedOnce
<1>3. \A s \in Sessions : phase[s] = "live" /\ HostOf[s] = r /\ i > lastReplay[s]
                             => sends[s][i] = 0
  <2> SUFFICES ASSUME NEW s \in Sessions, phase[s] = "live", HostOf[s] = r,
                      i > lastReplay[s]
               PROVE  sends[s][i] = 0
    OBVIOUS
  <2>1. sends[s][i] # 1
    BY <1>0 DEF SourceInv
  <2>2. sends[s][i] \in Nat /\ sends[s][i] <= 1
    BY <1>0 DEF SentInv, TypeOK
  <2> QED BY <2>1, <2>2
<1>4. SentInv'
  BY <1>0, <1>1, <1>2, <1>3 DEF SentInv
<1>5. SourceInv'
  <2>1. \A s \in Sessions, j \in Ids :
          phase'[s] = "live" /\ sends'[s][j] = 1 /\ j > lastReplay'[s] =>
             published'[j] = 1 /\ <<HostOf[s], j>> \notin pending'
    <3> SUFFICES ASSUME NEW s \in Sessions, NEW j \in Ids, phase[s] = "live",
                        sends'[s][j] = 1, j > lastReplay[s]
                 PROVE  published[j] = 1 /\ <<HostOf[s], j>> \notin pending'
      BY <1>0
    <3>1. CASE sends'[s][j] = sends[s][j]
      BY <1>0, <3>1 DEF SourceInv
    <3>2. CASE sends'[s][j] # sends[s][j]
      BY <1>0, <1>1, <1>2, <3>2
    <3> QED BY <3>1, <3>2
  <2>2. \A s \in Sessions, j \in Ids :
          phase'[s] = "replayed" /\ sends'[s][j] = 1 => j <= lastReplay'[s]
    BY <1>0, <1>1 DEF SourceInv
  <2>3. \A q \in Replicas, j \in Ids : <<q, j>> \in pending' => published'[j] = 1
    BY <1>0 DEF SourceInv
  <2> QED BY <2>1, <2>2, <2>3 DEF SourceInv
<1> QED BY <1>4, <1>5

(* Every other step is quiet.                                              *)
LEMMA OthersAreQuiet ==
  ASSUME StreamInv, [Next]_vars,
         ~ \E s \in Sessions : Replay(s),
         ~ \E a \in Actors : PublishAndBroadcast(a),
         ~ \E r \in Replicas, i \in Ids : BusDeliver(r, i)
  PROVE  Quiet
<1>0. TypeOK /\ committed \subseteq committed'
  BY StreamStepIsLogStep, LogGrows DEF StreamInv
<1>1. CASE LogStep
  <2>1. UNCHANGED <<phase, sends, lastReplay, pending>>
    BY <1>1 DEF LogStep, streamVars
  <2>2. UNCHANGED published
    <3>1. ASSUME NEW w \in Writers, WriterStep(w) PROVE UNCHANGED published
      BY <3>1 DEF WriterStep, Receive, CheckCap, ReRead
    <3>2. ASSUME NEW A, Abort(A) PROVE UNCHANGED published
      BY <3>2 DEF Abort
    <3>3. ASSUME NEW a \in Actors, InsertStep(a) PROVE UNCHANGED published
      BY <3>3 DEF InsertStep, BeginInsert, Persist, Collide, LosePane
    <3>4. CASE PaneStep
      BY <3>4 DEF PaneStep
    <3> QED BY <1>1, <3>1, <3>2, <3>3, <3>4 DEF LogStep
  <2> QED BY <1>0, <2>1, <2>2 DEF Quiet
<1>2. ASSUME NEW s \in Sessions, SessionStep(s) PROVE Quiet
  <2>1. UNCHANGED <<published, sends, lastReplay, pending>>
    BY <1>2 DEF SessionStep, Handshake, Upgrade, Register, Subscribe, Drop, CloseEvent,
                Deregister, BeginSystemEvent, logVars
  <2>2. \A t \in Sessions :
          \/ phase'[t] = phase[t]
          \/ phase'[t] \in {"upgraded", "joining"}
             /\ phase[t] \in {"none", "upgraded", "joining"}
          \/ phase'[t] = "live" /\ phase[t] = "replayed"
          \/ phase'[t] \in {"leaving", "left", "crashed"}
    BY <1>0, <1>2 DEF SessionStep, Handshake, Upgrade, Register, Subscribe, Drop,
                      CloseEvent, Deregister, Enter, TypeOK
  <2> QED BY <1>0, <2>1, <2>2 DEF Quiet
<1>3. ASSUME NEW r \in Replicas, NEW i \in Ids, BusLose(r, i) PROVE Quiet
  BY <1>0, <1>3 DEF BusLose, Quiet, logVars
<1>4. ASSUME NEW r \in Replicas, Crash(r) PROVE Quiet
  <2>1. UNCHANGED published
    BY <1>4 DEF Crash, Abort, logVars
  <2>2. UNCHANGED <<sends, lastReplay>> /\ pending' \subseteq pending
    BY <1>4 DEF Crash
  <2>3. \A s \in Sessions : phase'[s] = phase[s] \/ phase'[s] = "crashed"
    BY <1>4 DEF Crash
  <2> QED BY <1>0, <2>1, <2>2, <2>3 DEF Quiet
<1>5. CASE PresenceExpires
  BY <1>0, <1>5 DEF PresenceExpires, Quiet, logVars
<1>6. CASE UNCHANGED vars
  BY <1>0, <1>6 DEF vars, logVars, streamVars, Quiet
<1> QED BY <1>1, <1>2, <1>3, <1>4, <1>5, <1>6 DEF Next

(* The inductive invariant of the stream.                                  *)
LEMMA StreamInvInit == Init => StreamInv
<1> SUFFICES ASSUME Init PROVE StreamInv
  OBVIOUS
<1>1. LogInv
  BY LogInvInit DEF Init
<1>2. TypeOK
  BY <1>1 DEF Init, TypeOK, LogInv, Phases
<1>3. SentInv /\ SourceInv
  BY DEF Init, SentInv, SourceInv
<1> QED BY <1>1, <1>2, <1>3 DEF StreamInv

LEMMA StreamInvStep == StreamInv /\ [Next]_vars => StreamInv'
<1> SUFFICES ASSUME StreamInv, [Next]_vars PROVE StreamInv'
  OBVIOUS
<1>1. LogInv'
  BY StreamStepIsLogStep, LogInvStep DEF StreamInv
<1>2. TypeOK'
  <2>1. StreamTypeOK'
    BY StreamTypesKept DEF StreamInv
  <2> QED BY <1>1, <2>1 DEF StreamTypeOK, TypeOK, LogInv
<1>3. SentInv' /\ SourceInv'
  <2>1. CASE \E s \in Sessions : Replay(s)
    BY <2>1, ReplayKeeps
  <2>2. CASE \E a \in Actors : PublishAndBroadcast(a)
    BY <2>2, BroadcastKeeps
  <2>3. CASE \E r \in Replicas, i \in Ids : BusDeliver(r, i)
    BY <2>3, BusKeeps
  <2>4. CASE /\ ~ \E s \in Sessions : Replay(s)
             /\ ~ \E a \in Actors : PublishAndBroadcast(a)
             /\ ~ \E r \in Replicas, i \in Ids : BusDeliver(r, i)
    <3>1. Quiet
      BY <2>4, OthersAreQuiet
    <3> QED BY <3>1, QuietKeeps DEF StreamInv
  <2> QED BY <2>1, <2>2, <2>3, <2>4
<1> QED BY <1>1, <1>2, <1>3 DEF StreamInv

THEOREM StreamInvariant == Spec => []StreamInv
BY StreamInvInit, StreamInvStep, PTL DEF Spec

(* The variables of the stream keep their types.                           *)
THEOREM StreamTypeCorrect == Spec => []TypeOK
<1>1. StreamInv => TypeOK
  BY DEF StreamInv
<1> QED BY <1>1, StreamInvariant, PTL

(* No session is sent an event twice, on either bus and either database.   *)
THEOREM NoEventSentTwice == Spec => []NoDuplicateSend
<1>1. StreamInv => NoDuplicateSend
  BY DEF StreamInv, SentInv, NoDuplicateSend
<1> QED BY <1>1, StreamInvariant, PTL

-----------------------------------------------------------------------------
(***************************************************************************)
(* What a live session owes to its replay.                                 *)
(***************************************************************************)
(* On SQLite one INSERT runs at a time: a row appears above all rows that  *)
(* are there already.                                                      *)
SerialLog ==
    \A a \in Actors : pc[a] = "inserting" =>
       /\ \A e \in committed : e.id < rowId[a]
       /\ \A b \in Actors : pc[b] = "inserting" => b = a

(* lastReplayId is the cursor or a row's id, and the session was sent the  *)
(* rows between the two.                                                   *)
CoverInv ==
    \A s \in Sessions : phase[s] \in {"replayed", "live"} /\ HasSocket(s) =>
       /\ lastReplay[s] > since[s] => \E e \in committed : e.id = lastReplay[s]
       /\ \A e \in Table : since[s] < e.id /\ e.id <= lastReplay[s] => sends[s][e.id] = 1

LEMMA SerialLogStep ==
  ASSUME SerialInserts, LogInv, SerialLog, [LogNext]_logVars
  PROVE  SerialLog'
<1>0. LogTypeOK /\ RowsInv
  BY DEF LogInv
<1>1. ASSUME NEW a \in Actors, BeginInsert(a) PROVE SerialLog'
  <2>1. /\ rowId' = [rowId EXCEPT ![a] = nextId] /\ pc' = [pc EXCEPT ![a] = "inserting"]
        /\ UNCHANGED committed /\ \A b \in Actors : pc[b] # "inserting"
    BY <1>1 DEF BeginInsert, Goto
  <2>2. \A b \in Actors : pc'[b] = "inserting" => b = a
    BY <1>0, <2>1 DEF LogTypeOK
  <2>3. rowId'[a] = nextId
    BY <1>0, <2>1 DEF LogTypeOK
  <2> QED BY <1>0, <2>1, <2>2, <2>3 DEF SerialLog, RowsInv
<1>2. ASSUME NEW a \in Actors, Persist(a) PROVE SerialLog'
  <2>1. pc' = [pc EXCEPT ![a] = "publish"] /\ pc[a] = "inserting"
    BY <1>2 DEF Persist, Goto
  <2>2. \A b \in Actors : pc'[b] # "inserting"
    BY <1>0, <2>1 DEF LogTypeOK, SerialLog
  <2> QED BY <2>2 DEF SerialLog
<1>3. ASSUME UNCHANGED committed,
             \A b \in Actors : pc'[b] = "inserting" => pc[b] = "inserting" /\ rowId'[b] = rowId[b]
      PROVE  SerialLog'
  BY <1>3 DEF SerialLog
<1>4. ASSUME NEW a \in Actors, Finish(a), UNCHANGED committed PROVE SerialLog'
  <2>1. \A b \in Actors : pc'[b] = "inserting" => pc[b] = "inserting" /\ rowId'[b] = rowId[b]
    BY <1>0, <1>4, FinishTypes
  <2> QED BY <1>3, <1>4, <2>1
<1>5. ASSUME NEW a \in Actors, NEW stage, stage # "inserting", Goto(a, stage),
             UNCHANGED <<committed, rowId>>
      PROVE  SerialLog'
  <2>1. \A b \in Actors : pc'[b] = "inserting" => pc[b] = "inserting" /\ rowId'[b] = rowId[b]
    BY <1>0, <1>5 DEF Goto, LogTypeOK
  <2> QED BY <1>3, <1>5, <2>1
<1>6. ASSUME NEW w \in Writers, WriterStep(w) PROVE SerialLog'
  <2>1. w \in Actors
    BY DEF Actors
  <2>2. CASE Receive(w)
    BY <1>5, <2>1, <2>2 DEF Receive
  <2>3. CASE CheckCap(w)
    BY <1>4, <1>5, <2>1, <2>3 DEF CheckCap
  <2>4. CASE ReRead(w)
    BY <1>4, <2>1, <2>4 DEF ReRead
  <2> QED BY <1>6, <2>2, <2>3, <2>4 DEF WriterStep
<1>7. ASSUME NEW s \in Sessions, BeginSystemEvent(s) PROVE SerialLog'
  BY <1>5, <1>7 DEF BeginSystemEvent, Actors
<1>8. ASSUME NEW a \in Actors, InsertStep(a) \/ Publish(a) PROVE SerialLog'
  <2>1. CASE Collide(a)
    BY <1>5, <2>1 DEF Collide
  <2>2. CASE LosePane(a)
    BY <1>4, <2>2 DEF LosePane
  <2>3. CASE Publish(a)
    BY <1>4, <2>3 DEF Publish
  <2> QED BY <1>1, <1>2, <1>8, <2>1, <2>2, <2>3 DEF InsertStep
<1>9. ASSUME NEW A \in SUBSET Actors, Abort(A) PROVE SerialLog'
  BY <1>3, <1>9 DEF Abort
<1>10. CASE PaneStep
  BY <1>3, <1>10 DEF PaneStep
<1>11. CASE UNCHANGED logVars
  BY <1>3, <1>11 DEF logVars
<1> QED BY <1>6, <1>7, <1>8, <1>9, <1>10, <1>11 DEF LogNext

(* A row that a query could not have seen is above all that it could.      *)
LEMMA NewRowsAreAbove ==
  ASSUME LogInv, SerialLog, [LogNext]_logVars
  PROVE  \A e \in Table' : e \in Table \/ \A f \in committed : f.id < e.id
<1>0. LogTypeOK
  BY DEF LogInv
<1>1. ASSUME committed' = committed, pane.purged => pane'.purged
      PROVE  \A e \in Table' : e \in Table \/ \A f \in committed : f.id < e.id
  BY <1>1 DEF Table
<1>2. ASSUME NEW a \in Actors, Persist(a)
      PROVE  \A e \in Table' : e \in Table \/ \A f \in committed : f.id < e.id
  <2>1. /\ pc[a] = "inserting" /\ ~pane.purged /\ pane' = pane
        /\ committed' = committed \cup {NewRow(a)} /\ NewRow(a).id = rowId[a]
    BY <1>2 DEF Persist, NewRow
  <2>2. Table' = committed' /\ Table = committed
    BY <2>1 DEF Table
  <2> QED BY <2>1, <2>2 DEF SerialLog
<1>3. CASE \E w \in Writers : WriterStep(w)
  BY <1>1, <1>3 DEF WriterStep, Receive, CheckCap, ReRead
<1>4. CASE \E s \in Sessions : BeginSystemEvent(s)
  BY <1>1, <1>4 DEF BeginSystemEvent
<1>5. CASE \E a \in Actors : InsertStep(a) \/ Publish(a)
  BY <1>1, <1>2, <1>5 DEF InsertStep, BeginInsert, Collide, LosePane, Publish
<1>6. CASE \E A \in SUBSET Actors : Abort(A)
  BY <1>1, <1>6 DEF Abort
<1>7. CASE PaneStep
  BY <1>0, <1>1, <1>7 DEF PaneStep, Shut, MoveToTrash, Restore, Purge, LogTypeOK
<1>8. CASE UNCHANGED logVars
  BY <1>1, <1>8 DEF logVars
<1> QED BY <1>3, <1>4, <1>5, <1>6, <1>7, <1>8 DEF LogNext

(* The replay itself: the whole table above the cursor, once.              *)
LEMMA ReplayCovers ==
  ASSUME StreamInv, StreamInv', NEW s \in Sessions, Replay(s)
  PROVE  /\ UNCHANGED <<committed, since, sock>> /\ Table' = Table
         /\ lastReplay'[s] > since[s] => \E e \in committed : e.id = lastReplay'[s]
         /\ HasSocket(s) => \A e \in Table : since[s] < e.id => sends'[s][e.id] = 1
<1> DEFINE batch == {e.id : e \in {f \in Table : f.id > since[s]}}
           B == [t \in Sessions |-> IF t = s THEN batch ELSE {}]
           last == IF batch = {} THEN since[s] ELSE Max(batch)
<1>0. TypeOK /\ TypeOK' /\ SentInv'
  BY DEF StreamInv
<1>1. batch \in SUBSET Ids /\ \A i \in batch : \E e \in committed : e.id = i
  BY <1>0 DEF Table, TypeOK, LogTypeOK, Event
<1>2. UNCHANGED <<committed, since, sock>> /\ Table' = Table
  BY DEF Replay, logVars, Table
<1>3. Send(B) /\ lastReplay' = [lastReplay EXCEPT ![s] = last]
  BY DEF Replay
<1>4. B \in [Sessions -> SUBSET Ids] /\ B[s] = batch
  BY <1>1
<1>5. \A e \in Table : since[s] < e.id => e.id \in batch
  BY <1>0 DEF Table, TypeOK, LogTypeOK, Event, Ids
<1> HIDE DEF batch, B
<1>6. lastReplay'[s] = last
  BY <1>0, <1>3 DEF TypeOK
<1>7. last > since[s] => \E e \in committed : e.id = last
  <2>1. CASE batch = {}
    <3>1. last = since[s] /\ since[s] \in Int
      BY <1>0, <2>1 DEF TypeOK, Ids
    <3> HIDE DEF last
    <3> QED BY <3>1
  <2>2. CASE batch # {}
    <3>1. Max(batch) \in batch
      BY <1>1, <2>2, MaxExists
    <3> QED BY <1>1, <2>2, <3>1
  <2> QED BY <2>1, <2>2
<1>8. HasSocket(s) => \A i \in batch : sends'[s][i] = sends[s][i] + 1
  BY <1>0, <1>1, <1>3, <1>4, SendFacts
<1>9. \A i \in batch : sends[s][i] \in Nat /\ sends'[s][i] <= 1
  BY <1>0, <1>1 DEF TypeOK, SentInv
<1>10. HasSocket(s) => \A i \in batch : sends'[s][i] = 1
  BY <1>8, <1>9
<1> QED BY <1>2, <1>5, <1>6, <1>7, <1>10

(* Any other step leaves a session that replayed where it is, or takes its *)
(* socket, and takes nothing back that was sent.                           *)
LEMMA OtherStepsKeepCover ==
  ASSUME StreamInv, [Next]_vars, NEW s \in Sessions, ~Replay(s),
         phase'[s] \in {"replayed", "live"}, HasSocket(s)'
  PROVE  /\ phase[s] \in {"replayed", "live"} /\ HasSocket(s)
         /\ since'[s] = since[s] /\ lastReplay'[s] = lastReplay[s]
         /\ \A i \in Ids : sends'[s][i] >= sends[s][i]
<1>0. TypeOK /\ LogInv /\ \A i \in Ids : sends[s][i] \in Nat
  BY DEF StreamInv, TypeOK
<1> DEFINE G == /\ phase[s] \in {"replayed", "live"} /\ HasSocket(s)
                /\ since'[s] = since[s] /\ lastReplay'[s] = lastReplay[s]
                /\ \A i \in Ids : sends'[s][i] >= sends[s][i]
<1>1. ASSUME UNCHANGED <<phase, sock, since, lastReplay, sends>> PROVE G
  BY <1>0, <1>1 DEF HasSocket
<1>2. ASSUME UNCHANGED <<phase, sock, since, lastReplay>>, NEW i \in Ids, NEW R, Emit(i, R) PROVE G
  <2>1. \A j \in Ids : sends'[s][j] = sends[s][j] \/ sends'[s][j] = sends[s][j] + 1
    BY <1>0, <1>2, EmitFacts
  <2> QED BY <1>0, <1>2, <2>1 DEF HasSocket
<1>3. ASSUME NEW a \in Actors, PublishAndBroadcast(a) PROVE G
  <2>1. rowId[a] \in Ids
    BY <1>0, <1>3, PublishFacts DEF PublishAndBroadcast
  <2>2. UNCHANGED <<phase, sock, since, lastReplay>>
        /\ (UNCHANGED sends \/ Emit(rowId[a], Replicas))
    BY <1>3 DEF PublishAndBroadcast
  <2>3. CASE UNCHANGED sends
    BY <1>1, <2>2, <2>3
  <2>4. CASE Emit(rowId[a], Replicas)
    BY <1>2, <2>1, <2>2, <2>4
  <2> QED BY <2>2, <2>3, <2>4
<1>4. ASSUME NEW r \in Replicas, NEW i \in Ids, BusDeliver(r, i) \/ BusLose(r, i) PROVE G
  <2>1. CASE BusDeliver(r, i)
    BY <1>2, <2>1 DEF BusDeliver
  <2>2. CASE BusLose(r, i)
    BY <1>1, <2>2 DEF BusLose
  <2> QED BY <1>4, <2>1, <2>2
<1>5. ASSUME NEW t \in Sessions, Replay(t) PROVE G
  <2>1. t # s
    BY <1>5
  <2>2. phase' = [phase EXCEPT ![t] = "replayed"] /\ UNCHANGED <<sock, since>>
    BY <1>5 DEF Replay, Enter
  <2>3. lastReplay'[s] = lastReplay[s] /\ \A i \in Ids : sends'[s][i] = sends[s][i]
    BY <1>0, <1>5, <2>1, ReplayFacts
  <2> QED BY <1>0, <2>1, <2>2, <2>3 DEF HasSocket, TypeOK
<1>6. ASSUME NEW t \in Sessions,
             Upgrade(t) \/ Register(t) \/ Subscribe(t) \/ Drop(t) \/ CloseEvent(t) \/ Deregister(t)
      PROVE  G
  <2>1. UNCHANGED <<lastReplay, sends>>
    BY <1>6 DEF Upgrade, Register, Subscribe, Drop, CloseEvent, Deregister
  <2>2. CASE Upgrade(t)
    <3>1. t # s
      BY <1>0, <2>2 DEF Upgrade, Enter, TypeOK
    <3> QED BY <1>0, <2>1, <2>2, <3>1 DEF Upgrade, Enter, TypeOK, HasSocket
  <2>3. CASE Register(t)
    <3>1. t # s
      BY <1>0, <2>3 DEF Register, Enter, TypeOK
    <3> QED BY <1>0, <2>1, <2>3, <3>1 DEF Register, Enter, TypeOK, HasSocket
  <2>4. CASE Subscribe(t)
    BY <1>0, <2>1, <2>4 DEF Subscribe, Enter, TypeOK, HasSocket
  <2>5. CASE Drop(t)
    BY <1>0, <2>1, <2>5 DEF Drop, TypeOK, HasSocket
  <2>6. CASE CloseEvent(t)
    <3>1. t # s
      BY <1>0, <2>6 DEF CloseEvent, TypeOK, HasSocket
    <3> QED BY <1>0, <2>1, <2>6, <3>1 DEF CloseEvent, Enter, TypeOK, HasSocket
  <2>7. CASE Deregister(t)
    <3>1. t # s
      BY <1>0, <2>7 DEF Deregister, Enter, TypeOK
    <3> QED BY <1>0, <2>1, <2>7, <3>1 DEF Deregister, Enter, TypeOK, HasSocket
  <2> QED BY <1>6, <2>2, <2>3, <2>4, <2>5, <2>6, <2>7
<1>7. ASSUME NEW r \in Replicas, Crash(r) PROVE G
  <2>1. UNCHANGED <<since, lastReplay, sends>>
        /\ phase'[s] \in {phase[s], "crashed"} /\ sock'[s] \in {sock[s], "closed"}
    BY <1>7 DEF Crash
  <2> QED BY <1>0, <2>1 DEF HasSocket
<1>8. CASE LogStep
  BY <1>1, <1>8 DEF LogStep, streamVars
<1>9. CASE PresenceExpires
  BY <1>1, <1>9 DEF PresenceExpires
<1>10. CASE UNCHANGED vars
  BY <1>1, <1>10 DEF vars, streamVars
<1> QED BY <1>3, <1>4, <1>5, <1>6, <1>7, <1>8, <1>9, <1>10 DEF Next, SessionStep, Handshake

LEMMA CoverInvStep ==
  ASSUME StreamInv, StreamInv', SerialLog, CoverInv, [Next]_vars
  PROVE  CoverInv'
<1> SUFFICES ASSUME NEW s \in Sessions, phase'[s] \in {"replayed", "live"}, HasSocket(s)'
             PROVE  /\ lastReplay'[s] > since'[s] => \E e \in committed' : e.id = lastReplay'[s]
                    /\ \A e \in Table' : since'[s] < e.id /\ e.id <= lastReplay'[s]
                                            => sends'[s][e.id] = 1
  BY DEF CoverInv
<1>0. /\ TypeOK /\ TypeOK' /\ SentInv' /\ LogInv /\ [LogNext]_logVars
      /\ committed \subseteq committed'
  BY StreamStepIsLogStep, LogGrows DEF StreamInv
<1>1. CASE Replay(s)
  <2>1. HasSocket(s)
    BY <1>1, ReplayCovers DEF HasSocket
  <2> QED BY <1>1, <2>1, ReplayCovers
<1>2. CASE ~Replay(s)
  <2>1. /\ phase[s] \in {"replayed", "live"} /\ HasSocket(s)
        /\ since'[s] = since[s] /\ lastReplay'[s] = lastReplay[s]
        /\ \A i \in Ids : sends'[s][i] >= sends[s][i]
    BY <1>2, OtherStepsKeepCover
  <2>2. lastReplay[s] > since[s] => \E e \in committed : e.id = lastReplay[s]
    BY <2>1 DEF CoverInv
  <2>3. ASSUME NEW e \in Table', since[s] < e.id, e.id <= lastReplay[s]
        PROVE  sends'[s][e.id] = 1
    <3>1. e.id \in Ids /\ since[s] \in Nat /\ lastReplay[s] \in Nat
      BY <1>0 DEF TypeOK, LogTypeOK, Event, Table, Ids
    <3>2. lastReplay[s] > since[s]
      BY <2>3, <3>1 DEF Ids
    <3>3. PICK f \in committed : f.id = lastReplay[s]
      BY <2>2, <3>2
    <3>4. ~(f.id < e.id)
      BY <2>3, <3>1, <3>3 DEF Ids
    <3>5. e \in Table
      BY <1>0, <3>4, NewRowsAreAbove
    <3>6. sends[s][e.id] = 1
      BY <2>1, <2>3, <3>5 DEF CoverInv
    <3>7. sends'[s][e.id] \in Nat /\ sends'[s][e.id] <= 1 /\ sends'[s][e.id] >= 1
      BY <1>0, <2>1, <3>1, <3>6 DEF TypeOK, SentInv
    <3> QED BY <3>7
  <2> QED BY <1>0, <2>1, <2>2, <2>3
<1> QED BY <1>1, <1>2

LEMMA PresentStep ==
  ASSUME TypeOK, LiveIsPresent, [Next]_vars
  PROVE  LiveIsPresent'
<1> SUFFICES ASSUME ~RedisOn, NEW s \in Sessions,
                    phase'[s] \in {"joining", "replayed", "live", "leaving"}
             PROVE  s \in presence'
  BY DEF LiveIsPresent
<1>1. ASSUME phase'[s] = phase[s], s \in presence => s \in presence' PROVE s \in presence'
  BY <1>1 DEF LiveIsPresent
<1>2. ASSUME NEW t \in Sessions, SessionStep(t) PROVE s \in presence'
  <2>1. CASE Upgrade(t)
    BY <1>1, <2>1 DEF Upgrade, Enter, TypeOK
  <2>2. CASE Register(t)
    BY <1>1, <2>2 DEF Register, Enter, TypeOK
  <2>3. CASE Replay(t)
    BY <1>1, <2>3 DEF Replay, Enter, TypeOK, LiveIsPresent
  <2>4. CASE Subscribe(t)
    BY <1>1, <2>4 DEF Subscribe, Enter, TypeOK, LiveIsPresent
  <2>5. CASE Drop(t)
    BY <1>1, <2>5 DEF Drop
  <2>6. CASE CloseEvent(t)
    BY <1>1, <2>6 DEF CloseEvent, Enter, TypeOK, LiveIsPresent
  <2>7. CASE Deregister(t)
    BY <1>1, <2>7 DEF Deregister, Enter, TypeOK
  <2> QED BY <1>2, <2>1, <2>2, <2>3, <2>4, <2>5, <2>6, <2>7 DEF SessionStep, Handshake
<1>3. ASSUME NEW r \in Replicas, Crash(r) PROVE s \in presence'
  <2>1. phase'[s] = IF HostOf[s] = r /\ phase[s] # "none" THEN "crashed" ELSE phase[s]
    BY <1>3 DEF Crash
  <2>2. presence' = presence \ {t \in Sessions : HostOf[t] = r}
    BY <1>3 DEF Crash
  <2>3. HostOf[s] # r /\ phase'[s] = phase[s]
    BY <2>1
  <2> QED BY <1>1, <2>2, <2>3
<1>4. CASE \E a \in Actors : PublishAndBroadcast(a)
  BY <1>1, <1>4 DEF PublishAndBroadcast
<1>5. CASE \E r \in Replicas, i \in Ids : BusDeliver(r, i) \/ BusLose(r, i)
  BY <1>1, <1>5 DEF BusDeliver, BusLose
<1>6. CASE LogStep
  BY <1>1, <1>6 DEF LogStep, streamVars
<1>7. CASE UNCHANGED vars
  BY <1>1, <1>7 DEF vars, streamVars
<1>8. ~PresenceExpires
  BY DEF PresenceExpires
<1> QED BY <1>2, <1>3, <1>4, <1>5, <1>6, <1>7, <1>8 DEF Next

(* On SQLite, what the live subscription of a session drops as already     *)
(* replayed has been sent on it; and, in one process, who is live is in    *)
(* the registry.                                                           *)
THEOREM LiveSound ==
  ASSUME SerialInserts
  PROVE  Spec => []LiveInv
<1>1. Init => SerialLog /\ CoverInv /\ LiveIsPresent
  BY DEF Init, LogInit, SerialLog, CoverInv, LiveIsPresent
<1>2. StreamInv /\ StreamInv' /\ SerialLog /\ CoverInv /\ LiveIsPresent /\ [Next]_vars
        => (SerialLog /\ CoverInv /\ LiveIsPresent)'
  <2> SUFFICES ASSUME StreamInv, StreamInv', SerialLog, CoverInv, LiveIsPresent, [Next]_vars
               PROVE  (SerialLog /\ CoverInv /\ LiveIsPresent)'
    OBVIOUS
  <2>1. SerialLog'
    BY StreamStepIsLogStep, SerialLogStep DEF StreamInv
  <2>2. LiveIsPresent'
    BY PresentStep DEF StreamInv
  <2> QED BY <2>1, <2>2, CoverInvStep
<1>3. StreamInv /\ CoverInv /\ LiveIsPresent => LiveInv
  BY DEF StreamInv, CoverInv, LiveInv, ReplayCoversDropped
<1> QED BY <1>1, <1>2, <1>3, StreamInvariant, PTL DEF Spec

-----------------------------------------------------------------------------
(* The stream implements the feed: a commit is an Append; a replay, an     *)
(* in-process broadcast and a bus delivery are a Carry; nothing else       *)
(* touches the log or the feeds.                                           *)
LEMMA SendsCarry ==
  ASSUME StreamInv, StreamInv', committed' = committed,
         \A s \in Sessions, i \in Ids :
            sends'[s][i] = sends[s][i] \/ sends'[s][i] = sends[s][i] + 1
  PROVE  Feed!Carry
<1> DEFINE log == {e.id : e \in committed}
           New == [s \in Sessions |-> {i \in Ids : sends'[s][i] = sends[s][i] + 1}]
<1>0. /\ sends \in [Sessions -> [Ids -> Nat]]
      /\ sends' \in [Sessions -> [Ids -> Nat]]
  BY DEF StreamInv, TypeOK
<1>1. \A s \in Sessions : \A i \in New[s] : i \in Ids /\ sends[s][i] = 0 /\ i \in log
  <2> SUFFICES ASSUME NEW s \in Sessions, NEW i \in Ids, sends'[s][i] = sends[s][i] + 1
               PROVE  sends[s][i] = 0 /\ i \in log
    OBVIOUS
  <2>1. sends'[s][i] <= 1
    BY DEF StreamInv, SentInv
  <2>2. sends'[s][i] = 1 /\ sends[s][i] = 0
    BY <1>0, <2>1
  <2>3. \E e \in committed : e.id = i
    BY <2>2 DEF StreamInv, SentInv
  <2> QED BY <2>2, <2>3
<1>2. New \in [Sessions -> SUBSET log]
  BY <1>1
<1>3. sends' = [s \in Sessions |-> [i \in Ids |->
                   IF i \in New[s] THEN sends[s][i] + 1 ELSE sends[s][i]]]
  BY <1>0
<1>4. log' = log
  OBVIOUS
<1> HIDE DEF log, New
<1>5. \A s \in Sessions : \A i \in New[s] : sends[s][i] = 0
  BY <1>1
<1>6. \E N \in [Sessions -> SUBSET log] :
         /\ sends' = [s \in Sessions |-> [i \in Ids |->
                   IF i \in N[s] THEN sends[s][i] + 1 ELSE sends[s][i]]]
         /\ \A s \in Sessions : \A i \in N[s] : sends[s][i] = 0
  BY <1>2, <1>3, <1>5
<1> QED BY <1>4, <1>6 DEF Feed!Carry, log

LEMMA StepRefines ==
  ASSUME StreamInv, StreamInv', [Next]_vars
  PROVE  [Feed!Next]_<<{e.id : e \in committed}, sends>>
<1> DEFINE log == {e.id : e \in committed}
<1>0. TypeOK /\ LogInv
  BY DEF StreamInv
<1>1. ASSUME NEW a \in Actors, Persist(a), UNCHANGED sends PROVE Feed!Next
  <2>1. /\ pc[a] = "inserting" /\ committed' = committed \cup {NewRow(a)}
        /\ NewRow(a).id = rowId[a]
    BY <1>1 DEF Persist, NewRow
  <2>2. rowId[a] \in Ids /\ \A e \in committed : e.id # rowId[a]
    BY <1>0, <2>1 DEF LogInv, AppendInv, RowsInv, InFlight
  <2>3. rowId[a] \notin log /\ log' = log \cup {rowId[a]}
    BY <2>1, <2>2
  <2> HIDE DEF log
  <2>4. \E i \in Ids : i \notin log /\ log' = log \cup {i} /\ UNCHANGED sends
    BY <1>1, <2>2, <2>3
  <2> QED BY <2>4 DEF Feed!Next, Feed!Append, log
<1>2. ASSUME NEW a \in Actors, PublishAndBroadcast(a) PROVE Feed!Next \/ UNCHANGED <<log, sends>>
  <2>1. committed' = committed /\ rowId[a] \in Ids
    BY <1>0, <1>2, PublishFacts DEF PublishAndBroadcast
  <2>2. CASE RedisOn
    BY <1>2, <2>1, <2>2 DEF PublishAndBroadcast
  <2>3. CASE ~RedisOn
    <3>1. Emit(rowId[a], Replicas)
      BY <1>2, <2>3 DEF PublishAndBroadcast
    <3>2. Feed!Carry
      BY <1>0, <2>1, <3>1, EmitFacts, SendsCarry
    <3> QED BY <3>2 DEF Feed!Next
  <2> QED BY <2>2, <2>3
<1>3. ASSUME NEW s \in Sessions, Replay(s) PROVE Feed!Next
  <2>1. committed' = committed
    BY <1>3 DEF Replay, logVars
  <2>2. Feed!Carry
    BY <1>0, <1>3, <2>1, ReplayFacts, SendsCarry
  <2> QED BY <2>2 DEF Feed!Next
<1>4. ASSUME NEW r \in Replicas, NEW i \in Ids, BusDeliver(r, i) PROVE Feed!Next
  <2>1. committed' = committed /\ Emit(i, {r})
    BY <1>4 DEF BusDeliver, logVars
  <2>2. Feed!Carry
    BY <1>0, <2>1, EmitFacts, SendsCarry
  <2> QED BY <2>2 DEF Feed!Next
<1>5. ASSUME Quiet, ~ \E a \in Actors : Persist(a) PROVE UNCHANGED <<log, sends>>
  <2>1. committed' = committed
    <3>1. [LogNext]_logVars
      BY StreamStepIsLogStep
    <3>2. ASSUME NEW w \in Writers, WriterStep(w) PROVE committed' = committed
      BY <3>2 DEF WriterStep, Receive, CheckCap, ReRead
    <3>3. ASSUME NEW s \in Sessions, BeginSystemEvent(s) PROVE committed' = committed
      BY <3>3 DEF BeginSystemEvent
    <3>4. ASSUME NEW a \in Actors, InsertStep(a) \/ Publish(a) PROVE committed' = committed
      BY <1>5, <3>4 DEF InsertStep, BeginInsert, Collide, LosePane, Publish
    <3>5. ASSUME NEW A, Abort(A) PROVE committed' = committed
      BY <3>5 DEF Abort
    <3>6. CASE PaneStep
      BY <3>6 DEF PaneStep
    <3>7. CASE UNCHANGED logVars
      BY <3>7 DEF logVars
    <3> QED BY <3>1, <3>2, <3>3, <3>4, <3>5, <3>6, <3>7 DEF LogNext
  <2> QED BY <1>5, <2>1 DEF Quiet
<1>6. CASE /\ ~ \E s \in Sessions : Replay(s)
           /\ ~ \E a \in Actors : PublishAndBroadcast(a)
           /\ ~ \E r \in Replicas, i \in Ids : BusDeliver(r, i)
  <2>1. Quiet
    BY <1>6, OthersAreQuiet
  <2> QED BY <1>1, <1>5, <2>1 DEF Quiet
<1> QED BY <1>2, <1>3, <1>4, <1>6 DEF Feed!Next

THEOREM ImplementsFeed == Spec => FeedSpec
<1>1. Init => Feed!Init
  BY DEF Init, LogInit, Feed!Init
<1>2. StreamInv /\ StreamInv' /\ [Next]_vars
        => [Feed!Next]_<<{e.id : e \in committed}, sends>>
  BY StepRefines
<1> QED BY <1>1, <1>2, StreamInvariant, PTL DEF Spec, FeedSpec, Feed!Spec
===============================================================================
