--------------------------- MODULE Records_Proofs ---------------------------
(***************************************************************************)
(* Why a cursor misses nothing in a record collection, on either database  *)
(* and for any number of writers, readers, keys and rows per page: seq is  *)
(* bumped under the row lock that the commit releases, so rows become      *)
(* visible in the order of their seq.                                      *)
(*                                                                         *)
(* And what SQLite adds, where one transaction runs at a time and is       *)
(* broadcast before the next begins: if_match is honoured at the commit,   *)
(* and the stores that fold broadcasts in show the rows of the table, but  *)
(* for those numbered up to the cursor that they brought from a dropped    *)
(* collection: of connected shells always, of a template's sessions unless *)
(* they missed something in one of the ways the model names.               *)
(***************************************************************************)
EXTENDS TemplateRecords, FiniteSetTheorems, WellFoundedInduction, TLAPS

(* One request holds the lock, and what it bumped is the next seq: of the  *)
(* collection it found, or of the one its POST creates.                    *)
LockInv ==
    /\ \A w \in Writers : pc[w] = "locked" <=> lock = w
    /\ \A w \in Writers : pc[w] = "locked" =>
          IF coll.exists
          THEN wjob[w].gen = coll.gen /\ wjob[w].seq = coll.seq + 1
          ELSE wjob[w].kind = "post" /\ wjob[w].gen = coll.gen + 1 /\ wjob[w].seq = 1

(* A collection that is gone has no rows, the seq of a row was handed out. *)
RowsInv ==
    \A k \in Keys : Kept(k) => coll.exists /\ rows[k].seq \in 1 .. coll.seq

(* A broadcast is a bounded batch with one delta per key.                  *)
OutInv ==
    \A w \in Writers :
        /\ \E n \in Nat : \A d \in out[w] : d.seq <= n
        /\ \A d, e \in out[w] : d.key = e.key => d = e

(* Where a reader's cursor comes from.                                     *)
CursorInv ==
    \A c \in Readers :
        /\ brought[c] <= cursor[c]
        /\ cursor[c] <= coll.seq \/ cursor[c] = brought[c]

TableInv == TypeOK /\ LockInv /\ RowsInv /\ OutInv

RecordsInv == TableInv /\ CursorInv /\ ReaderInSync

-----------------------------------------------------------------------------
(* A bounded nonempty set of naturals has a greatest element, and that is  *)
(* what Max finds.                                                         *)
LEMMA MaxOfBounded ==
  ASSUME NEW n \in Nat, NEW S \in SUBSET (0 .. n), S # {}
  PROVE  Max(S) \in S /\ \A y \in S : y <= Max(S)
<1> DEFINE T == {n - x : x \in S}
<1>1. PICK x0 \in S : TRUE
  OBVIOUS
<1>2. T \subseteq Nat /\ n - x0 \in T
  BY <1>1
<1>3. \E m \in T : \A t \in T : ~ (<<t, m>> \in OpToRel(<, Nat))
  <2> HIDE DEF T
  <2> QED BY <1>2, NatLessThanWellFounded, WFMin
<1>4. PICK m \in T : \A t \in T : ~ (<<t, m>> \in OpToRel(<, Nat))
  BY <1>3
<1>5. m \in Nat /\ \A t \in T : t \in Nat /\ m <= t
  <2> HIDE DEF T
  <2>1. m \in Nat /\ \A t \in T : t \in Nat
    BY <1>2
  <2>2. \A t \in T : ~ (t < m)
    BY <1>4, <2>1 DEF OpToRel
  <2> QED BY <2>1, <2>2
<1>6. PICK x \in S : m = n - x
  OBVIOUS
<1>7. x \in S /\ \A y \in S : x >= y
  BY <1>5, <1>6
<1> QED BY <1>7 DEF Max

(* A store: the cursor, the seq it shows for each key, and the cursor that *)
(* it brought to the collection.                                           *)
Store == [cursor : Nat, copy : [Keys -> Nat], brought : Nat]

(* What a store makes of a bounded batch with one delta per key.           *)
LEMMA FoldedFacts ==
  ASSUME NEW st \in Store,
         NEW batch \in SUBSET Delta, NEW n \in Nat, \A d \in batch : d.seq <= n,
         \A d, e \in batch : d.key = e.key => d = e
  PROVE  /\ Folded(st, batch) \in Store
         /\ Folded(st, batch).cursor \in Nat
         /\ Folded(st, batch).copy \in [Keys -> Nat]
         /\ Folded(st, batch).brought = st.brought
         /\ st.cursor <= Folded(st, batch).cursor
         /\ \A d \in batch : d.seq <= Folded(st, batch).cursor
         /\ \/ Folded(st, batch).cursor = st.cursor
            \/ \E d \in batch : Folded(st, batch).cursor = d.seq
         /\ \A k \in Keys :
               (\A d \in batch : d.key = k => d.seq <= st.cursor)
                  => Folded(st, batch).copy[k] = st.copy[k]
         /\ \A d \in batch : d.seq > st.cursor =>
               Folded(st, batch).copy[d.key] = (IF d.live THEN d.seq ELSE 0)
<1> DEFINE new == {d \in batch : d.seq > st.cursor}
           S == {st.cursor} \cup {d.seq : d \in new}
           about(k) == CHOOSE d \in new : d.key = k
           face(k) == IF \E d \in new : d.key = k
                       THEN IF about(k).live THEN about(k).seq ELSE 0
                       ELSE st.copy[k]
<1>1. Folded(st, batch) = [cursor |-> Max(S), copy |-> [k \in Keys |-> face(k)],
                        brought |-> st.brought]
  BY DEF Folded
<1>0. st.cursor \in Nat /\ st.copy \in [Keys -> Nat] /\ st.brought \in Nat
  BY DEF Store
<1>2. PICK b \in Nat : n <= b /\ st.cursor <= b
  <2>1. CASE n <= st.cursor
    BY <1>0, <2>1
  <2>2. CASE st.cursor <= n
    BY <2>2
  <2> QED BY <1>0, <2>1, <2>2
<1>3. S \in SUBSET (0 .. b) /\ S # {}
  BY <1>2 DEF Delta, Store
<1>4. Max(S) \in S /\ \A y \in S : y <= Max(S)
  <2> HIDE DEF S
  <2> QED BY <1>3, MaxOfBounded
<1>5. Max(S) \in Nat /\ st.cursor <= Max(S) /\ \A d \in batch : d.seq <= Max(S)
  <2>1. Max(S) \in Nat /\ st.cursor <= Max(S)
    BY <1>0, <1>3, <1>4
  <2>2. ASSUME NEW d \in batch PROVE d.seq <= Max(S)
    <3>1. d \in Delta /\ d.seq \in Nat
      BY DEF Delta
    <3>2. CASE d.seq > st.cursor
      <4>1. d.seq \in S
        BY <3>2
      <4> HIDE DEF S
      <4> QED BY <1>4, <4>1
    <3>3. CASE d.seq <= st.cursor
      <4> HIDE DEF S
      <4> QED BY <1>0, <2>1, <3>1, <3>3
    <3> HIDE DEF S
    <3> QED BY <1>0, <3>1, <3>2, <3>3
  <2> QED BY <2>1, <2>2
<1>6. Max(S) = st.cursor \/ \E d \in batch : Max(S) = d.seq
  BY <1>4
<1>7. ASSUME NEW d \in batch, d.seq > st.cursor
      PROVE  face(d.key) = (IF d.live THEN d.seq ELSE 0)
  <2>1. d \in new
    BY <1>7
  <2>2. about(d.key) \in new /\ about(d.key).key = d.key
    BY <2>1
  <2>3. about(d.key) = d
    BY <2>1, <2>2
  <2> QED BY <2>1, <2>3
<1>8. ASSUME NEW k \in Keys, \A d \in batch : d.key = k => d.seq <= st.cursor
      PROVE  face(k) = st.copy[k]
  <2>1. ~ \E d \in new : d.key = k
    BY <1>0, <1>8 DEF Delta
  <2> QED BY <2>1
<1>9. \A k \in Keys : face(k) \in Nat
  <2>1. ASSUME NEW k \in Keys, NEW d \in new, d.key = k PROVE face(k) \in Nat
    <3>1. face(k) = (IF d.live THEN d.seq ELSE 0)
      BY <1>7, <2>1
    <3> QED BY <3>1 DEF Delta
  <2>2. ASSUME NEW k \in Keys, ~ \E d \in new : d.key = k PROVE face(k) \in Nat
    BY <1>0, <2>2
  <2> QED BY <2>1, <2>2
<1>11. \A d \in batch : d.key \in Keys
  BY DEF Delta
<1> HIDE DEF S, face
<1> QED BY <1>0, <1>1, <1>5, <1>6, <1>7, <1>8, <1>9, <1>11 DEF Store

(* The same of what a client keeps.                                        *)
LEMMA FoldFacts ==
  ASSUME NEW c \in Clients, cursor[c] \in Nat, copy[c] \in [Keys -> Nat],
         NEW batch \in SUBSET Delta, NEW n \in Nat, \A d \in batch : d.seq <= n,
         \A d, e \in batch : d.key = e.key => d = e
  PROVE  /\ Fold(c, batch).cursor \in Nat
         /\ Fold(c, batch).copy \in [Keys -> Nat]
         /\ cursor[c] <= Fold(c, batch).cursor
         /\ \A d \in batch : d.seq <= Fold(c, batch).cursor
         /\ \/ Fold(c, batch).cursor = cursor[c]
            \/ \E d \in batch : Fold(c, batch).cursor = d.seq
         /\ \A k \in Keys :
               (\A d \in batch : d.key = k => d.seq <= cursor[c])
                  => Fold(c, batch).copy[k] = copy[c][k]
         /\ \A d \in batch : d.seq > cursor[c] =>
               Fold(c, batch).copy[d.key] = (IF d.live THEN d.seq ELSE 0)
<1>1. PICK st : st = [cursor |-> cursor[c], copy |-> copy[c], brought |-> 0]
  OBVIOUS
<1>2. /\ st \in Store /\ st.cursor = cursor[c] /\ st.copy = copy[c]
  BY <1>1 DEF Store
<1>3. Fold(c, batch).cursor = Folded(st, batch).cursor /\ Fold(c, batch).copy = Folded(st, batch).copy
  BY <1>2 DEF Fold, Folded
<1> QED BY <1>2, <1>3, FoldedFacts

LEMMA NoJobTyped == NoWriterJob \in WriterJob /\ NoRecord \in Row
BY RecordsAssumption DEF NoWriterJob, WriterJob, NoRecord, Row

LEMMA RecordsInvInit == Init => RecordsInv
<1> SUFFICES ASSUME Init PROVE RecordsInv
  OBVIOUS
<1>1. TypeOK
  BY NoJobTyped DEF Init, TypeOK
<1>2. LockInv
  BY RecordsAssumption DEF Init, LockInv
<1>3. RowsInv
  BY DEF Init, RowsInv, Kept, NoRecord
<1>4. OutInv
  <2>1. 0 \in Nat /\ \A w \in Writers : out[w] = {}
    BY DEF Init
  <2> QED BY <2>1 DEF OutInv
<1>5. CursorInv
  <2>1. coll.seq = 0 /\ coll.gen = 0
    BY DEF Init
  <2>2. \A c \in Readers : brought[c] = 0 /\ cursor[c] = 0
    BY DEF Init, Clients
  <2> QED BY <2>1, <2>2 DEF CursorInv
<1>6. ReaderInSync
  BY DEF Init, ReaderInSync, Kept, NoRecord
<1> QED BY <1>1, <1>2, <1>3, <1>4, <1>5, <1>6 DEF RecordsInv, TableInv

-----------------------------------------------------------------------------
(* A request ends, whatever the clients do at that moment.                 *)
LEMMA FinishKeeps ==
  ASSUME TableInv, NEW w \in Writers, Finish(w), UNCHANGED <<coll, rows>>,
         cursor' \in [Clients -> Nat], copy' \in [Clients -> [Keys -> Nat]],
         brought' \in [Clients -> Nat]
  PROVE  TableInv'
<1>1. TypeOK'
  BY NoJobTyped DEF TableInv, TypeOK, Finish, Goto
<1>2. LockInv'
  BY RecordsAssumption DEF TableInv, TypeOK, LockInv, Finish, Goto
<1>3. RowsInv'
  BY DEF TableInv, RowsInv, Kept
<1>4. OutInv'
  BY DEF TableInv, TypeOK, OutInv, Finish
<1> QED BY <1>1, <1>2, <1>3, <1>4 DEF TableInv

(* A request goes on without touching the table or the lock.               *)
LEMMA StageKeeps ==
  ASSUME TableInv, NEW w \in Writers, pc[w] # "locked",
         NEW step \in {"cap", "begin", "bump"}, Goto(w, step),
         NEW j \in WriterJob, wjob' = [wjob EXCEPT ![w] = j],
         UNCHANGED <<coll, rows, lock, out, clientVars>>
  PROVE  TableInv'
<1>1. TypeOK'
  BY DEF TableInv, TypeOK, Goto, clientVars
<1>2. LockInv'
  BY DEF TableInv, TypeOK, LockInv, Goto
<1>3. RowsInv' /\ OutInv'
  BY DEF TableInv, RowsInv, OutInv, Kept
<1> QED BY <1>1, <1>2, <1>3 DEF TableInv

LEMMA ReceiveKeeps ==
  ASSUME TableInv, NEW w \in Writers,
         NEW kind \in {"post", "patch", "delete", "drop"}, NEW key \in Keys,
         NEW match \in 1 .. MaxSeq \cup {NoMatch}, Receive(w, kind, key, match)
  PROVE  TableInv'
<1> DEFINE j == [NoWriterJob EXCEPT !.kind = kind, !.key = key, !.match = match]
<1>1. j \in WriterJob
  <2>1. match \in Nat \cup {NoMatch}
    BY RecordsAssumption
  <2>2. \A f \in WriterJob : [f EXCEPT !.kind = kind, !.key = key, !.match = match] \in WriterJob
    BY <2>1 DEF WriterJob
  <2> QED BY <2>2, NoJobTyped
<1>2. wjob' = [wjob EXCEPT ![w] = j] /\ pc[w] # "locked"
      /\ UNCHANGED <<coll, rows, lock, out, clientVars>>
  BY DEF Receive
<1>3. Goto(w, "cap") \/ Goto(w, "begin")
  BY DEF Receive
<1> HIDE DEF j
<1> QED BY <1>1, <1>2, <1>3, StageKeeps

LEMMA ReadKeeps ==
  ASSUME TableInv, NEW w \in Writers,
         CheckCap(w) \/ ReadRow(w) \/ ReadCollection(w)
  PROVE  TableInv'
<1>0. TypeOK /\ wjob[w] \in WriterJob /\ wjob \in [Writers -> WriterJob]
  BY DEF TableInv, TypeOK
<1>1. CASE Finish(w) /\ UNCHANGED <<coll, rows, clientVars>>
  BY <1>0, <1>1, FinishKeeps DEF TypeOK, clientVars
<1>2. CASE CheckCap(w) /\ Goto(w, "begin") /\ UNCHANGED <<wjob, out, lock>>
  <2>1. wjob' = [wjob EXCEPT ![w] = wjob[w]]
    BY <1>0, <1>2
  <2> QED BY <1>0, <1>2, <2>1, StageKeeps DEF CheckCap
<1>3. CASE ReadRow(w) /\ ~Finish(w)
  <2> DEFINE j == [wjob[w] EXCEPT !.gen = coll.gen, !.born = rows[wjob[w].key].born]
  <2>1. j \in WriterJob
    BY <1>0 DEF TypeOK, WriterJob, Row
  <2>2. wjob' = [wjob EXCEPT ![w] = j] /\ pc[w] # "locked" /\ Goto(w, "bump")
        /\ UNCHANGED <<coll, rows, lock, out, clientVars>>
    BY <1>0, <1>3 DEF ReadRow
  <2> HIDE DEF j
  <2> QED BY <2>1, <2>2, StageKeeps
<1>4. CASE ReadCollection(w) /\ ~Finish(w)
  <2> DEFINE j == [wjob[w] EXCEPT !.gen = coll.gen, !.seq = coll.seq,
                                 !.victims = {k \in Keys : Live(k)}]
  <2>1. j \in WriterJob
    BY <1>0 DEF TypeOK, WriterJob
  <2>2. wjob' = [wjob EXCEPT ![w] = j] /\ pc[w] # "locked" /\ Goto(w, "bump")
        /\ UNCHANGED <<coll, rows, lock, out, clientVars>>
    BY <1>0, <1>4 DEF ReadCollection
  <2> HIDE DEF j
  <2> QED BY <2>1, <2>2, StageKeeps
<1>5. ReadRow(w) \/ ReadCollection(w) \/ CheckCap(w) => UNCHANGED <<coll, rows, clientVars>>
  BY DEF ReadRow, ReadCollection, CheckCap
<1>6. CheckCap(w) => Finish(w) \/ (Goto(w, "begin") /\ UNCHANGED <<wjob, out, lock>>)
  BY DEF CheckCap
<1> QED BY <1>1, <1>2, <1>3, <1>4, <1>5, <1>6

(* The bump takes the lock, which nobody had.                              *)
LEMMA BumpKeeps ==
  ASSUME TableInv, NEW w \in Writers, Bump(w)
  PROVE  TableInv'
<1>0. TypeOK /\ wjob[w] \in WriterJob /\ wjob \in [Writers -> WriterJob] /\ coll.gen \in Nat
      /\ coll.seq \in Nat /\ coll.exists \in BOOLEAN
  BY DEF TableInv, TypeOK
<1>1. CASE Finish(w)
  BY <1>0, <1>1, FinishKeeps DEF Bump, TypeOK, clientVars
<1>2. CASE ~Finish(w)
  <2> DEFINE g == IF coll.exists THEN coll.gen ELSE coll.gen + 1
             n == IF coll.exists THEN coll.seq + 1 ELSE 1
             j == [wjob[w] EXCEPT !.gen = g, !.seq = n]
  <2>1. /\ wjob[w].kind = "post" \/ (coll.exists /\ coll.gen = wjob[w].gen)
        /\ lock = Nobody /\ lock' = w /\ Goto(w, "locked")
        /\ wjob' = [wjob EXCEPT ![w] = j]
        /\ UNCHANGED <<coll, rows, out, clientVars>>
    BY <1>0, <1>2 DEF Bump
  <2>2. j \in WriterJob /\ j.gen = g /\ j.seq = n /\ j.kind = wjob[w].kind
    <3>1. g \in Nat /\ n \in Nat
      BY <1>0
    <3>2. wjob[w] \in WriterJob
      BY <1>0
    <3> HIDE DEF g, n
    <3> QED BY <3>1, <3>2 DEF WriterJob
  <2>3. TypeOK'
    BY <1>0, <2>1, <2>2 DEF TypeOK, Goto, clientVars
  <2>4. LockInv'
    <3>1. \A v \in Writers : pc[v] # "locked"
      BY <2>1, RecordsAssumption DEF TableInv, LockInv
    <3>2. \A v \in Writers : pc'[v] = "locked" <=> lock' = v
      BY <1>0, <2>1, <3>1 DEF TypeOK, Goto
    <3>3. wjob'[w] = j
      BY <1>0, <2>1
    <3>4. \A v \in Writers : pc'[v] = "locked" => v = w
      BY <2>1, <3>2
    <3>5. IF coll'.exists
          THEN wjob'[w].gen = coll'.gen /\ wjob'[w].seq = coll'.seq + 1
          ELSE wjob'[w].kind = "post" /\ wjob'[w].gen = coll'.gen + 1 /\ wjob'[w].seq = 1
      BY <2>1, <2>2, <3>3
    <3> HIDE DEF j
    <3> QED BY <3>2, <3>4, <3>5 DEF LockInv
  <2>5. RowsInv' /\ OutInv'
    BY <2>1 DEF TableInv, RowsInv, OutInv, Kept
  <2> QED BY <2>3, <2>4, <2>5 DEF TableInv
<1> QED BY <1>1, <1>2

-----------------------------------------------------------------------------
(* What concerns the readers stays as it is while the table and what they  *)
(* hold do not change.                                                     *)
LEMMA ReadersUntouched ==
  ASSUME CursorInv, ReaderInSync, UNCHANGED <<coll, rows>>,
         \A c \in Readers : /\ cursor'[c] = cursor[c] /\ brought'[c] = brought[c]
                            /\ copy'[c] = copy[c]
  PROVE  CursorInv' /\ ReaderInSync'
<1>1. CursorInv'
  BY DEF CursorInv
<1>2. ReaderInSync'
  BY DEF ReaderInSync, Kept, Live
<1> QED BY <1>1, <1>2

(* Both statements of a write become visible: the row carries the seq that *)
(* was bumped, which no cursor of this collection has reached.             *)
LEMMA WriteKeeps ==
  ASSUME RecordsInv, NEW w \in Writers, pc[w] = "locked",
         NEW row \in Row, row.seq = wjob[w].seq, Write(w, row)
  PROVE  RecordsInv'
<1>0. /\ TypeOK /\ LockInv /\ RowsInv /\ OutInv /\ CursorInv /\ ReaderInSync
      /\ wjob[w] \in WriterJob /\ coll.gen \in Nat /\ coll.seq \in Nat
      /\ coll.exists \in BOOLEAN
  BY DEF RecordsInv, TableInv, TypeOK
<1> DEFINE key == wjob[w].key
           d == [key |-> key, seq |-> wjob[w].seq, live |-> wjob[w].kind # "delete"]
<1>1. /\ coll' = [exists |-> TRUE, gen |-> wjob[w].gen, seq |-> wjob[w].seq]
      /\ rows' = [rows EXCEPT ![key] = row]
      /\ lock' = Nobody
      /\ out' = [out EXCEPT ![w] = {d}]
      /\ brought' = IF coll.exists THEN brought ELSE cursor
      /\ Goto(w, "publish")
      /\ UNCHANGED <<wjob, cursor, copy>>
  BY DEF Write
<1>2. /\ key \in Keys /\ d \in Delta
      /\ wjob[w].gen \in Nat /\ wjob[w].seq \in Nat
  BY <1>0 DEF WriterJob, Delta
<1>3. IF coll.exists
      THEN wjob[w].gen = coll.gen /\ wjob[w].seq = coll.seq + 1
      ELSE wjob[w].gen = coll.gen + 1 /\ wjob[w].seq = 1
  BY <1>0 DEF LockInv
<1>4. rows \in [Keys -> Row] /\ rows'[key] = row /\ \A k \in Keys \ {key} : rows'[k] = rows[k]
  BY <1>0, <1>1, <1>2 DEF TypeOK
<1>5. coll'.exists = TRUE /\ coll'.gen = wjob[w].gen /\ coll'.seq = wjob[w].seq
  BY <1>1
<1> HIDE DEF key, d
<1>6. TypeOK'
  <2>1. coll' \in [exists : BOOLEAN, gen : Nat, seq : Nat]
    BY <1>1, <1>2
  <2>2. rows' \in [Keys -> Row] /\ out' \in [Writers -> SUBSET Delta]
    BY <1>0, <1>1, <1>2 DEF TypeOK
  <2>3. lock' \in Writers \cup {Nobody}
    BY <1>1
  <2>4. pc' \in [Writers -> {"idle", "cap", "begin", "bump", "locked", "lookup",
                             "publish"}]
    BY <1>0, <1>1 DEF TypeOK, Goto
  <2>5. brought' \in [Clients -> Nat]
    BY <1>0, <1>1 DEF TypeOK
  <2> QED BY <1>0, <1>1, <2>1, <2>2, <2>3, <2>4, <2>5 DEF TypeOK
<1>7. LockInv'
  <2>1. \A v \in Writers : pc'[v] # "locked"
    BY <1>0, <1>1 DEF TypeOK, LockInv, Goto
  <2>2. \A v \in Writers : lock' # v
    BY <1>1, RecordsAssumption
  <2> QED BY <2>1, <2>2 DEF LockInv
<1>8. RowsInv'
  <2> SUFFICES ASSUME NEW k \in Keys, rows'[k].born # 0
               PROVE  coll'.exists /\ rows'[k].seq \in 1 .. coll'.seq
    BY DEF RowsInv, Kept
  <2>1. CASE k = key
    BY <1>0, <1>2, <1>3, <1>4, <1>5, <2>1
  <2>2. CASE k # key
    <3>1. coll.exists /\ rows[k].seq \in 1 .. coll.seq
      BY <1>0, <1>4, <2>2 DEF RowsInv, Kept
    <3> QED BY <1>0, <1>3, <1>4, <1>5, <2>2, <3>1
  <2> QED BY <2>1, <2>2
<1>9. OutInv'
  <2>1. out'[w] = {d} /\ \A v \in Writers \ {w} : out'[v] = out[v]
    BY <1>0, <1>1 DEF TypeOK
  <2>2. d.seq \in Nat /\ d.seq <= d.seq
    BY <1>2 DEF Delta
  <2> QED BY <1>0, <2>1, <2>2 DEF OutInv
<1>10. ASSUME NEW c \in Readers
       PROVE  /\ cursor'[c] = cursor[c] /\ copy'[c] = copy[c]
              /\ cursor[c] \in Nat /\ brought'[c] \in Nat /\ brought'[c] <= cursor[c]
              /\ cursor[c] < wjob[w].seq \/ cursor[c] = brought'[c]
              /\ coll.exists => brought'[c] = brought[c]
  <2>1. /\ cursor'[c] = cursor[c] /\ copy'[c] = copy[c]
        /\ cursor[c] \in Nat /\ brought[c] \in Nat /\ brought[c] <= cursor[c]
        /\ cursor[c] <= coll.seq \/ cursor[c] = brought[c]
    BY <1>0, <1>1 DEF TypeOK, CursorInv, Clients
  <2>2. CASE coll.exists
    <3>1. brought'[c] = brought[c]
      BY <1>1, <2>2
    <3> QED BY <1>0, <1>2, <1>3, <2>1, <2>2, <3>1
  <2>3. CASE ~coll.exists
    <3>1. brought'[c] = cursor[c]
      BY <1>1, <2>3
    <3> QED BY <2>1, <2>3, <3>1
  <2> QED BY <1>0, <2>2, <2>3
<1>11. CursorInv'
  <2> SUFFICES ASSUME NEW c \in Readers
               PROVE  /\ brought'[c] <= cursor'[c]
                      /\ cursor'[c] <= coll'.seq \/ cursor'[c] = brought'[c]
    BY DEF CursorInv
  <2> QED BY <1>2, <1>5, <1>10
<1>12. ReaderInSync'
  <2> SUFFICES ASSUME NEW c \in Readers, NEW k \in Keys, rows'[k].born # 0,
                      brought'[c] < rows'[k].seq, rows'[k].seq <= cursor'[c]
               PROVE  copy'[c][k] = (IF rows'[k].born # 0 /\ ~rows'[k].deleted
                                     THEN rows'[k].seq ELSE 0)
    BY DEF ReaderInSync, Kept, Live
  <2>1. k # key
    BY <1>2, <1>4, <1>10
  <2>2. rows'[k] = rows[k] /\ coll.exists
    BY <1>0, <1>4, <2>1 DEF RowsInv, Kept
  <2>3. brought[c] < rows[k].seq /\ rows[k].seq <= cursor[c]
    BY <1>10, <2>2
  <2> QED BY <1>0, <1>10, <2>2, <2>3 DEF ReaderInSync, Kept, Live
<1> QED BY <1>6, <1>7, <1>8, <1>9, <1>11, <1>12 DEF RecordsInv, TableInv

LEMMA CommitKeeps ==
  ASSUME RecordsInv, NEW w \in Writers, CommitPost(w) \/ CommitChange(w)
  PROVE  RecordsInv'
<1>0. /\ TableInv /\ TypeOK /\ LockInv /\ CursorInv /\ ReaderInSync /\ pc[w] = "locked"
      /\ wjob[w] \in WriterJob /\ wjob[w].key \in Keys /\ wjob[w].seq \in Nat
      /\ rows[wjob[w].key] \in Row
  BY DEF RecordsInv, TableInv, TypeOK, WriterJob, CommitPost, CommitChange
<1>1. CASE CommitPost(w) /\ ~Kept(wjob[w].key)
  <2> DEFINE row == [born |-> wjob[w].seq, version |-> 1, seq |-> wjob[w].seq,
                     deleted |-> FALSE]
  <2>1. Write(w, row)
    BY <1>1 DEF CommitPost
  <2>2. row \in Row /\ row.seq = wjob[w].seq
    BY <1>0 DEF Row
  <2> HIDE DEF row
  <2> QED BY <1>0, <2>1, <2>2, WriteKeeps
<1>2. CASE CommitPost(w) /\ Kept(wjob[w].key)
  <2>1. /\ Goto(w, "lookup") /\ lock' = Nobody
        /\ UNCHANGED <<coll, rows, wjob, out, clientVars>>
    BY <1>2 DEF CommitPost
  <2>2. TypeOK'
    BY <1>0, <2>1 DEF TypeOK, Goto, clientVars
  <2>3. LockInv'
    <3>1. \A v \in Writers : pc'[v] # "locked" /\ lock' # v
      BY <1>0, <2>1, RecordsAssumption DEF TypeOK, LockInv, Goto
    <3> QED BY <3>1 DEF LockInv
  <2>4. RowsInv' /\ OutInv'
    BY <2>1 DEF RecordsInv, TableInv, RowsInv, OutInv, Kept
  <2>5. CursorInv' /\ ReaderInSync'
    BY <1>0, <2>1, ReadersUntouched DEF clientVars
  <2> QED BY <2>2, <2>3, <2>4, <2>5 DEF RecordsInv, TableInv
<1>3. CASE CommitChange(w) /\ rows[wjob[w].key].born = wjob[w].born
  <2> DEFINE old == rows[wjob[w].key]
             row == IF wjob[w].kind = "patch"
                    THEN [old EXCEPT !.version = @ + 1, !.seq = wjob[w].seq]
                    ELSE [old EXCEPT !.deleted = TRUE, !.seq = wjob[w].seq]
  <2>1. Write(w, row)
    BY <1>3 DEF CommitChange
  <2>2. row \in Row /\ row.seq = wjob[w].seq
    <3>1. old \in Row
      BY <1>0
    <3> HIDE DEF old
    <3>2. CASE wjob[w].kind = "patch"
      <4>1. old.version + 1 \in Nat
        BY <3>1 DEF Row
      <4>2. \A v \in Nat, n \in Nat :
               /\ [old EXCEPT !.version = v, !.seq = n] \in Row
               /\ [old EXCEPT !.version = v, !.seq = n].seq = n
        BY <3>1 DEF Row
      <4>3. row = [old EXCEPT !.version = old.version + 1, !.seq = wjob[w].seq]
        BY <3>2
      <4> HIDE DEF row
      <4> QED BY <1>0, <4>1, <4>2, <4>3
    <3>3. CASE wjob[w].kind # "patch"
      BY <1>0, <3>1, <3>3 DEF Row
    <3> QED BY <3>2, <3>3
  <2> HIDE DEF row
  <2> QED BY <1>0, <2>1, <2>2, WriteKeeps
<1>4. CASE CommitChange(w) /\ rows[wjob[w].key].born # wjob[w].born
  <2>1. Finish(w) /\ UNCHANGED <<coll, rows, clientVars>>
    BY <1>4 DEF CommitChange
  <2>2. TableInv'
    BY <1>0, <2>1, FinishKeeps DEF TypeOK, clientVars
  <2>3. CursorInv' /\ ReaderInSync'
    BY <1>0, <2>1, ReadersUntouched DEF clientVars
  <2> QED BY <2>2, <2>3 DEF RecordsInv
<1> QED BY <1>1, <1>2, <1>3, <1>4

(* Rows vanish: no cursor has anything left to be in step with.            *)
LEMMA SweepKeeps ==
  ASSUME RecordsInv, NEW k \in Keys, Sweep(k)
  PROVE  RecordsInv'
<1>0. TypeOK /\ LockInv /\ RowsInv /\ OutInv /\ CursorInv /\ ReaderInSync
  BY DEF RecordsInv, TableInv
<1>1. /\ rows' = [rows EXCEPT ![k] = NoRecord]
      /\ UNCHANGED <<coll, lock, pc, wjob, out, clientVars>>
  BY DEF Sweep
<1>2. \A i \in Keys : rows'[i] = rows[i] \/ rows'[i] = NoRecord
  BY <1>0, <1>1 DEF TypeOK
<1>3. TypeOK'
  BY <1>0, <1>1, NoJobTyped DEF TypeOK, clientVars
<1>4. LockInv' /\ OutInv' /\ CursorInv'
  BY <1>0, <1>1 DEF LockInv, OutInv, CursorInv, clientVars
<1>5. RowsInv' /\ ReaderInSync'
  BY <1>0, <1>1, <1>2 DEF RowsInv, ReaderInSync, Kept, Live, NoRecord, clientVars
<1> QED BY <1>3, <1>4, <1>5 DEF RecordsInv, TableInv

LEMMA DropKeeps ==
  ASSUME RecordsInv, NEW w \in Writers, CommitDrop(w)
  PROVE  RecordsInv'
<1>0. /\ TableInv /\ TypeOK /\ LockInv /\ RowsInv /\ OutInv /\ CursorInv /\ ReaderInSync
      /\ wjob[w] \in WriterJob /\ wjob[w].gen \in Nat /\ wjob[w].seq \in Nat
      /\ wjob[w].victims \subseteq Keys
  BY DEF RecordsInv, TableInv, TypeOK, WriterJob
<1>1. CASE coll.exists /\ coll.gen = wjob[w].gen
  <2> DEFINE V == wjob[w].victims
             N == Cardinality(V)
  <2>1. PICK nth \in [V -> 1 .. N] :
          /\ \A j, k \in V : nth[j] = nth[k] => j = k
          /\ out' = [out EXCEPT ![w] =
                {[key |-> k, seq |-> wjob[w].seq + nth[k], live |-> FALSE]
                    : k \in V}]
    BY <1>1 DEF CommitDrop
  <2>2. /\ coll' = [coll EXCEPT !.exists = FALSE]
        /\ rows' = [k \in Keys |-> NoRecord]
        /\ Goto(w, "publish") /\ lock = Nobody /\ UNCHANGED <<lock, wjob, clientVars>>
    BY <1>1 DEF CommitDrop
  <2>3. N \in Nat
    BY <1>0, RecordsAssumption, FS_Subset, FS_CardinalityType
  <2> DEFINE batch == {[key |-> k, seq |-> wjob[w].seq + nth[k], live |-> FALSE]
                    : k \in V}
  <2> HIDE DEF V, N
  <2>4. /\ batch \in SUBSET Delta
        /\ \A d \in batch : d.seq <= wjob[w].seq + N
        /\ \A d, e \in batch : d.key = e.key => d = e
    <3>1. V \subseteq Keys
      BY <1>0 DEF V
    <3>2. \A k \in V : nth[k] \in Nat /\ nth[k] <= N
      BY <2>3
    <3>3. ASSUME NEW d \in batch
          PROVE  d \in Delta /\ d.key \in V /\ d.seq <= wjob[w].seq + N
                 /\ d = [key |-> d.key, seq |-> wjob[w].seq + nth[d.key],
                         live |-> FALSE]
      <4>1. PICK k \in V : d = [key |-> k, seq |-> wjob[w].seq + nth[k],
                                live |-> FALSE]
        OBVIOUS
      <4>2. wjob[w].seq + nth[k] \in Nat /\ wjob[w].seq + nth[k] <= wjob[w].seq + N
        BY <1>0, <2>3, <3>2
      <4> QED BY <1>0, <3>1, <4>1, <4>2 DEF Delta
    <3> HIDE DEF batch
    <3> QED BY <3>3
  <2>5. out' = [out EXCEPT ![w] = batch]
    BY <2>1
  <2> HIDE DEF batch
  <2>6. TypeOK'
    BY <1>0, <2>2, <2>4, <2>5, NoJobTyped DEF TypeOK, Goto, clientVars
  <2>7. LockInv'
    <3>1. \A v \in Writers : pc'[v] # "locked" /\ lock' # v
      BY <1>0, <2>2, RecordsAssumption DEF TypeOK, LockInv, Goto
    <3> QED BY <3>1 DEF LockInv
  <2>8. RowsInv' /\ ReaderInSync'
    BY <2>2 DEF RowsInv, ReaderInSync, Kept, NoRecord
  <2>9. OutInv'
    <3>1. out'[w] = batch /\ \A v \in Writers \ {w} : out'[v] = out[v]
      BY <1>0, <2>5 DEF TypeOK
    <3>2. wjob[w].seq + N \in Nat
      BY <1>0, <2>3
    <3> QED BY <1>0, <2>4, <3>1, <3>2 DEF OutInv
  <2>10. CursorInv'
    BY <1>0, <2>2 DEF CursorInv, TypeOK, clientVars
  <2> QED BY <2>6, <2>7, <2>8, <2>9, <2>10 DEF RecordsInv, TableInv
<1>2. CASE ~(coll.exists /\ coll.gen = wjob[w].gen)
  <2>1. Finish(w) /\ UNCHANGED <<coll, rows, clientVars>>
    BY <1>2 DEF CommitDrop
  <2>2. TableInv'
    BY <1>0, <2>1, FinishKeeps DEF TypeOK, clientVars
  <2>3. CursorInv' /\ ReaderInSync'
    BY <1>0, <2>1, ReadersUntouched DEF clientVars
  <2> QED BY <2>2, <2>3 DEF RecordsInv
<1> QED BY <1>1, <1>2

(* A broadcast moves the stores of shells, and no reader.                  *)
LEMMA PublishKeeps ==
  ASSUME RecordsInv, NEW w \in Writers, Publish(w)
  PROVE  RecordsInv'
<1>0. TableInv /\ TypeOK /\ OutInv /\ CursorInv /\ ReaderInSync
  BY DEF RecordsInv, TableInv
<1> DEFINE batch(c) == IF c \in Subscribers THEN out[w] ELSE {}
<1>1. /\ cursor' = [c \in Clients |-> Fold(c, batch(c)).cursor]
      /\ copy' = [c \in Clients |-> Fold(c, batch(c)).copy]
      /\ Finish(w) /\ UNCHANGED <<coll, rows, brought>>
  <2>1. \A c \in Clients :
           (IF c \in Subscribers THEN Fold(c, out[w]) ELSE Fold(c, {})) = Fold(c, batch(c))
    OBVIOUS
  <2> HIDE DEF batch
  <2> QED BY <2>1 DEF Publish
<1>2. PICK n \in Nat : \A d \in out[w] : d.seq <= n
  BY <1>0 DEF OutInv
<1>3. ASSUME NEW c \in Clients
      PROVE  /\ cursor[c] \in Nat /\ copy[c] \in [Keys -> Nat]
             /\ batch(c) \in SUBSET Delta /\ \A d \in batch(c) : d.seq <= n
             /\ \A d, e \in batch(c) : d.key = e.key => d = e
  BY <1>0, <1>2 DEF TypeOK, OutInv
<1> HIDE DEF batch
<1>4. ASSUME NEW c \in Clients
      PROVE  /\ Fold(c, batch(c)).cursor \in Nat
             /\ Fold(c, batch(c)).copy \in [Keys -> Nat]
  BY <1>3, FoldFacts
<1>5. ASSUME NEW c \in Readers
      PROVE  cursor'[c] = cursor[c] /\ brought'[c] = brought[c] /\ copy'[c] = copy[c]
  <2>1. c \in Clients /\ batch(c) = {}
    BY RecordsAssumption DEF Clients, batch
  <2>2. /\ cursor[c] \in Nat /\ copy[c] \in [Keys -> Nat]
    BY <1>3, <2>1
  <2> DEFINE f == Fold(c, {})
  <2>3. /\ f.copy \in [Keys -> Nat]
        /\ f.cursor = cursor[c] \/ \E d \in {} : f.cursor = d.seq
        /\ \A k \in Keys : (\A d \in {} : d.key = k => d.seq <= cursor[c])
                              => f.copy[k] = copy[c][k]
    <3>1. {} \in SUBSET Delta /\ (\A d \in {} : d.seq <= n)
          /\ \A d, e \in {} : d.key = e.key => d = e
      OBVIOUS
    <3> QED BY <2>1, <2>2, <3>1, FoldFacts
  <2>4. f.cursor = cursor[c] /\ f.copy = copy[c]
    <3> HIDE DEF f
    <3> QED BY <2>2, <2>3
  <2> QED BY <1>1, <2>1, <2>4
<1>6. /\ cursor' \in [Clients -> Nat] /\ copy' \in [Clients -> [Keys -> Nat]]
      /\ brought' \in [Clients -> Nat]
  BY <1>0, <1>1, <1>4 DEF TypeOK
<1>7. TableInv'
  BY <1>0, <1>1, <1>6, FinishKeeps
<1>8. CursorInv' /\ ReaderInSync'
  BY <1>0, <1>1, <1>5, ReadersUntouched
<1> QED BY <1>7, <1>8 DEF RecordsInv

(* A page holds every row between the cursor and its last row, so that the *)
(* reader may go on from there.                                            *)
LEMMA PollKeeps ==
  ASSUME RecordsInv, NEW c \in Readers, Poll(c)
  PROVE  RecordsInv'
<1>0. TableInv /\ TypeOK /\ RowsInv /\ CursorInv /\ ReaderInSync /\ c \in Clients
  BY DEF RecordsInv, TableInv, Clients
<1> DEFINE P == Page(cursor[c])
           delta(k) == [key |-> k, seq |-> rows[k].seq, live |-> Live(k)]
           batch == {delta(k) : k \in P}
           f == Fold(c, batch)
<1>1. /\ cursor' = [cursor EXCEPT ![c] = f.cursor]
      /\ copy' = [copy EXCEPT ![c] = f.copy]
      /\ UNCHANGED <<coll, rows, lock, pc, wjob, out, brought>>
  BY DEF Poll
<1>2. /\ cursor[c] \in Nat /\ copy[c] \in [Keys -> Nat] /\ brought[c] \in Nat
      /\ coll.gen \in Nat /\ coll.seq \in Nat
      /\ \A k \in Keys : rows[k].seq \in Nat
  BY <1>0 DEF TypeOK, Row
<1>3. P \subseteq Above(cursor[c]) /\ Above(cursor[c]) \subseteq Keys
      /\ \A k \in Above(cursor[c]) : Kept(k) /\ rows[k].seq > cursor[c]
  BY DEF Page, Above
<1>4. /\ batch \in SUBSET Delta /\ \A d \in batch : d.seq <= coll.seq
      /\ \A d, e \in batch : d.key = e.key => d = e
      /\ \A d \in batch : d.key \in P /\ d = delta(d.key)
  <2>1. ASSUME NEW k \in P
        PROVE  k \in Keys /\ delta(k) \in Delta /\ rows[k].seq <= coll.seq
    <3>1. k \in Keys /\ rows[k].seq \in 1 .. coll.seq
      BY <1>0, <1>3 DEF RowsInv
    <3>2. Live(k) \in BOOLEAN
      BY DEF Live
    <3> QED BY <1>2, <3>1, <3>2 DEF Delta
  <2> HIDE DEF P
  <2> QED BY <2>1
<1>5. /\ f.cursor \in Nat /\ f.copy \in [Keys -> Nat]
      /\ cursor[c] <= f.cursor
      /\ f.cursor = cursor[c] \/ \E d \in batch : f.cursor = d.seq
      /\ \A k \in Keys : (\A d \in batch : d.key = k => d.seq <= cursor[c])
                            => f.copy[k] = copy[c][k]
      /\ \A d \in batch : d.seq > cursor[c] =>
            f.copy[d.key] = (IF d.live THEN d.seq ELSE 0)
  <2> HIDE DEF batch
  <2> QED BY <1>0, <1>2, <1>4, FoldFacts
<1> HIDE DEF f
<1>6. /\ cursor'[c] = f.cursor /\ copy'[c] = f.copy
      /\ \A e \in Readers \ {c} : cursor'[e] = cursor[e] /\ copy'[e] = copy[e]
  BY <1>0, <1>1 DEF TypeOK, Clients
<1>7. TypeOK'
  BY <1>0, <1>1, <1>5 DEF TypeOK
<1>8. LockInv' /\ RowsInv' /\ OutInv'
  BY <1>1 DEF RecordsInv, TableInv, LockInv, RowsInv, OutInv, Kept
<1>10. CursorInv'
  <2>1. /\ brought[c] <= cursor[c]
        /\ cursor[c] <= coll.seq \/ cursor[c] = brought[c]
    BY <1>0 DEF CursorInv
  <2>2. f.cursor = cursor[c] \/ f.cursor <= coll.seq
    <3> HIDE DEF batch
    <3> QED BY <1>4, <1>5
  <2>3. brought[c] <= f.cursor /\ (f.cursor <= coll.seq \/ f.cursor = brought[c])
    BY <1>2, <1>5, <2>1, <2>2
  <2> HIDE DEF P, batch
  <2> QED BY <1>0, <1>1, <1>6, <2>3 DEF CursorInv
<1>11. ASSUME NEW k \in Keys, Kept(k), brought[c] < rows[k].seq,
              rows[k].seq <= f.cursor
       PROVE  f.copy[k] = (IF Live(k) THEN rows[k].seq ELSE 0)
  <2>1. CASE rows[k].seq <= cursor[c]
    <3>1. k \notin P
      BY <1>2, <1>3, <2>1
    <3>2. \A d \in batch : d.key # k
      BY <1>4, <3>1
    <3>3. f.copy[k] = copy[c][k]
      BY <1>5, <3>2
    <3> QED BY <1>0, <1>11, <2>1, <3>3 DEF ReaderInSync
  <2>2. CASE rows[k].seq > cursor[c]
    <3> DEFINE A == Above(cursor[c])
               below(i) == {j \in A : rows[j].seq < rows[i].seq}
    <3>1. PICK p \in P : rows[k].seq <= rows[p].seq
      <4>1. PICK d \in batch : f.cursor = d.seq
        BY <1>2, <1>5, <1>11, <2>2
      <4> QED BY <1>4, <1>11, <4>1
    <3>2. IsFiniteSet(A)
      BY <1>3, RecordsAssumption, FS_Subset
    <3>3. below(k) \subseteq below(p) /\ below(p) \subseteq A
      BY <1>2, <1>3, <3>1
    <3>4. Cardinality(below(p)) < PageSize
      BY DEF Page
    <3>5. /\ Cardinality(below(k)) \in Nat /\ Cardinality(below(p)) \in Nat
          /\ Cardinality(below(k)) <= Cardinality(below(p))
      <4> HIDE DEF A, below
      <4>1. IsFiniteSet(below(p))
        BY <3>2, <3>3, FS_Subset
      <4> QED BY <3>3, <4>1, FS_Subset, FS_CardinalityType
    <3>6. k \in A
      BY <1>11, <2>2 DEF Above
    <3>7. k \in P
      <4>1. Cardinality(below(k)) < PageSize
        <5> HIDE DEF below
        <5> QED BY <3>4, <3>5, RecordsAssumption
      <4> QED BY <3>6, <4>1 DEF Page
    <3>8. delta(k) \in batch
      BY <3>7
    <3>9. f.copy[k] = (IF delta(k).live THEN delta(k).seq ELSE 0)
      <4>1. delta(k).key = k /\ delta(k).seq = rows[k].seq
        OBVIOUS
      <4> HIDE DEF batch, delta
      <4> QED BY <1>5, <2>2, <3>8, <4>1
    <3> QED BY <3>9
  <2> QED BY <1>2, <2>1, <2>2
<1>12. ReaderInSync'
  <2> HIDE DEF P, batch
  <2> SUFFICES ASSUME NEW e \in Readers, NEW k \in Keys, Kept(k),
                      brought[e] < rows[k].seq, rows[k].seq <= cursor'[e]
               PROVE  copy'[e][k] = (IF Live(k) THEN rows[k].seq ELSE 0)
    BY <1>1 DEF ReaderInSync, Kept, Live
  <2>1. CASE e = c
    BY <1>6, <1>11, <2>1
  <2>2. CASE e # c
    BY <1>0, <1>6, <2>2 DEF ReaderInSync
  <2> QED BY <2>1, <2>2
<1> QED BY <1>7, <1>8, <1>10, <1>12 DEF RecordsInv, TableInv

LEMMA WriterKeeps ==
  ASSUME RecordsInv, NEW w \in Writers, WriterStep(w)
  PROVE  RecordsInv'
<1>0. TableInv /\ TypeOK /\ CursorInv /\ ReaderInSync
  BY DEF RecordsInv, TableInv
<1>1. CASE CheckCap(w) \/ ReadRow(w) \/ ReadCollection(w)
  <2>1. UNCHANGED <<coll, rows, clientVars>>
    BY <1>1 DEF CheckCap, ReadRow, ReadCollection
  <2> QED BY <1>0, <1>1, <2>1, ReadKeeps, ReadersUntouched DEF RecordsInv, clientVars
<1>2. CASE Bump(w)
  <2>1. UNCHANGED <<coll, rows, clientVars>>
    BY <1>2 DEF Bump
  <2> QED BY <1>0, <1>2, <2>1, BumpKeeps, ReadersUntouched DEF RecordsInv, clientVars
<1>3. CASE CommitPost(w) \/ CommitChange(w)
  BY <1>3, CommitKeeps
<1>4. CASE LookUp(w) \/ Abort(w)
  <2>1. Finish(w) /\ UNCHANGED <<coll, rows, clientVars>>
    BY <1>4 DEF LookUp, Abort
  <2>2. TableInv'
    BY <1>0, <2>1, FinishKeeps DEF TypeOK, clientVars
  <2> QED BY <1>0, <2>1, <2>2, ReadersUntouched DEF RecordsInv, clientVars
<1>5. CASE CommitDrop(w)
  BY <1>5, DropKeeps
<1>6. CASE Publish(w)
  BY <1>6, PublishKeeps
<1> QED BY <1>1, <1>2, <1>3, <1>4, <1>5, <1>6 DEF WriterStep

LEMMA RecordsInvariant == Spec => []RecordsInv
<1>1. Init => RecordsInv
  BY RecordsInvInit
<1>2. RecordsInv /\ [Next]_vars => RecordsInv'
  <2> SUFFICES ASSUME RecordsInv, [Next]_vars PROVE RecordsInv'
    OBVIOUS
  <2>0. TableInv /\ CursorInv /\ ReaderInSync
    BY DEF RecordsInv
  <2>1. ASSUME NEW w \in Writers, NEW kind \in {"post", "patch", "delete", "drop"},
               NEW key \in Keys, NEW match \in 1 .. MaxSeq \cup {NoMatch},
               Receive(w, kind, key, match)
        PROVE  RecordsInv'
    <3>1. UNCHANGED <<coll, rows, clientVars>>
      BY <2>1 DEF Receive
    <3> QED BY <2>0, <2>1, <3>1, ReceiveKeeps, ReadersUntouched DEF RecordsInv, clientVars
  <2>2. ASSUME NEW w \in Writers, WriterStep(w) PROVE RecordsInv'
    BY <2>2, WriterKeeps
  <2>3. ASSUME NEW c \in Readers, Poll(c) PROVE RecordsInv'
    BY <2>3, PollKeeps
  <2>4. ASSUME NEW k \in Keys, Sweep(k) PROVE RecordsInv'
    BY <2>4, SweepKeeps
  <2>5. CASE UNCHANGED vars
    BY <2>5 DEF vars, RecordsInv, TableInv, TypeOK, LockInv, RowsInv, OutInv, CursorInv,
                ReaderInSync, Kept, Live
  <2> QED BY <2>1, <2>2, <2>3, <2>4, <2>5 DEF Next
<1> QED BY <1>1, <1>2, PTL DEF Spec

-----------------------------------------------------------------------------
(* The variables keep their types: requests only reach the stages named,   *)
(* and no counter falls below zero.                                        *)
THEOREM RecordsTypeCorrect == Spec => []TypeOK
<1>1. RecordsInv => TypeOK
  BY DEF RecordsInv, TableInv
<1> QED BY <1>1, RecordsInvariant, PTL

(* listRecords with ?since= misses nothing: a reader shows the current     *)
(* state of every row numbered above the cursor that it brought to the     *)
(* collection and up to the one it has reached.                            *)
THEOREM ReadersMissNothing == Spec => []ReaderInSync
<1>1. RecordsInv => ReaderInSync
  BY DEF RecordsInv
<1> QED BY <1>1, RecordsInvariant, PTL

(* Every commit of createRecord, patchRecord and deleteRecord carries a    *)
(* seq above all that were visible before it.                              *)
THEOREM CommitsAscend == Spec => SeqOrderIsCommitOrder
<1> DEFINE A == \A k \in Keys : rows'[k] # rows[k] /\ rows'[k].born # 0 =>
                   \A j \in Keys : Kept(j) => rows[j].seq < rows'[k].seq
<1>1. RecordsInv /\ [Next]_vars => [A]_vars
  <2> SUFFICES ASSUME RecordsInv, Next,
                      NEW k \in Keys, rows'[k] # rows[k], rows'[k].born # 0,
                      NEW j \in Keys, Kept(j)
               PROVE  rows[j].seq < rows'[k].seq
    BY DEF vars
  <2>0. TypeOK /\ LockInv /\ RowsInv /\ rows \in [Keys -> Row]
    BY DEF RecordsInv, TableInv, TypeOK
  <2>1. coll.exists /\ rows[j].seq \in 1 .. coll.seq /\ coll.seq \in Nat
    BY <2>0 DEF RowsInv, TypeOK
  <2>2. ASSUME NEW w \in Writers, NEW row, row.seq = wjob[w].seq, pc[w] = "locked",
               Write(w, row)
        PROVE  rows[j].seq < rows'[k].seq
    <3>1. rows' = [rows EXCEPT ![wjob[w].key] = row]
      BY <2>2 DEF Write
    <3>2. rows'[k] = row
      BY <2>0, <3>1
    <3>3. wjob[w].seq = coll.seq + 1
      BY <2>0, <2>1, <2>2 DEF LockInv
    <3> QED BY <2>1, <2>2, <3>2, <3>3
  <2>3. ASSUME NEW w \in Writers, CommitPost(w)
        PROVE  rows[j].seq < rows'[k].seq
    <3>1. CASE ~Kept(wjob[w].key)
      <4> DEFINE row == [born |-> wjob[w].seq, version |-> 1, seq |-> wjob[w].seq,
                         deleted |-> FALSE]
      <4>1. row.seq = wjob[w].seq /\ Write(w, row) /\ pc[w] = "locked"
        BY <2>3, <3>1 DEF CommitPost
      <4> HIDE DEF row
      <4> QED BY <2>2, <4>1
    <3>2. CASE Kept(wjob[w].key)
      BY <2>3, <3>2 DEF CommitPost
    <3> QED BY <3>1, <3>2
  <2>4. ASSUME NEW w \in Writers, CommitChange(w)
        PROVE  rows[j].seq < rows'[k].seq
    <3>1. CASE rows[wjob[w].key].born = wjob[w].born
      <4> DEFINE old == rows[wjob[w].key]
                 row == IF wjob[w].kind = "patch"
                        THEN [old EXCEPT !.version = @ + 1, !.seq = wjob[w].seq]
                        ELSE [old EXCEPT !.deleted = TRUE, !.seq = wjob[w].seq]
      <4>1. Write(w, row) /\ pc[w] = "locked"
        BY <2>4, <3>1 DEF CommitChange
      <4>2. row.seq = wjob[w].seq
        <5>1. old \in Row
          BY <2>0, <2>4 DEF TypeOK, WriterJob, CommitChange
        <5> HIDE DEF old
        <5> QED BY <5>1 DEF Row
      <4> HIDE DEF row
      <4> QED BY <2>2, <4>1, <4>2
    <3>2. CASE rows[wjob[w].key].born # wjob[w].born
      BY <2>4, <3>2 DEF CommitChange
    <3> QED BY <3>1, <3>2
  <2>5. ASSUME NEW w \in Writers, CommitDrop(w) PROVE FALSE
    BY <2>5 DEF CommitDrop, NoRecord
  <2>6. ASSUME NEW i \in Keys, Sweep(i) PROVE FALSE
    BY <2>0, <2>6 DEF Sweep, NoRecord
  <2>7. ASSUME NEW w \in Writers,
               CheckCap(w) \/ ReadRow(w) \/ ReadCollection(w) \/ Bump(w) \/ LookUp(w)
               \/ Publish(w) \/ Abort(w)
        PROVE  FALSE
    BY <2>7 DEF CheckCap, ReadRow, ReadCollection, Bump, LookUp, Publish, Abort
  <2>8. ASSUME NEW w \in Writers, NEW kind \in {"post", "patch", "delete", "drop"},
               NEW key \in Keys, NEW match \in 1 .. MaxSeq \cup {NoMatch},
               Receive(w, kind, key, match)
        PROVE  FALSE
    BY <2>8 DEF Receive
  <2>9. ASSUME NEW c \in Readers, Poll(c) PROVE FALSE
    BY <2>9 DEF Poll
  <2> QED BY <2>3, <2>4, <2>5, <2>6, <2>7, <2>8, <2>9 DEF Next, WriterStep
<1> QED BY <1>1, RecordsInvariant, PTL DEF Spec, SeqOrderIsCommitOrder

-----------------------------------------------------------------------------
(***************************************************************************)
(* On SQLite, where one transaction runs at a time and is broadcast before *)
(* the next begins: what the transactions may rely on.                     *)
(***************************************************************************)
Busy == {"bump", "locked", "publish"}

(* One request at a time is in its transaction or at its broadcast; until  *)
(* it commits, the row or the collection it has read is as it read it.     *)
TurnInv ==
    /\ \A v, w \in Writers : pc[v] \in Busy /\ pc[w] \in Busy => v = w
    /\ \A w \in Writers :
          /\ wjob[w].match # NoMatch => wjob[w].kind \in {"patch", "delete"}
          /\ pc[w] = "bump" => wjob[w].kind # "post"
          /\ pc[w] = "locked" => wjob[w].kind # "drop"
          /\ pc[w] \in {"bump", "locked"} /\ wjob[w].kind \in {"patch", "delete"} =>
                /\ Live(wjob[w].key)
                /\ wjob[w].match \in {NoMatch, rows[wjob[w].key].version}
          /\ pc[w] = "bump" /\ wjob[w].kind = "drop" =>
                /\ wjob[w].seq = coll.seq
                /\ wjob[w].victims = {k \in Keys : Live(k)}

(* A broadcast tells what the table shows: its rows are still those that   *)
(* were committed, or swept tombstones, or went with their collection.     *)
BatchInv ==
    \A w \in Writers : pc[w] = "publish" =>
        /\ wjob[w].kind # "drop" => coll.exists
        /\ \A d \in out[w] :
              /\ coll.exists => d.seq <= coll.seq
              /\ Kept(d.key) => rows[d.key].seq = d.seq
              /\ d.live <=> Live(d.key)

SerialInv == TurnInv /\ BatchInv

LEMMA SerialInvInit == Init => SerialInv
BY DEF Init, SerialInv, TurnInv, BatchInv, NoWriterJob, Busy

(* A request ends.                                                         *)
LEMMA FinishTurn ==
  ASSUME TypeOK, SerialInv, NEW w \in Writers, Finish(w), UNCHANGED <<coll, rows>>
  PROVE  SerialInv'
<1>1. /\ pc'[w] = "idle" /\ wjob'[w] = NoWriterJob
      /\ \A v \in Writers \ {w} : pc'[v] = pc[v] /\ wjob'[v] = wjob[v] /\ out'[v] = out[v]
  BY DEF TypeOK, Finish, Goto
<1>2. \A k \in Keys : Live(k)' = Live(k) /\ Kept(k)' = Kept(k)
  BY DEF Live, Kept
<1>3. wjob'[w].match = NoMatch
  BY <1>1 DEF NoWriterJob
<1>4. {k \in Keys : Live(k)}' = {k \in Keys : Live(k)}
  BY <1>2
<1>5. TurnInv'
  <2> SUFFICES ASSUME NEW v \in Writers
               PROVE  /\ \A u \in Writers : pc'[u] \in Busy /\ pc'[v] \in Busy => u = v
                      /\ wjob'[v].match # NoMatch => wjob'[v].kind \in {"patch", "delete"}
                      /\ pc'[v] = "bump" => wjob'[v].kind # "post"
                      /\ pc'[v] = "locked" => wjob'[v].kind # "drop"
                      /\ pc'[v] \in {"bump", "locked"} /\ wjob'[v].kind \in {"patch", "delete"} =>
                            /\ Live(wjob[v].key)' /\ wjob'[v].match \in {NoMatch, rows'[wjob'[v].key].version}
                      /\ pc'[v] = "bump" /\ wjob'[v].kind = "drop" =>
                            /\ wjob'[v].seq = coll'.seq
                            /\ wjob'[v].victims = {k \in Keys : Live(k)}'
    BY DEF TurnInv, Busy
  <2>1. CASE v = w
    BY <1>1, <1>3, <2>1 DEF Busy
  <2>2. CASE v # w
    BY <1>1, <1>4, <2>2 DEF SerialInv, TurnInv, Live, Kept, Busy
  <2> QED BY <2>1, <2>2
<1>6. BatchInv'
  BY <1>1 DEF SerialInv, BatchInv, Live, Kept
<1> QED BY <1>5, <1>6 DEF SerialInv


(* A request goes on, the table and the broadcasts untouched; for w the    *)
(* caller says what its new stage calls for.                               *)
LEMMA StageTurn ==
  ASSUME TypeOK, SerialInv, NEW w \in Writers,
         NEW step \in {"cap", "begin", "bump", "locked", "lookup"}, Goto(w, step),
         UNCHANGED <<coll, rows, out>>,
         NEW j, wjob' = [wjob EXCEPT ![w] = j],
         step \in Busy => \A v \in Writers \ {w} : pc[v] \notin Busy,
         j.match # NoMatch => j.kind \in {"patch", "delete"},
         step = "bump" => j.kind # "post",
         step = "locked" => j.kind # "drop",
         step \in {"bump", "locked"} /\ j.kind \in {"patch", "delete"} =>
            Live(j.key) /\ j.match \in {NoMatch, rows[j.key].version},
         step = "bump" /\ j.kind = "drop" =>
            j.seq = coll.seq /\ j.victims = {k \in Keys : Live(k)}
  PROVE  SerialInv'
<1>1. /\ pc'[w] = step /\ wjob'[w] = j
      /\ \A v \in Writers \ {w} : pc'[v] = pc[v] /\ wjob'[v] = wjob[v]
  BY DEF TypeOK, Goto
<1>2. TurnInv'
  <2> SUFFICES ASSUME NEW v \in Writers
               PROVE  /\ \A u \in Writers : pc'[u] \in Busy /\ pc'[v] \in Busy => u = v
                      /\ wjob'[v].match # NoMatch => wjob'[v].kind \in {"patch", "delete"}
                      /\ pc'[v] = "bump" => wjob'[v].kind # "post"
                      /\ pc'[v] = "locked" => wjob'[v].kind # "drop"
                      /\ pc'[v] \in {"bump", "locked"} /\ wjob'[v].kind \in {"patch", "delete"} =>
                            /\ Live(wjob[v].key)' /\ wjob'[v].match \in {NoMatch, rows'[wjob'[v].key].version}
                      /\ pc'[v] = "bump" /\ wjob'[v].kind = "drop" =>
                            /\ wjob'[v].seq = coll'.seq
                            /\ wjob'[v].victims = {k \in Keys : Live(k)}'
    BY DEF TurnInv, Busy
  <2>1. \A u \in Writers : pc'[u] \in Busy /\ pc'[v] \in Busy => u = v
    BY <1>1 DEF SerialInv, TurnInv
  <2>2. CASE v = w
    BY <1>1, <2>1, <2>2 DEF Live, Kept
  <2>3. CASE v # w
    BY <1>1, <2>1, <2>3 DEF SerialInv, TurnInv, Live, Kept
  <2> QED BY <2>2, <2>3
<1>3. BatchInv'
  BY <1>1 DEF SerialInv, BatchInv, Live, Kept, Busy
<1> QED BY <1>2, <1>3 DEF SerialInv

(* What a commit writes: a row with the seq that was bumped, a tombstone   *)
(* only for DELETE.                                                        *)
Commits(w, row) ==
    /\ pc[w] = "locked"
    /\ row.born # 0
    /\ row.seq = wjob[w].seq
    /\ row.deleted = (wjob[w].kind = "delete")
    /\ Write(w, row)

LEMMA CommitCases ==
  ASSUME TableInv, TurnInv, NEW w \in Writers, CommitPost(w) \/ CommitChange(w)
  PROVE  \/ \E row \in Row : Commits(w, row)
         \/ /\ CommitPost(w) /\ Goto(w, "lookup") /\ lock' = Nobody
            /\ UNCHANGED <<coll, rows, wjob, out, clientVars>>
         \/ Finish(w) /\ UNCHANGED <<coll, rows, clientVars>>
<1> DEFINE old == rows[wjob[w].key]
<1>0. /\ pc[w] = "locked" /\ wjob[w].seq \in Nat \ {0} /\ old \in Row
  BY DEF TableInv, LockInv, TypeOK, WriterJob, CommitPost, CommitChange
<1>1. CASE CommitPost(w) /\ ~Kept(wjob[w].key)
  <2> DEFINE row == [born |-> wjob[w].seq, version |-> 1, seq |-> wjob[w].seq,
                     deleted |-> FALSE]
  <2>1. Write(w, row) /\ wjob[w].kind = "post"
    BY <1>1 DEF CommitPost
  <2>2. row \in Row /\ row.born # 0 /\ row.seq = wjob[w].seq /\ row.deleted = FALSE
    BY <1>0 DEF Row
  <2> HIDE DEF row
  <2> QED BY <1>0, <2>1, <2>2 DEF Commits
<1>2. CASE CommitPost(w) /\ Kept(wjob[w].key)
  BY <1>2 DEF CommitPost
<1>3. CASE CommitChange(w) /\ old.born = wjob[w].born /\ wjob[w].kind = "patch"
  <2> DEFINE row == [old EXCEPT !.version = old.version + 1, !.seq = wjob[w].seq]
  <2>1. Write(w, row)
    BY <1>3 DEF CommitChange
  <2>2. Live(wjob[w].key)
    BY <1>0, <1>3 DEF TurnInv
  <2>3. old.born # 0 /\ old.deleted = FALSE
    BY <1>0, <2>2 DEF Live, Kept, Row
  <2>4. row \in Row /\ row.born # 0 /\ row.seq = wjob[w].seq /\ row.deleted = FALSE
    <3> HIDE DEF old
    <3>1. old.version + 1 \in Nat
      BY <1>0 DEF Row
    <3>2. \A v \in Nat, n \in Nat :
             /\ [old EXCEPT !.version = v, !.seq = n] \in Row
             /\ [old EXCEPT !.version = v, !.seq = n].seq = n
             /\ [old EXCEPT !.version = v, !.seq = n].born = old.born
             /\ [old EXCEPT !.version = v, !.seq = n].deleted = old.deleted
      BY <1>0 DEF Row
    <3> QED BY <1>0, <2>3, <3>1, <3>2
  <2> HIDE DEF row
  <2> QED BY <1>0, <1>3, <2>1, <2>4 DEF Commits
<1>4. CASE CommitChange(w) /\ old.born = wjob[w].born /\ wjob[w].kind = "delete"
  <2> DEFINE row == [old EXCEPT !.deleted = TRUE, !.seq = wjob[w].seq]
  <2>1. Write(w, row)
    BY <1>4 DEF CommitChange
  <2>2. Live(wjob[w].key)
    BY <1>0, <1>4 DEF TurnInv
  <2>3. old.born # 0
    BY <2>2 DEF Live, Kept
  <2>4. row \in Row /\ row.born # 0 /\ row.seq = wjob[w].seq /\ row.deleted = TRUE
    <3> HIDE DEF old
    <3> QED BY <1>0, <2>3 DEF Row
  <2> HIDE DEF row
  <2> QED BY <1>0, <1>4, <2>1, <2>4 DEF Commits
<1>5. CASE CommitChange(w) /\ old.born # wjob[w].born
  BY <1>5 DEF CommitChange
<1> QED BY <1>1, <1>2, <1>3, <1>4, <1>5 DEF CommitChange

(* A commit: the delta names the row as it now is.                         *)
LEMMA WriteTurn ==
  ASSUME TableInv, SerialInv, NEW w \in Writers, NEW row \in Row, Commits(w, row)
  PROVE  SerialInv'
<1> USE DEF Commits
<1>0. TypeOK /\ LockInv /\ wjob[w].key \in Keys /\ coll.exists \in BOOLEAN
      /\ coll.seq \in Nat /\ wjob[w].seq \in Nat
  BY DEF TableInv, TypeOK, WriterJob
<1>d. PICK d : d = [key |-> wjob[w].key, seq |-> wjob[w].seq,
                    live |-> wjob[w].kind # "delete"]
  OBVIOUS
<1>1. /\ coll' = [exists |-> TRUE, gen |-> wjob[w].gen, seq |-> wjob[w].seq]
      /\ rows' = [rows EXCEPT ![wjob[w].key] = row]
      /\ out' = [out EXCEPT ![w] = {d}]
      /\ pc' = [pc EXCEPT ![w] = "publish"] /\ wjob' = wjob
  BY <1>d DEF Write, Goto
<1>2. /\ pc'[w] = "publish" /\ out'[w] = {d} /\ rows'[wjob[w].key] = row
      /\ \A v \in Writers \ {w} : pc'[v] = pc[v] /\ pc[v] \notin Busy
  BY <1>0, <1>1 DEF TypeOK, SerialInv, TurnInv, Busy
<1>3. TurnInv'
  BY <1>1, <1>2 DEF SerialInv, TurnInv, Busy
<1>4. BatchInv'
  <2>1. \A v \in Writers : pc'[v] = "publish" => v = w
    BY <1>2 DEF Busy
  <2>2. coll'.exists /\ coll'.seq = wjob[w].seq
    BY <1>1
  <2>3. d.seq = wjob[w].seq /\ d.key = wjob[w].key
        /\ (d.live <=> wjob[w].kind # "delete")
    BY <1>d
  <2>4. Kept(d.key)' /\ (Live(d.key)' <=> wjob[w].kind # "delete")
    BY <1>2, <2>3 DEF Kept, Live
  <2>5. d.seq <= coll'.seq
    BY <1>0, <2>2, <2>3
  <2>6. rows'[d.key].seq = d.seq
    BY <1>2, <2>3
  <2> QED BY <1>2, <2>1, <2>2, <2>3, <2>4, <2>5, <2>6 DEF BatchInv, Kept, Live
<1> QED BY <1>3, <1>4 DEF SerialInv

LEMMA DropTurn ==
  ASSUME TableInv, SerialInv, NEW w \in Writers, CommitDrop(w)
  PROVE  SerialInv'
<1>0. TypeOK /\ pc[w] = "bump" /\ wjob[w].kind = "drop" /\ coll.exists \in BOOLEAN
  BY DEF TableInv, TypeOK, CommitDrop
<1>1. CASE coll.exists /\ coll.gen = wjob[w].gen
  <2>1. PICK nth \in [wjob[w].victims -> 1 .. Cardinality(wjob[w].victims)] :
          out' = [out EXCEPT ![w] =
                {[key |-> k, seq |-> wjob[w].seq + nth[k], live |-> FALSE]
                    : k \in wjob[w].victims}]
    BY <1>1 DEF CommitDrop
  <2>2. /\ coll' = [coll EXCEPT !.exists = FALSE]
        /\ rows' = [k \in Keys |-> NoRecord]
        /\ pc' = [pc EXCEPT ![w] = "publish"] /\ wjob' = wjob
    BY <1>1 DEF CommitDrop, Goto
  <2>3. pc'[w] = "publish" /\ \A v \in Writers \ {w} : pc'[v] = pc[v] /\ pc[v] \notin Busy
    BY <1>0, <2>2 DEF TypeOK, SerialInv, TurnInv, Busy
  <2>4. TurnInv'
    BY <2>2, <2>3 DEF SerialInv, TurnInv, Busy
  <2>5. ~coll'.exists
    BY <1>0, <2>2 DEF TypeOK
  <2>6. \A k \in Keys : ~Kept(k)' /\ ~Live(k)'
    BY <2>2 DEF Kept, Live, NoRecord
  <2>7. \A e \in out'[w] : e.live = FALSE /\ e.key \in Keys
    <3>1. wjob[w].victims \subseteq Keys
      BY <1>0 DEF TypeOK, WriterJob
    <3>2. out'[w] = {[key |-> k, seq |-> wjob[w].seq + nth[k], live |-> FALSE]
                       : k \in wjob[w].victims}
      BY <1>0, <2>1 DEF TypeOK
    <3> QED BY <1>1, <3>1, <3>2
  <2>8. \A v \in Writers : pc'[v] = "publish" => v = w
    BY <2>3 DEF Busy
  <2>9. BatchInv'
    BY <1>0, <2>2, <2>5, <2>6, <2>7, <2>8 DEF BatchInv, Kept, Live
  <2> QED BY <2>4, <2>9 DEF SerialInv
<1>2. CASE ~(coll.exists /\ coll.gen = wjob[w].gen)
  BY <1>0, <1>2, FinishTurn DEF CommitDrop
<1> QED BY <1>1, <1>2

(* The sweep removes tombstones, on which no transaction rests.            *)
LEMMA SweepTurn ==
  ASSUME TypeOK, SerialInv, NEW k0 \in Keys, Sweep(k0)
  PROVE  SerialInv'
<1>1. /\ rows' = [rows EXCEPT ![k0] = NoRecord] /\ rows[k0].deleted
      /\ UNCHANGED <<coll, pc, wjob, out>>
  BY DEF Sweep
<1>2. \A k \in Keys : /\ Live(k)' = Live(k) /\ (Live(k) => rows'[k] = rows[k])
                      /\ (Kept(k)' => rows'[k] = rows[k] /\ Kept(k))
  BY <1>1 DEF TypeOK, Live, Kept, NoRecord
<1>3. {k \in Keys : Live(k)}' = {k \in Keys : Live(k)}
  BY <1>2
<1>4. \A w \in Writers : wjob[w].key \in Keys /\ \A d \in out[w] : d.key \in Keys
  BY DEF TypeOK, WriterJob, Delta
<1>5. TurnInv'
  <2> SUFFICES ASSUME NEW v \in Writers
               PROVE  /\ pc[v] \in {"bump", "locked"} /\ wjob[v].kind \in {"patch", "delete"} =>
                            /\ Live(wjob[v].key)' /\ wjob[v].match \in {NoMatch, rows'[wjob[v].key].version}
                      /\ pc[v] = "bump" /\ wjob[v].kind = "drop" =>
                            /\ wjob[v].seq = coll.seq
                            /\ wjob[v].victims = {k \in Keys : Live(k)}'
    BY <1>1 DEF SerialInv, TurnInv, Live, Kept
  <2>1. CASE pc[v] \in {"bump", "locked"} /\ wjob[v].kind \in {"patch", "delete"}
    <3>1. Live(wjob[v].key) /\ wjob[v].match \in {NoMatch, rows[wjob[v].key].version}
      BY <2>1 DEF SerialInv, TurnInv
    <3> QED BY <1>1, <1>2, <1>4, <2>1, <3>1
  <2>2. CASE pc[v] = "bump" /\ wjob[v].kind = "drop"
    BY <1>3, <2>2 DEF SerialInv, TurnInv
  <2> QED BY <2>1, <2>2
<1>6. BatchInv'
  BY <1>1, <1>2, <1>4 DEF SerialInv, BatchInv, Live, Kept
<1> QED BY <1>5, <1>6 DEF SerialInv

(* Every step keeps what the transactions rely on.                         *)
LEMMA SerialInvStep ==
  ASSUME Serial, TableInv, SerialInv, [Next]_vars
  PROVE  SerialInv'
<1>0. /\ TypeOK /\ LockInv /\ TurnInv /\ wjob \in [Writers -> WriterJob]
      /\ \A w \in Writers : wjob[w] \in WriterJob /\ wjob[w].key \in Keys
                            /\ rows[wjob[w].key] \in Row
  BY DEF TableInv, TypeOK, SerialInv, WriterJob
<1>1. ASSUME NEW w \in Writers, NEW kind \in {"post", "patch", "delete", "drop"},
             NEW key \in Keys, NEW match \in 1 .. MaxSeq \cup {NoMatch},
             Receive(w, kind, key, match)
      PROVE  SerialInv'
  <2> DEFINE j == [NoWriterJob EXCEPT !.kind = kind, !.key = key, !.match = match]
  <2>1. j.match = match /\ j.kind = kind
    BY DEF NoWriterJob
  <2>2. wjob' = [wjob EXCEPT ![w] = j] /\ (Goto(w, "cap") \/ Goto(w, "begin"))
        /\ UNCHANGED <<coll, rows, out>> /\ (match # NoMatch => kind \in {"patch", "delete"})
    BY <1>1 DEF Receive
  <2> HIDE DEF j
  <2> QED BY <1>0, <2>1, <2>2, StageTurn DEF Busy
<1>2. ASSUME NEW w \in Writers, CheckCap(w) PROVE SerialInv'
  <2>1. CASE Finish(w)
    BY <1>0, <1>2, <2>1, FinishTurn DEF CheckCap
  <2>2. CASE ~Finish(w)
    <3>1. Goto(w, "begin") /\ UNCHANGED <<wjob, coll, rows, out>>
      BY <1>2, <2>2 DEF CheckCap
    <3>2. wjob' = [wjob EXCEPT ![w] = wjob[w]]
      BY <1>0, <3>1
    <3>3. wjob[w].match # NoMatch => wjob[w].kind \in {"patch", "delete"}
      BY <1>0 DEF TurnInv
    <3> QED BY <1>0, <3>1, <3>2, <3>3, StageTurn DEF Busy
  <2> QED BY <2>1, <2>2
<1>3. ASSUME NEW w \in Writers, ReadRow(w) PROVE SerialInv'
  <2>1. CASE Finish(w)
    BY <1>0, <1>3, <2>1, FinishTurn DEF ReadRow
  <2>2. CASE ~Finish(w)
    <3> DEFINE j == [wjob[w] EXCEPT !.gen = coll.gen, !.born = rows[wjob[w].key].born]
    <3>1. /\ wjob' = [wjob EXCEPT ![w] = j] /\ Goto(w, "bump") /\ UNCHANGED <<coll, rows, out>>
          /\ wjob[w].kind \in {"patch", "delete"} /\ Live(wjob[w].key)
          /\ wjob[w].match \in {NoMatch, rows[wjob[w].key].version}
      BY <1>0, <1>3, <2>2 DEF ReadRow
    <3>2. j.kind = wjob[w].kind /\ j.key = wjob[w].key /\ j.match = wjob[w].match
      BY <1>0 DEF WriterJob
    <3>3. \A v \in Writers : pc[v] \notin Busy
      BY <1>3 DEF ReadRow, MayBegin, Busy
    <3> HIDE DEF j
    <3> QED BY <1>0, <3>1, <3>2, <3>3, StageTurn
  <2> QED BY <2>1, <2>2
<1>4. ASSUME NEW w \in Writers, ReadCollection(w) PROVE SerialInv'
  <2>1. CASE Finish(w)
    BY <1>0, <1>4, <2>1, FinishTurn DEF ReadCollection
  <2>2. CASE ~Finish(w)
    <3> DEFINE V == {k \in Keys : Live(k)}
               j == [wjob[w] EXCEPT !.gen = coll.gen, !.seq = coll.seq, !.victims = V]
    <3>1. /\ wjob' = [wjob EXCEPT ![w] = j] /\ Goto(w, "bump") /\ UNCHANGED <<coll, rows, out>>
          /\ wjob[w].kind = "drop"
      BY <1>0, <1>4, <2>2 DEF ReadCollection
    <3>2. j.kind = wjob[w].kind /\ j.match = wjob[w].match /\ j.seq = coll.seq /\ j.victims = V
      BY <1>0 DEF WriterJob
    <3>3. \A v \in Writers : pc[v] \notin Busy
      BY <1>4 DEF ReadCollection, MayBegin, Busy
    <3>4. wjob[w].match = NoMatch
      BY <1>0, <3>1 DEF TurnInv
    <3> HIDE DEF j
    <3> QED BY <1>0, <3>1, <3>2, <3>3, <3>4, StageTurn
  <2> QED BY <2>1, <2>2
<1>5. ASSUME NEW w \in Writers, Bump(w) PROVE SerialInv'
  <2>1. CASE Finish(w)
    BY <1>0, <1>5, <2>1, FinishTurn DEF Bump
  <2>2. CASE ~Finish(w)
    <3> DEFINE g == IF coll.exists THEN coll.gen ELSE coll.gen + 1
               n == IF coll.exists THEN coll.seq + 1 ELSE 1
               j == [wjob[w] EXCEPT !.gen = g, !.seq = n]
    <3>1. /\ wjob' = [wjob EXCEPT ![w] = j] /\ Goto(w, "locked") /\ UNCHANGED <<coll, rows, out>>
      BY <1>0, <1>5, <2>2 DEF Bump
    <3>2. j.kind = wjob[w].kind /\ j.key = wjob[w].key /\ j.match = wjob[w].match
      BY <1>0 DEF WriterJob
    <3>3. \A v \in Writers \ {w} : pc[v] \notin Busy
      <4>1. CASE pc[w] = "bump"
        BY <1>0, <4>1 DEF TurnInv, Busy
      <4>2. CASE pc[w] # "bump"
        BY <1>5, <4>2 DEF Bump, MayBegin, Busy
      <4> QED BY <4>1, <4>2
    <3>4. wjob[w].kind # "drop"
      BY <1>5 DEF Bump
    <3>5. wjob[w].kind \in {"patch", "delete"} =>
             Live(wjob[w].key) /\ wjob[w].match \in {NoMatch, rows[wjob[w].key].version}
      BY <1>0, <1>5 DEF Bump, TurnInv
    <3>6. wjob[w].match # NoMatch => wjob[w].kind \in {"patch", "delete"}
      BY <1>0 DEF TurnInv
    <3> HIDE DEF j
    <3> QED BY <1>0, <3>1, <3>2, <3>3, <3>4, <3>5, <3>6, StageTurn
  <2> QED BY <2>1, <2>2
<1>6. ASSUME NEW w \in Writers, CommitPost(w) \/ CommitChange(w) PROVE SerialInv'
  <2>1. \/ \E row \in Row : Commits(w, row)
        \/ /\ CommitPost(w) /\ Goto(w, "lookup") /\ lock' = Nobody
           /\ UNCHANGED <<coll, rows, wjob, out, clientVars>>
        \/ Finish(w) /\ UNCHANGED <<coll, rows, clientVars>>
    BY <1>0, <1>6, CommitCases
  <2>2. ASSUME NEW row \in Row, Commits(w, row) PROVE SerialInv'
    BY <2>2, WriteTurn
  <2>3. CASE /\ CommitPost(w) /\ Goto(w, "lookup") /\ UNCHANGED <<coll, rows, wjob, out>>
    <3>1. wjob' = [wjob EXCEPT ![w] = wjob[w]]
      BY <1>0, <2>3
    <3>2. wjob[w].match = NoMatch
      BY <1>0, <2>3 DEF TurnInv, CommitPost
    <3> QED BY <1>0, <2>3, <3>1, <3>2, StageTurn DEF Busy
  <2> QED BY <1>0, <2>1, <2>2, <2>3, FinishTurn
<1>7. ASSUME NEW w \in Writers, LookUp(w) \/ Publish(w) \/ Abort(w) PROVE SerialInv'
  BY <1>0, <1>7, FinishTurn DEF LookUp, Publish, Abort
<1>8. ASSUME NEW c \in Readers, Poll(c) PROVE SerialInv'
  BY <1>8 DEF Poll, SerialInv, TurnInv, BatchInv, Live, Kept
<1>9. CASE UNCHANGED vars
  BY <1>9 DEF vars, SerialInv, TurnInv, BatchInv, Live, Kept
<1> QED BY <1>0, <1>1, <1>2, <1>3, <1>4, <1>5, <1>6, <1>7, <1>8, <1>9,
           DropTurn, SweepTurn DEF Next, WriterStep

LEMMA SerialInvariant ==
  ASSUME Serial
  PROVE  Spec => []SerialInv
<1>1. RecordsInv /\ SerialInv /\ [Next]_vars => SerialInv'
  BY SerialInvStep DEF RecordsInv
<1> QED BY <1>1, SerialInvInit, RecordsInvariant, PTL DEF Spec

(* A PATCH or DELETE with if_match replaces the very version it names: on  *)
(* SQLite the row is at the commit what the transaction read.              *)
THEOREM IfMatchIsHonoured ==
  ASSUME Serial
  PROVE  Spec => IfMatchHonoured
<1> DEFINE A == \A w \in Writers :
                  /\ pc[w] = "locked" /\ pc'[w] = "publish"
                  /\ wjob[w].match # NoMatch
                  => rows[wjob[w].key].version = wjob[w].match
<1>1. SerialInv /\ [Next]_vars => [A]_vars
  BY DEF SerialInv, TurnInv
<1> QED BY <1>1, SerialInvariant, PTL DEF Spec, IfMatchHonoured
-----------------------------------------------------------------------------
(***************************************************************************)
(* The stores that fold broadcasts in: those of connected shells, and of   *)
(* the sessions on a template's collection.                                *)
(***************************************************************************)
Exact(k) == IF Live(k) THEN rows[k].seq ELSE 0
Pending(k, n) ==
    \E w \in Writers : pc[w] = "publish" /\ \E d \in out[w] : d.key = k /\ d.seq > n

(* Where a store's cursor and what it shows come from.                     *)
StoreInv(st) ==
    /\ st.brought <= st.cursor
    /\ coll.exists => st.cursor <= coll.seq \/ st.cursor = st.brought
    /\ \A k \in Keys : st.copy[k] <= st.cursor

(* What a store shows of a key, or will be told by a broadcast on its way, *)
(* or, when it is away, by the next replay.                                *)
Told(st, away, k) ==
    \/ st.copy[k] = Exact(k)
    \/ Pending(k, st.cursor)
    \/ away /\ k \in Above(st.cursor)

(* A store knows every row above the cursor that it brought ...            *)
InStep(st, away) ==
    \A k \in Keys : Kept(k) => Told(st, away, k) \/ rows[k].seq <= st.brought

(* ... and shows nothing else of an earlier collection or an earlier state.*)
Clean(st, away) ==
    \A k \in Keys :
        /\ Told(st, away, k) \/ (st.copy[k] = 0 /\ Kept(k) /\ rows[k].seq <= st.brought)
        /\ coll.exists => st.copy[k] = 0 \/ st.copy[k] > st.brought

(* A delta that is new to a store finds its row, or was the drop's.        *)
NotSwept(st) ==
    coll.exists => \A k \in Keys : Pending(k, st.cursor) => Kept(k)

LEMMA StoreFacts ==
  ASSUME NEW st \in Store
  PROVE  /\ st.cursor \in Nat /\ st.brought \in Nat /\ st.copy \in [Keys -> Nat]
         /\ \A k \in Keys : st.copy[k] \in Nat
BY DEF Store

(* A step that leaves the table and the broadcasts as they are.            *)
Idle ==
    /\ UNCHANGED <<coll, rows>>
    /\ \A w \in Writers : /\ pc'[w] = "publish" <=> pc[w] = "publish"
                          /\ pc[w] = "publish" => out'[w] = out[w]

LEMMA IdleStore ==
  ASSUME Idle, NEW st \in Store, NEW away \in BOOLEAN
  PROVE  /\ StoreInv(st) => StoreInv(st)'
         /\ InStep(st, away) => InStep(st, away)'
         /\ Clean(st, away) => Clean(st, away)'
         /\ NotSwept(st) => NotSwept(st)'
<1>1. \A k \in Keys : Kept(k)' = Kept(k) /\ Live(k)' = Live(k) /\ Exact(k)' = Exact(k)
  BY DEF Idle, Kept, Live, Exact
<1>2. Above(st.cursor)' = Above(st.cursor)
  BY DEF Idle, Above, Kept
<1>3. \A k \in Keys : Pending(k, st.cursor)' <=> Pending(k, st.cursor)
  BY DEF Idle, Pending
<1>4. StoreInv(st) => StoreInv(st)'
  BY DEF Idle, StoreInv
<1>5. \A k \in Keys : Told(st, away, k)' <=> Told(st, away, k)
  BY <1>1, <1>2, <1>3 DEF Told
<1>6. InStep(st, away) => InStep(st, away)'
  BY <1>1, <1>5 DEF Idle, InStep
<1>7. Clean(st, away) => Clean(st, away)'
  BY <1>1, <1>5 DEF Idle, Clean
<1>8. NotSwept(st) => NotSwept(st)'
  BY <1>1, <1>3 DEF Idle, NotSwept
<1> QED BY <1>4, <1>6, <1>7, <1>8

(* A commit puts its row above every cursor of the collection, and its     *)
(* delta on the way.  One that creates the collection finds the cursors    *)
(* that the stores bring.                                                  *)
Arrived(st) == IF coll.exists THEN st ELSE [st EXCEPT !.brought = st.cursor]

LEMMA ArrivedFacts ==
  ASSUME NEW st \in Store
  PROVE  /\ Arrived(st) \in Store
         /\ Arrived(st).cursor = st.cursor /\ Arrived(st).copy = st.copy
         /\ Arrived(st).brought = IF coll.exists THEN st.brought ELSE st.cursor
<1>1. CASE coll.exists
  BY <1>1 DEF Arrived
<1>2. CASE ~coll.exists
  BY <1>2 DEF Arrived, Store
<1> QED BY <1>1, <1>2

LEMMA WriteStore ==
  ASSUME TableInv, SerialInv, NEW w \in Writers, NEW row \in Row, Commits(w, row),
         NEW st \in Store, StoreInv(st), NEW away \in BOOLEAN, NEW nst, nst = Arrived(st)
  PROVE  /\ nst \in Store /\ nst.cursor = st.cursor
         /\ StoreInv(nst)'
         /\ InStep(st, away) => InStep(nst, away)'
         /\ Clean(st, away) => Clean(nst, away)'
         /\ NotSwept(nst)'
<1>0. /\ TypeOK /\ LockInv /\ RowsInv /\ TurnInv /\ pc[w] = "locked" /\ Write(w, row)
      /\ wjob[w] \in WriterJob /\ coll.gen \in Nat /\ coll.seq \in Nat
      /\ coll.exists \in BOOLEAN /\ (\A k \in Keys : rows[k].seq \in Nat)
      /\ st.cursor \in Nat /\ st.brought \in Nat /\ st.copy \in [Keys -> Nat]
      /\ \A k \in Keys : st.copy[k] \in Nat
  BY StoreFacts DEF TableInv, SerialInv, TypeOK, Commits, Row
<1>a. wjob[w].key \in Keys /\ wjob[w].seq \in Nat
  BY <1>0 DEF WriterJob
<1>b. PICK key \in Keys, n \in Nat : key = wjob[w].key /\ n = wjob[w].seq
  BY <1>a
<1>1. PICK d : d = [key |-> key, seq |-> n, live |-> wjob[w].kind # "delete"]
  OBVIOUS
<1>2. /\ coll' = [exists |-> TRUE, gen |-> wjob[w].gen, seq |-> n]
      /\ rows' = [rows EXCEPT ![key] = row]
      /\ out' = [out EXCEPT ![w] = {d}]
      /\ pc' = [pc EXCEPT ![w] = "publish"]
  BY <1>0, <1>b, <1>1 DEF Write, Goto
<1>3. /\ \A v \in Writers : pc[v] # "publish"
      /\ \A v \in Writers : pc'[v] = "publish" <=> v = w
      /\ out'[w] = {d}
  BY <1>0, <1>2 DEF TypeOK, TurnInv, Busy
<1>4. coll'.exists /\ coll'.seq = n /\ d.key = key /\ d.seq = n
  BY <1>1, <1>2
<1>5. IF coll.exists THEN n = coll.seq + 1 ELSE n = 1
  BY <1>0, <1>b DEF LockInv
<1>6. /\ rows'[key] = row /\ row.born # 0 /\ row.seq = n
      /\ \A k \in Keys \ {key} : rows'[k] = rows[k]
  BY <1>0, <1>b, <1>2 DEF TypeOK, Commits
<1>7. /\ nst \in Store /\ nst.cursor = st.cursor /\ nst.copy = st.copy
      /\ nst.brought = (IF coll.exists THEN st.brought ELSE st.cursor)
      /\ nst.brought \in Nat
  BY ArrivedFacts, StoreFacts
<1>8. nst.brought <= st.cursor /\ (st.cursor < n \/ st.cursor = nst.brought)
  <2>1. CASE coll.exists
    BY <1>0, <1>5, <1>7, <2>1 DEF StoreInv
  <2>2. CASE ~coll.exists
    BY <1>0, <1>7, <2>2
  <2> QED BY <2>1, <2>2
<1>9. StoreInv(nst)'
  <2>1. \A k \in Keys : nst.copy[k] <= nst.cursor
    BY <1>7 DEF StoreInv
  <2> QED BY <1>0, <1>4, <1>7, <1>8, <2>1 DEF StoreInv
<1>10. \A k \in Keys : /\ ~Pending(k, st.cursor)
                       /\ Pending(k, st.cursor)' <=> k = key /\ n > st.cursor
  BY <1>3, <1>4 DEF Pending
<1>11. ASSUME NEW k \in Keys, k # key, Kept(k)'
       PROVE  /\ coll.exists /\ nst.brought = st.brought /\ Kept(k)
              /\ Exact(k)' = Exact(k) /\ rows'[k] = rows[k]
              /\ k \in Above(st.cursor) => k \in Above(st.cursor)'
              /\ Told(st, away, k) => Told(nst, away, k)'
  <2>1. rows'[k] = rows[k] /\ Kept(k)
    BY <1>6, <1>11 DEF Kept
  <2>2. coll.exists
    BY <1>0, <2>1 DEF RowsInv
  <2>3. Exact(k)' = Exact(k) /\ (k \in Above(st.cursor) => k \in Above(st.cursor)')
    BY <2>1 DEF Exact, Live, Kept, Above
  <2> QED BY <1>7, <1>10, <2>1, <2>2, <2>3 DEF Told
<1>12. Kept(key)' /\ (Pending(key, st.cursor)' \/ rows'[key].seq <= nst.brought)
  <2>1. n > st.cursor \/ n <= nst.brought
    BY <1>0, <1>7, <1>8
  <2> QED BY <1>6, <1>10, <2>1 DEF Kept
<1>13. InStep(st, away) => InStep(nst, away)'
  <2> SUFFICES ASSUME InStep(st, away), NEW k \in Keys, Kept(k)'
               PROVE  Told(nst, away, k)' \/ rows'[k].seq <= nst.brought
    BY DEF InStep
  <2>1. CASE k = key
    BY <1>7, <1>12, <2>1 DEF Told
  <2>2. CASE k # key
    BY <1>11, <2>2 DEF InStep
  <2> QED BY <2>1, <2>2
<1>14. ASSUME Clean(st, away), NEW k \in Keys
       PROVE  /\ nst.copy[k] = 0 \/ nst.copy[k] > nst.brought
              /\ \/ Told(nst, away, k)'
                 \/ nst.copy[k] = 0 /\ Kept(k)' /\ rows'[k].seq <= nst.brought
  <2>1. CASE ~coll.exists
    <3>1. ~Kept(k) /\ k \notin Above(st.cursor)
      BY <1>0, <2>1 DEF RowsInv, Above
    <3>2. st.copy[k] = 0
      BY <1>10, <1>14, <3>1 DEF Clean, Told, Exact, Live
    <3>3. k # key => Exact(k)' = 0
      BY <1>6, <3>1 DEF Exact, Live, Kept
    <3> QED BY <1>7, <1>12, <3>2, <3>3 DEF Told
  <2>2. CASE coll.exists
    <3>1. nst.copy[k] = 0 \/ nst.copy[k] > nst.brought
      BY <1>7, <1>14, <2>2 DEF Clean
    <3>2. CASE k = key
      <4>1. CASE nst.copy[k] = 0
        BY <1>7, <1>12, <3>2, <4>1 DEF Told
      <4>2. CASE nst.copy[k] > nst.brought
        <5>1. st.cursor < n
          BY <1>0, <1>7, <1>8, <4>2 DEF StoreInv
        <5>2. Pending(k, nst.cursor)'
          BY <1>0, <1>7, <1>10, <3>2, <5>1
        <5> QED BY <3>1, <5>2 DEF Told
      <4> QED BY <3>1, <4>1, <4>2
    <3>3. CASE k # key /\ Kept(k)'
      BY <1>7, <1>11, <1>14, <3>1, <3>3 DEF Clean
    <3>4. CASE k # key /\ ~Kept(k)'
      <4>1. ~Kept(k) /\ Exact(k)' = 0
        BY <1>6, <3>4 DEF Kept, Exact, Live
      <4>2. st.copy[k] = 0
        BY <1>10, <1>14, <4>1 DEF Clean, Told, Exact, Live, Above
      <4> QED BY <1>7, <3>1, <4>1, <4>2 DEF Told
    <3> QED BY <3>1, <3>2, <3>3, <3>4
  <2> QED BY <2>1, <2>2
<1>15. Clean(st, away) => Clean(nst, away)'
  BY <1>14 DEF Clean
<1>16. NotSwept(nst)'
  BY <1>7, <1>10, <1>12 DEF NotSwept
<1> QED BY <1>7, <1>9, <1>13, <1>15, <1>16

(* A drop: the live rows get tombstones above every cursor.                *)
LEMMA DropStore ==
  ASSUME TableInv, SerialInv, NEW w \in Writers, CommitDrop(w),
         coll.exists, coll.gen = wjob[w].gen, NEW st \in Store, StoreInv(st),
         NEW away \in BOOLEAN
  PROVE  /\ StoreInv(st)'
         /\ InStep(st, away)'
         /\ Clean(st, FALSE) => Clean(st, FALSE)'
         /\ NotSwept(st)'
<1>0. /\ TypeOK /\ RowsInv /\ TurnInv /\ pc[w] = "bump" /\ wjob[w].kind = "drop"
      /\ coll \in [exists : BOOLEAN, gen : Nat, seq : Nat]
      /\ st.cursor \in Nat /\ st.brought \in Nat /\ \A k \in Keys : st.copy[k] \in Nat
  BY StoreFacts DEF TableInv, SerialInv, TypeOK, CommitDrop
<1>1. PICK V \in SUBSET Keys, n \in Nat : V = wjob[w].victims /\ n = wjob[w].seq
  BY <1>0 DEF TypeOK, WriterJob
<1>2. n = coll.seq /\ V = {k \in Keys : Live(k)}
  BY <1>0, <1>1 DEF TurnInv
<1>3. PICK nth \in [V -> 1 .. Cardinality(V)] :
        out' = [out EXCEPT ![w] =
              {[key |-> k, seq |-> n + nth[k], live |-> FALSE] : k \in V}]
  BY <1>1 DEF CommitDrop
<1>4. /\ coll' = [coll EXCEPT !.exists = FALSE]
      /\ rows' = [k \in Keys |-> NoRecord]
      /\ pc' = [pc EXCEPT ![w] = "publish"]
  BY DEF CommitDrop, Goto
<1>5. ~coll'.exists
  BY <1>0, <1>4
<1>6. /\ \A v \in Writers : pc[v] # "publish" /\ pc'[w] = "publish"
      /\ out'[w] = {[key |-> k, seq |-> n + nth[k], live |-> FALSE] : k \in V}
  BY <1>0, <1>3, <1>4 DEF TypeOK, TurnInv, Busy
<1>7. StoreInv(st)' /\ NotSwept(st)'
  BY <1>5 DEF StoreInv, NotSwept
<1>8. \A k \in Keys : ~Kept(k)' /\ Exact(k)' = 0
  BY <1>4 DEF Exact, Live, Kept, NoRecord
<1>9. Clean(st, FALSE) => Clean(st, FALSE)'
  <2> SUFFICES ASSUME Clean(st, FALSE), NEW k \in Keys
               PROVE  st.copy[k] = 0 \/ Pending(k, st.cursor)'
    BY <1>5, <1>8 DEF Clean, Told
  <2>1. CASE st.copy[k] = 0
    BY <2>1
  <2>2. CASE st.copy[k] # 0
    <3>1. st.copy[k] > st.brought /\ st.copy[k] = Exact(k)
      BY <1>6, <2>2 DEF Clean, Told, Pending
    <3>2. k \in V
      BY <1>2, <2>2, <3>1 DEF Exact
    <3>3. st.cursor <= coll.seq
      BY <1>0, <3>1 DEF StoreInv
    <3>4. n + nth[k] \in Nat /\ n + nth[k] > n
      <4>1. Cardinality(V) \in Nat
        BY RecordsAssumption, FS_Subset, FS_CardinalityType
      <4>2. nth[k] \in 1 .. Cardinality(V)
        BY <3>2
      <4> QED BY <4>1, <4>2
    <3>5. n + nth[k] > st.cursor
      BY <1>0, <1>2, <3>3, <3>4
    <3>6. PICK d : d = [key |-> k, seq |-> n + nth[k], live |-> FALSE]
      OBVIOUS
    <3>7. d \in out'[w]
      BY <1>6, <3>2, <3>6
    <3>8. d.key = k /\ d.seq > st.cursor
      BY <3>5, <3>6
    <3>9. pc'[w] = "publish"
      BY <1>6
    <3> QED BY <3>7, <3>8, <3>9 DEF Pending
  <2> QED BY <2>1, <2>2
<1>10. InStep(st, away)'
  BY <1>8 DEF InStep
<1> QED BY <1>7, <1>9, <1>10

(* A sweep shows nowhere but to a store that had not seen the tombstone.   *)
LEMMA SweepStore ==
  ASSUME TypeOK, SerialInv, NEW k0 \in Keys, Sweep(k0), NEW st \in Store,
         NEW away \in BOOLEAN
  PROVE  /\ StoreInv(st) => StoreInv(st)'
         /\ InStep(st, away) => InStep(st, away)'
         /\ ~away \/ rows[k0].seq <= st.cursor => (Clean(st, away) => Clean(st, away)')
         /\ rows[k0].seq <= st.cursor => (NotSwept(st) => NotSwept(st)')
<1>0. st.cursor \in Nat /\ (\A k \in Keys : rows[k].seq \in Nat) /\ BatchInv
  BY StoreFacts DEF TypeOK, Row, SerialInv
<1>1. /\ rows' = [rows EXCEPT ![k0] = NoRecord] /\ rows[k0].deleted /\ Kept(k0)
      /\ UNCHANGED <<coll, pc, out>>
  BY DEF Sweep
<1>2. /\ \A k \in Keys : Exact(k)' = Exact(k)
      /\ \A k \in Keys : k # k0 => rows'[k] = rows[k] /\ (Kept(k)' <=> Kept(k))
      /\ ~Kept(k0)' /\ Exact(k0) = 0
  BY <1>1 DEF TypeOK, Exact, Live, Kept, NoRecord
<1>3. \A k \in Keys : Pending(k, st.cursor)' <=> Pending(k, st.cursor)
  BY <1>1 DEF Pending
<1>4. StoreInv(st) => StoreInv(st)'
  BY <1>1 DEF StoreInv
<1>5. \A k \in Keys : k \in Above(st.cursor) /\ k # k0 => k \in Above(st.cursor)'
  BY <1>2 DEF Above, Kept
<1>6. \A k \in Keys : k # k0 /\ Told(st, away, k) => Told(st, away, k)'
  BY <1>2, <1>3, <1>5 DEF Told
<1>7. InStep(st, away) => InStep(st, away)'
  BY <1>2, <1>6 DEF InStep
<1>8. ASSUME ~away \/ rows[k0].seq <= st.cursor, Clean(st, away) PROVE Clean(st, away)'
  <2>1. away => k0 \notin Above(st.cursor)
    BY <1>0, <1>8 DEF Above
  <2>2. Told(st, away, k0)'
    BY <1>2, <1>3, <1>8, <2>1 DEF Clean, Told
  <2>3. \A k \in Keys : k # k0 =>
           \/ Told(st, away, k)'
           \/ st.copy[k] = 0 /\ Kept(k)' /\ rows'[k].seq <= st.brought
    BY <1>2, <1>6, <1>8 DEF Clean
  <2> QED BY <1>1, <1>8, <2>2, <2>3 DEF Clean
<1>9. ASSUME rows[k0].seq <= st.cursor, NotSwept(st) PROVE NotSwept(st)'
  <2>1. ~Pending(k0, st.cursor)
    <3> SUFFICES ASSUME NEW w \in Writers, pc[w] = "publish", NEW d \in out[w],
                        d.key = k0, d.seq > st.cursor
                 PROVE  FALSE
      BY DEF Pending
    <3>1. rows[k0].seq = d.seq
      BY <1>0, <1>1 DEF BatchInv
    <3> QED BY <1>0, <1>9, <3>1
  <2> QED BY <1>1, <1>2, <1>3, <1>9, <2>1 DEF NotSwept
<1> QED BY <1>4, <1>7, <1>8, <1>9

(* The broadcast reaches a store: what it did not know yet it folds in.    *)
LEMMA PublishStore ==
  ASSUME TableInv, SerialInv, NEW w \in Writers, Publish(w), NEW st \in Store,
         StoreInv(st), NEW batch \in SUBSET out[w],
         \A d \in out[w] : d \notin batch => d.seq <= st.cursor,
         NEW nst, nst = Folded(st, batch)
  PROVE  /\ nst \in Store /\ StoreInv(nst)' /\ st.cursor <= nst.cursor
         /\ InStep(st, FALSE) => InStep(nst, FALSE)'
         /\ Clean(st, FALSE) => Clean(nst, FALSE)'
         /\ NotSwept(nst)'
<1>0. /\ TypeOK /\ OutInv /\ TurnInv /\ BatchInv /\ pc[w] = "publish"
      /\ UNCHANGED <<coll, rows>> /\ out[w] \in SUBSET Delta
      /\ coll.seq \in Nat
      /\ st.cursor \in Nat /\ st.brought \in Nat /\ st.copy \in [Keys -> Nat]
      /\ \A k \in Keys : st.copy[k] \in Nat
  BY StoreFacts DEF TableInv, SerialInv, TypeOK, Publish
<1>1. PICK n \in Nat : \A d \in out[w] : d.seq <= n
  BY <1>0 DEF OutInv
<1>2. /\ batch \in SUBSET Delta /\ (\A d \in batch : d.seq <= n)
      /\ \A d, e \in batch : d.key = e.key => d = e
  BY <1>0, <1>1 DEF OutInv
<1>3. /\ nst \in Store
      /\ nst.brought = st.brought
      /\ st.cursor <= nst.cursor
      /\ \A d \in batch : d.seq <= nst.cursor
      /\ nst.cursor = st.cursor \/ \E d \in batch : nst.cursor = d.seq
      /\ \A k \in Keys : (\A d \in batch : d.key = k => d.seq <= st.cursor)
                            => nst.copy[k] = st.copy[k]
      /\ \A d \in batch : d.seq > st.cursor =>
            nst.copy[d.key] = (IF d.live THEN d.seq ELSE 0)
  BY <1>1, <1>2, FoldedFacts
<1>4. nst.cursor \in Nat /\ \A k \in Keys : nst.copy[k] \in Nat
  BY <1>3, StoreFacts
<1>5. \A d \in batch : (coll.exists => d.seq <= coll.seq) /\ d.seq \in Nat
  BY <1>0, <1>2 DEF BatchInv, Delta
<1>6. \A k \in Keys :
         \/ nst.copy[k] = st.copy[k]
         \/ nst.copy[k] = 0
         \/ nst.copy[k] > st.cursor /\ nst.copy[k] <= nst.cursor
  <2> SUFFICES ASSUME NEW k \in Keys, NEW d \in batch, d.key = k, d.seq > st.cursor
               PROVE  nst.copy[k] = 0 \/ (nst.copy[k] > st.cursor /\ nst.copy[k] <= nst.cursor)
    BY <1>0, <1>3, <1>5
  <2> QED BY <1>3
<1>8. StoreInv(nst)'
  <2>1. st.brought <= nst.cursor
    BY <1>0, <1>3, <1>4 DEF StoreInv
  <2>2. coll.exists => nst.cursor <= coll.seq \/ nst.cursor = st.brought
    BY <1>0, <1>3, <1>4, <1>5 DEF StoreInv
  <2>3. \A k \in Keys : nst.copy[k] <= nst.cursor
    BY <1>0, <1>3, <1>4, <1>6 DEF StoreInv
  <2> QED BY <1>0, <1>3, <2>1, <2>2, <2>3 DEF StoreInv
<1>9. \A v \in Writers : pc'[v] # "publish"
  BY <1>0 DEF Publish, Finish, Goto, TypeOK, TurnInv, Busy
<1>10. NotSwept(nst)'
  BY <1>9 DEF NotSwept, Pending
<1>11. \A k \in Keys : Kept(k)' = Kept(k) /\ Exact(k)' = Exact(k) /\ rows'[k] = rows[k]
  BY <1>0 DEF Exact, Live, Kept
<1>12. ASSUME NEW k \in Keys
       PROVE  nst.copy[k] = Exact(k) \/ (nst.copy[k] = st.copy[k] /\ ~Pending(k, st.cursor))
  <2>3. CASE \E d \in batch : d.key = k /\ d.seq > st.cursor
    <3>1. PICK d \in batch : d.key = k /\ d.seq > st.cursor
      BY <2>3
    <3>2. (d.live <=> Live(k)) /\ (Kept(k) => rows[k].seq = d.seq)
      BY <1>0, <3>1 DEF BatchInv
    <3> QED BY <1>3, <3>1, <3>2 DEF Exact, Live
  <2>4. CASE ~ \E d \in batch : d.key = k /\ d.seq > st.cursor
    <3>1. \A d \in batch : d.key = k => d.seq <= st.cursor
      BY <1>0, <1>5, <2>4
    <3>2. nst.copy[k] = st.copy[k]
      BY <1>3, <3>1
    <3>3. ~Pending(k, st.cursor)
      <4> SUFFICES ASSUME NEW v \in Writers, pc[v] = "publish", NEW d \in out[v],
                          d.key = k, d.seq > st.cursor
                   PROVE  FALSE
        BY DEF Pending
      <4>1. v = w
        BY <1>0 DEF TurnInv, Busy
      <4>2. d.seq \in Nat /\ d \in out[w]
        BY <1>0, <4>1 DEF Delta
      <4>3. d \in batch
        BY <1>0, <4>2
      <4> QED BY <2>4, <4>3
    <3> QED BY <3>2, <3>3
  <2> QED BY <2>3, <2>4
<1>13. \A k \in Keys : Told(st, FALSE, k) => Told(nst, FALSE, k)'
  <2> SUFFICES ASSUME NEW k \in Keys, Told(st, FALSE, k) PROVE nst.copy[k] = Exact(k)
    BY <1>11 DEF Told
  <2> QED BY <1>12 DEF Told
<1>14. InStep(st, FALSE) => InStep(nst, FALSE)'
  BY <1>3, <1>11, <1>13 DEF InStep
<1>15. ASSUME Clean(st, FALSE), NEW k \in Keys
       PROVE  /\ coll.exists => nst.copy[k] = 0 \/ nst.copy[k] > nst.brought
              /\ \/ Told(nst, FALSE, k)'
                 \/ nst.copy[k] = 0 /\ Kept(k) /\ rows[k].seq <= nst.brought
  <2>1. coll.exists => nst.copy[k] = 0 \/ nst.copy[k] > nst.brought
    <3>1. coll.exists => st.copy[k] = 0 \/ st.copy[k] > st.brought
      BY <1>15 DEF Clean
    <3>2. st.brought <= st.cursor /\ nst.brought = st.brought
      BY <1>3 DEF StoreInv
    <3>3. nst.copy[k] > st.cursor => nst.copy[k] > st.brought
      BY <1>0, <1>4, <3>2
    <3> QED BY <1>6, <3>1, <3>2, <3>3
  <2>2. CASE Told(st, FALSE, k)
    BY <1>13, <2>1, <2>2
  <2>3. CASE st.copy[k] = 0 /\ Kept(k) /\ rows[k].seq <= st.brought
    <3>1. nst.copy[k] = Exact(k) => Told(nst, FALSE, k)'
      BY <1>11 DEF Told
    <3> QED BY <1>3, <1>12, <2>1, <2>3, <3>1
  <2> QED BY <1>15, <2>2, <2>3 DEF Clean
<1>16. Clean(st, FALSE) => Clean(nst, FALSE)'
  BY <1>0, <1>11, <1>15 DEF Clean
<1> QED BY <1>3, <1>8, <1>10, <1>14, <1>16

(* A store that is away misses the broadcast of a write, and finds the row *)
(* in the table.                                                           *)
LEMMA MissStore ==
  ASSUME TableInv, SerialInv, NEW w \in Writers, Publish(w), NEW st \in Store
  PROVE  /\ StoreInv(st) => StoreInv(st)'
         /\ InStep(st, TRUE) => InStep(st, TRUE)'
         /\ wjob[w].kind # "drop" /\ Clean(st, TRUE) /\ NotSwept(st) => Clean(st, TRUE)'
         /\ NotSwept(st)'
<1>0. TypeOK /\ TurnInv /\ BatchInv /\ pc[w] = "publish" /\ UNCHANGED <<coll, rows>>
  BY DEF TableInv, SerialInv, Publish
<1>1. \A v \in Writers : pc'[v] # "publish"
  BY <1>0 DEF Publish, Finish, Goto, TypeOK, TurnInv, Busy
<1>2. NotSwept(st)'
  BY <1>1 DEF NotSwept, Pending
<1>3. StoreInv(st) => StoreInv(st)'
  BY <1>0 DEF StoreInv
<1>4. \A k \in Keys : /\ Exact(k)' = Exact(k) /\ Kept(k)' = Kept(k) /\ rows'[k] = rows[k]
                      /\ k \in Above(st.cursor) => k \in Above(st.cursor)'
  BY <1>0 DEF Exact, Live, Kept, Above
<1>5. ASSUME NEW k \in Keys, Kept(k), Told(st, TRUE, k) PROVE Told(st, TRUE, k)'
  <2>1. CASE Pending(k, st.cursor)
    <3>1. PICK v \in Writers : pc[v] = "publish" /\ \E d \in out[v] : d.key = k /\ d.seq > st.cursor
      BY <2>1 DEF Pending
    <3>2. v = w
      BY <1>0, <3>1 DEF TurnInv, Busy
    <3>3. PICK d \in out[w] : d.key = k /\ d.seq > st.cursor
      BY <3>1, <3>2
    <3>4. rows[k].seq = d.seq
      BY <1>0, <1>5, <3>3 DEF BatchInv
    <3>5. k \in Above(st.cursor)
      BY <1>5, <3>3, <3>4 DEF Above
    <3> QED BY <1>4, <3>5 DEF Told
  <2>2. CASE ~Pending(k, st.cursor)
    BY <1>4, <1>5, <2>2 DEF Told
  <2> QED BY <2>1, <2>2
<1>6. InStep(st, TRUE) => InStep(st, TRUE)'
  BY <1>4, <1>5 DEF InStep
<1>7. ASSUME wjob[w].kind # "drop", Clean(st, TRUE), NotSwept(st) PROVE Clean(st, TRUE)'
  <2>1. coll.exists
    BY <1>0, <1>7 DEF BatchInv
  <2>2. ASSUME NEW k \in Keys, Told(st, TRUE, k) PROVE Told(st, TRUE, k)'
    <3>1. CASE Kept(k)
      BY <1>5, <2>2, <3>1
    <3>2. CASE ~Kept(k)
      <4>1. ~Pending(k, st.cursor) /\ k \notin Above(st.cursor)
        BY <1>7, <2>1, <3>2 DEF NotSwept, Above
      <4> QED BY <1>4, <2>2, <4>1 DEF Told
    <3> QED BY <3>1, <3>2
  <2> QED BY <1>0, <1>4, <1>7, <2>2 DEF Clean
<1> QED BY <1>2, <1>3, <1>6, <1>7

-----------------------------------------------------------------------------
(* The rows of a replay, and what it tells of them.                        *)
FirstAbove(n) ==
    {k \in Above(n) : Cardinality({j \in Above(n) : rows[j].seq < rows[k].seq}) < Batch}
DeltaOf(k) == [key |-> k, seq |-> rows[k].seq, live |-> Live(k)]
Deltas(F) == {DeltaOf(k) : k \in F}

LEMMA DeltasFacts ==
  ASSUME TypeOK, NEW n \in Nat, NEW F \in SUBSET Above(n), NEW m \in Nat,
         \A k \in F : rows[k].seq <= m
  PROVE  /\ Deltas(F) \in SUBSET Delta
         /\ \A d \in Deltas(F) : d.seq <= m /\ d.seq > n /\ d.seq \in Nat
         /\ \A d, e \in Deltas(F) : d.key = e.key => d = e
         /\ \A d \in Deltas(F) : /\ d.key \in F /\ d.seq = rows[d.key].seq
                                 /\ (d.live <=> Live(d.key))
         /\ \A k \in F : \E d \in Deltas(F) : d.key = k
<1>1. ASSUME NEW k \in F
      PROVE  /\ DeltaOf(k) \in Delta /\ DeltaOf(k).key = k /\ DeltaOf(k).seq = rows[k].seq
             /\ DeltaOf(k).live = Live(k)
             /\ rows[k].seq \in Nat /\ rows[k].seq > n
  <2>1. k \in Keys /\ rows[k].seq \in Nat /\ Live(k) \in BOOLEAN
        /\ rows[k].seq > n
    BY DEF TypeOK, Row, Above, Live
  <2> QED BY <2>1 DEF Delta, DeltaOf
<1>2. \A d \in Deltas(F) : \E k \in F : d = DeltaOf(k)
  BY DEF Deltas
<1>3. \A k \in F : DeltaOf(k) \in Deltas(F)
  BY DEF Deltas
<1>4. \A d \in Deltas(F) : d.key \in F /\ d = DeltaOf(d.key)
  BY <1>1, <1>2
<1> QED BY <1>1, <1>3, <1>4

(* A store that was away asks for the rows above its cursor. A replay that *)
(* leaves no row behind makes it whole again.                              *)
LEMMA ReplayStore ==
  ASSUME TableInv, SerialInv, NEW st \in Store, StoreInv(st),
         NEW F, F = FirstAbove(st.cursor), NEW batch, batch = Deltas(F),
         NEW nst, nst = Folded(st, batch)
  PROVE  /\ nst \in Store /\ StoreInv(nst) /\ st.cursor <= nst.cursor
         /\ Max({st.cursor} \cup {d.seq : d \in batch}) = nst.cursor
         /\ (\A k \in Above(0) : rows[k].seq <= nst.cursor)
            => /\ InStep(st, TRUE) => InStep(nst, FALSE)
               /\ Clean(st, TRUE) /\ NotSwept(st) => Clean(nst, FALSE) /\ NotSwept(nst)
<1>0. /\ TypeOK /\ RowsInv /\ BatchInv
      /\ coll.seq \in Nat /\ (\A k \in Keys : rows[k].seq \in Nat)
      /\ st.cursor \in Nat /\ st.brought \in Nat /\ st.copy \in [Keys -> Nat]
      /\ \A k \in Keys : st.copy[k] \in Nat
  BY StoreFacts DEF TableInv, SerialInv, TypeOK, Row
<1> DEFINE A == Above(st.cursor)
           below(i) == {j \in A : rows[j].seq < rows[i].seq}
<1>1. /\ F \subseteq A /\ F \in SUBSET A /\ A \subseteq Keys
      /\ \A k \in A : Kept(k) /\ rows[k].seq > st.cursor /\ rows[k].seq <= coll.seq
                      /\ coll.exists
      /\ \A k \in Keys : Kept(k) /\ rows[k].seq > st.cursor => k \in A
  BY <1>0 DEF Above, RowsInv, FirstAbove
<1>4. /\ batch \in SUBSET Delta /\ \A d \in batch : d.seq <= coll.seq
      /\ \A d, e \in batch : d.key = e.key => d = e
      /\ \A d \in batch : /\ d.key \in F /\ d.seq = rows[d.key].seq
                          /\ d.seq > st.cursor /\ (d.live <=> Live(d.key)) /\ d.seq \in Nat
      /\ \A k \in F : \E d \in batch : d.key = k
  BY <1>0, <1>1, DeltasFacts
<1>5. /\ nst \in Store /\ nst.cursor \in Nat /\ (\A k \in Keys : nst.copy[k] \in Nat)
      /\ nst.brought = st.brought
      /\ st.cursor <= nst.cursor
      /\ \A d \in batch : d.seq <= nst.cursor
      /\ nst.cursor = st.cursor \/ \E d \in batch : nst.cursor = d.seq
      /\ \A k \in Keys : (\A d \in batch : d.key = k => d.seq <= st.cursor)
                            => nst.copy[k] = st.copy[k]
      /\ \A d \in batch : d.seq > st.cursor =>
            nst.copy[d.key] = (IF d.live THEN d.seq ELSE 0)
  BY <1>0, <1>4, FoldedFacts, StoreFacts
<1>6. \A k \in Keys :
         \/ nst.copy[k] = st.copy[k] /\ k \notin F
         \/ nst.copy[k] = Exact(k) /\ nst.copy[k] = 0
         \/ nst.copy[k] = Exact(k) /\ nst.copy[k] > st.cursor /\ nst.copy[k] <= nst.cursor
  <2> SUFFICES ASSUME NEW k \in Keys
               PROVE  \/ nst.copy[k] = st.copy[k] /\ k \notin F
                      \/ nst.copy[k] = Exact(k) /\ nst.copy[k] = 0
                      \/ /\ nst.copy[k] = Exact(k) /\ nst.copy[k] > st.cursor
                         /\ nst.copy[k] <= nst.cursor
    OBVIOUS
  <2>1. CASE k \in F
    <3>1. PICK d \in batch : d.key = k
      BY <1>4, <2>1
    <3>2. d.seq = rows[k].seq /\ (d.live <=> Live(k)) /\ d.seq > st.cursor
      BY <1>4, <3>1
    <3>3. nst.copy[k] = (IF d.live THEN d.seq ELSE 0)
      BY <1>5, <3>1, <3>2
    <3> QED BY <1>5, <3>1, <3>2, <3>3 DEF Exact
  <2>2. CASE k \notin F
    <3>1. \A d \in batch : d.key # k
      BY <1>4, <2>2
    <3> QED BY <1>5, <2>2, <3>1
  <2> QED BY <2>1, <2>2
<1>7. Max({st.cursor} \cup {d.seq : d \in batch}) = nst.cursor
  <2>1. {d \in batch : d.seq > st.cursor} = batch
    BY <1>4
  <2> QED BY <2>1 DEF Folded
<1>8. StoreInv(nst)
  <2>1. st.brought <= nst.cursor
    BY <1>0, <1>5 DEF StoreInv
  <2>2. coll.exists => nst.cursor <= coll.seq \/ nst.cursor = st.brought
    BY <1>4, <1>5 DEF StoreInv
  <2>3. \A k \in Keys : nst.copy[k] <= nst.cursor
    BY <1>0, <1>5, <1>6 DEF StoreInv
  <2> QED BY <1>5, <2>1, <2>2, <2>3 DEF StoreInv
<1>9. ASSUME NEW k \in A, rows[k].seq <= nst.cursor PROVE k \in F
  <2>0. k \in Keys /\ rows[k].seq \in Nat /\ rows[k].seq > st.cursor
    BY <1>0, <1>1
  <2>1. PICK p \in F : rows[k].seq <= rows[p].seq
    <3>1. nst.cursor # st.cursor
      BY <1>0, <1>5, <1>9, <2>0
    <3>2. PICK d \in batch : nst.cursor = d.seq
      BY <1>5, <3>1
    <3> QED BY <1>4, <1>9, <3>2
  <2>2. IsFiniteSet(A)
    BY <1>1, RecordsAssumption, FS_Subset
  <2>3. below(k) \subseteq below(p) /\ below(p) \subseteq A
    <3>1. \A j \in A : rows[j].seq \in Nat
      BY <1>0, <1>1
    <3>2. rows[p].seq \in Nat
      BY <1>0, <1>1
    <3> HIDE DEF A
    <3> QED BY <2>0, <2>1, <3>1, <3>2
  <2>4. Cardinality(below(p)) < Batch
    BY DEF FirstAbove
  <2>5. /\ Cardinality(below(k)) \in Nat /\ Cardinality(below(p)) \in Nat
        /\ Cardinality(below(k)) <= Cardinality(below(p))
    <3> HIDE DEF A, below
    <3>1. IsFiniteSet(below(p))
      BY <2>2, <2>3, FS_Subset
    <3> QED BY <2>3, <3>1, FS_Subset, FS_CardinalityType
  <2>6. Cardinality(below(k)) < Batch
    <3> HIDE DEF below
    <3> QED BY <2>4, <2>5, TemplateRecordsAssumption
  <2> QED BY <2>6 DEF FirstAbove
<1> HIDE DEF below
<1>10. ASSUME \A k \in Above(0) : rows[k].seq <= nst.cursor, NEW k \in Keys, Told(st, TRUE, k),
              NotSwept(st) \/ Kept(k)
       PROVE  Told(nst, FALSE, k)
  <2>1. k \in A => k \in F
    <3>1. k \in A => k \in Above(0)
      BY <1>0, <1>1 DEF Above
    <3> QED BY <1>9, <1>10, <3>1
  <2>2. CASE k \in F
    <3>1. nst.copy[k] = Exact(k)
      BY <1>6, <2>2
    <3> QED BY <3>1 DEF Told
  <2>3. CASE k \notin F
    <3>1. nst.copy[k] = st.copy[k] \/ nst.copy[k] = Exact(k)
      BY <1>6
    <3>2. st.copy[k] = Exact(k) \/ Pending(k, st.cursor)
      BY <1>10, <2>1, <2>3 DEF Told
    <3>3. CASE Pending(k, st.cursor)
      <4>1. PICK w \in Writers : pc[w] = "publish"
                      /\ \E d \in out[w] : d.key = k /\ d.seq > st.cursor
        BY <3>3 DEF Pending
      <4>2. PICK d \in out[w] : d.key = k /\ d.seq > st.cursor
        BY <4>1
      <4>3. CASE coll.exists
        <5>1. Kept(k)
          BY <1>10, <3>3, <4>3 DEF NotSwept
        <5>2. rows[k].seq = d.seq
          BY <1>0, <4>1, <4>2, <5>1 DEF BatchInv
        <5> QED BY <1>1, <2>1, <2>3, <4>2, <5>1, <5>2
      <4>4. CASE ~coll.exists
        <5>1. F = {}
          BY <1>1, <4>4
        <5>2. nst.cursor = st.cursor
          BY <1>4, <1>5, <5>1
        <5> QED BY <3>3, <5>2 DEF Told
      <4> QED BY <4>3, <4>4
    <3> QED BY <3>1, <3>2, <3>3 DEF Told
  <2> QED BY <2>2, <2>3
<1>11. ASSUME NotSwept(st) PROVE NotSwept(nst)
  <2> SUFFICES ASSUME coll.exists, NEW k \in Keys, Pending(k, nst.cursor) PROVE Kept(k)
    BY DEF NotSwept
  <2>1. PICK w \in Writers : pc[w] = "publish" /\ \E d \in out[w] : d.key = k /\ d.seq > nst.cursor
    BY DEF Pending
  <2>2. PICK d \in out[w] : d.key = k /\ d.seq > nst.cursor
    BY <2>1
  <2>3. d.seq \in Nat
    BY <1>0 DEF TypeOK, Delta
  <2>4. d.seq > st.cursor
    BY <1>0, <1>5, <2>2, <2>3
  <2>5. Pending(k, st.cursor)
    BY <2>1, <2>2, <2>4 DEF Pending
  <2> QED BY <1>11, <2>5 DEF NotSwept
<1>12. ASSUME \A k \in Above(0) : rows[k].seq <= nst.cursor, InStep(st, TRUE)
       PROVE  InStep(nst, FALSE)
  BY <1>5, <1>10, <1>12 DEF InStep
<1>13. ASSUME \A k \in Above(0) : rows[k].seq <= nst.cursor, Clean(st, TRUE), NotSwept(st)
       PROVE  Clean(nst, FALSE)
  <2> SUFFICES ASSUME NEW k \in Keys
               PROVE  /\ coll.exists => nst.copy[k] = 0 \/ nst.copy[k] > nst.brought
                      /\ \/ Told(nst, FALSE, k)
                         \/ nst.copy[k] = 0 /\ Kept(k) /\ rows[k].seq <= nst.brought
    BY DEF Clean
  <2>1. coll.exists => nst.copy[k] = 0 \/ nst.copy[k] > nst.brought
    <3>1. coll.exists => st.copy[k] = 0 \/ st.copy[k] > st.brought
      BY <1>13 DEF Clean
    <3>2. st.brought <= st.cursor /\ nst.brought = st.brought
      BY <1>5 DEF StoreInv
    <3>3. nst.copy[k] > st.cursor => nst.copy[k] > st.brought
      BY <1>0, <1>5, <3>2
    <3> QED BY <1>6, <3>1, <3>2, <3>3
  <2>2. CASE Told(st, TRUE, k)
    BY <1>10, <1>13, <2>1, <2>2
  <2>3. CASE st.copy[k] = 0 /\ Kept(k) /\ rows[k].seq <= st.brought
    <3>1. nst.copy[k] = Exact(k) => Told(nst, FALSE, k)
      BY DEF Told
    <3> QED BY <1>5, <1>6, <2>1, <2>3, <3>1
  <2> QED BY <1>13, <2>2, <2>3 DEF Clean
<1> QED BY <1>5, <1>7, <1>8, <1>11, <1>12, <1>13

-----------------------------------------------------------------------------
(* What a step of the requests, the readers or the sweeper is to a store.  *)
St(c) == [cursor |-> cursor[c], copy |-> copy[c], brought |-> brought[c]]

Drops(w) == CommitDrop(w) /\ coll.exists /\ coll.gen = wjob[w].gen

LEMMA IdleCases ==
  ASSUME TypeOK, NEW w \in Writers, pc[w] # "publish", UNCHANGED <<coll, rows>>,
         \/ Finish(w)
         \/ \E step \in {"cap", "begin", "bump", "locked", "lookup"} :
               Goto(w, step) /\ UNCHANGED out
  PROVE  Idle
BY DEF TypeOK, Finish, Goto, Idle

(* Every stage of a request but the drop and the broadcast is a commit, or *)
(* nothing a store could notice.                                           *)
LEMMA QuietCases ==
  ASSUME TableInv, SerialInv, NEW w \in Writers,
         \/ \E kind \in {"post", "patch", "delete", "drop"}, key \in Keys,
               match \in 1 .. MaxSeq \cup {NoMatch} : Receive(w, kind, key, match)
         \/ CheckCap(w) \/ ReadRow(w) \/ ReadCollection(w) \/ Bump(w)
         \/ CommitPost(w) \/ LookUp(w) \/ CommitChange(w) \/ Abort(w)
  PROVE  (Idle /\ UNCHANGED clientVars) \/ \E row \in Row : Commits(w, row)
<1>0. TypeOK /\ TurnInv
  BY DEF TableInv, SerialInv
<1>2. ASSUME NEW kind \in {"post", "patch", "delete", "drop"},
             NEW key \in Keys, NEW match \in 1 .. MaxSeq \cup {NoMatch},
             Receive(w, kind, key, match)
      PROVE  Idle /\ UNCHANGED clientVars
  <2>1. pc[w] # "publish" /\ UNCHANGED <<coll, rows, out, clientVars>>
        /\ (Goto(w, "cap") \/ Goto(w, "begin"))
    BY <1>2 DEF Receive
  <2> QED BY <1>0, <2>1, IdleCases
<1>3. ASSUME CheckCap(w) \/ ReadRow(w) \/ ReadCollection(w) \/ Bump(w) \/ LookUp(w) \/ Abort(w)
      PROVE  Idle /\ UNCHANGED clientVars
  <2>1. pc[w] # "publish" /\ UNCHANGED <<coll, rows, clientVars>>
    BY <1>3 DEF CheckCap, ReadRow, ReadCollection, Bump, LookUp, Abort
  <2>2. Finish(w) \/ \E step \in {"cap", "begin", "bump", "locked", "lookup"} :
                        Goto(w, step) /\ UNCHANGED out
    BY <1>3 DEF CheckCap, ReadRow, ReadCollection, Bump, LookUp, Abort
  <2> QED BY <1>0, <2>1, <2>2, IdleCases
<1>4. ASSUME CommitPost(w) \/ CommitChange(w)
      PROVE  (Idle /\ UNCHANGED clientVars) \/ \E row \in Row : Commits(w, row)
  <2>1. pc[w] # "publish"
    BY <1>4 DEF CommitPost, CommitChange
  <2>2. \/ \E row \in Row : Commits(w, row)
        \/ /\ CommitPost(w) /\ Goto(w, "lookup") /\ lock' = Nobody
           /\ UNCHANGED <<coll, rows, wjob, out, clientVars>>
        \/ Finish(w) /\ UNCHANGED <<coll, rows, clientVars>>
    BY <1>0, <1>4, CommitCases
  <2>3. CASE UNCHANGED <<coll, rows, clientVars>>
             /\ (Finish(w) \/ (Goto(w, "lookup") /\ UNCHANGED out))
    BY <1>0, <2>1, <2>3, IdleCases
  <2> QED BY <2>2, <2>3
<1> QED BY <1>2, <1>3, <1>4

LEMMA DropCases ==
  ASSUME TableInv, NEW w \in Writers, CommitDrop(w)
  PROVE  (Drops(w) \/ (Idle /\ UNCHANGED coll /\ ~Drops(w))) /\ UNCHANGED clientVars
<1>1. TypeOK /\ pc[w] # "publish" /\ UNCHANGED clientVars
  BY DEF TableInv, CommitDrop
<1>2. CASE ~(coll.exists /\ coll.gen = wjob[w].gen)
  <2>1. Finish(w) /\ UNCHANGED <<coll, rows>>
    BY <1>2 DEF CommitDrop
  <2> QED BY <1>1, <1>2, <2>1, IdleCases DEF Drops
<1> QED BY <1>1, <1>2 DEF Drops

LEMMA StepCases ==
  ASSUME TableInv, SerialInv, [Next]_vars
  PROVE  \/ /\ \/ Idle
               \/ \E w \in Writers : Drops(w)
               \/ \E k \in Keys : Sweep(k)
            /\ \A c \in Subscribers : St(c)' = St(c)
         \/ \E w \in Writers : \E row \in Row : Commits(w, row)
         \/ \E w \in Writers : Publish(w)
<1>0. TypeOK
  BY DEF TableInv
<1> DEFINE Same == \A c \in Subscribers : St(c)' = St(c)
<1>1. UNCHANGED clientVars => Same
  BY DEF clientVars, St
<1>6. ASSUME NEW c \in Readers, Poll(c) PROVE Idle /\ Same
  <2>1. Idle
    BY <1>6 DEF Poll, Idle
  <2>2. \A e \in Subscribers : e \in Clients /\ e # c
    BY RecordsAssumption DEF Clients
  <2>3. \A e \in Subscribers :
           cursor'[e] = cursor[e] /\ copy'[e] = copy[e] /\ brought'[e] = brought[e]
    BY <1>0, <1>6, <2>2 DEF Poll, TypeOK
  <2> QED BY <2>1, <2>3 DEF St
<1>7. ASSUME NEW k \in Keys, Sweep(k) PROVE UNCHANGED clientVars
  BY <1>7 DEF Sweep
<1>8. UNCHANGED vars => Idle /\ UNCHANGED clientVars
  BY DEF vars, Idle, clientVars
<1> HIDE DEF Same
<1>9. \A w \in Writers : WriterStep(w) =>
         \/ Publish(w)
         \/ \E row \in Row : Commits(w, row)
         \/ (Idle \/ Drops(w)) /\ UNCHANGED clientVars
  BY QuietCases, DropCases DEF WriterStep
<1> DEFINE Dropped == \E w \in Writers : Drops(w)
           Swept == \E k \in Keys : Sweep(k)
           Committed == \E w \in Writers : \E row \in Row : Commits(w, row)
           Published == \E w \in Writers : Publish(w)
<1>10. ASSUME NEW w \in Writers, WriterStep(w)
       PROVE  ((Idle \/ Dropped) /\ Same) \/ Committed \/ Published
  BY <1>1, <1>9, <1>10
<1>11. ASSUME NEW w \in Writers, NEW kind \in {"post", "patch", "delete", "drop"},
              NEW key \in Keys, NEW match \in 1 .. MaxSeq \cup {NoMatch},
              Receive(w, kind, key, match)
       PROVE  (Idle /\ Same) \/ Committed
  <2>1. (Idle /\ UNCHANGED clientVars) \/ \E row \in Row : Commits(w, row)
    BY <1>11, QuietCases
  <2> QED BY <1>1, <2>1
<1>12. Swept => Same
  BY <1>1, <1>7
<1>13. Next => ((Idle \/ Dropped \/ Swept) /\ Same) \/ Committed \/ Published
  <2> HIDE DEF Dropped, Committed, Published
  <2> QED BY <1>6, <1>10, <1>11, <1>12 DEF Next
<1> QED BY <1>1, <1>8, <1>13 DEF Same

-----------------------------------------------------------------------------
(* Connected shells hear every broadcast.                                  *)
SubsInv == \A c \in Subscribers : StoreInv(St(c)) /\ Clean(St(c), FALSE)

LEMMA StoreOfClient ==
  ASSUME TypeOK, NEW c \in Subscribers
  PROVE  St(c) \in Store
BY DEF TypeOK, St, Store, Clients

LEMMA SubsInvStep ==
  ASSUME TableInv, SerialInv, SubsInv, [Next]_vars
  PROVE  SubsInv'
<1> SUFFICES ASSUME NEW c \in Subscribers
             PROVE  StoreInv(St(c))' /\ Clean(St(c), FALSE)'
  BY DEF SubsInv
<1>0. TypeOK /\ StoreInv(St(c)) /\ Clean(St(c), FALSE)
  BY DEF TableInv, SubsInv
<1>1. PICK st \in Store : st = St(c)
  BY <1>0, StoreOfClient
<1>2. StoreInv(st) /\ Clean(st, FALSE)
  BY <1>0, <1>1
<1>3. ASSUME NEW nst, St(c)' = nst, StoreInv(nst)', Clean(nst, FALSE)'
      PROVE  StoreInv(St(c))' /\ Clean(St(c), FALSE)'
  BY <1>3 DEF StoreInv, Clean, Told
<1>4. CASE Idle /\ St(c)' = St(c)
  BY <1>1, <1>2, <1>3, <1>4, IdleStore
<1>5. ASSUME NEW w \in Writers, NEW row \in Row, Commits(w, row)
      PROVE  StoreInv(St(c))' /\ Clean(St(c), FALSE)'
  <2>1. PICK nst : nst = Arrived(st)
    OBVIOUS
  <2>2. StoreInv(nst)' /\ Clean(nst, FALSE)'
    BY <1>2, <1>5, <2>1, WriteStore
  <2>3. St(c)' = nst
    <3>1. cursor'[c] = cursor[c] /\ copy'[c] = copy[c]
          /\ brought'[c] = (IF coll.exists THEN brought[c] ELSE cursor[c])
      BY <1>5 DEF Commits, Write
    <3>2. st = [cursor |-> cursor[c], copy |-> copy[c], brought |-> brought[c]]
      BY <1>1 DEF St
    <3>3. nst = [cursor |-> cursor[c], copy |-> copy[c],
                 brought |-> IF coll.exists THEN brought[c] ELSE cursor[c]]
      BY <2>1, <3>2 DEF Arrived
    <3> QED BY <3>1, <3>3 DEF St
  <2> QED BY <1>3, <2>2, <2>3
<1>6. ASSUME NEW w \in Writers, Drops(w), St(c)' = St(c)
      PROVE  StoreInv(St(c))' /\ Clean(St(c), FALSE)'
  BY <1>1, <1>2, <1>3, <1>6, DropStore DEF Drops
<1>7. ASSUME NEW k \in Keys, Sweep(k), St(c)' = St(c)
      PROVE  StoreInv(St(c))' /\ Clean(St(c), FALSE)'
  BY <1>0, <1>1, <1>2, <1>3, <1>7, SweepStore
<1>8. ASSUME NEW w \in Writers, Publish(w)
      PROVE  StoreInv(St(c))' /\ Clean(St(c), FALSE)'
  <2>1. PICK nst : nst = Folded(st, out[w])
    OBVIOUS
  <2>2. StoreInv(nst)' /\ Clean(nst, FALSE)'
    BY <1>2, <1>8, <2>1, PublishStore
  <2>3. St(c)' = nst
    <3>1. c \in Clients
      BY DEF Clients
    <3>2. /\ cursor'[c] = Fold(c, out[w]).cursor
          /\ copy'[c] = Fold(c, out[w]).copy
          /\ brought'[c] = brought[c]
      BY <1>8, <3>1 DEF Publish
    <3>3. /\ Fold(c, out[w]).cursor = nst.cursor /\ Fold(c, out[w]).copy = nst.copy
          /\ brought[c] = nst.brought
      BY <1>1, <2>1 DEF Fold, Folded, St
    <3>4. nst = [cursor |-> nst.cursor, copy |-> nst.copy, brought |-> nst.brought]
      BY <2>1 DEF Folded
    <3> QED BY <3>2, <3>3, <3>4 DEF St
  <2> QED BY <1>3, <2>2, <2>3
<1> QED BY <1>4, <1>5, <1>6, <1>7, <1>8, StepCases

LEMMA SubsInvInit == Init => SubsInv
<1> SUFFICES ASSUME Init, NEW c \in Subscribers
             PROVE  StoreInv(St(c)) /\ Clean(St(c), FALSE)
  BY DEF SubsInv
<1>1. cursor[c] = 0 /\ brought[c] = 0 /\ (\A k \in Keys : copy[c][k] = 0) /\ ~coll.exists
  BY DEF Init, Clients
<1>2. \A k \in Keys : ~Kept(k)
  BY DEF Init, Kept, NoRecord
<1> QED BY <1>1, <1>2 DEF StoreInv, Clean, Told, St, Exact, Live

(* applyUpsert and applyDelete: a shell that stays connected to SQLite's   *)
(* relay shows, when no broadcast is pending and whatever was written,     *)
(* dropped, created again and swept, no row that is gone and none in an    *)
(* old state; it does without a row only if that is numbered at or below   *)
(* the cursor which it brought from a collection since dropped.            *)
THEOREM SubscribersShowTheRows ==
  ASSUME Serial
  PROVE  Spec => []SubscribersInv
<1>1. RecordsInv /\ SerialInv /\ SubsInv /\ [Next]_vars => SubsInv'
  BY SubsInvStep DEF RecordsInv
<1>2. RecordsInv /\ SubsInv => SubscribersInv
  <2> SUFFICES ASSUME TypeOK, SubsInv, \A w \in Writers : pc[w] # "publish",
                      NEW c \in Subscribers, NEW k \in Keys
               PROVE  \/ copy[c][k] = (IF Live(k) THEN rows[k].seq ELSE 0)
                      \/ copy[c][k] = 0 /\ rows[k].seq <= brought[c]
    BY DEF RecordsInv, TableInv, SubscribersInv, SubscriberExact
  <2>1. Clean(St(c), FALSE) /\ ~Pending(k, cursor[c])
    BY DEF SubsInv, Pending
  <2> QED BY <2>1 DEF Clean, Told, St, Exact
<1> QED BY <1>1, <1>2, SubsInvInit, SerialInvariant, RecordsInvariant, PTL DEF Spec

-----------------------------------------------------------------------------
(***************************************************************************)
(* Template-level records: the requests, the readers and the sweeper are   *)
(* those of a collection, and the sessions hold stores of their own.       *)
(***************************************************************************)
LEMMA TplStepIsStep == [TplNext]_tplVars => [Next]_vars
<1> SUFFICES ASSUME [TplNext]_tplVars PROVE [Next]_vars
  OBVIOUS
<1>1. ASSUME NEW w \in Writers, NEW kind \in {"post", "patch", "delete", "drop"},
             NEW key \in Keys, NEW match \in 1 .. MaxSeq \cup {NoMatch},
             TplReceive(w, kind, key, match)
      PROVE  Next
  BY <1>1 DEF TplReceive, Next
<1>2. ASSUME NEW w \in Writers, TplWriterStep(w) PROVE Next
  <2>1. WriterStep(w)
    BY <1>2 DEF TplWriterStep, TplCap, TplPost, TplPatch, TplDelete, TplDrop, TplPublish,
                TplAbort, WriterStep
  <2> QED BY <2>1 DEF Next
<1>3. ASSUME NEW k \in Keys, TplSweep(k) PROVE Next
  BY <1>3 DEF TplSweep, Next
<1>4. ASSUME NEW s \in Sessions,
             ReplayRecords(s) \/ SubscribeToNone(s) \/ GoLive(s) \/ Disconnect(s)
      PROVE  UNCHANGED vars
  BY <1>4 DEF ReplayRecords, SubscribeToNone, GoLive, Disconnect
<1>5. AppendSchema \/ UNCHANGED tplVars => UNCHANGED vars
  BY DEF AppendSchema, tplVars
<1>6. TplNext => [Next]_vars
  BY <1>1, <1>2, <1>3, <1>4, <1>5 DEF TplNext
<1> QED BY <1>5, <1>6

LEMMA TplSpecIsSpec == TplSpec => Spec
<1>1. TplInit => Init
  BY DEF TplInit
<1> QED BY <1>1, TplStepIsStep, PTL DEF TplSpec, Spec

(* A session that is away is told by the next replay; one between its      *)
(* replay and the subscription, or live, must have been told already,      *)
(* unless it is on record as having missed something.                      *)
Away(state) == state \in {"off", "deaf"}

SessionSound(s) ==
    /\ StoreInv(shown[s])
    /\ socket[s].last <= shown[s].cursor
    /\ s \notin lost => InStep(shown[s], Away(socket[s].state))
    /\ s \notin lost \cup stale =>
          Clean(shown[s], Away(socket[s].state)) /\ NotSwept(shown[s])

SessInv == TplTypeOK /\ \A s \in Sessions : SessionSound(s)

(* How it is shown that a step leaves a session sound.                     *)
LEMMA SoundNext ==
  ASSUME NEW s \in Sessions, NEW st, NEW away, NEW last,
         shown'[s] = st, Away(socket[s].state)' = away, socket'[s].last = last,
         StoreInv(st)', last <= st.cursor,
         s \notin lost' => InStep(st, away)',
         s \notin lost' \cup stale' => Clean(st, away)' /\ NotSwept(st)'
  PROVE  SessionSound(s)'
<1>1. StoreInv(shown[s])'
  BY DEF StoreInv
<1>2. s \notin lost' => InStep(shown[s], Away(socket[s].state))'
  BY DEF InStep, Told
<1>3. s \notin lost' \cup stale' =>
         Clean(shown[s], Away(socket[s].state))' /\ NotSwept(shown[s])'
  BY DEF Clean, Told, NotSwept
<1>4. socket'[s].last <= shown'[s].cursor
  OBVIOUS
<1> QED BY <1>1, <1>2, <1>3, <1>4 DEF SessionSound

(* What a session has been before the step.                                *)
Was(s, st, away, last) ==
    /\ shown[s] = st /\ Away(socket[s].state) = away /\ socket[s].last = last
    /\ StoreInv(st) /\ last <= st.cursor
    /\ s \notin lost => InStep(st, away)
    /\ s \notin lost \cup stale => Clean(st, away) /\ NotSwept(st)

LEMMA SoundNow ==
  ASSUME SessInv, NEW s \in Sessions
  PROVE  \E st \in Store, away \in BOOLEAN, last \in Nat : Was(s, st, away, last)
<1>1. shown[s] \in Store /\ socket[s].last \in Nat
  BY DEF SessInv, TplTypeOK, Store
<1>2. SessionSound(s) /\ Away(socket[s].state) \in BOOLEAN
  BY DEF SessInv, Away
<1>3. PICK st \in Store, away \in BOOLEAN, last \in Nat :
         shown[s] = st /\ Away(socket[s].state) = away /\ socket[s].last = last
  BY <1>1, <1>2
<1>4. Was(s, st, away, last)
  BY <1>2, <1>3 DEF SessionSound, Was
<1> QED BY <1>4

LEMMA WeakerWhenAway ==
  ASSUME NEW st, NEW away
  PROVE  /\ InStep(st, away) => InStep(st, TRUE)
         /\ Clean(st, away) => Clean(st, TRUE)
BY DEF InStep, Clean, Told

(* The stages of a request but the drop and the publication: a commit, at  *)
(* which the stores arrive, or nothing a store could notice.               *)
Quiet ==
    /\ UNCHANGED <<declared, latest, socket, lost, stale>>
    /\ \/ Idle /\ UNCHANGED shown
       \/ /\ \E w \in Writers : \E row \in Row : Commits(w, row)
          /\ shown' = [s \in Sessions |-> Arrived(shown[s])]

LEMMA QuietCommit ==
  ASSUME TableInv, TplTypeOK, NEW w \in Writers, NEW row \in Row, Commits(w, row),
         UNCHANGED <<declared, latest, socket, lost, stale>>,
         shown' = Brought \/ (UNCHANGED shown /\ wjob[w].kind # "post")
  PROVE  Quiet
<1>1. coll'.exists
  BY DEF Commits, Write
<1>2. shown = [s \in Sessions |-> shown[s]]
  BY DEF TplTypeOK
<1>3. CASE shown' = Brought
  <2>1. Brought = [s \in Sessions |-> Arrived(shown[s])]
    BY <1>1 DEF Brought, Arrived
  <2> QED BY <1>3, <2>1 DEF Quiet
<1>4. CASE UNCHANGED shown /\ wjob[w].kind # "post"
  <2>1. coll.exists
    BY <1>4 DEF TableInv, LockInv, Commits
  <2>2. [s \in Sessions |-> Arrived(shown[s])] = [s \in Sessions |-> shown[s]]
    BY <2>1 DEF Arrived
  <2> QED BY <1>2, <1>4, <2>2 DEF Quiet
<1> QED BY <1>3, <1>4

LEMMA QuietIdle ==
  ASSUME TplTypeOK, Idle, UNCHANGED <<declared, latest, socket, lost, stale>>,
         shown' = Brought \/ UNCHANGED shown
  PROVE  Quiet
<1>1. shown = [s \in Sessions |-> shown[s]] /\ UNCHANGED coll
  BY DEF TplTypeOK, Idle
<1>2. Brought = [s \in Sessions |-> shown[s]]
  BY <1>1 DEF Brought
<1> QED BY <1>1, <1>2 DEF Quiet

LEMMA QuietStages ==
  ASSUME TableInv, SerialInv, SessInv, NEW w \in Writers,
         \/ \E kind \in {"post", "patch", "delete", "drop"}, key \in Keys,
               match \in 1 .. MaxSeq \cup {NoMatch} : TplReceive(w, kind, key, match)
         \/ TplCap(w) \/ TplPost(w) \/ TplPatch(w) \/ TplDelete(w) \/ TplAbort(w)
         \/ ReadCollection(w) /\ UNCHANGED sessionVars
  PROVE  Quiet
<1>0. TplTypeOK
  BY DEF SessInv
<1>1. /\ \/ \E kind \in {"post", "patch", "delete", "drop"}, key \in Keys,
                match \in 1 .. MaxSeq \cup {NoMatch} : Receive(w, kind, key, match)
         \/ CheckCap(w) \/ ReadRow(w) \/ ReadCollection(w) \/ Bump(w)
         \/ CommitPost(w) \/ LookUp(w) \/ CommitChange(w) \/ Abort(w)
      /\ UNCHANGED <<declared, latest, socket, lost, stale>>
      /\ shown' = Brought \/ UNCHANGED shown
  BY DEF TplReceive, TplCap, TplPost, TplPatch, TplDelete, TplAbort, sessionVars
<1>2. Idle \/ \E row \in Row : Commits(w, row)
  BY <1>1, QuietCases
<1>3. CASE Idle
  BY <1>0, <1>1, <1>3, QuietIdle
<1>4. ASSUME NEW row \in Row, Commits(w, row), ~Idle PROVE Quiet
  <2>1. pc[w] = "locked" /\ pc'[w] = "publish"
    BY <1>4 DEF Commits, Write, Goto, TableInv, TypeOK
  <2>2. CASE TplPost(w)
    <3>1. shown' = Brought
      BY <2>2 DEF TplPost
    <3> QED BY <1>0, <1>1, <1>4, <3>1, QuietCommit
  <2>3. CASE ~TplPost(w)
    <3>1. UNCHANGED shown
      BY <1>4, <2>3 DEF TplReceive, TplCap, TplPatch, TplDelete, TplAbort, sessionVars
    <3>2. CASE wjob[w].kind # "post"
      BY <1>0, <1>1, <1>4, <3>1, <3>2, QuietCommit
    <3>3. CASE wjob[w].kind = "post"
      <4>1. Abort(w)
        BY <2>1, <2>3, <3>3 DEF TplReceive, Receive, TplCap, CheckCap, TplPatch, TplDelete,
                                TplAbort, ReadCollection
      <4> QED BY <2>1, <4>1 DEF Abort, Finish, Goto, TableInv, TypeOK
    <3> QED BY <3>2, <3>3
  <2> QED BY <2>2, <2>3
<1> QED BY <1>2, <1>3, <1>4

LEMMA QuietStep ==
  ASSUME TableInv, SerialInv, SessInv, Quiet
  PROVE  SessInv'
<1>0. TplTypeOK /\ shown \in [Sessions -> Store] /\ UNCHANGED <<socket, lost, stale>>
  BY DEF SessInv, TplTypeOK, Store, Quiet
<1>1. ASSUME NEW s \in Sessions PROVE shown'[s] \in Store /\ SessionSound(s)'
  <2>1. PICK st \in Store, away \in BOOLEAN, last \in Nat : Was(s, st, away, last)
    BY SoundNow
  <2>2. PICK nst : nst = shown'[s]
    OBVIOUS
  <2>3. /\ nst \in Store /\ StoreInv(nst)' /\ nst.cursor = st.cursor
        /\ InStep(st, away) => InStep(nst, away)'
        /\ Clean(st, away) => Clean(nst, away)'
        /\ NotSwept(st) => NotSwept(nst)'
    <3>1. CASE Idle /\ UNCHANGED shown
      <4>1. nst = st
        BY <2>1, <2>2, <3>1 DEF Was
      <4>2. /\ StoreInv(st)'
            /\ InStep(st, away) => InStep(st, away)'
            /\ Clean(st, away) => Clean(st, away)'
            /\ NotSwept(st) => NotSwept(st)'
        BY <2>1, <3>1, IdleStore DEF Was
      <4> QED BY <4>1, <4>2
    <3>2. ASSUME NEW w \in Writers, NEW row \in Row, Commits(w, row),
                 shown' = [r \in Sessions |-> Arrived(shown[r])]
          PROVE  /\ nst \in Store /\ StoreInv(nst)' /\ nst.cursor = st.cursor
                 /\ InStep(st, away) => InStep(nst, away)'
                 /\ Clean(st, away) => Clean(nst, away)'
                 /\ NotSwept(st) => NotSwept(nst)'
      <4>1. nst = Arrived(st) /\ StoreInv(st)
        BY <2>1, <2>2, <3>2 DEF Was
      <4> QED BY <3>2, <4>1, WriteStore
    <3> QED BY <3>1, <3>2 DEF Quiet
  <2>4. Away(socket[s].state)' = away /\ socket'[s].last = last /\ last <= nst.cursor
    BY <1>0, <2>1, <2>3 DEF Was, Away
  <2>5. s \notin lost' => InStep(nst, away)'
    BY <1>0, <2>1, <2>3 DEF Was
  <2>6. s \notin lost' \cup stale' => Clean(nst, away)' /\ NotSwept(nst)'
    BY <1>0, <2>1, <2>3 DEF Was
  <2> QED BY <2>2, <2>3, <2>4, <2>5, <2>6, SoundNext
<1>2. TplTypeOK'
  <2>1. shown' \in [Sessions -> Store]
    <3>1. DOMAIN shown' = Sessions /\ shown' = [s \in Sessions |-> shown'[s]]
      BY <1>0 DEF Quiet
    <3> QED BY <1>1, <3>1
  <2> QED BY <1>0, <2>1 DEF TplTypeOK, Store, Quiet
<1> QED BY <1>1, <1>2 DEF SessInv

(* A drop: who is away then keeps showing rows that are gone.              *)
LEMMA DropStep ==
  ASSUME TableInv, SerialInv, SessInv, NEW w \in Writers, Drops(w),
         stale' = stale \cup {s \in Sessions : socket[s].state # "live"},
         UNCHANGED <<declared, latest, socket, shown, lost>>
  PROVE  SessInv'
<1>1. TplTypeOK'
  BY DEF SessInv, TplTypeOK
<1>2. ASSUME NEW s \in Sessions PROVE SessionSound(s)'
  <2>1. PICK st \in Store, away \in BOOLEAN, last \in Nat : Was(s, st, away, last)
    BY SoundNow
  <2>2. /\ StoreInv(st)' /\ NotSwept(st)' /\ InStep(st, away)'
        /\ Clean(st, FALSE) => Clean(st, FALSE)'
    BY <2>1, DropStore DEF Drops, Was
  <2>3. s \notin lost' \cup stale' => s \notin lost \cup stale /\ away = FALSE
    BY <2>1 DEF Was, Away
  <2>4. s \notin lost' \cup stale' => Clean(st, away)' /\ NotSwept(st)'
    BY <2>1, <2>2, <2>3 DEF Was
  <2>5. shown'[s] = st /\ Away(socket[s].state)' = away /\ socket'[s].last = last
        /\ last <= st.cursor
    BY <2>1 DEF Was, Away
  <2> QED BY <2>2, <2>4, <2>5, SoundNext
<1> QED BY <1>1, <1>2 DEF SessInv

LEMMA SweepStep ==
  ASSUME TableInv, SerialInv, SessInv, NEW k \in Keys, TplSweep(k)
  PROVE  SessInv'
<1>0. /\ Sweep(k) /\ TypeOK /\ rows[k].seq \in Nat
      /\ stale' = stale \cup {s \in Sessions : shown[s].cursor < rows[k].seq}
      /\ UNCHANGED <<declared, latest, socket, shown, lost>>
  BY DEF TplSweep, TableInv, TypeOK, Row
<1>1. TplTypeOK'
  BY <1>0 DEF SessInv, TplTypeOK
<1>2. ASSUME NEW s \in Sessions PROVE SessionSound(s)'
  <2>1. PICK st \in Store, away \in BOOLEAN, last \in Nat : Was(s, st, away, last)
    BY SoundNow
  <2>2. /\ StoreInv(st)'
        /\ InStep(st, away) => InStep(st, away)'
        /\ rows[k].seq <= st.cursor => (Clean(st, away) => Clean(st, away)')
        /\ rows[k].seq <= st.cursor => (NotSwept(st) => NotSwept(st)')
    BY <1>0, <2>1, SweepStore DEF Was
  <2>3. s \notin lost' \cup stale' => s \notin lost \cup stale /\ rows[k].seq <= st.cursor
    <3>1. st.cursor \in Nat
      BY StoreFacts
    <3> QED BY <1>0, <2>1, <3>1 DEF Was
  <2>4. s \notin lost' \cup stale' => Clean(st, away)' /\ NotSwept(st)'
    BY <2>1, <2>2, <2>3 DEF Was
  <2>5. s \notin lost' => InStep(st, away)'
    BY <1>0, <2>1, <2>2 DEF Was
  <2>6. shown'[s] = st /\ Away(socket[s].state)' = away /\ socket'[s].last = last
        /\ last <= st.cursor
    BY <1>0, <2>1 DEF Was, Away
  <2> QED BY <2>2, <2>4, <2>5, <2>6, SoundNext
<1> QED BY <1>1, <1>2 DEF SessInv

(* The publication: a live socket folds what its filter lets pass, and the *)
(* filter stops only what its store has seen.                              *)
LEMMA PublishStep ==
  ASSUME TableInv, SerialInv, SessInv, NEW w \in Writers, TplPublish(w)
  PROVE  SessInv'
<1>0. /\ Publish(w) /\ UNCHANGED <<declared, latest, socket>>
      /\ shown' = [s \in Sessions |->
            IF socket[s].state # "live" THEN shown[s]
            ELSE Folded(shown[s], {d \in out[w] : PassesFilter(s, d)})]
      /\ lost' = lost \cup {s \in Sessions : socket[s].state = "replayed"}
      /\ stale' = (IF wjob[w].kind = "drop"
                   THEN stale \cup {s \in Sessions : socket[s].state # "live"} ELSE stale)
      /\ \A d \in out[w] : d.seq \in Nat
  BY DEF TplPublish, TableInv, TypeOK, Delta
<1>2. ASSUME NEW s \in Sessions PROVE SessionSound(s)' /\ shown'[s] \in Store
  <2>1. PICK st \in Store, away \in BOOLEAN, last \in Nat : Was(s, st, away, last)
    BY SoundNow
  <2>a. Away(socket[s].state)' = away /\ socket'[s].last = last /\ st.cursor \in Nat
    BY <1>0, <2>1, StoreFacts DEF Was, Away
  <2>2. CASE socket[s].state = "live"
    <3>1. PICK batch \in SUBSET out[w] : batch = {d \in out[w] : PassesFilter(s, d)}
      OBVIOUS
    <3>2. PICK nst : nst = Folded(st, batch)
      OBVIOUS
    <3>3. \A d \in out[w] : d \notin batch => d.seq <= st.cursor
      BY <1>0, <2>1, <2>a, <3>1 DEF PassesFilter, Was
    <3>4. /\ nst \in Store /\ StoreInv(nst)' /\ st.cursor <= nst.cursor
          /\ InStep(st, FALSE) => InStep(nst, FALSE)'
          /\ Clean(st, FALSE) => Clean(nst, FALSE)'
          /\ NotSwept(nst)'
      BY <1>0, <2>1, <3>2, <3>3, PublishStore DEF Was
    <3>5. shown'[s] = nst
      BY <1>0, <2>1, <2>2, <3>1, <3>2 DEF Was
    <3>6. last <= nst.cursor
      <4>1. nst.cursor \in Nat
        BY <3>4, StoreFacts
      <4> QED BY <2>1, <2>a, <3>4, <4>1 DEF Was
    <3>7. away = FALSE /\ (s \notin lost' => s \notin lost)
          /\ (s \notin lost' \cup stale' => s \notin lost \cup stale)
      BY <1>0, <2>1, <2>2 DEF Away, Was
    <3>8. s \notin lost' => InStep(nst, away)'
      BY <2>1, <3>4, <3>7 DEF Was
    <3>9. s \notin lost' \cup stale' => Clean(nst, away)' /\ NotSwept(nst)'
      BY <2>1, <3>4, <3>7 DEF Was
    <3> QED BY <2>a, <3>4, <3>5, <3>6, <3>8, <3>9, SoundNext
  <2>3. CASE socket[s].state # "live"
    <3>1. /\ StoreInv(st)' /\ NotSwept(st)'
          /\ InStep(st, TRUE) => InStep(st, TRUE)'
          /\ wjob[w].kind # "drop" /\ Clean(st, TRUE) /\ NotSwept(st) => Clean(st, TRUE)'
      BY <1>0, <2>1, MissStore DEF Was
    <3>2. s \notin lost' => s \notin lost /\ away = TRUE
      <4>1. socket[s].state \in SocketStates
        BY DEF SessInv, TplTypeOK
      <4> QED BY <1>0, <2>1, <2>3, <4>1 DEF Away, SocketStates, Was
    <3>3. s \notin lost' \cup stale' => s \notin lost \cup stale /\ wjob[w].kind # "drop"
      BY <1>0, <2>3
    <3>4. s \notin lost' => InStep(st, away)'
      BY <2>1, <3>1, <3>2 DEF Was
    <3>5. s \notin lost' \cup stale' => Clean(st, away)' /\ NotSwept(st)'
      BY <2>1, <3>1, <3>2, <3>3 DEF Was
    <3>6. shown'[s] = st /\ last <= st.cursor
      BY <1>0, <2>1, <2>3 DEF Was
    <3> QED BY <2>a, <3>1, <3>4, <3>5, <3>6, SoundNext
  <2> QED BY <2>2, <2>3
<1>3. TplTypeOK'
  <2>1. shown' \in [Sessions -> Store]
    BY <1>0, <1>2
  <2>2. lost' \subseteq Sessions /\ stale' \subseteq Sessions
    BY <1>0 DEF SessInv, TplTypeOK
  <2> QED BY <1>0, <2>1, <2>2 DEF SessInv, TplTypeOK, Store
<1> QED BY <1>2, <1>3 DEF SessInv

(* A handshake: what the replay sends brings the store up to date, or      *)
(* leaves rows behind, and then the session is on record as missing them.  *)
LEMMA ReplayStep ==
  ASSUME TableInv, SerialInv, SessInv, NEW s0 \in Sessions, ReplayRecords(s0)
  PROVE  SessInv'
<1>0. UNCHANGED vars /\ UNCHANGED <<declared, latest, stale>> /\ socket[s0].state = "off" /\ Idle
  BY DEF ReplayRecords, vars, Idle
<1>1. PICK st \in Store, away \in BOOLEAN, last \in Nat : Was(s0, st, away, last)
  BY SoundNow
<1>a. away = TRUE /\ StoreInv(st) /\ shown[s0] = st
  BY <1>0, <1>1 DEF Was, Away
<1>2. PICK F : F = FirstAbove(st.cursor)
  OBVIOUS
<1>3. PICK batch : batch = Deltas(F)
  OBVIOUS
<1>4. PICK nst : nst = Folded(st, batch)
  OBVIOUS
<1>5. /\ nst \in Store /\ StoreInv(nst) /\ st.cursor <= nst.cursor
      /\ Max({st.cursor} \cup {d.seq : d \in batch}) = nst.cursor
      /\ (\A k \in Above(0) : rows[k].seq <= nst.cursor)
         => /\ InStep(st, TRUE) => InStep(nst, FALSE)
            /\ Clean(st, TRUE) /\ NotSwept(st) => Clean(nst, FALSE) /\ NotSwept(nst)
  BY <1>a, <1>2, <1>3, <1>4, ReplayStore
<1>6. nst.cursor \in Nat
  BY <1>5, StoreFacts
<1>7. {[key |-> k, seq |-> rows[k].seq, live |-> Live(k)] : k \in FirstRows(s0)} = batch
  <2>1. FirstRows(s0) = F
    BY <1>a, <1>2 DEF FirstRows, FirstAbove, Unseen
  <2> QED BY <1>3, <2>1 DEF Deltas, DeltaOf
<1>8. PICK sk : sk = [state |-> "replayed", last |-> nst.cursor]
  OBVIOUS
<1>9. /\ shown' = [shown EXCEPT ![s0] = nst] /\ socket' = [socket EXCEPT ![s0] = sk]
  BY <1>a, <1>4, <1>5, <1>7, <1>8 DEF ReplayRecords
<1>10. shown \in [Sessions -> Store]
       /\ socket \in [Sessions -> [state : SocketStates, last : Nat]] /\ lost \subseteq Sessions
  BY DEF SessInv, TplTypeOK, Store
<1>11. /\ shown'[s0] = nst /\ socket'[s0].state = "replayed" /\ socket'[s0].last = nst.cursor
       /\ \A s \in Sessions \ {s0} : shown'[s] = shown[s] /\ socket'[s] = socket[s]
  BY <1>8, <1>9, <1>10
<1>12. /\ \A s \in Sessions \ {s0} : s \in lost' <=> s \in lost
       /\ s0 \notin lost' => /\ s0 \notin lost
                             /\ \A k \in Above(0) : ~(rows[k].seq > nst.cursor)
       /\ lost' \subseteq Sessions
  BY <1>10, <1>11 DEF ReplayRecords
<1>13. TplTypeOK'
  <2>1. sk \in [state : SocketStates, last : Nat]
    BY <1>6, <1>8 DEF SocketStates
  <2> QED BY <1>0, <1>5, <1>9, <1>10, <1>12, <2>1 DEF SessInv, TplTypeOK, Store
<1>14. SessionSound(s0)'
  <2>1. StoreInv(nst)' /\ Away(socket[s0].state)' = FALSE
    BY <1>0, <1>5, <1>11, IdleStore DEF Away
  <2>2. s0 \notin lost' => \A k \in Above(0) : rows[k].seq <= nst.cursor
    <3>1. \A k \in Above(0) : rows[k].seq \in Nat
      BY DEF TableInv, TypeOK, Row, Above
    <3> QED BY <1>6, <1>12, <3>1
  <2>3. s0 \notin lost' => InStep(nst, FALSE)
    BY <1>1, <1>a, <1>5, <1>12, <2>2 DEF Was
  <2>4. s0 \notin lost' \cup stale' => Clean(nst, FALSE) /\ NotSwept(nst)
    BY <1>0, <1>1, <1>a, <1>5, <1>12, <2>2 DEF Was
  <2>5. s0 \notin lost' => InStep(nst, FALSE)'
    BY <1>0, <1>5, <2>3, IdleStore
  <2>6. s0 \notin lost' \cup stale' => Clean(nst, FALSE)' /\ NotSwept(nst)'
    BY <1>0, <1>5, <2>4, IdleStore
  <2>7. nst.cursor <= nst.cursor
    BY <1>6
  <2> QED BY <1>11, <2>1, <2>5, <2>6, <2>7, SoundNext
<1>15. ASSUME NEW s \in Sessions, s # s0 PROVE SessionSound(s)'
  <2>1. PICK st1 \in Store, away1 \in BOOLEAN, last1 \in Nat : Was(s, st1, away1, last1)
    BY SoundNow
  <2>2. /\ StoreInv(st1)'
        /\ InStep(st1, away1) => InStep(st1, away1)'
        /\ Clean(st1, away1) => Clean(st1, away1)'
        /\ NotSwept(st1) => NotSwept(st1)'
    BY <1>0, <2>1, IdleStore DEF Was
  <2>3. s \notin lost' => InStep(st1, away1)'
    BY <1>12, <1>15, <2>1, <2>2 DEF Was
  <2>4. s \notin lost' \cup stale' => Clean(st1, away1)' /\ NotSwept(st1)'
    BY <1>0, <1>12, <1>15, <2>1, <2>2 DEF Was
  <2>5. shown'[s] = st1 /\ Away(socket[s].state)' = away1 /\ socket'[s].last = last1
        /\ last1 <= st1.cursor
    BY <1>11, <1>15, <2>1 DEF Was, Away
  <2> QED BY <2>2, <2>3, <2>4, <2>5, SoundNext
<1> QED BY <1>13, <1>14, <1>15 DEF SessInv

(* A socket subscribes to nothing, goes live, or closes; the store stays.  *)
LEMMA SocketStep ==
  ASSUME TableInv, SerialInv, SessInv, NEW s0 \in Sessions,
         SubscribeToNone(s0) \/ GoLive(s0) \/ Disconnect(s0)
  PROVE  SessInv'
<1>0. UNCHANGED <<vars, declared, latest, shown, lost, stale>> /\ Idle
  BY DEF SubscribeToNone, GoLive, Disconnect, vars, Idle
<1>1. socket \in [Sessions -> [state : SocketStates, last : Nat]]
  BY DEF SessInv, TplTypeOK
<1>2. PICK sk \in [state : SocketStates, last : Nat] :
         /\ socket' = [socket EXCEPT ![s0] = sk]
         /\ sk.last = 0 \/ sk.last = socket[s0].last
         /\ Away(sk.state) = TRUE \/ Away(sk.state) = Away(socket[s0].state)
  <2>1. CASE SubscribeToNone(s0)
    <3>1. PICK sk : sk = [socket[s0] EXCEPT !.state = "deaf"]
      OBVIOUS
    <3>2. sk \in [state : SocketStates, last : Nat] /\ sk.state = "deaf"
          /\ sk.last = socket[s0].last
      BY <1>1, <3>1 DEF SocketStates
    <3>3. socket' = [socket EXCEPT ![s0] = sk]
      BY <2>1, <3>1 DEF SubscribeToNone
    <3> QED BY <3>2, <3>3 DEF Away
  <2>2. CASE GoLive(s0)
    <3>1. PICK sk : sk = [socket[s0] EXCEPT !.state = "live"]
      OBVIOUS
    <3>2. sk \in [state : SocketStates, last : Nat] /\ sk.state = "live"
          /\ sk.last = socket[s0].last
      BY <1>1, <3>1 DEF SocketStates
    <3>3. socket' = [socket EXCEPT ![s0] = sk] /\ socket[s0].state = "replayed"
      BY <2>2, <3>1 DEF GoLive
    <3>4. Away(sk.state) = FALSE /\ Away(socket[s0].state) = FALSE
      BY <3>2, <3>3 DEF Away
    <3> QED BY <3>2, <3>3, <3>4
  <2>3. CASE Disconnect(s0)
    <3>1. PICK sk : sk = [state |-> "off", last |-> 0]
      OBVIOUS
    <3>2. sk \in [state : SocketStates, last : Nat] /\ sk.state = "off" /\ sk.last = 0
      BY <3>1 DEF SocketStates
    <3>3. socket' = [socket EXCEPT ![s0] = sk]
      BY <2>3, <3>1 DEF Disconnect
    <3> QED BY <3>2, <3>3 DEF Away
  <2> QED BY <2>1, <2>2, <2>3
<1>3. socket'[s0] = sk /\ \A s \in Sessions \ {s0} : socket'[s] = socket[s]
  BY <1>1, <1>2
<1>4. TplTypeOK'
  BY <1>0, <1>1, <1>2 DEF SessInv, TplTypeOK
<1>5. ASSUME NEW s \in Sessions PROVE SessionSound(s)'
  <2>1. PICK st \in Store, away \in BOOLEAN, last \in Nat : Was(s, st, away, last)
    BY SoundNow
  <2>2. PICK away2 \in BOOLEAN, last2 \in Nat :
           /\ Away(socket[s].state)' = away2 /\ socket'[s].last = last2
           /\ last2 = 0 \/ last2 = last
           /\ away2 = TRUE \/ away2 = away
    <3>1. socket'[s] \in [state : SocketStates, last : Nat]
      BY <1>1, <1>2
    <3>2. Away(socket[s].state)' \in BOOLEAN /\ socket'[s].last \in Nat
      BY <3>1 DEF Away
    <3>3. CASE s = s0
      <4>1. /\ Away(socket[s].state)' = TRUE \/ Away(socket[s].state)' = away
            /\ socket'[s].last = 0 \/ socket'[s].last = last
        BY <1>2, <1>3, <2>1, <3>3 DEF Was, Away
      <4> QED BY <3>2, <4>1
    <3>4. CASE s # s0
      <4>1. Away(socket[s].state)' = away /\ socket'[s].last = last
        BY <1>3, <2>1, <3>4 DEF Was, Away
      <4> QED BY <3>2, <4>1
    <3> QED BY <3>3, <3>4
  <2>3. /\ StoreInv(st)'
        /\ InStep(st, away2) => InStep(st, away2)'
        /\ Clean(st, away2) => Clean(st, away2)'
        /\ NotSwept(st) => NotSwept(st)'
    BY <1>0, <2>1, IdleStore DEF Was
  <2>4. /\ InStep(st, away) => InStep(st, away2)
        /\ Clean(st, away) => Clean(st, away2)
    BY <2>2, WeakerWhenAway
  <2>5. s \notin lost' => InStep(st, away2)'
    BY <1>0, <2>1, <2>3, <2>4 DEF Was
  <2>6. s \notin lost' \cup stale' => Clean(st, away2)' /\ NotSwept(st)'
    BY <1>0, <2>1, <2>3, <2>4 DEF Was
  <2>7. shown'[s] = st /\ last2 <= st.cursor
    <3>1. st.cursor \in Nat
      BY StoreFacts
    <3> QED BY <1>0, <2>1, <2>2, <3>1 DEF Was
  <2> QED BY <2>2, <2>3, <2>5, <2>6, <2>7, SoundNext
<1> QED BY <1>4, <1>5 DEF SessInv

LEMMA SessInvStep ==
  ASSUME TableInv, SerialInv, SessInv, [TplNext]_tplVars
  PROVE  SessInv'
<1>1. ASSUME NEW w \in Writers,
             NEW kind \in {"post", "patch", "delete", "drop"},
             NEW key \in Keys, NEW match \in 1 .. MaxSeq \cup {NoMatch},
             TplReceive(w, kind, key, match)
      PROVE  SessInv'
  BY <1>1, QuietStages, QuietStep
<1>2. ASSUME NEW w \in Writers,
             \/ TplCap(w) \/ TplPost(w) \/ TplPatch(w) \/ TplDelete(w) \/ TplAbort(w)
             \/ ReadCollection(w) /\ UNCHANGED sessionVars
      PROVE  SessInv'
  BY <1>2, QuietStages, QuietStep
<1>3. ASSUME NEW w \in Writers, TplDrop(w), ~(ReadCollection(w) /\ UNCHANGED sessionVars)
      PROVE  SessInv'
  <2>1. /\ CommitDrop(w) /\ UNCHANGED <<declared, latest, socket, shown, lost>>
        /\ stale' = IF coll.exists /\ ~coll'.exists
                    THEN stale \cup {s \in Sessions : socket[s].state # "live"} ELSE stale
    BY <1>3 DEF TplDrop
  <2>2. CASE Drops(w)
    <3>1. coll.exists /\ ~coll'.exists
      BY <2>2 DEF Drops, CommitDrop, TableInv, TypeOK
    <3> QED BY <2>1, <2>2, <3>1, DropStep
  <2>3. CASE ~Drops(w)
    <3>1. Idle /\ UNCHANGED coll
      BY <2>1, <2>3, DropCases
    <3>2. Quiet
      BY <2>1, <3>1 DEF Quiet
    <3> QED BY <3>2, QuietStep
  <2> QED BY <2>2, <2>3
<1>4. CASE AppendSchema
  <2>1. Idle /\ UNCHANGED <<coll, rows, pc, out, socket, shown, lost, stale>>
    BY <1>4 DEF AppendSchema, vars, Idle
  <2>2. TplTypeOK'
    BY <1>4, <2>1, TemplateRecordsAssumption DEF SessInv, TplTypeOK, AppendSchema
  <2>3. ASSUME NEW s \in Sessions PROVE SessionSound(s)'
    <3>1. PICK st \in Store, away \in BOOLEAN, last \in Nat : Was(s, st, away, last)
      BY SoundNow
    <3>2. /\ StoreInv(st)'
          /\ InStep(st, away) => InStep(st, away)'
          /\ Clean(st, away) => Clean(st, away)'
          /\ NotSwept(st) => NotSwept(st)'
      BY <2>1, <3>1, IdleStore DEF Was
    <3>3. /\ shown'[s] = st /\ Away(socket[s].state)' = away /\ socket'[s].last = last
          /\ last <= st.cursor /\ lost' = lost /\ stale' = stale
      BY <2>1, <3>1 DEF Was, Away
    <3>4. s \notin lost' => InStep(st, away)'
      BY <3>1, <3>2, <3>3 DEF Was
    <3>5. s \notin lost' \cup stale' => Clean(st, away)' /\ NotSwept(st)'
      BY <3>1, <3>2, <3>3 DEF Was
    <3> QED BY <3>2, <3>3, <3>4, <3>5, SoundNext
  <2> QED BY <2>2, <2>3 DEF SessInv
<1>5. CASE UNCHANGED tplVars
  <2>1. Quiet
    BY <1>5 DEF tplVars, vars, Quiet, Idle
  <2> QED BY <2>1, QuietStep
<1>6. ASSUME NEW w \in Writers, TplWriterStep(w) PROVE SessInv'
  BY <1>2, <1>3, <1>6, PublishStep DEF TplWriterStep
<1>7. ASSUME NEW s \in Sessions,
             ReplayRecords(s) \/ SubscribeToNone(s) \/ GoLive(s) \/ Disconnect(s)
      PROVE  SessInv'
  BY <1>7, ReplayStep, SocketStep
<1> QED BY <1>1, <1>4, <1>5, <1>6, <1>7, SweepStep DEF TplNext

LEMMA SessInvInit == TplInit => SessInv
<1> SUFFICES ASSUME TplInit PROVE SessInv
  OBVIOUS
<1>1. PICK st \in Store : st = [cursor |-> 0, copy |-> [k \in Keys |-> 0], brought |-> 0]
  BY DEF Store
<1>2. /\ \A s \in Sessions : shown[s] = st /\ socket[s].state = "off" /\ socket[s].last = 0
      /\ shown = [s \in Sessions |-> st] /\ lost = {} /\ stale = {}
      /\ ~coll.exists /\ \A w \in Writers : pc[w] # "publish"
  BY <1>1 DEF TplInit, Init
<1>3. st.cursor = 0 /\ st.brought = 0 /\ \A k \in Keys : st.copy[k] = 0
  BY <1>1
<1>4. \A k \in Keys : Exact(k) = 0 /\ ~Pending(k, 0)
  BY <1>2 DEF TplInit, Init, Exact, Live, Kept, NoRecord, Pending
<1>5. \A s \in Sessions : SessionSound(s)
  BY <1>2, <1>3, <1>4 DEF SessionSound, StoreInv, InStep, Clean, Told, NotSwept
<1>6. TplTypeOK
  <2>1. shown \in [Sessions -> Store]
    BY <1>2
  <2> QED BY <2>1, TemplateRecordsAssumption DEF TplInit, TplTypeOK, SocketStates, Store
<1> QED BY <1>5, <1>6 DEF SessInv

(* The sessions of the shells on a template's panes (broadcast.ts,         *)
(* handler.ts, template-records.ts): on SQLite a live one shows, when no   *)
(* broadcast is pending, every row numbered above the cursor it brought to *)
(* the collection as it is, unless a handshake left it without one: a      *)
(* publication in the gap, a batch that was too small.  It shows no row    *)
(* that is gone unless it was away at a drop or a sweep.  There is no      *)
(* other way to fall behind.                                               *)
THEOREM SessionsShowTheRows ==
  ASSUME Serial
  PROVE  TplSpec => []SessionsInv
<1>1. RecordsInv /\ SerialInv /\ SessInv /\ [TplNext]_tplVars => SessInv'
  BY SessInvStep DEF RecordsInv
<1>2. TableInv /\ SessInv => SessionsInv
  <2> SUFFICES ASSUME TableInv, SessInv, \A w \in Writers : pc[w] # "publish",
                      NEW s \in Sessions, NEW k \in Keys,
                      socket[s].state = "live", s \notin lost
               PROVE  /\ Kept(k) /\ rows[k].seq > shown[s].brought => AsItIs(s, k)
                      /\ s \notin stale =>
                            \/ AsItIs(s, k)
                            \/ shown[s].copy[k] = 0 /\ rows[k].seq <= shown[s].brought
    BY DEF SessInv, SessionsInv, SessionExact
  <2>0. Away(socket[s].state) = FALSE /\ ~Pending(k, shown[s].cursor)
    BY DEF Away, Pending
  <2>1. Told(shown[s], FALSE, k) => AsItIs(s, k)
    BY <2>0 DEF Told, Exact, AsItIs
  <2>2. InStep(shown[s], FALSE) /\ (s \notin stale => Clean(shown[s], FALSE))
    BY <2>0 DEF SessInv, SessionSound
  <2>3. rows[k].seq \in Nat /\ shown[s].brought \in Nat
    BY DEF TableInv, TypeOK, Row, SessInv, TplTypeOK
  <2>4. Kept(k) /\ rows[k].seq > shown[s].brought => AsItIs(s, k)
    <3>1. Kept(k) => Told(shown[s], FALSE, k) \/ rows[k].seq <= shown[s].brought
      BY <2>2 DEF InStep
    <3>2. rows[k].seq > shown[s].brought => ~(rows[k].seq <= shown[s].brought)
      BY <2>3
    <3> QED BY <2>1, <3>1, <3>2
  <2>5. s \notin stale => \/ AsItIs(s, k)
                          \/ shown[s].copy[k] = 0 /\ rows[k].seq <= shown[s].brought
    BY <2>1, <2>2 DEF Clean
  <2> QED BY <2>4, <2>5
<1> QED BY <1>1, <1>2, SessInvInit, TplSpecIsSpec, SerialInvariant, RecordsInvariant,
           PTL DEF TplSpec, RecordsInv
=============================================================================
