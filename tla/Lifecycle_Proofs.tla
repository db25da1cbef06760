--------------------------- MODULE Lifecycle_Proofs ---------------------------
(* What holds of a pane's life, for every number of requests, sweepers and *)
(* panes: what leaves has its entries in deletion_log, a context key is    *)
(* held once, and an agent that was answered is in its pane; of the        *)
(* contracts it is upgraded through (SchemaGate), and of what is read of   *)
(* the panes (Query, Listings). The inductive invariants are PanesIInv,    *)
(* RetentionIInv, GateIInv, QueryIInv and ListIInv.                        *)
EXTENDS Panes, Retention, Query, Listings, SchemaGate, FiniteSetTheorems, TLAPS

-----------------------------------------------------------------------------
(***************************************************************************)
(* Panes. What a handler carries across its awaits stays true enough: a    *)
(* version it resolved exists, and a pane it is about to purge, like every *)
(* trashed pane and every id of the sweeper's batch, has its soft_deleted  *)
(* entry.                                                                  *)
(***************************************************************************)
Soft(p) == <<"soft_deleted", p>> \in ledger
Hard(p) == <<"hard_deleted", p>> \in ledger

Phases == {"soft_deleted", "restored", "hard_deleted"}

ScalarsOK ==
    /\ issued \in 0 .. MaxPane
    /\ latest \in Version
    /\ ledger \subseteq Phases \X PaneId
    /\ ttlIds \subseteq PaneId /\ hardIds \subseteq PaneId
    /\ hardStep \in {"idle", "read", "audit", "delete"}

RowsOK ==
    /\ DOMAIN panes \subseteq 1 .. issued
    /\ \A p \in DOMAIN panes : panes[p] \in Pane /\ panes[p].version <= latest

JobOK(j) ==
    /\ j \in Job
    /\ j.step \in {"find", "insert", "reread", "upgrade"} => j.version <= latest
    /\ j.step = "purge" => Soft(j.pane)

JobsOK ==
    /\ job \in [Requests -> Job]
    /\ \A r \in Requests : JobOK(job[r])

TrailOK ==
    /\ \A p \in 1 .. issued : p \in Rows \/ (Soft(p) /\ Hard(p))
    /\ \A p \in Rows : panes[p].trashed => Soft(p)
    /\ \A p \in hardIds : Soft(p)
    /\ hardStep = "delete" => \A p \in hardIds : Hard(p)

Holds(a, p) == p \in 1 .. issued /\ (p \in Rows => a \in panes[p].agents)

AgentsOK ==
    /\ answered \subseteq Agents \X PaneId
    /\ tokens \in [Agents \X PaneId -> {0, 1}]
    /\ \A a \in Agents, p \in PaneId :
           (<<a, p>> \in answered \/ tokens[<<a, p>>] = 1) => Holds(a, p)

PanesIInv == ScalarsOK /\ RowsOK /\ KeyHeldOnce /\ JobsOK /\ TrailOK /\ AgentsOK

-----------------------------------------------------------------------------
LEMMA PanesStart == ASSUME PanesAssumption, PanesInit PROVE PanesIInv
<1> USE PanesAssumption DEF PanesAssumption, PanesInit
<1>1. ScalarsOK BY DEF ScalarsOK, Version
<1>2. RowsOK /\ KeyHeldOnce BY DEF RowsOK, KeyHeldOnce, Rows
<1>3. JobsOK
  <2>1. \A r \in Requests : \E a \in Agents :
            job[r] = [step |-> "new", agent |-> a, pane |-> NoPane,
                      key |-> NoKey, version |-> 1]
    OBVIOUS
  <2>2. \A r \in Requests : job[r] \in Job /\ job[r].step = "new"
    BY <2>1 DEF Job, Version
  <2>3. job \in [Requests -> Job] BY <2>2
  <2> QED BY <2>2, <2>3 DEF JobsOK, JobOK
<1>4. TrailOK BY DEF TrailOK, Rows
<1>5. AgentsOK BY DEF AgentsOK
<1> QED BY <1>1, <1>2, <1>3, <1>4, <1>5 DEF PanesIInv

(* What is asked of a request goes on holding while versions are added and *)
(* the log grows.                                                          *)
LEMMA JobsKept ==
    ASSUME PanesAssumption, JobsOK, NEW r \in Requests, NEW j \in Job,
           job' = [job EXCEPT ![r] = j], latest \in Version, latest' \in Version,
           latest <= latest', ledger \subseteq ledger', JobOK(j)
    PROVE  JobsOK'
<1>1. \A q \in Requests : job'[q] = IF q = r THEN j ELSE job[q] BY DEF JobsOK
<1>2. job' \in [Requests -> Job] BY DEF JobsOK
<1>3. ASSUME NEW q \in Requests PROVE JobOK(job[q])'
  <2>1. PICK k : k = job'[q] OBVIOUS
  <2>2. JobOK(k) BY <1>1, <2>1 DEF JobsOK
  <2>3. k \in Job /\ k.version \in Nat BY <2>2 DEF JobOK, Job, Version
  <2> QED BY <2>1, <2>2, <2>3 DEF JobOK, Soft, Version
<1> QED BY <1>2, <1>3 DEF JobsOK

LEMMA JobsRest ==
    ASSUME PanesAssumption, JobsOK, UNCHANGED job, latest \in Version,
           latest' \in Version, latest <= latest', ledger \subseteq ledger'
    PROVE  JobsOK'
<1>1. ASSUME NEW q \in Requests PROVE JobOK(job[q])'
  <2>1. JobOK(job[q]) BY DEF JobsOK
  <2>2. job[q] \in Job => job[q].version \in Nat BY DEF Job, Version
  <2> QED BY <2>1, <2>2 DEF JobOK, Soft, Version
<1> QED BY <1>1 DEF JobsOK

(* A request that only moves to a step where nothing is asked of it.       *)
Free == {"new", "done", "join", "mint", "patch", "append", "close", "trash", "restore"}
LEMMA GoesTo ==
    ASSUME PanesAssumption, JobsOK, NEW r \in Requests, NEW s \in Free, Goto(r, s),
           latest \in Version, latest' \in Version, latest <= latest',
           ledger \subseteq ledger'
    PROVE  JobsOK'
<1>1. PICK j : j = [job[r] EXCEPT !.step = s] OBVIOUS
<1>2. job[r] \in Job BY DEF JobsOK
<1>3. j \in Job /\ j.step = s
  BY <1>1, <1>2 DEF Job, Free, Creates, Joins, Writes
<1>4. JobOK(j) BY <1>3 DEF JobOK, Free
<1>5. job' = [job EXCEPT ![r] = j] BY <1>1 DEF Goto, JobsOK
<1> QED BY <1>3, <1>4, <1>5, JobsKept

(* One row takes another value: its version may only become one that no    *)
(* other row of its key has, its agents only grow, and it is only trashed  *)
(* with an entry in the log.                                               *)
LEMMA RowChanges ==
    ASSUME PanesAssumption, PanesIInv, NEW p \in Rows, NEW row \in Pane,
           Update(p, row), latest' \in Version, latest <= latest',
           row.human = panes[p].human, row.key = panes[p].key,
           row.version = panes[p].version
               \/ (row.version <= latest' /\ ~Occupied(row.version, row.human, row.key, {p})),
           panes[p].agents \subseteq row.agents,
           ledger \subseteq ledger', ledger' \subseteq Phases \X PaneId,
           row.trashed => Soft(p)',
           UNCHANGED <<issued, sweepers, history>>
    PROVE  ScalarsOK' /\ RowsOK' /\ KeyHeldOnce' /\ TrailOK' /\ AgentsOK'
<1>0. /\ Rows' = Rows /\ p \in Rows
      /\ \A q \in Rows : panes'[q] = IF q = p THEN row ELSE panes[q]
  BY DEF Update, Rows
<1>a. /\ Rows \subseteq 1 .. issued
      /\ \A q \in Rows : panes[q] \in Pane /\ panes[q].version \in Nat
                         /\ panes[q].version <= latest
  BY DEF PanesIInv, RowsOK, Rows, Pane, Version
<1>b. row.version \in Nat /\ latest \in Nat /\ latest' \in Nat
  BY DEF PanesIInv, ScalarsOK, Pane, Version
<1>1. ScalarsOK' BY DEF PanesIInv, ScalarsOK, sweepers
<1>2. RowsOK'
  <2>1. row.version <= latest' BY <1>0, <1>a, <1>b
  <2>2. \A q \in Rows : panes[q].version <= latest' BY <1>a, <1>b
  <2>3. \A q \in Rows : panes'[q] \in Pane /\ panes'[q].version <= latest'
    BY <1>0, <1>a, <2>1, <2>2
  <2>4. DOMAIN panes' \subseteq 1 .. issued' BY <1>0, <1>a DEF Rows, history
  <2> QED BY <2>3, <2>4, <1>0 DEF RowsOK, Rows
<1>3. KeyHeldOnce'
  <2>1. \A q \in Rows : panes'[q].human = panes[q].human /\ panes'[q].key = panes[q].key
    BY <1>0
  <2> SUFFICES ASSUME NEW x \in Rows, NEW y \in Rows,
                      panes'[y].human # NoHuman, panes'[y].key # NoKey,
                      panes'[x].version = panes'[y].version,
                      panes'[x].human = panes'[y].human, panes'[x].key = panes'[y].key
               PROVE  x = y
    BY <1>0 DEF KeyHeldOnce, Keyed, Rows
  <2>2. \/ panes[x].version = panes[y].version
        \/ x = y
    <3>1. CASE row.version = panes[p].version BY <3>1, <1>0
    <3>2. CASE ~Occupied(row.version, row.human, row.key, {p})
      <4>1. CASE x = p /\ y # p BY <4>1, <3>2, <1>0 DEF Occupied, Keyed
      <4>2. CASE y = p /\ x # p BY <4>2, <3>2, <1>0 DEF Occupied, Keyed
      <4>3. CASE x # p /\ y # p BY <4>3, <1>0
      <4> QED BY <4>1, <4>2, <4>3
    <3> QED BY <3>1, <3>2
  <2> QED BY <2>1, <2>2 DEF PanesIInv, KeyHeldOnce, Keyed
<1>4. TrailOK'
  <2>1. \A q \in Rows : panes'[q].trashed => Soft(q)'
    BY <1>0 DEF PanesIInv, TrailOK, Soft
  <2> QED BY <2>1, <1>0 DEF PanesIInv, TrailOK, Soft, Hard, sweepers
<1>5. AgentsOK'
  <2>1. \A q \in Rows : panes[q].agents \subseteq panes'[q].agents BY <1>0
  <2>2. \A a \in Agents, q \in PaneId : Holds(a, q) => Holds(a, q)'
    BY <2>1, <1>0 DEF Holds
  <2> QED BY <2>2 DEF PanesIInv, AgentsOK, history
<1> QED BY <1>1, <1>2, <1>3, <1>4, <1>5
-----------------------------------------------------------------------------
(* Several rows leave the table, all of them with both entries.            *)
LEMMA RowsLeave ==
    ASSUME PanesAssumption, PanesIInv, NEW ids \in SUBSET PaneId, panes' = Without(ids),
           \A p \in ids : p \in Rows => Soft(p)' /\ Hard(p)',
           ledger \subseteq ledger', UNCHANGED <<issued, latest, history>>
    PROVE  /\ RowsOK' /\ KeyHeldOnce' /\ AgentsOK'
           /\ \A p \in 1 .. issued : p \in Rows' \/ (Soft(p)' /\ Hard(p)')
           /\ \A p \in Rows' : panes'[p].trashed => Soft(p)'
<1>1. /\ Rows' = Rows \ ids
      /\ \A q \in Rows' : q \in Rows /\ panes'[q] = panes[q]
  BY DEF Without, Rows
<1>2. RowsOK'
  <2>1. Rows \subseteq 1 .. issued /\ \A q \in Rows : panes[q] \in Pane /\ panes[q].version <= latest
    BY DEF PanesIInv, RowsOK, Rows
  <2>2. Rows' \subseteq 1 .. issued' BY <2>1, <1>1
  <2>3. \A q \in Rows' : panes'[q] \in Pane /\ panes'[q].version <= latest'
    BY <2>1, <1>1
  <2> QED BY <2>2, <2>3 DEF RowsOK, Rows
<1>3. KeyHeldOnce' BY <1>1 DEF PanesIInv, KeyHeldOnce, Keyed
<1>4. AgentsOK'
  <2>1. \A a \in Agents, q \in PaneId : Holds(a, q) => Holds(a, q)' BY <1>1 DEF Holds
  <2> QED BY <2>1 DEF PanesIInv, AgentsOK, history
<1>5. \A p \in 1 .. issued : p \in Rows' \/ (Soft(p)' /\ Hard(p)')
  BY <1>1 DEF PanesIInv, TrailOK, Soft, Hard
<1>6. \A p \in Rows' : panes'[p].trashed => Soft(p)'
  BY <1>1 DEF PanesIInv, TrailOK, Soft
<1> QED BY <1>2, <1>3, <1>4, <1>5, <1>6

(* The table, its sweepers and the tokens stay; a request moves on.        *)
LEMMA OnlyJob ==
    ASSUME PanesAssumption, PanesIInv, JobsOK',
           UNCHANGED <<panes, issued, latest, ledger, sweepers, history>>
    PROVE  PanesIInv'
<1> USE DEF PanesIInv, sweepers, history
<1>1. ScalarsOK' BY DEF ScalarsOK
<1>2. RowsOK' BY DEF RowsOK
<1>3. KeyHeldOnce' BY DEF KeyHeldOnce, Keyed, Rows
<1>4. TrailOK' BY DEF TrailOK, Rows, Soft, Hard
<1>5. AgentsOK' BY DEF AgentsOK, Holds, Rows
<1> QED BY <1>1, <1>2, <1>3, <1>4, <1>5

-----------------------------------------------------------------------------
(* Creation.                                                               *)
LEMMA CreateKeeps ==
    ASSUME PanesAssumption, PanesIInv, NEW r \in Requests, Create(r) PROVE PanesIInv'
<1>1. PICK k \in Keys \cup {NoKey}, v \in 1 .. latest, s \in {"done", "find"} :
          job' = [job EXCEPT ![r].step = s, ![r].key = k, ![r].version = v]
  BY DEF Create
<1>2. PICK j : j = [job[r] EXCEPT !.step = s, !.key = k, !.version = v] OBVIOUS
<1>3. job[r] \in Job /\ latest \in Version BY DEF PanesIInv, JobsOK, ScalarsOK
<1>4. v \in Version BY <1>3 DEF Version
<1>5. j \in Job /\ j.step \in {"done", "find"} /\ j.version = v
  BY <1>2, <1>3, <1>4 DEF Job, Creates
<1>6. JobOK(j) BY <1>5 DEF JobOK
<1>7. job' = [job EXCEPT ![r] = j] BY <1>1, <1>2
<1>8. latest <= latest BY <1>3 DEF Version
<1>9. JobsOK' BY <1>3, <1>5, <1>6, <1>7, <1>8, JobsKept DEF Create, PanesIInv
<1> QED BY <1>9, OnlyJob DEF Create

LEMMA Moves ==
    ASSUME PanesAssumption, PanesIInv, NEW r \in Requests, NEW p \in Rows,
           NEW s \in Free, job' = [job EXCEPT ![r].step = s, ![r].pane = p],
           UNCHANGED <<latest, ledger>>
    PROVE  JobsOK'
<1>1. PICK j : j = [job[r] EXCEPT !.step = s, !.pane = p] OBVIOUS
<1>2. job[r] \in Job /\ latest \in Version BY DEF PanesIInv, JobsOK, ScalarsOK
<1>3. p \in PaneId BY DEF PanesIInv, RowsOK, ScalarsOK, Rows, PaneId
<1>4. j \in Job /\ j.step = s
  BY <1>1, <1>2, <1>3 DEF Job, Free, Creates, Joins, Writes
<1>5. JobOK(j) BY <1>4 DEF JobOK, Free
<1>6. job' = [job EXCEPT ![r] = j] BY <1>1
<1>7. latest <= latest BY <1>2 DEF Version
<1> QED BY <1>2, <1>4, <1>5, <1>6, <1>7, JobsKept DEF PanesIInv

LEMMA FindKeeps ==
    ASSUME PanesAssumption, PanesIInv, NEW r \in Requests, Find(r) PROVE PanesIInv'
<1>0. job[r] \in Job /\ latest \in Version /\ latest <= latest
      /\ job[r].version <= latest
  BY DEF PanesIInv, JobsOK, JobOK, ScalarsOK, Version, Find
<1>1. CASE Goto(r, "insert")
  <2>1. PICK j : j = [job[r] EXCEPT !.step = "insert"] OBVIOUS
  <2>2. j \in Job /\ j.step = "insert" /\ j.version = job[r].version
    BY <2>1, <1>0 DEF Job, Creates
  <2>3. JobOK(j) BY <2>2, <1>0 DEF JobOK
  <2>4. job' = [job EXCEPT ![r] = j] BY <2>1, <1>1 DEF Goto
  <2>5. JobsOK' BY <1>0, <2>2, <2>3, <2>4, JobsKept DEF PanesIInv, Find
  <2> QED BY <2>5, OnlyJob DEF Find
<1>2. CASE \E p \in Rows : job' = [job EXCEPT ![r].step = "join", ![r].pane = p]
  <2>1. PICK p \in Rows : job' = [job EXCEPT ![r].step = "join", ![r].pane = p]
    BY <1>2
  <2>2. JobsOK' BY <2>1, Moves DEF Find, Free
  <2> QED BY <2>2, OnlyJob DEF Find
<1> QED BY <1>1, <1>2 DEF Find, Keyed

LEMMA ReReadKeeps ==
    ASSUME PanesAssumption, PanesIInv, NEW r \in Requests, ReRead(r) PROVE PanesIInv'
<1>0. latest \in Version /\ latest <= latest
  BY DEF PanesIInv, ScalarsOK, Version
<1>1. CASE Goto(r, "done")
  <2>1. JobsOK' BY <1>0, <1>1, GoesTo DEF PanesIInv, ReRead, Free
  <2> QED BY <2>1, OnlyJob DEF ReRead
<1>2. CASE \E p \in Rows : job' = [job EXCEPT ![r].step = "join", ![r].pane = p]
  <2>1. PICK p \in Rows : job' = [job EXCEPT ![r].step = "join", ![r].pane = p]
    BY <1>2
  <2>2. JobsOK' BY <2>1, Moves DEF ReRead, Free
  <2> QED BY <2>2, OnlyJob DEF ReRead
<1> QED BY <1>1, <1>2 DEF ReRead, Keyed, Done

(* The new row: its id is fresh, its creator is in it, and the index has   *)
(* found no row of its key.                                                *)
LEMMA InsertKeeps ==
    ASSUME PanesAssumption, PanesIInv, NEW r \in Requests, Insert(r) PROVE PanesIInv'
<1> DEFINE h == OwnerOf[job[r].agent]
<1>0. /\ job[r] \in Job /\ latest \in Version /\ latest <= latest
      /\ job[r].version <= latest /\ job[r].agent \in Agents
  BY DEF PanesIInv, JobsOK, JobOK, ScalarsOK, Version, Insert, Job
<1>1. CASE Occupied(job[r].version, h, job[r].key, {})
  <2>1. PICK j : j = [job[r] EXCEPT !.step = "reread"] OBVIOUS
  <2>2. j \in Job /\ j.step = "reread" /\ j.version = job[r].version
    BY <2>1, <1>0 DEF Job, Creates
  <2>3. JobOK(j) BY <2>2, <1>0 DEF JobOK
  <2>4. job' = [job EXCEPT ![r] = j] BY <2>1, <1>1 DEF Goto, Insert
  <2>5. JobsOK' BY <1>0, <2>2, <2>3, <2>4, JobsKept DEF PanesIInv, Insert
  <2> QED BY <2>5, <1>1, OnlyJob DEF Insert
<1>2. CASE ~Occupied(job[r].version, h, job[r].key, {})
  <2>1. PICK p : p = issued + 1 OBVIOUS
  <2>2. PICK row : row = [agent |-> job[r].agent, human |-> h, key |-> job[r].key,
                         version |-> job[r].version, open |-> TRUE, lapsed |-> FALSE,
                         trashed |-> FALSE, aged |-> FALSE, agents |-> {job[r].agent}]
    OBVIOUS
  <2>3. /\ issued < MaxPane /\ issued' = p /\ Goto(r, "done")
        /\ panes' = [q \in Rows \cup {p} |-> IF q = p THEN row ELSE panes[q]]
        /\ answered' = answered \cup {<<job[r].agent, p>>}
        /\ tokens' = [tokens EXCEPT ![<<job[r].agent, p>>] = @ + 1]
        /\ UNCHANGED <<latest, ledger, sweepers>>
    BY <1>2, <2>1, <2>2 DEF Insert, Done
  <2>4. /\ issued \in 0 .. MaxPane /\ p \in PaneId /\ p \notin 1 .. issued
        /\ issued' \in 0 .. MaxPane
        /\ 1 .. issued' = (1 .. issued) \cup {p} /\ Rows \subseteq 1 .. issued
    BY <2>1, <2>3 DEF PanesIInv, ScalarsOK, RowsOK, Rows, PaneId, PanesAssumption
  <2>5. Rows' = Rows \cup {p} /\ panes'[p] = row /\ \A q \in Rows : panes'[q] = panes[q] /\ q # p
    BY <2>3, <2>4 DEF Rows
  <2>6. row \in Pane /\ row.version <= latest'
    <3>1. h \in Humans \cup {NoHuman} BY <1>0 DEF PanesAssumption
    <3>2. job[r].key \in Keys \cup {NoKey} /\ job[r].version \in Version
      BY <1>0 DEF Job
    <3> QED BY <1>0, <2>2, <2>3, <3>1, <3>2 DEF Pane
  <2>7. ScalarsOK' BY <2>3, <2>4 DEF PanesIInv, ScalarsOK, sweepers
  <2>8. RowsOK'
    <3>1. \A q \in Rows : panes[q] \in Pane /\ panes[q].version <= latest'
      BY <2>3 DEF PanesIInv, RowsOK, Rows
    <3>2. \A q \in Rows' : panes'[q] \in Pane /\ panes'[q].version <= latest'
      BY <3>1, <2>5, <2>6
    <3>3. Rows' \subseteq 1 .. issued' BY <2>4, <2>5
    <3> QED BY <3>2, <3>3 DEF RowsOK, Rows
  <2>9. KeyHeldOnce'
    <3> SUFFICES ASSUME NEW x \in Rows', NEW y \in Rows',
                        panes'[y].human # NoHuman, panes'[y].key # NoKey,
                        panes'[x].version = panes'[y].version,
                        panes'[x].human = panes'[y].human, panes'[x].key = panes'[y].key
                 PROVE  x = y
      BY DEF KeyHeldOnce, Keyed
    <3>1. CASE x = p /\ y # p
      BY <3>1, <2>5, <2>2, <1>2 DEF Occupied, Keyed
    <3>2. CASE y = p /\ x # p
      BY <3>2, <2>5, <2>2, <1>2 DEF Occupied, Keyed
    <3>3. CASE x # p /\ y # p
      BY <3>3, <2>5 DEF PanesIInv, KeyHeldOnce, Keyed
    <3> QED BY <3>1, <3>2, <3>3
  <2>10. JobsOK' BY <1>0, <2>3, GoesTo DEF PanesIInv, Free
  <2>11. TrailOK'
    <3>1. \A q \in 1 .. issued' : q \in Rows' \/ (Soft(q) /\ Hard(q))'
      BY <2>3, <2>4, <2>5 DEF PanesIInv, TrailOK, Soft, Hard
    <3>2. \A q \in Rows' : panes'[q].trashed => Soft(q)'
      BY <2>2, <2>3, <2>5 DEF PanesIInv, TrailOK, Soft
    <3> QED BY <3>1, <3>2, <2>3 DEF PanesIInv, TrailOK, sweepers, Soft, Hard
  <2>12. AgentsOK'
    <3>a. PICK b : b = job[r].agent OBVIOUS
    <3>1. PICK x : x = <<b, p>> OBVIOUS
    <3>2. tokens[x] = 0
      BY <3>a, <3>1, <1>0, <2>4 DEF PanesIInv, AgentsOK, Holds
    <3>3. x \in Agents \X PaneId BY <3>a, <3>1, <1>0, <2>4
    <3>4. tokens' = [tokens EXCEPT ![x] = 1]
      BY <2>3, <3>a, <3>1, <3>2
    <3>5. answered' = answered \cup {x} BY <2>3, <3>a, <3>1
    <3>6. Holds(b, p)' BY <3>a, <2>2, <2>4, <2>5 DEF Holds
    <3>7. \A a \in Agents, q \in PaneId : Holds(a, q) => Holds(a, q)'
      BY <2>4, <2>5 DEF Holds
    <3>8. answered' \subseteq Agents \X PaneId /\ tokens' \in [Agents \X PaneId -> {0, 1}]
      BY <3>3, <3>4, <3>5 DEF PanesIInv, AgentsOK
    <3>9. ASSUME NEW a \in Agents, NEW q \in PaneId,
                 <<a, q>> \in answered' \/ tokens'[<<a, q>>] = 1
          PROVE  Holds(a, q)'
      <4>1. CASE <<a, q>> = x BY <4>1, <3>1, <3>6
      <4>2. CASE <<a, q>> # x
        <5>1. <<a, q>> \in Agents \X PaneId OBVIOUS
        <5>2. <<a, q>> \in answered \/ tokens[<<a, q>>] = 1
          BY <5>1, <4>2, <3>4, <3>5, <3>9 DEF PanesIInv, AgentsOK
        <5> QED BY <5>2, <3>7 DEF PanesIInv, AgentsOK
      <4> QED BY <4>1, <4>2
    <3> QED BY <3>8, <3>9 DEF AgentsOK
  <2> QED BY <2>7, <2>8, <2>9, <2>10, <2>11, <2>12 DEF PanesIInv
<1> QED BY <1>1, <1>2

LEMMA JoinKeeps ==
    ASSUME PanesAssumption, PanesIInv, NEW r \in Requests, Join(r) PROVE PanesIInv'
<1>0. latest \in Version /\ latest <= latest BY DEF PanesIInv, ScalarsOK, Version
<1>1. JobsOK'
  <2>1. Goto(r, "done") \/ Goto(r, "mint") BY DEF Join, Done
  <2> QED BY <1>0, <2>1, GoesTo DEF PanesIInv, Join, Free
<1>2. CASE UNCHANGED answered BY <1>1, <1>2, OnlyJob DEF Join, history
<1>3. CASE /\ job[r].pane \in Rows /\ job[r].agent \in panes[job[r].pane].agents
           /\ answered' = answered \cup {<<job[r].agent, job[r].pane>>}
  <2> USE DEF PanesIInv, sweepers
  <2>1. UNCHANGED <<panes, issued, latest, ledger, sweepers, tokens>> BY DEF Join
  <2>2. ScalarsOK' BY <2>1 DEF ScalarsOK
  <2>3. RowsOK' BY <2>1 DEF RowsOK
  <2>4. KeyHeldOnce' BY <2>1 DEF KeyHeldOnce, Keyed, Rows
  <2>5. TrailOK' BY <2>1 DEF TrailOK, Rows, Soft, Hard
  <2>6. AgentsOK'
    <3>1. job[r].agent \in Agents BY DEF JobsOK, Job
    <3>2. job[r].pane \in 1 .. issued /\ job[r].pane \in PaneId
      BY <1>3 DEF RowsOK, Rows, ScalarsOK, PaneId
    <3>3. PICK a \in Agents, p \in PaneId : a = job[r].agent /\ p = job[r].pane
      BY <3>1, <3>2
    <3>4. Holds(a, p) BY <3>2, <3>3, <1>3 DEF Holds
    <3>5. \A b \in Agents, q \in PaneId : Holds(b, q) => Holds(b, q)'
      BY <2>1 DEF Holds, Rows
    <3>6. answered' = answered \cup {<<a, p>>} BY <3>3, <1>3
    <3>7. ASSUME NEW b \in Agents, NEW q \in PaneId,
                 <<b, q>> \in answered' \/ tokens'[<<b, q>>] = 1
          PROVE  Holds(b, q)'
      BY <3>4, <3>5, <3>6, <3>7, <2>1 DEF AgentsOK
    <3>8. answered' \subseteq Agents \X PaneId BY <3>6 DEF AgentsOK
    <3> QED BY <3>7, <3>8, <2>1 DEF AgentsOK
  <2> QED BY <1>1, <2>2, <2>3, <2>4, <2>5, <2>6
<1> QED BY <1>2, <1>3 DEF Join

(* A request that finds no participant of its agent has not been answered  *)
(* with one, so that the token it hands out is the first.                  *)
LEMMA MintKeeps ==
    ASSUME PanesAssumption, PanesIInv, NEW r \in Requests, Mint(r) PROVE PanesIInv'
<1>0. latest \in Version /\ latest <= latest BY DEF PanesIInv, ScalarsOK, Version
<1>1. JobsOK' BY <1>0, GoesTo DEF PanesIInv, Mint, Done, Free
<1>2. CASE UNCHANGED <<panes, answered, tokens>>
  BY <1>1, <1>2, OnlyJob DEF Mint, history
<1>a. PICK a, p : a = job[r].agent /\ p = job[r].pane OBVIOUS
<1>b. a \in Agents BY <1>a DEF PanesIInv, JobsOK, Job
<1>c. p \in Rows => p \in 1 .. issued /\ p \in PaneId
  BY DEF PanesIInv, RowsOK, Rows, ScalarsOK, PaneId
<1> DEFINE Answers == answered' = answered \cup {<<a, p>>}
<1>d. UNCHANGED <<issued, latest, ledger, sweepers>> BY DEF Mint
<1>3. CASE p \in Rows /\ a \in panes[p].agents /\ Answers /\ UNCHANGED <<panes, tokens>>
  <2> USE DEF PanesIInv, sweepers
  <2>2. ScalarsOK' BY <1>d DEF ScalarsOK
  <2>3. RowsOK' BY <1>3, <1>d DEF RowsOK
  <2>4. KeyHeldOnce' BY <1>3 DEF KeyHeldOnce, Keyed, Rows
  <2>5. TrailOK' BY <1>3, <1>d DEF TrailOK, Rows, Soft, Hard
  <2>6. AgentsOK'
    <3>4. Holds(a, p) BY <1>c, <1>3 DEF Holds
    <3>5. \A b \in Agents, q \in PaneId : Holds(b, q) => Holds(b, q)'
      BY <1>3, <1>d DEF Holds, Rows
    <3>7. ASSUME NEW b \in Agents, NEW q \in PaneId,
                 <<b, q>> \in answered' \/ tokens'[<<b, q>>] = 1
          PROVE  Holds(b, q)'
      <4>1. CASE b = a /\ q = p BY <4>1, <3>4, <3>5
      <4>2. CASE ~(b = a /\ q = p) BY <4>2, <3>5, <3>7, <1>3 DEF AgentsOK
      <4> QED BY <4>1, <4>2
    <3>8. answered' \subseteq Agents \X PaneId BY <1>3, <1>b, <1>c DEF AgentsOK
    <3> QED BY <3>7, <3>8, <1>3 DEF AgentsOK
  <2> QED BY <1>1, <2>2, <2>3, <2>4, <2>5, <2>6
<1>4. CASE /\ p \in Rows /\ a \notin panes[p].agents /\ Answers
           /\ Update(p, [panes[p] EXCEPT !.agents = @ \cup {a}])
           /\ tokens' = [tokens EXCEPT ![<<a, p>>] = @ + 1]
  <2> USE DEF PanesIInv
  <2>1. PICK row : row = [panes[p] EXCEPT !.agents = @ \cup {a}] OBVIOUS
  <2>2. panes[p] \in Pane BY <1>4 DEF RowsOK, Rows
  <2>3. row \in Pane /\ row.version = panes[p].version /\ row.human = panes[p].human
        /\ row.key = panes[p].key /\ row.trashed = panes[p].trashed
        /\ row.agents = panes[p].agents \cup {a}
    BY <2>1, <2>2, <1>b DEF Pane
  <2>4. /\ Rows' = Rows
        /\ \A q \in Rows : panes'[q] = IF q = p THEN row ELSE panes[q]
    BY <1>4, <2>1 DEF Update, Rows
  <2>5. ScalarsOK' BY <1>d DEF ScalarsOK, sweepers
  <2>6. RowsOK'
    <3>1. \A q \in Rows : panes[q] \in Pane /\ panes[q].version <= latest
      BY DEF RowsOK, Rows
    <3>2. \A q \in Rows' : panes'[q] \in Pane /\ panes'[q].version <= latest'
      BY <3>1, <2>3, <2>4, <1>4, <1>d
    <3>3. Rows' \subseteq 1 .. issued' BY <2>4, <1>d DEF RowsOK, Rows
    <3> QED BY <3>2, <3>3 DEF RowsOK, Rows
  <2>7. KeyHeldOnce'
    <3>1. \A q \in Rows : /\ panes'[q].version = panes[q].version
                          /\ panes'[q].human = panes[q].human /\ panes'[q].key = panes[q].key
      BY <2>3, <2>4
    <3> QED BY <3>1, <2>4 DEF KeyHeldOnce, Keyed
  <2>8. TrailOK'
    <3>1. \A q \in Rows : panes'[q].trashed = panes[q].trashed BY <2>3, <2>4
    <3> QED BY <3>1, <2>4, <1>d DEF TrailOK, Soft, Hard, sweepers
  <2>9. AgentsOK'
    <3>0. PICK x : x = <<a, p>> OBVIOUS
    <3>1. tokens[x] = 0
      BY <3>0, <1>b, <1>c, <1>4 DEF AgentsOK, Holds
    <3>2. x \in Agents \X PaneId BY <3>0, <1>b, <1>c, <1>4
    <3>b. tokens' = [tokens EXCEPT ![x] = tokens[x] + 1] BY <3>0, <1>4
    <3>3. tokens' = [tokens EXCEPT ![x] = 1]
      <4>1. PICK n : n = tokens[x] + 1 OBVIOUS
      <4>2. n = 1 BY <4>1, <3>1
      <4> QED BY <4>1, <4>2, <3>b
    <3>4. answered' = answered \cup {x} BY <3>0, <1>4
    <3>5. answered' \subseteq Agents \X PaneId /\ tokens' \in [Agents \X PaneId -> {0, 1}]
      BY <3>2, <3>3, <3>4 DEF AgentsOK
    <3>6. Holds(a, p)' BY <2>3, <2>4, <1>c, <1>4, <1>d DEF Holds
    <3>7. \A b \in Agents, q \in PaneId : Holds(b, q) => Holds(b, q)'
      BY <2>3, <2>4, <1>d DEF Holds
    <3>8. ASSUME NEW b \in Agents, NEW q \in PaneId,
                 <<b, q>> \in answered' \/ tokens'[<<b, q>>] = 1
          PROVE  Holds(b, q)'
      <4>1. CASE <<b, q>> = x BY <4>1, <3>0, <3>6
      <4>2. CASE <<b, q>> # x
        <5>1. <<b, q>> \in Agents \X PaneId OBVIOUS
        <5>2. <<b, q>> \in answered \/ tokens[<<b, q>>] = 1
          BY <5>1, <4>2, <3>3, <3>4, <3>8 DEF AgentsOK
        <5> QED BY <5>2, <3>7 DEF AgentsOK
      <4> QED BY <4>1, <4>2
    <3> QED BY <3>5, <3>8 DEF AgentsOK
  <2> QED BY <1>1, <2>5, <2>6, <2>7, <2>8, <2>9
<1> QED BY <1>a, <1>2, <1>3, <1>4 DEF Mint

-----------------------------------------------------------------------------
(* Edits.                                                                  *)
LEMMA LoadKeeps ==
    ASSUME PanesAssumption, PanesIInv, NEW r \in Requests, Load(r) PROVE PanesIInv'
<1>1. PICK p \in Rows, s \in {"patch", "close", "trash", "restore", "purge"} :
          /\ Begin(r, s, p)
          /\ s = "purge" => panes[p].trashed
  BY DEF Load
<1>2. UNCHANGED <<panes, issued, latest, ledger, sweepers, history>> BY DEF Load
<1>3. JobsOK'
  <2>1. PICK j : j = [job[r] EXCEPT !.step = s, !.pane = p] OBVIOUS
  <2>2. job[r] \in Job /\ latest \in Version BY DEF PanesIInv, JobsOK, ScalarsOK
  <2>3. p \in PaneId BY DEF PanesIInv, RowsOK, ScalarsOK, Rows, PaneId
  <2>4. j \in Job /\ j.step = s /\ j.pane = p
    BY <2>1, <2>2, <2>3 DEF Job, Writes
  <2>5. JobOK(j) BY <2>4, <1>1 DEF JobOK, PanesIInv, TrailOK
  <2>6. job' = [job EXCEPT ![r] = j] BY <2>1, <1>1 DEF Begin
  <2>7. latest <= latest BY <2>2 DEF Version
  <2> QED BY <1>2, <2>2, <2>4, <2>5, <2>6, <2>7, JobsKept DEF PanesIInv
<1> QED BY <1>2, <1>3, OnlyJob

LEMMA LoadUpgradeKeeps ==
    ASSUME PanesAssumption, PanesIInv, NEW r \in Requests, LoadUpgrade(r) PROVE PanesIInv'
<1>1. UNCHANGED <<panes, issued, latest, ledger, sweepers, history>> BY DEF LoadUpgrade
<1>2. job[r] \in Job /\ latest \in Version /\ latest <= latest
  BY DEF PanesIInv, JobsOK, ScalarsOK, Version
<1>3. PICK p \in Rows, s \in {"upgrade", "append"}, v \in Version :
          /\ job' = [job EXCEPT ![r].step = s, ![r].pane = p, ![r].version = v]
          /\ s = "upgrade" => v <= latest
  <2>1. PICK p \in Rows :
           \/ \E v \in 1 .. latest \ {panes[p].version} :
                 job' = [job EXCEPT ![r].step = "upgrade", ![r].pane = p, ![r].version = v]
           \/ /\ BelowVersionCap
              /\ job' = [job EXCEPT ![r].step = "append", ![r].pane = p,
                                    ![r].version = latest + 1]
    BY DEF LoadUpgrade
  <2>2. CASE \E v \in 1 .. latest :
                 job' = [job EXCEPT ![r].step = "upgrade", ![r].pane = p, ![r].version = v]
    <3>1. \A v \in 1 .. latest : v \in Version /\ v <= latest BY <1>2 DEF Version
    <3> QED BY <2>2, <3>1
  <2>3. CASE BelowVersionCap /\ job' = [job EXCEPT ![r].step = "append", ![r].pane = p,
                                                   ![r].version = latest + 1]
    <3>1. latest + 1 \in Version
      BY <2>3, <1>2 DEF BelowVersionCap, Version, PanesAssumption
    <3> QED BY <2>3, <3>1
  <2> QED BY <2>1, <2>2, <2>3
<1>4. JobsOK'
  <2>1. PICK j : j = [job[r] EXCEPT !.step = s, !.pane = p, !.version = v] OBVIOUS
  <2>3. p \in PaneId BY DEF PanesIInv, RowsOK, ScalarsOK, Rows, PaneId
  <2>4. j \in Job /\ j.step = s /\ j.version = v
    BY <2>1, <1>2, <2>3 DEF Job, Writes
  <2>5. JobOK(j) BY <2>4, <1>3 DEF JobOK
  <2>6. job' = [job EXCEPT ![r] = j] BY <2>1, <1>3
  <2> QED BY <1>1, <1>2, <2>4, <2>5, <2>6, JobsKept DEF PanesIInv
<1> QED BY <1>1, <1>4, OnlyJob

LEMMA RequestGoesOn ==
    ASSUME PanesAssumption, PanesIInv, NEW r \in Requests, Done(r),
           latest' \in Version, latest <= latest', ledger \subseteq ledger'
    PROVE  JobsOK'
BY GoesTo DEF Done, PanesIInv, ScalarsOK, Free

LEMMA RowKept ==
    ASSUME PanesAssumption, PanesIInv
    PROVE  /\ latest \in Version /\ latest <= latest
           /\ ledger \subseteq Phases \X PaneId
           /\ \A p \in Rows : p \in PaneId /\ panes[p] \in Pane
<1>1. latest \in Version /\ ledger \subseteq Phases \X PaneId
  BY DEF PanesIInv, ScalarsOK
<1>2. latest <= latest BY <1>1 DEF Version
<1>3. \A p \in Rows : p \in 1 .. issued /\ panes[p] \in Pane
  BY DEF PanesIInv, RowsOK, Rows
<1>4. 1 .. issued \subseteq PaneId
  BY DEF PanesIInv, ScalarsOK, PaneId, PanesAssumption
<1> QED BY <1>1, <1>2, <1>3, <1>4

LEMMA PatchKeeps ==
    ASSUME PanesAssumption, PanesIInv, NEW r \in Requests, Patch(r) PROVE PanesIInv'
<1>0. JobsOK' BY RowKept, RequestGoesOn DEF Patch
<1>1. CASE job[r].pane \notin Rows BY <1>0, <1>1, OnlyJob DEF Patch
<1>2. CASE job[r].pane \in Rows
  <2>1. PICK p \in Rows : p = job[r].pane BY <1>2
  <2>2. PICK row : row = [panes[p] EXCEPT !.lapsed = FALSE] OBVIOUS
  <2>3. row \in Pane /\ row.version = panes[p].version /\ row.human = panes[p].human
        /\ row.key = panes[p].key /\ row.trashed = panes[p].trashed
        /\ row.agents = panes[p].agents
    BY <2>2, RowKept DEF Pane
  <2>4. Update(p, row) /\ UNCHANGED <<issued, latest, ledger, sweepers, history>>
    BY <1>2, <2>1, <2>2 DEF Patch
  <2>5. row.trashed => Soft(p)' BY <2>3, <2>4 DEF PanesIInv, TrailOK, Soft
  <2>6. latest <= latest' BY <2>4, RowKept
  <2> QED BY <1>0, <2>3, <2>4, <2>5, <2>6, RowKept, RowChanges DEF PanesIInv
<1> QED BY <1>1, <1>2

LEMMA UpgradeKeeps ==
    ASSUME PanesAssumption, PanesIInv, NEW r \in Requests, Upgrade(r) PROVE PanesIInv'
<1>0. JobsOK' BY RowKept, RequestGoesOn DEF Upgrade
<1>a. PICK p, v : p = job[r].pane /\ v = job[r].version OBVIOUS
<1>1. CASE UNCHANGED panes BY <1>0, <1>1, OnlyJob DEF Upgrade
<1>2. CASE /\ p \in Rows /\ ~Occupied(v, panes[p].human, panes[p].key, {p})
           /\ Update(p, [panes[p] EXCEPT !.version = v])
  <2>1. v \in Version /\ v <= latest
    BY <1>a DEF PanesIInv, JobsOK, JobOK, Job, Upgrade
  <2>2. PICK row : row = [panes[p] EXCEPT !.version = v] OBVIOUS
  <2>3. row \in Pane /\ row.version = v /\ row.human = panes[p].human
        /\ row.key = panes[p].key /\ row.trashed = panes[p].trashed
        /\ row.agents = panes[p].agents
    BY <2>1, <2>2, <1>2, RowKept DEF Pane
  <2>4. Update(p, row) /\ UNCHANGED <<issued, latest, ledger, sweepers, history>>
    BY <1>2, <2>2 DEF Upgrade
  <2>5. row.trashed => Soft(p)' BY <2>3, <2>4, <1>2 DEF PanesIInv, TrailOK, Soft
  <2>6. latest <= latest' BY <2>4, RowKept
  <2>7. row.version <= latest' /\ ~Occupied(row.version, row.human, row.key, {p})
    BY <2>1, <2>3, <2>4, <1>2
  <2> QED BY <1>0, <1>2, <2>3, <2>4, <2>5, <2>6, <2>7, RowKept, RowChanges DEF PanesIInv
<1> QED BY <1>a, <1>1, <1>2 DEF Upgrade

(* The appended version is one that no row has.                            *)
LEMMA InlineUpgradeKeeps ==
    ASSUME PanesAssumption, PanesIInv, NEW r \in Requests, InlineUpgrade(r) PROVE PanesIInv'
<1>a. PICK p, v : p = job[r].pane /\ v = job[r].version OBVIOUS
<1>b. v \in Version BY <1>a DEF PanesIInv, JobsOK, Job
<1>1. CASE UNCHANGED <<panes, latest>>
  <2>1. JobsOK' BY <1>1, RowKept, RequestGoesOn DEF InlineUpgrade
  <2> QED BY <1>1, <2>1, OnlyJob DEF InlineUpgrade
<1>2. CASE /\ p \in Rows /\ latest < v /\ latest' = v
           /\ Update(p, [panes[p] EXCEPT !.version = v])
  <2>1. latest <= latest' /\ latest' \in Version
    BY <1>b, <1>2, RowKept DEF Version
  <2>2. JobsOK' BY <2>1, RowKept, RequestGoesOn DEF InlineUpgrade
  <2>3. PICK row : row = [panes[p] EXCEPT !.version = v] OBVIOUS
  <2>4. row \in Pane /\ row.version = v /\ row.human = panes[p].human
        /\ row.key = panes[p].key /\ row.trashed = panes[p].trashed
        /\ row.agents = panes[p].agents
    BY <1>b, <2>3, <1>2, RowKept DEF Pane
  <2>5. Update(p, row) /\ UNCHANGED <<issued, ledger, sweepers, history>>
    BY <1>2, <2>3 DEF InlineUpgrade
  <2>6. row.trashed => Soft(p)' BY <2>4, <2>5, <1>2 DEF PanesIInv, TrailOK, Soft
  <2>7. \A q \in Rows : panes[q].version # v
    <3>1. \A q \in Rows : panes[q].version \in Nat /\ panes[q].version <= latest
      BY DEF PanesIInv, RowsOK, Rows, Pane, Version
    <3>2. latest \in Nat /\ v \in Nat BY <1>b, RowKept DEF Version
    <3> QED BY <1>2, <3>1, <3>2
  <2>8. row.version <= latest' /\ ~Occupied(row.version, row.human, row.key, {p})
    <3>1. v <= latest' BY <1>2, <1>b DEF Version
    <3> QED BY <3>1, <2>4, <2>7 DEF Occupied, Keyed
  <2> QED BY <1>2, <2>1, <2>2, <2>4, <2>5, <2>6, <2>8, RowKept, RowChanges DEF PanesIInv
<1> QED BY <1>a, <1>1, <1>2 DEF InlineUpgrade

LEMMA CloseKeeps ==
    ASSUME PanesAssumption, PanesIInv, NEW r \in Requests, Close(r) PROVE PanesIInv'
<1>0. JobsOK' BY RowKept, RequestGoesOn DEF Close
<1>1. CASE job[r].pane \notin Rows BY <1>0, <1>1, OnlyJob DEF Close
<1>2. CASE job[r].pane \in Rows
  <2>1. PICK p \in Rows : p = job[r].pane BY <1>2
  <2>2. PICK row : row = [panes[p] EXCEPT !.open = FALSE, !.lapsed = TRUE] OBVIOUS
  <2>3. row \in Pane /\ row.version = panes[p].version /\ row.human = panes[p].human
        /\ row.key = panes[p].key /\ row.trashed = panes[p].trashed
        /\ row.agents = panes[p].agents
    BY <2>2, RowKept DEF Pane
  <2>4. Update(p, row) /\ UNCHANGED <<issued, latest, ledger, sweepers, history>>
    BY <1>2, <2>1, <2>2 DEF Close
  <2>5. row.trashed => Soft(p)' BY <2>3, <2>4 DEF PanesIInv, TrailOK, Soft
  <2>6. latest <= latest' BY <2>4, RowKept
  <2> QED BY <1>0, <2>3, <2>4, <2>5, <2>6, RowKept, RowChanges DEF PanesIInv
<1> QED BY <1>1, <1>2

LEMMA Logged ==
    ASSUME PanesAssumption, PanesIInv, NEW ph \in Phases, NEW ids \in SUBSET PaneId, Log(ph, ids)
    PROVE  /\ ledger \subseteq ledger' /\ ledger' \subseteq Phases \X PaneId
           /\ \A p \in ids : <<ph, p>> \in ledger'
BY RowKept DEF Log

LEMMA MoveToTrashKeeps ==
    ASSUME PanesAssumption, PanesIInv, NEW r \in Requests, MoveToTrash(r) PROVE PanesIInv'
<1>1. CASE job[r].pane \notin Rows
  <2>1. JobsOK' BY <1>1, RowKept, RequestGoesOn DEF MoveToTrash
  <2> QED BY <2>1, <1>1, OnlyJob DEF MoveToTrash
<1>2. CASE job[r].pane \in Rows
  <2>1. PICK p \in Rows : p = job[r].pane BY <1>2
  <2>2. PICK row : row = [panes[p] EXCEPT !.trashed = TRUE, !.aged = FALSE] OBVIOUS
  <2>3. row \in Pane /\ row.version = panes[p].version /\ row.human = panes[p].human
        /\ row.key = panes[p].key /\ row.agents = panes[p].agents
    BY <2>2, RowKept DEF Pane
  <2>4. Update(p, row) /\ Log("soft_deleted", {p})
        /\ UNCHANGED <<issued, latest, sweepers, history>>
    BY <1>2, <2>1, <2>2 DEF MoveToTrash
  <2>5. ledger \subseteq ledger' /\ ledger' \subseteq Phases \X PaneId /\ Soft(p)'
    BY <2>4, RowKept, Logged DEF Phases, Soft
  <2>6. latest <= latest' /\ latest' \in Version BY <2>4, RowKept
  <2>7. JobsOK' BY <2>5, <2>6, RequestGoesOn DEF MoveToTrash
  <2> QED BY <2>3, <2>4, <2>5, <2>6, <2>7, RowChanges DEF PanesIInv
<1> QED BY <1>1, <1>2

LEMMA RestoreKeeps ==
    ASSUME PanesAssumption, PanesIInv, NEW r \in Requests, Restore(r) PROVE PanesIInv'
<1>1. CASE job[r].pane \notin Rows
  <2>1. JobsOK' BY <1>1, RowKept, RequestGoesOn DEF Restore
  <2> QED BY <2>1, <1>1, OnlyJob DEF Restore
<1>2. CASE job[r].pane \in Rows
  <2>1. PICK p \in Rows : p = job[r].pane BY <1>2
  <2>2. PICK row : row = [panes[p] EXCEPT !.trashed = FALSE, !.aged = FALSE] OBVIOUS
  <2>3. row \in Pane /\ row.version = panes[p].version /\ row.human = panes[p].human
        /\ row.key = panes[p].key /\ row.agents = panes[p].agents /\ ~row.trashed
    BY <2>2, RowKept DEF Pane
  <2>4. Update(p, row) /\ Log("restored", {p})
        /\ UNCHANGED <<issued, latest, sweepers, history>>
    BY <1>2, <2>1, <2>2 DEF Restore
  <2>5. ledger \subseteq ledger' /\ ledger' \subseteq Phases \X PaneId
    BY <2>4, RowKept, Logged DEF Phases
  <2>6. latest <= latest' /\ latest' \in Version BY <2>4, RowKept
  <2>7. JobsOK' BY <2>5, <2>6, RequestGoesOn DEF Restore
  <2> QED BY <2>3, <2>4, <2>5, <2>6, <2>7, RowChanges DEF PanesIInv
<1> QED BY <1>1, <1>2

LEMMA PurgeKeeps ==
    ASSUME PanesAssumption, PanesIInv, NEW r \in Requests, Purge(r) PROVE PanesIInv'
<1>1. CASE job[r].pane \notin Rows
  <2>1. JobsOK' BY <1>1, RowKept, RequestGoesOn DEF Purge
  <2> QED BY <2>1, <1>1, OnlyJob DEF Purge
<1>2. CASE job[r].pane \in Rows
  <2>1. PICK p \in Rows : p = job[r].pane BY <1>2
  <2>2. panes' = Without({p}) /\ Log("hard_deleted", {p})
        /\ UNCHANGED <<issued, latest, sweepers, history>>
    BY <1>2, <2>1 DEF Purge
  <2>3. ledger \subseteq ledger' /\ ledger' \subseteq Phases \X PaneId /\ Hard(p)'
    BY <2>2, RowKept, Logged DEF Phases, Hard
  <2>4. Soft(p)' BY <2>1, <2>3 DEF PanesIInv, JobsOK, JobOK, Purge, Soft
  <2>5. latest <= latest' /\ latest' \in Version BY <2>2, RowKept
  <2>6. JobsOK' BY <2>3, <2>5, RequestGoesOn DEF Purge
  <2>7. /\ RowsOK' /\ KeyHeldOnce' /\ AgentsOK'
        /\ \A q \in 1 .. issued : q \in Rows' \/ (Soft(q)' /\ Hard(q)')
        /\ \A q \in Rows' : panes'[q].trashed => Soft(q)'
    <3>1. {p} \in SUBSET PaneId BY RowKept
    <3>2. \A q \in {p} : q \in Rows => Soft(q)' /\ Hard(q)' BY <2>3, <2>4
    <3>3. UNCHANGED <<issued, latest, history>> /\ panes' = Without({p}) BY <2>2
    <3> QED BY <2>3, <3>1, <3>2, <3>3, RowsLeave
  <2>8. ScalarsOK' BY <2>2, <2>3 DEF PanesIInv, ScalarsOK, sweepers
  <2>9. TrailOK' BY <2>2, <2>3, <2>7 DEF PanesIInv, TrailOK, sweepers, Soft, Hard
  <2> QED BY <2>6, <2>7, <2>8, <2>9 DEF PanesIInv
<1> QED BY <1>1, <1>2

-----------------------------------------------------------------------------
(* Time and the sweepers.                                                  *)
LEMMA LapseKeeps ==
    ASSUME PanesAssumption, PanesIInv, NEW p \in PaneId, Lapse(p) PROVE PanesIInv'
<1>1. JobsOK'
  BY RowKept, JobsRest DEF Lapse, PanesIInv
<1>2. PICK row : row = [panes[p] EXCEPT !.lapsed = TRUE] OBVIOUS
<1>3. row \in Pane /\ row.version = panes[p].version /\ row.human = panes[p].human
      /\ row.key = panes[p].key /\ row.trashed = panes[p].trashed
      /\ row.agents = panes[p].agents
  BY <1>2, RowKept DEF Pane, Lapse
<1>4. p \in Rows /\ Update(p, row) /\ UNCHANGED <<issued, latest, ledger, sweepers, history>>
  BY <1>2 DEF Lapse
<1>5. row.trashed => Soft(p)' BY <1>3, <1>4 DEF PanesIInv, TrailOK, Soft
<1>6. latest <= latest' BY <1>4, RowKept
<1> QED BY <1>1, <1>3, <1>4, <1>5, <1>6, RowKept, RowChanges DEF PanesIInv

LEMMA AgeKeeps ==
    ASSUME PanesAssumption, PanesIInv, NEW p \in PaneId, Age(p) PROVE PanesIInv'
<1>1. JobsOK'
  BY RowKept, JobsRest DEF Age, PanesIInv
<1>2. PICK row : row = [panes[p] EXCEPT !.aged = TRUE] OBVIOUS
<1>3. row \in Pane /\ row.version = panes[p].version /\ row.human = panes[p].human
      /\ row.key = panes[p].key /\ row.trashed = panes[p].trashed
      /\ row.agents = panes[p].agents
  BY <1>2, RowKept DEF Pane, Age
<1>4. p \in Rows /\ Update(p, row) /\ UNCHANGED <<issued, latest, ledger, sweepers, history>>
  BY <1>2 DEF Age
<1>5. row.trashed => Soft(p)' BY <1>3, <1>4 DEF PanesIInv, TrailOK, Soft
<1>6. latest <= latest' BY <1>4, RowKept
<1> QED BY <1>1, <1>3, <1>4, <1>5, <1>6, RowKept, RowChanges DEF PanesIInv

(* A sweeper that only reads or stops.                                     *)
LEMMA SweeperMoves ==
    ASSUME PanesAssumption, PanesIInv,
           UNCHANGED <<panes, issued, latest, job, ledger, history>>,
           ttlIds' \subseteq PaneId, hardIds' \subseteq PaneId,
           hardStep' \in {"idle", "read", "audit"},
           \A p \in hardIds' : p \in hardIds \/ (p \in Rows /\ panes[p].trashed)
    PROVE  PanesIInv'
<1> USE DEF PanesIInv, history
<1>1. ScalarsOK' BY DEF ScalarsOK
<1>2. RowsOK' BY DEF RowsOK
<1>3. KeyHeldOnce' BY DEF KeyHeldOnce, Keyed, Rows
<1>4. JobsOK' BY DEF JobsOK, JobOK, Soft
<1>5. TrailOK' BY DEF TrailOK, Rows, Soft, Hard
<1>6. AgentsOK' BY DEF AgentsOK, Holds, Rows
<1> QED BY <1>1, <1>2, <1>3, <1>4, <1>5, <1>6

LEMMA TtlReadKeeps ==
    ASSUME PanesAssumption, PanesIInv, TtlRead PROVE PanesIInv'
<1>1. ttlIds' \subseteq PaneId BY RowKept DEF TtlRead
<1>2. hardIds' = hardIds /\ hardStep' = hardStep /\ hardIds \subseteq PaneId
      /\ hardStep \in {"idle", "read", "audit", "delete"}
  BY DEF TtlRead, PanesIInv, ScalarsOK
<1>3. CASE hardStep # "delete"
  BY <1>1, <1>2, <1>3, SweeperMoves DEF TtlRead
<1>4. CASE hardStep = "delete"
  <2> USE DEF PanesIInv, history, TtlRead
  <2>1. ScalarsOK' BY <1>1, <1>2 DEF ScalarsOK
  <2>2. RowsOK' BY DEF RowsOK
  <2>3. KeyHeldOnce' BY DEF KeyHeldOnce, Keyed, Rows
  <2>4. JobsOK' BY DEF JobsOK, JobOK, Soft
  <2>5. TrailOK' BY DEF TrailOK, Rows, Soft, Hard
  <2>6. AgentsOK' BY DEF AgentsOK, Holds, Rows
  <2> QED BY <2>1, <2>2, <2>3, <2>4, <2>5, <2>6
<1> QED BY <1>3, <1>4

LEMMA TtlWriteKeeps ==
    ASSUME PanesAssumption, PanesIInv, TtlWrite PROVE PanesIInv'
<1>1. ttlIds \in SUBSET PaneId BY DEF PanesIInv, ScalarsOK
<1>2. /\ ledger \subseteq ledger' /\ ledger' \subseteq Phases \X PaneId
      /\ \A p \in ttlIds : Soft(p)'
  BY <1>1, Logged DEF TtlWrite, Phases, Soft
<1>3. Rows' = Rows BY DEF TtlWrite, Rows
<1>4. \A p \in Rows :
         /\ panes'[p] \in Pane
         /\ panes'[p].version = panes[p].version /\ panes'[p].human = panes[p].human
         /\ panes'[p].key = panes[p].key /\ panes'[p].agents = panes[p].agents
         /\ panes'[p].trashed => panes[p].trashed \/ p \in ttlIds
  <2> TAKE p \in Rows
  <2>1. panes[p] \in Pane BY RowKept
  <2>2. CASE p \in ttlIds
    <3>1. PICK row : row = [panes[p] EXCEPT !.trashed = TRUE, !.aged = FALSE] OBVIOUS
    <3>2. panes'[p] = row BY <2>2, <3>1 DEF TtlWrite
    <3>3. row \in Pane /\ row.version = panes[p].version /\ row.human = panes[p].human
          /\ row.key = panes[p].key /\ row.agents = panes[p].agents
      BY <2>1, <3>1 DEF Pane
    <3> QED BY <2>2, <3>2, <3>3
  <2>3. CASE p \notin ttlIds
    <3>1. panes'[p] = panes[p] BY <2>3 DEF TtlWrite
    <3> QED BY <2>1, <3>1
  <2> QED BY <2>2, <2>3
<1>5. UNCHANGED <<issued, latest, job, hardIds, hardStep, history>> /\ ttlIds' = {}
  BY DEF TtlWrite
<1> USE DEF PanesIInv, history
<1>6. ScalarsOK' BY <1>2, <1>5 DEF ScalarsOK
<1>7. RowsOK' BY <1>3, <1>4, <1>5 DEF RowsOK, Rows
<1>8. KeyHeldOnce' BY <1>3, <1>4 DEF KeyHeldOnce, Keyed
<1>9. JobsOK' BY <1>2, <1>5, RowKept, JobsRest
<1>10. TrailOK'
  <2>1. \A p \in Rows : panes'[p].trashed => Soft(p)'
    BY <1>2, <1>4 DEF TrailOK, Soft
  <2> QED BY <2>1, <1>2, <1>3, <1>5 DEF TrailOK, Soft, Hard
<1>11. AgentsOK'
  <2>1. \A a \in Agents, q \in PaneId : Holds(a, q) => Holds(a, q)'
    BY <1>3, <1>4, <1>5 DEF Holds
  <2> QED BY <2>1, <1>5 DEF AgentsOK
<1> QED BY <1>6, <1>7, <1>8, <1>9, <1>10, <1>11

LEMMA SomeIsPart == ASSUME NEW n, NEW S, NEW T \in Some(n, S) PROVE T \subseteq S
BY DEF Some

LEMMA HardReadKeeps ==
    ASSUME PanesAssumption, PanesIInv, HardRead PROVE PanesIInv'
<1>1. PICK seen \in Some(2 * Batch, Trashed) :
         \E due \in Some(Batch, {p \in seen : panes[p].aged}) :
             hardIds' = due /\ hardStep' = IF due = {} THEN "idle" ELSE "audit"
  BY DEF HardRead
<1>2. PICK due \in Some(Batch, {p \in seen : panes[p].aged}) :
         hardIds' = due /\ hardStep' = IF due = {} THEN "idle" ELSE "audit"
  BY <1>1
<1>3. seen \subseteq Trashed BY SomeIsPart
<1>4. due \subseteq {p \in seen : panes[p].aged} BY SomeIsPart
<1>5. \A p \in hardIds' : p \in Rows /\ panes[p].trashed
  BY <1>2, <1>3, <1>4 DEF Trashed
<1>6. hardIds' \subseteq PaneId BY <1>5, RowKept
<1>7. ttlIds' \subseteq PaneId BY DEF PanesIInv, ScalarsOK, HardRead
<1> QED BY <1>2, <1>5, <1>6, <1>7, SweeperMoves DEF HardRead

LEMMA HardAuditKeeps ==
    ASSUME PanesAssumption, PanesIInv, HardAudit PROVE PanesIInv'
<1>1. hardIds \in SUBSET PaneId BY DEF PanesIInv, ScalarsOK
<1>2. /\ ledger \subseteq ledger' /\ ledger' \subseteq Phases \X PaneId
      /\ \A p \in hardIds : Hard(p)'
  BY <1>1, Logged DEF HardAudit, Phases, Hard
<1> USE DEF PanesIInv, history, HardAudit
<1>3. ScalarsOK' BY <1>2 DEF ScalarsOK
<1>4. RowsOK' BY DEF RowsOK
<1>5. KeyHeldOnce' BY DEF KeyHeldOnce, Keyed, Rows
<1>6. JobsOK' BY <1>2, RowKept, JobsRest
<1>7. TrailOK' BY <1>2 DEF TrailOK, Rows, Soft, Hard
<1>8. AgentsOK' BY DEF AgentsOK, Holds, Rows
<1> QED BY <1>3, <1>4, <1>5, <1>6, <1>7, <1>8

LEMMA HardDeleteKeeps ==
    ASSUME PanesAssumption, PanesIInv, HardDelete PROVE PanesIInv'
<1>1. hardIds \in SUBSET PaneId BY DEF PanesIInv, ScalarsOK
<1>2. \A p \in hardIds : p \in Rows => Soft(p)' /\ Hard(p)'
  BY DEF PanesIInv, TrailOK, HardDelete, Soft, Hard
<1>3. /\ RowsOK' /\ KeyHeldOnce' /\ AgentsOK'
      /\ \A q \in 1 .. issued : q \in Rows' \/ (Soft(q)' /\ Hard(q)')
      /\ \A q \in Rows' : panes'[q].trashed => Soft(q)'
  BY <1>1, <1>2, RowsLeave DEF HardDelete
<1>4. ScalarsOK' BY DEF PanesIInv, ScalarsOK, HardDelete
<1>5. JobsOK' BY RowKept, JobsRest DEF PanesIInv, HardDelete
<1>6. TrailOK' BY <1>3 DEF PanesIInv, TrailOK, HardDelete, Soft, Hard
<1> QED BY <1>3, <1>4, <1>5, <1>6 DEF PanesIInv

LEMMA HardMoves ==
    ASSUME PanesAssumption, PanesIInv, HardTick \/ HardStops PROVE PanesIInv'
<1>1. hardIds \subseteq PaneId /\ ttlIds \subseteq PaneId BY DEF PanesIInv, ScalarsOK
<1>2. /\ ttlIds' \subseteq PaneId /\ hardIds' \subseteq PaneId
      /\ hardStep' \in {"idle", "read", "audit"} /\ hardIds' \subseteq hardIds
  BY <1>1 DEF HardTick, HardStops
<1> QED BY <1>2, SweeperMoves DEF HardTick, HardStops

LEMMA PanesRest ==
    ASSUME PanesAssumption, PanesIInv, UNCHANGED vars PROVE PanesIInv'
<1>1. UNCHANGED <<panes, issued, latest, ledger, sweepers, history>> /\ UNCHANGED job
  BY DEF vars, sweepers, history
<1>2. JobsOK' BY <1>1, RowKept, JobsRest DEF PanesIInv
<1> QED BY <1>1, <1>2, OnlyJob

LEMMA PanesStep ==
    ASSUME PanesAssumption, PanesIInv, [PanesNext]_vars PROVE PanesIInv'
<1>1. ASSUME NEW r \in Requests, CreateStep(r) PROVE PanesIInv'
  BY <1>1, CreateKeeps, FindKeeps, InsertKeeps, ReReadKeeps, JoinKeeps, MintKeeps
     DEF CreateStep
<1>2. ASSUME NEW r \in Requests, EditStep(r) PROVE PanesIInv'
  BY <1>2, LoadKeeps, LoadUpgradeKeeps, PatchKeeps, UpgradeKeeps, InlineUpgradeKeeps,
     CloseKeeps, MoveToTrashKeeps, RestoreKeeps, PurgeKeeps DEF EditStep
<1>3. ASSUME NEW p \in PaneId, Lapse(p) \/ Age(p) PROVE PanesIInv'
  BY <1>3, LapseKeeps, AgeKeeps
<1>4. CASE TtlSweep \/ HardSweep \/ HardStops
  BY <1>4, TtlReadKeeps, TtlWriteKeeps, HardReadKeeps, HardAuditKeeps, HardDeleteKeeps,
     HardMoves DEF TtlSweep, HardSweep
<1>5. CASE UNCHANGED vars BY <1>5, PanesRest
<1> QED BY <1>1, <1>2, <1>3, <1>4, <1>5 DEF PanesNext

LEMMA PanesImplies == ASSUME PanesAssumption, PanesIInv PROVE PanesInv
<1> USE DEF PanesIInv
<1>1. PanesTypeOK
  BY DEF ScalarsOK, RowsOK, JobsOK, AgentsOK, PanesTypeOK, Phases
<1>2. DeletionTrail BY DEF TrailOK, DeletionTrail, Soft, Hard
<1>3. AnsweredAgentsHold
  <2> SUFFICES ASSUME NEW x \in answered, x[2] \in Rows PROVE x[1] \in panes[x[2]].agents
    BY DEF AnsweredAgentsHold
  <2>1. PICK a \in Agents, p \in PaneId : x = <<a, p>> BY DEF AgentsOK
  <2> QED BY <2>1 DEF AgentsOK, Holds
<1>4. OneTokenPerAgent BY DEF AgentsOK, OneTokenPerAgent
<1> QED BY <1>1, <1>2, <1>3, <1>4 DEF PanesInv

(* Whatever the interleaving of requests, time and sweepers, a pane leaves *)
(* only with both its entries in deletion_log, a context key is held once, *)
(* and every answered agent is in its pane with one token.                 *)
THEOREM PanesSound == PanesSpec => []PanesInv
<1>1. PanesInit => PanesIInv BY PanesAssumption, PanesStart
<1>2. PanesIInv /\ [PanesNext]_vars => PanesIInv' BY PanesAssumption, PanesStep
<1>3. PanesIInv => PanesInv BY PanesAssumption, PanesImplies
<1> QED BY <1>1, <1>2, <1>3, PTL DEF PanesSpec

-----------------------------------------------------------------------------
(***************************************************************************)
(* Retention. What the running phase is about to delete is already in the  *)
(* log, and what cascades with it is exempt.                               *)
(***************************************************************************)
BatchIsAudited == sweepStep = "delete" => batch \subseteq audit

RetentionIInv == RetentionTypeOK /\ PurgeIsAudited /\ BatchIsAudited

LEMMA RetentionStart ==
    ASSUME RetentionAssumption, RetentionInit PROVE RetentionIInv
<1> USE RetentionAssumption DEF RetentionAssumption, RetentionInit
<1>1. RetentionTypeOK BY DEF RetentionTypeOK
<1>2. PurgeIsAudited BY DEF PurgeIsAudited
<1>3. BatchIsAudited BY DEF BatchIsAudited
<1> QED BY <1>1, <1>2, <1>3 DEF RetentionIInv

(* One row takes another state, which is not "gone".                       *)
LEMMA SetKeeps ==
    ASSUME RetentionIInv, NEW x \in Item, NEW s \in {"live", "trashed", "due"},
           Set(x, s), UNCHANGED <<phase, sweepStep, batch, audit, stops>>
    PROVE  RetentionIInv'
<1>1. RetentionTypeOK' BY DEF RetentionIInv, RetentionTypeOK, Set
<1>2. PurgeIsAudited' BY DEF RetentionIInv, RetentionTypeOK, PurgeIsAudited, Set
<1>3. BatchIsAudited' BY DEF RetentionIInv, BatchIsAudited
<1> QED BY <1>1, <1>2, <1>3 DEF RetentionIInv

(* Rows that are logged go, and with them the rows that cascade.           *)
LEMMA GoneKeeps ==
    ASSUME RetentionIInv, NEW ids \in SUBSET Item, Gone(ids),
           audit \subseteq audit', ids \subseteq audit'
    PROVE  /\ state' \in [Item -> {"absent", "live", "trashed", "due", "gone"}]
           /\ PurgeIsAudited'
<1>1. PICK all : /\ all = ids \cup {y \in Item : Present(y) /\ \E x \in ids : <<y, x>> \in Cascade}
                 /\ state' = [x \in Item |-> IF x \in all THEN "gone" ELSE state[x]]
  BY DEF Gone
<1>2. state' \in [Item -> {"absent", "live", "trashed", "due", "gone"}]
  BY <1>1 DEF RetentionIInv, RetentionTypeOK
<1>3. ASSUME NEW x \in Item, state'[x] = "gone", \A y \in Item : <<x, y>> \notin Cascade
      PROVE  x \in audit'
  <2>1. CASE x \in ids BY <2>1
  <2>2. CASE x \notin ids
    <3>1. x \notin all BY <2>2, <1>1, <1>3
    <3>2. state[x] = "gone" BY <3>1, <1>1, <1>3
    <3> QED BY <3>2, <1>3 DEF RetentionIInv, PurgeIsAudited
  <2> QED BY <2>1, <2>2
<1> QED BY <1>2, <1>3 DEF PurgeIsAudited

LEMMA RowStepKeeps ==
    ASSUME RetentionIInv, NEW x \in Item, RowStep(x) PROVE RetentionIInv'
<1>1. CASE CreateRow(x) BY <1>1, SetKeeps DEF CreateRow
<1>2. CASE TrashRow(x) BY <1>2, SetKeeps DEF TrashRow
<1>3. CASE RestoreRow(x) BY <1>3, SetKeeps DEF RestoreRow
<1>4. CASE BecomeDue(x) BY <1>4, SetKeeps DEF BecomeDue
<1>5. CASE PurgeTemplate(x)
  <2>1. Gone({x}) /\ audit' = audit \cup {x} /\ UNCHANGED <<phase, sweepStep, batch, stops>>
    BY <1>5 DEF PurgeTemplate
  <2>2. {x} \in SUBSET Item /\ {x} \subseteq audit' /\ audit \subseteq audit' BY <2>1
  <2>3. /\ state' \in [Item -> {"absent", "live", "trashed", "due", "gone"}]
        /\ PurgeIsAudited'
    BY <2>1, <2>2, GoneKeeps
  <2>4. RetentionTypeOK' BY <2>1, <2>3 DEF RetentionIInv, RetentionTypeOK
  <2>5. BatchIsAudited' BY <2>1 DEF RetentionIInv, BatchIsAudited
  <2> QED BY <2>3, <2>4, <2>5 DEF RetentionIInv
<1> QED BY <1>1, <1>2, <1>3, <1>4, <1>5 DEF RowStep

LEMMA PhaseMoves ==
    ASSUME RetentionIInv, NextPhase, UNCHANGED <<audit, stops>>,
           state' \in [Item -> {"absent", "live", "trashed", "due", "gone"}],
           PurgeIsAudited'
    PROVE  RetentionIInv'
<1>1. phase' \in 0 .. 5 BY DEF RetentionIInv, RetentionTypeOK, NextPhase
<1>2. RetentionTypeOK' BY <1>1 DEF RetentionIInv, RetentionTypeOK, NextPhase
<1>3. BatchIsAudited' BY DEF NextPhase, BatchIsAudited
<1> QED BY <1>2, <1>3 DEF RetentionIInv

LEMMA BatchesArePart == ASSUME NEW n, NEW S, NEW T \in Batches(n, S) PROVE T \subseteq S
BY DEF Batches

LEMMA ReadPhaseKeeps ==
    ASSUME RetentionIInv, NEW kind \in Kinds, ReadPhase(kind) PROVE RetentionIInv'
<1>1. PICK seen \in Batches(2 * RowBatch, Candidates(kind)) :
         \E ids \in Batches(RowBatch, {x \in seen : state[x] = "due"}) :
             IF ids = {}
             THEN NextPhase
             ELSE batch' = ids /\ sweepStep' = "audit" /\ UNCHANGED phase
  BY DEF ReadPhase
<1>2. PICK ids \in Batches(RowBatch, {x \in seen : state[x] = "due"}) :
             IF ids = {}
             THEN NextPhase
             ELSE batch' = ids /\ sweepStep' = "audit" /\ UNCHANGED phase
  BY <1>1
<1>3. seen \subseteq Candidates(kind) BY BatchesArePart
<1>4. ids \subseteq {x \in seen : state[x] = "due"} BY BatchesArePart
<1>5. ids \subseteq Item BY <1>3, <1>4 DEF Candidates, OfKind
<1>6. UNCHANGED <<state, audit, stops>> BY DEF ReadPhase
<1>7. PurgeIsAudited' BY <1>6 DEF RetentionIInv, PurgeIsAudited
<1>8. CASE NextPhase
  BY <1>6, <1>7, <1>8, PhaseMoves DEF RetentionIInv, RetentionTypeOK
<1>9. CASE batch' = ids /\ sweepStep' = "audit" /\ UNCHANGED phase
  <2>1. RetentionTypeOK' BY <1>5, <1>6, <1>9 DEF RetentionIInv, RetentionTypeOK
  <2>2. BatchIsAudited' BY <1>9 DEF BatchIsAudited
  <2> QED BY <1>7, <2>1, <2>2 DEF RetentionIInv
<1> QED BY <1>2, <1>8, <1>9

LEMMA AuditPhaseKeeps ==
    ASSUME RetentionIInv, NEW kind \in Kinds, AuditPhase(kind) PROVE RetentionIInv'
<1>1. RetentionTypeOK' BY DEF RetentionIInv, RetentionTypeOK, AuditPhase
<1>2. PurgeIsAudited' BY DEF RetentionIInv, PurgeIsAudited, AuditPhase
<1>3. BatchIsAudited' BY DEF BatchIsAudited, AuditPhase
<1> QED BY <1>1, <1>2, <1>3 DEF RetentionIInv

LEMMA DeletePhaseKeeps ==
    ASSUME RetentionIInv, NEW kind \in Kinds, DeletePhase(kind) PROVE RetentionIInv'
<1>1. UNCHANGED <<audit, stops>> BY DEF DeletePhase
<1>2. CASE phase' = 0 /\ sweepStep' = "read" /\ batch' = {} /\ UNCHANGED state
  <2>1. RetentionTypeOK' BY <1>1, <1>2 DEF RetentionIInv, RetentionTypeOK
  <2>2. PurgeIsAudited' BY <1>1, <1>2 DEF RetentionIInv, PurgeIsAudited
  <2>3. BatchIsAudited' BY <1>2 DEF BatchIsAudited
  <2> QED BY <2>1, <2>2, <2>3 DEF RetentionIInv
<1>3. CASE Gone(batch) /\ NextPhase
  <2>1. batch \in SUBSET Item /\ batch \subseteq audit' /\ audit \subseteq audit'
    BY <1>1 DEF RetentionIInv, RetentionTypeOK, BatchIsAudited, DeletePhase
  <2>2. /\ state' \in [Item -> {"absent", "live", "trashed", "due", "gone"}]
        /\ PurgeIsAudited'
    BY <1>3, <2>1, GoneKeeps
  <2> QED BY <1>1, <1>3, <2>2, PhaseMoves
<1> QED BY <1>2, <1>3 DEF DeletePhase

LEMMA RetentionStep ==
    ASSUME RetentionAssumption, RetentionIInv, [RetentionNext]_retentionVars
    PROVE  RetentionIInv'
<1>1. ASSUME NEW x \in Item, RowStep(x) PROVE RetentionIInv' BY <1>1, RowStepKeeps
<1>2. CASE StartPass
  <2>1. PurgeIsAudited' BY <1>2 DEF RetentionIInv, PurgeIsAudited, StartPass
  <2> QED BY <1>2, <2>1, PhaseMoves DEF StartPass, RetentionIInv, RetentionTypeOK
<1>3. ASSUME NEW kind \in Kinds, Sweep(kind) PROVE RetentionIInv'
  BY <1>3, ReadPhaseKeeps, AuditPhaseKeeps, DeletePhaseKeeps DEF Sweep
<1>4. CASE StopPass
  <2>1. RetentionTypeOK'
    BY <1>4, RetentionAssumption
       DEF StopPass, RetentionIInv, RetentionTypeOK, RetentionAssumption
  <2>2. PurgeIsAudited' BY <1>4 DEF StopPass, RetentionIInv, PurgeIsAudited
  <2>3. BatchIsAudited' BY <1>4 DEF StopPass, BatchIsAudited
  <2> QED BY <2>1, <2>2, <2>3 DEF RetentionIInv
<1>5. CASE UNCHANGED retentionVars
  BY <1>5 DEF retentionVars, RetentionIInv, RetentionTypeOK, PurgeIsAudited, BatchIsAudited
<1>6. CASE Pass
  BY <1>6, <1>2, <1>3
     DEF Pass, SweepPanes, SweepAttachments, SweepTemplates, SweepAgents, SweepHumans, Kinds
<1> QED BY <1>1, <1>4, <1>5, <1>6 DEF RetentionNext

(* However a pass is cut short and whatever the foreign keys refuse, a row *)
(* that is gone has its entry in deletion_log.                             *)
THEOREM RetentionSound == RetentionSpec => []RetentionInv
<1>1. RetentionInit => RetentionIInv BY RetentionAssumption, RetentionStart
<1>2. RetentionIInv /\ [RetentionNext]_retentionVars => RetentionIInv'
  BY RetentionAssumption, RetentionStep
<1>3. RetentionIInv => RetentionInv BY DEF RetentionIInv, RetentionInv
<1> QED BY <1>1, <1>2, <1>3, PTL DEF RetentionSpec

-----------------------------------------------------------------------------
(***************************************************************************)
(* Query. What was read of a table is what the scope has of it, as long as *)
(* it stayed, unless the table is over its cap; the panes that were the    *)
(* caller's throughout are in the scope, unless that is at its limit.      *)
(***************************************************************************)
StepOK == answer.code = "ok" => step = "answered"

QueryTypes ==
    /\ paneAt \in [QPanes -> PaneRows]
    /\ rowAt \in [RowIds -> Vals \cup {NoFact}]
    /\ ownerAt \in [QAgents -> QHumans \cup {Unowned}]
    /\ scope \subseteq QPanes /\ pending \subseteq Tables
    /\ step \in {"idle", "scope", "panes", "templates", "execute", "answered"}
    /\ answer.code # "ok" => answer.rows = {}
    /\ StepOK

Reading == step \in {"panes", "templates", "execute"}
ScopeIsWhole == only # NoScope \/ Cardinality(scope) < ScopeCap
InTable(t) == {f \in loaded : f[1] = t}
IsRead(t) == t \notin pending /\ (step = "panes" => t \in PaneTables)
Capped == {"records", "events", "template_records"}
NotCut(t) == t \in Capped => ~(Cardinality(InTable(t)) > RowCap)

(* What the caller has now, it had at some moment of the query.             *)
CallerPanesOK ==
    step # "idle" => /\ AskedFor(caller, only, paneAt) \subseteq everPanes
                     /\ FactsIn(paneAt, rowAt) \subseteq everFacts

HistoryOK ==
    /\ CallerPanesOK
    /\ heldFacts \subseteq FactsIn(paneAt, rowAt)
    /\ heldPanes \subseteq AskedFor(caller, only, paneAt)
    /\ loaded \subseteq everFacts /\ scope \subseteq everPanes
    /\ \A f \in loaded : BelongsTo(f, scope)

PhasesOK ==
    /\ step \in {"idle", "scope"} => scope = {} /\ pending = {} /\ loaded = {}
    /\ step = "panes" => pending \subseteq PaneTables /\ \A f \in loaded : f[1] \in PaneTables
    /\ step = "templates" => pending \subseteq TemplateTables
    /\ step \in {"execute", "answered"} => pending = {}
    /\ \A f \in loaded : f[1] \notin pending

ReadsOK ==
    Reading =>
        /\ ScopeIsWhole => heldPanes \subseteq scope
        /\ \A f \in heldFacts :
               IsRead(f[1]) /\ NotCut(f[1]) /\ Home(f) \in Below(f[1]) => f \in loaded
        /\ "panes" \notin pending =>
               \A p \in heldPanes : p \in scope => \E f \in loaded : f[1] = "panes" /\ f[2] = p

SandboxOK ==
    /\ step \in {"idle", "scope", "panes", "templates"} => built = {} /\ conn = "none"
    /\ step = "execute" => ~TooLarge
    /\ ViewsAgree /\ SandboxClosed

QueryIInv ==
    QueryTypes /\ HistoryOK /\ PhasesOK /\ ReadsOK /\ SandboxOK
    /\ ShowsOwnOnly /\ ShowsFactsOnly /\ ShowsAllThatStayed

LEMMA QueryStart == QueryInit => QueryIInv
<1> SUFFICES ASSUME QueryInit PROVE QueryIInv
    OBVIOUS
<1>1. /\ scope = {} /\ pending = {} /\ loaded = {} /\ built = {} /\ heldFacts = {}
      /\ heldPanes = {} /\ step = "idle" /\ conn = "none" /\ answer.rows = {}
      /\ answer.code = "none"
    BY DEF QueryInit
<1>2. QueryTypes
    BY <1>1 DEF QueryInit, QueryTypes, StepOK
<1>3. HistoryOK /\ PhasesOK /\ ReadsOK /\ SandboxOK
    BY <1>1 DEF HistoryOK, CallerPanesOK, PhasesOK, ReadsOK, SandboxOK, Reading, ViewsAgree, SandboxClosed
<1>4. ShowsOwnOnly /\ ShowsFactsOnly /\ ShowsAllThatStayed
    BY <1>1 DEF ShowsOwnOnly, ShowsFactsOnly, ShowsAllThatStayed
<1> QED
    BY <1>2, <1>3, <1>4 DEF QueryIInv

(* Whatever changes the database, the query has lost nothing by it: what    *)
(* stayed is a subset of what had stayed, what was is a superset.           *)
LEMMA DataKeepsQuery ==
    ASSUME QueryIInv, Edited,
           paneAt' \in [QPanes -> PaneRows], rowAt' \in [RowIds -> Vals \cup {NoFact}],
           ownerAt' \in [QAgents -> QHumans \cup {Unowned}]
    PROVE  QueryIInv'
<1>1. /\ heldFacts' \subseteq heldFacts /\ heldFacts' \subseteq FactsIn(paneAt', rowAt')
      /\ heldPanes' \subseteq heldPanes /\ heldPanes' \subseteq AskedFor(caller, only, paneAt')
      /\ everFacts \subseteq everFacts' /\ everPanes \subseteq everPanes'
      /\ FactsIn(paneAt', rowAt') \subseteq everFacts'
      /\ AskedFor(caller, only, paneAt') \subseteq everPanes'
    BY DEF Edited
<1>2. /\ step' = step /\ caller' = caller /\ stmt' = stmt /\ only' = only /\ scope' = scope
      /\ pending' = pending /\ loaded' = loaded /\ built' = built /\ conn' = conn
      /\ body' = body /\ answer' = answer
    BY DEF Edited, askVars, readVars, sandbox
<1>3. QueryTypes'
    BY <1>2 DEF QueryIInv, QueryTypes, StepOK
<1>4. HistoryOK'
  <2>1. FactsIn(paneAt, rowAt)' = FactsIn(paneAt', rowAt')
        /\ AskedFor(caller, only, paneAt)' = AskedFor(caller, only, paneAt')
    BY <1>2 DEF FactsIn, AskedFor, VisibleTo, Here
  <2> QED
    BY <1>1, <1>2, <2>1 DEF QueryIInv, HistoryOK, CallerPanesOK, BelongsTo, Home
<1>5. PhasesOK'
    BY <1>2 DEF QueryIInv, PhasesOK
<1>6. ReadsOK'
    BY <1>1, <1>2 DEF QueryIInv, ReadsOK, Reading, ScopeIsWhole, IsRead, NotCut, InTable,
        Below, LoadedTemplates, LoadedPanes, Home
<1>7. SandboxOK'
    BY <1>2 DEF QueryIInv, SandboxOK, TooLarge, ViewsAgree, SandboxClosed, Conflicting,
        LoadedVersions, LoadedPanes
<1>8. ShowsOwnOnly'
    BY <1>1, <1>2 DEF QueryIInv, ShowsOwnOnly, BelongsTo, Home
<1>9. ShowsFactsOnly'
    BY <1>1, <1>2 DEF QueryIInv, ShowsFactsOnly
<1>10. ShowsAllThatStayed'
  <2>1. ASSUME NEW f \in heldFacts', Selected(f)', BelongsTo(f, heldPanes)',
               answer'.code = "ok", ~answer'.truncated, ~stmt'.all,
               only' # NoScope \/ Cardinality(scope') < ScopeCap
        PROVE  f \in answer'.rows
    <3>1. f \in heldFacts /\ Selected(f) /\ BelongsTo(f, heldPanes)
        BY <1>1, <1>2, <2>1 DEF Selected, BelongsTo, Home
    <3> QED
        BY <1>2, <2>1, <3>1 DEF QueryIInv, ShowsAllThatStayed
  <2> QED
    BY <2>1 DEF ShowsAllThatStayed
<1> QED
    BY <1>3, <1>4, <1>5, <1>6, <1>7, <1>8, <1>9, <1>10 DEF QueryIInv

(* Each of the query's own steps, in turn.                                  *)
LEMMA AskKeepsQuery ==
    ASSUME QueryIInv, NEW a \in QAgents, NEW st \in Statements, NEW o \in QPanes \cup {NoScope},
           Ask(a, st, o)
    PROVE  QueryIInv'
<1>1. /\ paneAt' = paneAt /\ rowAt' = rowAt /\ ownerAt' = ownerAt /\ scope' = scope
      /\ pending' = pending /\ loaded' = loaded /\ built' = built /\ conn' = conn
      /\ step = "idle" /\ only' = o
      /\ heldFacts' = FactsIn(paneAt, rowAt) /\ everFacts' = FactsIn(paneAt, rowAt)
      /\ heldPanes' = AskedFor(caller', o, paneAt) /\ everPanes' = AskedFor(caller', o, paneAt)
    BY DEF Ask, dataVars, readVars, sandbox
<1>2. step' = "scope" \/ (step' = "answered" /\ answer'.code = "invalid_request")
    BY DEF Ask, Answer
<1>3. answer'.code # "ok" /\ answer'.rows = {}
  <2>1. CASE st.valid
    BY <1>1, <2>1 DEF Ask, QueryIInv, QueryTypes, StepOK
  <2>2. CASE ~st.valid
    BY <1>1, <2>2 DEF Ask, Answer
  <2> QED
    BY <2>1, <2>2
<1>4. scope = {} /\ pending = {} /\ loaded = {} /\ built = {} /\ conn = "none"
    BY <1>1 DEF QueryIInv, PhasesOK, SandboxOK
<1>5. QueryTypes'
    BY <1>1, <1>2, <1>3, <1>4 DEF QueryIInv, QueryTypes, StepOK
<1>6. HistoryOK'
  <2>1. FactsIn(paneAt, rowAt)' = FactsIn(paneAt, rowAt)
        /\ AskedFor(caller, only, paneAt)' = AskedFor(caller', o, paneAt)
    BY <1>1 DEF FactsIn, AskedFor, VisibleTo, Here
  <2> QED
    BY <1>1, <1>4, <2>1 DEF HistoryOK, CallerPanesOK
<1>7. PhasesOK' /\ ReadsOK' /\ SandboxOK'
    BY <1>1, <1>2, <1>4 DEF PhasesOK, ReadsOK, SandboxOK, Reading, ViewsAgree, SandboxClosed
<1>8. ShowsOwnOnly' /\ ShowsFactsOnly' /\ ShowsAllThatStayed'
    BY <1>3 DEF ShowsOwnOnly, ShowsFactsOnly, ShowsAllThatStayed
<1> QED
    BY <1>5, <1>6, <1>7, <1>8 DEF QueryIInv

(* A step that leaves the database and the traceVars alone keeps HistoryOK    *)
(* when it reads nothing.                                                   *)
LEMMA HistoryStays ==
    ASSUME QueryIInv, UNCHANGED <<dataVars, askVars, traceVars>>, scope' = scope, loaded' = loaded,
           step # "idle"
    PROVE  HistoryOK'
<1>1. /\ paneAt' = paneAt /\ rowAt' = rowAt /\ caller' = caller /\ only' = only
      /\ heldFacts' = heldFacts /\ everFacts' = everFacts
      /\ heldPanes' = heldPanes /\ everPanes' = everPanes
    BY DEF dataVars, askVars, traceVars
<1>2. FactsIn(paneAt, rowAt)' = FactsIn(paneAt, rowAt)
      /\ AskedFor(caller, only, paneAt)' = AskedFor(caller, only, paneAt)
    BY <1>1 DEF FactsIn, AskedFor, VisibleTo, Here
<1> QED
    BY <1>1, <1>2 DEF QueryIInv, HistoryOK, CallerPanesOK, BelongsTo, Home

(* A query that ends without rows.                                          *)
LEMMA RefusalKeepsQuery ==
    ASSUME QueryIInv, UNCHANGED <<dataVars, askVars, scope, loaded, built, traceVars>>,
           NEW code, Answer(code, {}, FALSE), code # "ok", conn' # "open",
           pending' = {}, step # "idle"
    PROVE  QueryIInv'
<1>1. /\ paneAt' = paneAt /\ rowAt' = rowAt /\ ownerAt' = ownerAt
      /\ scope' = scope /\ loaded' = loaded /\ built' = built
      /\ step' = "answered" /\ answer'.code = code /\ answer'.rows = {}
    BY DEF dataVars, Answer
<1>2. QueryTypes'
    BY <1>1 DEF QueryIInv, QueryTypes, StepOK
<1>3. HistoryOK'
    BY <1>1, HistoryStays
<1>4. PhasesOK' /\ ReadsOK'
    BY <1>1 DEF PhasesOK, ReadsOK, Reading
<1>5. SandboxOK'
    BY <1>1 DEF QueryIInv, SandboxOK, ViewsAgree, SandboxClosed, Conflicting, LoadedVersions,
        LoadedPanes
<1>6. ShowsOwnOnly' /\ ShowsFactsOnly' /\ ShowsAllThatStayed'
    BY <1>1 DEF ShowsOwnOnly, ShowsFactsOnly, ShowsAllThatStayed
<1> QED
    BY <1>2, <1>3, <1>4, <1>5, <1>6 DEF QueryIInv

LEMMA ResolveKeepsQuery == QueryIInv /\ ResolveScope => QueryIInv'
<1> SUFFICES ASSUME QueryIInv, ResolveScope PROVE QueryIInv'
    OBVIOUS
<1>1. /\ paneAt' = paneAt /\ rowAt' = rowAt /\ ownerAt' = ownerAt /\ caller' = caller
      /\ only' = only /\ loaded' = loaded /\ built' = built /\ conn' = conn
      /\ answer' = answer /\ heldFacts' = heldFacts /\ everFacts' = everFacts
      /\ heldPanes' = heldPanes /\ everPanes' = everPanes
      /\ step = "scope" /\ step' = "panes"
    BY DEF ResolveScope, dataVars, askVars, sandbox, traceVars
<1>2. scope' \in Reachable(caller, only, paneAt) /\ pending' \subseteq PaneTables
      /\ (scope' # {} => pending' = PaneTables)
    BY DEF ResolveScope
<1>3. loaded = {} /\ built = {} /\ conn = "none"
    BY <1>1 DEF QueryIInv, PhasesOK, SandboxOK
<1>4. heldPanes \subseteq AskedFor(caller, only, paneAt)
    BY DEF QueryIInv, HistoryOK
<1>5. scope' \subseteq AskedFor(caller, only, paneAt) /\ scope' \subseteq QPanes
      /\ (only # NoScope \/ Cardinality(scope') < ScopeCap => heldPanes \subseteq scope')
  <2>1. CASE only # NoScope
    <3>1. scope' = AskedFor(caller, only, paneAt)
        BY <1>2, <2>1 DEF Reachable
    <3> QED
        BY <1>4, <3>1 DEF AskedFor, VisibleTo
  <2>2. CASE only = NoScope
    <3>1. AskedFor(caller, only, paneAt) = VisibleTo(caller, paneAt)
        BY <2>2 DEF AskedFor
    <3>2. scope' \in Take(VisibleTo(caller, paneAt), ScopeCap)
        BY <1>2, <2>2 DEF Reachable
    <3>3. scope' = VisibleTo(caller, paneAt) \/ Cardinality(scope') = ScopeCap
        BY <3>2 DEF Take
    <3>4. ~(Cardinality(scope') = ScopeCap /\ Cardinality(scope') < ScopeCap)
        BY QueryAssumption
    <3> QED
        BY <1>4, <2>2, <3>1, <3>2, <3>3, <3>4 DEF Take, VisibleTo
  <2> QED
    BY <2>1, <2>2
<1>6. scope' \subseteq everPanes
    BY <1>1, <1>5 DEF QueryIInv, HistoryOK, CallerPanesOK
<1>7. QueryTypes'
    BY <1>1, <1>2, <1>5 DEF QueryIInv, QueryTypes, StepOK, Tables
<1>8. HistoryOK'
  <2>1. FactsIn(paneAt, rowAt)' = FactsIn(paneAt, rowAt)
        /\ AskedFor(caller, only, paneAt)' = AskedFor(caller, only, paneAt)
    BY <1>1 DEF FactsIn, AskedFor, VisibleTo, Here
  <2> QED
    BY <1>1, <1>3, <1>6, <2>1 DEF QueryIInv, HistoryOK, CallerPanesOK
<1>9. PhasesOK'
    BY <1>1, <1>2, <1>3 DEF PhasesOK
<1>10. ReadsOK'
  <2>1. ASSUME scope' = {} PROVE ReadsOK'
    BY <1>1, <1>3, <1>5, <2>1 DEF ReadsOK, ScopeIsWhole, IsRead, Below
  <2>2. ASSUME pending' = PaneTables PROVE ReadsOK'
    BY <1>1, <1>3, <1>5, <2>2 DEF ReadsOK, ScopeIsWhole, IsRead, Below, PaneTables
  <2> QED
    BY <1>2, <2>1, <2>2
<1>11. SandboxOK'
    BY <1>1, <1>3 DEF SandboxOK, ViewsAgree, SandboxClosed
<1>12. answer'.code # "ok" /\ answer'.rows = {}
    BY <1>1 DEF QueryIInv, QueryTypes, StepOK
<1>13. ShowsOwnOnly' /\ ShowsFactsOnly' /\ ShowsAllThatStayed'
    BY <1>12 DEF ShowsOwnOnly, ShowsFactsOnly, ShowsAllThatStayed
<1> QED
    BY <1>7, <1>8, <1>9, <1>10, <1>11, <1>13 DEF QueryIInv

(* A load adds what the table has of the scope, whole or one over the cap.  *)
LEMMA LoadKeepsQuery == ASSUME QueryIInv, NEW t \in Tables, LoadTable(t) PROVE QueryIInv'
<1>1. /\ paneAt' = paneAt /\ rowAt' = rowAt /\ ownerAt' = ownerAt /\ caller' = caller
      /\ only' = only /\ stmt' = stmt /\ scope' = scope /\ built' = built /\ conn' = conn
      /\ answer' = answer /\ heldFacts' = heldFacts /\ everFacts' = everFacts
      /\ heldPanes' = heldPanes /\ everPanes' = everPanes /\ step' = step
      /\ pending' = pending \ {t} /\ t \in pending
    BY DEF LoadTable, dataVars, askVars, sandbox, traceVars
<1> DEFINE found == {f \in FactsIn(paneAt, rowAt) : f[1] = t /\ Home(f) \in Below(t)}
<1>2. PICK rows \in Returned(t) : loaded' = loaded \cup rows
    BY DEF LoadTable
<1>3. rows \subseteq found
    BY <1>2 DEF Returned, Take
<1>4. step \in {"panes", "templates"}
    BY <1>1 DEF QueryIInv, QueryTypes, PhasesOK
<1>5. \A f \in loaded : f[1] # t
    BY <1>1 DEF QueryIInv, PhasesOK
<1>6. InTable(t)' = rows
    BY <1>2, <1>3, <1>5 DEF InTable
<1>7. rows = found \/ (t \in Capped /\ Cardinality(rows) > RowCap)
  <2>1. CASE t \in {"panes", "templates"}
    BY <1>2, <2>1 DEF Returned
  <2>2. CASE t \notin {"panes", "templates"}
    <3>1. rows \in Take(found, RowCap + 1)
        BY <1>2, <2>2 DEF Returned
    <3>2. rows = found \/ Cardinality(rows) = RowCap + 1
        BY <3>1 DEF Take
    <3>3. RowCap + 1 > RowCap
        BY QueryAssumption
    <3>4. t \in Capped
        BY <2>2 DEF Tables, PaneTables, TemplateTables, Capped
    <3> QED
        BY <3>2, <3>3, <3>4
  <2> QED
    BY <2>1, <2>2
<1>8. QueryTypes'
    BY <1>1 DEF QueryIInv, QueryTypes, StepOK
<1>9. LoadedPanes \subseteq LoadedPanes' /\ (t # "panes" => LoadedPanes' = LoadedPanes)
    BY <1>2, <1>3 DEF LoadedPanes
<1>10. \A f \in rows : BelongsTo(f, scope)
  <2>1. CASE t \in PaneTables
    BY <1>3, <2>1 DEF BelongsTo, Below
  <2>2. CASE t \notin PaneTables
    <3>1. ASSUME NEW f \in rows PROVE BelongsTo(f, scope)
      <4>1. f[1] = t /\ Home(f) \in LoadedTemplates
        BY <1>3, <2>2, <3>1 DEF Below
      <4>2. PICK g \in LoadedPanes : Home(f) = OnTemplate[g[2]]
        BY <4>1 DEF LoadedTemplates
      <4>3. g \in loaded /\ g[1] = "panes"
        BY DEF LoadedPanes
      <4>4. g[2] \in scope
        BY <4>3 DEF QueryIInv, HistoryOK, BelongsTo, Home, PaneTables
      <4> QED
        BY <2>2, <4>1, <4>2, <4>4 DEF BelongsTo
    <3> QED
        BY <3>1
  <2> QED
    BY <2>1, <2>2
<1>11. HistoryOK'
  <2>1. FactsIn(paneAt, rowAt)' = FactsIn(paneAt, rowAt)
        /\ AskedFor(caller, only, paneAt)' = AskedFor(caller, only, paneAt)
    BY <1>1 DEF FactsIn, AskedFor, VisibleTo, Here
  <2>2. rows \subseteq everFacts
    BY <1>3, <1>4 DEF QueryIInv, HistoryOK, CallerPanesOK
  <2>3. \A f : BelongsTo(f, scope)' <=> BelongsTo(f, scope)
    BY <1>1 DEF BelongsTo, Home
  <2>4. \A f \in loaded' : BelongsTo(f, scope)
    BY <1>2, <1>10 DEF QueryIInv, HistoryOK
  <2> QED
    BY <1>1, <1>2, <2>1, <2>2, <2>3, <2>4 DEF QueryIInv, HistoryOK, CallerPanesOK
<1>12. PhasesOK'
    BY <1>1, <1>2, <1>3, <1>4 DEF QueryIInv, PhasesOK, TemplateTables
<1>13. ReadsOK'
  <2>1. ScopeIsWhole' => heldPanes' \subseteq scope'
    BY <1>1, <1>4 DEF QueryIInv, ReadsOK, Reading, ScopeIsWhole
  <2>2. ASSUME NEW f \in heldFacts', IsRead(f[1])', NotCut(f[1])', Home(f)' \in Below(f[1])'
        PROVE  f \in loaded'
    <3>1. CASE f[1] = t
      <4>1. rows = found
        BY <1>6, <1>7, <2>2, <3>1 DEF NotCut
      <4>2. Below(t)' = Below(t)
        <5>1. CASE t \in PaneTables
            BY <1>1, <5>1 DEF Below
        <5>2. CASE t \notin PaneTables
            BY <1>9, <5>2 DEF Below, LoadedTemplates, PaneTables
        <5> QED
            BY <5>1, <5>2
      <4>3. f \in FactsIn(paneAt, rowAt) /\ Home(f) \in Below(t)
        BY <1>1, <2>2, <3>1, <4>2 DEF QueryIInv, HistoryOK, Home
      <4> QED
        BY <1>2, <3>1, <4>1, <4>3
    <3>2. CASE f[1] # t
      <4>1. IsRead(f[1])
        BY <1>1, <2>2, <3>2 DEF IsRead
      <4>2. InTable(f[1])' = InTable(f[1])
        BY <1>2, <1>3, <3>2 DEF InTable
      <4>3. NotCut(f[1])
        BY <2>2, <4>2 DEF NotCut
      <4>4. Below(f[1])' = Below(f[1])
        <5>1. CASE f[1] \in PaneTables
            BY <1>1, <5>1 DEF Below
        <5>2. CASE f[1] \notin PaneTables
          <6>1. step = "templates"
            BY <1>4, <4>1, <5>2 DEF IsRead
          <6>2. t # "panes"
            BY <1>1, <6>1 DEF QueryIInv, PhasesOK, TemplateTables
          <6> QED
            BY <1>9, <5>2, <6>2 DEF Below, LoadedTemplates
        <5> QED
            BY <5>1, <5>2
      <4>5. f \in heldFacts /\ Home(f) \in Below(f[1])
        BY <1>1, <2>2, <4>4 DEF Home
      <4> QED
        BY <1>2, <1>4, <4>1, <4>3, <4>5 DEF QueryIInv, ReadsOK, Reading
    <3> QED
        BY <3>1, <3>2
  <2>3. ASSUME "panes" \notin pending', NEW p \in heldPanes', p \in scope'
        PROVE  \E f \in loaded' : f[1] = "panes" /\ f[2] = p
    <3>1. CASE t = "panes"
      <4>1. rows = found
        BY <1>7, <3>1 DEF Capped
      <4>2. p \in QPanes /\ p \in Here(paneAt)
        BY <1>1, <2>3 DEF QueryIInv, HistoryOK, AskedFor, VisibleTo, Here
      <4>3. <<"panes", p, paneAt[p]>> \in FactsIn(paneAt, rowAt)
        BY <4>2 DEF FactsIn
      <4>4. Home(<<"panes", p, paneAt[p]>>) \in Below(t)
        BY <1>1, <2>3, <3>1 DEF Home, Below, PaneTables
      <4> QED
        BY <1>2, <3>1, <4>1, <4>3, <4>4
    <3>2. CASE t # "panes"
      <4>1. "panes" \notin pending
        BY <1>1, <2>3, <3>2
      <4>2. \E f \in loaded : f[1] = "panes" /\ f[2] = p
        BY <1>1, <1>4, <2>3, <4>1 DEF QueryIInv, ReadsOK, Reading
      <4> QED
        BY <1>2, <4>2
    <3> QED
        BY <3>1, <3>2
  <2> QED
    BY <2>1, <2>2, <2>3 DEF ReadsOK
<1>14. SandboxOK'
    BY <1>1, <1>4 DEF QueryIInv, SandboxOK, ViewsAgree, SandboxClosed
<1>15. answer'.code # "ok" /\ answer'.rows = {}
    BY <1>1, <1>4 DEF QueryIInv, QueryTypes, StepOK
<1>16. ShowsOwnOnly' /\ ShowsFactsOnly' /\ ShowsAllThatStayed'
    BY <1>15 DEF ShowsOwnOnly, ShowsFactsOnly, ShowsAllThatStayed
<1> QED
    BY <1>8, <1>11, <1>12, <1>13, <1>14, <1>16 DEF QueryIInv

LEMMA LoadTemplatesKeepsQuery == QueryIInv /\ LoadTemplates => QueryIInv'
<1> SUFFICES ASSUME QueryIInv, LoadTemplates PROVE QueryIInv'
    OBVIOUS
<1>1. /\ paneAt' = paneAt /\ rowAt' = rowAt /\ ownerAt' = ownerAt
      /\ only' = only /\ scope' = scope /\ loaded' = loaded /\ built' = built /\ conn' = conn
      /\ answer' = answer /\ heldFacts' = heldFacts /\ heldPanes' = heldPanes
      /\ step = "panes" /\ pending = {} /\ step' = "templates"
      /\ UNCHANGED <<dataVars, askVars, traceVars>>
    BY DEF LoadTemplates, dataVars, askVars, sandbox, traceVars
<1>2. pending' = TemplateTables \/ (pending' = {} /\ LoadedPanes = {})
    BY DEF LoadTemplates
<1>3. QueryTypes'
    BY <1>1, <1>2 DEF QueryIInv, QueryTypes, StepOK, Tables
<1>4. HistoryOK'
    BY <1>1, HistoryStays
<1>5. PhasesOK'
    BY <1>1, <1>2 DEF QueryIInv, PhasesOK, PaneTables, TemplateTables
<1>6. ReadsOK'
  <2>1. ASSUME NEW f \in heldFacts, IsRead(f[1])', NotCut(f[1])', Home(f)' \in Below(f[1])'
        PROVE  f \in loaded
    <3>1. Below(f[1])' = Below(f[1]) /\ InTable(f[1])' = InTable(f[1])
        BY <1>1 DEF Below, LoadedTemplates, LoadedPanes, InTable
    <3>2. CASE f[1] \in PaneTables
        BY <1>1, <2>1, <3>1, <3>2 DEF QueryIInv, ReadsOK, Reading, IsRead, NotCut, Home
    <3>3. CASE f[1] \notin PaneTables
      <4>1. LoadedTemplates # {}
        BY <2>1, <3>1, <3>3 DEF Below
      <4>2. pending' = TemplateTables
        BY <1>2, <4>1 DEF LoadedTemplates
      <4>3. f[1] \in Tables
        BY QueryAssumption DEF QueryIInv, HistoryOK, FactsIn, Tables, PaneTables
      <4> QED
        BY <2>1, <3>3, <4>2, <4>3 DEF IsRead, Tables
    <3> QED
        BY <3>2, <3>3
  <2>2. "panes" \notin pending
    BY <1>1
  <2> QED
    BY <1>1, <2>1, <2>2 DEF QueryIInv, ReadsOK, Reading, ScopeIsWhole
<1>7. SandboxOK'
    BY <1>1 DEF QueryIInv, SandboxOK, ViewsAgree, SandboxClosed
<1>8. answer'.code # "ok" /\ answer'.rows = {}
    BY <1>1 DEF QueryIInv, QueryTypes, StepOK
<1>9. ShowsOwnOnly' /\ ShowsFactsOnly' /\ ShowsAllThatStayed'
    BY <1>8 DEF ShowsOwnOnly, ShowsFactsOnly, ShowsAllThatStayed
<1> QED
    BY <1>3, <1>4, <1>5, <1>6, <1>7, <1>9 DEF QueryIInv

LEMMA RefusalsKeepQuery ==
    QueryIInv /\ (ReadFails \/ RefuseScope \/ RefuseViews \/ Fails \/ TimesOut) => QueryIInv'
<1> SUFFICES ASSUME QueryIInv, ReadFails \/ RefuseScope \/ RefuseViews \/ Fails \/ TimesOut
             PROVE  QueryIInv'
    OBVIOUS
<1>1. UNCHANGED <<dataVars, askVars, scope, loaded, built, traceVars>>
    BY DEF ReadFails, RefuseScope, RefuseViews, Fails, TimesOut, readVars, sandbox
<1>2. \E code \in {"internal", "scope_too_large", "view_conflict", "query_error", "query_timeout"} :
          Answer(code, {}, FALSE)
    BY DEF ReadFails, RefuseScope, RefuseViews, Fails, TimesOut
<1>3. conn' # "open"
  <2>1. CASE ReadFails
    <3>1. step \in {"scope", "panes", "templates"} /\ conn' = conn
        BY <2>1 DEF ReadFails, sandbox, QueryIInv, QueryTypes, PhasesOK
    <3> QED
        BY <3>1 DEF QueryIInv, SandboxOK
  <2>2. CASE RefuseScope
    BY <2>2 DEF RefuseScope, LoadedAll, sandbox, QueryIInv, SandboxOK
  <2>3. CASE RefuseViews \/ Fails \/ TimesOut
    BY <2>3 DEF RefuseViews, Fails, TimesOut
  <2> QED
    BY <2>1, <2>2, <2>3
<1>4. pending' = {} /\ step # "idle"
  <2>1. CASE ReadFails
    BY <2>1 DEF ReadFails, QueryIInv, PhasesOK
  <2>2. CASE RefuseScope \/ RefuseViews
    BY <2>2 DEF RefuseScope, RefuseViews, LoadedAll, readVars
  <2>3. CASE Fails \/ TimesOut
    BY <2>3 DEF Fails, TimesOut, readVars, QueryIInv, PhasesOK
  <2> QED
    BY <2>1, <2>2, <2>3
<1> QED
    BY <1>1, <1>2, <1>3, <1>4, RefusalKeepsQuery

LEMMA BuildKeepsQuery == QueryIInv /\ BuildViews => QueryIInv'
<1> SUFFICES ASSUME QueryIInv, BuildViews PROVE QueryIInv'
    OBVIOUS
<1>1. /\ paneAt' = paneAt /\ rowAt' = rowAt /\ ownerAt' = ownerAt /\ stmt' = stmt
      /\ only' = only /\ scope' = scope /\ loaded' = loaded /\ pending' = pending
      /\ answer' = answer /\ heldFacts' = heldFacts /\ heldPanes' = heldPanes
      /\ step = "templates" /\ pending = {} /\ step' = "execute" /\ conn' = "open"
      /\ built' = ToBuild /\ ~TooLarge /\ ~Fatal
      /\ UNCHANGED <<dataVars, askVars, traceVars>>
    BY DEF BuildViews, LoadedAll, dataVars, askVars, readVars, traceVars
<1>2. QueryTypes'
    BY <1>1 DEF QueryIInv, QueryTypes, StepOK
<1>3. HistoryOK'
    BY <1>1, HistoryStays
<1>4. PhasesOK'
    BY <1>1 DEF QueryIInv, PhasesOK
<1>5. ReadsOK'
    BY <1>1 DEF QueryIInv, ReadsOK, Reading, ScopeIsWhole, IsRead, NotCut, InTable,
        Below, LoadedTemplates, LoadedPanes, Home
<1>6. ViewsAgree'
  <2>1. ASSUME NEW d \in ToBuild, d[1] # "template" PROVE ~Conflicting(d)
    <3>1. d \in Declared /\ (stmt.all \/ ViewOf(d) \in stmt.reads)
        BY DEF ToBuild
    <3>2. ViewOf(d) = <<"", d[2]>>
        BY <2>1 DEF ViewOf
    <3> QED
        BY <1>1, <3>1, <3>2 DEF Fatal
  <2>2. \A d : Conflicting(d)' <=> Conflicting(d)
    BY <1>1 DEF Conflicting, LoadedVersions, LoadedPanes
  <2> QED
    BY <1>1, <2>1, <2>2 DEF ViewsAgree
<1>7. SandboxOK'
    BY <1>1, <1>6 DEF SandboxOK, SandboxClosed, TooLarge
<1>8. answer'.code # "ok" /\ answer'.rows = {}
    BY <1>1 DEF QueryIInv, QueryTypes, StepOK
<1>9. ShowsOwnOnly' /\ ShowsFactsOnly' /\ ShowsAllThatStayed'
    BY <1>8 DEF ShowsOwnOnly, ShowsFactsOnly, ShowsAllThatStayed
<1> QED
    BY <1>2, <1>3, <1>4, <1>5, <1>7, <1>9 DEF QueryIInv

(* What was not cut has all that stayed: a held row of a template is loaded *)
(* because the pane that leads to it is.                                    *)
LEMMA HeldIsLoaded ==
    ASSUME QueryIInv, step = "execute", ScopeIsWhole, NEW f \in heldFacts, BelongsTo(f, heldPanes)
    PROVE  f \in loaded
<1>1. f[1] \in Tables
    BY QueryAssumption DEF QueryIInv, HistoryOK, FactsIn, Tables, PaneTables
<1>2. ~TooLarge /\ pending = {} /\ heldPanes \subseteq scope
    BY DEF QueryIInv, SandboxOK, PhasesOK, ReadsOK, Reading
<1>3. IsRead(f[1]) /\ NotCut(f[1])
    BY <1>2 DEF IsRead, NotCut, TooLarge, Capped, InTable
<1>4. Home(f) \in Below(f[1])
  <2>1. CASE f[1] \in PaneTables
    BY <1>2, <2>1 DEF BelongsTo, Below
  <2>2. CASE f[1] \notin PaneTables
    <3>1. PICK p \in heldPanes : Home(f) = OnTemplate[p]
        BY <2>2 DEF BelongsTo
    <3>2. PICK g \in loaded : g[1] = "panes" /\ g[2] = p
        BY <1>2, <3>1 DEF QueryIInv, ReadsOK, Reading
    <3> QED
        BY <2>2, <3>1, <3>2 DEF Below, LoadedTemplates, LoadedPanes
  <2> QED
    BY <2>1, <2>2
<1> QED
    BY <1>3, <1>4 DEF QueryIInv, ReadsOK, Reading

LEMMA CompleteKeepsQuery == QueryIInv /\ Complete => QueryIInv'
<1> SUFFICES ASSUME QueryIInv, Complete PROVE QueryIInv'
    OBVIOUS
<1> DEFINE result == IF stmt.all THEN {} ELSE {f \in loaded : Selected(f)}
<1>1. /\ paneAt' = paneAt /\ rowAt' = rowAt /\ ownerAt' = ownerAt /\ stmt' = stmt
      /\ only' = only /\ scope' = scope /\ loaded' = loaded /\ pending' = pending
      /\ built' = built /\ everFacts' = everFacts /\ everPanes' = everPanes
      /\ heldFacts' = heldFacts /\ heldPanes' = heldPanes
      /\ step = "execute" /\ conn' = "closed"
      /\ UNCHANGED <<dataVars, askVars, traceVars>>
    BY DEF Complete, dataVars, askVars, readVars, traceVars
<1>2. PICK rows \in Take(result, OutputCap) : Answer("ok", rows, Cardinality(result) > OutputCap)
    BY DEF Complete
<1>3. /\ step' = "answered" /\ answer'.code = "ok" /\ answer'.rows = rows
      /\ answer'.truncated = (Cardinality(result) > OutputCap)
    BY <1>2 DEF Answer
<1>4. rows \subseteq loaded
    BY <1>2 DEF Take
<1>5. QueryTypes'
    BY <1>1, <1>3 DEF QueryIInv, QueryTypes, StepOK
<1>6. HistoryOK'
    BY <1>1, HistoryStays
<1>7. PhasesOK' /\ ReadsOK'
    BY <1>1, <1>3 DEF QueryIInv, PhasesOK, ReadsOK, Reading
<1>8. SandboxOK'
    BY <1>1, <1>3 DEF QueryIInv, SandboxOK, ViewsAgree, SandboxClosed, Conflicting,
        LoadedVersions, LoadedPanes
<1>9. ShowsOwnOnly'
  <2>1. \A f : BelongsTo(f, scope) => BelongsTo(f, everPanes)
    BY DEF QueryIInv, HistoryOK, BelongsTo
  <2>2. \A f : BelongsTo(f, everPanes)' <=> BelongsTo(f, everPanes)
    BY <1>1 DEF BelongsTo, Home
  <2> QED
    BY <1>3, <1>4, <2>1, <2>2 DEF QueryIInv, HistoryOK, ShowsOwnOnly
<1>10. ShowsFactsOnly'
    BY <1>1, <1>3, <1>4 DEF QueryIInv, HistoryOK, ShowsFactsOnly
<1>11. ShowsAllThatStayed'
  <2>1. ASSUME NEW f \in heldFacts', Selected(f)', BelongsTo(f, heldPanes)',
               ~answer'.truncated, ~stmt'.all,
               only' # NoScope \/ Cardinality(scope') < ScopeCap
        PROVE  f \in answer'.rows
    <3>1. f \in heldFacts /\ Selected(f) /\ BelongsTo(f, heldPanes) /\ ScopeIsWhole
        BY <1>1, <2>1 DEF Selected, BelongsTo, Home, ScopeIsWhole
    <3>2. f \in result
        BY <1>1, <2>1, <3>1, HeldIsLoaded
    <3>3. ~(Cardinality(result) > OutputCap)
        BY <1>3, <2>1
    <3>4. rows = result
        BY <1>2, <3>3 DEF Take
    <3> QED
        BY <1>3, <3>2, <3>4
  <2> QED
    BY <2>1 DEF ShowsAllThatStayed
<1> QED
    BY <1>5, <1>6, <1>7, <1>8, <1>9, <1>10, <1>11 DEF QueryIInv

LEMMA LateKeepsQuery == QueryIInv /\ LateBody => QueryIInv'
<1> SUFFICES ASSUME QueryIInv, LateBody PROVE QueryIInv'
    OBVIOUS
<1>1. /\ UNCHANGED <<dataVars, askVars, traceVars>> /\ scope' = scope /\ loaded' = loaded
      /\ step = "answered" /\ step' = step /\ pending' = pending /\ built' = built
      /\ conn' = conn /\ answer' = answer
      /\ paneAt' = paneAt /\ rowAt' = rowAt /\ ownerAt' = ownerAt /\ stmt' = stmt
      /\ only' = only /\ everFacts' = everFacts /\ everPanes' = everPanes
      /\ heldFacts' = heldFacts /\ heldPanes' = heldPanes
    BY DEF LateBody, dataVars, askVars, readVars, traceVars
<1>2. HistoryOK'
    BY <1>1, HistoryStays
<1>3. QueryTypes' /\ PhasesOK' /\ ReadsOK'
    BY <1>1 DEF QueryIInv, QueryTypes, StepOK, PhasesOK, ReadsOK, Reading
<1>4. SandboxOK'
    BY <1>1 DEF QueryIInv, SandboxOK, ViewsAgree, SandboxClosed, Conflicting, LoadedVersions,
        LoadedPanes
<1>5. ShowsOwnOnly' /\ ShowsFactsOnly'
    BY <1>1 DEF QueryIInv, ShowsOwnOnly, ShowsFactsOnly, BelongsTo, Home
<1>6. ShowsAllThatStayed'
    BY <1>1 DEF QueryIInv, ShowsAllThatStayed, Selected, BelongsTo, Home
<1> QED
    BY <1>2, <1>3, <1>4, <1>5, <1>6 DEF QueryIInv

LEMMA StutterKeepsQuery == QueryIInv /\ UNCHANGED queryVars => QueryIInv'
<1> SUFFICES ASSUME QueryIInv, UNCHANGED queryVars PROVE QueryIInv'
    OBVIOUS
<1>1. /\ UNCHANGED <<dataVars, askVars, traceVars>> /\ scope' = scope /\ loaded' = loaded
      /\ step' = step /\ pending' = pending /\ built' = built
      /\ conn' = conn /\ answer' = answer
      /\ paneAt' = paneAt /\ rowAt' = rowAt /\ ownerAt' = ownerAt /\ stmt' = stmt
      /\ caller' = caller /\ only' = only /\ everFacts' = everFacts /\ everPanes' = everPanes
      /\ heldFacts' = heldFacts /\ heldPanes' = heldPanes
    BY DEF queryVars, dataVars, askVars, readVars, sandbox, traceVars
<1>2. HistoryOK'
  <2>1. FactsIn(paneAt, rowAt)' = FactsIn(paneAt, rowAt)
        /\ AskedFor(caller, only, paneAt)' = AskedFor(caller, only, paneAt)
    BY <1>1 DEF FactsIn, AskedFor, VisibleTo, Here
  <2> QED
    BY <1>1, <2>1 DEF QueryIInv, HistoryOK, CallerPanesOK, BelongsTo, Home
<1>3. QueryTypes' /\ PhasesOK'
    BY <1>1 DEF QueryIInv, QueryTypes, StepOK, PhasesOK
<1>4. ReadsOK'
    BY <1>1 DEF QueryIInv, ReadsOK, Reading, ScopeIsWhole, IsRead, NotCut, InTable,
        Below, LoadedTemplates, LoadedPanes, Home
<1>5. SandboxOK'
    BY <1>1 DEF QueryIInv, SandboxOK, TooLarge, ViewsAgree, SandboxClosed, Conflicting,
        LoadedVersions, LoadedPanes
<1>6. ShowsOwnOnly' /\ ShowsFactsOnly'
    BY <1>1 DEF QueryIInv, ShowsOwnOnly, ShowsFactsOnly, BelongsTo, Home
<1>7. ShowsAllThatStayed'
    BY <1>1 DEF QueryIInv, ShowsAllThatStayed, Selected, BelongsTo, Home
<1> QED
    BY <1>2, <1>3, <1>4, <1>5, <1>6, <1>7 DEF QueryIInv

(* A pane that is changed stays a pane; so with the rows and the owners.    *)
LEMMA SetPaneTyped ==
    ASSUME QueryTypes, NEW p \in QPanes, NEW r \in PaneRows, SetPane(p, r)
    PROVE  /\ paneAt' \in [QPanes -> PaneRows] /\ rowAt' \in [RowIds -> Vals \cup {NoFact}]
           /\ ownerAt' \in [QAgents -> QHumans \cup {Unowned}] /\ Edited
  BY DEF SetPane, QueryTypes

LEMMA DataStepTyped ==
    ASSUME QueryTypes, DataStep
    PROVE  /\ paneAt' \in [QPanes -> PaneRows] /\ rowAt' \in [RowIds -> Vals \cup {NoFact}]
           /\ ownerAt' \in [QAgents -> QHumans \cup {Unowned}] /\ Edited
<1> USE DEF QueryTypes
<1>1. ASSUME NEW p \in QPanes, NEW v \in QVersions, CreatePane(p, v) PROVE
        /\ paneAt' \in [QPanes -> PaneRows] /\ rowAt' \in [RowIds -> Vals \cup {NoFact}]
        /\ ownerAt' \in [QAgents -> QHumans \cup {Unowned}] /\ Edited
  <2>1. [life |-> "live", human |-> ownerAt[MadeBy[p]], version |-> v] \in PaneRows
    BY QueryAssumption DEF PaneRows
  <2> QED
    BY <1>1, <2>1, SetPaneTyped DEF CreatePane
<1>2. ASSUME NEW p \in QPanes, NEW v \in QVersions, MoveVersion(p, v) PROVE
        /\ paneAt' \in [QPanes -> PaneRows] /\ rowAt' \in [RowIds -> Vals \cup {NoFact}]
        /\ ownerAt' \in [QAgents -> QHumans \cup {Unowned}] /\ Edited
  <2>1. [paneAt[p] EXCEPT !.version = v] \in PaneRows
    BY DEF PaneRows
  <2> QED
    BY <1>2, <2>1, SetPaneTyped DEF MoveVersion
<1>3. ASSUME NEW p \in QPanes, TrashPane(p) \/ RestorePane(p) PROVE
        /\ paneAt' \in [QPanes -> PaneRows] /\ rowAt' \in [RowIds -> Vals \cup {NoFact}]
        /\ ownerAt' \in [QAgents -> QHumans \cup {Unowned}] /\ Edited
  <2>1. [paneAt[p] EXCEPT !.life = "live"] \in PaneRows
        /\ [paneAt[p] EXCEPT !.life = "trashed"] \in PaneRows
    BY DEF PaneRows
  <2> QED
    BY <1>3, <2>1, SetPaneTyped DEF TrashPane, RestorePane
<1>4. ASSUME NEW p \in QPanes, DeletePane(p) PROVE
        /\ paneAt' \in [QPanes -> PaneRows] /\ rowAt' \in [RowIds -> Vals \cup {NoFact}]
        /\ ownerAt' \in [QAgents -> QHumans \cup {Unowned}] /\ Edited
    BY <1>4 DEF DeletePane, PaneRows
<1>5. ASSUME NEW a \in QAgents, NEW h \in QHumans, NEW moved \in SUBSET QPanes,
             ClaimAgent(a, h, moved) PROVE
        /\ paneAt' \in [QPanes -> PaneRows] /\ rowAt' \in [RowIds -> Vals \cup {NoFact}]
        /\ ownerAt' \in [QAgents -> QHumans \cup {Unowned}] /\ Edited
  <2>1. \A p \in QPanes : [paneAt[p] EXCEPT !.human = h] \in PaneRows
    BY DEF PaneRows
  <2> QED
    BY <1>5, <2>1 DEF ClaimAgent
<1>6. ASSUME NEW i \in RowIds, NEW v \in Vals, WriteRow(i, v) PROVE
        /\ paneAt' \in [QPanes -> PaneRows] /\ rowAt' \in [RowIds -> Vals \cup {NoFact}]
        /\ ownerAt' \in [QAgents -> QHumans \cup {Unowned}] /\ Edited
    BY <1>6 DEF WriteRow
<1> QED
    BY <1>1, <1>2, <1>3, <1>4, <1>5, <1>6 DEF DataStep

LEMMA QueryStepKeeps == QueryIInv /\ [QueryNext]_queryVars => QueryIInv'
<1> SUFFICES ASSUME QueryIInv, [QueryNext]_queryVars PROVE QueryIInv'
    OBVIOUS
<1>1. CASE DataStep
    BY <1>1, DataStepTyped, DataKeepsQuery DEF QueryIInv
<1>2. CASE QueryStep
  <2>1. ASSUME NEW a \in QAgents, NEW st \in Statements, NEW o \in QPanes \cup {NoScope},
               Ask(a, st, o) PROVE QueryIInv'
    BY <2>1, AskKeepsQuery
  <2>2. ASSUME NEW t \in Tables, LoadTable(t) PROVE QueryIInv'
    BY <2>2, LoadKeepsQuery
  <2> QED
    BY <1>2, <2>1, <2>2, ResolveKeepsQuery, LoadTemplatesKeepsQuery, RefusalsKeepQuery,
       BuildKeepsQuery, CompleteKeepsQuery, LateKeepsQuery DEF QueryStep
<1> QED
    BY <1>1, <1>2, StutterKeepsQuery DEF QueryNext

(* POST /v1/query: an answer shows the caller's own data only, true at some *)
(* moment of the query, and all of it that stayed unless it says it was     *)
(* cut; views of panes merge no two types; its database is closed. For any  *)
(* panes, rows, statements and caps.                                        *)
THEOREM QuerySound == QuerySpec => []QueryIsSound
<1>1. QueryIInv => QueryIsSound
    BY DEF QueryIInv, QueryIsSound, SandboxOK
<1> QED
    BY QueryStart, QueryStepKeeps, <1>1, PTL DEF QuerySpec

-----------------------------------------------------------------------------
(***************************************************************************)
(* Listings. What was shown is newer than the cursor or its row, and what  *)
(* stayed and was not shown is past it.                                    *)
(***************************************************************************)
ListTypes ==
    /\ listed \subseteq ListRows /\ shown \subseteq ListRows /\ stayed \subseteq listed
    /\ cursor \in ListRows \cup {NoCursor}
    /\ list \in Lists

PassedOver(r) == list = "feedback" /\ \E q \in shown : q # r /\ q[1] = r[1]

ListIInv ==
    /\ ListTypes
    /\ walk = "no" => stayed = {} /\ shown = {}
    /\ cursor = NoCursor /\ walk = "on" => shown = {}
    /\ cursor # NoCursor /\ walk = "on" =>
           cursor \in shown /\ \A r \in shown : r = cursor \/ Newer(r, cursor)
    /\ walk = "on" => \A r \in stayed : \/ r \in shown \/ PassedOver(r)
                                        \/ cursor = NoCursor \/ Past(list, r, cursor)
    /\ WalksAreSound
    /\ walk = "on" => listed \subseteq wasListed

LEMMA NewerTransitive ==
    \A r, q, s \in ListRows : Newer(r, q) /\ Newer(q, s) => Newer(r, s)
  BY ListingAssumption, SMT DEF Newer

LEMMA NewerTotal ==
    \A r, q \in ListRows : r = q \/ Newer(r, q) \/ Newer(q, r)
  BY ListingAssumption, SMT DEF Newer

LEMMA ListStart == ListInit => ListIInv
  BY DEF ListInit, ListIInv, ListTypes, WalksAreSound, NewestFirst, WalkShowsListed,
     WalkShowsAllThatStayed

LEMMA MoveKeepsList ==
    ASSUME ListIInv, NEW rows \in SUBSET ListRows, Move(rows) PROVE ListIInv'
<1>1. /\ listed' = rows /\ wasListed' = wasListed \cup rows /\ stayed' = stayed \cap rows
      /\ walk' = walk /\ list' = list /\ cursor' = cursor /\ shown' = shown /\ ordered' = ordered
    BY DEF Move
<1>2. \A r : PassedOver(r)' <=> PassedOver(r)
    BY <1>1 DEF PassedOver
<1>3. WalksAreSound'
    BY <1>1 DEF ListIInv, WalksAreSound, NewestFirst, WalkShowsListed, WalkShowsAllThatStayed
<1>4. ListTypes'
    BY <1>1 DEF ListIInv, ListTypes
<1> QED
    BY <1>1, <1>2, <1>3, <1>4 DEF ListIInv, Past, Newer

LEMMA StartKeepsList == ASSUME ListIInv, NEW l \in Lists, StartWalk(l) PROVE ListIInv'
<1>1. /\ walk' = "on" /\ list' = l /\ cursor' = NoCursor /\ shown' = {} /\ ordered' = TRUE
      /\ wasListed' = listed /\ stayed' = listed /\ listed' = listed
    BY DEF StartWalk
<1> QED
    BY <1>1 DEF ListIInv, ListTypes, WalksAreSound, NewestFirst, WalkShowsListed,
        WalkShowsAllThatStayed

LEMMA PageKeepsList == ASSUME ListIInv, NEW n \in PageSizes, AskPage(n) PROVE ListIInv'
<1>1. /\ walk = "on" /\ listed' = listed /\ list' = list /\ wasListed' = wasListed
      /\ stayed' = stayed
    BY DEF AskPage
<1>2. PICK page \in Newest(n) :
           /\ shown' = shown \cup page
           /\ ordered' = (ordered /\ \A r \in page, q \in shown : Newer(q, r))
           /\ Resume(page)
    BY DEF AskPage
<1>3. page \subseteq Ahead /\ Ahead \subseteq listed /\ listed \subseteq ListRows
    BY <1>2 DEF Newest, Ahead, ListIInv, ListTypes
<1>4. cursor # NoCursor => \A r \in Ahead : Newer(cursor, r)
  <2>1. ASSUME cursor # NoCursor, NEW r \in Ahead PROVE Newer(cursor, r)
    BY <2>1 DEF Ahead, Past, Newer
  <2> QED
    BY <2>1
<1>5. \A r \in page, q \in shown : Newer(q, r)
  <2>1. ASSUME NEW r \in page, NEW q \in shown PROVE Newer(q, r)
    <3>1. cursor # NoCursor /\ cursor \in ListRows /\ q \in ListRows /\ r \in ListRows
        BY <1>1, <1>3 DEF ListIInv, ListTypes
    <3>2. Newer(cursor, r) /\ (q = cursor \/ Newer(q, cursor))
        BY <1>1, <1>3, <1>4, <3>1 DEF ListIInv
    <3>3. CASE q = cursor
        BY <3>2, <3>3
    <3>4. CASE Newer(q, cursor)
        BY <3>1, <3>2, <3>4, NewerTransitive
    <3> QED
        BY <3>2, <3>3, <3>4
  <2> QED
    BY <2>1
<1>6. ordered'
    BY <1>2, <1>5 DEF ListIInv, WalksAreSound, NewestFirst
<1>7. shown' \subseteq wasListed' /\ shown' \subseteq ListRows
    BY <1>1, <1>2, <1>3 DEF ListIInv, ListTypes, WalksAreSound, WalkShowsListed
<1>8. \A r \in stayed : r \in shown \/ PassedOver(r) \/ r \in Ahead
    BY <1>1 DEF ListIInv, ListTypes, Ahead
<1>9. \A r : PassedOver(r) => PassedOver(r)'
    BY <1>1, <1>2 DEF PassedOver
<1>10. CASE page = Ahead
  <2>1. walk' = "over" /\ cursor' = cursor
    BY <1>2, <1>10 DEF Resume
  <2>2. \A r \in stayed' : r \in shown' \/ PassedOver(r)'
    BY <1>1, <1>2, <1>8, <1>9, <1>10
  <2>3. WalksAreSound'
    BY <1>6, <1>7, <2>2 DEF WalksAreSound, NewestFirst, WalkShowsListed,
        WalkShowsAllThatStayed, PassedOver
  <2> QED
    BY <1>1, <1>7, <2>1, <2>3 DEF ListIInv, ListTypes
<1>11. CASE page # Ahead
  <2>1. PICK last \in page : (\A r \in page \ {last} : Newer(r, last)) /\ cursor' = last
    BY <1>2, <1>11 DEF Resume
  <2>2. walk' = "on" /\ last \in ListRows /\ last # NoCursor
    BY <1>1, <1>2, <1>3, <1>11, ListingAssumption DEF Resume
  <2>3. \A r \in shown' : r = last \/ Newer(r, last)
    BY <1>2, <1>5, <2>1
  <2>4. ASSUME NEW r \in stayed' PROVE r \in shown' \/ PassedOver(r)' \/ Past(list, r, last)
    <3>1. CASE r \in shown \/ PassedOver(r)
        BY <1>2, <1>9, <3>1
    <3>2. CASE r \in Ahead \ page
      <4>1. Newer(last, r)
        BY <1>2, <2>1, <3>2 DEF Newest
      <4>2. CASE list # "feedback"
        BY <4>1, <4>2 DEF Past
      <4>3. CASE list = "feedback"
        <5>1. last[1] > r[1] \/ last[1] = r[1]
            BY <4>1 DEF Newer
        <5>2. last # r /\ last \in shown'
            BY <1>2, <2>1, <3>2
        <5> QED
            BY <1>1, <4>3, <5>1, <5>2 DEF Past, PassedOver
      <4> QED
        BY <4>2, <4>3
    <3> QED
        BY <1>1, <1>2, <1>8, <3>1, <3>2
  <2>5. WalksAreSound'
    BY <1>6, <1>7, <2>2 DEF WalksAreSound, NewestFirst, WalkShowsListed, WalkShowsAllThatStayed
  <2> QED
    BY <1>1, <1>2, <1>7, <2>1, <2>2, <2>3, <2>4, <2>5 DEF ListIInv, ListTypes
<1> QED
    BY <1>10, <1>11

LEMMA ListStepKeeps == ListIInv /\ [ListNext]_listVars => ListIInv'
<1> SUFFICES ASSUME ListIInv, [ListNext]_listVars PROVE ListIInv'
    OBVIOUS
<1>1. ASSUME NEW r \in ListRows, Come(r) \/ Go(r) PROVE ListIInv'
  <2>1. listed \cup {r} \in SUBSET ListRows /\ listed \ {r} \in SUBSET ListRows
    BY DEF ListIInv, ListTypes
  <2> QED
    BY <1>1, <2>1, MoveKeepsList DEF Come, Go
<1>2. CASE UNCHANGED listVars
    BY <1>2 DEF listVars, ListIInv, ListTypes, PassedOver, WalksAreSound, NewestFirst,
        WalkShowsListed, WalkShowsAllThatStayed, Past, Newer
<1> QED
    BY <1>1, <1>2, StartKeepsList, PageKeepsList DEF ListNext

(* The paged lists: newest first, nothing twice, nothing passed over that   *)
(* stayed, but feedback of one moment; for any rows and any page sizes.     *)
THEOREM WalksSound == ListSpec => []WalksAreSound
<1>1. ListIInv => WalksAreSound
    BY DEF ListIInv
<1> QED
    BY ListStart, ListStepKeeps, <1>1, PTL DEF ListSpec

-----------------------------------------------------------------------------
(***************************************************************************)
(* SchemaGate. What a gate lets through takes all that was taken before,   *)
(* so that what was stored, or is on its way, satisfies the version of the *)
(* pane; a compiled validator is of the version it is kept for.            *)
(***************************************************************************)

LEMMA BoundsWiden ==
    /\ \A i, j, k \in Nat : i >= j /\ ~(k > j) => i >= k
    /\ \A i, j, k \in Nat : i <= j /\ ~(k < j) => i <= k
<1>1. \A i, j, k \in Nat : i >= j /\ ~(k > j) => i >= k
  OBVIOUS
<1>2. \A i, j, k \in Nat : i <= j /\ ~(k < j) => i <= k
  OBVIOUS
<1> QED
  BY <1>1, <1>2

(* Every value a leaf accepts is accepted by one that breaks nothing.       *)
LEMMA LeafWider ==
    ASSUME NEW o \in Leaves, NEW n \in Leaves, NEW a \in Atoms,
           LeafAccepts(o, a), ~LeafBlind(o, n),
           o.bool = "" /\ n.bool = "" => ~LeafBreaks(o, n)
    PROVE  LeafAccepts(n, a)
<1>1. CASE n.bool # ""
  BY <1>1 DEF LeafBlind, LeafAccepts, Leaves
<1>2. CASE n.bool = ""
  <2>1. o.bool = "" /\ n.other \subseteq o.other /\ ~LeafBreaks(o, n)
    BY <1>2 DEF LeafBlind, LeafAccepts, Leaves
  <2>2. /\ n.types # Unset => JsonType[a] \in n.types
        /\ n.enum # Unset => a \in n.enum
        /\ n.const # Unset => a = n.const
        /\ n.pattern # Unset => a \in Meeting[n.pattern]
    BY <2>1 DEF LeafBreaks, LeafAccepts
  <2>3. SizeOf[a] \in Nat
    BY SchemaAssumption
  <2>4. n.lo # Unset => SizeOf[a] >= n.lo
    <3>1. SUFFICES ASSUME n.lo # Unset PROVE SizeOf[a] >= n.lo
      OBVIOUS
    <3>2. o.lo # Unset /\ ~(n.lo > o.lo) /\ SizeOf[a] >= o.lo
      BY <2>1, <3>1 DEF LeafBreaks, MinimumBreaks, LeafAccepts
    <3>3. n.lo \in Nat /\ o.lo \in Nat
      BY <3>1, <3>2 DEF Leaves
    <3> QED
      BY BoundsWiden, <2>3, <3>2, <3>3
  <2>5. n.hi # Unset => SizeOf[a] <= n.hi
    <3>1. SUFFICES ASSUME n.hi # Unset PROVE SizeOf[a] <= n.hi
      OBVIOUS
    <3>2. o.hi # Unset /\ ~(n.hi < o.hi) /\ SizeOf[a] <= o.hi
      BY <2>1, <3>1 DEF LeafBreaks, MaximumBreaks, LeafAccepts
    <3>3. n.hi \in Nat /\ o.hi \in Nat
      BY <3>1, <3>2 DEF Leaves
    <3> QED
      BY BoundsWiden, <2>3, <3>2, <3>3
  <2>6. \A w \in n.combined \cup n.other : a \in Meeting[w]
    BY <2>1 DEF LeafBreaks, LeafAccepts
  <2> QED
    BY <1>2, <2>2, <2>4, <2>5, <2>6 DEF LeafAccepts
<1> QED
  BY <1>1, <1>2

(* The same of a whole payload: one property at a time, and the elements.   *)
LEMMA NodeWider ==
    ASSUME NEW o \in Nodes, NEW n \in Nodes, NEW x \in Payloads,
           o.own.bool = "", n.own.bool = "",
           Accepts(o, x), ~NodeBreaks(o, n), ~NodeBlind(o, n)
    PROVE  Accepts(n, x)
<1>1. /\ o.own \in Leaves /\ n.own \in Leaves /\ x.self \in Atoms
      /\ \A f \in Fields : o.props[f] # Unset => o.props[f] \in Leaves
      /\ \A f \in Fields : n.props[f] # Unset => n.props[f] \in Leaves
      /\ \A f \in Fields : x.fields[f] # Unset => x.fields[f] \in Atoms
      /\ o.extra # Unset => o.extra \in Leaves
      /\ n.extra # Unset => n.extra \in Leaves
      /\ o.items # Unset => o.items \in Leaves
      /\ n.items # Unset => n.items \in Leaves
      /\ x.elements \subseteq Atoms
  BY DEF Nodes, Payloads
<1>2. LeafAccepts(n.own, x.self)
  <2>1. LeafAccepts(o.own, x.self) /\ ~LeafBlind(o.own, n.own) /\ ~LeafBreaks(o.own, n.own)
    BY DEF Accepts, NodeBreaks, NodeBlind
  <2> QED
    BY <1>1, <2>1, LeafWider
<1>3. JsonType[x.self] = "object" => n.required \subseteq Bears(x)
  BY DEF Accepts, NodeBreaks
<1>4. ASSUME NEW f \in Bears(x), f \in Declares(n) PROVE LeafAccepts(n.props[f], x.fields[f])
  <2>1. /\ f \in Fields /\ x.fields[f] \in Atoms /\ n.props[f] \in Leaves
        /\ n.props[f] # Unset
    BY <1>1, <1>4 DEF Bears, Declares
  <2>2. CASE f \in Declares(o)
    <3>1. o.props[f] \in Leaves /\ o.props[f] # Unset
      BY <1>1, <2>2 DEF Declares
    <3>2. /\ LeafAccepts(o.props[f], x.fields[f])
          /\ ~LeafBlind(o.props[f], n.props[f])
          /\ IsObject(o.props[f]) /\ IsObject(n.props[f])
                 => ~LeafBreaks(o.props[f], n.props[f])
      BY <1>4, <2>2 DEF Accepts, NodeBlind, NodeBreaks
    <3> QED
      BY <2>1, <3>1, <3>2, LeafWider DEF IsObject
  <2>3. CASE f \notin Declares(o)
    <3>1. NoExtra(o)
      BY <1>4, <2>3 DEF NodeBlind
    <3>2. LeafAccepts(o.extra, x.fields[f])
      BY <2>3, <3>1 DEF Accepts, NoExtra
    <3> QED
      BY <3>1, <3>2 DEF NoExtra, LeafAccepts
  <2> QED
    BY <2>2, <2>3
<1>5. ASSUME NEW f \in Bears(x), f \notin Declares(n), n.extra # Unset
      PROVE  LeafAccepts(n.extra, x.fields[f])
  <2>1. CASE TakesExtra(n)
    BY <1>5, <2>1 DEF TakesExtra, LeafAccepts
  <2>2. CASE ~TakesExtra(n)
    <3>1. f \notin Declares(o)
      BY <1>5, <2>2 DEF NodeBlind
    <3>2. ~TakesExtra(o)
      BY <2>2 DEF NodeBreaks
    <3>3. LeafAccepts(o.extra, x.fields[f])
      BY <3>1, <3>2 DEF Accepts, TakesExtra
    <3>4. ~NoExtra(o)
      BY <3>2, <3>3 DEF NoExtra, LeafAccepts
    <3>5. n.extra = o.extra
      BY <2>2, <3>2, <3>4 DEF NodeBlind
    <3> QED
      BY <3>3, <3>5
  <2> QED
    BY <2>1, <2>2
<1>6. ASSUME NEW a \in x.elements, n.items # Unset PROVE LeafAccepts(n.items, a)
  <2>1. a \in Atoms /\ n.items \in Leaves
    BY <1>1, <1>6
  <2>2. CASE o.items = Unset
    <3>1. n.items.bool # "false" /\ n.items.bool # ""
      BY <1>6, <2>2 DEF NodeBlind, NodeBreaks, IsObject
    <3> QED
      BY <2>1, <3>1 DEF LeafAccepts, Leaves
  <2>3. CASE o.items # Unset
    <3>1. o.items \in Leaves
      BY <1>1, <2>3
    <3>2. /\ LeafAccepts(o.items, a) /\ ~LeafBlind(o.items, n.items)
          /\ IsObject(o.items) /\ IsObject(n.items) => ~LeafBreaks(o.items, n.items)
      BY <1>6, <2>3 DEF Accepts, NodeBlind, NodeBreaks
    <3> QED
      BY <1>6, <2>1, <2>3, <3>1, <3>2, LeafWider DEF IsObject
  <2> QED
    BY <2>2, <2>3
<1> QED
  BY <1>2, <1>3, <1>4, <1>5, <1>6 DEF Accepts

(* What one document takes another takes too.                               *)
Wider(o, n) == \A y \in SchemaRows : Satisfies(o, y) => Satisfies(n, y)

(* A version the gate lets through, with nothing in it that the gate does   *)
(* not look at, takes whatever was taken before (compareJsonSchema and      *)
(* comparePaneSchemas): the blind spots NodeBlind names are all there are.  *)
THEOREM GateAdmitsWider ==
    ASSUME NEW o \in Docs, NEW n \in Docs, ~DocBreaks(o, n), ~DocBlind(o, n)
    PROVE  Wider(o, n)
<1> SUFFICES ASSUME NEW y \in SchemaRows, Satisfies(o, y) PROVE Satisfies(n, y)
  BY DEF Wider
<1>1. y.part \in Parts /\ y.data \in Payloads
  BY SchemaAssumption DEF SchemaRows
<1> DEFINE a == PartOf[o][y.part]
           b == PartOf[n][y.part]
<1>2. /\ a \in PartEntries /\ b \in PartEntries
      /\ a.node.own.bool = "" /\ b.node.own.bool = ""
  BY <1>1, SchemaAssumption
<1>3. /\ ~PartBreaks(y.part, a, b)
      /\ a.declared /\ b.declared => ~NodeBlind(a.node, b.node)
  BY <1>1 DEF DocBreaks, DocBlind
<1>4. ASSUME a.declared, b.declared, ~NodeBreaks(a.node, b.node), Accepts(a.node, y.data)
      PROVE  Accepts(b.node, y.data)
  <2>1. a.node \in Nodes /\ b.node \in Nodes
    BY <1>2 DEF PartEntries
  <2>2. ~NodeBlind(a.node, b.node)
    BY <1>3, <1>4
  <2> HIDE DEF a, b
  <2> QED
    BY <1>1, <1>2, <1>4, <2>1, <2>2, NodeWider
<1>5. CASE y.part = "input"
  <2>1. CASE ~b.declared
    BY <1>5, <2>1 DEF Satisfies, Fits
  <2>2. CASE b.declared
    <3>1. a.declared /\ ~NodeBreaks(a.node, b.node)
      BY <1>3, <1>5, <2>2 DEF PartBreaks
    <3>2. Accepts(a.node, y.data)
      BY <1>5, <3>1 DEF Satisfies, Fits
    <3> QED
      BY <1>4, <1>5, <2>2, <3>1, <3>2 DEF Satisfies, Fits
  <2> QED
    BY <2>1, <2>2
<1>6. CASE y.part = "event"
  <2>1. /\ a.declared /\ y.actor \in a.actors /\ Accepts(a.node, y.data)
    BY <1>6 DEF Satisfies, MayWrite, Fits
  <2>2. b.declared /\ ~NodeBreaks(a.node, b.node) /\ a.actors \subseteq b.actors
    BY <1>3, <1>6, <2>1 DEF PartBreaks
  <2> QED
    BY <1>4, <1>6, <2>1, <2>2 DEF Satisfies, MayWrite, Fits
<1>7. CASE y.part = "record"
  <2>1. a.declared /\ Accepts(a.node, y.data)
    BY <1>7 DEF Satisfies, Fits
  <2>2. b.declared /\ ~NodeBreaks(a.node, b.node)
    BY <1>3, <1>7, <2>1 DEF PartBreaks
  <2> QED
    BY <1>4, <1>7, <2>1, <2>2 DEF Satisfies, Fits
<1> QED
  BY <1>1, <1>5, <1>6, <1>7 DEF Parts

-----------------------------------------------------------------------------
Compats == {"strict", "force"}
IdleCalls == {IdleCall}
WritingCalls == [stage : {"write"}, seen : Versions]
StoringCalls == [stage : {"store"}, row : SchemaRows]
UpgradeCalls == [stage : {"upgrade"}, seen : Versions, head : Versions]
RepinCalls == [stage : {"repin"}, seen : Versions, target : Versions, compat : Compats]
AppendCalls ==
    [stage : {"append"}, seen : Versions, target : Versions, given : Docs, compat : Compats]
CallStates ==
    IdleCalls \cup WritingCalls \cup StoringCalls \cup UpgradeCalls \cup RepinCalls
    \cup AppendCalls
CacheEntries == [key : Versions, doc : Docs]

GateTypes ==
    /\ doc \in [Versions -> Docs] /\ newest \in Versions
    /\ pin \in Versions /\ pin <= newest
    /\ kept \subseteq SchemaRows /\ trusted \in BOOLEAN
    /\ scall \in [SchemaCalls -> CallStates]
    /\ cached \in [Parts -> SUBSET CacheEntries]

(* A row, stored or validated, satisfies its version's schema and, while    *)
(* every upgrade was a trusted one, that of the pane's.                     *)
RowOK(y) ==
    /\ y.version <= newest /\ Satisfies(doc[y.version], y)
    /\ trusted => Satisfies(doc[pin], y)

(* What a request knows: the pane has only moved to wider versions since it *)
(* was read, and what the gate let through breaks nothing.                  *)
CallOK(c) ==
    /\ c.stage = "write" => /\ c.seen <= newest
                            /\ trusted => Wider(doc[c.seen], doc[pin])
    /\ c.stage = "store" => RowOK(c.row)
    /\ c.stage = "upgrade" => c.seen <= newest /\ c.head <= newest
    /\ c.stage = "repin" =>
           /\ c.seen <= newest /\ c.target <= newest
           /\ c.compat = "strict" => ~DocBreaks(doc[c.seen], doc[c.target])
    /\ c.stage = "append" =>
           /\ c.seen <= newest /\ c.target <= newest + 1
           /\ c.compat = "strict" => ~DocBreaks(doc[c.seen], c.given)

EntryOK(e) == e.key <= newest /\ e.doc = doc[e.key]

CachesFit == \A k \in Parts : IsFiniteSet(cached[k]) /\ Cardinality(cached[k]) <= CacheMax

(* The induction: what is stored, what is on its way, what is cached.       *)
GateIInv ==
    /\ GateTypes /\ CachesFit
    /\ \A y \in kept : RowOK(y)
    /\ \A c \in {scall[r] : r \in SchemaCalls} : CallOK(c)
    /\ \A k \in Parts : \A e \in cached[k] : EntryOK(e)

LEMMA VersionNumbers == LastVersion \in Nat /\ Versions = 1..LastVersion
  BY SchemaAssumption DEF Versions

(* Nothing known is lost when versions are added and the pane moves to a    *)
(* wider one.                                                               *)
LEMMA KnownStays ==
    ASSUME GateTypes, GateTypes', newest <= newest',
           \A v \in Versions : v <= newest => doc'[v] = doc[v],
           trusted' => trusted /\ Wider(doc[pin], doc'[pin'])
    PROVE  /\ \A y \in SchemaRows : RowOK(y) => RowOK(y)'
           /\ \A c \in CallStates : CallOK(c) => CallOK(c)'
           /\ \A e \in CacheEntries : EntryOK(e) => EntryOK(e)'
<1>1. LastVersion \in Nat /\ Versions = 1..LastVersion
  BY VersionNumbers
<1>2. newest \in Nat /\ newest' \in Nat /\ \A v \in Versions : v \in Nat
  BY <1>1 DEF GateTypes
<1>3. \A v \in Versions : v <= newest => v <= newest'
  BY <1>2
<1>4. ASSUME NEW y \in SchemaRows, RowOK(y) PROVE RowOK(y)'
  <2>1. y.version \in Versions
    BY DEF SchemaRows
  <2>2. y.version <= newest' /\ doc'[y.version] = doc[y.version]
    BY <1>3, <1>4, <2>1 DEF RowOK
  <2>3. trusted' => Satisfies(doc'[pin'], y)
    BY <1>4 DEF RowOK, Wider
  <2> QED
    BY <1>4, <2>2, <2>3 DEF RowOK
<1>5. ASSUME NEW c \in CallStates, CallOK(c) PROVE CallOK(c)'
  <2>1. CASE c \in WritingCalls
    <3>1. c.stage = "write" /\ c.seen \in Versions
      BY <2>1 DEF WritingCalls
    <3>2. c.seen <= newest' /\ doc'[c.seen] = doc[c.seen]
      BY <1>3, <1>5, <3>1 DEF CallOK
    <3>3. trusted' => Wider(doc'[c.seen], doc'[pin'])
      BY <1>5, <3>1, <3>2 DEF CallOK, Wider
    <3> QED
      BY <3>1, <3>2, <3>3 DEF CallOK
  <2>2. CASE c \in StoringCalls
    <3>1. c.stage = "store" /\ c.row \in SchemaRows
      BY <2>2 DEF StoringCalls
    <3>2. RowOK(c.row)'
      BY <1>4, <1>5, <3>1 DEF CallOK
    <3> QED
      BY <3>1, <3>2 DEF CallOK
  <2>3. CASE c \in UpgradeCalls
    <3>1. c.stage = "upgrade" /\ c.seen \in Versions /\ c.head \in Versions
      BY <2>3 DEF UpgradeCalls
    <3> QED
      BY <1>3, <1>5, <3>1 DEF CallOK
  <2>4. CASE c \in RepinCalls
    <3>1. c.stage = "repin" /\ c.seen \in Versions /\ c.target \in Versions
      BY <2>4 DEF RepinCalls
    <3>2. /\ c.seen <= newest' /\ c.target <= newest'
          /\ doc'[c.seen] = doc[c.seen] /\ doc'[c.target] = doc[c.target]
      BY <1>3, <1>5, <3>1 DEF CallOK
    <3> QED
      BY <1>5, <3>1, <3>2 DEF CallOK
  <2>5. CASE c \in AppendCalls
    <3>1. c.stage = "append" /\ c.seen \in Versions /\ c.target \in Versions
      BY <2>5 DEF AppendCalls
    <3>2. /\ c.seen <= newest /\ c.target <= newest + 1
          /\ c.compat = "strict" => ~DocBreaks(doc[c.seen], c.given)
      BY <1>5, <3>1 DEF CallOK
    <3>3. c.seen <= newest' /\ doc'[c.seen] = doc[c.seen]
      BY <1>3, <3>1, <3>2
    <3>4. c.target <= newest' + 1
      BY <1>2, <3>1, <3>2
    <3> QED
      BY <3>1, <3>2, <3>3, <3>4 DEF CallOK
  <2>6. CASE c \in IdleCalls
    BY <2>6 DEF IdleCalls, IdleCall, CallOK
  <2> QED
    BY <2>1, <2>2, <2>3, <2>4, <2>5, <2>6 DEF CallStates
<1>6. ASSUME NEW e \in CacheEntries, EntryOK(e) PROVE EntryOK(e)'
  <2>1. e.key \in Versions
    BY DEF CacheEntries
  <2> QED
    BY <1>3, <1>6, <2>1 DEF EntryOK
<1> QED
  BY <1>4, <1>5, <1>6

LEMMA GateInit == SchemaInit => GateIInv
<1> SUFFICES ASSUME SchemaInit PROVE GateIInv
  OBVIOUS
<1>1. LastVersion \in Nat /\ CacheMax \in Nat
  BY SchemaAssumption
<1>2. newest \in Versions /\ pin \in Versions /\ pin <= newest
  BY <1>1 DEF SchemaInit, Versions
<1>3. IdleCall \in CallStates /\ \A c \in {IdleCall} : CallOK(c)
  BY DEF CallStates, IdleCalls, IdleCall, CallOK
<1>4. GateTypes
  BY <1>2, <1>3 DEF SchemaInit, GateTypes
<1>5. CachesFit
  BY <1>1, FS_EmptySet DEF SchemaInit, CachesFit
<1> QED
  BY <1>3, <1>4, <1>5 DEF SchemaInit, GateIInv

(* One request moves on.                                                    *)
LEMMA OneCallGoesOn ==
    ASSUME GateIInv, NEW r \in SchemaCalls, NEW next \in CallStates, GoesOn(r, next)
    PROVE  /\ scall' \in [SchemaCalls -> CallStates]
           /\ \A q \in SchemaCalls : scall'[q] = next \/ scall'[q] = scall[q]
  BY DEF GateIInv, GateTypes, GoesOn

(* What a step must show, once the other requests, rows and entries are     *)
(* carried along.                                                           *)
LEMMA GateStepOf ==
    ASSUME GateIInv, GateTypes', CachesFit', newest <= newest',
           \A v \in Versions : v <= newest => doc'[v] = doc[v],
           trusted' => trusted /\ Wider(doc[pin], doc'[pin']),
           \A y \in kept' : y \in kept \/ RowOK(y),
           \A q \in SchemaCalls : scall'[q] = scall[q] \/ (\A c \in {scall'[q]} : CallOK(c)'),
           \A k \in Parts : \A e \in cached'[k] : e \in cached[k] \/ EntryOK(e)
    PROVE  GateIInv'
<1>1. GateTypes
  BY DEF GateIInv
<1>2. /\ \A y \in SchemaRows : RowOK(y) => RowOK(y)'
      /\ \A c \in CallStates : CallOK(c) => CallOK(c)'
      /\ \A e \in CacheEntries : EntryOK(e) => EntryOK(e)'
  BY <1>1, KnownStays
<1>3. \A y \in kept' : RowOK(y)'
  <2> SUFFICES ASSUME NEW y \in kept' PROVE RowOK(y)'
    OBVIOUS
  <2>1. y \in SchemaRows
    BY DEF GateTypes
  <2>2. RowOK(y)
    BY DEF GateIInv
  <2> QED
    BY <1>2, <2>1, <2>2
<1>4. \A c \in {scall'[q] : q \in SchemaCalls} : CallOK(c)'
  <2> SUFFICES ASSUME NEW q \in SchemaCalls, NEW c \in {scall'[q]}, scall'[q] = scall[q]
               PROVE  CallOK(c)'
    OBVIOUS
  <2>1. c \in CallStates
    BY DEF GateTypes
  <2>2. CallOK(c)
    BY DEF GateIInv
  <2> QED
    BY <1>2, <2>1, <2>2
<1>5. \A k \in Parts : \A e \in cached'[k] : EntryOK(e)'
  <2> SUFFICES ASSUME NEW k \in Parts, NEW e \in cached'[k] PROVE EntryOK(e)'
    OBVIOUS
  <2>1. e \in CacheEntries
    BY DEF GateTypes
  <2>2. EntryOK(e)
    BY DEF GateIInv
  <2> QED
    BY <1>2, <2>1, <2>2
<1> QED
  BY <1>3, <1>4, <1>5 DEF GateIInv

(* A compiled validator is of the version that was asked for, and the cache *)
(* keeps to its capacity.                                                   *)
LEMMA CompiledIsOf ==
    ASSUME GateIInv, NEW k \in Parts, NEW v \in Versions, v <= newest,
           NEW c \in Compiled(k, v)
    PROVE  /\ c.doc = doc[v] /\ c.cache \subseteq CacheEntries
           /\ IsFiniteSet(c.cache) /\ Cardinality(c.cache) <= CacheMax
           /\ \A e \in c.cache : e \in cached[k] \/ EntryOK(e)
<1>1. /\ cached[k] \subseteq CacheEntries /\ IsFiniteSet(cached[k])
      /\ Cardinality(cached[k]) <= CacheMax /\ doc[v] \in Docs
      /\ \A e \in cached[k] : EntryOK(e)
  BY DEF GateIInv, GateTypes, CachesFit
<1>2. CacheMax \in Nat /\ Cardinality(cached[k]) \in Nat
  BY <1>1, SchemaAssumption, FS_CardinalityType
<1> DEFINE hit == {e \in cached[k] : e.key = Key(v)}
<1>3. CASE k = "input"
  BY <1>1, <1>3 DEF Compiled
<1>4. CASE k # "input" /\ hit # {}
  <2>1. PICK e \in cached[k] : e.key = v /\ c = [doc |-> e.doc, cache |-> cached[k]]
    BY <1>4 DEF Compiled, Key
  <2> QED
    BY <1>1, <2>1 DEF EntryOK
<1>5. CASE k # "input" /\ hit = {}
  <2>1. PICK new : new = [key |-> v, doc |-> doc[v]]
    OBVIOUS
  <2>2. new \in CacheEntries /\ EntryOK(new)
    BY <1>1, <2>1 DEF CacheEntries, EntryOK
  <2>3. new \notin cached[k]
    BY <1>5, <2>1 DEF Key
  <2>4. PICK more : more = cached[k] \cup {new}
    OBVIOUS
  <2>5. IsFiniteSet(more) /\ Cardinality(more) = Cardinality(cached[k]) + 1
    BY <1>1, <2>3, <2>4, FS_AddElement
  <2>6. more \subseteq CacheEntries /\ \A e \in more : e \in cached[k] \/ EntryOK(e)
    BY <1>1, <2>2, <2>4
  <2>7. c \in IF Cardinality(more) <= CacheMax THEN {[doc |-> doc[v], cache |-> more]}
              ELSE {[doc |-> doc[v], cache |-> more \ {e}] : e \in cached[k]}
    BY <1>5, <2>1, <2>4 DEF Compiled, Key
  <2>8. CASE Cardinality(more) <= CacheMax
    BY <2>5, <2>6, <2>7, <2>8
  <2>9. CASE ~(Cardinality(more) <= CacheMax)
    <3>1. PICK e \in cached[k] : c = [doc |-> doc[v], cache |-> more \ {e}]
      BY <2>7, <2>9
    <3>2. IsFiniteSet(more \ {e}) /\ Cardinality(more \ {e}) = Cardinality(more) - 1
      BY <2>4, <2>5, <3>1, FS_RemoveElement
    <3>3. Cardinality(more \ {e}) <= CacheMax
      BY <1>1, <1>2, <2>5, <3>2
    <3> QED
      BY <2>6, <3>1, <3>2, <3>3
  <2> QED
    BY <2>8, <2>9
<1> QED
  BY <1>3, <1>4, <1>5

(* A step of one request that leaves the versions and the pin alone.        *)
LEMMA RequestStep ==
    ASSUME GateIInv, NEW r \in SchemaCalls, NEW next \in CallStates, CallOK(next),
           GoesOn(r, next), UNCHANGED <<doc, newest, pin, trusted>>,
           kept' \subseteq SchemaRows, \A y \in kept' : y \in kept \/ RowOK(y),
           cached' \in [Parts -> SUBSET CacheEntries], CachesFit',
           \A k \in Parts : \A e \in cached'[k] : e \in cached[k] \/ EntryOK(e)
    PROVE  GateIInv'
<1>1. GateTypes
  BY DEF GateIInv
<1>2. /\ scall' \in [SchemaCalls -> CallStates]
      /\ \A q \in SchemaCalls : scall'[q] = next \/ scall'[q] = scall[q]
  BY OneCallGoesOn
<1>3. GateTypes'
  BY <1>1, <1>2 DEF GateTypes
<1>4. newest <= newest'
  BY <1>1, VersionNumbers DEF GateTypes
<1>5. trusted' => trusted /\ Wider(doc[pin], doc'[pin'])
  BY DEF Wider
<1>6. \A v \in Versions : v <= newest => doc'[v] = doc[v]
  OBVIOUS
<1>7. \A c \in CallStates : CallOK(c) => CallOK(c)'
  BY <1>1, <1>3, <1>4, <1>5, <1>6, KnownStays
<1>8. \A q \in SchemaCalls : scall'[q] = scall[q] \/ (\A c \in {scall'[q]} : CallOK(c)')
  <2> SUFFICES ASSUME NEW q \in SchemaCalls, scall'[q] # scall[q], NEW c \in {scall'[q]}
               PROVE  CallOK(c)'
    OBVIOUS
  <2>1. c = next
    BY <1>2
  <2>2. CallOK(c)
    BY <2>1
  <2> QED
    BY <1>7, <2>1, <2>2
<1> QED
  BY <1>3, <1>4, <1>5, <1>6, <1>8, GateStepOf

LEMMA IdleIsOK == IdleCall \in CallStates /\ CallOK(IdleCall)
  BY DEF CallStates, IdleCalls, IdleCall, CallOK

(* The same, of a step that leaves what is stored and cached alone too.     *)
LEMMA RequestStepOnly ==
    ASSUME GateIInv, NEW r \in SchemaCalls, NEW next \in CallStates, CallOK(next),
           GoesOn(r, next), UNCHANGED <<doc, newest, pin, kept, cached, trusted>>
    PROVE  GateIInv'
<1>1. kept' \subseteq SchemaRows /\ cached' \in [Parts -> SUBSET CacheEntries]
  BY DEF GateIInv, GateTypes
<1>2. CachesFit'
  BY DEF GateIInv, CachesFit
<1> QED
  BY <1>1, <1>2, RequestStep

(* What a request knows, by its stage.                                      *)
LEMMA KnownAt ==
    ASSUME GateIInv, NEW r \in SchemaCalls, NEW c, c = scall[r]
    PROVE  /\ CallOK(c)
           /\ c.stage = "write" => c.seen \in Versions
           /\ c.stage = "store" => c.row \in SchemaRows
           /\ c.stage = "upgrade" => c.seen \in Versions /\ c.head \in Versions
           /\ c.stage = "repin" => c.seen \in Versions /\ c.target \in Versions
           /\ c.stage = "append" => /\ c.seen \in Versions /\ c.target \in Versions
                                    /\ c.given \in Docs
<1>1. c \in CallStates /\ CallOK(c)
  BY DEF GateIInv, GateTypes
<1> QED
  BY <1>1 DEF CallStates, IdleCalls, IdleCall, WritingCalls, StoringCalls, UpgradeCalls,
              RepinCalls, AppendCalls

LEMMA ReadPaneStep ==
    ASSUME GateIInv, NEW r \in SchemaCalls, ReadPane(r) PROVE GateIInv'
<1>1. PICK next : next = [stage |-> "write", seen |-> pin]
  OBVIOUS
<1>2. pin \in Versions /\ pin <= newest
  BY DEF GateIInv, GateTypes
<1>3. next \in CallStates
  BY <1>1, <1>2 DEF CallStates, WritingCalls
<1>4. CallOK(next)
  BY <1>1, <1>2 DEF CallOK, Wider
<1> QED
  BY <1>1, <1>3, <1>4, RequestStepOnly DEF ReadPane

LEMMA ReadForUpgradeStep ==
    ASSUME GateIInv, NEW r \in SchemaCalls, ReadForUpgrade(r) PROVE GateIInv'
<1>1. PICK next : next = [stage |-> "upgrade", seen |-> pin, head |-> newest]
  OBVIOUS
<1>2. pin \in Versions /\ pin <= newest /\ newest \in Versions /\ newest <= newest
  BY VersionNumbers DEF GateIInv, GateTypes
<1>3. next \in CallStates
  BY <1>1, <1>2 DEF CallStates, UpgradeCalls
<1>4. CallOK(next)
  BY <1>1, <1>2 DEF CallOK
<1> QED
  BY <1>1, <1>3, <1>4, RequestStepOnly DEF ReadForUpgrade

LEMMA ValidateDataStep ==
    ASSUME GateIInv, NEW r \in SchemaCalls, NEW k \in Parts, NEW a \in Principals,
           NEW x \in Data, ValidateData(r, k, a, x)
    PROVE  GateIInv'
<1>1. PICK w : w = scall[r]
  OBVIOUS
<1>2. PICK v : v = w.seen
  OBVIOUS
<1>3. /\ w.stage = "write" /\ v \in Versions /\ v <= newest
      /\ trusted => Wider(doc[v], doc[pin])
  <2>1. w.stage = "write"
    BY <1>1 DEF ValidateData, AtStage
  <2> QED
    BY <1>1, <1>2, <2>1, KnownAt DEF CallOK
<1>4. UNCHANGED <<doc, newest, pin, kept, trusted>>
  BY DEF ValidateData
<1>5. kept' \subseteq SchemaRows /\ \A y \in kept' : y \in kept \/ RowOK(y)
  BY <1>4 DEF GateIInv, GateTypes
<1>6. /\ cached \in [Parts -> SUBSET CacheEntries]
      /\ \A i \in Parts : IsFiniteSet(cached[i]) /\ Cardinality(cached[i]) <= CacheMax
  BY DEF GateIInv, GateTypes, CachesFit
<1>7. CASE ~MayWrite(k, doc[v], a)
  <2>1. GoesOn(r, IdleCall) /\ UNCHANGED cached
    BY <1>1, <1>2, <1>7 DEF ValidateData
  <2> QED
    BY <1>4, <2>1, IdleIsOK, RequestStepOnly
<1>8. CASE MayWrite(k, doc[v], a)
  <2>1. PICK c \in Compiled(k, v) :
            /\ cached' = [cached EXCEPT ![k] = c.cache]
            /\ GoesOn(r, IF Fits(k, c.doc, x)
                         THEN [stage |-> "store", row |-> Validated(k, a, x, v)]
                         ELSE IdleCall)
    BY <1>1, <1>2, <1>8 DEF ValidateData
  <2>2. /\ c.doc = doc[v] /\ c.cache \subseteq CacheEntries
        /\ IsFiniteSet(c.cache) /\ Cardinality(c.cache) <= CacheMax
        /\ \A e \in c.cache : e \in cached[k] \/ EntryOK(e)
    BY <1>3, CompiledIsOf
  <2>3. \A i \in Parts : cached'[i] = IF i = k THEN c.cache ELSE cached[i]
    BY <1>6, <2>1
  <2>4. cached' \in [Parts -> SUBSET CacheEntries]
    BY <1>6, <2>1, <2>2
  <2>5. CachesFit'
    BY <1>6, <2>2, <2>3 DEF CachesFit
  <2>6. \A i \in Parts : \A e \in cached'[i] : e \in cached[i] \/ EntryOK(e)
    BY <2>2, <2>3
  <2>7. CASE ~Fits(k, doc[v], x)
    <3>1. GoesOn(r, IdleCall)
      BY <2>1, <2>2, <2>7
    <3> QED
      BY <1>4, <1>5, <2>4, <2>5, <2>6, <3>1, IdleIsOK, RequestStep
  <2>8. CASE Fits(k, doc[v], x)
    <3>1. PICK y : y = Validated(k, a, x, v)
      OBVIOUS
    <3>2. PICK next : next = [stage |-> "store", row |-> y]
      OBVIOUS
    <3>3. y \in SchemaRows
      BY <1>3, <3>1 DEF Validated, SchemaRows
    <3>4. Satisfies(doc[v], y)
      BY <1>8, <2>8, <3>1 DEF Satisfies, Validated, MayWrite
    <3>5. RowOK(y)
      <4>1. y.version = v
        BY <3>1 DEF Validated
      <4>2. trusted => Satisfies(doc[pin], y)
        BY <1>3, <3>3, <3>4 DEF Wider
      <4> QED
        BY <1>3, <3>4, <4>1, <4>2 DEF RowOK
    <3>6. next \in CallStates
      BY <3>2, <3>3 DEF CallStates, StoringCalls
    <3>7. CallOK(next)
      BY <3>2, <3>5 DEF CallOK
    <3>8. GoesOn(r, next)
      BY <2>1, <2>2, <2>8, <3>1, <3>2
    <3> QED
      BY <1>4, <1>5, <2>4, <2>5, <2>6, <3>6, <3>7, <3>8, RequestStep
  <2> QED
    BY <2>7, <2>8
<1> QED
  BY <1>7, <1>8

LEMMA StoreRowStep ==
    ASSUME GateIInv, NEW r \in SchemaCalls, StoreRow(r) PROVE GateIInv'
<1>1. PICK c : c = scall[r]
  OBVIOUS
<1>2. PICK y : y = c.row
  OBVIOUS
<1>3. y \in SchemaRows /\ RowOK(y)
  <2>1. c.stage = "store"
    BY <1>1 DEF StoreRow, AtStage
  <2> QED
    BY <1>1, <1>2, <2>1, KnownAt DEF CallOK
<1>4. PICK old : kept' = (kept \ old) \cup {y}
  BY <1>1, <1>2 DEF StoreRow
<1>5. kept' \subseteq SchemaRows /\ \A z \in kept' : z \in kept \/ RowOK(z)
  BY <1>3, <1>4 DEF GateIInv, GateTypes
<1>6. GoesOn(r, IdleCall) /\ UNCHANGED <<doc, newest, pin, cached, trusted>>
  BY DEF StoreRow
<1>7. cached' \in [Parts -> SUBSET CacheEntries] /\ CachesFit'
  BY <1>6 DEF GateIInv, GateTypes, CachesFit
<1>8. \A k \in Parts : \A e \in cached'[k] : e \in cached[k] \/ EntryOK(e)
  BY <1>6
<1> QED
  BY <1>5, <1>6, <1>7, <1>8, IdleIsOK, RequestStep

LEMMA GateVersionStep ==
    ASSUME GateIInv, NEW r \in SchemaCalls, NEW t \in Versions, NEW compat \in Compats,
           GateVersion(r, t, compat)
    PROVE  GateIInv'
<1>1. PICK c : c = scall[r]
  OBVIOUS
<1>2. PICK v : v = c.seen
  OBVIOUS
<1>3. v \in Versions /\ v <= newest
  <2>1. c.stage = "upgrade"
    BY <1>1 DEF GateVersion, AtStage
  <2> QED
    BY <1>1, <1>2, <2>1, KnownAt DEF CallOK
<1>4. t <= newest /\ UNCHANGED <<doc, newest, pin, kept, cached, trusted>>
  BY VersionNumbers DEF GateVersion, GateIInv, GateTypes
<1>5. CASE t = v \/ (DocBreaks(doc[v], doc[t]) /\ compat = "strict")
  <2>1. GoesOn(r, IdleCall)
    BY <1>1, <1>2, <1>5 DEF GateVersion
  <2> QED
    BY <1>4, <2>1, IdleIsOK, RequestStepOnly
<1>6. CASE ~(t = v \/ (DocBreaks(doc[v], doc[t]) /\ compat = "strict"))
  <2>1. PICK next : next = [stage |-> "repin", seen |-> v, target |-> t, compat |-> compat]
    OBVIOUS
  <2>2. GoesOn(r, next)
    BY <1>1, <1>2, <1>6, <2>1 DEF GateVersion
  <2>3. next \in CallStates
    BY <1>3, <2>1 DEF CallStates, RepinCalls
  <2>4. CallOK(next)
    BY <1>3, <1>4, <1>6, <2>1 DEF CallOK
  <2> QED
    BY <1>4, <2>2, <2>3, <2>4, RequestStepOnly
<1> QED
  BY <1>5, <1>6

LEMMA GateInlineStep ==
    ASSUME GateIInv, NEW r \in SchemaCalls, NEW d \in Docs, NEW compat \in Compats,
           GateInline(r, d, compat)
    PROVE  GateIInv'
<1>1. PICK c : c = scall[r]
  OBVIOUS
<1>2. PICK v : v = c.seen
  OBVIOUS
<1>3. PICK h : h = c.head
  OBVIOUS
<1>4. v \in Versions /\ v <= newest /\ h \in Versions /\ h <= newest
  <2>1. c.stage = "upgrade"
    BY <1>1 DEF GateInline, AtStage
  <2> QED
    BY <1>1, <1>2, <1>3, <2>1, KnownAt DEF CallOK
<1>5. h < LastVersion /\ UNCHANGED <<doc, newest, pin, kept, cached, trusted>>
  BY <1>1, <1>3 DEF GateInline
<1>6. h + 1 \in Versions /\ h + 1 <= newest + 1
  BY <1>4, <1>5, VersionNumbers DEF GateIInv, GateTypes
<1>7. CASE DocBreaks(doc[v], d) /\ compat = "strict"
  <2>1. GoesOn(r, IdleCall)
    BY <1>1, <1>2, <1>7 DEF GateInline
  <2> QED
    BY <1>5, <2>1, IdleIsOK, RequestStepOnly
<1>8. CASE ~(DocBreaks(doc[v], d) /\ compat = "strict")
  <2>1. PICK next : next = [stage |-> "append", seen |-> v, target |-> h + 1,
                            given |-> d, compat |-> compat]
    OBVIOUS
  <2>2. GoesOn(r, next)
    BY <1>1, <1>2, <1>3, <1>8, <2>1 DEF GateInline
  <2>3. next \in CallStates
    BY <1>4, <1>6, <2>1 DEF CallStates, AppendCalls
  <2>4. CallOK(next)
    BY <1>4, <1>6, <1>8, <2>1 DEF CallOK
  <2> QED
    BY <1>5, <2>2, <2>3, <2>4, RequestStepOnly
<1> QED
  BY <1>7, <1>8

LEMMA PublishSchemaStep ==
    ASSUME GateIInv, NEW d \in Docs, PublishSchema(d) PROVE GateIInv'
<1>1. GateTypes
  BY DEF GateIInv
<1>2. /\ newest' = newest + 1 /\ doc' = [doc EXCEPT ![newest + 1] = d]
      /\ newest < LastVersion /\ UNCHANGED <<pin, kept, cached, scall, trusted>>
  BY DEF PublishSchema
<1>3. newest' \in Versions /\ newest <= newest' /\ pin <= newest'
  BY <1>1, <1>2, VersionNumbers DEF GateTypes
<1>4. doc' \in [Versions -> Docs]
  BY <1>1, <1>2 DEF GateTypes
<1>5. \A v \in Versions : v <= newest => doc'[v] = doc[v]
  BY <1>1, <1>2, VersionNumbers DEF GateTypes
<1>6. GateTypes'
  BY <1>1, <1>2, <1>3, <1>4 DEF GateTypes
<1>7. CachesFit'
  BY <1>2 DEF GateIInv, CachesFit
<1>8. doc'[pin'] = doc[pin]
  BY <1>1, <1>2, <1>5 DEF GateTypes
<1>9. trusted' => trusted /\ Wider(doc[pin], doc'[pin'])
  BY <1>2, <1>8 DEF Wider
<1> QED
  BY <1>2, <1>3, <1>5, <1>6, <1>7, <1>9, GateStepOf

(* The pane moves to a wider version, or is not to be trusted any more.     *)
LEMMA TrustedIsWider ==
    ASSUME GateTypes, NEW c, NEW d \in Docs, Trusted(c, d),
           c.compat = "strict" => ~DocBreaks(doc[c.seen], d)
    PROVE  trusted /\ Wider(doc[pin], d)
<1>1. /\ trusted /\ c.seen = pin /\ doc[pin] \in Docs
      /\ ~DocBlind(doc[pin], d) /\ ~DocBreaks(doc[pin], d)
  BY DEF Trusted, GateTypes
<1> QED
  BY <1>1, GateAdmitsWider

LEMMA RepinStep ==
    ASSUME GateIInv, NEW r \in SchemaCalls, Repin(r) PROVE GateIInv'
<1>1. GateTypes
  BY DEF GateIInv
<1>2. PICK c : c = scall[r]
  OBVIOUS
<1>3. /\ c.stage = "repin" /\ GoesOn(r, IdleCall) /\ pin' = c.target
      /\ trusted' = Trusted(c, doc[c.target])
      /\ UNCHANGED <<doc, newest, kept, cached>>
  BY <1>2 DEF Repin, AtStage
<1>4. /\ c.target \in Versions /\ c.target <= newest
      /\ c.compat = "strict" => ~DocBreaks(doc[c.seen], doc[c.target])
  BY <1>2, <1>3, KnownAt DEF CallOK
<1>5. /\ scall' \in [SchemaCalls -> CallStates]
      /\ \A q \in SchemaCalls : scall'[q] = IdleCall \/ scall'[q] = scall[q]
  BY <1>3, IdleIsOK, OneCallGoesOn
<1>6. doc[c.target] \in Docs
  BY <1>1, <1>4 DEF GateTypes
<1>7. trusted' \in BOOLEAN
  BY <1>1, <1>3 DEF Trusted
<1>8. GateTypes'
  BY <1>1, <1>3, <1>4, <1>5, <1>7 DEF GateTypes
<1>9. CachesFit'
  BY <1>3 DEF GateIInv, CachesFit
<1>10. trusted' => trusted /\ Wider(doc[pin], doc'[pin'])
  BY <1>1, <1>3, <1>4, <1>6, TrustedIsWider
<1>11. newest <= newest'
  BY <1>1, <1>3, VersionNumbers DEF GateTypes
<1>12. \A q \in SchemaCalls : scall'[q] = scall[q] \/ (\A i \in {scall'[q]} : CallOK(i)')
  BY <1>5 DEF IdleCall, CallOK
<1> QED
  BY <1>3, <1>8, <1>9, <1>10, <1>11, <1>12, GateStepOf

LEMMA AppendInlineStep ==
    ASSUME GateIInv, NEW r \in SchemaCalls, AppendInline(r) PROVE GateIInv'
<1>1. GateTypes
  BY DEF GateIInv
<1>2. PICK c : c = scall[r]
  OBVIOUS
<1>3. c.stage = "append" /\ GoesOn(r, IdleCall) /\ UNCHANGED <<kept, cached>>
  BY <1>2 DEF AppendInline, AtStage
<1>4. /\ c.target \in Versions /\ c.target <= newest + 1 /\ c.given \in Docs
      /\ c.compat = "strict" => ~DocBreaks(doc[c.seen], c.given)
  BY <1>2, <1>3, KnownAt DEF CallOK
<1>5. CASE ~(c.target > newest)
  <2>1. UNCHANGED <<doc, newest, pin, trusted>>
    BY <1>2, <1>5 DEF AppendInline
  <2> QED
    BY <1>3, <2>1, IdleIsOK, RequestStepOnly
<1>6. CASE c.target > newest
  <2>1. /\ newest' = c.target /\ doc' = [doc EXCEPT ![c.target] = c.given]
        /\ pin' = c.target /\ trusted' = Trusted(c, c.given)
    BY <1>2, <1>6 DEF AppendInline
  <2>2. newest' = newest + 1 /\ newest <= newest' /\ pin' <= newest'
    BY <1>1, <1>4, <1>6, <2>1, VersionNumbers DEF GateTypes
  <2>3. \A v \in Versions : v <= newest => doc'[v] = doc[v]
    BY <1>1, <1>4, <1>6, <2>1, VersionNumbers DEF GateTypes
  <2>4. doc' \in [Versions -> Docs] /\ doc'[pin'] = c.given
    BY <1>1, <1>4, <2>1 DEF GateTypes
  <2>5. /\ scall' \in [SchemaCalls -> CallStates]
        /\ \A q \in SchemaCalls : scall'[q] = IdleCall \/ scall'[q] = scall[q]
    BY <1>3, IdleIsOK, OneCallGoesOn
  <2>6. trusted' \in BOOLEAN
    BY <1>1, <2>1 DEF Trusted
  <2>7. GateTypes'
    BY <1>1, <1>3, <1>4, <2>1, <2>2, <2>4, <2>5, <2>6 DEF GateTypes
  <2>8. CachesFit'
    BY <1>3 DEF GateIInv, CachesFit
  <2>9. trusted' => trusted /\ Wider(doc[pin], doc'[pin'])
    BY <1>1, <1>4, <2>1, <2>4, TrustedIsWider
  <2>10. \A q \in SchemaCalls : scall'[q] = scall[q] \/ (\A i \in {scall'[q]} : CallOK(i)')
    BY <2>5 DEF IdleCall, CallOK
  <2> QED
    BY <1>3, <2>2, <2>3, <2>7, <2>8, <2>9, <2>10, GateStepOf
<1> QED
  BY <1>5, <1>6

(* The sweeper's invalidation, and a restart: caches and requests only      *)
(* lose.                                                                    *)
LEMMA ForgetStep ==
    ASSUME GateIInv, InvalidateSchemas \/ RelayRestarts PROVE GateIInv'
<1>1. GateTypes /\ CachesFit /\ CacheMax \in Nat
  BY SchemaAssumption DEF GateIInv
<1>2. UNCHANGED <<doc, newest, pin, kept, trusted>>
  BY DEF InvalidateSchemas, RelayRestarts
<1>3. /\ cached' \in [Parts -> SUBSET CacheEntries]
      /\ \A k \in Parts : cached'[k] = {} \/ cached'[k] = cached[k]
  BY <1>1 DEF InvalidateSchemas, RelayRestarts, GateTypes
<1>4. /\ scall' \in [SchemaCalls -> CallStates]
      /\ \A q \in SchemaCalls : scall'[q] = IdleCall \/ scall'[q] = scall[q]
  BY <1>1, IdleIsOK DEF InvalidateSchemas, RelayRestarts, GateTypes
<1>5. GateTypes'
  BY <1>1, <1>2, <1>3, <1>4 DEF GateTypes
<1>6. CachesFit'
  BY <1>1, <1>3, FS_EmptySet DEF CachesFit
<1>7. newest <= newest'
  BY <1>1, <1>2, VersionNumbers DEF GateTypes
<1>8. trusted' => trusted /\ Wider(doc[pin], doc'[pin'])
  BY <1>2 DEF Wider
<1>9. \A q \in SchemaCalls : scall'[q] = scall[q] \/ (\A i \in {scall'[q]} : CallOK(i)')
  BY <1>4 DEF IdleCall, CallOK
<1> QED
  BY <1>2, <1>3, <1>5, <1>6, <1>7, <1>8, <1>9, GateStepOf

LEMMA GateStep == GateIInv /\ [SchemaNext]_gateVars => GateIInv'
<1> SUFFICES ASSUME GateIInv, [SchemaNext]_gateVars PROVE GateIInv'
  OBVIOUS
<1>1. CASE UNCHANGED gateVars
  BY <1>1 DEF gateVars, GateIInv, GateTypes, CachesFit, RowOK, CallOK, EntryOK
<1>2. ASSUME NEW r \in SchemaCalls, NEW k \in Parts, NEW a \in Principals, NEW x \in Data,
             ValidateData(r, k, a, x)
      PROVE  GateIInv'
  BY <1>2, ValidateDataStep
<1>3. ASSUME NEW r \in SchemaCalls,
             ReadPane(r) \/ StoreRow(r) \/ ReadForUpgrade(r) \/ Repin(r) \/ AppendInline(r)
      PROVE  GateIInv'
  BY <1>3, ReadPaneStep, StoreRowStep, ReadForUpgradeStep, RepinStep, AppendInlineStep
<1>4. ASSUME NEW r \in SchemaCalls, NEW compat \in {"strict", "force"},
             \/ \E t \in Versions : GateVersion(r, t, compat)
             \/ \E d \in Docs : GateInline(r, d, compat)
      PROVE  GateIInv'
  BY <1>4, GateVersionStep, GateInlineStep DEF Compats
<1>5. ASSUME NEW d \in Docs, PublishSchema(d) PROVE GateIInv'
  BY <1>5, PublishSchemaStep
<1>6. CASE InvalidateSchemas \/ RelayRestarts
  BY <1>6, ForgetStep
<1> QED
  BY <1>1, <1>2, <1>3, <1>4, <1>5, <1>6 DEF SchemaNext

(* What a pane has stored satisfies the version it bears and, as long as    *)
(* every upgrade was strict, from the version it had compared, and within   *)
(* what the gate looks at, the version of the pane; caches stay bounded.    *)
THEOREM SchemasSound == SchemaSpec => []SchemasAreSound
<1>1. GateIInv => SchemasAreSound
  BY DEF GateIInv, RowOK, CachesFit, SchemasAreSound, StampIsTrue, StillAccepted,
         CachesBounded
<1> QED
  BY <1>1, GateInit, GateStep, PTL DEF SchemaSpec
===============================================================================
