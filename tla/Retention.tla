----------------------------- MODULE Retention -----------------------------
(* The hard-delete pass over all tables                                    *)
(* (packages/relay/src/hard-delete-sweeper.ts, with the foreign keys of    *)
(* prisma/schema.prisma and the trash routes of templates).                *)
(*                                                                         *)
(* One pass runs five phases in a fixed order; each reads candidates,      *)
(* writes audit rows and deletes by id. A row that others still reference  *)
(* (Restricts) makes the DELETE, and with it the rest of the pass, fail.   *)
(* Rows are created, trashed and restored at any moment in between.        *)
(***************************************************************************)
EXTENDS Naturals, FiniteSets, Sequences

CONSTANTS
    Item,          \* rows of all kinds, each created at most once
    KindOf,        \* [Item -> {"pane", "attachment", "template", "agent", "human"}]
    Restricts,     \* pairs <<child, parent>> of required references
    Cascade,       \* pairs <<child, parent>> deleted together
    Exempt,        \* rows whose owner's tier never expires
    RowBatch,      \* HARD_DELETE_BATCH
    MaxStops       \* bound of the model: restarts in the middle of a pass

Kinds == {"pane", "attachment", "template", "agent", "human"}

ASSUME RetentionAssumption ==
    /\ KindOf \in [Item -> Kinds]
    /\ Restricts \subseteq Item \X Item /\ Cascade \subseteq Item \X Item
    /\ Exempt \subseteq Item
    /\ RowBatch \in Nat \ {0} /\ MaxStops \in Nat

VARIABLES
    state,        \* of each row; "due" is trashed and past its retention
    phase,        \* index of the running phase, 0 between passes
    sweepStep,    \* the next statement of that phase
    batch,        \* ids of the running phase
    audit,        \* rows with a hard_deleted entry in deletion_log
    stops         \* restarts so far

retentionVars == <<state, phase, sweepStep, batch, audit, stops>>

RetentionTypeOK ==
    /\ state \in [Item -> {"absent", "live", "trashed", "due", "gone"}]
    /\ phase \in 0 .. 5
    /\ sweepStep \in {"read", "audit", "delete"}
    /\ batch \subseteq Item
    /\ audit \subseteq Item
    /\ stops \in 0 .. MaxStops

RetentionInit ==
    /\ state = [x \in Item |-> "absent"]
    /\ phase = 0 /\ sweepStep = "read" /\ batch = {}
    /\ audit = {} /\ stops = 0

-----------------------------------------------------------------------------
Present(x) == state[x] \in {"live", "trashed", "due"}
Children(x) == {y \in Item : <<y, x>> \in Restricts /\ Present(y)}
OfKind(kind) == {x \in Item : KindOf[x] = kind}
Set(x, value) == state' = [state EXCEPT ![x] = value]

(* The trail of one row, for the routes that write it with the change.     *)
Gone(ids) ==
    LET all == ids \cup {y \in Item : Present(y) /\ \E x \in ids : <<y, x>> \in Cascade}
    IN state' = [x \in Item |-> IF x \in all THEN "gone" ELSE state[x]]

(* Item creation: what is referenced exists; authentication does not look   *)
(* at an agent's deletedAt, but creation refuses a trashed template.       *)
CreateRow(x) ==
    /\ state[x] = "absent"
    /\ \A y \in Item : <<x, y>> \in Restricts \cup Cascade =>
           IF KindOf[y] = "template" THEN state[y] = "live" ELSE Present(y)
    /\ Set(x, "live")
    /\ UNCHANGED <<phase, sweepStep, batch, audit, stops>>

(* Soft deletion. Templates have their route; nothing sets deletedAt of an *)
(* agent or a human yet, an operator does.                                 *)
TrashRow(x) ==
    /\ state[x] = "live" /\ Set(x, "trashed")
    /\ UNCHANGED <<phase, sweepStep, batch, audit, stops>>

RestoreRow(x) ==
    /\ state[x] \in {"trashed", "due"} /\ KindOf[x] \in {"pane", "template"}
    /\ Set(x, "live")
    /\ UNCHANGED <<phase, sweepStep, batch, audit, stops>>

(* DELETE /v1/trash/templates/:id counts live references only; a trashed   *)
(* one makes the DELETE fail, and the log row is rolled back with it.      *)
PurgeTemplate(x) ==
    /\ state[x] \in {"trashed", "due"} /\ KindOf[x] = "template"
    /\ Children(x) = {}
    /\ Gone({x})
    /\ audit' = audit \cup {x}
    /\ UNCHANGED <<phase, sweepStep, batch, stops>>

(* isPastRetention becomes true.                                           *)
BecomeDue(x) ==
    /\ state[x] = "trashed" /\ x \notin Exempt
    /\ Set(x, "due")
    /\ UNCHANGED <<phase, sweepStep, batch, audit, stops>>

-----------------------------------------------------------------------------
(* Seeded bug: templates before the panes that use them.                   *)
OrderParentsFirst == <<"template", "pane", "attachment", "agent", "human">>
Order == <<"pane", "attachment", "template", "agent", "human">>

Running(kind) == phase # 0 /\ Order[phase] = kind
(* Seeded bug: the last phase does not end the pass.                       *)
NextPhaseNoEnd == phase' = phase + 1 /\ sweepStep' = "read" /\ batch' = {}
NextPhase == phase' = (phase + 1) % 6 /\ sweepStep' = "read" /\ batch' = {}

StartPass ==
    /\ phase = 0 /\ NextPhase
    /\ UNCHANGED <<state, audit, stops>>

(* Seeded bug: the guard of sweepAgents is missing.                        *)
CandidatesUnguarded(kind) == {x \in OfKind(kind) : state[x] \in {"trashed", "due"}}

(* Trashed rows; agents only when nothing restricts them.                  *)
Candidates(kind) ==
    {x \in OfKind(kind) : /\ state[x] \in {"trashed", "due"}
                          /\ kind = "agent" => Children(x) = {}}

Batches(n, S) == IF Cardinality(S) <= n THEN {S} ELSE {T \in SUBSET S : Cardinality(T) = n}

ReadPhase(kind) ==
    /\ Running(kind) /\ sweepStep = "read"
    /\ \E seen \in Batches(2 * RowBatch, Candidates(kind)) :
           \E ids \in Batches(RowBatch, {x \in seen : state[x] = "due"}) :
               IF ids = {}
               THEN NextPhase
               ELSE batch' = ids /\ sweepStep' = "audit" /\ UNCHANGED phase
    /\ UNCHANGED <<state, audit, stops>>

(* Seeded bug: the audit row follows the DELETE.                           *)
AuditPhaseLater(kind) ==
    /\ Running(kind) /\ sweepStep = "audit" /\ sweepStep' = "delete"
    /\ UNCHANGED <<state, phase, batch, audit, stops>>

AuditPhase(kind) ==
    /\ Running(kind) /\ sweepStep = "audit" /\ sweepStep' = "delete"
    /\ audit' = audit \cup batch
    /\ UNCHANGED <<state, phase, batch, stops>>

(* deleteMany fails as a whole on P2003; the error ends the pass.          *)
DeletePhase(kind) ==
    /\ Running(kind) /\ sweepStep = "delete"
    /\ IF \E x \in batch : Children(x) # {}
       THEN phase' = 0 /\ sweepStep' = "read" /\ batch' = {} /\ UNCHANGED state
       ELSE Gone(batch) /\ NextPhase
    /\ UNCHANGED <<audit, stops>>

Sweep(kind) == ReadPhase(kind) \/ AuditPhase(kind) \/ DeletePhase(kind)
SweepPanes == Sweep("pane")
SweepAttachments == Sweep("attachment")
SweepTemplates == Sweep("template")
SweepAgents == Sweep("agent")
SweepHumans == Sweep("human")

Pass == StartPass \/ SweepPanes \/ SweepAttachments \/ SweepTemplates
            \/ SweepAgents \/ SweepHumans

(* The process stops in the middle of a pass.                              *)
StopPass ==
    /\ phase # 0 /\ stops < MaxStops
    /\ phase' = 0 /\ sweepStep' = "read" /\ batch' = {}
    /\ stops' = stops + 1
    /\ UNCHANGED <<state, audit>>

RowStep(x) == CreateRow(x) \/ TrashRow(x) \/ RestoreRow(x) \/ PurgeTemplate(x) \/ BecomeDue(x)

RetentionNext == (\E x \in Item : RowStep(x)) \/ Pass \/ StopPass

RetentionSpec == RetentionInit /\ [][RetentionNext]_retentionVars

(* The timer starts pass after pass, also after a pass that failed.        *)
RetentionFair == WF_retentionVars(Pass)

-----------------------------------------------------------------------------
(* A row that was there and is gone has its audit row, however the pass is *)
(* cut short and whatever the foreign keys refuse; only attachments that   *)
(* go with their pane are deleted without one.                             *)
PurgeIsAudited ==
    \A x \in Item : state[x] = "gone" /\ (\A y \in Item : <<x, y>> \notin Cascade)
                       => x \in audit

(* A due template that is still referenced by a row that is not due.       *)
Blocked ==
    \E x \in OfKind("template") :
        state[x] = "due" /\ \E y \in Children(x) : state[y] # "due"

(* A row that is due and below which everything is due.                    *)
DueWithChildren(x) ==
    /\ state[x] = "due"
    /\ \A y \in Children(x) : state[y] = "due" /\ \A z \in Children(y) : state[z] = "due"

(* Pass after pass, an account whose rows are all due is reclaimed from    *)
(* the leaves to the root: the order of the phases and the deferral of     *)
(* agents make every DELETE succeed. The one thing that stops it is a due  *)
(* template in use, at which every pass aborts.                            *)
DueIsReclaimed == \A x \in Item : []<>(Blocked \/ ~DueWithChildren(x))

(* Does not hold: such a template keeps unrelated agents from ever being   *)
(* reclaimed.                                                              *)
DueIsReclaimedAlways == \A x \in Item : []<>~DueWithChildren(x)

(* The trail of the sweep, and its progress.                               *)
RetentionInv == RetentionTypeOK /\ PurgeIsAudited
=============================================================================
