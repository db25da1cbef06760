---------------------------- MODULE Participants ----------------------------
(***************************************************************************)
(* The human participants of one pane: the h_<n> labels that three mint    *)
(* routes allocate by counting rows, and the reserved labels of session    *)
(* participants (owner, grantee, public guest) that are minted on first    *)
(* use (packages/relay/src/http/routes/panes.ts, human-participant-mint.ts,*)
(* participants-human.ts, identity-participant.ts).                        *)
(*                                                                         *)
(* Both are check-then-act on the unique index (pane_id, identity_id).     *)
(* Rows are never deleted while the pane exists; a revoked row keeps its   *)
(* label.                                                                  *)
(***************************************************************************)
EXTENDS Naturals, Sequences, FiniteSets

CONSTANTS
    AgentMints,     \* requests to POST /participants, which heed the cap
    HumanMints,     \* identity-link, public-link and copy-link requests
    Entries,        \* requests that need the session participant
    Reserved,       \* h_owner, h_public, h_grant_<id>
    Unread,         \* "the rows have not been counted yet"
    SlotOf,         \* the reserved label each entry is for
    Created,        \* participants.humans of the pane's creation
    Cap,            \* MAX_PARTICIPANTS_PER_PANE
    MinAttempts,    \* floor of the retry budget
    HelperAttempts, \* retry budget of mintHumanParticipantWithRetry
    MaxRows         \* bound of the model: rows of the pane

ASSUME ParticipantsAssumption ==
    /\ AgentMints \cap HumanMints = {} /\ Entries \cap (AgentMints \cup HumanMints) = {}
    /\ Reserved \cap Nat = {} /\ Unread \notin Nat
    /\ SlotOf \in [Entries -> Reserved]
    /\ Created \in Nat /\ Cap \in Nat /\ MaxRows \in Nat
    /\ MinAttempts \in Nat \ {0} /\ HelperAttempts \in Nat \ {0}

Mints == AgentMints \cup HumanMints

VARIABLES
    rows,       \* the human rows in order of insertion: label and revoked
    mintPc,         \* where each request stands
    ever,       \* the row count a mint read, or Unread
    attempt     \* which attempt of its retry loop a mint is in

vars == <<rows, mintPc, ever, attempt>>

(* h_<n> is the number n, a reserved label is itself.                      *)
Label == Nat \cup Reserved
Row == [label : Label, revoked : BOOLEAN]

(* "mint": the counts are running; "capped": the active count is back and  *)
(* below the cap.                                                          *)
TypeOK ==
    /\ rows \in Seq(Row)
    /\ mintPc \in [Mints \cup Entries ->
                  {"idle", "mint", "capped", "find", "insert", "reread",
                   "full", "failed", "minted"}]
    /\ ever \in [Mints -> Nat \cup {Unread}]
    /\ attempt \in [Mints -> Nat]

Init ==
    /\ rows = [i \in 1 .. Created |-> [label |-> i - 1, revoked |-> FALSE]]
    /\ mintPc = [r \in Mints \cup Entries |-> "idle"]
    /\ ever = [m \in Mints |-> Unread]
    /\ attempt = [m \in Mints |-> 0]

-----------------------------------------------------------------------------
Active == Cardinality({i \in 1 .. Len(rows) : ~rows[i].revoked})

Taken(label) == \E i \in 1 .. Len(rows) : rows[i].label = label

InUse(label) == \E i \in 1 .. Len(rows) :
                    rows[i].label = label /\ ~rows[i].revoked

MoveMint(r, step) == mintPc' = [mintPc EXCEPT ![r] = step]

Insert(label) == rows' = Append(rows, [label |-> label, revoked |-> FALSE])

(* The budget of the retry loop: max(5, cap) on the agent route, 8 in the  *)
(* helper of the human routes.                                             *)
Budget(m) ==
    IF m \in HumanMints THEN HelperAttempts
    ELSE IF Cap > MinAttempts THEN Cap ELSE MinAttempts

(* A mint request passed the gates of its route (the pane is open).        *)
BeginMint(m) ==
    /\ mintPc[m] = "idle"
    /\ Len(rows) < MaxRows
    /\ MoveMint(m, "mint")
    /\ UNCHANGED <<rows, ever, attempt>>

(* The active count, on the agent route only; the two counts run together, *)
(* in either order.                                                        *)
CountActive(m) ==
    /\ m \in AgentMints
    /\ mintPc[m] = "mint"
    /\ MoveMint(m, IF Active >= Cap THEN "full" ELSE "capped")
    /\ UNCHANGED <<rows, ever, attempt>>

(* Seeded bug: only active rows are counted.                               *)
CountEverActive(m) ==
    /\ mintPc[m] \in {"mint", "capped"}
    /\ ever[m] = Unread
    /\ ever' = [ever EXCEPT ![m] = Active]
    /\ UNCHANGED <<rows, mintPc, attempt>>

(* Seeded bug: the newest label instead of the number of rows.             *)
CountEverNewest(m) ==
    /\ mintPc[m] \in {"mint", "capped"}
    /\ ever[m] = Unread
    /\ ever' = [ever EXCEPT ![m] = IF rows = <<>> THEN 0 ELSE rows[Len(rows)].label]
    /\ UNCHANGED <<rows, mintPc, attempt>>

(* The count of all human rows ever minted.                                *)
CountEver(m) ==
    /\ mintPc[m] \in {"mint", "capped"}
    /\ ever[m] = Unread
    /\ ever' = [ever EXCEPT ![m] = Len(rows)]
    /\ UNCHANGED <<rows, mintPc, attempt>>

(* Seeded bug: no unique index.                                            *)
InsertLabelAnyway(m) ==
    /\ mintPc[m] = IF m \in AgentMints THEN "capped" ELSE "mint"
    /\ ever[m] # Unread
    /\ ever' = [ever EXCEPT ![m] = Unread]
    /\ Insert(ever[m]) /\ MoveMint(m, "minted") /\ UNCHANGED attempt

(* The INSERT of h_<count>: it succeeds, or collides and the loop goes     *)
(* round, or out of attempts.                                              *)
InsertLabel(m) ==
    /\ mintPc[m] = IF m \in AgentMints THEN "capped" ELSE "mint"
    /\ ever[m] # Unread
    /\ ever' = [ever EXCEPT ![m] = Unread]
    /\ IF ~Taken(ever[m])
       THEN Insert(ever[m]) /\ MoveMint(m, "minted") /\ UNCHANGED attempt
       ELSE /\ UNCHANGED rows
            /\ attempt' = [attempt EXCEPT ![m] = @ + 1]
            /\ MoveMint(m, IF attempt[m] + 1 < Budget(m) THEN "mint" ELSE "failed")

(* The request is over; its slot serves another one.                       *)
Answered(m) ==
    /\ mintPc[m] \in {"minted", "full", "failed"}
    /\ MoveMint(m, "idle")
    /\ ever' = [ever EXCEPT ![m] = Unread]
    /\ attempt' = [attempt EXCEPT ![m] = 0]
    /\ UNCHANGED rows

-----------------------------------------------------------------------------
(* getOrCreateIdentityParticipant, getOrCreatePublicGuestParticipant: look *)
(* for the active row of the slot ...                                      *)
Find(e) ==
    /\ mintPc[e] = "idle"
    /\ Len(rows) < MaxRows
    /\ MoveMint(e, IF InUse(SlotOf[e]) THEN "minted" ELSE "insert")
    /\ UNCHANGED <<rows, ever, attempt>>

(* ... mint it ...                                                         *)
InsertSlot(e) ==
    /\ mintPc[e] = "insert"
    /\ IF ~Taken(SlotOf[e])
       THEN Insert(SlotOf[e]) /\ MoveMint(e, "minted")
       ELSE UNCHANGED rows /\ MoveMint(e, "reread")
    /\ UNCHANGED <<ever, attempt>>

(* ... or read the winner's, whose absence is an error.                    *)
ReReadSlot(e) ==
    /\ mintPc[e] = "reread"
    /\ MoveMint(e, IF InUse(SlotOf[e]) THEN "minted" ELSE "failed")
    /\ UNCHANGED <<rows, ever, attempt>>

Leave(e) ==
    /\ mintPc[e] \in {"minted", "failed"}
    /\ MoveMint(e, "idle")
    /\ UNCHANGED <<rows, ever, attempt>>

(* Seeded bug: the row is removed.                                         *)
RevokeRemoves(i) ==
    /\ ~rows[i].revoked
    /\ rows' = SubSeq(rows, 1, i - 1) \o SubSeq(rows, i + 1, Len(rows))
    /\ UNCHANGED <<mintPc, ever, attempt>>

(* DELETE /participants/:participant_id takes any human row, those of      *)
(* session participants included.                                          *)
Revoke(i) ==
    /\ ~rows[i].revoked
    /\ rows' = [rows EXCEPT ![i].revoked = TRUE]
    /\ UNCHANGED <<mintPc, ever, attempt>>

MintStep(m) ==
    \/ BeginMint(m) \/ CountActive(m) \/ CountEver(m) \/ InsertLabel(m)
    \/ Answered(m)

EntryStep(e) == Find(e) \/ InsertSlot(e) \/ ReReadSlot(e) \/ Leave(e)

Next ==
    \/ \E m \in Mints : MintStep(m)
    \/ \E e \in Entries : EntryStep(e)
    \/ \E i \in 1 .. Len(rows) : Revoke(i)

Spec == Init /\ [][Next]_vars

-----------------------------------------------------------------------------
(* Every number in use is below the number of rows, although reserved      *)
(* labels take part in the count and revoked rows keep their number: the   *)
(* next mint's first choice is free unless somebody is faster.             *)
LabelsBelowCount ==
    \A i \in 1 .. Len(rows) : rows[i].label \in Nat => rows[i].label < Len(rows)

(* No two rows of the pane share a label, not even with a revoked one.     *)
LabelsUnique ==
    \A i, j \in 1 .. Len(rows) : rows[i].label = rows[j].label => i = j

(* The label a mint computes is free when it has counted, whatever was     *)
(* revoked before and whoever else mints: it can only be lost to a row     *)
(* inserted after the count, so a retry never meets a label stuck for good.*)
FirstChoiceIsFree ==
    [][\A m \in Mints :
           ever[m] = Unread /\ ever'[m] # Unread => ~Taken(ever'[m])]_vars

(* The cap.                                                                *)
CapHolds == Active <= Cap

(* The list of all human participants, which is not paginated, is as long  *)
(* as the cap at most.                                                     *)
ListIsBounded == Len(rows) <= Cap

(* A mint is admitted or told that the cap is reached: some mint wins      *)
(* every round, so nobody runs out of attempts.                            *)
MintsAreDecided == \A m \in Mints : mintPc[m] # "failed"

(* Who needs the session participant of a slot gets it: whoever loses the  *)
(* INSERT reads the winner's row.                                          *)
EntriesSucceed == \A e \in Entries : mintPc[e] # "failed"

(* Labels are unique because their count is never below a number in use.   *)
LabelsSound == TypeOK /\ LabelsUnique /\ LabelsBelowCount
=============================================================================
