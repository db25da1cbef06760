----------------------------- MODULE Attachments -----------------------------
(***************************************************************************)
(* The attachments of one agent: metadata rows in the database and bytes   *)
(* in the AttachmentStore, which no transaction ties together              *)
(* (packages/relay/src/attachments/upload-pipeline.ts,                     *)
(* http/routes/attachments.ts, bridge/attachment-upload-bridge.ts, the     *)
(* attachment part of hard-delete-sweeper.ts).                             *)
(*                                                                         *)
(* A request slot runs one handler at a time: a multipart upload, a        *)
(* presign, a confirm, a delete, a download.  Each await on the database   *)
(* or the store is a step; a request may be abandoned at each of them, by  *)
(* an error nothing handles or by the death of the process.                *)
(***************************************************************************)
EXTENDS Integers, FiniteSets, FiniteSetsExt

CONSTANTS
    Requests,       \* request slots
    MaxBlobs,       \* bound of the model: attachment rows ever created
    Scopes,         \* the scopes in use, of "agent" and "pane"
    Sizes,          \* sizes of uploads, each at most MAX_BLOB_BYTES
    AgentCap,       \* MAX_BLOBS_PER_AGENT_BYTES
    PaneCap,        \* MAX_BLOBS_PER_PANE_BYTES
    PutBytes,       \* what clients PUT: "good" bytes, or not the committed ones
    Evict,          \* BLOB_LRU_EVICTION
    Kinds,          \* how clients upload: "upload", or "presign" (Azure)
    ScanHook,       \* BLOB_SCAN_HOOK is set
    StoreFails      \* store.delete may fail (the code goes on)

ASSUME AttachmentsAssumption ==
    /\ MaxBlobs \in Nat /\ AgentCap \in Nat /\ PaneCap \in Nat
    /\ Scopes \subseteq {"agent", "pane"}
    /\ Sizes \subseteq Nat \ {0}
    /\ Kinds \subseteq {"upload", "presign"} /\ PutBytes \subseteq {"good", "bad"}
    /\ {Evict, ScanHook, StoreFails} \subseteq BOOLEAN

VARIABLES
    row,        \* the attachments table, in the order of createdAt
    stored,     \* what the store holds for each attachment
    paneGone,   \* the pane of the pane-scope attachments was hard-deleted
    at, job,    \* each request: where it stands, and its locals
    sweeping,   \* rows the sweeper deleted, whose bytes it has yet to delete
    checked,    \* ghost: attachments whose bytes a confirm found to be good
    told,       \* ghost: what callers know of each attachment: that it is
                \* created, then that its deletion was asked for, or answered
    overdrawn   \* ghost: bytes of evicted rows, taken off sums that did not
                \* hold them

attachmentVars ==
    <<row, stored, paneGone, at, job, sweeping, checked, told, overdrawn>>

Blobs == 1 .. MaxBlobs
Steps == {"idle", "create", "key", "put", "quota", "list", "evict", "evicted",
          "scope", "scan", "commit", "unput", "fail", "unlink", "mark",
          "fetch", "head", "stamp"}
AttachmentRow == [status : {"none", "pending", "ready", "failed", "deleted", "purged"},
        size : Sizes \cup {0}, scope : {"agent", "pane"},
        keyed : BOOLEAN, deletedAt : BOOLEAN, url : BOOLEAN]
NoRow == [status |-> "none", size |-> 0, scope |-> "agent",
          keyed |-> FALSE, deletedAt |-> FALSE, url |-> FALSE]
Job == [kind : {"upload", "presign", "other"}, size : Sizes \cup {0},
        scope : {"agent", "pane"}, blob : Blobs \cup {0}, keyed : BOOLEAN,
        total : Int, victims : SUBSET (Blobs \X BOOLEAN),
        summed : SUBSET Blobs]    \* ghost: the rows in total
NoJob == [kind |-> "other", size |-> 0, scope |-> "agent", blob |-> 0,
          keyed |-> FALSE, total |-> 0, victims |-> {}, summed |-> {}]

AttachmentsTypeOK ==
    /\ row \in [Blobs -> AttachmentRow]
    /\ stored \in [Blobs -> {"none", "good", "bad"}]
    /\ paneGone \in BOOLEAN
    /\ at \in [Requests -> Steps]
    /\ job \in [Requests -> Job]
    /\ sweeping \subseteq Blobs /\ checked \subseteq Blobs
    /\ told \in [Blobs -> {"nothing", "created", "asked", "removed"}]
    /\ overdrawn \in Nat

AttachmentsInit ==
    /\ row = [b \in Blobs |-> NoRow]
    /\ stored = [b \in Blobs |-> "none"]
    /\ paneGone = FALSE
    /\ at = [r \in Requests |-> "idle"]
    /\ job = [r \in Requests |-> NoJob]
    /\ sweeping = {} /\ checked = {}
    /\ told = [b \in Blobs |-> "nothing"]
    /\ overdrawn = 0

-----------------------------------------------------------------------------
Exists(b) == row[b].status \notin {"none", "purged"}

Counted(b) == row[b].status \in {"pending", "ready"}

(* Sum of the sizes of some rows.                                          *)
SumOf(table, S) == MapThenSumSet(LAMBDA b : table[b].size, S)
Bytes(S) == SumOf(row, S)

GoOn(r, step) == at' = [at EXCEPT ![r] = step]

(* The handler returns or throws.                                          *)
Done(r) == GoOn(r, "idle") /\ job' = [job EXCEPT ![r] = NoJob]

(* Seeded bug: a status no reader of the column knows.                     *)
SetStatusMisspelt(b, status) ==
    row' = IF Exists(b) /\ status = "ready"
           THEN [row EXCEPT ![b].status = "confirmed"]
           ELSE IF Exists(b) THEN [row EXCEPT ![b].status = status] ELSE row

(* An UPDATE by id; a row that is gone makes it throw.                     *)
SetStatus(b, status) ==
    row' = IF Exists(b) THEN [row EXCEPT ![b].status = status] ELSE row

(* store.delete: errors are swallowed, an empty key names nothing.         *)
Unstore(b, keyed) ==
    \/ keyed /\ stored' = [stored EXCEPT ![b] = "none"]
    \/ (StoreFails \/ ~keyed) /\ UNCHANGED stored

(* Where an upload or a presign goes when the quotas refuse it, and when   *)
(* they pass.                                                              *)
RefuseRequest(r) ==
    IF job[r].kind = "upload"
    THEN GoOn(r, "unput") /\ UNCHANGED job
    ELSE Done(r)

ProceedUpload(r) ==
    /\ GoOn(r, IF job[r].kind = "presign" THEN "create"
               ELSE IF ScanHook THEN "scan" ELSE "commit")
    /\ UNCHANGED job

-----------------------------------------------------------------------------
(* POST /v1/attachments, POST /s/:token/attachments or, with a backend     *)
(* that can, POST /v1/attachments/presign: the gates passed.               *)
Begin(r, kind, size, scope) ==
    /\ at[r] = "idle"
    /\ scope = "pane" => ~paneGone
    /\ \E b \in Blobs : row[b].status = "none"
    /\ job' = [job EXCEPT ![r] = [NoJob EXCEPT !.kind = kind, !.size = size,
                                               !.scope = scope]]
    /\ GoOn(r, IF kind = "upload" THEN "create" ELSE "quota")
    /\ UNCHANGED <<row, stored, paneGone, overdrawn, sweeping, told, checked>>

(* The row is created pending, its storage key a placeholder.  The key     *)
(* column is unique, so a second placeholder is refused, as is a pane that *)
(* went meanwhile.                                                         *)
Create(r) ==
    /\ at[r] = "create"
    /\ LET free == {b \in Blobs : row[b].status = "none"}
           taken == \E b \in Blobs : Exists(b) /\ ~row[b].keyed
           b == Min(free)
       IN  IF free = {} \/ taken \/ (job[r].scope = "pane" /\ paneGone)
           THEN Done(r) /\ UNCHANGED row
           ELSE /\ row' = [row EXCEPT ![b] = [NoRow EXCEPT
                              !.status = "pending", !.size = job[r].size,
                              !.scope = job[r].scope]]
                /\ job' = [job EXCEPT ![r].blob = b]
                /\ GoOn(r, "key")
    /\ UNCHANGED <<stored, paneGone, overdrawn, sweeping, told, checked>>

(* The storage key is derived from the id.  A presign is answered here,    *)
(* with the URL.                                                           *)
SetKey(r) ==
    /\ at[r] = "key"
    /\ LET b == job[r].blob
       IN  IF ~Exists(b) THEN Done(r) /\ UNCHANGED row
           ELSE /\ row' = [row EXCEPT ![b].keyed = TRUE,
                                      ![b].url = job[r].kind = "presign"]
                /\ IF job[r].kind = "upload"
                   THEN GoOn(r, "put") /\ UNCHANGED job ELSE Done(r)
    /\ UNCHANGED <<stored, paneGone, overdrawn, sweeping, told, checked>>

(* store.put, then the cross-check of hash and size.                       *)
Put(r) ==
    /\ at[r] = "put"
    /\ \/ /\ stored' = [stored EXCEPT ![job[r].blob] = "good"]
          /\ GoOn(r, "quota")
       \/ GoOn(r, "fail") /\ UNCHANGED stored
    /\ UNCHANGED <<row, paneGone, overdrawn, job, sweeping, told, checked>>

-----------------------------------------------------------------------------
(* Seeded bug: uploads in flight are not counted.                          *)
AgentTotalReadyOnly == Bytes({b \in Blobs : row[b].status = "ready"})

(* enforceQuotas.  The agent's bytes are summed over pending and ready     *)
(* rows, the upload's own row among them, and the size is added to them.   *)
InTotal == {b \in Blobs : Counted(b)}
AgentTotal == Bytes(InTotal)

FitsAgent(r, total) == total + job[r].size <= AgentCap

CheckAgent(r) ==
    /\ at[r] = "quota"
    /\ IF FitsAgent(r, AgentTotal) THEN GoOn(r, "scope") /\ UNCHANGED job
       ELSE IF ~Evict THEN RefuseRequest(r)
       ELSE /\ GoOn(r, "list")
            /\ job' = [job EXCEPT ![r].total = AgentTotal, ![r].summed = InTotal]
    /\ UNCHANGED <<row, stored, paneGone, overdrawn, sweeping, told, checked>>

(* The eviction candidates: every pending or ready agent-scope row.        *)
ListVictims(r) ==
    /\ at[r] = "list"
    /\ job' = [job EXCEPT ![r].victims =
                  {<<b, row[b].keyed>> : b \in
                      {c \in Blobs : Counted(c) /\ row[c].scope = "agent"}}]
    /\ GoOn(r, "evict")
    /\ UNCHANGED <<row, stored, paneGone, overdrawn, sweeping, told, checked>>

OldestVictim(victims) ==
    CHOOSE v \in victims : \A w \in victims : v[1] <= w[1]

(* The eviction loop, oldest first: the bytes of the next victim go (a     *)
(* presign passes no store) ...                                            *)
EvictNext(r) ==
    /\ at[r] = "evict"
    /\ IF FitsAgent(r, job[r].total)
       THEN GoOn(r, "scope") /\ UNCHANGED <<job, stored>>
       ELSE IF job[r].victims = {}
       THEN RefuseRequest(r) /\ UNCHANGED stored
       ELSE /\ GoOn(r, "evicted") /\ UNCHANGED job
            /\ IF job[r].kind = "upload"
               THEN LET v == OldestVictim(job[r].victims) IN Unstore(v[1], v[2])
               ELSE UNCHANGED stored
    /\ UNCHANGED <<row, paneGone, overdrawn, sweeping, told, checked>>

(* Seeded bug: the loop takes the size off but leaves the row ready.       *)
MarkEvictedOnlyBytes(r) ==
    /\ at[r] = "evicted"
    /\ LET oldest == OldestVictim(job[r].victims)
       IN  job' = [job EXCEPT ![r].victims = @ \ {oldest},
                              ![r].total = @ - row[oldest[1]].size,
                              ![r].summed = @ \ {oldest[1]}]
    /\ GoOn(r, "evict")
    /\ UNCHANGED <<row, stored, paneGone, overdrawn, sweeping, told, checked>>

(* ... then its row is marked deleted and its size taken off the total,    *)
(* which was summed before the candidates were listed.                     *)
MarkEvicted(r) ==
    /\ at[r] = "evicted"
    /\ LET oldest == OldestVictim(job[r].victims)
           v == oldest[1]
       IN  IF ~Exists(v) THEN Done(r) /\ UNCHANGED <<row, overdrawn>>
           ELSE /\ row' = [row EXCEPT ![v].status = "deleted",
                                      ![v].deletedAt = TRUE]
                /\ job' = [job EXCEPT
                      ![r].victims = @ \ {oldest},
                      ![r].total = @ - row[v].size,
                      ![r].summed = @ \ {v}]
                /\ overdrawn' = overdrawn + IF v \in job[r].summed THEN 0 ELSE row[v].size
                /\ GoOn(r, "evict")
    /\ UNCHANGED <<stored, paneGone, sweeping, told, checked>>

(* The cap of the pane.                                                    *)
CheckScope(r) ==
    LET pane == {b \in Blobs : Counted(b) /\ row[b].scope = "pane"}
    IN  /\ at[r] = "scope"
        /\ IF job[r].scope = "pane" /\ Bytes(pane) + job[r].size > PaneCap
           THEN RefuseRequest(r) ELSE ProceedUpload(r)
        /\ UNCHANGED <<row, stored, paneGone, overdrawn, sweeping, told, checked>>

(* The scanner's verdict; whatever goes wrong counts as infected.          *)
Scan(r) ==
    /\ at[r] = "scan"
    /\ GoOn(r, "commit") \/ GoOn(r, "unput")
    /\ UNCHANGED <<row, stored, paneGone, overdrawn, job, sweeping, told, checked>>

(* A refused upload, or wrong bytes: they go, then the row is failed.      *)
Unput(r) ==
    /\ at[r] = "unput"
    /\ Unstore(job[r].blob, TRUE)
    /\ GoOn(r, "fail")
    /\ UNCHANGED <<row, paneGone, overdrawn, job, sweeping, told, checked>>

FailUpload(r) ==
    /\ at[r] = "fail"
    /\ SetStatus(job[r].blob, "failed")
    /\ Done(r)
    /\ UNCHANGED <<stored, paneGone, overdrawn, sweeping, told, checked>>

TellCreated(b) ==
    told' = IF told[b] = "nothing" THEN [told EXCEPT ![b] = "created"] ELSE told

(* The row is ready, whatever became of it meanwhile, and the caller is    *)
(* answered (201 for an upload, 200 for a confirm).                        *)
Commit(r) ==
    /\ at[r] = "commit"
    /\ SetStatus(job[r].blob, "ready")
    /\ IF Exists(job[r].blob) THEN TellCreated(job[r].blob) ELSE UNCHANGED told
    /\ Done(r)
    /\ UNCHANGED <<stored, paneGone, overdrawn, sweeping, checked>>

UploadStep(r) ==
    \/ Create(r) \/ SetKey(r) \/ Put(r)
    \/ CheckAgent(r) \/ ListVictims(r) \/ EvictNext(r) \/ MarkEvicted(r)
    \/ CheckScope(r) \/ Scan(r) \/ Unput(r) \/ FailUpload(r) \/ Commit(r)

-----------------------------------------------------------------------------
(* The client PUTs to the presigned URL it holds (external).  The URL may  *)
(* create and write, so it is good for any number of PUTs ...              *)
ClientPut(b) ==
    /\ row[b].url
    /\ \E bytes \in PutBytes : stored' = [stored EXCEPT ![b] = bytes]
    /\ UNCHANGED <<row, paneGone, overdrawn, at, job, sweeping, told, checked>>

(* ... until it expires.                                                   *)
UrlExpires(b) ==
    /\ row[b].url
    /\ row' = [row EXCEPT ![b].url = FALSE]
    /\ UNCHANGED <<stored, paneGone, overdrawn, at, job, sweeping, told, checked>>

(* A handler that works on an existing row starts: it reads the row.       *)
OpenConfirm(r, b, step) ==
    /\ job' = [job EXCEPT ![r] = [NoJob EXCEPT !.blob = b, !.keyed = row[b].keyed]]
    /\ GoOn(r, step)

(* POST /v1/attachments/:id/confirm: only a pending row goes further; a    *)
(* ready one is answered as it is.                                         *)
Confirm(r, b) ==
    /\ at[r] = "idle" /\ "presign" \in Kinds
    /\ \/ row[b].status = "pending" /\ OpenConfirm(r, b, "head") /\ UNCHANGED told
       \/ row[b].status = "ready" /\ TellCreated(b) /\ UNCHANGED <<at, job>>
    /\ UNCHANGED <<row, stored, paneGone, overdrawn, sweeping, checked>>

(* Seeded bug: the confirm trusts whatever bytes it finds.                 *)
HeadAcceptsAny(r) ==
    LET b == job[r].blob
    IN  /\ at[r] = "head"
        /\ IF job[r].keyed /\ stored[b] # "none" THEN GoOn(r, "stamp") ELSE GoOn(r, "fail")
        /\ checked' = IF stored[b] = "good" THEN checked \cup {b} ELSE checked
        /\ UNCHANGED <<row, stored, paneGone, overdrawn, job, sweeping, told>>

(* confirmPresigned reads the bytes: wrong ones are deleted next; missing  *)
(* ones and a storage error fail the row.  Right ones are stamped ...      *)
HeadBlob(r) ==
    LET b == job[r].blob
    IN  /\ at[r] = "head"
        /\ \/ /\ job[r].keyed /\ stored[b] = "good"
              /\ GoOn(r, "stamp") /\ checked' = checked \cup {b}
           \/ /\ job[r].keyed /\ stored[b] = "bad"
              /\ GoOn(r, "unput") /\ UNCHANGED checked
           \/ GoOn(r, "fail") /\ UNCHANGED checked
        /\ UNCHANGED <<row, stored, paneGone, overdrawn, job, sweeping, told>>

(* ... with their hash, if they, or others since, are still there.         *)
Stamp(r) ==
    /\ at[r] = "stamp"
    /\ \/ stored[job[r].blob] # "none" /\ GoOn(r, "commit")
       \/ GoOn(r, "fail")
    /\ UNCHANGED <<row, stored, paneGone, overdrawn, job, sweeping, told, checked>>

(* DELETE /v1/attachments/:id, of a row in any status; the list shows      *)
(* pending rows too.  An already deleted one is answered as it is.         *)
Delete(r, b) ==
    /\ at[r] = "idle" /\ Exists(b)
    /\ IF row[b].status = "deleted"
       THEN told' = [told EXCEPT ![b] = "removed"] /\ UNCHANGED <<at, job>>
       ELSE /\ told' = [told EXCEPT ![b] = IF @ = "removed" THEN @ ELSE "asked"]
            /\ OpenConfirm(r, b, "unlink")
    /\ UNCHANGED <<row, stored, paneGone, overdrawn, sweeping, checked>>

Unlink(r) ==
    /\ at[r] = "unlink"
    /\ Unstore(job[r].blob, job[r].keyed)
    /\ GoOn(r, "mark")
    /\ UNCHANGED <<row, paneGone, overdrawn, job, sweeping, told, checked>>

MarkDeleted(r) ==
    LET b == job[r].blob
    IN  /\ at[r] = "mark"
        /\ IF Exists(b)
           THEN /\ row' = [row EXCEPT ![b].status = "deleted",
                                      ![b].deletedAt = TRUE]
                /\ told' = [told EXCEPT ![b] = "removed"]
           ELSE UNCHANGED <<row, told>>
        /\ Done(r)
        /\ UNCHANGED <<stored, paneGone, overdrawn, sweeping, checked>>

(* GET /v1/attachments/:id, and /b/:token, which looks at deletedAt too:   *)
(* a ready row whose bytes are gone is failed.                             *)
Get(r, b) ==
    /\ at[r] = "idle"
    /\ row[b].status = "ready"
    /\ OpenConfirm(r, b, "fetch")
    /\ UNCHANGED <<row, stored, paneGone, overdrawn, sweeping, told, checked>>

Fetch(r) ==
    /\ at[r] = "fetch"
    /\ IF stored[job[r].blob] = "none" THEN GoOn(r, "fail") /\ UNCHANGED job
       ELSE Done(r)
    /\ UNCHANGED <<row, stored, paneGone, overdrawn, sweeping, told, checked>>

(* The hard-delete sweeper: a row past its retention goes, then its bytes, *)
(* unless the sweeper dies in between.                                     *)
SweepRow(b) ==
    /\ Exists(b) /\ row[b].deletedAt
    /\ row' = [row EXCEPT ![b].status = "purged"]
    /\ sweeping' = sweeping \cup {b}
    /\ UNCHANGED <<stored, paneGone, overdrawn, at, job, told, checked>>

SweepBytes(b) ==
    /\ b \in sweeping
    /\ sweeping' = sweeping \ {b}
    /\ Unstore(b, row[b].keyed)
    /\ UNCHANGED <<row, paneGone, overdrawn, at, job, told, checked>>

(* The pane is hard-deleted; the foreign key takes its attachment rows.    *)
PurgePane ==
    /\ ~paneGone /\ "pane" \in Scopes
    /\ paneGone' = TRUE
    /\ row' = [b \in Blobs |->
                  IF Exists(b) /\ row[b].scope = "pane"
                  THEN [row[b] EXCEPT !.status = "purged"] ELSE row[b]]
    /\ UNCHANGED <<stored, at, job, sweeping, told, overdrawn, checked>>

(* A database error nothing catches, or the death of the process.          *)
AbortRequest(r) ==
    /\ at[r] # "idle"
    /\ Done(r)
    /\ UNCHANGED <<row, stored, paneGone, overdrawn, sweeping, told, checked>>

SweeperDies ==
    /\ sweeping # {}
    /\ sweeping' = {}
    /\ UNCHANGED <<row, stored, paneGone, overdrawn, at, job, told, checked>>

RequestStep(r) ==
    \/ UploadStep(r) \/ HeadBlob(r) \/ Stamp(r) \/ Unlink(r) \/ MarkDeleted(r) \/ Fetch(r)

AttachmentsNext ==
    \/ \E r \in Requests :
          \/ \E kind \in Kinds, size \in Sizes, scope \in Scopes :
                Begin(r, kind, size, scope)
          \/ \E b \in Blobs : Confirm(r, b) \/ Delete(r, b) \/ Get(r, b)
          \/ RequestStep(r)
          \/ AbortRequest(r)
    \/ \E b \in Blobs : ClientPut(b) \/ UrlExpires(b) \/ SweepRow(b) \/ SweepBytes(b)
    \/ PurgePane
    \/ SweeperDies

AttachmentsSpec == AttachmentsInit /\ [][AttachmentsNext]_attachmentVars

-----------------------------------------------------------------------------
Ready(b) == row[b].status = "ready"

(* Where every upload goes through the relay, the quotas hold for what the *)
(* listing calls ready, although the sum and the commit are separate steps:*)
(* every upload that could have been missed was counted as pending by      *)
(* whoever checked last. The agent's is exceeded at most by the evicted    *)
(* rows that were taken off a sum they were not in.                        *)
KeptBlobs == {b \in Blobs : Ready(b) /\ ~row[b].deletedAt}

ReadyWithinCaps ==
    /\ Bytes(KeptBlobs) <= AgentCap + overdrawn
    /\ Bytes({b \in KeptBlobs : row[b].scope = "pane"}) <= PaneCap

(* Does not hold: a row that is created between the sum and the list of    *)
(* candidates is evicted and taken off a sum it was not in.                *)
AgentWithinCap == Bytes(KeptBlobs) <= AgentCap

(* Without eviction nothing is taken off a sum.                            *)
NothingOverdrawn == ~Evict => overdrawn = 0

(* A row becomes ready on the committed bytes only, although the client    *)
(* writes them to the store behind the relay's back: a ready row with other*)
(* bytes had the committed ones when a confirm looked, and they were       *)
(* replaced through its URL afterwards.                                    *)
BytesMatchCommitment ==
    \A b \in Blobs : Ready(b) /\ stored[b] = "bad" => b \in checked

(* Does not hold: until the URL expires it takes another PUT, between the  *)
(* check and the commit as well as on a ready row.                         *)
ReadyBytesAreCommitted == \A b \in Blobs : Ready(b) => stored[b] # "bad"

(* An attachment that was answered as ready, and that nobody asked to      *)
(* delete, stays downloadable as long as its row exists: no other upload,  *)
(* download, retry or sweep takes its bytes or its status away.            *)
AnsweredStaysReady ==
    \A b \in Blobs : told[b] = "created" /\ Exists(b) =>
        Ready(b) /\ stored[b] = "good"

(* What an upload's answer calls created can be downloaded at that moment. *)
CreatedIsDownloadable ==
    [][\A b \in Blobs : told[b] = "nothing" /\ told'[b] = "created" =>
          row'[b].status = "ready" /\ stored[b] = "good"]_attachmentVars

(* An attachment whose DELETE was answered is not downloadable again.      *)
RemovedStaysRemoved == \A b \in Blobs : told[b] = "removed" => ~Counted(b)

(* The quota refuses an upload only if the other attachments leave no room.*)
FittingUploadAccepted ==
    [][\A r \in Requests : at[r] = "quota" /\ at'[r] = "unput" =>
          Bytes({b \in Blobs : Counted(b)} \ {job[r].blob}) + job[r].size
              > AgentCap]_attachmentVars

(* A row waits for its storage key only while its upload is about to set it*)
PlaceholderIsTransient ==
    \A b \in Blobs : Exists(b) /\ ~row[b].keyed =>
        \E r \in Requests : at[r] = "key" /\ job[r].blob = b

(* While the scanner is asked for its verdict, the download link it was    *)
(* given serves the bytes (attachment-bridge.ts requires a ready row).     *)
ScannerCanDownload ==
    \A r \in Requests : at[r] = "scan" =>
        LET b == job[r].blob
        IN  Exists(b) /\ ~row[b].deletedAt => Ready(b)

(* Bytes belong to a row, or somebody is about to delete them.             *)
NoOrphanBytes ==
    \A b \in Blobs : stored[b] # "none" =>
        Exists(b) \/ b \in sweeping \/ \E r \in Requests : job[r].blob = b

(* The quota, with the shape of the rows it is computed from.              *)
QuotaInv == AttachmentsTypeOK /\ ReadyWithinCaps
=============================================================================
