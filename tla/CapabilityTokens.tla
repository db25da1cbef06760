-------------------------- MODULE CapabilityTokens --------------------------
(***************************************************************************)
(* The /b/<token> capability URLs of one attachment: minting, revoking,    *)
(* expiry, the per-process revoke cache in front of the database and the   *)
(* single-use claim (packages/relay/src/bridge/attachment-bridge.ts,       *)
(* attachments/revoke-cache.ts, the token routes of                        *)
(* http/routes/attachments.ts).                                            *)
(*                                                                         *)
(* A download is in one of the replicas and awaits between the cache, the  *)
(* database and the store.  What the attachment itself goes through is the *)
(* subject of Attachments; here it loses its bytes and then its status.    *)
(***************************************************************************)
EXTENDS Naturals, Sequences, FiniteSets

CONSTANTS
    Tokens,         \* tokens that may be minted
    Downloads,      \* GETs that may be in flight
    Replicas,       \* relay processes
    HostOf,         \* the replica that serves each download
    CacheSize,      \* maxEntries of the revoke cache
    MaxUses         \* bound of the model: downloads of a token

ASSUME TokensAssumption ==
    /\ HostOf \in [Downloads -> Replicas]
    /\ Tokens # {} /\ CacheSize \in Nat /\ MaxUses \in Nat

VARIABLES
    tok,        \* the token rows
    blob,       \* the attachment: its status is ready, its bytes are there
    cache,      \* the revoke cache of each replica, oldest entry first
    doing,      \* where each download stands
    want,       \* the token of each download, and whether the row said once
    served,     \* how often each token streamed the bytes
    tooLate     \* ghost: downloads that arrived after the revocation

tokensVars == <<tok, blob, cache, doing, want, served, tooLate>>

TokenRow == [row : {"none", "live", "consumed", "purged"},
          once : BOOLEAN, revoked : BOOLEAN, expired : BOOLEAN]

TokensTypeOK ==
    /\ tok \in [Tokens -> TokenRow]
    /\ blob \in [ready : BOOLEAN, bytes : BOOLEAN]
    /\ cache \in [Replicas -> Seq(Tokens)]
    /\ \A r \in Replicas : Len(cache[r]) <= CacheSize
    /\ doing \in [Downloads -> {"idle", "lookup", "claim", "open", "fail", "audit"}]
    /\ want \in [Downloads -> Tokens]
    /\ served \in [Tokens -> Nat]
    /\ tooLate \subseteq Downloads

TokensInit ==
    /\ tok = [t \in Tokens |-> [row |-> "none", once |-> FALSE,
                                revoked |-> FALSE, expired |-> FALSE]]
    /\ blob = [ready |-> TRUE, bytes |-> TRUE]
    /\ cache = [r \in Replicas |-> <<>>]
    /\ doing = [d \in Downloads |-> "idle"]
    /\ want = [d \in Downloads |-> CHOOSE t \in Tokens : TRUE]
    /\ served = [t \in Tokens |-> 0]
    /\ tooLate = {}

-----------------------------------------------------------------------------
Live(t) == tok[t].row = "live"

Cached(r, t) == \E i \in 1 .. Len(cache[r]) : cache[r][i] = t

MoveOn(d, step) == doing' = [doing EXCEPT ![d] = step]

(* Seeded bug: the cache never lets go of an entry.                        *)
RememberForever(r, t) ==
    cache' = IF Cached(r, t) THEN cache
             ELSE [cache EXCEPT ![r] = Append(@, t)]

(* cache.add: FIFO, and an entry that is there keeps its place.            *)
Remember(r, t) ==
    LET longer == Append(cache[r], t)
    IN  cache' = IF Cached(r, t) THEN cache
                 ELSE [cache EXCEPT ![r] =
                          IF Len(longer) > CacheSize THEN Tail(longer) ELSE longer]

(* POST /:id/tokens: the attachment is ready.                              *)
Mint(t, once) ==
    /\ tok[t].row = "none" /\ blob.ready
    /\ tok' = [tok EXCEPT ![t].row = "live", ![t].once = once]
    /\ UNCHANGED <<blob, cache, doing, want, served, tooLate>>

(* DELETE /:id/tokens/:token_id on replica r: the row, then the cache; a   *)
(* token revoked before is only remembered.  A claimed token has no row.   *)
RevokeCapability(t, r) ==
    /\ Live(t)
    /\ tok' = [tok EXCEPT ![t].revoked = TRUE]
    /\ Remember(r, t)
    /\ UNCHANGED <<blob, doing, want, served, tooLate>>

Expire(t) ==
    /\ Live(t) /\ ~tok[t].expired
    /\ tok' = [tok EXCEPT ![t].expired = TRUE]
    /\ UNCHANGED <<blob, cache, doing, want, served, tooLate>>

-----------------------------------------------------------------------------
(* GET /b/:token: a cache hit is refused at once.                          *)
Arrive(d, t) ==
    /\ doing[d] = "idle"
    /\ served[t] < MaxUses
    /\ ~Cached(HostOf[d], t)
    /\ want' = [want EXCEPT ![d] = t]
    /\ tooLate' = IF tok[t].revoked THEN tooLate \cup {d} ELSE tooLate \ {d}
    /\ MoveOn(d, "lookup")
    /\ UNCHANGED <<tok, blob, cache, served>>

Refuse(d) == MoveOn(d, "idle")

(* Seeded bug: an attachment that is not ready condemns the token too.     *)
LookupCachesEveryRefusal(d) ==
    LET t == want[d]
        r == HostOf[d]
    IN  /\ doing[d] = "lookup"
        /\ IF Live(t) /\ ~tok[t].revoked /\ ~tok[t].expired /\ blob.ready
           THEN MoveOn(d, IF tok[t].once THEN "claim" ELSE "open") /\ UNCHANGED cache
           ELSE Refuse(d) /\ Remember(r, t)
        /\ UNCHANGED <<tok, blob, want, served, tooLate>>

(* Seeded bug: the cache is taken for the authority on revocations.        *)
LookupTrustsCache(d) ==
    LET t == want[d]
    IN  /\ doing[d] = "lookup"
        /\ IF Live(t) /\ ~tok[t].expired /\ blob.ready
           THEN MoveOn(d, IF tok[t].once THEN "claim" ELSE "open") ELSE Refuse(d)
        /\ UNCHANGED <<tok, blob, cache, want, served, tooLate>>

(* The row and its attachment are read and checked.  A revoked or expired  *)
(* token is remembered; a missing row or attachment is not.                *)
Lookup(d) ==
    LET t == want[d]
        r == HostOf[d]
    IN  /\ doing[d] = "lookup"
        /\ IF ~Live(t) THEN Refuse(d) /\ UNCHANGED cache
           ELSE IF tok[t].revoked \/ tok[t].expired THEN Refuse(d) /\ Remember(r, t)
           ELSE IF ~blob.ready THEN Refuse(d) /\ UNCHANGED cache
           ELSE MoveOn(d, IF tok[t].once THEN "claim" ELSE "open") /\ UNCHANGED cache
        /\ UNCHANGED <<tok, blob, want, served, tooLate>>

(* Seeded bug: the claim deletes by id and does not look at the count.     *)
ClaimUnchecked(d) ==
    LET t == want[d]
    IN  /\ doing[d] = "claim"
        /\ tok' = IF Live(t) THEN [tok EXCEPT ![t].row = "consumed"] ELSE tok
        /\ Remember(HostOf[d], t)
        /\ MoveOn(d, "open")
        /\ UNCHANGED <<blob, want, served, tooLate>>

(* The single-use claim: one DELETE whose count decides.                   *)
Claim(d) ==
    LET t == want[d]
        wins == Live(t) /\ ~tok[t].revoked
    IN  /\ doing[d] = "claim"
        /\ tok' = IF wins THEN [tok EXCEPT ![t].row = "consumed"] ELSE tok
        /\ Remember(HostOf[d], t)
        /\ IF wins THEN MoveOn(d, "open") ELSE Refuse(d)
        /\ UNCHANGED <<blob, want, served, tooLate>>

(* The bytes are streamed, or found missing.                               *)
Open(d) ==
    /\ doing[d] = "open"
    /\ IF blob.bytes
       THEN /\ served' = [served EXCEPT ![want[d]] = @ + 1]
            /\ MoveOn(d, IF tok[want[d]].once THEN "idle" ELSE "audit")
       ELSE MoveOn(d, "fail") /\ UNCHANGED served
    /\ UNCHANGED <<tok, blob, cache, want, tooLate>>

(* Missing bytes: the attachment is marked failed.                         *)
Fail(d) ==
    /\ doing[d] = "fail"
    /\ blob' = [blob EXCEPT !.ready = FALSE]
    /\ Refuse(d)
    /\ UNCHANGED <<tok, cache, want, served, tooLate>>

(* writeAuditUpdate, after the answer; its errors are swallowed.           *)
Audit(d) ==
    /\ doing[d] = "audit"
    /\ MoveOn(d, "idle")
    /\ UNCHANGED <<tok, blob, cache, want, served, tooLate>>

-----------------------------------------------------------------------------
(* The attachment is deleted: its bytes, then its status, then its row and *)
(* with it its tokens.                                                     *)
LoseBytes ==
    /\ blob.bytes
    /\ blob' = [blob EXCEPT !.bytes = FALSE]
    /\ UNCHANGED <<tok, cache, doing, want, served, tooLate>>

LoseBlob ==
    /\ ~blob.bytes /\ blob.ready
    /\ blob' = [blob EXCEPT !.ready = FALSE]
    /\ UNCHANGED <<tok, cache, doing, want, served, tooLate>>

PurgeBlob ==
    /\ ~blob.ready
    /\ \E t \in Tokens : Live(t)
    /\ tok' = [t \in Tokens |-> IF Live(t) THEN [tok[t] EXCEPT !.row = "purged"]
                                ELSE tok[t]]
    /\ UNCHANGED <<blob, cache, doing, want, served, tooLate>>

(* A replica restarts: its downloads break off, its cache is empty.        *)
RestartReplica(r) ==
    /\ cache[r] # <<>> \/ \E d \in Downloads : HostOf[d] = r /\ doing[d] # "idle"
    /\ cache' = [cache EXCEPT ![r] = <<>>]
    /\ doing' = [d \in Downloads |-> IF HostOf[d] = r THEN "idle" ELSE doing[d]]
    /\ UNCHANGED <<tok, blob, want, served, tooLate>>

DownloadStep(d) ==
    Lookup(d) \/ Claim(d) \/ Open(d) \/ Fail(d) \/ Audit(d)

TokensNext ==
    \/ \E t \in Tokens :
          \/ \E once \in BOOLEAN : Mint(t, once)
          \/ \E r \in Replicas : RevokeCapability(t, r)
          \/ Expire(t)
          \/ \E d \in Downloads : Arrive(d, t)
    \/ \E d \in Downloads : DownloadStep(d)
    \/ LoseBytes \/ LoseBlob \/ PurgeBlob
    \/ \E r \in Replicas : RestartReplica(r)

TokensSpec == TokensInit /\ [][TokensNext]_tokensVars

-----------------------------------------------------------------------------
(* A single-use token streams the bytes at most once, whichever replicas   *)
(* the concurrent downloads and retries go to.                             *)
OnceServesOnce == \A t \in Tokens : tok[t].once => served[t] <= 1

(* A download that arrives after the token was revoked gets no bytes, on   *)
(* no replica, whether its cache knows of the revocation or not.           *)
RevocationHolds == \A d \in tooLate : doing[d] \in {"idle", "lookup"}

(* The cache only short-cuts what the database would refuse: a replica     *)
(* never turns a token away that is still good.                            *)
CacheIsSound ==
    \A r \in Replicas, t \in Tokens :
        Cached(r, t) => ~Live(t) \/ tok[t].revoked \/ tok[t].expired

(* A single-use token is used up by the download that got the bytes.       *)
ConsumedWhenServed ==
    \A t \in Tokens : tok[t].row = "consumed" =>
        \/ served[t] = 1
        \/ \E d \in Downloads : want[d] = t /\ doing[d] = "open"

(* A token gives what it was minted for, no more often and no longer, and  *)
(* the caches of the replicas do not change that.                          *)
TokensInv == TokensTypeOK /\ OnceServesOnce /\ RevocationHolds /\ CacheIsSound
=============================================================================
