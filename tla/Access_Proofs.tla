---------------------------- MODULE Access_Proofs -----------------------------
(***************************************************************************)
(* Who gets in.  The labels of a pane's human participants, for any number *)
(* of requests, reserved slots and rows, and any cap: no two rows share    *)
(* one, and the label a mint computes is free at the moment it has         *)
(* counted.  Capability tokens, for any number of replicas and downloads:  *)
(* a single-use token serves once and a revoked one nobody.  Attachments,  *)
(* for any number of rows, requests and sizes: nothing is ready with bytes *)
(* other than those committed to, and where every upload goes through the  *)
(* relay the quotas hold for all that is ready.                            *)
(***************************************************************************)
EXTENDS Participants, CapabilityTokens, Attachments, TLAPS, SequenceTheorems,
        NaturalsInduction, WellFoundedInduction, FiniteSetTheorems

-----------------------------------------------------------------------------
(***************************************************************************)
(* Participants. A mint has counted at most the rows that there are, and   *)
(* their labels are below that count, all different.                       *)
(***************************************************************************)
(* What a mint counted is at most the number of rows: none is ever         *)
(* removed.                                                                *)
CountsAreOld == \A m \in Mints : ever[m] # Unread => ever[m] <= Len(rows)

LabelInv == TypeOK /\ LabelsBelowCount /\ LabelsUnique /\ CountsAreOld

LEMMA LabelInvInit == Init => LabelInv
<1> SUFFICES ASSUME Init PROVE LabelInv
  OBVIOUS
<1> USE ParticipantsAssumption
<1>1. rows \in Seq(Row) /\ Len(rows) = Created
      /\ \A i \in 1 .. Len(rows) : rows[i].label = i - 1
  BY DEF Init, Row, Label
<1>2. TypeOK
  BY <1>1 DEF Init, TypeOK
<1>3. LabelsBelowCount /\ LabelsUnique
  BY <1>1 DEF LabelsBelowCount, LabelsUnique
<1>4. CountsAreOld
  BY DEF Init, CountsAreOld
<1> QED BY <1>2, <1>3, <1>4 DEF LabelInv

(* A step that leaves the rows and the counts alone.                       *)
LEMMA RowsUntouched ==
  ASSUME LabelInv, TypeOK', UNCHANGED <<rows, ever>>
  PROVE  LabelInv'
BY DEF LabelInv, LabelsBelowCount, LabelsUnique, CountsAreOld

(* The only INSERTs: a free label that is reserved or at most the count.   *)
LEMMA InsertKeeps ==
  ASSUME LabelInv, NEW label \in Label, ~Taken(label), Insert(label),
         label \in Nat => label <= Len(rows), TypeOK',
         \A m \in Mints : ever'[m] \in {ever[m], Unread}
  PROVE  LabelInv'
<1> DEFINE n == Len(rows)
<1>1. /\ rows \in Seq(Row) /\ n \in Nat /\ Len(rows') = n + 1
      /\ \A i \in 1 .. n : rows'[i] = rows[i]
      /\ rows'[n + 1].label = label
  BY DEF LabelInv, TypeOK, Insert, Row
<1>2. \A i \in 1 .. n : rows[i].label # label /\ rows[i] \in Row
  BY <1>1 DEF Taken
<1> HIDE DEF n
<1>3. LabelsBelowCount'
  <2>1. ASSUME NEW i \in 1 .. n + 1, rows'[i].label \in Nat
        PROVE  rows'[i].label < n + 1
    <3>1. CASE i = n + 1
      BY <1>1, <2>1, <3>1 DEF n
    <3>2. CASE i \in 1 .. n
      <4>1. rows[i].label \in Nat /\ rows[i].label < n
        BY <1>1, <2>1, <3>2 DEF LabelInv, LabelsBelowCount, n
      <4> QED BY <1>1, <3>2, <4>1
    <3> QED BY <1>1, <3>1, <3>2
  <2> QED BY <1>1, <2>1 DEF LabelsBelowCount
<1>4. LabelsUnique'
  <2>1. ASSUME NEW i \in 1 .. n + 1, NEW j \in 1 .. n + 1,
               rows'[i].label = rows'[j].label
        PROVE  i = j
    <3>1. CASE i = n + 1 /\ j = n + 1
      BY <3>1
    <3>2. CASE i \in 1 .. n /\ j = n + 1
      BY <1>1, <1>2, <2>1, <3>2
    <3>3. CASE i = n + 1 /\ j \in 1 .. n
      BY <1>1, <1>2, <2>1, <3>3
    <3>4. CASE i \in 1 .. n /\ j \in 1 .. n
      BY <1>1, <2>1, <3>4 DEF LabelInv, LabelsUnique, n
    <3> QED BY <1>1, <3>1, <3>2, <3>3, <3>4
  <2> QED BY <1>1, <2>1 DEF LabelsUnique
<1>5. CountsAreOld'
  <2>1. ASSUME NEW m \in Mints, ever'[m] # Unread PROVE ever'[m] <= n + 1
    <3>1. ever'[m] = ever[m] /\ ever[m] \in Nat
      BY <2>1 DEF LabelInv, TypeOK
    <3>2. ever[m] <= n
      BY <2>1, <3>1 DEF LabelInv, CountsAreOld, n
    <3> QED BY <1>1, <3>1, <3>2
  <2> QED BY <1>1, <2>1 DEF CountsAreOld
<1> QED BY <1>3, <1>4, <1>5 DEF LabelInv

(* The count of a mint.                                                    *)
LEMMA CountKeeps ==
  ASSUME LabelInv, NEW m \in Mints, CountEver(m)
  PROVE  LabelInv' /\ ~Taken(ever'[m])
<1>1. /\ rows' = rows /\ Len(rows) \in Nat /\ rows \in Seq(Row)
      /\ ever' = [ever EXCEPT ![m] = Len(rows)] /\ ever \in [Mints -> Nat \cup {Unread}]
  BY DEF LabelInv, TypeOK, CountEver
<1>2. TypeOK'
  BY <1>1 DEF LabelInv, TypeOK, CountEver
<1>3. LabelsBelowCount' /\ LabelsUnique'
  BY <1>1 DEF LabelInv, LabelsBelowCount, LabelsUnique
<1>4. CountsAreOld'
  BY <1>1 DEF LabelInv, CountsAreOld
<1>5. ~Taken(ever'[m])
  <2>1. ever'[m] = Len(rows)
    BY <1>1
  <2>2. ASSUME NEW i \in 1 .. Len(rows), rows[i].label = Len(rows) PROVE FALSE
    BY <1>1, <2>2 DEF LabelInv, LabelsBelowCount
  <2> QED BY <2>1, <2>2 DEF Taken
<1> QED BY <1>2, <1>3, <1>4, <1>5 DEF LabelInv

(* A request that forgets what it counted, or a row that is revoked.       *)
LEMMA ForgetKeeps ==
  ASSUME LabelInv, NEW m \in Mints, UNCHANGED rows, TypeOK',
         ever' = [ever EXCEPT ![m] = Unread]
  PROVE  LabelInv'
BY DEF LabelInv, LabelsBelowCount, LabelsUnique, CountsAreOld, TypeOK

LEMMA RevokeKeeps ==
  ASSUME LabelInv, NEW i \in 1 .. Len(rows), Revoke(i)
  PROVE  LabelInv'
<1>1. /\ rows \in Seq(Row) /\ rows' \in Seq(Row) /\ Len(rows') = Len(rows)
      /\ \A j \in 1 .. Len(rows) : rows'[j].label = rows[j].label
      /\ UNCHANGED <<mintPc, ever, attempt>>
  <2>1. rows \in [1 .. Len(rows) -> Row] /\ Len(rows) \in Nat
    BY DEF LabelInv, TypeOK
  <2>2. [rows[i] EXCEPT !.revoked = TRUE] \in Row
        /\ [rows[i] EXCEPT !.revoked = TRUE].label = rows[i].label
    BY <2>1 DEF Row
  <2>3. rows' = [rows EXCEPT ![i] = [rows[i] EXCEPT !.revoked = TRUE]]
    BY DEF Revoke
  <2>4. rows' \in [1 .. Len(rows) -> Row]
        /\ \A j \in 1 .. Len(rows) : rows'[j].label = rows[j].label
    BY <2>1, <2>2, <2>3
  <2>5. rows \in Seq(Row) /\ rows' \in Seq(Row) /\ Len(rows') = Len(rows)
    <3>1. rows \in Seq(Row)
      BY DEF LabelInv, TypeOK
    <3> DEFINE n == Len(rows)
    <3>2. n \in Nat /\ rows' \in [1 .. n -> Row]
      BY <2>1, <2>4
    <3> HIDE DEF n
    <3>3. rows' \in Seq(Row) /\ Len(rows') = n
      BY <3>2
    <3> QED BY <3>1, <3>3 DEF n
  <2> QED BY <2>4, <2>5 DEF Revoke
<1>2. TypeOK'
  BY <1>1 DEF LabelInv, TypeOK
<1> QED BY <1>1, <1>2
        DEF LabelInv, LabelsBelowCount, LabelsUnique, CountsAreOld

-----------------------------------------------------------------------------
LEMMA MintStepKeeps ==
  ASSUME LabelInv, NEW m \in Mints, MintStep(m)
  PROVE  LabelInv'
<1>0. TypeOK /\ m \in Mints \cup Entries
  BY DEF LabelInv
<1>1. CASE BeginMint(m) \/ CountActive(m)
  <2>1. TypeOK' /\ UNCHANGED <<rows, ever>>
    BY <1>0, <1>1 DEF TypeOK, BeginMint, CountActive, MoveMint
  <2> QED BY <2>1, RowsUntouched
<1>2. CASE CountEver(m)
  BY <1>2, CountKeeps
<1>3. CASE InsertLabel(m)
  <2>1. /\ ever[m] \in Nat /\ ever[m] \in Label /\ ever[m] <= Len(rows)
        /\ ever' = [ever EXCEPT ![m] = Unread]
        /\ \A x \in Mints : ever'[x] \in {ever[x], Unread}
    BY <1>0, <1>3 DEF InsertLabel, TypeOK, LabelInv, CountsAreOld, Label
  <2>2. CASE ~Taken(ever[m])
    <3>1. Insert(ever[m]) /\ MoveMint(m, "minted") /\ UNCHANGED attempt
      BY <1>3, <2>2 DEF InsertLabel
    <3>2. TypeOK'
      BY <1>0, <2>1, <3>1 DEF TypeOK, Insert, Row, MoveMint
    <3> QED BY <2>1, <2>2, <3>1, <3>2, InsertKeeps
  <2>3. CASE Taken(ever[m])
    <3>1. /\ UNCHANGED rows /\ attempt' = [attempt EXCEPT ![m] = @ + 1]
          /\ \E s \in {"mint", "failed"} : MoveMint(m, s)
      BY <1>3, <2>3 DEF InsertLabel
    <3>2. TypeOK'
      BY <1>0, <2>1, <3>1 DEF TypeOK, MoveMint
    <3> QED BY <2>1, <3>1, <3>2, ForgetKeeps
  <2> QED BY <2>2, <2>3
<1>4. CASE Answered(m)
  <2>1. TypeOK' /\ UNCHANGED rows /\ ever' = [ever EXCEPT ![m] = Unread]
    BY <1>0, <1>4 DEF TypeOK, Answered, MoveMint
  <2> QED BY <2>1, ForgetKeeps
<1> QED BY <1>1, <1>2, <1>3, <1>4 DEF MintStep

LEMMA EntryStepKeeps ==
  ASSUME LabelInv, NEW e \in Entries, EntryStep(e)
  PROVE  LabelInv'
<1>0. TypeOK /\ e \in Mints \cup Entries
  BY DEF LabelInv
<1>1. CASE Find(e) \/ ReReadSlot(e) \/ Leave(e)
  <2>1. TypeOK' /\ UNCHANGED <<rows, ever>>
    BY <1>0, <1>1 DEF TypeOK, Find, ReReadSlot, Leave, MoveMint
  <2> QED BY <2>1, RowsUntouched
<1>2. CASE InsertSlot(e)
  <2>1. SlotOf[e] \in Label /\ SlotOf[e] \notin Nat /\ UNCHANGED <<ever, attempt>>
    BY <1>2, ParticipantsAssumption DEF InsertSlot, Label
  <2>2. CASE ~Taken(SlotOf[e])
    <3>1. Insert(SlotOf[e]) /\ MoveMint(e, "minted")
      BY <1>2, <2>2 DEF InsertSlot
    <3>2. TypeOK'
      BY <1>0, <2>1, <3>1 DEF TypeOK, Insert, Row, MoveMint
    <3>3. \A m \in Mints : ever'[m] \in {ever[m], Unread}
      BY <2>1
    <3> QED BY <2>1, <2>2, <3>1, <3>2, <3>3, InsertKeeps
  <2>3. CASE Taken(SlotOf[e])
    <3>1. TypeOK' /\ UNCHANGED <<rows, ever>>
      BY <1>0, <1>2, <2>3 DEF TypeOK, InsertSlot, MoveMint
    <3> QED BY <3>1, RowsUntouched
  <2> QED BY <2>2, <2>3
<1> QED BY <1>1, <1>2 DEF EntryStep

LEMMA LabelInvStep == LabelInv /\ [Next]_vars => LabelInv'
<1> SUFFICES ASSUME LabelInv, [Next]_vars PROVE LabelInv'
  OBVIOUS
<1>1. CASE UNCHANGED vars
  BY <1>1 DEF vars, LabelInv, TypeOK, LabelsBelowCount, LabelsUnique, CountsAreOld
<1> QED BY <1>1, MintStepKeeps, EntryStepKeeps, RevokeKeeps DEF Next

THEOREM LabelInvariant == Spec => []LabelInv
BY LabelInvInit, LabelInvStep, PTL DEF Spec

(* The variables of the mint routes keep their types.                      *)
THEOREM ParticipantsTypeCorrect == Spec => []TypeOK
BY LabelInvariant, PTL DEF LabelInv

(* No two participants of a pane ever carry one label, revoked ones        *)
(* included, and every numbered label is below the count of rows.          *)
THEOREM LabelsNeverShared == Spec => []LabelsSound
BY LabelInvariant, PTL DEF LabelInv, LabelsSound

(* The label a mint computes is free when it has counted.                  *)
THEOREM MintChoosesFreeLabel == Spec => FirstChoiceIsFree
<1>1. LabelInv /\ [Next]_vars =>
          [\A m \in Mints : ever[m] = Unread /\ ever'[m] # Unread
                                => ~Taken(ever'[m])]_vars
  <2> SUFFICES ASSUME LabelInv, Next, NEW m \in Mints,
                      ever[m] = Unread, ever'[m] # Unread
               PROVE  ~Taken(ever'[m])
    OBVIOUS
  <2>1. ever \in [Mints -> Nat \cup {Unread}]
    BY DEF LabelInv, TypeOK
  <2>2. PICK x \in Mints : CountEver(x)
    <3>1. ASSUME NEW x \in Mints, MintStep(x), ~CountEver(x)
          PROVE  ever'[m] \in {ever[m], Unread}
      BY <2>1, <3>1 DEF MintStep, BeginMint, CountActive, InsertLabel, Answered
    <3>2. ASSUME NEW e \in Entries, EntryStep(e) PROVE ever' = ever
      BY <3>2 DEF EntryStep, Find, InsertSlot, ReReadSlot, Leave
    <3>3. ASSUME NEW i \in 1 .. Len(rows), Revoke(i) PROVE ever' = ever
      BY <3>3 DEF Revoke
    <3> QED BY <3>1, <3>2, <3>3 DEF Next
  <2>3. x = m
    BY <2>1, <2>2 DEF CountEver
  <2> QED BY <2>2, <2>3, CountKeeps
<1> QED BY <1>1, LabelInvariant, PTL DEF Spec, FirstChoiceIsFree

-----------------------------------------------------------------------------
(***************************************************************************)
(* Capability tokens. A single-use token that is still live has not been   *)
(* opened; a download that came too late stands before a revoked row; and  *)
(* what a cache remembers has a row that the database would refuse.        *)
(***************************************************************************)
Opening(d, t) == want[d] = t /\ doing[d] = "open"

Untouched(t) == served[t] = 0 /\ \A d \in Downloads : ~Opening(d, t)

OpenedOnce ==
    /\ \A t \in Tokens :
          tok[t].row = "none" =>
              served[t] = 0 /\ \A d \in Downloads :
                                  want[d] = t => doing[d] \in {"idle", "lookup"}
    /\ \A d \in Downloads : doing[d] = "claim" => tok[want[d]].once
    /\ \A t \in Tokens : tok[t].once =>
          /\ tok[t].row = "live" => Untouched(t)
          /\ served[t] \in {0, 1}
          /\ served[t] = 1 => \A d \in Downloads : ~Opening(d, t)
          /\ \A d, e \in Downloads : Opening(d, t) /\ Opening(e, t) => d = e

LateRefused ==
    \A d \in tooLate :
        doing[d] = "idle" \/ (doing[d] = "lookup" /\ tok[want[d]].revoked)

Refusable(t) == tok[t].row # "none" /\ (~Live(t) \/ tok[t].revoked \/ tok[t].expired)

CachedRefusable == \A r \in Replicas, t \in Tokens : Cached(r, t) => Refusable(t)

CacheOK ==
    /\ cache \in [Replicas -> Seq(Tokens)]
    /\ \A r \in Replicas : Len(cache[r]) <= CacheSize

RestOK ==
    /\ tok \in [Tokens -> TokenRow]
    /\ blob \in [ready : BOOLEAN, bytes : BOOLEAN]
    /\ doing \in [Downloads -> {"idle", "lookup", "claim", "open", "fail", "audit"}]
    /\ want \in [Downloads -> Tokens]
    /\ served \in [Tokens -> Nat]
    /\ tooLate \subseteq Downloads

TokensIInv == RestOK /\ CacheOK /\ OpenedOnce /\ LateRefused /\ CachedRefusable

-----------------------------------------------------------------------------
LEMMA TokensStart == ASSUME TokensAssumption, TokensInit PROVE TokensIInv
<1> USE TokensAssumption DEF TokensAssumption, TokensInit
<1>1. RestOK
  <2>1. (CHOOSE t \in Tokens : TRUE) \in Tokens OBVIOUS
  <2>2. tok \in [Tokens -> TokenRow] BY DEF TokenRow
  <2> QED BY <2>1, <2>2 DEF RestOK
<1>2. CacheOK BY DEF CacheOK
<1>3. OpenedOnce BY DEF OpenedOnce
<1>4. LateRefused BY DEF LateRefused
<1>5. CachedRefusable BY DEF CachedRefusable, Cached
<1> QED BY <1>1, <1>2, <1>3, <1>4, <1>5 DEF TokensIInv

(* What is remembered is the token, and what was remembered before.        *)
LEMMA Remembers ==
    ASSUME TokensAssumption, CacheOK, NEW r \in Replicas, NEW t \in Tokens, Remember(r, t)
    PROVE  /\ CacheOK'
           /\ \A q \in Replicas, u \in Tokens : Cached(q, u)' => Cached(q, u) \/ u = t
<1>1. CASE Cached(r, t) BY <1>1 DEF Remember, CacheOK, Cached
<1>2. CASE ~Cached(r, t)
  <2>1. PICK longer : longer = Append(cache[r], t) OBVIOUS
  <2>2. cache[r] \in Seq(Tokens) /\ Len(cache[r]) \in Nat /\ Len(cache[r]) <= CacheSize
        /\ CacheSize \in Nat
    BY DEF CacheOK, TokensAssumption
  <2>3. /\ longer \in Seq(Tokens) /\ Len(longer) = Len(cache[r]) + 1
        /\ \A i \in 1 .. Len(longer) :
               longer[i] = t \/ \E k \in 1 .. Len(cache[r]) : longer[i] = cache[r][k]
    <3>1. longer \in Seq(Tokens) /\ Len(longer) = Len(cache[r]) + 1
      BY <2>1, <2>2, AppendProperties
    <3>2. /\ \A i \in 1 .. Len(cache[r]) : longer[i] = cache[r][i]
          /\ longer[Len(cache[r]) + 1] = t
      BY <2>1, <2>2, AppendProperties
    <3> QED BY <3>1, <3>2, <2>2
  <2>4. PICK s : s = IF Len(longer) > CacheSize THEN Tail(longer) ELSE longer OBVIOUS
  <2>5. /\ s \in Seq(Tokens) /\ Len(s) <= CacheSize
        /\ \A i \in 1 .. Len(s) : \E j \in 1 .. Len(longer) : s[i] = longer[j]
    <3>1. CASE Len(longer) > CacheSize
      <4>1. longer # << >> BY <2>2, <2>3
      <4>2. /\ Tail(longer) \in Seq(Tokens) /\ Len(Tail(longer)) = Len(longer) - 1
            /\ \A i \in 1 .. Len(Tail(longer)) : Tail(longer)[i] = longer[i + 1]
        BY <2>3, <4>1, HeadTailProperties
      <4> QED BY <2>2, <2>3, <2>4, <3>1, <4>2
    <3>2. CASE ~(Len(longer) > CacheSize) BY <2>2, <2>3, <2>4, <3>2
    <3> QED BY <3>1, <3>2
  <2>6. cache' = [cache EXCEPT ![r] = s]
    BY <1>2, <2>1, <2>4 DEF Remember
  <2>7. \A q \in Replicas : cache'[q] = IF q = r THEN s ELSE cache[q]
    BY <2>6 DEF CacheOK
  <2>8. CacheOK' BY <2>5, <2>6, <2>7 DEF CacheOK
  <2>9. ASSUME NEW q \in Replicas, NEW u \in Tokens, Cached(q, u)', u # t
        PROVE  Cached(q, u)
    <3>1. CASE q # r BY <3>1, <2>7, <2>9 DEF Cached
    <3>2. CASE q = r
      <4>1. PICK i \in 1 .. Len(s) : s[i] = u BY <3>2, <2>7, <2>9 DEF Cached
      <4>2. PICK j \in 1 .. Len(longer) : s[i] = longer[j] BY <2>5
      <4> QED BY <4>1, <4>2, <2>3, <2>9, <3>2 DEF Cached
    <3> QED BY <3>1, <3>2
  <2> QED BY <2>8, <2>9
<1> QED BY <1>1, <1>2

(* The tokens are as they were, and one download moves on.                 *)
LEMMA Walks ==
    ASSUME TokensAssumption, TokensIInv, NEW d \in Downloads,
           NEW s \in {"idle", "open", "claim", "fail", "audit"}, MoveOn(d, s),
           s = "open" => tok[want[d]].row # "none" /\ ~tok[want[d]].once /\ ~tok[want[d]].revoked,
           s = "claim" => tok[want[d]].row # "none" /\ tok[want[d]].once /\ ~tok[want[d]].revoked,
           s \in {"fail", "audit"} => doing[d] = "open", doing[d] # "idle",
           UNCHANGED <<tok, want, served, tooLate>>
    PROVE  OpenedOnce' /\ LateRefused' /\ doing' \in [Downloads ->
               {"idle", "lookup", "claim", "open", "fail", "audit"}]
<1>1. /\ \A e \in Downloads : doing'[e] = IF e = d THEN s ELSE doing[e]
      /\ doing' \in [Downloads -> {"idle", "lookup", "claim", "open", "fail", "audit"}]
      /\ want[d] \in Tokens
  BY DEF TokensIInv, RestOK, MoveOn
<1>2. \A t \in Tokens, e \in Downloads :
         tok[t].once /\ Opening(e, t)' => Opening(e, t)
  BY <1>1 DEF Opening
<1>3. \A t \in Tokens : tok[t].row = "none" =>
         served[t] = 0 /\ \A e \in Downloads : want[e] = t => doing'[e] \in {"idle", "lookup"}
  BY <1>1 DEF TokensIInv, OpenedOnce
<1>4. \A e \in Downloads : doing'[e] = "claim" => tok[want[e]].once
  BY <1>1 DEF TokensIInv, OpenedOnce
<1>5. OpenedOnce'
  BY <1>2, <1>3, <1>4 DEF TokensIInv, OpenedOnce, Untouched
<1>6. LateRefused'
  <2>1. d \in tooLate => s = "idle"
    BY DEF TokensIInv, LateRefused
  <2> QED BY <1>1, <2>1 DEF TokensIInv, LateRefused, RestOK
<1> QED BY <1>1, <1>5, <1>6

(* A row changes in a way that makes no token good again.                  *)
LEMMA CacheStays ==
    ASSUME TokensIInv, UNCHANGED cache,
           \A t \in Tokens : Refusable(t) => Refusable(t)'
    PROVE  CacheOK' /\ CachedRefusable'
<1>1. CacheOK' BY DEF TokensIInv, CacheOK
<1>2. CachedRefusable' BY DEF TokensIInv, CachedRefusable, Cached
<1> QED BY <1>1, <1>2

LEMMA MintTokenKeeps ==
    ASSUME TokensAssumption, TokensIInv, NEW t \in Tokens, NEW once \in BOOLEAN, Mint(t, once)
    PROVE  TokensIInv'
<1>1. PICK newRow : newRow = [tok[t] EXCEPT !.row = "live", !.once = once] OBVIOUS
<1>2. tok[t] \in TokenRow /\ tok[t].row = "none" BY DEF TokensIInv, RestOK, Mint
<1>3. newRow \in TokenRow /\ newRow.row = "live" /\ newRow.once = once /\ newRow.revoked = tok[t].revoked
  BY <1>1, <1>2 DEF TokenRow
<1>4. tok' = [tok EXCEPT ![t] = newRow] BY <1>1 DEF Mint
<1>5. /\ \A u \in Tokens : tok'[u] = IF u = t THEN newRow ELSE tok[u]
      /\ tok' \in [Tokens -> TokenRow]
  BY <1>3, <1>4 DEF TokensIInv, RestOK
<1>6. UNCHANGED <<blob, cache, doing, want, served, tooLate>> BY DEF Mint
<1>7. RestOK' BY <1>5, <1>6 DEF TokensIInv, RestOK
<1>8. CacheOK' /\ CachedRefusable'
  BY <1>2, <1>5, <1>6, CacheStays DEF Refusable, Live
<1>9. OpenedOnce'
  <2>1. served[t] = 0 /\ \A d \in Downloads : want[d] = t => doing[d] \in {"idle", "lookup"}
    BY <1>2 DEF TokensIInv, OpenedOnce
  <2>2. \A d \in Downloads : doing[d] = "claim" => tok'[want[d]].once
    BY <1>5, <2>1 DEF TokensIInv, OpenedOnce, RestOK
  <2>3. \A u \in Tokens : tok'[u].row = "none" =>
            served[u] = 0 /\ \A d \in Downloads : want[d] = u => doing[d] \in {"idle", "lookup"}
    BY <1>3, <1>5 DEF TokensIInv, OpenedOnce
  <2>4. ASSUME NEW u \in Tokens, tok'[u].once
        PROVE  /\ tok'[u].row = "live" => Untouched(u)
               /\ served[u] \in {0, 1}
               /\ served[u] = 1 => \A d \in Downloads : ~Opening(d, u)
               /\ \A d, e \in Downloads : Opening(d, u) /\ Opening(e, u) => d = e
    <3>1. CASE u = t BY <3>1, <2>1 DEF Untouched, Opening
    <3>2. CASE u # t BY <3>2, <2>4, <1>5 DEF TokensIInv, OpenedOnce
    <3> QED BY <3>1, <3>2
  <2> QED BY <2>2, <2>3, <2>4, <1>6 DEF OpenedOnce, Untouched, Opening
<1>10. LateRefused'
  <2>1. \A d \in Downloads : tok'[want[d]].revoked = tok[want[d]].revoked
    BY <1>3, <1>5 DEF TokensIInv, RestOK
  <2> QED BY <2>1, <1>6 DEF TokensIInv, LateRefused, RestOK
<1> QED BY <1>7, <1>8, <1>9, <1>10 DEF TokensIInv

(* A live row is revoked, expires, is consumed or purged: what it was      *)
(* minted for stays, and it is not live again.                             *)
Ages(old, new) ==
    /\ new \in TokenRow /\ new.once = old.once /\ (old.revoked => new.revoked)
    /\ (old.expired => new.expired)
    /\ new.row = old.row \/ (old.row = "live" /\ new.row \in {"consumed", "purged"})

LEMMA RowsAge ==
    ASSUME TokensAssumption, TokensIInv, tok' \in [Tokens -> TokenRow],
           \A t \in Tokens : Ages(tok[t], tok'[t])
    PROVE  /\ \A t \in Tokens : Refusable(t) => Refusable(t)'
           /\ UNCHANGED <<doing, want, served, tooLate>> => OpenedOnce' /\ LateRefused'
<1>1. \A t \in Tokens : Refusable(t) => Refusable(t)'
  BY DEF Ages, Refusable, Live
<1>2. ASSUME UNCHANGED <<doing, want, served, tooLate>> PROVE OpenedOnce' /\ LateRefused'
  <2>1. LateRefused'
    BY <1>2 DEF TokensIInv, LateRefused, RestOK, Ages
  <2>2. \A d \in Downloads : doing[d] = "claim" => tok'[want[d]].once
    BY DEF TokensIInv, OpenedOnce, RestOK, Ages
  <2>3. \A t \in Tokens : /\ tok'[t].once = tok[t].once
                          /\ tok'[t].row = "live" => tok[t].row = "live"
                          /\ tok'[t].row = "none" => tok[t].row = "none"
    BY DEF Ages
  <2>4. OpenedOnce'
    BY <1>2, <2>2, <2>3 DEF TokensIInv, OpenedOnce, Untouched, Opening
  <2> QED BY <2>1, <2>4
<1> QED BY <1>1, <1>2

LEMMA RevokeTokenKeeps ==
    ASSUME TokensAssumption, TokensIInv, NEW t \in Tokens, NEW r \in Replicas,
           RevokeCapability(t, r)
    PROVE  TokensIInv'
<1>1. PICK newRow : newRow = [tok[t] EXCEPT !.revoked = TRUE] OBVIOUS
<1>2. tok[t] \in TokenRow /\ tok[t].row = "live"
  BY DEF TokensIInv, RestOK, RevokeCapability, Live
<1>3. Ages(tok[t], newRow) /\ newRow.revoked /\ newRow.row = "live" BY <1>1, <1>2 DEF TokenRow, Ages
<1>4. tok' = [tok EXCEPT ![t] = newRow] BY <1>1 DEF RevokeCapability
<1>5. /\ tok' \in [Tokens -> TokenRow] /\ tok'[t] = newRow
      /\ \A u \in Tokens : Ages(tok[u], tok'[u])
  BY <1>3, <1>4 DEF TokensIInv, RestOK, Ages
<1>6. UNCHANGED <<blob, doing, want, served, tooLate>> /\ Remember(r, t)
  BY DEF RevokeCapability
<1>7. OpenedOnce' /\ LateRefused' /\ \A u \in Tokens : Refusable(u) => Refusable(u)'
  BY <1>5, <1>6, RowsAge
<1>8. CacheOK' /\ \A q \in Replicas, u \in Tokens : Cached(q, u)' => Cached(q, u) \/ u = t
  BY <1>6, Remembers DEF TokensIInv
<1>9. CachedRefusable'
  BY <1>3, <1>5, <1>7, <1>8 DEF TokensIInv, CachedRefusable, Refusable
<1>10. RestOK' BY <1>5, <1>6 DEF TokensIInv, RestOK
<1> QED BY <1>7, <1>8, <1>9, <1>10 DEF TokensIInv

LEMMA ExpireKeeps ==
    ASSUME TokensAssumption, TokensIInv, NEW t \in Tokens, Expire(t) PROVE TokensIInv'
<1>1. PICK newRow : newRow = [tok[t] EXCEPT !.expired = TRUE] OBVIOUS
<1>2. tok[t] \in TokenRow BY DEF TokensIInv, RestOK
<1>3. Ages(tok[t], newRow) BY <1>1, <1>2 DEF TokenRow, Ages
<1>4. tok' = [tok EXCEPT ![t] = newRow] BY <1>1 DEF Expire
<1>5. /\ tok' \in [Tokens -> TokenRow]
      /\ \A u \in Tokens : Ages(tok[u], tok'[u])
  BY <1>3, <1>4 DEF TokensIInv, RestOK, Ages
<1>6. UNCHANGED <<blob, cache, doing, want, served, tooLate>> BY DEF Expire
<1>7. OpenedOnce' /\ LateRefused' /\ \A u \in Tokens : Refusable(u) => Refusable(u)'
  BY <1>5, <1>6, RowsAge
<1>8. CacheOK' /\ CachedRefusable' BY <1>6, <1>7, CacheStays
<1>9. RestOK' BY <1>5, <1>6 DEF TokensIInv, RestOK
<1> QED BY <1>7, <1>8, <1>9 DEF TokensIInv

LEMMA ArriveKeeps ==
    ASSUME TokensAssumption, TokensIInv, NEW d \in Downloads, NEW t \in Tokens, Arrive(d, t)
    PROVE  TokensIInv'
<1>1. UNCHANGED <<tok, blob, cache, served>> BY DEF Arrive
<1>2. /\ \A e \in Downloads : want'[e] = IF e = d THEN t ELSE want[e]
      /\ \A e \in Downloads : doing'[e] = IF e = d THEN "lookup" ELSE doing[e]
      /\ want' \in [Downloads -> Tokens]
      /\ doing' \in [Downloads -> {"idle", "lookup", "claim", "open", "fail", "audit"}]
  BY DEF TokensIInv, RestOK, Arrive, MoveOn
<1>3. tooLate' \subseteq Downloads BY DEF TokensIInv, RestOK, Arrive
<1>4. RestOK' BY <1>1, <1>2, <1>3 DEF TokensIInv, RestOK
<1>5. CacheOK' /\ CachedRefusable' BY <1>1, CacheStays DEF Refusable, Live
<1>6. \A u \in Tokens, e \in Downloads : Opening(e, u)' => Opening(e, u)
  BY <1>2 DEF Opening
<1>7. OpenedOnce'
  <2>1. \A u \in Tokens : tok[u].row = "none" =>
            served[u] = 0 /\ \A e \in Downloads : want'[e] = u => doing'[e] \in {"idle", "lookup"}
    BY <1>2 DEF TokensIInv, OpenedOnce
  <2>2. \A e \in Downloads : doing'[e] = "claim" => tok[want'[e]].once
    BY <1>2 DEF TokensIInv, OpenedOnce
  <2> QED BY <1>1, <1>6, <2>1, <2>2 DEF TokensIInv, OpenedOnce, Untouched
<1>8. LateRefused'
  <2>1. \A e \in tooLate' : e # d => e \in tooLate BY DEF Arrive
  <2>2. d \in tooLate' => tok[t].revoked BY DEF Arrive
  <2> QED BY <1>1, <1>2, <1>3, <2>1, <2>2 DEF TokensIInv, LateRefused, RestOK
<1> QED BY <1>4, <1>5, <1>7, <1>8 DEF TokensIInv

LEMMA LookupKeeps ==
    ASSUME TokensAssumption, TokensIInv, NEW d \in Downloads, Lookup(d) PROVE TokensIInv'
<1>0. PICK t : t = want[d] OBVIOUS
<1>1. t \in Tokens /\ HostOf[d] \in Replicas /\ doing[d] = "lookup"
  BY <1>0 DEF TokensIInv, RestOK, TokensAssumption, Lookup
<1>2. UNCHANGED <<tok, blob, want, served, tooLate>> BY DEF Lookup
<1>3. /\ \E s \in {"idle", "claim", "open"} :
            /\ MoveOn(d, s)
            /\ s = "claim" => Live(t) /\ tok[t].once /\ ~tok[t].revoked
            /\ s = "open" => Live(t) /\ ~tok[t].once /\ ~tok[t].revoked
      /\ \/ UNCHANGED cache
         \/ Remember(HostOf[d], t) /\ Refusable(t)
  BY <1>0 DEF Lookup, Refuse, Refusable, Live
<1>4. PICK s \in {"idle", "claim", "open"} :
            /\ MoveOn(d, s)
            /\ s = "claim" => Live(t) /\ tok[t].once /\ ~tok[t].revoked
            /\ s = "open" => Live(t) /\ ~tok[t].once /\ ~tok[t].revoked
  BY <1>3
<1>5. OpenedOnce' /\ LateRefused' /\ doing' \in [Downloads ->
               {"idle", "lookup", "claim", "open", "fail", "audit"}]
  BY <1>0, <1>1, <1>2, <1>4, Walks DEF Live
<1>6. RestOK' BY <1>2, <1>5 DEF TokensIInv, RestOK
<1>7. \A u \in Tokens : Refusable(u) = Refusable(u)' BY <1>2 DEF Refusable, Live
<1>8. CacheOK' /\ CachedRefusable'
  <2>1. CASE UNCHANGED cache BY <2>1, <1>7, CacheStays
  <2>2. CASE Remember(HostOf[d], t) /\ Refusable(t)
    <3>1. CacheOK' /\ \A q \in Replicas, u \in Tokens : Cached(q, u)' => Cached(q, u) \/ u = t
      BY <1>1, <2>2, Remembers DEF TokensIInv
    <3> QED BY <1>7, <2>2, <3>1 DEF TokensIInv, CachedRefusable
  <2> QED BY <1>3, <2>1, <2>2
<1> QED BY <1>5, <1>6, <1>8 DEF TokensIInv

(* The DELETE whose count is one makes the row "consumed": nobody else     *)
(* opens this token.                                                       *)
LEMMA ClaimKeeps ==
    ASSUME TokensAssumption, TokensIInv, NEW d \in Downloads, Claim(d) PROVE TokensIInv'
<1>0. PICK t : t = want[d] OBVIOUS
<1>1. t \in Tokens /\ HostOf[d] \in Replicas /\ doing[d] = "claim" /\ tok[t].once
      /\ tok[t].row # "none" /\ d \notin tooLate
  BY <1>0 DEF TokensIInv, RestOK, TokensAssumption, Claim, OpenedOnce, LateRefused
<1>2. UNCHANGED <<blob, want, served, tooLate>> /\ Remember(HostOf[d], t)
  BY <1>0 DEF Claim
<1>3. CacheOK' /\ \A q \in Replicas, u \in Tokens : Cached(q, u)' => Cached(q, u) \/ u = t
  BY <1>1, <1>2, Remembers DEF TokensIInv
<1>4. CASE Live(t) /\ ~tok[t].revoked
  <2>1. PICK newRow : newRow = [tok[t] EXCEPT !.row = "consumed"] OBVIOUS
  <2>2. tok[t] \in TokenRow BY <1>1 DEF TokensIInv, RestOK
  <2>3. Ages(tok[t], newRow) /\ newRow.row = "consumed"
    BY <2>1, <2>2, <1>4 DEF TokenRow, Ages, Live
  <2>4. tok' = [tok EXCEPT ![t] = newRow] /\ MoveOn(d, "open")
    BY <1>0, <1>4, <2>1 DEF Claim
  <2>5. /\ tok' \in [Tokens -> TokenRow] /\ tok'[t] = newRow
        /\ \A u \in Tokens : u # t => tok'[u] = tok[u]
        /\ \A u \in Tokens : Ages(tok[u], tok'[u])
    BY <1>1, <2>3, <2>4 DEF TokensIInv, RestOK, Ages
  <2>6. \A u \in Tokens : Refusable(u) => Refusable(u)' BY <2>5, RowsAge
  <2>7. Refusable(t)' BY <2>3, <2>5 DEF Refusable, Live
  <2>8. CachedRefusable' BY <1>3, <2>6, <2>7 DEF TokensIInv, CachedRefusable
  <2>9. /\ \A e \in Downloads : doing'[e] = IF e = d THEN "open" ELSE doing[e]
        /\ doing' \in [Downloads -> {"idle", "lookup", "claim", "open", "fail", "audit"}]
    BY <2>4 DEF TokensIInv, RestOK, MoveOn
  <2>10. RestOK' BY <1>2, <2>5, <2>9 DEF TokensIInv, RestOK
  <2>11. LateRefused'
    BY <1>1, <1>2, <2>5, <2>9 DEF TokensIInv, LateRefused, RestOK, Ages
  <2>12. OpenedOnce'
    <3>1. \A u \in Tokens : tok'[u].row = "none" => served[u] = 0 /\
             \A e \in Downloads : want[e] = u => doing'[e] \in {"idle", "lookup"}
      BY <1>0, <1>1, <2>3, <2>5, <2>9 DEF TokensIInv, OpenedOnce
    <3>2. \A e \in Downloads : doing'[e] = "claim" => tok'[want[e]].once
      BY <1>1, <2>5, <2>9 DEF TokensIInv, OpenedOnce, RestOK, Ages
    <3>3. ASSUME NEW u \in Tokens, tok'[u].once
          PROVE  /\ tok'[u].row = "live" => Untouched(u)'
                 /\ served[u] \in {0, 1}
                 /\ served[u] = 1 => \A e \in Downloads : ~Opening(e, u)'
                 /\ \A e, f \in Downloads : Opening(e, u)' /\ Opening(f, u)' => e = f
      <4>1. CASE u = t
        <5>1. Untouched(t) BY <1>1, <1>4 DEF TokensIInv, OpenedOnce, Live
        <5>2. \A e \in Downloads : Opening(e, t)' => e = d
          BY <5>1, <2>9, <1>2 DEF Untouched, Opening
        <5> QED BY <4>1, <5>1, <5>2, <2>3, <2>5 DEF Untouched
      <4>2. CASE u # t
        <5>1. \A e \in Downloads : Opening(e, u)' = Opening(e, u)
          BY <4>2, <1>0, <1>2, <2>9 DEF Opening
        <5>2. tok[u].once /\ (tok'[u].row = "live" => tok[u].row = "live")
          BY <4>2, <3>3, <2>5
        <5>3. served' = served BY <1>2
        <5> QED BY <5>1, <5>2, <5>3 DEF TokensIInv, OpenedOnce, Untouched
      <4> QED BY <4>1, <4>2
    <3> QED BY <3>1, <3>2, <3>3, <1>2 DEF OpenedOnce
  <2> QED BY <1>3, <2>8, <2>10, <2>11, <2>12 DEF TokensIInv
<1>5. CASE ~(Live(t) /\ ~tok[t].revoked)
  <2>1. tok' = tok /\ MoveOn(d, "idle") BY <1>0, <1>5 DEF Claim, Refuse
  <2>2. OpenedOnce' /\ LateRefused' /\ doing' \in [Downloads ->
               {"idle", "lookup", "claim", "open", "fail", "audit"}]
    BY <1>1, <1>2, <2>1, Walks
  <2>3. RestOK' BY <1>2, <2>1, <2>2 DEF TokensIInv, RestOK
  <2>4. Refusable(t) BY <1>1, <1>5 DEF Refusable
  <2>5. CachedRefusable'
    BY <1>3, <2>1, <2>4 DEF TokensIInv, CachedRefusable, Refusable, Live
  <2> QED BY <1>3, <2>2, <2>3, <2>5 DEF TokensIInv
<1> QED BY <1>4, <1>5

LEMMA OpenKeeps ==
    ASSUME TokensAssumption, TokensIInv, NEW d \in Downloads, Open(d) PROVE TokensIInv'
<1>0. PICK t : t = want[d] OBVIOUS
<1>1. t \in Tokens /\ doing[d] = "open" /\ Opening(d, t) /\ served[t] \in Nat
  BY <1>0 DEF TokensIInv, RestOK, Open, Opening
<1>2. UNCHANGED <<tok, blob, cache, want, tooLate>> BY DEF Open
<1>3. CacheOK' /\ CachedRefusable' BY <1>2, CacheStays DEF Refusable, Live
<1>4. CASE MoveOn(d, "fail") /\ UNCHANGED served
  <2>1. OpenedOnce' /\ LateRefused' /\ doing' \in [Downloads ->
               {"idle", "lookup", "claim", "open", "fail", "audit"}]
    BY <1>1, <1>2, <1>4, Walks
  <2>2. RestOK' BY <1>2, <1>4, <2>1 DEF TokensIInv, RestOK
  <2> QED BY <1>3, <2>1, <2>2 DEF TokensIInv
<1>5. CASE /\ served' = [served EXCEPT ![t] = @ + 1]
           /\ MoveOn(d, IF tok[t].once THEN "idle" ELSE "audit")
  <2>1. PICK s \in {"idle", "audit"} : MoveOn(d, s) BY <1>5
  <2>2. /\ \A e \in Downloads : doing'[e] = IF e = d THEN s ELSE doing[e]
        /\ doing' \in [Downloads -> {"idle", "lookup", "claim", "open", "fail", "audit"}]
    BY <2>1 DEF TokensIInv, RestOK, MoveOn
  <2>3. PICK n \in Nat : n = served[t] + 1 BY <1>1
  <2>4. served' = [served EXCEPT ![t] = n] BY <1>5, <2>3
  <2>5. /\ \A u \in Tokens : served'[u] = IF u = t THEN n ELSE served[u]
        /\ served' \in [Tokens -> Nat]
    BY <2>4 DEF TokensIInv, RestOK
  <2>6. RestOK' BY <1>2, <2>2, <2>5 DEF TokensIInv, RestOK
  <2>7. tok[t].row # "none" BY <1>0, <1>1 DEF TokensIInv, OpenedOnce
  <2>8. \A u \in Tokens, e \in Downloads : Opening(e, u)' => Opening(e, u) /\ e # d
    BY <1>2, <2>1, <2>2 DEF Opening
  <2>9. ASSUME tok[t].once
        PROVE  tok[t].row # "live" /\ n = 1 /\ \A e \in Downloads : ~Opening(e, t)'
    <3>1. tok[t].row # "live" BY <1>1, <2>9 DEF TokensIInv, OpenedOnce, Untouched
    <3>2. served[t] = 0 BY <1>1, <2>9 DEF TokensIInv, OpenedOnce
    <3>3. n = 1 BY <3>2, <2>3
    <3>4. \A e \in Downloads : ~Opening(e, t)'
      BY <1>1, <2>8, <2>9 DEF TokensIInv, OpenedOnce
    <3> QED BY <3>1, <3>3, <3>4
  <2>10. OpenedOnce'
    <3>1. \A u \in Tokens : tok[u].row = "none" => served'[u] = 0 /\
             \A e \in Downloads : want[e] = u => doing'[e] \in {"idle", "lookup"}
      BY <1>0, <2>2, <2>5, <2>7 DEF TokensIInv, OpenedOnce
    <3>2. \A e \in Downloads : doing'[e] = "claim" => tok[want[e]].once
      BY <2>2 DEF TokensIInv, OpenedOnce
    <3>3. ASSUME NEW u \in Tokens, tok[u].once
          PROVE  /\ tok[u].row = "live" => Untouched(u)'
                 /\ served'[u] \in {0, 1}
                 /\ served'[u] = 1 => \A e \in Downloads : ~Opening(e, u)'
                 /\ \A e, f \in Downloads : Opening(e, u)' /\ Opening(f, u)' => e = f
      <4>1. CASE u = t BY <4>1, <3>3, <2>5, <2>9
      <4>2. CASE u # t BY <4>2, <3>3, <2>5, <2>8 DEF TokensIInv, OpenedOnce, Untouched
      <4> QED BY <4>1, <4>2
    <3> QED BY <3>1, <3>2, <3>3, <1>2 DEF OpenedOnce
  <2>11. LateRefused'
    <3>1. d \notin tooLate BY <1>1 DEF TokensIInv, LateRefused
    <3> QED BY <3>1, <1>2, <2>2 DEF TokensIInv, LateRefused, RestOK
  <2> QED BY <1>3, <2>6, <2>10, <2>11 DEF TokensIInv
<1> QED BY <1>0, <1>4, <1>5 DEF Open

LEMMA AnsweredKeeps ==
    ASSUME TokensAssumption, TokensIInv, NEW d \in Downloads, Fail(d) \/ Audit(d)
    PROVE  TokensIInv'
<1>1. UNCHANGED <<tok, cache, want, served, tooLate>> /\ MoveOn(d, "idle") /\ doing[d] # "idle"
  BY DEF Fail, Audit, Refuse
<1>2. blob' \in [ready : BOOLEAN, bytes : BOOLEAN]
  <2>1. blob \in [ready : BOOLEAN, bytes : BOOLEAN] BY DEF TokensIInv, RestOK
  <2>2. CASE Fail(d) BY <2>1, <2>2 DEF Fail
  <2>3. CASE Audit(d) BY <2>1, <2>3 DEF Audit
  <2> QED BY <2>2, <2>3
<1>3. CacheOK' /\ CachedRefusable' BY <1>1, CacheStays DEF Refusable, Live
<1>4. OpenedOnce' /\ LateRefused' /\ doing' \in [Downloads ->
               {"idle", "lookup", "claim", "open", "fail", "audit"}]
  BY <1>1, Walks
<1>5. RestOK' BY <1>1, <1>2, <1>4 DEF TokensIInv, RestOK
<1> QED BY <1>3, <1>4, <1>5 DEF TokensIInv

LEMMA BlobKeeps ==
    ASSUME TokensAssumption, TokensIInv, LoseBytes \/ LoseBlob PROVE TokensIInv'
<1>1. UNCHANGED <<tok, cache, doing, want, served, tooLate>> BY DEF LoseBytes, LoseBlob
<1>2. blob' \in [ready : BOOLEAN, bytes : BOOLEAN]
  <2>1. blob \in [ready : BOOLEAN, bytes : BOOLEAN] BY DEF TokensIInv, RestOK
  <2>2. CASE LoseBytes BY <2>1, <2>2 DEF LoseBytes
  <2>3. CASE LoseBlob BY <2>1, <2>3 DEF LoseBlob
  <2> QED BY <2>2, <2>3
<1>3. CacheOK' /\ CachedRefusable' BY <1>1, CacheStays DEF Refusable, Live
<1>4. RestOK' BY <1>1, <1>2 DEF TokensIInv, RestOK
<1>5. OpenedOnce' BY <1>1 DEF TokensIInv, OpenedOnce, Untouched, Opening
<1>6. LateRefused' BY <1>1 DEF TokensIInv, LateRefused
<1> QED BY <1>3, <1>4, <1>5, <1>6 DEF TokensIInv

LEMMA PurgeBlobKeeps ==
    ASSUME TokensAssumption, TokensIInv, PurgeBlob PROVE TokensIInv'
<1>1. \A t \in Tokens : Ages(tok[t], tok'[t])
  <2> TAKE t \in Tokens
  <2>1. tok[t] \in TokenRow BY DEF TokensIInv, RestOK
  <2>2. CASE Live(t)
    <3>1. PICK newRow : newRow = [tok[t] EXCEPT !.row = "purged"] OBVIOUS
    <3>2. tok'[t] = newRow BY <2>2, <3>1 DEF PurgeBlob
    <3>3. Ages(tok[t], newRow) BY <2>1, <2>2, <3>1 DEF TokenRow, Ages, Live
    <3> QED BY <3>2, <3>3
  <2>3. CASE ~Live(t)
    <3>1. tok'[t] = tok[t] BY <2>3 DEF PurgeBlob
    <3> QED BY <2>1, <3>1 DEF Ages
  <2> QED BY <2>2, <2>3
<1>2. tok' \in [Tokens -> TokenRow]
  <2>1. DOMAIN tok' = Tokens /\ tok' = [t \in Tokens |-> tok'[t]] BY DEF PurgeBlob
  <2> QED BY <1>1, <2>1 DEF Ages
<1>3. UNCHANGED <<blob, cache, doing, want, served, tooLate>> BY DEF PurgeBlob
<1>4. OpenedOnce' /\ LateRefused' /\ \A u \in Tokens : Refusable(u) => Refusable(u)'
  BY <1>1, <1>2, <1>3, RowsAge
<1>5. CacheOK' /\ CachedRefusable' BY <1>3, <1>4, CacheStays
<1>6. RestOK' BY <1>2, <1>3 DEF TokensIInv, RestOK
<1> QED BY <1>4, <1>5, <1>6 DEF TokensIInv

LEMMA RestartReplicaKeeps ==
    ASSUME TokensAssumption, TokensIInv, NEW r \in Replicas, RestartReplica(r)
    PROVE  TokensIInv'
<1>1. UNCHANGED <<tok, blob, want, served, tooLate>> BY DEF RestartReplica
<1>2. /\ \A e \in Downloads : doing'[e] = doing[e] \/ doing'[e] = "idle"
      /\ doing' \in [Downloads -> {"idle", "lookup", "claim", "open", "fail", "audit"}]
  BY DEF TokensIInv, RestOK, RestartReplica
<1>3. RestOK' BY <1>1, <1>2 DEF TokensIInv, RestOK
<1>4. \A q \in Replicas : cache'[q] = IF q = r THEN << >> ELSE cache[q]
  BY DEF TokensIInv, CacheOK, RestartReplica
<1>5. CacheOK'
  BY <1>4, TokensAssumption DEF TokensIInv, CacheOK, RestartReplica, TokensAssumption
<1>6. \A q \in Replicas, u \in Tokens : Cached(q, u)' => Cached(q, u)
  BY <1>4 DEF Cached
<1>7. CachedRefusable' BY <1>1, <1>6 DEF TokensIInv, CachedRefusable, Refusable, Live
<1>8. \A u \in Tokens, e \in Downloads : Opening(e, u)' => Opening(e, u)
  BY <1>1, <1>2 DEF Opening
<1>9. OpenedOnce'
  <2>1. \A u \in Tokens : tok[u].row = "none" => served[u] = 0 /\
             \A e \in Downloads : want[e] = u => doing'[e] \in {"idle", "lookup"}
    BY <1>2 DEF TokensIInv, OpenedOnce
  <2>2. \A e \in Downloads : doing'[e] = "claim" => tok[want[e]].once
    BY <1>2 DEF TokensIInv, OpenedOnce
  <2> QED BY <1>1, <1>8, <2>1, <2>2 DEF TokensIInv, OpenedOnce, Untouched
<1>10. LateRefused' BY <1>1, <1>2 DEF TokensIInv, LateRefused, RestOK
<1> QED BY <1>3, <1>5, <1>7, <1>9, <1>10 DEF TokensIInv

LEMMA TokensStep ==
    ASSUME TokensAssumption, TokensIInv, [TokensNext]_tokensVars PROVE TokensIInv'
<1>1. ASSUME NEW t \in Tokens, NEW once \in BOOLEAN, Mint(t, once) PROVE TokensIInv'
  BY <1>1, MintTokenKeeps
<1>2. ASSUME NEW t \in Tokens, NEW r \in Replicas, RevokeCapability(t, r) PROVE TokensIInv'
  BY <1>2, RevokeTokenKeeps
<1>3. ASSUME NEW t \in Tokens, Expire(t) PROVE TokensIInv' BY <1>3, ExpireKeeps
<1>4. ASSUME NEW t \in Tokens, NEW d \in Downloads, Arrive(d, t) PROVE TokensIInv'
  BY <1>4, ArriveKeeps
<1>5. ASSUME NEW d \in Downloads, DownloadStep(d) PROVE TokensIInv'
  BY <1>5, LookupKeeps, ClaimKeeps, OpenKeeps, AnsweredKeeps DEF DownloadStep
<1>6. ASSUME NEW r \in Replicas, RestartReplica(r) PROVE TokensIInv'
  BY <1>6, RestartReplicaKeeps
<1>7. CASE UNCHANGED tokensVars
  <2> USE <1>7 DEF tokensVars, TokensIInv
  <2>1. RestOK' BY DEF RestOK
  <2>2. CacheOK' /\ CachedRefusable' BY DEF CacheOK, CachedRefusable, Cached, Refusable, Live
  <2>3. OpenedOnce' BY DEF OpenedOnce, Untouched, Opening
  <2>4. LateRefused' BY DEF LateRefused
  <2> QED BY <2>1, <2>2, <2>3, <2>4
<1> QED BY <1>1, <1>2, <1>3, <1>4, <1>5, <1>6, <1>7, BlobKeeps, PurgeBlobKeeps DEF TokensNext

LEMMA TokensImplies == ASSUME TokensIInv PROVE TokensInv
<1>1. TokensTypeOK BY DEF TokensIInv, RestOK, CacheOK, TokensTypeOK
<1>2. OnceServesOnce BY DEF TokensIInv, OpenedOnce, OnceServesOnce
<1>3. RevocationHolds BY DEF TokensIInv, LateRefused, RevocationHolds
<1>4. CacheIsSound BY DEF TokensIInv, CachedRefusable, CacheIsSound, Refusable
<1> QED BY <1>1, <1>2, <1>3, <1>4 DEF TokensInv

(* On any number of replicas and for any interleaving of their downloads,  *)
(* a single-use token serves once, a revoked one serves nobody who comes   *)
(* after the revocation, and no cache refuses a token that is good.        *)
THEOREM TokensSound == TokensSpec => []TokensInv
<1>1. TokensInit => TokensIInv BY TokensAssumption, TokensStart
<1>2. TokensIInv /\ [TokensNext]_tokensVars => TokensIInv' BY TokensAssumption, TokensStep
<1>3. TokensIInv => TokensInv BY TokensImplies
<1> QED BY <1>1, <1>2, <1>3, PTL DEF TokensSpec
-----------------------------------------------------------------------------
(***************************************************************************)
(* Attachments.  Bytes and row are changed in separate steps by whoever    *)
(* holds the id, and by the client through the URL.  What keeps a row from *)
(* being ready on bytes nobody checked is that only a confirm that has seen*)
(* the right ones, or the upload that has put them behind no URL, goes on  *)
(* to the commit; what a confirm has seen may be replaced afterwards.      *)
(***************************************************************************)
(* The bytes of a row are settled: its key is set, and unless a confirm has*)
(* found them good, nobody may PUT any and they are not wrong.             *)
Closed(b) == row[b].keyed /\ (row[b].url \/ stored[b] = "bad" => b \in checked)

(* Nothing is stored under a key that is not set; only settled bytes are   *)
(* ready.                                                                  *)
RowSettled(b) ==
    /\ row[b].status = "none" => ~row[b].keyed
    /\ ~row[b].keyed => stored[b] = "none"
    /\ row[b].url => row[b].keyed
    /\ Ready(b) => Closed(b)

(* An upload works on its own row, and from store.put on, that is settled; *)
(* so is what a confirm has checked.                                       *)
JobSettled(r) ==
    LET b == job[r].blob
        checks == {"quota", "list", "evict", "evicted", "scope"}
    IN  /\ at[r] \in {"create", "key", "put"} \cup checks =>
              job[r].kind \in {"upload", "presign"}
        /\ at[r] = "key" => b \in Blobs /\ row[b].status # "none" /\ ~row[b].keyed
        /\ at[r] = "put" => job[r].kind = "upload"
        /\ at[r] \in {"put", "scan", "stamp", "commit"} \/ (at[r] \in checks /\ job[r].kind = "upload")
              => b \in Blobs /\ Closed(b)
        /\ at[r] = "head" => b \in Blobs

OwnKeys ==
    \A r, s \in Requests :
        at[r] = "key" /\ at[s] = "key" /\ job[r].blob = job[s].blob => r = s

JobIn(T) ==
    [kind : {"upload", "presign", "other"}, size : Sizes \cup {0},
     scope : {"agent", "pane"}, blob : Blobs \cup {0}, keyed : BOOLEAN,
     total : T, victims : SUBSET (Blobs \X BOOLEAN), summed : SUBSET Blobs]

(* The sums of bytes are of no concern here, whatever set they are in.     *)
AttachmentsTyped ==
    /\ row \in [Blobs -> AttachmentRow]
    /\ stored \in [Blobs -> {"none", "good", "bad"}]
    /\ checked \subseteq Blobs
    /\ at \in [Requests -> Steps]
    /\ \E T : job \in [Requests -> JobIn(T)]

AttInv ==
    /\ AttachmentsTyped /\ OwnKeys
    /\ \A b \in Blobs : RowSettled(b)
    /\ \A r \in Requests : JobSettled(r)

LEMMA AttInvInit == AttachmentsInit => AttInv
<1> SUFFICES ASSUME AttachmentsInit PROVE AttInv
  OBVIOUS
<1>1. NoRow \in AttachmentRow /\ NoJob \in JobIn({0}) /\ NoRow.status = "none"
      /\ NoRow.keyed = FALSE /\ NoRow.url = FALSE
  BY DEF NoRow, AttachmentRow, NoJob, JobIn
<1>2. AttachmentsTyped
  BY <1>1 DEF AttachmentsInit, AttachmentsTyped, Steps
<1>3. \A r \in Requests : at[r] = "idle"
  BY DEF AttachmentsInit
<1>4. \A b \in Blobs : row[b] = NoRow /\ stored[b] = "none"
  BY DEF AttachmentsInit
<1>5. \A b \in Blobs : RowSettled(b)
  BY <1>1, <1>4 DEF RowSettled, Ready
<1> QED BY <1>2, <1>3, <1>5 DEF AttInv, OwnKeys, JobSettled

(* The table and the store may change as long as nothing settled becomes   *)
(* unsettled, and a key is set by none but its upload, one of K.           *)
Tame(K) ==
    /\ row' \in [Blobs -> AttachmentRow]
    /\ stored' \in [Blobs -> {"none", "good", "bad"}]
    /\ checked' \subseteq Blobs
    /\ \A b \in Blobs :
          /\ RowSettled(b)'
          /\ Closed(b) => Closed(b)'
          /\ row[b].status # "none" => row'[b].status # "none"
          /\ \/ row'[b].keyed = row[b].keyed
             \/ \E r \in Requests \cap K : at[r] = "key" /\ job[r].blob = b

LEMMA BystandersSettled ==
  ASSUME AttInv, NEW K, Tame(K), NEW r \in Requests \ K,
         at'[r] = at[r], job'[r] = job[r]
  PROVE  JobSettled(r)'
<1>1. JobSettled(r) /\ OwnKeys
  BY DEF AttInv
<1>2. at[r] = "key" => job[r].blob \in Blobs /\ row'[job[r].blob].status # "none"
                       /\ ~row'[job[r].blob].keyed
  BY <1>1 DEF Tame, JobSettled, OwnKeys
<1>3. \A b \in Blobs : Closed(b) => Closed(b)'
  BY DEF Tame
<1> QED BY <1>1, <1>2, <1>3 DEF JobSettled, Closed

(* No request moves.                                                       *)
LEMMA TableStep ==
  ASSUME AttInv, Tame({}), UNCHANGED <<at, job>>
  PROVE  AttInv'
<1>1. \A r \in Requests : JobSettled(r)'
  BY BystandersSettled
<1>2. \A b \in Blobs : RowSettled(b)'
  BY DEF Tame
<1> QED BY <1>1, <1>2 DEF AttInv, AttachmentsTyped, OwnKeys, Tame

(* What a request must know when it is about to take a step.               *)
StepAllowed(step, j) ==
    LET checks == {"quota", "list", "evict", "evicted", "scope"}
    IN  /\ step \in {"create", "key", "put"} \cup checks => j.kind \in {"upload", "presign"}
        /\ step = "put" => j.kind = "upload"
        /\ step \in {"put", "scan", "stamp", "commit"} \/ (step \in checks /\ j.kind = "upload")
              => j.blob \in Blobs /\ Closed(j.blob)
        /\ step = "head" => j.blob \in Blobs

(* One request moves.                                                      *)
LEMMA RequestMoves ==
  ASSUME AttInv, NEW r \in Requests, Tame({r}), NEW step \in Steps, GoOn(r, step),
         NEW T, NEW j \in JobIn(T), job' = [job EXCEPT ![r] = j], StepAllowed(step, j)',
         step = "key" => /\ j.blob \in Blobs /\ row'[j.blob].status # "none"
                         /\ ~row'[j.blob].keyed
                         /\ \A s \in Requests \ {r} : at[s] = "key" => job[s].blob # j.blob
  PROVE  AttInv'
<1>1. PICK U : job \in [Requests -> JobIn(U)] /\ at \in [Requests -> Steps]
  BY DEF AttInv, AttachmentsTyped
<1>2. /\ at'[r] = step /\ job'[r] = j
      /\ \A s \in Requests \ {r} : at'[s] = at[s] /\ job'[s] = job[s]
  BY <1>1 DEF GoOn
<1>3. AttachmentsTyped'
  <2>1. PICK V : V = U \cup T
    OBVIOUS
  <2>2. JobIn(U) \subseteq JobIn(V) /\ JobIn(T) \subseteq JobIn(V)
    BY <2>1 DEF JobIn
  <2>3. job' \in [Requests -> JobIn(V)]
    BY <1>1, <2>2
  <2>4. at' \in [Requests -> Steps]
    BY <1>1 DEF GoOn
  <2> QED BY <2>3, <2>4 DEF AttachmentsTyped, Tame
<1>4. \A s \in Requests \ {r} : JobSettled(s)'
  BY <1>2, BystandersSettled
<1>5. JobSettled(r)'
  BY <1>2 DEF JobSettled, StepAllowed, Closed
<1>6. OwnKeys'
  BY <1>2 DEF AttInv, OwnKeys
<1> QED BY <1>3, <1>4, <1>5, <1>6 DEF AttInv, Tame

LEMMA RequestEnds ==
  ASSUME AttInv, NEW r \in Requests, Tame({r}), Done(r)
  PROVE  AttInv'
<1>1. PICK j : j = NoJob
  OBVIOUS
<1>2. j \in JobIn({0}) /\ job' = [job EXCEPT ![r] = j] /\ GoOn(r, "idle")
  BY <1>1 DEF JobIn, NoJob, Done
<1>3. StepAllowed("idle", j)' /\ "idle" \in Steps
  BY DEF StepAllowed, Steps
<1> QED BY <1>2, <1>3, RequestMoves

LEMMA RequestGoesOn ==
  ASSUME AttInv, NEW r \in Requests, Tame({r}), NEW step \in Steps \ {"key"}, GoOn(r, step),
         UNCHANGED job, NEW j, j = job[r], StepAllowed(step, j)'
  PROVE  AttInv'
<1>1. PICK T : job \in [Requests -> JobIn(T)]
  BY DEF AttInv, AttachmentsTyped
<1>2. j \in JobIn(T) /\ job' = [job EXCEPT ![r] = j]
  BY <1>1
<1> QED BY <1>2, RequestMoves

-----------------------------------------------------------------------------
LEMMA StillTame ==
  ASSUME AttInv, UNCHANGED <<row, stored, checked>>, NEW K
  PROVE  Tame(K)
BY DEF AttInv, AttachmentsTyped, Tame, RowSettled, Closed, Ready

(* A confirm has found the bytes of v good.                                *)
LEMMA CheckTame ==
  ASSUME AttInv, UNCHANGED <<row, stored>>, NEW v \in Blobs, NEW K,
         checked' = checked \cup {v}
  PROVE  Tame(K)
<1>1. AttachmentsTyped /\ \A b \in Blobs : RowSettled(b)
  BY DEF AttInv
<1>2. checked' \subseteq Blobs
  BY <1>1 DEF AttachmentsTyped
<1>3. \A b \in Blobs : RowSettled(b)' /\ (Closed(b) => Closed(b)')
  BY <1>1 DEF RowSettled, Closed, Ready
<1> QED BY <1>1, <1>2, <1>3 DEF AttachmentsTyped, Tame

(* Bytes go.                                                               *)
LEMMA UnstoreTame ==
  ASSUME AttInv, UNCHANGED <<row, checked>>, NEW v, NEW k, Unstore(v, k), NEW K
  PROVE  Tame(K)
<1>1. AttachmentsTyped /\ \A b \in Blobs : RowSettled(b)
  BY DEF AttInv
<1>2. /\ stored' \in [Blobs -> {"none", "good", "bad"}]
      /\ \A b \in Blobs : stored'[b] \in {stored[b], "none"}
  BY <1>1 DEF AttachmentsTyped, Unstore
<1>3. \A b \in Blobs : Closed(b) => Closed(b)'
  BY <1>2 DEF Closed
<1>4. \A b \in Blobs : RowSettled(b)'
  BY <1>1, <1>2, <1>3 DEF RowSettled, Ready
<1> QED BY <1>1, <1>2, <1>3, <1>4 DEF AttachmentsTyped, Tame

(* One row and its bytes change.                                           *)
LEMMA RowTame ==
  ASSUME AttInv, NEW K, NEW v \in Blobs,
         NEW q \in AttachmentRow, row' = [row EXCEPT ![v] = q],
         NEW bytes \in {"none", "good", "bad"}, stored' = [stored EXCEPT ![v] = bytes],
         UNCHANGED checked, q.status # "none",
         ~q.keyed => bytes = "none",
         q.url => q.keyed,
         q.status = "ready" \/ Closed(v) =>
            q.keyed /\ (q.url \/ bytes = "bad" => v \in checked),
         \/ q.keyed = row[v].keyed
         \/ \E r \in Requests \cap K : at[r] = "key" /\ job[r].blob = v
  PROVE  Tame(K)
<1>1. AttachmentsTyped /\ \A b \in Blobs : RowSettled(b)
  BY DEF AttInv
<1>2. /\ row' \in [Blobs -> AttachmentRow] /\ row'[v] = q
      /\ stored' \in [Blobs -> {"none", "good", "bad"}] /\ stored'[v] = bytes
      /\ \A b \in Blobs \ {v} : row'[b] = row[b] /\ stored'[b] = stored[b]
  BY <1>1 DEF AttachmentsTyped
<1>3. RowSettled(v)' /\ (Closed(v) => Closed(v)')
  BY <1>2 DEF RowSettled, Closed, Ready
<1>4. \A b \in Blobs \ {v} : RowSettled(b)' /\ (Closed(b) => Closed(b)')
  BY <1>1, <1>2 DEF RowSettled, Closed, Ready
<1> QED BY <1>1, <1>2, <1>3, <1>4 DEF AttachmentsTyped, Tame

(* A row of which only status and deletedAt change.                        *)
LEMMA StatusTame ==
  ASSUME AttInv, UNCHANGED <<stored, checked>>, NEW K,
         row' \in [Blobs -> AttachmentRow],
         \A b \in Blobs :
            \/ row'[b] = row[b]
            \/ /\ row'[b].keyed = row[b].keyed /\ row'[b].url = row[b].url
               /\ row'[b].status # "none" /\ row[b].status # "none"
               /\ row'[b].status = "ready" => Closed(b)
  PROVE  Tame(K)
<1>1. AttachmentsTyped /\ \A b \in Blobs : RowSettled(b)
  BY DEF AttInv
<1>2. \A b \in Blobs : Closed(b) => Closed(b)'
  BY DEF Closed
<1>3. \A b \in Blobs : RowSettled(b)'
  BY <1>1 DEF RowSettled, Closed, Ready
<1> QED BY <1>1, <1>2, <1>3 DEF AttachmentsTyped, Tame

LEMMA SetStatusTame ==
  ASSUME AttInv, UNCHANGED <<stored, checked>>, NEW K, NEW v, NEW status \in {"ready", "failed"},
         SetStatus(v, status), status = "ready" => v \in Blobs /\ Closed(v)
  PROVE  Tame(K)
<1>1. row \in [Blobs -> AttachmentRow]
  BY DEF AttInv, AttachmentsTyped
<1>2. CASE Exists(v)
  <2>1. row' = [row EXCEPT ![v].status = status]
    BY <1>2 DEF SetStatus
  <2>2. \A q \in AttachmentRow :
           LET p == [q EXCEPT !.status = status]
           IN  /\ p \in AttachmentRow /\ p.keyed = q.keyed /\ p.url = q.url
               /\ p.status = status
    BY DEF AttachmentRow
  <2>3. row' \in [Blobs -> AttachmentRow]
    BY <1>1, <2>1, <2>2
  <2>4. \A b \in Blobs : b # v => row'[b] = row[b]
    BY <1>1, <2>1
  <2>5. v \in Blobs => /\ row'[v].keyed = row[v].keyed /\ row'[v].url = row[v].url
                       /\ row'[v].status = status /\ row[v].status # "none"
    BY <1>1, <1>2, <2>1, <2>2 DEF Exists
  <2> QED BY <2>3, <2>4, <2>5, StatusTame
<1>3. CASE ~Exists(v)
  BY <1>3, StillTame DEF SetStatus
<1> QED BY <1>2, <1>3

LEMMA MarkTame ==
  ASSUME AttInv, UNCHANGED <<stored, checked>>, NEW K, NEW v, Exists(v),
         row' = [row EXCEPT ![v].status = "deleted", ![v].deletedAt = TRUE]
  PROVE  Tame(K)
<1>1. row \in [Blobs -> AttachmentRow]
  BY DEF AttInv, AttachmentsTyped
<1>2. CASE v \in Blobs
  <2>1. PICK q : q = row[v]
    OBVIOUS
  <2>2. PICK p : p = [q EXCEPT !.status = "deleted", !.deletedAt = TRUE]
    OBVIOUS
  <2>3. q \in AttachmentRow
    BY <1>1, <1>2, <2>1
  <2>4. p \in AttachmentRow /\ p.keyed = q.keyed /\ p.url = q.url /\ p.status = "deleted"
    BY <2>2, <2>3 DEF AttachmentRow
  <2>5. row' = [row EXCEPT ![v] = p]
    BY <2>1, <2>2
  <2>6. row' \in [Blobs -> AttachmentRow] /\ \A b \in Blobs : b # v => row'[b] = row[b]
    BY <1>1, <2>4, <2>5
  <2>7. row'[v] = p /\ row[v].status # "none"
    BY <1>1, <1>2, <2>5 DEF Exists
  <2> QED BY <2>1, <2>4, <2>6, <2>7, StatusTame
<1>3. CASE v \notin Blobs
  <2>1. row' = row
    BY <1>1, <1>3
  <2> QED BY <2>1, StillTame
<1> QED BY <1>2, <1>3

-----------------------------------------------------------------------------
LEMMA JobFacts ==
  ASSUME AttInv, NEW r \in Requests
  PROVE  /\ JobSettled(r)
         /\ \E T : job[r] \in JobIn(T)
BY DEF AttInv, AttachmentsTyped

(* A handler that starts on an existing row.                               *)
LEMMA OpensConfirm ==
  ASSUME AttInv, NEW r \in Requests, NEW b \in Blobs, UNCHANGED <<row, stored, checked>>,
         NEW step \in {"head", "unlink", "fetch"}, OpenConfirm(r, b, step)
  PROVE  AttInv'
<1>1. PICK k : k = row[b].keyed
  OBVIOUS
<1>2. k \in BOOLEAN
  BY <1>1 DEF AttInv, AttachmentsTyped, AttachmentRow
<1>3. PICK j : j = [NoJob EXCEPT !.blob = b, !.keyed = k]
  OBVIOUS
<1>4. j \in JobIn({0}) /\ j.blob = b
  BY <1>2, <1>3 DEF NoJob, JobIn
<1>5. job' = [job EXCEPT ![r] = j] /\ GoOn(r, step)
  BY <1>1, <1>3 DEF OpenConfirm
<1>6. StepAllowed(step, j)' /\ step \in Steps /\ step # "key"
  BY <1>4 DEF StepAllowed, Steps
<1>7. Tame({r})
  BY StillTame
<1> QED BY <1>4, <1>5, <1>6, <1>7, RequestMoves

LEMMA Refuses ==
  ASSUME AttInv, NEW r \in Requests, Tame({r}), RefuseRequest(r)
  PROVE  AttInv'
<1>1. CASE Done(r)
  BY <1>1, RequestEnds
<1>2. CASE GoOn(r, "unput") /\ UNCHANGED job
  <2>1. PICK j : j = job[r]
    OBVIOUS
  <2>2. StepAllowed("unput", j)' /\ "unput" \in Steps \ {"key"}
    BY DEF StepAllowed, Steps
  <2> QED BY <1>2, <2>1, <2>2, RequestGoesOn
<1> QED BY <1>1, <1>2 DEF RefuseRequest

-----------------------------------------------------------------------------
LEMMA BeginStep ==
  ASSUME AttInv, NEW r \in Requests, NEW kind \in Kinds, NEW size \in Sizes,
         NEW scope \in Scopes, Begin(r, kind, size, scope)
  PROVE  AttInv'
<1>1. PICK j : j = [NoJob EXCEPT !.kind = kind, !.size = size, !.scope = scope]
  OBVIOUS
<1>2. kind \in {"upload", "presign"} /\ scope \in {"agent", "pane"}
  BY AttachmentsAssumption
<1>3. j \in JobIn({0}) /\ j.kind = kind
  BY <1>1, <1>2 DEF NoJob, JobIn
<1>4. PICK step : step = IF kind = "upload" THEN "create" ELSE "quota"
  OBVIOUS
<1>5. job' = [job EXCEPT ![r] = j] /\ GoOn(r, step)
  BY <1>1, <1>4 DEF Begin
<1>6. StepAllowed(step, j)' /\ step \in Steps /\ step # "key"
  BY <1>2, <1>3, <1>4 DEF StepAllowed, Steps
<1>7. Tame({r})
  BY StillTame DEF Begin
<1> QED BY <1>3, <1>5, <1>6, <1>7, RequestMoves

LEMMA LeastOf ==
  ASSUME NEW S, S \subseteq Blobs, S # {}
  PROVE  Min(S) \in S
<1>1. S \subseteq Nat
  BY AttachmentsAssumption DEF Blobs
<1>2. \E x \in S : \A y \in S : ~ (<<y, x>> \in OpToRel(<, Nat))
  BY <1>1, NatLessThanWellFounded, WFMin
<1>3. PICK x \in S : \A y \in S : ~ (<<y, x>> \in OpToRel(<, Nat))
  BY <1>2
<1>4. \A y \in S : ~ (y < x)
  BY <1>1, <1>3 DEF OpToRel
<1>5. \A y \in S : x <= y
  BY <1>1, <1>4
<1> QED BY <1>5 DEF Min

LEMMA CreateStep ==
  ASSUME AttInv, NEW r \in Requests, Create(r)
  PROVE  AttInv'
<1> DEFINE free == {b \in Blobs : row[b].status = "none"}
<1>1. CASE Done(r) /\ UNCHANGED row
  BY <1>1, StillTame, RequestEnds DEF Create
<1>2. CASE ~(Done(r) /\ UNCHANGED row)
  <2>1. PICK b : b = Min(free)
    OBVIOUS
  <2>2. free # {}
    BY <1>2 DEF Create
  <2>3. b \in Blobs /\ row[b].status = "none"
    BY <2>1, <2>2, LeastOf
  <2>4. PICK q : q = [NoRow EXCEPT !.status = "pending", !.size = job[r].size,
                                   !.scope = job[r].scope]
    OBVIOUS
  <2>5. PICK T : job \in [Requests -> JobIn(T)]
    BY DEF AttInv, AttachmentsTyped
  <2>6. job[r].size \in Sizes \cup {0} /\ job[r].scope \in {"agent", "pane"}
    BY <2>5 DEF JobIn
  <2>7. q \in AttachmentRow /\ q.status = "pending" /\ ~q.keyed /\ ~q.url
    BY <2>4, <2>6 DEF NoRow, AttachmentRow
  <2>8. PICK i : i = job[r]
    OBVIOUS
  <2>9. PICK j : j = [i EXCEPT !.blob = b]
    OBVIOUS
  <2>10. j \in JobIn(T) /\ j.blob = b /\ j.kind = i.kind
    BY <2>3, <2>5, <2>8, <2>9 DEF JobIn
  <2>11. /\ at[r] = "create" /\ UNCHANGED <<stored, checked>> /\ GoOn(r, "key")
         /\ row' = [row EXCEPT ![b] = q]
         /\ job' = [job EXCEPT ![r] = j]
    BY <1>2, <2>1, <2>4, <2>8, <2>9 DEF Create
  <2>12. RowSettled(b) /\ AttachmentsTyped
    BY <2>3 DEF AttInv
  <2>13. ~row[b].keyed /\ stored[b] = "none" /\ ~Closed(b)
    BY <2>3, <2>12 DEF RowSettled, Closed
  <2>14. q.keyed = row[b].keyed
    BY <2>3, <2>4, <2>12, <2>13 DEF NoRow, AttachmentsTyped, AttachmentRow
  <2>15. stored' = [stored EXCEPT ![b] = "none"]
    BY <2>3, <2>11, <2>12, <2>13 DEF AttachmentsTyped
  <2>16. Tame({r})
    BY <2>3, <2>7, <2>11, <2>13, <2>14, <2>15, RowTame
  <2>17. row'[b] = q
    BY <2>3, <2>11, <2>12 DEF AttachmentsTyped
  <2>18. \A s \in Requests \ {r} : at[s] = "key" => job[s].blob # b
    BY <2>3 DEF AttInv, JobSettled
  <2>19. i.kind \in {"upload", "presign"}
    BY <2>8, <2>11, JobFacts DEF JobSettled
  <2>20. StepAllowed("key", j)' /\ "key" \in Steps
    BY <2>10, <2>19 DEF StepAllowed, Steps
  <2> QED BY <2>3, <2>7, <2>10, <2>11, <2>16, <2>17, <2>18, <2>20, RequestMoves
<1> QED BY <1>1, <1>2

LEMMA SetKeyStep ==
  ASSUME AttInv, NEW r \in Requests, SetKey(r)
  PROVE  AttInv'
<1> DEFINE b == job[r].blob
<1>1. JobSettled(r) /\ at[r] = "key"
  BY JobFacts DEF SetKey
<1>2. /\ b \in Blobs /\ row[b].status # "none" /\ ~row[b].keyed
      /\ job[r].kind \in {"upload", "presign"}
  BY <1>1 DEF JobSettled
<1>3. CASE ~Exists(b)
  BY <1>3, StillTame, RequestEnds DEF SetKey
<1>4. CASE Exists(b)
  <2>1. PICK v : v = b
    OBVIOUS
  <2>2. PICK u : u = (job[r].kind = "presign")
    OBVIOUS
  <2>3. PICK p : p = row[v]
    OBVIOUS
  <2>4. PICK q : q = [p EXCEPT !.keyed = TRUE, !.url = u]
    OBVIOUS
  <2>5. p \in AttachmentRow /\ AttachmentsTyped /\ RowSettled(v)
    BY <1>2, <2>1, <2>3 DEF AttInv, AttachmentsTyped
  <2>6. u \in BOOLEAN
    BY <2>2
  <2>7. q \in AttachmentRow /\ q.keyed /\ q.url = u /\ q.status = p.status
    BY <2>4, <2>5, <2>6 DEF AttachmentRow
  <2>8. row' = [row EXCEPT ![v] = q] /\ UNCHANGED <<stored, checked>>
    BY <1>4, <2>1, <2>2, <2>3, <2>4 DEF SetKey
  <2>9. stored[v] = "none" /\ ~Closed(v) /\ ~Ready(v)
    BY <1>2, <2>1, <2>5 DEF RowSettled, Closed
  <2>10. stored' = [stored EXCEPT ![v] = "none"]
    BY <2>5, <2>8, <2>9 DEF AttachmentsTyped
  <2>11. q.status # "ready" /\ q.status # "none"
    BY <1>2, <2>1, <2>3, <2>7, <2>9 DEF Ready
  <2>12. Tame({r})
    BY <1>1, <1>2, <2>1, <2>7, <2>8, <2>9, <2>10, <2>11, RowTame
  <2>13. CASE job[r].kind # "upload"
    BY <1>4, <2>12, <2>13, RequestEnds DEF SetKey
  <2>14. CASE job[r].kind = "upload"
    <3>1. PICK j : j = job[r]
      OBVIOUS
    <3>2. GoOn(r, "put") /\ UNCHANGED job
      BY <1>4, <2>14 DEF SetKey
    <3>3. row'[v] = q /\ ~q.url
      BY <1>2, <2>1, <2>2, <2>5, <2>7, <2>8, <2>14 DEF AttachmentsTyped
    <3>4. Closed(v)' /\ v \in Blobs
      BY <1>2, <2>1, <2>7, <2>8, <2>9, <3>3 DEF Closed
    <3>5. StepAllowed("put", j)' /\ "put" \in Steps \ {"key"}
      BY <2>1, <2>14, <3>1, <3>4 DEF StepAllowed, Steps
    <3> QED BY <2>12, <3>1, <3>2, <3>5, RequestGoesOn
  <2> QED BY <2>13, <2>14
<1> QED BY <1>3, <1>4

LEMMA PutStep ==
  ASSUME AttInv, NEW r \in Requests, Put(r)
  PROVE  AttInv'
<1>1. PICK j : j = job[r]
  OBVIOUS
<1>2. PICK v : v = j.blob
  OBVIOUS
<1>3. j.kind = "upload" /\ v \in Blobs /\ Closed(v)
  BY <1>1, <1>2, JobFacts DEF Put, JobSettled
<1>4. CASE stored' = [stored EXCEPT ![v] = "good"] /\ GoOn(r, "quota")
  <2>1. RowSettled(v) /\ AttachmentsTyped
    BY <1>3 DEF AttInv
  <2>2. PICK q : q = row[v]
    OBVIOUS
  <2>3. q \in AttachmentRow /\ row' = [row EXCEPT ![v] = q]
    BY <1>3, <2>1, <2>2 DEF Put, AttachmentsTyped
  <2>4. q.keyed /\ (q.url => v \in checked) /\ q.status # "none"
    BY <1>3, <2>1, <2>2 DEF Closed, RowSettled
  <2>5. q.keyed = row[v].keyed
    BY <2>2
  <2>6. UNCHANGED checked
    BY DEF Put
  <2>10. Tame({r})
    BY <1>3, <1>4, <2>3, <2>4, <2>5, <2>6, RowTame
  <2>7. Closed(v)'
    BY <1>3, <2>10 DEF Tame
  <2>8. StepAllowed("quota", j)' /\ "quota" \in Steps \ {"key"}
    BY <1>2, <1>3, <2>7 DEF StepAllowed, Steps
  <2> QED BY <1>1, <1>4, <2>10, <2>8, RequestGoesOn DEF Put
<1>5. CASE GoOn(r, "fail") /\ UNCHANGED stored
  <2>1. StepAllowed("fail", j)' /\ "fail" \in Steps \ {"key"}
    BY DEF StepAllowed, Steps
  <2> QED BY <1>1, <1>5, <2>1, StillTame, RequestGoesOn DEF Put
<1> QED BY <1>1, <1>2, <1>4, <1>5 DEF Put

-----------------------------------------------------------------------------
LEMMA CheckAgentStep ==
  ASSUME AttInv, NEW r \in Requests, CheckAgent(r)
  PROVE  AttInv'
<1>1. Tame({r})
  BY StillTame DEF CheckAgent
<1>2. PICK i : i = job[r]
  OBVIOUS
<1>3. JobSettled(r) /\ at[r] = "quota"
  BY JobFacts DEF CheckAgent
<1>4. /\ i.kind \in {"upload", "presign"}
      /\ i.kind = "upload" => i.blob \in Blobs /\ Closed(i.blob)'
  BY <1>1, <1>2, <1>3 DEF JobSettled, Tame
<1>5. CASE GoOn(r, "scope") /\ UNCHANGED job
  <2>1. StepAllowed("scope", i)' /\ "scope" \in Steps \ {"key"}
    BY <1>4 DEF StepAllowed, Steps
  <2> QED BY <1>1, <1>2, <1>5, <2>1, RequestGoesOn
<1>6. CASE /\ GoOn(r, "list")
           /\ job' = [job EXCEPT ![r].total = AgentTotal, ![r].summed = InTotal]
  <2>1. PICK t, S : t = AgentTotal /\ S = InTotal
    OBVIOUS
  <2>2. PICK j : j = [i EXCEPT !.total = t, !.summed = S]
    OBVIOUS
  <2>3. PICK T : i \in JobIn(T)
    BY <1>2, JobFacts
  <2>4. PICK U : U = T \cup {t}
    OBVIOUS
  <2>5. j \in JobIn(U) /\ j.kind = i.kind /\ j.blob = i.blob
    BY <2>1, <2>2, <2>3, <2>4 DEF JobIn, InTotal
  <2>6. job' = [job EXCEPT ![r] = j]
    BY <1>2, <1>6, <2>1, <2>2
  <2>7. StepAllowed("list", j)' /\ "list" \in Steps /\ "list" # "key"
    BY <1>4, <2>5 DEF StepAllowed, Steps
  <2> QED BY <1>1, <1>6, <2>5, <2>6, <2>7, RequestMoves
<1> QED BY <1>1, <1>5, <1>6, Refuses DEF CheckAgent

LEMMA ListVictimsStep ==
  ASSUME AttInv, NEW r \in Requests, ListVictims(r)
  PROVE  AttInv'
<1>1. Tame({r})
  BY StillTame DEF ListVictims
<1>2. PICK i : i = job[r]
  OBVIOUS
<1>3. JobSettled(r) /\ at[r] = "list"
  BY JobFacts DEF ListVictims
<1>4. /\ i.kind \in {"upload", "presign"}
      /\ i.kind = "upload" => i.blob \in Blobs /\ Closed(i.blob)'
  BY <1>1, <1>2, <1>3 DEF JobSettled, Tame
<1>5. PICK victims : victims = {<<b, row[b].keyed>> : b \in
                      {c \in Blobs : Counted(c) /\ row[c].scope = "agent"}}
  OBVIOUS
<1>6. victims \subseteq Blobs \X BOOLEAN
  BY <1>5 DEF AttInv, AttachmentsTyped, AttachmentRow
<1>7. PICK j : j = [i EXCEPT !.victims = victims]
  OBVIOUS
<1>8. PICK T : i \in JobIn(T)
  BY <1>2, JobFacts
<1>9. j \in JobIn(T) /\ j.kind = i.kind /\ j.blob = i.blob
  BY <1>6, <1>7, <1>8 DEF JobIn
<1>10. job' = [job EXCEPT ![r] = j] /\ GoOn(r, "evict")
  BY <1>2, <1>5, <1>7 DEF ListVictims
<1>11. StepAllowed("evict", j)' /\ "evict" \in Steps /\ "evict" # "key"
  BY <1>4, <1>9 DEF StepAllowed, Steps
<1> QED BY <1>1, <1>9, <1>10, <1>11, RequestMoves

LEMMA EvictNextStep ==
  ASSUME AttInv, NEW r \in Requests, EvictNext(r)
  PROVE  AttInv'
<1>1. PICK i : i = job[r]
  OBVIOUS
<1>2. JobSettled(r) /\ at[r] = "evict"
  BY JobFacts DEF EvictNext
<1>3. Tame({r})
  BY StillTame, UnstoreTame DEF EvictNext
<1>4. /\ i.kind \in {"upload", "presign"}
      /\ i.kind = "upload" => i.blob \in Blobs /\ Closed(i.blob)'
  BY <1>1, <1>2, <1>3 DEF JobSettled, Tame
<1>5. \A step \in {"scope", "evicted"} : StepAllowed(step, i)' /\ step \in Steps \ {"key"}
  BY <1>4 DEF StepAllowed, Steps
<1>6. CASE \E step \in {"scope", "evicted"} : GoOn(r, step) /\ UNCHANGED job
  BY <1>1, <1>3, <1>5, <1>6, RequestGoesOn
<1>7. CASE RefuseRequest(r)
  BY <1>3, <1>7, Refuses
<1> QED BY <1>6, <1>7 DEF EvictNext

LEMMA MarkEvictedStep ==
  ASSUME AttInv, NEW r \in Requests, MarkEvicted(r)
  PROVE  AttInv'
<1> DEFINE oldest == OldestVictim(job[r].victims)
<1>1. PICK i : i = job[r]
  OBVIOUS
<1>2. JobSettled(r) /\ at[r] = "evicted"
  BY JobFacts DEF MarkEvicted
<1>3. PICK v : v = oldest[1]
  OBVIOUS
<1>4. CASE ~Exists(v)
  BY <1>3, <1>4, StillTame, RequestEnds DEF MarkEvicted
<1>5. CASE Exists(v)
  <2>1. PICK t : t = i.total - row[v].size
    OBVIOUS
  <2>2. PICK W : W = i.victims \ {oldest}
    OBVIOUS
  <2>3. PICK j : j = [i EXCEPT !.victims = W, !.total = t, !.summed = @ \ {v}]
    OBVIOUS
  <2>4. PICK T : i \in JobIn(T)
    BY <1>1, JobFacts
  <2>5. PICK U : U = T \cup {t}
    OBVIOUS
  <2>6. W \in SUBSET (Blobs \X BOOLEAN)
    BY <2>2, <2>4 DEF JobIn
  <2>7. j \in JobIn(U) /\ j.kind = i.kind /\ j.blob = i.blob
    BY <2>3, <2>4, <2>5, <2>6 DEF JobIn
  <2>8. row' = [row EXCEPT ![v].status = "deleted", ![v].deletedAt = TRUE]
    BY <1>3, <1>5 DEF MarkEvicted
  <2>9. job' = [job EXCEPT ![r] = j] /\ GoOn(r, "evict")
    BY <1>1, <1>3, <1>5, <2>1, <2>2, <2>3 DEF MarkEvicted
  <2>10. Tame({r})
    BY <1>5, <2>8, MarkTame DEF MarkEvicted
  <2>11. /\ i.kind \in {"upload", "presign"}
         /\ i.kind = "upload" => i.blob \in Blobs /\ Closed(i.blob)'
    BY <1>1, <1>2, <2>10 DEF JobSettled, Tame
  <2>12. StepAllowed("evict", j)' /\ "evict" \in Steps /\ "evict" # "key"
    BY <2>7, <2>11 DEF StepAllowed, Steps
  <2> QED BY <2>7, <2>9, <2>10, <2>12, RequestMoves
<1> QED BY <1>4, <1>5

LEMMA CheckScopeStep ==
  ASSUME AttInv, NEW r \in Requests, CheckScope(r)
  PROVE  AttInv'
<1>1. PICK i : i = job[r]
  OBVIOUS
<1>2. JobSettled(r) /\ at[r] = "scope"
  BY JobFacts DEF CheckScope
<1>3. Tame({r})
  BY StillTame DEF CheckScope
<1>4. /\ i.kind \in {"upload", "presign"}
      /\ i.kind = "upload" => i.blob \in Blobs /\ Closed(i.blob)'
  BY <1>1, <1>2, <1>3 DEF JobSettled, Tame
<1>5. CASE RefuseRequest(r)
  BY <1>3, <1>5, Refuses
<1>6. CASE ProceedUpload(r)
  <2>1. PICK step : step = IF i.kind = "presign" THEN "create"
                           ELSE IF ScanHook THEN "scan" ELSE "commit"
    OBVIOUS
  <2>2. StepAllowed(step, i)' /\ step \in Steps \ {"key"}
    BY <1>4, <2>1 DEF StepAllowed, Steps
  <2>3. GoOn(r, step) /\ UNCHANGED job
    BY <1>1, <1>6, <2>1 DEF ProceedUpload
  <2> QED BY <1>1, <1>3, <2>2, <2>3, RequestGoesOn
<1> QED BY <1>5, <1>6 DEF CheckScope

LEMMA ScanStep ==
  ASSUME AttInv, NEW r \in Requests, Scan(r)
  PROVE  AttInv'
<1>1. PICK i : i = job[r]
  OBVIOUS
<1>2. i.blob \in Blobs /\ Closed(i.blob)
  BY <1>1, JobFacts DEF Scan, JobSettled
<1>3. Tame({r})
  BY StillTame DEF Scan
<1>4. Closed(i.blob)'
  BY <1>2, <1>3 DEF Tame
<1>5. \A step \in {"commit", "unput"} : StepAllowed(step, i)' /\ step \in Steps \ {"key"}
  BY <1>2, <1>4 DEF StepAllowed, Steps
<1> QED BY <1>1, <1>3, <1>5, RequestGoesOn DEF Scan

LEMMA UnputStep ==
  ASSUME AttInv, NEW r \in Requests, Unput(r)
  PROVE  AttInv'
<1>1. PICK i : i = job[r]
  OBVIOUS
<1>2. StepAllowed("fail", i)' /\ "fail" \in Steps \ {"key"}
  BY DEF StepAllowed, Steps
<1>3. Tame({r})
  BY UnstoreTame DEF Unput
<1> QED BY <1>1, <1>2, <1>3, RequestGoesOn DEF Unput

LEMMA FailUploadStep ==
  ASSUME AttInv, NEW r \in Requests, FailUpload(r)
  PROVE  AttInv'
<1>1. Tame({r})
  BY SetStatusTame DEF FailUpload
<1> QED BY <1>1, RequestEnds DEF FailUpload

LEMMA CommitStep ==
  ASSUME AttInv, NEW r \in Requests, Commit(r)
  PROVE  AttInv'
<1>1. PICK v : v = job[r].blob
  OBVIOUS
<1>2. v \in Blobs /\ Closed(v)
  BY <1>1, JobFacts DEF Commit, JobSettled
<1>3. SetStatus(v, "ready") /\ UNCHANGED <<stored, checked>>
  BY <1>1 DEF Commit
<1>4. Tame({r})
  BY <1>2, <1>3, SetStatusTame
<1> QED BY <1>4, RequestEnds DEF Commit

-----------------------------------------------------------------------------
LEMMA HeadBlobStep ==
  ASSUME AttInv, NEW r \in Requests, HeadBlob(r)
  PROVE  AttInv'
<1>1. PICK i : i = job[r]
  OBVIOUS
<1>2. i.blob \in Blobs /\ UNCHANGED <<row, stored, job>>
  BY <1>1, JobFacts DEF HeadBlob, JobSettled
<1>3. CASE /\ stored[i.blob] = "good" /\ GoOn(r, "stamp")
           /\ checked' = checked \cup {i.blob}
  <2>1. Tame({r})
    BY <1>2, <1>3, CheckTame
  <2>2. row[i.blob].keyed
    BY <1>2, <1>3 DEF AttInv, RowSettled
  <2>3. Closed(i.blob)'
    BY <1>2, <1>3, <2>2 DEF Closed
  <2>4. StepAllowed("stamp", i)' /\ "stamp" \in Steps \ {"key"}
    BY <1>2, <2>3 DEF StepAllowed, Steps
  <2> QED BY <1>1, <1>2, <1>3, <2>1, <2>4, RequestGoesOn
<1>4. CASE (GoOn(r, "fail") \/ GoOn(r, "unput")) /\ UNCHANGED checked
  <2>1. \A step \in {"fail", "unput"} : StepAllowed(step, i)' /\ step \in Steps \ {"key"}
    BY DEF StepAllowed, Steps
  <2>2. Tame({r})
    BY <1>2, <1>4, StillTame
  <2> QED BY <1>1, <1>2, <1>4, <2>1, <2>2, RequestGoesOn
<1> QED BY <1>1, <1>3, <1>4 DEF HeadBlob

LEMMA StampStep ==
  ASSUME AttInv, NEW r \in Requests, Stamp(r)
  PROVE  AttInv'
<1>1. PICK i : i = job[r]
  OBVIOUS
<1>2. i.blob \in Blobs /\ Closed(i.blob)
  BY <1>1, JobFacts DEF Stamp, JobSettled
<1>3. Tame({r})
  BY StillTame DEF Stamp
<1>4. Closed(i.blob)'
  BY <1>2, <1>3 DEF Tame
<1>5. \A step \in {"commit", "fail"} : StepAllowed(step, i)' /\ step \in Steps \ {"key"}
  BY <1>2, <1>4 DEF StepAllowed, Steps
<1> QED BY <1>1, <1>3, <1>5, RequestGoesOn DEF Stamp

LEMMA UnlinkStep ==
  ASSUME AttInv, NEW r \in Requests, Unlink(r)
  PROVE  AttInv'
<1>1. PICK i : i = job[r]
  OBVIOUS
<1>2. StepAllowed("mark", i)' /\ "mark" \in Steps \ {"key"}
  BY DEF StepAllowed, Steps
<1>3. Tame({r})
  BY UnstoreTame DEF Unlink
<1> QED BY <1>1, <1>2, <1>3, RequestGoesOn DEF Unlink

LEMMA MarkDeletedStep ==
  ASSUME AttInv, NEW r \in Requests, MarkDeleted(r)
  PROVE  AttInv'
<1>1. PICK v : v = job[r].blob
  OBVIOUS
<1>2. Tame({r})
  <2>1. CASE Exists(v)
    <3>1. /\ row' = [row EXCEPT ![v].status = "deleted", ![v].deletedAt = TRUE]
          /\ UNCHANGED <<stored, checked>>
      BY <1>1, <2>1 DEF MarkDeleted
    <3> QED BY <2>1, <3>1, MarkTame
  <2>2. CASE ~Exists(v)
    BY <1>1, <2>2, StillTame DEF MarkDeleted
  <2> QED BY <2>1, <2>2
<1> QED BY <1>2, RequestEnds DEF MarkDeleted

LEMMA FetchStep ==
  ASSUME AttInv, NEW r \in Requests, Fetch(r)
  PROVE  AttInv'
<1>1. Tame({r})
  BY StillTame DEF Fetch
<1>2. PICK i : i = job[r]
  OBVIOUS
<1>3. StepAllowed("fail", i)' /\ "fail" \in Steps \ {"key"}
  BY DEF StepAllowed, Steps
<1> QED BY <1>1, <1>2, <1>3, RequestGoesOn, RequestEnds DEF Fetch

LEMMA OpenStep ==
  ASSUME AttInv, NEW r \in Requests, NEW b \in Blobs,
         Confirm(r, b) \/ Delete(r, b) \/ Get(r, b)
  PROVE  AttInv'
<1>1. UNCHANGED <<row, stored, checked>>
  BY DEF Confirm, Delete, Get
<1>2. CASE \E step \in {"head", "unlink", "fetch"} : OpenConfirm(r, b, step)
  BY <1>1, <1>2, OpensConfirm
<1>3. CASE UNCHANGED <<at, job>>
  BY <1>1, <1>3, StillTame, TableStep
<1> QED BY <1>2, <1>3 DEF Confirm, Delete, Get

LEMMA ClientPutStep ==
  ASSUME AttInv, NEW b \in Blobs, ClientPut(b)
  PROVE  AttInv'
<1>1. AttachmentsTyped /\ RowSettled(b) /\ row[b].url
  BY DEF AttInv, ClientPut
<1>2. PICK q : q = row[b]
  OBVIOUS
<1>3. q \in AttachmentRow /\ row' = [row EXCEPT ![b] = q] /\ UNCHANGED checked
  BY <1>1, <1>2 DEF ClientPut, AttachmentsTyped
<1>4. PICK bytes \in PutBytes : stored' = [stored EXCEPT ![b] = bytes]
  BY DEF ClientPut
<1>5. bytes \in {"none", "good", "bad"}
  BY AttachmentsAssumption
<1>6. q.keyed /\ q.url /\ q.status # "none" /\ q.keyed = row[b].keyed
  BY <1>1, <1>2 DEF RowSettled
<1>7. q.status = "ready" \/ Closed(b) => b \in checked
  BY <1>1, <1>2 DEF RowSettled, Closed, Ready
<1>8. Tame({})
  BY <1>3, <1>4, <1>5, <1>6, <1>7, RowTame
<1> QED BY <1>8, TableStep DEF ClientPut

LEMMA UrlExpiresStep ==
  ASSUME AttInv, NEW b \in Blobs, UrlExpires(b)
  PROVE  AttInv'
<1>1. AttachmentsTyped /\ RowSettled(b) /\ row[b].url
  BY DEF AttInv, UrlExpires
<1>2. PICK p : p = row[b]
  OBVIOUS
<1>3. PICK q : q = [p EXCEPT !.url = FALSE]
  OBVIOUS
<1>4. p \in AttachmentRow
  BY <1>1, <1>2 DEF AttachmentsTyped
<1>5. q \in AttachmentRow /\ ~q.url /\ q.keyed = p.keyed /\ q.status = p.status
  BY <1>3, <1>4 DEF AttachmentRow
<1>6. row' = [row EXCEPT ![b] = q] /\ UNCHANGED checked
  BY <1>2, <1>3 DEF UrlExpires
<1>7. PICK bytes : bytes = stored[b]
  OBVIOUS
<1>8. bytes \in {"none", "good", "bad"} /\ stored' = [stored EXCEPT ![b] = bytes]
  BY <1>1, <1>7 DEF UrlExpires, AttachmentsTyped
<1>9. q.keyed /\ q.status # "none" /\ q.keyed = row[b].keyed
  BY <1>1, <1>2, <1>5 DEF RowSettled
<1>10. q.status = "ready" \/ Closed(b) => b \in checked
  BY <1>1, <1>2, <1>5 DEF RowSettled, Closed, Ready
<1>11. Tame({})
  BY <1>5, <1>6, <1>8, <1>9, <1>10, RowTame
<1> QED BY <1>11, TableStep DEF UrlExpires

LEMMA SweepRowStep ==
  ASSUME AttInv, NEW b \in Blobs, SweepRow(b)
  PROVE  AttInv'
<1>1. PICK p : p = row[b]
  OBVIOUS
<1>2. PICK q : q = [p EXCEPT !.status = "purged"]
  OBVIOUS
<1>3. row \in [Blobs -> AttachmentRow] /\ p \in AttachmentRow
  BY <1>1 DEF AttInv, AttachmentsTyped
<1>4. q \in AttachmentRow /\ q.url = p.url /\ q.keyed = p.keyed /\ q.status = "purged"
  BY <1>2, <1>3 DEF AttachmentRow
<1>5. row' = [row EXCEPT ![b] = q] /\ row[b].status # "none" /\ UNCHANGED <<stored, checked, at, job>>
  BY <1>1, <1>2 DEF SweepRow, Exists
<1>6. /\ row' \in [Blobs -> AttachmentRow] /\ row'[b] = q
      /\ \A c \in Blobs \ {b} : row'[c] = row[c]
  BY <1>3, <1>4, <1>5
<1>7. Tame({})
  BY <1>1, <1>4, <1>5, <1>6, StatusTame
<1> QED BY <1>5, <1>7, TableStep

LEMMA PurgePaneStep ==
  ASSUME AttInv, PurgePane
  PROVE  AttInv'
<1>1. row \in [Blobs -> AttachmentRow]
  BY DEF AttInv, AttachmentsTyped
<1>2. \A p \in AttachmentRow :
         LET q == [p EXCEPT !.status = "purged"]
         IN  q \in AttachmentRow /\ q.url = p.url /\ q.keyed = p.keyed /\ q.status = "purged"
  BY DEF AttachmentRow
<1>3. \A b \in Blobs :
         \/ row'[b] = row[b]
         \/ Exists(b) /\ row'[b] = [row[b] EXCEPT !.status = "purged"]
  BY DEF PurgePane
<1>4. \A b \in Blobs : row'[b] \in AttachmentRow
  BY <1>1, <1>2, <1>3
<1>5. row' \in [Blobs -> AttachmentRow]
  BY <1>4 DEF PurgePane
<1>6. \A b \in Blobs :
         \/ row'[b] = row[b]
         \/ /\ row'[b].keyed = row[b].keyed /\ row'[b].url = row[b].url
            /\ row'[b].status = "purged" /\ row[b].status # "none"
  <2> SUFFICES ASSUME NEW b \in Blobs, row'[b] # row[b]
               PROVE  /\ row'[b].keyed = row[b].keyed /\ row'[b].url = row[b].url
                      /\ row'[b].status = "purged" /\ row[b].status # "none"
    OBVIOUS
  <2>1. PICK q : q = [row[b] EXCEPT !.status = "purged"]
    OBVIOUS
  <2>2. q.url = row[b].url /\ q.keyed = row[b].keyed /\ q.status = "purged"
    BY <1>1, <1>2, <2>1
  <2>3. Exists(b) /\ row'[b] = q
    BY <1>3, <2>1
  <2> QED BY <2>2, <2>3 DEF Exists
<1>7. UNCHANGED <<stored, checked>>
  BY DEF PurgePane
<1>8. Tame({})
  BY <1>5, <1>6, <1>7, StatusTame
<1> QED BY <1>8, TableStep DEF PurgePane

LEMMA AttInvStep == AttInv /\ [AttachmentsNext]_attachmentVars => AttInv'
<1> SUFFICES ASSUME AttInv, [AttachmentsNext]_attachmentVars PROVE AttInv'
  OBVIOUS
<1>1. CASE \E r \in Requests, kind \in Kinds, size \in Sizes, scope \in Scopes :
              Begin(r, kind, size, scope)
  BY <1>1, BeginStep
<1>2. CASE \E r \in Requests, b \in Blobs : Confirm(r, b) \/ Delete(r, b) \/ Get(r, b)
  BY <1>2, OpenStep
<1>3. CASE \E r \in Requests : RequestStep(r)
  <2> SUFFICES ASSUME NEW r \in Requests, RequestStep(r) PROVE AttInv'
    BY <1>3
  <2> QED BY CreateStep, SetKeyStep, PutStep, CheckAgentStep, ListVictimsStep,
             EvictNextStep, MarkEvictedStep, CheckScopeStep, ScanStep, UnputStep,
             FailUploadStep, CommitStep, HeadBlobStep, StampStep, UnlinkStep, MarkDeletedStep,
             FetchStep
          DEF RequestStep, UploadStep
<1>4. CASE \E r \in Requests : AbortRequest(r)
  BY <1>4, StillTame, RequestEnds DEF AbortRequest
<1>5. CASE \E b \in Blobs : ClientPut(b)
  BY <1>5, ClientPutStep
<1>11. CASE \E b \in Blobs : UrlExpires(b)
  BY <1>11, UrlExpiresStep
<1>6. CASE \E b \in Blobs : SweepRow(b)
  BY <1>6, SweepRowStep
<1>7. CASE \E b \in Blobs : SweepBytes(b)
  BY <1>7, UnstoreTame, TableStep DEF SweepBytes
<1>8. CASE PurgePane
  BY <1>8, PurgePaneStep
<1>9. CASE SweeperDies
  BY <1>9, StillTame, TableStep DEF SweeperDies
<1>10. CASE UNCHANGED attachmentVars
  BY <1>10, StillTame, TableStep DEF attachmentVars
<1> QED BY <1>1, <1>2, <1>3, <1>4, <1>5, <1>6, <1>7, <1>8, <1>9, <1>10, <1>11
        DEF AttachmentsNext

(* A row is ready on bytes an upload put or a confirm found good: with     *)
(* others only if they were put through its URL after such a confirm,      *)
(* however many uploads, confirms, PUTs, deletions and sweeps interleave   *)
(* and wherever a request dies (BytesMatchCommitment).                     *)
THEOREM BytesAreCommitted == AttachmentsSpec => []BytesMatchCommitment
<1>1. AttInv => BytesMatchCommitment
  BY DEF AttInv, RowSettled, Closed, BytesMatchCommitment
<1> QED BY AttInvInit, AttInvStep, <1>1, PTL DEF AttachmentsSpec

-----------------------------------------------------------------------------
(***************************************************************************)
(* Sums over sets of rows: more rows have no fewer bytes, and one row more *)
(* has its size more, whichever order the fold takes them in.              *)
(***************************************************************************)
(* G is a table of the sums of the subsets of S: it does not matter in     *)
(* which order the elements are taken, and more of them make no less.      *)
SumTable(f, S, G) ==
    /\ G \in [SUBSET S -> Nat] /\ G[{}] = 0
    /\ \A s \in SUBSET S : \A x \in s : G[s] = f[x].size + G[s \ {x}]
    /\ \A s, t \in SUBSET S : s \subseteq t => G[s] <= G[t]

(* The function the fold chooses.                                          *)
IsFold(f, S, g) ==
    g = [s \in SUBSET S |->
            IF s = {} THEN 0
            ELSE f[CHOOSE x \in s : TRUE].size + g[s \ {CHOOSE x \in s : TRUE}]]

LEMMA SumIsFold == ASSUME NEW f, NEW S PROVE SumOf(f, S) = (CHOOSE g : IsFold(f, S, g))[S]
BY DEF SumOf, MapThenSumSet, MapThenFoldSet, IsFold

LEMMA LeastNumber ==
  ASSUME NEW N \in SUBSET Nat, N # {}
  PROVE  \E n \in N : \A m \in N : n <= m
<1>1. \E n \in N : \A m \in N : ~ (<<m, n>> \in OpToRel(<, Nat))
  BY NatLessThanWellFounded, WFMin
<1>2. PICK n \in N : \A m \in N : ~ (<<m, n>> \in OpToRel(<, Nat))
  BY <1>1
<1>3. \A m \in N : ~ (m < n)
  BY <1>2 DEF OpToRel
<1> QED BY <1>3

(* A table of the subsets without x makes one of those with it.            *)
LEMMA TableGrows ==
  ASSUME NEW f, NEW T, NEW x \in T, \A y \in T : f[y].size \in Nat,
         NEW G, SumTable(f, T \ {x}, G)
  PROVE  \E H : SumTable(f, T, H)
<1> DEFINE w == f[x].size
           H == [s \in SUBSET T |-> IF x \in s THEN w + G[s \ {x}] ELSE G[s]]
<1>0. G \in [SUBSET (T \ {x}) -> Nat] /\ G[{}] = 0 /\ w \in Nat
  BY DEF SumTable
<1>1. \A s \in SUBSET T : G[s \ {x}] \in Nat /\ s \ {x} \in SUBSET (T \ {x})
  BY <1>0
<1>2. \A s \in SUBSET T : x \notin s => s \ {x} = s
  OBVIOUS
<1>3. H \in [SUBSET T -> Nat] /\ H[{}] = 0
  <2>1. \A s \in SUBSET T : H[s] \in Nat
    BY <1>0, <1>1, <1>2
  <2>2. H[{}] = 0
    BY <1>0
  <2> QED BY <2>1, <2>2
<1>4. ASSUME NEW s \in SUBSET T, NEW y \in s PROVE H[s] = f[y].size + H[s \ {y}]
  <2>0. s \ {y} \in SUBSET T
    OBVIOUS
  <2>1. CASE y = x
    <3>1. H[s] = w + G[s \ {x}]
      BY <2>1
    <3>2. H[s \ {y}] = G[s \ {x}]
      BY <2>0, <2>1
    <3> QED BY <2>1, <3>1, <3>2
  <2>2. CASE y # x /\ x \in s
    <3>1. PICK u : u = s \ {x}
      OBVIOUS
    <3>2. u \in SUBSET (T \ {x}) /\ y \in u
      BY <2>2, <3>1
    <3>3. G[u] = f[y].size + G[u \ {y}]
      BY <3>2 DEF SumTable
    <3>4. (s \ {y}) \ {x} = u \ {y} /\ x \in s \ {y}
      BY <2>2, <3>1
    <3>5. H[s \ {y}] = w + G[u \ {y}] /\ H[s] = w + G[u]
      BY <2>0, <2>2, <3>1, <3>4
    <3>6. G[u] \in Nat /\ G[u \ {y}] \in Nat /\ u \ {y} \in SUBSET (T \ {x})
      BY <1>0, <3>2
    <3>7. \A a, b, c, d \in Nat : a = d + c => b + a = d + (b + c)
      OBVIOUS
    <3>8. f[y].size \in Nat
      OBVIOUS
    <3> HIDE DEF H
    <3> QED BY <1>0, <3>3, <3>5, <3>6, <3>7, <3>8
  <2>3. CASE y # x /\ x \notin s
    <3>1. s \in SUBSET (T \ {x})
      BY <2>3
    <3>2. G[s] = f[y].size + G[s \ {y}]
      BY <3>1 DEF SumTable
    <3>3. H[s] = G[s] /\ H[s \ {y}] = G[s \ {y}]
      BY <2>0, <2>3
    <3> QED BY <3>2, <3>3
  <2> QED BY <2>1, <2>2, <2>3
<1>5. ASSUME NEW s \in SUBSET T, NEW t \in SUBSET T, s \subseteq t PROVE H[s] <= H[t]
  <2>1. s \ {x} \in SUBSET (T \ {x}) /\ t \ {x} \in SUBSET (T \ {x})
        /\ s \ {x} \subseteq t \ {x}
    BY <1>5
  <2>2. G[s \ {x}] <= G[t \ {x}] /\ G[s \ {x}] \in Nat /\ G[t \ {x}] \in Nat
    BY <1>0, <2>1 DEF SumTable
  <2>3. H[s] = (IF x \in s THEN w + G[s \ {x}] ELSE G[s \ {x}])
    BY <1>2
  <2>4. H[t] = (IF x \in t THEN w + G[t \ {x}] ELSE G[t \ {x}])
    BY <1>2
  <2>5. x \in s => x \in t
    BY <1>5
  <2> HIDE DEF H
  <2> QED BY <1>0, <2>2, <2>3, <2>4, <2>5
<1> HIDE DEF H
<1>6. SumTable(f, T, H)
  BY <1>3, <1>4, <1>5 DEF SumTable
<1> QED BY <1>6

LEMMA TableExists ==
  ASSUME NEW f, NEW S, IsFiniteSet(S), \A x \in S : f[x].size \in Nat
  PROVE  \E G : SumTable(f, S, G)
<1> DEFINE Has(T) == \E G : SumTable(f, T, G)
           Bad == {n \in Nat : \E T \in SUBSET S : Cardinality(T) = n /\ ~Has(T)}
<1>1. SUFFICES ASSUME Bad # {} PROVE FALSE
  <2>1. Cardinality(S) \in Nat
    BY FS_CardinalityType
  <2>2. ~Has(S) => Cardinality(S) \in Bad
    BY <2>1
  <2> QED BY <2>2
<1>2. PICK n \in Bad : \A m \in Bad : n <= m
  <2>1. Bad \in SUBSET Nat
    OBVIOUS
  <2> HIDE DEF Bad
  <2> QED BY <1>1, <2>1, LeastNumber
<1>3. PICK T \in SUBSET S : Cardinality(T) = n /\ ~Has(T)
  OBVIOUS
<1>4. IsFiniteSet(T)
  BY FS_Subset
<1>5. T # {}
  <2>1. SUFFICES Has({})
    BY <1>3
  <2>2. PICK G : G = [s \in SUBSET {} |-> 0]
    OBVIOUS
  <2>3. SumTable(f, {}, G)
    BY <2>2 DEF SumTable
  <2> QED BY <2>3
<1>6. PICK x \in T : TRUE
  BY <1>5
<1>7. IsFiniteSet(T \ {x}) /\ Cardinality(T \ {x}) = n - 1 /\ T \ {x} \in SUBSET S
  BY <1>3, <1>4, <1>6, FS_RemoveElement
<1>8. n - 1 \in Nat
  BY <1>7, FS_CardinalityType
<1>9. Has(T \ {x})
  <2>1. n \in Nat /\ ~(n <= n - 1)
    BY <1>8
  <2>2. ~Has(T \ {x}) => n - 1 \in Bad
    BY <1>7, <1>8
  <2>3. n - 1 \notin Bad
    <3> HIDE DEF Bad
    <3> QED BY <1>2, <2>1
  <2> QED BY <2>2, <2>3
<1>10. \A y \in T : f[y].size \in Nat
  OBVIOUS
<1> QED BY <1>3, <1>6, <1>9, <1>10, TableGrows

(* What the fold chooses is the table.                                     *)
LEMMA FoldIsTable ==
  ASSUME NEW f, NEW S, IsFiniteSet(S), NEW G, SumTable(f, S, G)
  PROVE  SumOf(f, S) = G[S]
<1> DEFINE least(s) == CHOOSE x \in s : TRUE
<1>0. G \in [SUBSET S -> Nat] /\ G[{}] = 0
  BY DEF SumTable
<1>1. \A s \in SUBSET S : s # {} => least(s) \in s
  OBVIOUS
<1>2. \A s \in SUBSET S : G[s] = IF s = {} THEN 0 ELSE f[least(s)].size + G[s \ {least(s)}]
  BY <1>0, <1>1 DEF SumTable
<1>3. IsFold(f, S, G)
  BY <1>0, <1>2 DEF IsFold
<1>4. PICK g : g = CHOOSE h : IsFold(f, S, h)
  OBVIOUS
<1>5. IsFold(f, S, g)
  BY <1>3, <1>4
<1>6. \A s \in SUBSET S : g[s] = IF s = {} THEN 0 ELSE f[least(s)].size + g[s \ {least(s)}]
  BY <1>5 DEF IsFold
<1>7. \A s \in SUBSET S : g[s] = G[s]
  <2> DEFINE Bad == {n \in Nat : \E s \in SUBSET S : Cardinality(s) = n /\ g[s] # G[s]}
  <2>1. SUFFICES ASSUME Bad # {} PROVE FALSE
    <3>1. \A s \in SUBSET S : Cardinality(s) \in Nat
      BY FS_CardinalityType, FS_Subset
    <3> QED BY <3>1
  <2>2. PICK n \in Bad : \A m \in Bad : n <= m
    <3>1. Bad \in SUBSET Nat
      OBVIOUS
    <3> HIDE DEF Bad
    <3> QED BY <2>1, <3>1, LeastNumber
  <2>3. PICK s \in SUBSET S : Cardinality(s) = n /\ g[s] # G[s]
    OBVIOUS
  <2>4. IsFiniteSet(s) /\ s # {}
    BY <1>2, <1>6, <2>3, FS_Subset
  <2>5. PICK x : x = least(s)
    OBVIOUS
  <2>6. x \in s
    BY <1>1, <2>4, <2>5
  <2>7. IsFiniteSet(s \ {x}) /\ Cardinality(s \ {x}) = n - 1 /\ s \ {x} \in SUBSET S
    BY <2>3, <2>4, <2>6, FS_RemoveElement
  <2>8. n - 1 \in Nat
    BY <2>7, FS_CardinalityType
  <2>9. g[s \ {x}] = G[s \ {x}]
    <3>1. n \in Nat /\ ~(n <= n - 1)
      BY <2>8
    <3>2. g[s \ {x}] # G[s \ {x}] => n - 1 \in Bad
      BY <2>7, <2>8
    <3>3. n - 1 \notin Bad
      <4> HIDE DEF Bad
      <4> QED BY <2>2, <3>1
    <3> QED BY <3>2, <3>3
  <2>10. g[s] = f[x].size + g[s \ {x}]
    BY <1>6, <2>4, <2>5
  <2>11. G[s] = f[x].size + G[s \ {x}]
    BY <1>2, <2>4, <2>5
  <2> QED BY <2>3, <2>9, <2>10, <2>11
<1>8. SumOf(f, S) = g[S]
  BY <1>4, SumIsFold
<1> QED BY <1>7, <1>8

(* Part of a table is a table.                                             *)
LEMMA TableOfPart ==
  ASSUME NEW f, NEW S, NEW T \in SUBSET S, NEW G, SumTable(f, S, G),
         NEW H, H = [s \in SUBSET T |-> G[s]]
  PROVE  SumTable(f, T, H)
<1>2. G \in [SUBSET S -> Nat] /\ G[{}] = 0 /\ SUBSET T \subseteq SUBSET S
  BY DEF SumTable
<1>3. \A s \in SUBSET T : H[s] = G[s] /\ s \in SUBSET S
  BY <1>2
<1>4. H \in [SUBSET T -> Nat] /\ H[{}] = 0
  BY <1>2
<1>5. \A s \in SUBSET T : \A x \in s : H[s] = f[x].size + H[s \ {x}]
  <2> SUFFICES ASSUME NEW s \in SUBSET T, NEW x \in s
               PROVE  H[s] = f[x].size + H[s \ {x}]
    OBVIOUS
  <2>1. s \ {x} \in SUBSET T
    OBVIOUS
  <2> QED BY <1>3, <2>1 DEF SumTable
<1>6. \A s, t \in SUBSET T : s \subseteq t => H[s] <= H[t]
  BY <1>3 DEF SumTable
<1> QED BY <1>4, <1>5, <1>6 DEF SumTable

(* A sum of sizes is a number, no less than that of a part, and may be     *)
(* taken one row at a time.                                                *)
LEMMA SumFacts ==
  ASSUME NEW f, NEW S, IsFiniteSet(S), \A x \in S : f[x].size \in Nat
  PROVE  /\ SumOf(f, S) \in Nat
         /\ \A T \in SUBSET S : SumOf(f, T) \in Nat /\ SumOf(f, T) <= SumOf(f, S)
         /\ \A x \in S : SumOf(f, S) = f[x].size + SumOf(f, S \ {x})
<1>1. PICK G : SumTable(f, S, G)
  BY TableExists
<1>2. \A T \in SUBSET S : SumOf(f, T) = G[T]
  <2> SUFFICES ASSUME NEW T \in SUBSET S PROVE SumOf(f, T) = G[T]
    OBVIOUS
  <2>1. PICK H : H = [s \in SUBSET T |-> G[s]]
    OBVIOUS
  <2>2. IsFiniteSet(T)
    BY FS_Subset
  <2>3. SumTable(f, T, H)
    BY <1>1, <2>1, TableOfPart
  <2>4. SumOf(f, T) = H[T]
    BY <2>2, <2>3, FoldIsTable
  <2> QED BY <2>1, <2>4
<1>3. S \in SUBSET S /\ \A x \in S : S \ {x} \in SUBSET S
  OBVIOUS
<1> QED BY <1>1, <1>2, <1>3 DEF SumTable

(* Only the sizes of the rows that are summed matter.                      *)
LEMMA SumAgrees ==
  ASSUME NEW f, NEW h, NEW S, IsFiniteSet(S), \A x \in S : f[x].size \in Nat,
         \A x \in S : h[x].size = f[x].size
  PROVE  SumOf(h, S) = SumOf(f, S)
<1>1. PICK G : SumTable(f, S, G)
  BY TableExists
<1>2. SumTable(h, S, G)
  BY <1>1 DEF SumTable
<1> QED BY <1>1, <1>2, FoldIsTable

-----------------------------------------------------------------------------
(***************************************************************************)
(* The quotas, where every upload goes through the relay. What was checked *)
(* against the agent's total stays within it because each upload counts    *)
(* its own row, pending, before it checks: of two that pass, the later one *)
(* has counted both.                                                       *)
(***************************************************************************)
(* A row that counts and was not deleted.                                  *)
Alive(b) == Counted(b) /\ ~row[b].deletedAt

(* Where an upload stands while it has a row, past the agent's quota, past *)
(* every quota, and while it evicts.                                       *)
Flying == {"key", "put", "quota", "list", "evict", "evicted", "scope", "scan", "commit",
           "unput", "fail"}
Past == {"scope", "scan", "commit"}
PastAll == {"scan", "commit"}
Evicting == {r \in Requests : at[r] \in {"list", "evict", "evicted"}}

Ships(r) == job[r].kind = "upload" /\ at[r] \in Flying
Unready(b) ==
    /\ row[b].status \in {"pending", "deleted", "purged"}
    /\ row[b].status = "deleted" => row[b].deletedAt

(* An upload has a row of its own, pending until somebody deletes it.      *)
Manned(r) ==
    Ships(r) => /\ job[r].blob \in Blobs /\ row[job[r].blob].scope = job[r].scope
                /\ Unready(job[r].blob)

(* Only uploads pass quotas; who may fail the row of another has seen it   *)
(* ready, so that no upload is at work on it.                              *)
Role(r) ==
    /\ at[r] = "create" \/ at[r] \in Flying \ {"fail"} => job[r].kind = "upload"
    /\ at[r] \notin {"head", "stamp"}
    /\ at[r] = "fetch" \/ (at[r] = "fail" /\ job[r].kind # "upload") =>
          /\ job[r].blob \in Blobs /\ row[job[r].blob].status # "none"
          /\ \A s \in Requests : Ships(s) => job[s].blob # job[r].blob
    /\ at[r] = "fetch" => job[r].kind = "other"
    /\ at[r] = "evicted" => job[r].victims # {}

OwnRows ==
    \A r, s \in Requests : Ships(r) /\ Ships(s) /\ job[r].blob = job[s].blob => r = s

RestTyped ==
    /\ paneGone \in BOOLEAN /\ sweeping \subseteq Blobs /\ overdrawn \in Nat
    /\ told \in [Blobs -> {"nothing", "created", "asked", "removed"}]

RolesInv ==
    /\ AttInv /\ RestTyped
    /\ job \in [Requests -> Job]
    /\ \A r \in Requests : Manned(r) /\ Role(r)
    /\ OwnRows

(* What the uploads that are past the quota have, or will have, ready; and *)
(* with these the uploads of X.                                            *)
Admitted(steps) ==
    {b \in Blobs : Alive(b) /\ (Ready(b) \/ \E r \in Requests :
                                   at[r] \in steps /\ job[r].blob = b)}
Held(X) == Admitted(Past) \cup {b \in Blobs : Alive(b) /\ \E r \in X : job[r].blob = b}

(* What is left of a total covers what is left of the rows it was of.      *)
Covers(r) ==
    /\ Bytes(job[r].summed) <= job[r].total + overdrawn
    /\ \A b \in job[r].summed : row[b].status # "none"

(* However many of those that evict will pass, what is then admitted fits, *)
(* or one of them has all of it in its sum.                                *)
Fitting(X) ==
    \/ Bytes(Held(X)) <= AgentCap + overdrawn
    \/ \E r \in X : Held(X) \subseteq job[r].summed

PaneFits == Bytes({b \in Admitted(PastAll) : row[b].scope = "pane"}) <= PaneCap

QuotaIInv ==
    /\ RolesInv
    /\ \A r \in Evicting : Covers(r)
    /\ \A X \in SUBSET Evicting : Fitting(X)
    /\ PaneFits

-----------------------------------------------------------------------------
(* What may become of a row when the requests K move.                      *)
Same(b) == row'[b].status = row[b].status /\ row'[b].deletedAt = row[b].deletedAt
Alike(b) == row'[b].size = row[b].size /\ row'[b].scope = row[b].scope
Others(K, b) == \A s \in Requests \ K : Ships(s) => job[s].blob # b

Moved(K, b) ==
    \/ Same(b) /\ Alike(b)
    \/ /\ row[b].status = "none" /\ row'[b].status = "pending"
    \/ /\ Exists(b) /\ Alike(b)
       /\ \/ row'[b].status = "deleted" /\ row'[b].deletedAt
          \/ row'[b].status = "purged"
          \/ row'[b].status = "failed" /\ Others(K, b)
          \/ /\ row'[b].status = "ready" /\ row'[b].deletedAt = row[b].deletedAt
             /\ Others(K, b)
             /\ \E r \in Requests \cap K :
                    at[r] = "commit" /\ Ships(r) /\ job[r].blob = b

TableMoves(K) == \A b \in Blobs : Moved(K, b)

LEMMA MovedRows ==
  ASSUME RolesInv, NEW K, TableMoves(K), NEW b \in Blobs, row[b].status # "none"
  PROVE  /\ row'[b].status # "none" /\ Alike(b)
         /\ Alive(b)' => Alive(b)
         /\ Unready(b) /\ row'[b].status \notin {"ready", "failed"} => Unready(b)'
         /\ Ready(b)' /\ Alive(b)' => b \in Admitted(PastAll)
<1>1. Moved(K, b)
  BY DEF TableMoves
<1>2. \A r \in Requests : Ships(r) /\ job[r].blob = b => Unready(b)
  BY DEF RolesInv, Manned
<1>3. CASE Same(b) /\ Alike(b)
  BY <1>3 DEF Same, Alive, Counted, Unready, Ready, Admitted
<1>4. CASE /\ Exists(b) /\ Alike(b)
           /\ \/ row'[b].status = "deleted" /\ row'[b].deletedAt
              \/ row'[b].status = "purged"
              \/ row'[b].status = "failed"
  BY <1>4 DEF Alive, Counted, Unready, Ready
<1>5. CASE /\ Exists(b) /\ Alike(b)
           /\ row'[b].status = "ready" /\ row'[b].deletedAt = row[b].deletedAt
           /\ \E r \in Requests \cap K : at[r] = "commit" /\ Ships(r) /\ job[r].blob = b
  <2>1. PICK r \in Requests : at[r] = "commit" /\ Ships(r) /\ job[r].blob = b
    BY <1>5
  <2>2. Unready(b)
    BY <1>2, <2>1
  <2>3. Alive(b)' => Alive(b)
    BY <1>5, <2>2 DEF Unready, Alive, Counted, Exists
  <2>4. Alive(b) => b \in Admitted(PastAll)
    BY <2>1 DEF Admitted, PastAll
  <2> QED BY <1>5, <2>3, <2>4
<1> QED BY <1>1, <1>3, <1>4, <1>5 DEF Moved

(* Who does not move keeps its row.                                        *)
LEMMA StaysManned ==
  ASSUME RolesInv, NEW K, TableMoves(K), NEW s \in Requests \ K,
         at'[s] = at[s], job'[s] = job[s]
  PROVE  /\ Manned(s)'
         /\ Ships(s)' => Ships(s) /\ job[s].blob \in Blobs /\ row[job[s].blob].status # "none"
<1>1. SUFFICES ASSUME Ships(s)'
               PROVE  Manned(s)' /\ Ships(s) /\ job[s].blob \in Blobs
                      /\ row[job[s].blob].status # "none"
  BY DEF Manned
<1>2. Ships(s) /\ Manned(s)
  BY <1>1 DEF Ships, RolesInv
<1>3. PICK b : b = job[s].blob
  OBVIOUS
<1>4. b \in Blobs /\ row[b].scope = job[s].scope /\ Unready(b)
  BY <1>2, <1>3 DEF Manned
<1>5. row[b].status # "none"
  BY <1>4 DEF Unready
<1>6. row'[b].status \notin {"ready", "failed"}
  <2>1. Moved(K, b) /\ ~Others(K, b)
    BY <1>2, <1>3, <1>4 DEF TableMoves, Others
  <2>2. row[b].status \notin {"ready", "failed"}
    BY <1>4 DEF Unready
  <2> QED BY <2>1, <2>2 DEF Moved, Same
<1>7. Unready(b)' /\ Alike(b)
  BY <1>4, <1>5, <1>6, MovedRows
<1>8. Manned(s)'
  BY <1>3, <1>4, <1>7 DEF Manned, Alike, Unready
<1> QED BY <1>2, <1>3, <1>4, <1>5, <1>8

LEMMA TableRoles ==
  ASSUME RolesInv, AttInv', RestTyped', TableMoves({}), UNCHANGED <<at, job>>
  PROVE  RolesInv'
<1>1. \A s \in Requests : Manned(s)'
  BY StaysManned
<1>2. \A s \in Requests : Role(s)'
  <2> SUFFICES ASSUME NEW s \in Requests PROVE Role(s)'
    OBVIOUS
  <2>1. Role(s)
    BY DEF RolesInv
  <2>2. \A b \in Blobs : row[b].status # "none" => row'[b].status # "none"
    BY MovedRows
  <2> QED BY <2>1, <2>2 DEF Role, Ships
<1>3. OwnRows'
  BY DEF RolesInv, OwnRows, Ships
<1>4. job' \in [Requests -> Job]
  BY DEF RolesInv
<1> QED BY <1>1, <1>2, <1>3, <1>4 DEF RolesInv

(* What a request r must bring along when it goes to a step with a job.    *)
Suits(r, step, j) ==
    /\ j.kind = "upload" /\ step \in Flying =>
          /\ j.blob \in Blobs
          /\ \/ /\ Ships(r) /\ j.blob = job[r].blob /\ j.scope = job[r].scope
                /\ row'[j.blob].status \notin {"ready", "failed"}
             \/ /\ row[j.blob].status = "none" /\ row'[j.blob].status = "pending"
                /\ row'[j.blob].scope = j.scope
    /\ step = "create" \/ step \in Flying \ {"fail"} => j.kind = "upload"
    /\ step \notin {"head", "stamp"}
    /\ step = "fetch" \/ (step = "fail" /\ j.kind # "upload") =>
          /\ j.blob \in Blobs /\ row[j.blob].status # "none"
          /\ \A s \in Requests : Ships(s) => job[s].blob # j.blob
    /\ step = "fetch" => j.kind = "other"
    /\ step = "evicted" => j.victims # {}

LEMMA RequestRoles ==
  ASSUME RolesInv, AttInv', RestTyped', NEW r \in Requests, TableMoves({r}),
         NEW step, GoOn(r, step), NEW j \in Job, job' = [job EXCEPT ![r] = j],
         Suits(r, step, j)
  PROVE  RolesInv'
<1>1. job \in [Requests -> Job] /\ at \in [Requests -> Steps]
  BY DEF RolesInv, AttInv, AttachmentsTyped
<1>2. /\ at'[r] = step /\ job'[r] = j
      /\ \A s \in Requests \ {r} : at'[s] = at[s] /\ job'[s] = job[s]
  BY <1>1 DEF GoOn
<1>3. job' \in [Requests -> Job]
  BY <1>1
<1>4. \A b \in Blobs : row[b].status # "none" => row'[b].status # "none"
  BY MovedRows
<1>5. Manned(r)'
  <2>1. SUFFICES ASSUME Ships(r)'
                 PROVE  /\ j.blob \in Blobs /\ row'[j.blob].scope = j.scope
                        /\ Unready(j.blob)'
    BY <1>2 DEF Manned, Unready
  <2>2. j.kind = "upload" /\ step \in Flying
    BY <1>2, <2>1 DEF Ships
  <2>3. CASE /\ Ships(r) /\ j.blob = job[r].blob /\ j.scope = job[r].scope
             /\ row'[j.blob].status \notin {"ready", "failed"}
    <3>1. PICK b : b = j.blob
      OBVIOUS
    <3>2. b \in Blobs /\ row[b].scope = j.scope /\ Unready(b)
      BY <2>3, <3>1 DEF RolesInv, Manned
    <3>3. row[b].status # "none"
      BY <3>2 DEF Unready
    <3>4. Unready(b)' /\ Alike(b)
      BY <2>3, <3>1, <3>2, <3>3, MovedRows
    <3> QED BY <3>1, <3>2, <3>4 DEF Alike, Unready
  <2>4. CASE /\ row[j.blob].status = "none" /\ row'[j.blob].status = "pending"
             /\ row'[j.blob].scope = j.scope /\ j.blob \in Blobs
    BY <2>4 DEF Unready
  <2> QED BY <2>2, <2>3, <2>4 DEF Suits
<1>6. \A s \in Requests : Manned(s)'
  BY <1>2, <1>5, StaysManned
<1>7. /\ Ships(r)' => \/ Ships(r) /\ j.blob = job[r].blob
                      \/ j.blob \in Blobs /\ row[j.blob].status = "none"
  BY <1>2 DEF Suits, Ships
<1>8. \A s \in Requests \ {r} :
         Ships(s)' => Ships(s) /\ job[s].blob \in Blobs /\ row[job[s].blob].status # "none"
  BY <1>2, StaysManned
<1>9. OwnRows'
  <2> SUFFICES ASSUME NEW s \in Requests, NEW u \in Requests, Ships(s)', Ships(u)',
                      job'[s].blob = job'[u].blob
               PROVE  s = u
    BY DEF OwnRows
  <2>1. OwnRows
    BY DEF RolesInv
  <2> QED BY <1>2, <1>7, <1>8, <2>1 DEF OwnRows
<1>10. ASSUME NEW s \in Requests \ {r} PROVE Role(s)'
  <2>1. Role(s) /\ at'[s] = at[s] /\ job'[s] = job[s]
    BY <1>2 DEF RolesInv
  <2>2. SUFFICES ASSUME at[s] = "fetch" \/ (at[s] = "fail" /\ job[s].kind # "upload")
                 PROVE  /\ job[s].blob \in Blobs /\ row'[job[s].blob].status # "none"
                        /\ \A u \in Requests : Ships(u)' => job'[u].blob # job[s].blob
    BY <2>1 DEF Role
  <2>3. /\ job[s].blob \in Blobs /\ row[job[s].blob].status # "none"
        /\ \A u \in Requests : Ships(u) => job[u].blob # job[s].blob
    BY <2>1, <2>2 DEF Role
  <2> QED BY <1>2, <1>4, <1>7, <1>8, <2>3
<1>11. Role(r)'
  <2>1. SUFFICES ASSUME step = "fetch" \/ (step = "fail" /\ j.kind # "upload")
                 PROVE  /\ j.blob \in Blobs /\ row'[j.blob].status # "none"
                        /\ \A s \in Requests : Ships(s)' => job'[s].blob # j.blob
    BY <1>2 DEF Role, Suits
  <2>2. /\ j.blob \in Blobs /\ row[j.blob].status # "none"
        /\ \A s \in Requests : Ships(s) => job[s].blob # j.blob
    BY <2>1 DEF Suits
  <2>3. ~Ships(r)'
    BY <1>2, <2>1 DEF Ships, Flying
  <2> QED BY <1>2, <1>4, <1>8, <2>2, <2>3
<1> QED BY <1>3, <1>6, <1>9, <1>10, <1>11 DEF RolesInv


-----------------------------------------------------------------------------
(* Sums of rows.                                                           *)
LEMMA RowSizes ==
  ASSUME NEW f \in [Blobs -> AttachmentRow], NEW S \in SUBSET Blobs
  PROVE  IsFiniteSet(S) /\ \A b \in S : f[b].size \in Nat
<1>1. IsFiniteSet(Blobs)
  BY AttachmentsAssumption, FS_Interval DEF Blobs
<1>2. Sizes \cup {0} \subseteq Nat
  BY AttachmentsAssumption
<1>3. \A b \in Blobs : f[b].size \in Sizes \cup {0}
  BY DEF AttachmentRow
<1> QED BY <1>1, <1>2, <1>3, FS_Subset

LEMMA FewerBytes ==
  ASSUME NEW f \in [Blobs -> AttachmentRow], NEW h \in [Blobs -> AttachmentRow],
         NEW S \in SUBSET Blobs, NEW T \in SUBSET S,
         \A b \in T : h[b].size = f[b].size
  PROVE  /\ SumOf(f, S) \in Nat /\ SumOf(h, T) \in Nat
         /\ SumOf(h, T) <= SumOf(f, S)
<1>1. /\ IsFiniteSet(S) /\ \A b \in S : f[b].size \in Nat
      /\ IsFiniteSet(T) /\ \A b \in T : f[b].size \in Nat
  BY RowSizes
<1>2. SumOf(h, T) = SumOf(f, T)
  BY <1>1, SumAgrees
<1>3. /\ SumOf(f, S) \in Nat
      /\ \A U \in SUBSET S : SumOf(f, U) \in Nat /\ SumOf(f, U) <= SumOf(f, S)
  BY <1>1, SumFacts
<1> QED BY <1>2, <1>3

LEMMA OneRowLess ==
  ASSUME NEW f \in [Blobs -> AttachmentRow], NEW S \in SUBSET Blobs, NEW v \in Blobs
  PROVE  /\ SumOf(f, S \ {v}) \in Nat /\ f[v].size \in Nat
         /\ SumOf(f, S) = SumOf(f, S \ {v}) + IF v \in S THEN f[v].size ELSE 0
<1>1. IsFiniteSet(S) /\ \A b \in S : f[b].size \in Nat
  BY RowSizes
<1>2. /\ SumOf(f, S) \in Nat
      /\ \A U \in SUBSET S : SumOf(f, U) \in Nat
      /\ \A x \in S : SumOf(f, S) = f[x].size + SumOf(f, S \ {x})
  BY <1>1, SumFacts
<1>3. f[v].size \in Nat
  <2>1. {v} \in SUBSET Blobs
    OBVIOUS
  <2>2. \A b \in {v} : f[b].size \in Nat
    BY <2>1, RowSizes
  <2> QED BY <2>2
<1>4. CASE v \in S
  <2>1. SumOf(f, S) = f[v].size + SumOf(f, S \ {v}) /\ SumOf(f, S \ {v}) \in Nat
    BY <1>2, <1>4
  <2> QED BY <1>3, <1>4, <2>1
<1>5. CASE v \notin S
  <2>1. PICK U : U = S \ {v}
    OBVIOUS
  <2>2. U = S
    BY <1>5, <2>1
  <2>3. SumOf(f, U) \in Nat /\ SumOf(f, S) = SumOf(f, U) + 0
    BY <1>2, <2>2
  <2> QED BY <1>3, <1>5, <2>1, <2>3
<1> QED BY <1>4, <1>5

-----------------------------------------------------------------------------
(* Who is past the quota, or evicts, has a row.                            *)
LEMMA HasRow ==
  ASSUME RolesInv, NEW r \in Requests,
         at[r] \in Past \cup {"quota", "list", "evict", "evicted"}
  PROVE  /\ Ships(r) /\ job[r].blob \in Blobs /\ row[job[r].blob].status # "none"
         /\ row[job[r].blob].scope = job[r].scope
<1>1. Role(r) /\ Manned(r)
  BY DEF RolesInv
<1>2. Ships(r)
  BY <1>1 DEF Role, Ships, Flying, Past
<1> QED BY <1>1, <1>2 DEF Manned, Unready

(* A request that does not come closer to a ready row.                     *)
Recedes(r) ==
    LET evicts == {"list", "evict", "evicted"} IN
    /\ at'[r] \in Past => at[r] \in Past /\ job'[r].blob = job[r].blob
    /\ at'[r] \in PastAll => at[r] \in PastAll
    /\ at'[r] \in evicts =>
          /\ at[r] \in evicts /\ job'[r].blob = job[r].blob
          /\ \/ job'[r].summed = job[r].summed /\ job'[r].total = job[r].total
             \/ \E v \in Blobs :
                   /\ row[v].status # "none" /\ ~Alive(v)'
                   /\ job'[r].summed = job[r].summed \ {v}
                   /\ job'[r].total = job[r].total - row[v].size
                   /\ overdrawn' = overdrawn +
                         IF v \in job[r].summed THEN 0 ELSE row[v].size

LEMMA HeldShrinks ==
  ASSUME RolesInv, NEW K, TableMoves(K), \A r \in Requests : Recedes(r),
         NEW X \in SUBSET Requests, \A r \in X : at'[r] \in {"list", "evict", "evicted"}
  PROVE  /\ Held(X)' \subseteq Held(X)
         /\ Admitted(PastAll)' \subseteq Admitted(PastAll)
         /\ \A b \in Held(X) \cup Admitted(PastAll) : row[b].status # "none"
<1>1. ASSUME NEW b \in Blobs, Alive(b)', NEW r \in Requests, job'[r].blob = b,
             at'[r] \in Past \cup {"list", "evict", "evicted"}
      PROVE  Alive(b) /\ job[r].blob = b
  <2>1. at[r] \in Past \cup {"list", "evict", "evicted"} /\ job[r].blob = b
    BY <1>1 DEF Recedes
  <2>2. row[b].status # "none"
    BY <2>1, HasRow
  <2> QED BY <1>1, <2>1, <2>2, MovedRows
<1>2. ASSUME NEW b \in Blobs, Alive(b)', Ready(b)' PROVE b \in Admitted(PastAll)
  <2>1. row[b].status # "none"
    BY <1>2 DEF TableMoves, Moved, Same, Exists, Ready
  <2> QED BY <1>2, <2>1, MovedRows
<1>3. Admitted(PastAll) \subseteq Admitted(Past)
  BY DEF Admitted, Past, PastAll
<1>4. Admitted(Past)' \subseteq Admitted(Past)
  <2> SUFFICES ASSUME NEW b \in Blobs, Alive(b)',
                      Ready(b)' \/ \E r \in Requests : at'[r] \in Past /\ job'[r].blob = b
               PROVE  b \in Admitted(Past)
    BY DEF Admitted
  <2>1. CASE Ready(b)'
    BY <1>2, <1>3, <2>1
  <2>2. ASSUME NEW r \in Requests, at'[r] \in Past, job'[r].blob = b
        PROVE  b \in Admitted(Past)
    <3>1. Alive(b) /\ job[r].blob = b
      BY <1>1, <2>2
    <3>2. at[r] \in Past
      BY <2>2 DEF Recedes
    <3> QED BY <3>1, <3>2 DEF Admitted
  <2> QED BY <2>1, <2>2
<1>5. Admitted(PastAll)' \subseteq Admitted(PastAll)
  <2> SUFFICES ASSUME NEW b \in Blobs, Alive(b)',
                      Ready(b)' \/ \E r \in Requests : at'[r] \in PastAll /\ job'[r].blob = b
               PROVE  b \in Admitted(PastAll)
    BY DEF Admitted
  <2>1. CASE Ready(b)'
    BY <1>2, <2>1
  <2>2. ASSUME NEW r \in Requests, at'[r] \in PastAll, job'[r].blob = b
        PROVE  b \in Admitted(PastAll)
    <3>1. Alive(b) /\ job[r].blob = b
      BY <1>1, <2>2 DEF Past, PastAll
    <3>2. at[r] \in PastAll
      BY <2>2 DEF Recedes
    <3> QED BY <3>1, <3>2 DEF Admitted
  <2> QED BY <2>1, <2>2
<1>6. Held(X)' \subseteq Held(X)
  <2> SUFFICES ASSUME NEW b \in Blobs, Alive(b)', NEW r \in X, job'[r].blob = b
               PROVE  b \in Held(X)
    BY <1>4 DEF Held
  <2>1. Alive(b) /\ job[r].blob = b
    BY <1>1
  <2> QED BY <2>1 DEF Held
<1>7. \A b \in Blobs : Alive(b) => row[b].status # "none"
  BY DEF Alive, Counted
<1> QED BY <1>5, <1>6, <1>7 DEF Held, Admitted

LEMMA HeldRows ==
  ASSUME NEW X
  PROVE  Held(X) \subseteq Blobs /\ Admitted(PastAll) \subseteq Blobs
BY DEF Held, Admitted

LEMMA QuotasKept ==
  ASSUME QuotaIInv, NEW K, TableMoves(K), RolesInv', \A r \in Requests : Recedes(r),
         overdrawn' >= overdrawn
  PROVE  QuotaIInv'
<1>1. /\ RolesInv /\ row \in [Blobs -> AttachmentRow] /\ row' \in [Blobs -> AttachmentRow]
      /\ overdrawn \in Nat /\ overdrawn' \in Nat
      /\ job \in [Requests -> Job] /\ job' \in [Requests -> Job]
  BY DEF QuotaIInv, RolesInv, AttInv, AttachmentsTyped, RestTyped
<1>2. \A b \in Blobs : row[b].status # "none" =>
          /\ row'[b].status # "none" /\ row'[b].size = row[b].size
          /\ row'[b].scope = row[b].scope
  BY <1>1, MovedRows DEF Alike
<1>3. ASSUME NEW r \in Requests, at'[r] \in {"list", "evict", "evicted"}
      PROVE  /\ r \in Evicting /\ Covers(r)' /\ job'[r].blob = job[r].blob
             /\ \A b \in job[r].summed : Alive(b)' => b \in job'[r].summed
  <2>1. r \in Evicting /\ job'[r].blob = job[r].blob
    BY <1>3 DEF Recedes, Evicting
  <2>2. Covers(r)
    BY <2>1 DEF QuotaIInv
  <2>3. job[r].summed \subseteq Blobs /\ job[r].total \in Int /\ job'[r].summed \subseteq Blobs
        /\ job'[r].total \in Int
    BY <1>1 DEF Job
  <2>4. CASE job'[r].summed = job[r].summed /\ job'[r].total = job[r].total
    <3>1. \A b \in job[r].summed : row'[b].size = row[b].size
      BY <1>2, <2>2, <2>3 DEF Covers
    <3>2. /\ SumOf(row, job[r].summed) \in Nat /\ SumOf(row', job[r].summed) \in Nat
          /\ SumOf(row', job[r].summed) <= SumOf(row, job[r].summed)
      BY <1>1, <2>3, <3>1, FewerBytes
    <3>3. SumOf(row, job[r].summed) <= job[r].total + overdrawn
      BY <2>2 DEF Covers, Bytes
    <3>4. SumOf(row', job'[r].summed) <= job'[r].total + overdrawn'
      BY <1>1, <2>3, <2>4, <3>2, <3>3
    <3>5. Bytes(job[r].summed)' <= job'[r].total + overdrawn'
      BY <3>4 DEF Bytes
    <3>6. \A b \in job'[r].summed : row'[b].status # "none"
      BY <1>2, <2>2, <2>3, <2>4 DEF Covers
    <3> QED BY <2>1, <2>4, <3>5, <3>6 DEF Covers
  <2>5. ASSUME NEW v \in Blobs, row[v].status # "none", ~Alive(v)',
               job'[r].summed = job[r].summed \ {v},
               job'[r].total = job[r].total - row[v].size,
               overdrawn' = overdrawn + IF v \in job[r].summed THEN 0 ELSE row[v].size
        PROVE  Covers(r)' /\ \A b \in job[r].summed : Alive(b)' => b \in job'[r].summed
    <3>1. \A b \in job'[r].summed : row'[b].size = row[b].size
      BY <1>2, <2>2, <2>3, <2>5 DEF Covers
    <3>2. /\ SumOf(row, job'[r].summed) \in Nat /\ SumOf(row', job'[r].summed) \in Nat
          /\ SumOf(row', job'[r].summed) <= SumOf(row, job'[r].summed)
      BY <1>1, <2>3, <3>1, FewerBytes
    <3>9. PICK S : S = job[r].summed
      OBVIOUS
    <3>10. S \in SUBSET Blobs
      BY <2>3, <3>9
    <3>11. /\ row[v].size \in Nat
           /\ SumOf(row, S) = SumOf(row, S \ {v}) + IF v \in S THEN row[v].size ELSE 0
      BY <1>1, <3>10, OneRowLess
    <3>3. /\ row[v].size \in Nat
          /\ SumOf(row, job[r].summed) = SumOf(row, job'[r].summed)
                + IF v \in job[r].summed THEN row[v].size ELSE 0
      BY <2>5, <3>9, <3>11
    <3>4. SumOf(row, job[r].summed) <= job[r].total + overdrawn
      BY <2>2 DEF Covers, Bytes
    <3>5. SumOf(row', job'[r].summed) <= job'[r].total + overdrawn'
      <4>1. CASE v \in job[r].summed
        BY <1>1, <2>3, <2>5, <3>2, <3>3, <3>4, <4>1
      <4>2. CASE v \notin job[r].summed
        BY <1>1, <2>3, <2>5, <3>2, <3>3, <3>4, <4>2
      <4> QED BY <4>1, <4>2
    <3>6. Bytes(job[r].summed)' <= job'[r].total + overdrawn'
      BY <3>5 DEF Bytes
    <3>7. \A b \in job'[r].summed : row'[b].status # "none"
      BY <1>2, <2>2, <2>3, <2>5 DEF Covers
    <3>8. \A b \in job[r].summed : Alive(b)' => b \in job'[r].summed
      BY <2>5
    <3> QED BY <3>6, <3>7, <3>8 DEF Covers
  <2>6. Recedes(r)
    OBVIOUS
  <2> QED BY <1>3, <2>1, <2>4, <2>5, <2>6 DEF Recedes
<1>4. \A r \in Evicting' : Covers(r)'
  BY <1>3 DEF Evicting
<1>5. ASSUME NEW X, X \subseteq Requests, \A r \in X : at'[r] \in {"list", "evict", "evicted"}
      PROVE  Fitting(X)'
  <2>1. Held(X)' \subseteq Held(X) /\ \A b \in Held(X) : row[b].status # "none"
    BY <1>1, <1>5, HeldShrinks
  <2>2. X \in SUBSET Evicting
    BY <1>3, <1>5
  <2>3. Fitting(X)
    BY <2>2 DEF QuotaIInv
  <2>4. CASE Bytes(Held(X)) <= AgentCap + overdrawn
    <3>1. PICK S, T : S = Held(X) /\ T = Held(X)'
      OBVIOUS
    <3>2. S \in SUBSET Blobs /\ T \in SUBSET S
      BY <2>1, <3>1, HeldRows
    <3>3. \A b \in T : row'[b].size = row[b].size
      BY <1>2, <2>1, <3>1, <3>2
    <3>4. /\ SumOf(row, S) \in Nat /\ SumOf(row', T) \in Nat
          /\ SumOf(row', T) <= SumOf(row, S)
      BY <1>1, <3>2, <3>3, FewerBytes
    <3>5. SumOf(row, S) <= AgentCap + overdrawn
      BY <2>4, <3>1 DEF Bytes
    <3>6. SumOf(row', T) <= AgentCap + overdrawn'
      BY <1>1, <3>4, <3>5, AttachmentsAssumption
    <3>7. Bytes(Held(X))' <= AgentCap + overdrawn'
      BY <3>1, <3>6 DEF Bytes
    <3> QED BY <3>7 DEF Fitting
  <2>5. CASE \E r \in X : Held(X) \subseteq job[r].summed
    <3>1. PICK r \in X : Held(X) \subseteq job[r].summed
      BY <2>5
    <3>2. \A b \in Held(X)' : Alive(b)'
      BY DEF Held, Admitted
    <3>3. Held(X)' \subseteq job'[r].summed
      BY <1>3, <1>5, <2>1, <3>1, <3>2
    <3> QED BY <3>3 DEF Fitting
  <2> QED BY <2>3, <2>4, <2>5 DEF Fitting
<1>6. PaneFits'
  <2>1. Admitted(PastAll)' \subseteq Admitted(PastAll)
        /\ \A b \in Admitted(PastAll) : row[b].status # "none"
    <3>1. {} \in SUBSET Requests /\ \A r \in {} : at'[r] \in {"list", "evict", "evicted"}
      OBVIOUS
    <3> QED BY <1>1, <3>1, HeldShrinks
  <2>2. PICK S, T : /\ S = {b \in Admitted(PastAll) : row[b].scope = "pane"}
                    /\ T = {b \in Admitted(PastAll)' : row'[b].scope = "pane"}
    OBVIOUS
  <2>3. S \in SUBSET Blobs /\ T \subseteq Blobs
    BY <2>1, <2>2, HeldRows
  <2>4. \A b \in T : row[b].status # "none" /\ b \in Admitted(PastAll)
    BY <2>1, <2>2
  <2>5. T \in SUBSET S /\ \A b \in T : row'[b].size = row[b].size
    BY <1>2, <2>2, <2>3, <2>4
  <2>6. /\ SumOf(row, S) \in Nat /\ SumOf(row', T) \in Nat
        /\ SumOf(row', T) <= SumOf(row, S)
    BY <1>1, <2>3, <2>5, FewerBytes
  <2>7. SumOf(row, S) <= PaneCap
    BY <2>2 DEF QuotaIInv, PaneFits, Bytes
  <2>8. SumOf(row', T) <= PaneCap
    BY <2>6, <2>7, AttachmentsAssumption
  <2> QED BY <2>2, <2>8 DEF PaneFits, Bytes
<1>7. \A X \in (SUBSET Evicting)' : Fitting(X)'
  BY <1>5 DEF Evicting
<1> QED BY <1>4, <1>6, <1>7 DEF QuotaIInv


-----------------------------------------------------------------------------
(* The rest of the state, whatever step is taken.                          *)
LEMMA OldestIsVictim ==
  ASSUME NEW V, V \subseteq Blobs \X BOOLEAN, V # {}
  PROVE  OldestVictim(V) \in V
<1>1. PICK N : N = {v[1] : v \in V}
  OBVIOUS
<1>2. N \in SUBSET Nat /\ N # {}
  BY <1>1, AttachmentsAssumption DEF Blobs
<1>3. PICK n \in N : \A m \in N : n <= m
  BY <1>2, LeastNumber
<1>4. \E v \in V : \A w \in V : v[1] <= w[1]
  BY <1>1, <1>3
<1> QED BY <1>4 DEF OldestVictim

LEMMA EvictsARow ==
  ASSUME RolesInv, NEW r \in Requests, at[r] = "evicted"
  PROVE  /\ OldestVictim(job[r].victims) \in job[r].victims
         /\ OldestVictim(job[r].victims)[1] \in Blobs
<1>1. Role(r) /\ job[r] \in Job
  BY DEF RolesInv
<1>2. job[r].victims # {} /\ job[r].victims \subseteq Blobs \X BOOLEAN
  BY <1>1 DEF Role, Job
<1> QED BY <1>2, OldestIsVictim

LEMMA RequestRest ==
  ASSUME RolesInv, NEW r \in Requests, RequestStep(r)
  PROVE  RestTyped' /\ overdrawn' >= overdrawn
<1>1. RestTyped
  BY DEF RolesInv
<1>2. CASE UNCHANGED <<paneGone, overdrawn, sweeping, told>>
  BY <1>1, <1>2 DEF RestTyped
<1>3. CASE Commit(r) \/ MarkDeleted(r)
  <2>1. told' \in [Blobs -> {"nothing", "created", "asked", "removed"}]
    BY <1>1, <1>3 DEF RestTyped, Commit, MarkDeleted, TellCreated
  <2>2. UNCHANGED <<paneGone, overdrawn, sweeping>>
    BY <1>3 DEF Commit, MarkDeleted
  <2> QED BY <1>1, <2>1, <2>2 DEF RestTyped
<1>4. CASE MarkEvicted(r)
  <2>1. PICK v : v = OldestVictim(job[r].victims)[1]
    OBVIOUS
  <2>2. v \in Blobs
    BY <1>4, <2>1, EvictsARow DEF MarkEvicted
  <2>3. row[v].size \in Nat
    <3>1. row \in [Blobs -> AttachmentRow] /\ {v} \in SUBSET Blobs
      BY <2>2 DEF RolesInv, AttInv, AttachmentsTyped
    <3> QED BY <3>1, RowSizes
  <2>4. \/ overdrawn' = overdrawn
        \/ overdrawn' = overdrawn + IF v \in job[r].summed THEN 0 ELSE row[v].size
    BY <1>4, <2>1 DEF MarkEvicted
  <2>5. overdrawn \in Nat
    BY <1>1 DEF RestTyped
  <2>6. overdrawn' \in Nat /\ overdrawn' >= overdrawn
    BY <2>3, <2>4, <2>5
  <2>7. UNCHANGED <<paneGone, sweeping, told>>
    BY <1>4 DEF MarkEvicted
  <2> QED BY <1>1, <2>6, <2>7 DEF RestTyped
<1>5. \/ UNCHANGED <<paneGone, overdrawn, sweeping, told>>
      \/ Commit(r) \/ MarkDeleted(r) \/ MarkEvicted(r)
  BY DEF RequestStep, UploadStep, Create, SetKey, Put, CheckAgent, ListVictims, EvictNext,
         CheckScope, Scan, Unput, FailUpload, HeadBlob, Stamp, Unlink, Fetch
<1> QED BY <1>2, <1>3, <1>4, <1>5

LEMMA OtherRest ==
  ASSUME RolesInv, [AttachmentsNext]_attachmentVars, ~ \E r \in Requests : RequestStep(r)
  PROVE  RestTyped' /\ overdrawn' >= overdrawn
<1>1. RestTyped
  BY DEF RolesInv
<1>2. CASE UNCHANGED <<paneGone, overdrawn, sweeping, told>>
  BY <1>1, <1>2 DEF RestTyped
<1>3. ASSUME NEW r \in Requests, NEW b \in Blobs, Confirm(r, b) \/ Delete(r, b) \/ Get(r, b)
      PROVE  RestTyped' /\ overdrawn' >= overdrawn
  <2>1. UNCHANGED <<paneGone, overdrawn, sweeping>>
    BY <1>3 DEF Confirm, Delete, Get
  <2>2. told' \in [Blobs -> {"nothing", "created", "asked", "removed"}]
    BY <1>1, <1>3 DEF RestTyped, Confirm, Delete, Get, TellCreated
  <2> QED BY <1>1, <2>1, <2>2 DEF RestTyped
<1>4. ASSUME NEW b \in Blobs, SweepRow(b) \/ SweepBytes(b)
      PROVE  RestTyped' /\ overdrawn' >= overdrawn
  BY <1>1, <1>4 DEF RestTyped, SweepRow, SweepBytes
<1>5. CASE PurgePane
  <2>1. paneGone' \in BOOLEAN /\ UNCHANGED <<sweeping, told, overdrawn>>
    BY <1>5 DEF PurgePane
  <2> QED BY <1>1, <2>1 DEF RestTyped
<1>7. CASE SweeperDies
  BY <1>1, <1>7 DEF RestTyped, SweeperDies
<1>6. \/ UNCHANGED <<paneGone, overdrawn, sweeping, told>>
      \/ \E r \in Requests, b \in Blobs : Confirm(r, b) \/ Delete(r, b) \/ Get(r, b)
      \/ \E b \in Blobs : SweepRow(b) \/ SweepBytes(b)
      \/ PurgePane \/ SweeperDies
  BY DEF AttachmentsNext, Begin, AbortRequest, ClientPut, UrlExpires, attachmentVars
<1> QED BY <1>2, <1>3, <1>4, <1>5, <1>6, <1>7

-----------------------------------------------------------------------------
(* A step: what holds before it, and of the rest of the state after it.    *)
Ground == QuotaIInv /\ AttInv' /\ RestTyped' /\ overdrawn' >= overdrawn

(* Where a request may go, with a job, without coming closer.              *)
NoCloser(r, step, j) ==
    LET evicts == {"list", "evict", "evicted"} IN
    /\ step \in Past => at[r] \in Past /\ j.blob = job[r].blob
    /\ step \in PastAll => at[r] \in PastAll
    /\ step \in evicts =>
          /\ at[r] \in evicts /\ j.blob = job[r].blob
          /\ \/ j.summed = job[r].summed /\ j.total = job[r].total
             \/ \E v \in Blobs :
                   /\ row[v].status # "none" /\ ~Alive(v)'
                   /\ j.summed = job[r].summed \ {v}
                   /\ j.total = job[r].total - row[v].size
                   /\ overdrawn' = overdrawn +
                         IF v \in job[r].summed THEN 0 ELSE row[v].size

LEMMA RequestRecedes ==
  ASSUME Ground, NEW r \in Requests, TableMoves({r}), NEW step, GoOn(r, step),
         NEW j \in Job, job' = [job EXCEPT ![r] = j], Suits(r, step, j),
         NoCloser(r, step, j)
  PROVE  QuotaIInv'
<1>1. RolesInv /\ job \in [Requests -> Job] /\ at \in [Requests -> Steps]
  BY DEF Ground, QuotaIInv, RolesInv, AttInv, AttachmentsTyped
<1>2. /\ at'[r] = step /\ job'[r] = j
      /\ \A s \in Requests \ {r} : at'[s] = at[s] /\ job'[s] = job[s]
  BY <1>1 DEF GoOn
<1>3. Recedes(r)
  BY <1>2 DEF Recedes, NoCloser
<1>4. \A s \in Requests : Recedes(s)
  BY <1>2, <1>3 DEF Recedes
<1>5. RolesInv'
  BY <1>1, RequestRoles DEF Ground
<1> QED BY <1>4, <1>5, QuotasKept DEF Ground

LEMMA EndRecedes ==
  ASSUME Ground, NEW r \in Requests, TableMoves({r}), Done(r)
  PROVE  QuotaIInv'
<1>1. PICK j : j = NoJob
  OBVIOUS
<1>2. j \in Job /\ j.kind = "other"
  BY <1>1 DEF NoJob, Job
<1>3. job' = [job EXCEPT ![r] = j] /\ GoOn(r, "idle")
  BY <1>1 DEF Done
<1>4. Suits(r, "idle", j) /\ NoCloser(r, "idle", j)
  BY <1>2 DEF Suits, NoCloser, Flying, Past, PastAll
<1> QED BY <1>2, <1>3, <1>4, RequestRecedes

LEMMA StillTable ==
  ASSUME UNCHANGED row, NEW K PROVE TableMoves(K)
BY DEF TableMoves, Moved, Same, Alike

LEMMA TableRecedes ==
  ASSUME Ground, TableMoves({}), UNCHANGED <<at, job>>
  PROVE  QuotaIInv'
<1>1. \A s \in Requests : Recedes(s)
  BY DEF Recedes
<1>2. RolesInv'
  BY TableRoles DEF Ground, QuotaIInv
<1> QED BY <1>1, <1>2, QuotasKept DEF Ground

(* An upload goes on with its row and its sum.                             *)
LEMMA UploadRecedes ==
  ASSUME Ground, NEW r \in Requests, UNCHANGED <<row, job>>, Ships(r), NEW step, GoOn(r, step),
         step \in {"put", "quota", "unput", "fail"}
            \/ (step \in {"evict", "evicted"} /\ at[r] \in {"list", "evict"})
            \/ (step \in PastAll /\ at[r] \in PastAll),
         step = "evicted" => job[r].victims # {}
  PROVE  QuotaIInv'
<1>1. PICK j : j = job[r]
  OBVIOUS
<1>2. job \in [Requests -> Job] /\ RolesInv
  BY DEF Ground, QuotaIInv, RolesInv
<1>3. j \in Job /\ job' = [job EXCEPT ![r] = j] /\ j.kind = "upload"
  BY <1>1, <1>2 DEF Ships
<1>4. j.blob \in Blobs /\ Unready(j.blob)
  BY <1>1, <1>2 DEF RolesInv, Manned
<1>5. row'[j.blob].status \notin {"ready", "failed"}
  BY <1>4 DEF Unready
<1>6. Suits(r, step, j)
  BY <1>1, <1>3, <1>4, <1>5 DEF Suits, PastAll
<1>7. NoCloser(r, step, j)
  BY <1>1 DEF NoCloser, Past, PastAll
<1>8. TableMoves({r})
  BY StillTable
<1> QED BY <1>3, <1>6, <1>7, <1>8, RequestRecedes

LEMMA RefusalRecedes ==
  ASSUME Ground, NEW r \in Requests, UNCHANGED row, RefuseRequest(r),
         at[r] \in {"quota", "evict", "scope"}
  PROVE  QuotaIInv'
<1>1. CASE Done(r)
  BY <1>1, StillTable, EndRecedes
<1>2. CASE job[r].kind = "upload" /\ GoOn(r, "unput") /\ UNCHANGED job
  <2>1. Ships(r)
    BY <1>2 DEF Ships, Flying
  <2> QED BY <1>2, <2>1, UploadRecedes
<1> QED BY <1>1, <1>2 DEF RefuseRequest


-----------------------------------------------------------------------------
(* The steps that bring no upload past a quota.                            *)
LEMMA BeginQuota ==
  ASSUME Ground, NEW r \in Requests, NEW size \in Sizes, NEW scope \in Scopes,
         Begin(r, "upload", size, scope)
  PROVE  QuotaIInv'
<1>0. PICK i : i = NoJob
  OBVIOUS
<1>1. PICK j : j = [i EXCEPT !.kind = "upload", !.size = size, !.scope = scope]
  OBVIOUS
<1>2. scope \in {"agent", "pane"} /\ i \in Job
  BY <1>0, AttachmentsAssumption DEF NoJob, Job
<1>3. j \in Job /\ j.kind = "upload"
  BY <1>1, <1>2 DEF Job
<1>4. job' = [job EXCEPT ![r] = j] /\ GoOn(r, "create") /\ UNCHANGED row
  BY <1>0, <1>1 DEF Begin
<1>5. Suits(r, "create", j) /\ NoCloser(r, "create", j)
  BY <1>3 DEF Suits, NoCloser, Flying, Past, PastAll
<1> QED BY <1>3, <1>4, <1>5, StillTable, RequestRecedes

LEMMA CreateQuota ==
  ASSUME Ground, NEW r \in Requests, Create(r)
  PROVE  QuotaIInv'
<1> DEFINE free == {b \in Blobs : row[b].status = "none"}
<1>1. CASE Done(r) /\ UNCHANGED row
  BY <1>1, StillTable, EndRecedes
<1>2. CASE ~(Done(r) /\ UNCHANGED row)
  <2>1. PICK b : b = Min(free)
    OBVIOUS
  <2>2. free # {}
    BY <1>2 DEF Create
  <2>3. b \in Blobs /\ row[b].status = "none"
    BY <2>1, <2>2, LeastOf
  <2>4. PICK q : q = [NoRow EXCEPT !.status = "pending", !.size = job[r].size,
                                   !.scope = job[r].scope]
    OBVIOUS
  <2>5. q.status = "pending" /\ q.scope = job[r].scope
    BY <2>4 DEF NoRow
  <2>6. PICK i : i = job[r]
    OBVIOUS
  <2>7. PICK j : j = [i EXCEPT !.blob = b]
    OBVIOUS
  <2>8. /\ job \in [Requests -> Job] /\ row \in [Blobs -> AttachmentRow]
        /\ Role(r) /\ at[r] = "create"
    BY DEF Ground, QuotaIInv, RolesInv, AttInv, AttachmentsTyped, Create
  <2>9. i \in Job /\ i.kind = "upload"
    BY <2>6, <2>8 DEF Role
  <2>10. j \in Job /\ j.kind = "upload" /\ j.blob = b /\ j.scope = i.scope
    BY <2>3, <2>7, <2>9 DEF Job
  <2>11. /\ GoOn(r, "key") /\ row' = [row EXCEPT ![b] = q]
         /\ job' = [job EXCEPT ![r] = j]
    BY <1>2, <2>1, <2>4, <2>6, <2>7 DEF Create
  <2>12. row'[b] = q /\ \A c \in Blobs \ {b} : row'[c] = row[c]
    BY <2>3, <2>8, <2>11
  <2>13. TableMoves({r})
    BY <2>3, <2>5, <2>12 DEF TableMoves, Moved, Same, Alike
  <2>14. Suits(r, "key", j)
    BY <2>3, <2>5, <2>6, <2>10, <2>12 DEF Suits
  <2>15. NoCloser(r, "key", j)
    BY DEF NoCloser, Past, PastAll
  <2> QED BY <2>10, <2>11, <2>13, <2>14, <2>15, RequestRecedes
<1> QED BY <1>1, <1>2

LEMMA SetKeyQuota ==
  ASSUME Ground, NEW r \in Requests, SetKey(r)
  PROVE  QuotaIInv'
<1>1. PICK v : v = job[r].blob
  OBVIOUS
<1>2. RolesInv /\ Role(r) /\ at[r] = "key" /\ Manned(r)
  BY DEF Ground, QuotaIInv, RolesInv, SetKey
<1>3. Ships(r) /\ job[r].kind = "upload"
  BY <1>2 DEF Role, Ships, Flying
<1>4. v \in Blobs /\ row[v].scope = job[r].scope /\ Unready(v)
  BY <1>1, <1>2, <1>3 DEF Manned
<1>5. CASE ~Exists(v)
  BY <1>1, <1>5, StillTable, EndRecedes DEF SetKey
<1>6. CASE Exists(v)
  <2>1. row \in [Blobs -> AttachmentRow]
    BY <1>2 DEF RolesInv, AttInv, AttachmentsTyped
  <2>2. PICK u : u = (job[r].kind = "presign")
    OBVIOUS
  <2>3. PICK p : p = row[v]
    OBVIOUS
  <2>4. PICK q : q = [p EXCEPT !.keyed = TRUE, !.url = u]
    OBVIOUS
  <2>5. /\ q.status = p.status /\ q.deletedAt = p.deletedAt
        /\ q.size = p.size /\ q.scope = p.scope
    BY <1>4, <2>1, <2>3, <2>4 DEF AttachmentRow
  <2>6. row' = [row EXCEPT ![v] = q] /\ GoOn(r, "put") /\ UNCHANGED job
    BY <1>1, <1>3, <1>6, <2>2, <2>3, <2>4 DEF SetKey
  <2>7. row'[v] = q /\ \A c \in Blobs \ {v} : row'[c] = row[c]
    BY <1>4, <2>1, <2>6
  <2>8. TableMoves({r})
    BY <2>3, <2>5, <2>7 DEF TableMoves, Moved, Same, Alike
  <2>9. PICK j : j = job[r]
    OBVIOUS
  <2>10. j \in Job /\ job' = [job EXCEPT ![r] = j]
    BY <1>2, <2>6, <2>9 DEF RolesInv
  <2>11. row'[v].status \notin {"ready", "failed"}
    BY <1>4, <2>3, <2>5, <2>7 DEF Unready
  <2>12. Suits(r, "put", j)
    BY <1>1, <1>3, <1>4, <2>9, <2>11 DEF Suits
  <2>13. NoCloser(r, "put", j)
    BY DEF NoCloser, Past, PastAll
  <2> QED BY <2>6, <2>8, <2>10, <2>12, <2>13, RequestRecedes
<1> QED BY <1>5, <1>6

(* The UPDATEs of a status.                                                *)
LEMMA StatusRows ==
  ASSUME RolesInv, NEW v \in Blobs, NEW status, SetStatus(v, status)
  PROVE  /\ \A c \in Blobs \ {v} : row'[c] = row[c]
         /\ ~Exists(v) => row' = row
         /\ Exists(v) => /\ row'[v].status = status /\ Alike(v)
                         /\ row'[v].deletedAt = row[v].deletedAt
<1>1. row \in [Blobs -> AttachmentRow]
  BY DEF RolesInv, AttInv, AttachmentsTyped
<1>2. PICK p : p = row[v]
  OBVIOUS
<1>3. PICK q : q = [p EXCEPT !.status = status]
  OBVIOUS
<1>4. q.status = status /\ q.size = p.size /\ q.scope = p.scope /\ q.deletedAt = p.deletedAt
  BY <1>1, <1>2, <1>3 DEF AttachmentRow
<1>5. row' = IF Exists(v) THEN [row EXCEPT ![v] = q] ELSE row
  BY <1>2, <1>3 DEF SetStatus
<1> QED BY <1>1, <1>2, <1>4, <1>5 DEF Alike

LEMMA FailUploadQuota ==
  ASSUME Ground, NEW r \in Requests, FailUpload(r)
  PROVE  QuotaIInv'
<1>1. PICK v : v = job[r].blob
  OBVIOUS
<1>2. RolesInv /\ Role(r) /\ at[r] = "fail" /\ Manned(r) /\ OwnRows
  BY DEF Ground, QuotaIInv, RolesInv, FailUpload
<1>3. v \in Blobs /\ \A s \in Requests \ {r} : Ships(s) => job[s].blob # v
  <2>1. CASE job[r].kind = "upload"
    <3>1. Ships(r)
      BY <1>2, <2>1 DEF Ships, Flying
    <3> QED BY <1>1, <1>2, <3>1 DEF Manned, OwnRows
  <2>2. CASE job[r].kind # "upload"
    BY <1>1, <1>2, <2>2 DEF Role
  <2> QED BY <2>1, <2>2
<1>4. SetStatus(v, "failed") /\ Done(r)
  BY <1>1 DEF FailUpload
<1>5. /\ \A c \in Blobs \ {v} : row'[c] = row[c]
      /\ ~Exists(v) => row' = row
      /\ Exists(v) => row'[v].status = "failed" /\ Alike(v)
  BY <1>2, <1>3, <1>4, StatusRows
<1>6. TableMoves({r})
  BY <1>3, <1>5 DEF TableMoves, Moved, Same, Alike, Others
<1> QED BY <1>4, <1>6, EndRecedes

LEMMA CommitQuota ==
  ASSUME Ground, NEW r \in Requests, Commit(r)
  PROVE  QuotaIInv'
<1>1. PICK v : v = job[r].blob
  OBVIOUS
<1>2. RolesInv /\ at[r] = "commit" /\ OwnRows
  BY DEF Ground, QuotaIInv, RolesInv, Commit
<1>3. Ships(r) /\ v \in Blobs
  BY <1>1, <1>2, HasRow DEF Past
<1>4. \A s \in Requests \ {r} : Ships(s) => job[s].blob # v
  BY <1>1, <1>2, <1>3 DEF OwnRows
<1>5. SetStatus(v, "ready") /\ Done(r)
  BY <1>1 DEF Commit
<1>6. /\ \A c \in Blobs \ {v} : row'[c] = row[c]
      /\ ~Exists(v) => row' = row
      /\ Exists(v) => /\ row'[v].status = "ready" /\ Alike(v)
                      /\ row'[v].deletedAt = row[v].deletedAt
  BY <1>2, <1>3, <1>5, StatusRows
<1>7. r \in Requests \cap {r}
  OBVIOUS
<1>8. CASE ~Exists(v)
  BY <1>5, <1>6, <1>8, StillTable, EndRecedes
<1>9. CASE Exists(v)
  <2>1. Moved({r}, v)
    BY <1>1, <1>2, <1>3, <1>4, <1>6, <1>7, <1>9 DEF Moved, Others
  <2>2. TableMoves({r})
    BY <1>6, <2>1 DEF TableMoves, Moved, Same, Alike
  <2> QED BY <1>5, <2>2, EndRecedes
<1> QED BY <1>8, <1>9

(* A row is marked deleted.                                                *)
LEMMA MarkedRows ==
  ASSUME RolesInv, NEW v, Exists(v), NEW K,
         row' = [row EXCEPT ![v].status = "deleted", ![v].deletedAt = TRUE]
  PROVE  TableMoves(K) /\ (v \in Blobs => ~Alive(v)')
<1>1. row \in [Blobs -> AttachmentRow]
  BY DEF RolesInv, AttInv, AttachmentsTyped
<1>2. ASSUME NEW b \in Blobs PROVE Moved(K, b) /\ (b = v => ~Alive(b)')
  <2>1. CASE b # v
    <3>1. row'[b] = row[b]
      BY <1>1, <2>1
    <3> QED BY <2>1, <3>1 DEF Moved, Same, Alike
  <2>2. CASE b = v
    <3>1. PICK p : p = row[b]
      OBVIOUS
    <3>2. PICK q : q = [p EXCEPT !.status = "deleted", !.deletedAt = TRUE]
      OBVIOUS
    <3>3. q.status = "deleted" /\ q.deletedAt /\ q.size = p.size /\ q.scope = p.scope
      BY <1>1, <3>1, <3>2 DEF AttachmentRow
    <3>4. row' = [row EXCEPT ![b] = q]
      BY <2>2, <3>1, <3>2
    <3>5. row'[b] = q
      BY <1>1, <3>4
    <3> QED BY <2>2, <3>1, <3>3, <3>5 DEF Moved, Alike, Alive, Counted
  <2> QED BY <2>1, <2>2
<1> QED BY <1>2 DEF TableMoves

LEMMA MarkDeletedQuota ==
  ASSUME Ground, NEW r \in Requests, MarkDeleted(r)
  PROVE  QuotaIInv'
<1>1. PICK v : v = job[r].blob
  OBVIOUS
<1>2. RolesInv
  BY DEF Ground, QuotaIInv
<1>3. CASE Exists(v)
  <2>1. row' = [row EXCEPT ![v].status = "deleted", ![v].deletedAt = TRUE]
    BY <1>1, <1>3 DEF MarkDeleted
  <2>2. TableMoves({r})
    BY <1>2, <1>3, <2>1, MarkedRows
  <2> QED BY <2>2, EndRecedes DEF MarkDeleted
<1>4. CASE ~Exists(v)
  BY <1>1, <1>4, StillTable, EndRecedes DEF MarkDeleted
<1> QED BY <1>3, <1>4

LEMMA MarkEvictedQuota ==
  ASSUME Ground, NEW r \in Requests, MarkEvicted(r)
  PROVE  QuotaIInv'
<1> DEFINE oldest == OldestVictim(job[r].victims)
<1>1. PICK i : i = job[r]
  OBVIOUS
<1>2. PICK v : v = oldest[1]
  OBVIOUS
<1>3. RolesInv /\ at[r] = "evicted"
  BY DEF Ground, QuotaIInv, MarkEvicted
<1>4. v \in Blobs
  BY <1>2, <1>3, EvictsARow
<1>5. CASE ~Exists(v)
  BY <1>2, <1>5, StillTable, EndRecedes DEF MarkEvicted
<1>6. CASE Exists(v)
  <2>1. PICK t : t = i.total - row[v].size
    OBVIOUS
  <2>2. PICK W : W = i.victims \ {oldest}
    OBVIOUS
  <2>3. PICK S : S = i.summed \ {v}
    OBVIOUS
  <2>4. PICK j : j = [i EXCEPT !.victims = W, !.total = t, !.summed = S]
    OBVIOUS
  <2>5. i \in Job /\ row \in [Blobs -> AttachmentRow]
    BY <1>1, <1>3 DEF RolesInv, AttInv, AttachmentsTyped
  <2>6. W \in SUBSET (Blobs \X BOOLEAN) /\ S \in SUBSET Blobs
    BY <2>2, <2>3, <2>5 DEF Job
  <2>7. t \in Int
    <3>1. {v} \in SUBSET Blobs
      BY <1>4
    <3>2. row[v].size \in Nat
      BY <2>5, <3>1, RowSizes
    <3>3. i.total \in Int
      BY <2>5 DEF Job
    <3> QED BY <2>1, <3>2, <3>3
  <2>8. /\ j \in Job /\ j.kind = i.kind /\ j.blob = i.blob /\ j.scope = i.scope
        /\ j.total = t /\ j.summed = S
    BY <2>4, <2>5, <2>6, <2>7 DEF Job
  <2>9. job' = [job EXCEPT ![r] = j] /\ GoOn(r, "evict")
    BY <1>1, <1>2, <1>6, <2>1, <2>2, <2>3, <2>4 DEF MarkEvicted
  <2>10. row' = [row EXCEPT ![v].status = "deleted", ![v].deletedAt = TRUE]
    BY <1>2, <1>6 DEF MarkEvicted
  <2>11. TableMoves({r}) /\ ~Alive(v)' /\ row[v].status # "none"
    BY <1>3, <1>4, <1>6, <2>10, MarkedRows DEF Exists
  <2>12. overdrawn' = overdrawn + IF v \in job[r].summed THEN 0 ELSE row[v].size
    BY <1>2, <1>6 DEF MarkEvicted
  <2>13. NoCloser(r, "evict", j)
    BY <1>1, <1>3, <1>4, <2>1, <2>3, <2>8, <2>11, <2>12 DEF NoCloser, Past, PastAll
  <2>14. Ships(r) /\ i.blob \in Blobs /\ Unready(i.blob) /\ i.kind = "upload"
    <3>1. Ships(r) /\ Manned(r)
      BY <1>3, HasRow DEF RolesInv
    <3> QED BY <1>1, <3>1 DEF Manned, Ships
  <2>15. row'[i.blob].status \notin {"ready", "failed"}
    <3>1. Moved({r}, i.blob)
      BY <2>11, <2>14 DEF TableMoves
    <3>2. row'[i.blob].status \in {row[i.blob].status, "deleted"}
      <4>1. CASE i.blob = v
        <5>1. PICK p : p = row[v]
          OBVIOUS
        <5>2. PICK q : q = [p EXCEPT !.status = "deleted", !.deletedAt = TRUE]
          OBVIOUS
        <5>3. q.status = "deleted" /\ row' = [row EXCEPT ![v] = q]
          BY <1>4, <2>5, <2>10, <5>1, <5>2 DEF AttachmentRow
        <5> QED BY <1>4, <2>5, <4>1, <5>3
      <4>2. CASE i.blob # v
        BY <2>5, <2>10, <2>14, <4>2
      <4> QED BY <4>1, <4>2
    <3> QED BY <2>14, <3>2 DEF Unready
  <2>16. Suits(r, "evict", j)
    BY <1>1, <2>8, <2>14, <2>15 DEF Suits
  <2> QED BY <2>8, <2>9, <2>11, <2>13, <2>16, RequestRecedes
<1> QED BY <1>5, <1>6

LEMMA ListVictimsQuota ==
  ASSUME Ground, NEW r \in Requests, ListVictims(r)
  PROVE  QuotaIInv'
<1>1. PICK i : i = job[r]
  OBVIOUS
<1>2. PICK W : W = {<<b, row[b].keyed>> : b \in
                      {c \in Blobs : Counted(c) /\ row[c].scope = "agent"}}
  OBVIOUS
<1>3. RolesInv /\ at[r] = "list" /\ i \in Job /\ row \in [Blobs -> AttachmentRow]
  BY <1>1 DEF Ground, QuotaIInv, RolesInv, AttInv, AttachmentsTyped, ListVictims
<1>4. W \in SUBSET (Blobs \X BOOLEAN)
  BY <1>2, <1>3 DEF AttachmentRow
<1>5. PICK j : j = [i EXCEPT !.victims = W]
  OBVIOUS
<1>6. /\ j \in Job /\ j.kind = i.kind /\ j.blob = i.blob /\ j.scope = i.scope
      /\ j.total = i.total /\ j.summed = i.summed
  BY <1>3, <1>4, <1>5 DEF Job
<1>7. job' = [job EXCEPT ![r] = j] /\ GoOn(r, "evict") /\ UNCHANGED row
  BY <1>1, <1>2, <1>5 DEF ListVictims
<1>8. Ships(r) /\ i.blob \in Blobs /\ Unready(i.blob) /\ i.kind = "upload"
  <2>1. Ships(r) /\ Manned(r)
    BY <1>3, HasRow DEF RolesInv
  <2> QED BY <1>1, <2>1 DEF Manned, Ships
<1>9. row'[i.blob].status \notin {"ready", "failed"}
  BY <1>7, <1>8 DEF Unready
<1>10. Suits(r, "evict", j)
  BY <1>1, <1>6, <1>8, <1>9 DEF Suits
<1>11. NoCloser(r, "evict", j)
  BY <1>1, <1>3, <1>6 DEF NoCloser, Past, PastAll
<1> QED BY <1>6, <1>7, <1>10, <1>11, StillTable, RequestRecedes


LEMMA OpenQuota ==
  ASSUME Ground, NEW r \in Requests, NEW b \in Blobs, Delete(r, b) \/ Get(r, b)
  PROVE  QuotaIInv'
<1>1. UNCHANGED row /\ row[b].status # "none"
  BY DEF Delete, Get, Exists
<1>2. PICK k : k = row[b].keyed
  OBVIOUS
<1>3. RolesInv /\ row \in [Blobs -> AttachmentRow]
  BY DEF Ground, QuotaIInv, RolesInv, AttInv, AttachmentsTyped
<1>0. PICK i : i = NoJob
  OBVIOUS
<1>4. PICK j : j = [i EXCEPT !.blob = b, !.keyed = k]
  OBVIOUS
<1>5. k \in BOOLEAN /\ i \in Job /\ i.kind = "other"
  BY <1>0, <1>2, <1>3 DEF AttachmentRow, NoJob, Job
<1>6. j \in Job /\ j.kind = "other" /\ j.blob = b
  BY <1>4, <1>5 DEF Job
<1>7. CASE UNCHANGED <<at, job>>
  BY <1>1, <1>7, StillTable, TableRecedes
<1>8. ASSUME NEW step \in {"unlink", "fetch"}, OpenConfirm(r, b, step),
             step = "fetch" => row[b].status = "ready"
      PROVE  QuotaIInv'
  <2>1. job' = [job EXCEPT ![r] = j] /\ GoOn(r, step)
    BY <1>0, <1>2, <1>4, <1>8 DEF OpenConfirm
  <2>2. step = "fetch" => \A s \in Requests : Ships(s) => job[s].blob # b
    BY <1>3, <1>8 DEF RolesInv, Manned, Unready
  <2>3. Suits(r, step, j) /\ NoCloser(r, step, j)
    BY <1>1, <1>6, <1>8, <2>2 DEF Suits, NoCloser, Flying, Past, PastAll
  <2> QED BY <1>1, <1>6, <2>1, <2>3, StillTable, RequestRecedes
<1> QED BY <1>7, <1>8 DEF Delete, Get

LEMMA FetchQuota ==
  ASSUME Ground, NEW r \in Requests, Fetch(r)
  PROVE  QuotaIInv'
<1>1. CASE Done(r)
  BY <1>1, StillTable, EndRecedes DEF Fetch
<1>2. CASE GoOn(r, "fail") /\ UNCHANGED job
  <2>1. PICK j : j = job[r]
    OBVIOUS
  <2>2. /\ RolesInv /\ Role(r) /\ at[r] = "fetch" /\ UNCHANGED row
        /\ j \in Job /\ job' = [job EXCEPT ![r] = j]
    BY <1>2, <2>1 DEF Ground, QuotaIInv, RolesInv, Fetch
  <2>3. /\ j.blob \in Blobs /\ row[j.blob].status # "none"
        /\ \A s \in Requests : Ships(s) => job[s].blob # j.blob
    BY <2>1, <2>2 DEF Role
  <2>4. j.kind # "upload"
    BY <2>1, <2>2 DEF Role
  <2>5. Suits(r, "fail", j) /\ NoCloser(r, "fail", j)
    BY <2>3, <2>4 DEF Suits, NoCloser, Past, PastAll
  <2> QED BY <1>2, <2>2, <2>5, StillTable, RequestRecedes
<1> QED BY <1>1, <1>2 DEF Fetch

LEMMA UnlinkQuota ==
  ASSUME Ground, NEW r \in Requests, Unlink(r)
  PROVE  QuotaIInv'
<1>1. PICK j : j = job[r]
  OBVIOUS
<1>2. /\ UNCHANGED row /\ GoOn(r, "mark")
      /\ j \in Job /\ job' = [job EXCEPT ![r] = j]
  BY <1>1 DEF Ground, QuotaIInv, RolesInv, Unlink
<1>3. Suits(r, "mark", j) /\ NoCloser(r, "mark", j)
  BY DEF Suits, NoCloser, Flying, Past, PastAll
<1> QED BY <1>2, <1>3, StillTable, RequestRecedes

LEMMA UploadGoesOnQuota ==
  ASSUME Ground, NEW r \in Requests, Put(r) \/ Scan(r) \/ Unput(r)
  PROVE  QuotaIInv'
<1>1. Role(r) /\ UNCHANGED <<row, job>>
  BY DEF Ground, QuotaIInv, RolesInv, Put, Scan, Unput
<1>2. Ships(r)
  BY <1>1 DEF Role, Ships, Flying, Put, Scan, Unput
<1> QED BY <1>1, <1>2, UploadRecedes DEF Put, Scan, Unput, PastAll

LEMMA UrlExpiresQuota ==
  ASSUME Ground, NEW b \in Blobs, UrlExpires(b)
  PROVE  QuotaIInv'
<1>1. row \in [Blobs -> AttachmentRow]
  BY DEF Ground, QuotaIInv, RolesInv, AttInv, AttachmentsTyped
<1>2. PICK p : p = row[b]
  OBVIOUS
<1>3. PICK q : q = [p EXCEPT !.url = FALSE]
  OBVIOUS
<1>4. /\ q.status = p.status /\ q.deletedAt = p.deletedAt
      /\ q.size = p.size /\ q.scope = p.scope
  BY <1>1, <1>2, <1>3 DEF AttachmentRow
<1>5. row' = [row EXCEPT ![b] = q]
  BY <1>2, <1>3 DEF UrlExpires
<1>6. row'[b] = q /\ \A c \in Blobs \ {b} : row'[c] = row[c]
  BY <1>1, <1>5
<1>7. TableMoves({})
  BY <1>2, <1>4, <1>6 DEF TableMoves, Moved, Same, Alike
<1> QED BY <1>7, TableRecedes DEF UrlExpires

(* The rows that are hard-deleted.                                         *)
LEMMA PurgedRows ==
  ASSUME row \in [Blobs -> AttachmentRow],
         \A b \in Blobs : \/ row'[b] = row[b]
                          \/ Exists(b) /\ row'[b] = [row[b] EXCEPT !.status = "purged"]
  PROVE  TableMoves({})
<1>1. \A p \in AttachmentRow :
         LET q == [p EXCEPT !.status = "purged"]
         IN  q.size = p.size /\ q.scope = p.scope /\ q.status = "purged"
  BY DEF AttachmentRow
<1>2. ASSUME NEW b \in Blobs PROVE Moved({}, b)
  <2>1. CASE row'[b] = row[b]
    BY <2>1 DEF Moved, Same, Alike
  <2>2. CASE Exists(b) /\ row'[b] = [row[b] EXCEPT !.status = "purged"]
    <3>1. PICK q : q = [row[b] EXCEPT !.status = "purged"]
      OBVIOUS
    <3>2. q.size = row[b].size /\ q.scope = row[b].scope /\ q.status = "purged"
      BY <1>1, <3>1
    <3> QED BY <2>2, <3>1, <3>2 DEF Moved, Alike
  <2> QED BY <2>1, <2>2
<1> QED BY <1>2 DEF TableMoves

LEMMA SweepQuota ==
  ASSUME Ground, (\E b \in Blobs : SweepRow(b)) \/ PurgePane
  PROVE  QuotaIInv'
<1>1. row \in [Blobs -> AttachmentRow]
  BY DEF Ground, QuotaIInv, RolesInv, AttInv, AttachmentsTyped
<1>2. \A b \in Blobs : \/ row'[b] = row[b]
                       \/ Exists(b) /\ row'[b] = [row[b] EXCEPT !.status = "purged"]
  <2>1. CASE PurgePane
    BY <2>1 DEF PurgePane
  <2>2. ASSUME NEW v \in Blobs, SweepRow(v)
        PROVE  \A b \in Blobs :
                  \/ row'[b] = row[b]
                  \/ Exists(b) /\ row'[b] = [row[b] EXCEPT !.status = "purged"]
    <3>1. row' = [row EXCEPT ![v] = [row[v] EXCEPT !.status = "purged"]] /\ Exists(v)
      BY <2>2 DEF SweepRow
    <3>2. PICK p : p = row[v]
      OBVIOUS
    <3>3. PICK q : q = [p EXCEPT !.status = "purged"]
      OBVIOUS
    <3>4. Exists(v) /\ row' = [row EXCEPT ![v] = q]
      BY <3>1, <3>2, <3>3
    <3>5. row'[v] = q /\ \A b \in Blobs \ {v} : row'[b] = row[b]
      BY <1>1, <3>4
    <3>6. row'[v] = [row[v] EXCEPT !.status = "purged"]
      BY <3>2, <3>3, <3>5
    <3>7. \A b \in Blobs : b = v => /\ Exists(b)
                                   /\ row'[b] = [row[b] EXCEPT !.status = "purged"]
      BY <3>4, <3>6, Zenon
    <3> QED BY <3>5, <3>7, Zenon
  <2> QED BY <2>1, <2>2
<1>3. TableMoves({})
  BY <1>1, <1>2, PurgedRows
<1>4. UNCHANGED <<at, job>>
  BY DEF SweepRow, PurgePane
<1> QED BY <1>3, <1>4, TableRecedes

-----------------------------------------------------------------------------
(* The steps past a quota. The rows, the sums and the jobs stay as they    *)
(* are, but for the sum a request takes with it.                           *)
LEMMA LessBytes ==
  ASSUME RolesInv, NEW S \in SUBSET Blobs, NEW T \in SUBSET S
  PROVE  Bytes(S) \in Nat /\ Bytes(T) \in Nat /\ Bytes(T) <= Bytes(S)
<1>1. row \in [Blobs -> AttachmentRow]
  BY DEF RolesInv, AttInv, AttachmentsTyped
<1>2. \A b \in T : row[b].size = row[b].size
  OBVIOUS
<1>3. /\ SumOf(row, S) \in Nat /\ SumOf(row, T) \in Nat
      /\ SumOf(row, T) <= SumOf(row, S)
  BY <1>1, <1>2, FewerBytes
<1> QED BY <1>3 DEF Bytes

LEMMA JobNumbers ==
  ASSUME NEW j \in Job
  PROVE  j.size \in Nat /\ j.total \in Int /\ j.summed \in SUBSET Blobs
<1>1. Sizes \cup {0} \subseteq Nat
  BY AttachmentsAssumption
<1> QED BY <1>1 DEF Job

(* A request passes with the job it has, or with a sum of its own.         *)
LEMMA Passes ==
  ASSUME Ground, NEW r \in Requests, UNCHANGED row, Ships(r),
         NEW step, GoOn(r, step), step \in {"list", "scope", "scan", "commit"},
         NEW j \in Job, job' = [job EXCEPT ![r] = j], j.kind = job[r].kind,
         j.blob = job[r].blob, j.scope = job[r].scope
  PROVE  /\ RolesInv' /\ RolesInv
         /\ at'[r] = step /\ job'[r] = j
         /\ \A s \in Requests \ {r} : at'[s] = at[s] /\ job'[s] = job[s]
<1>1. RolesInv /\ job \in [Requests -> Job] /\ at \in [Requests -> Steps] /\ Manned(r)
  BY DEF Ground, QuotaIInv, RolesInv, AttInv, AttachmentsTyped
<1>2. /\ at'[r] = step /\ job'[r] = j
      /\ \A s \in Requests \ {r} : at'[s] = at[s] /\ job'[s] = job[s]
  BY <1>1 DEF GoOn
<1>3. j.blob \in Blobs /\ Unready(j.blob)
  BY <1>1 DEF Manned
<1>4. row'[j.blob].status \notin {"ready", "failed"}
  BY <1>3 DEF Unready
<1>5. Suits(r, step, j)
  BY <1>3, <1>4 DEF Suits, Ships
<1>6. RolesInv'
  BY <1>1, <1>5, StillTable, RequestRoles DEF Ground
<1> QED BY <1>1, <1>2, <1>6

LEMMA CountedRows == \A X : /\ Held(X) \subseteq InTotal /\ InTotal \subseteq Blobs
                            /\ Admitted(PastAll) \subseteq InTotal
BY DEF Held, Admitted, InTotal, Alive

(* The sum with the upload's own row is what is admitted at most.          *)
LEMMA FitsAgentQuota ==
  ASSUME Ground, NEW r \in Requests, CheckAgent(r), FitsAgent(r, AgentTotal)
  PROVE  QuotaIInv'
<1>1. at[r] = "quota" /\ GoOn(r, "scope") /\ UNCHANGED <<row, job, overdrawn>>
  BY DEF CheckAgent
<1>2. RolesInv /\ job \in [Requests -> Job] /\ overdrawn \in Nat
  BY DEF Ground, QuotaIInv, RolesInv, RestTyped
<1>3. PICK j : j = job[r]
  OBVIOUS
<1>4. j \in Job /\ job' = [job EXCEPT ![r] = j] /\ Ships(r)
  BY <1>1, <1>2, <1>3, HasRow
<1>5. /\ RolesInv' /\ at'[r] = "scope"
      /\ \A s \in Requests \ {r} : at'[s] = at[s]
  <2>1. PICK step : step = "scope"
    OBVIOUS
  <2>2. /\ step \in {"list", "scope", "scan", "commit"} /\ GoOn(r, step) /\ UNCHANGED row
        /\ j.kind = job[r].kind /\ j.blob = job[r].blob /\ j.scope = job[r].scope
    BY <1>1, <1>3, <2>1
  <2>3. RolesInv' /\ at'[r] = step /\ \A s \in Requests \ {r} : at'[s] = at[s]
    BY <1>4, <2>2, Passes
  <2> QED BY <2>1, <2>3
<1>6. Bytes(InTotal) \in Nat /\ Bytes(InTotal) <= AgentCap
  <2>1. Bytes(InTotal) \in Nat
    BY <1>2, CountedRows, LessBytes
  <2>2. job[r].size \in Nat
    BY <1>2, JobNumbers
  <2> QED BY <2>1, <2>2, AttachmentsAssumption DEF FitsAgent, AgentTotal
<1>7. ASSUME NEW X PROVE Fitting(X)'
  <2>1. PICK T : T = Held(X)'
    OBVIOUS
  <2>2. InTotal' = InTotal
    BY <1>1 DEF InTotal, Counted
  <2>3. T \subseteq InTotal
    BY <2>1, <2>2 DEF Held, Admitted, InTotal, Alive
  <2>4. Bytes(T) \in Nat /\ Bytes(T) <= Bytes(InTotal)
    BY <1>2, <2>3, CountedRows, LessBytes
  <2>5. Bytes(T) <= AgentCap + overdrawn
    BY <1>2, <1>6, <2>4, AttachmentsAssumption
  <2>6. SumOf(row', T) <= AgentCap + overdrawn'
    BY <1>1, <2>5 DEF Bytes
  <2>7. Bytes(Held(X))' <= AgentCap + overdrawn'
    BY <2>1, <2>6 DEF Bytes
  <2> QED BY <2>7 DEF Fitting
<1>8. \A s \in Evicting' : Covers(s)'
  <2> SUFFICES ASSUME NEW s \in Evicting' PROVE Covers(s)'
    OBVIOUS
  <2>1. s \in Evicting
    BY <1>5 DEF Evicting
  <2>2. Covers(s)
    BY <2>1 DEF Ground, QuotaIInv
  <2> QED BY <1>1, <2>2 DEF Covers, Bytes
<1>9. PaneFits'
  <2>1. Admitted(PastAll)' = Admitted(PastAll)
    <3>1. \A s \in Requests : at'[s] \in PastAll <=> at[s] \in PastAll
      BY <1>1, <1>5 DEF PastAll
    <3> QED BY <1>1, <3>1 DEF Admitted, Alive, Counted, Ready
  <2> QED BY <1>1, <2>1 DEF Ground, QuotaIInv, PaneFits, Bytes
<1> QED BY <1>5, <1>7, <1>8, <1>9 DEF QuotaIInv


(* An upload that is over the quota takes the sum along.                   *)
LEMMA OverSummed ==
  ASSUME Ground, NEW r \in Requests, at[r] = "quota", GoOn(r, "list"),
         UNCHANGED <<row, overdrawn>>,
         Ships(r), NEW j \in Job, job' = [job EXCEPT ![r] = j], j.kind = job[r].kind,
         j.blob = job[r].blob, j.scope = job[r].scope, NEW S, S = InTotal,
         NEW t, t = Bytes(S), j.total = t, j.summed = S
  PROVE  QuotaIInv'
<1>1. at[r] = "quota" /\ UNCHANGED <<row, overdrawn>>
  OBVIOUS
<1>2. RolesInv /\ job \in [Requests -> Job] /\ overdrawn \in Nat
  BY DEF Ground, QuotaIInv, RolesInv, RestTyped
<1>4. t \in Nat
  BY <1>2, CountedRows, LessBytes
<1>9. j.total = t /\ j.summed = S
  OBVIOUS
<1>11. /\ RolesInv' /\ at'[r] = "list" /\ job'[r] = j
       /\ \A s \in Requests \ {r} : at'[s] = at[s] /\ job'[s] = job[s]
  <2>1. PICK step : step = "list"
    OBVIOUS
  <2>2. /\ step \in {"list", "scope", "scan", "commit"} /\ GoOn(r, step) /\ UNCHANGED row
        /\ j.kind = job[r].kind /\ j.blob = job[r].blob /\ j.scope = job[r].scope
    BY <1>1, <2>1
  <2>3. /\ RolesInv' /\ at'[r] = step /\ job'[r] = j
        /\ \A s \in Requests \ {r} : at'[s] = at[s] /\ job'[s] = job[s]
    BY <2>2, Passes
  <2> QED BY <2>1, <2>3
<1>12. \A s \in Requests \ {r} : s \in Evicting' => s \in Evicting
  BY <1>11 DEF Evicting
<1>13. \A s \in Evicting' : Covers(s)'
  <2>1. ASSUME NEW s \in Evicting', s # r PROVE Covers(s)'
    <3>1. s \in Evicting /\ job'[s] = job[s]
      BY <1>11, <1>12, <2>1 DEF Evicting
    <3>2. Covers(s)
      BY <3>1 DEF Ground, QuotaIInv
    <3> QED BY <1>1, <3>1, <3>2 DEF Covers, Bytes
  <2>2. Covers(r)'
    <3>1. SumOf(row, S) = t
      BY DEF Bytes
    <3>2. t <= t + overdrawn
      BY <1>2, <1>4
    <3>3. SumOf(row', j.summed) <= j.total + overdrawn'
      BY <1>1, <1>9, <3>1, <3>2
    <3>4. \A b \in j.summed : row'[b].status # "none"
      BY <1>1, <1>9 DEF InTotal, Counted
    <3> QED BY <1>11, <3>3, <3>4 DEF Covers, Bytes
  <2> QED BY <2>1, <2>2
<1>14. ASSUME NEW X, X \subseteq Evicting' PROVE Fitting(X)'
  <2>1. CASE r \in X
    <3>1. Held(X)' \subseteq S
      BY <1>1 DEF Held, Admitted, InTotal, Alive, Counted
    <3> QED BY <1>9, <1>11, <2>1, <3>1 DEF Fitting
  <2>2. CASE r \notin X
    <3>1. X \in SUBSET Evicting /\ \A s \in X : s \in Requests \ {r}
      BY <1>12, <1>14, <2>2 DEF Evicting
    <3>2. Fitting(X)
      BY <3>1 DEF Ground, QuotaIInv
    <3>3. Held(X)' = Held(X)
      <4>1. \A b : (\E s \in X : job'[s].blob = b) <=> (\E s \in X : job[s].blob = b)
        BY <1>11, <3>1
      <4>2. Admitted(Past)' = Admitted(Past)
        <5>1. \A b : (\E s \in Requests : at'[s] \in Past /\ job'[s].blob = b)
                     <=> (\E s \in Requests : at[s] \in Past /\ job[s].blob = b)
          BY <1>1, <1>11 DEF Past
        <5> QED BY <1>1, <5>1 DEF Admitted, Alive, Counted, Ready
      <4> QED BY <1>1, <4>1, <4>2 DEF Held, Alive, Counted
    <3>4. Bytes(Held(X))' = Bytes(Held(X))
      BY <1>1, <3>3 DEF Bytes
    <3>5. \A s \in X : job'[s] = job[s]
      BY <1>11, <3>1
    <3> QED BY <1>1, <3>2, <3>3, <3>4, <3>5 DEF Fitting
  <2> QED BY <2>1, <2>2
<1>15. PaneFits'
  <2>1. Admitted(PastAll)' = Admitted(PastAll)
    <3>1. \A b : (\E s \in Requests : at'[s] \in PastAll /\ job'[s].blob = b)
                 <=> (\E s \in Requests : at[s] \in PastAll /\ job[s].blob = b)
      BY <1>1, <1>11 DEF PastAll
    <3> QED BY <1>1, <3>1 DEF Admitted, Alive, Counted, Ready
  <2> QED BY <1>1, <2>1 DEF Ground, QuotaIInv, PaneFits, Bytes
<1> QED BY <1>11, <1>13, <1>14, <1>15 DEF QuotaIInv

LEMMA OverAgentQuota ==
  ASSUME Ground, NEW r \in Requests, CheckAgent(r), GoOn(r, "list"),
         job' = [job EXCEPT ![r].total = AgentTotal, ![r].summed = InTotal]
  PROVE  QuotaIInv'
<1>1. at[r] = "quota" /\ UNCHANGED <<row, overdrawn>>
  BY DEF CheckAgent
<1>2. RolesInv /\ job \in [Requests -> Job]
  BY DEF Ground, QuotaIInv, RolesInv, RestTyped
<1>3. PICK S : S = InTotal
  OBVIOUS
<1>4. PICK t : t = Bytes(S)
  OBVIOUS
<1>5. /\ t \in Nat /\ t \in Int /\ t = AgentTotal /\ S \in SUBSET Blobs
  BY <1>2, <1>3, <1>4, CountedRows, LessBytes DEF AgentTotal
<1>6. PICK i : i = job[r]
  OBVIOUS
<1>7. PICK j : j = [i EXCEPT !.total = t, !.summed = S]
  OBVIOUS
<1>8. /\ j \in Job /\ j.kind = i.kind /\ j.blob = i.blob /\ j.scope = i.scope
      /\ j.total = t /\ j.summed = S
  BY <1>2, <1>5, <1>6, <1>7 DEF Job
<1>9. job' = [job EXCEPT ![r] = j] /\ Ships(r)
  BY <1>1, <1>2, <1>3, <1>5, <1>6, <1>7, HasRow
<1>10. /\ j.kind = job[r].kind /\ j.blob = job[r].blob /\ j.scope = job[r].scope
       /\ GoOn(r, "list") /\ UNCHANGED <<row, overdrawn>>
  BY <1>1, <1>6, <1>8
<1>11. at[r] = "quota" /\ Ground /\ t = Bytes(S) /\ S = InTotal
  BY <1>1, <1>3, <1>4
<1> QED BY <1>8, <1>9, <1>10, <1>11, OverSummed

(* After enough evictions the sum of an upload covers what is admitted,    *)
(* or one that still evicts has it in its own.                             *)
LEMMA EvictedEnoughQuota ==
  ASSUME Ground, NEW r \in Requests, EvictNext(r), FitsAgent(r, job[r].total)
  PROVE  QuotaIInv'
<1>1. at[r] = "evict" /\ GoOn(r, "scope") /\ UNCHANGED <<row, job, overdrawn>>
  BY DEF EvictNext
<1>2. RolesInv /\ job \in [Requests -> Job] /\ overdrawn \in Nat
  BY DEF Ground, QuotaIInv, RolesInv, RestTyped
<1>3. PICK j : j = job[r]
  OBVIOUS
<1>4. j \in Job /\ job' = [job EXCEPT ![r] = j] /\ Ships(r)
  BY <1>1, <1>2, <1>3, HasRow
<1>5. /\ RolesInv' /\ at'[r] = "scope"
      /\ \A s \in Requests \ {r} : at'[s] = at[s]
  <2>1. PICK step : step = "scope"
    OBVIOUS
  <2>2. /\ step \in {"list", "scope", "scan", "commit"} /\ GoOn(r, step) /\ UNCHANGED row
        /\ j.kind = job[r].kind /\ j.blob = job[r].blob /\ j.scope = job[r].scope
    BY <1>1, <1>3, <2>1
  <2>3. RolesInv' /\ at'[r] = step /\ \A s \in Requests \ {r} : at'[s] = at[s]
    BY <1>4, <2>2, Passes
  <2> QED BY <2>1, <2>3
<1>6. \A s \in Evicting' : s \in Evicting
  BY <1>1, <1>5 DEF Evicting
<1>7. r \in Evicting
  BY <1>1 DEF Evicting
<1>8. \A s \in Evicting' : Covers(s)'
  <2> SUFFICES ASSUME NEW s \in Evicting' PROVE Covers(s)'
    OBVIOUS
  <2>1. Covers(s)
    BY <1>6 DEF Ground, QuotaIInv
  <2> QED BY <1>1, <2>1 DEF Covers, Bytes
<1>9. j.total <= AgentCap /\ j.total \in Int /\ j.summed \in SUBSET Blobs
  <2>1. j.size \in Nat /\ j.total \in Int /\ j.summed \in SUBSET Blobs
    BY <1>4, JobNumbers
  <2>2. j.total + j.size <= AgentCap
    BY <1>3 DEF FitsAgent
  <2> QED BY <2>1, <2>2, AttachmentsAssumption
<1>10. ASSUME NEW X, X \subseteq Evicting' PROVE Fitting(X)'
  <2>1. PICK Y : Y = X \cup {r}
    OBVIOUS
  <2>2. Y \in SUBSET Evicting
    BY <1>6, <1>7, <1>10, <2>1
  <2>3. Fitting(Y)
    BY <2>2 DEF Ground, QuotaIInv
  <2>4. Held(X)' \subseteq Held(Y)
    BY <1>1, <1>5, <2>1 DEF Held, Admitted, Alive, Counted, Ready
  <2>5. CASE \E q \in X : Held(Y) \subseteq job[q].summed
    BY <1>1, <2>4, <2>5 DEF Fitting
  <2>6. CASE Bytes(Held(Y)) <= AgentCap + overdrawn \/ Held(Y) \subseteq j.summed
    <3>1. PICK T, U : T = Held(X)' /\ U = Held(Y)
      OBVIOUS
    <3>2. U \in SUBSET Blobs /\ T \in SUBSET U
      BY <2>4, <3>1, HeldRows
    <3>3. Bytes(U) \in Nat /\ Bytes(T) \in Nat /\ Bytes(T) <= Bytes(U)
      BY <1>2, <3>2, LessBytes
    <3>4. Bytes(U) <= AgentCap + overdrawn
      <4>1. CASE Bytes(Held(Y)) <= AgentCap + overdrawn
        BY <3>1, <4>1
      <4>2. CASE Held(Y) \subseteq j.summed
        <5>1. PICK S : S = j.summed
          OBVIOUS
        <5>2. U \in SUBSET S /\ S \in SUBSET Blobs
          BY <1>9, <3>1, <4>2, <5>1
        <5>3. Bytes(S) \in Nat /\ Bytes(U) <= Bytes(S)
          BY <1>2, <5>2, LessBytes
        <5>4. Bytes(S) <= j.total + overdrawn
          BY <1>3, <1>7, <5>1 DEF Ground, QuotaIInv, Covers
        <5> QED BY <1>2, <1>9, <3>3, <5>3, <5>4, AttachmentsAssumption
      <4> QED BY <2>6, <4>1, <4>2
    <3>5. Bytes(T) <= AgentCap + overdrawn
      BY <1>2, <3>3, <3>4, AttachmentsAssumption
    <3>6. SumOf(row', T) <= AgentCap + overdrawn'
      BY <1>1, <3>5 DEF Bytes
    <3>7. Bytes(Held(X))' <= AgentCap + overdrawn'
      BY <3>1, <3>6 DEF Bytes
    <3> QED BY <3>7 DEF Fitting
  <2> QED BY <1>3, <2>1, <2>3, <2>5, <2>6 DEF Fitting
<1>11. PaneFits'
  <2>1. Admitted(PastAll)' = Admitted(PastAll)
    <3>1. \A s \in Requests : at'[s] \in PastAll <=> at[s] \in PastAll
      BY <1>1, <1>5 DEF PastAll
    <3> QED BY <1>1, <3>1 DEF Admitted, Alive, Counted, Ready
  <2> QED BY <1>1, <2>1 DEF Ground, QuotaIInv, PaneFits, Bytes
<1> QED BY <1>5, <1>8, <1>10, <1>11 DEF QuotaIInv

LEMMA PastScopeQuota ==
  ASSUME Ground, NEW r \in Requests, CheckScope(r),
         ~(job[r].scope = "pane" /\
              Bytes({b \in Blobs : Counted(b) /\ row[b].scope = "pane"}) + job[r].size > PaneCap)
  PROVE  QuotaIInv'
<1>1. at[r] = "scope" /\ ProceedUpload(r) /\ UNCHANGED <<row, job, overdrawn>>
  BY DEF CheckScope, ProceedUpload
<1>2. /\ RolesInv /\ job \in [Requests -> Job] /\ overdrawn \in Nat
      /\ Ships(r) /\ row[job[r].blob].scope = job[r].scope
  BY <1>1, HasRow DEF Ground, QuotaIInv, RolesInv, RestTyped, Past
<1>3. PICK step : step = IF ScanHook THEN "scan" ELSE "commit"
  OBVIOUS
<1>4. GoOn(r, step) /\ step \in PastAll /\ step \in {"scan", "commit"}
  BY <1>1, <1>2, <1>3 DEF ProceedUpload, Ships, PastAll
<1>5. PICK j : j = job[r]
  OBVIOUS
<1>6. j \in Job /\ job' = [job EXCEPT ![r] = j]
  BY <1>1, <1>2, <1>5
<1>7. /\ RolesInv' /\ at'[r] = step
      /\ \A s \in Requests \ {r} : at'[s] = at[s]
  <2>1. /\ step \in {"list", "scope", "scan", "commit"} /\ UNCHANGED row
        /\ j.kind = job[r].kind /\ j.blob = job[r].blob /\ j.scope = job[r].scope
    BY <1>1, <1>4, <1>5
  <2> QED BY <1>2, <1>4, <1>6, <2>1, Passes
<1>8. Evicting' = Evicting
  BY <1>1, <1>4, <1>7 DEF Evicting
<1>9. \A s \in Evicting' : Covers(s)'
  <2> SUFFICES ASSUME NEW s \in Evicting PROVE Covers(s)'
    BY <1>8
  <2>1. Covers(s)
    BY DEF Ground, QuotaIInv
  <2> QED BY <1>1, <2>1 DEF Covers, Bytes
<1>10. ASSUME NEW X, X \subseteq Evicting' PROVE Fitting(X)'
  <2>1. Fitting(X)
    BY <1>8, <1>10 DEF Ground, QuotaIInv
  <2>2. Held(X)' = Held(X)
    <3>1. \A s \in Requests : at'[s] \in Past <=> at[s] \in Past
      BY <1>1, <1>4, <1>7 DEF Past
    <3> QED BY <1>1, <3>1 DEF Held, Admitted, Alive, Counted, Ready
  <2>3. Bytes(Held(X))' = Bytes(Held(X))
    BY <1>1, <2>2 DEF Bytes
  <2> QED BY <1>1, <2>1, <2>2, <2>3 DEF Fitting
<1>11. PaneFits'
  <2>1. PICK T : T = {b \in Admitted(PastAll)' : row'[b].scope = "pane"}
    OBVIOUS
  <2>2. SUFFICES Bytes(T) <= PaneCap
    BY <1>1, <2>1 DEF PaneFits, Bytes
  <2>3. CASE job[r].scope = "pane"
    <3>1. PICK S : S = {b \in Blobs : Counted(b) /\ row[b].scope = "pane"}
      OBVIOUS
    <3>2. S \in SUBSET Blobs /\ T \in SUBSET S
      BY <1>1, <2>1, <3>1 DEF Admitted, Alive, Counted
    <3>3. Bytes(S) \in Nat /\ Bytes(T) \in Nat /\ Bytes(T) <= Bytes(S)
      BY <1>2, <3>2, LessBytes
    <3>4. job[r].size \in Nat
      BY <1>2, JobNumbers
    <3>5. ~(Bytes(S) + job[r].size > PaneCap)
      BY <2>3, <3>1
    <3> QED BY <3>3, <3>4, <3>5, AttachmentsAssumption
  <2>4. CASE job[r].scope # "pane"
    <3>1. PICK S : S = {b \in Admitted(PastAll) : row[b].scope = "pane"}
      OBVIOUS
    <3>2. \A b \in Admitted(PastAll)' : b \in Admitted(PastAll) \/ b = job[r].blob
      BY <1>1, <1>7 DEF Admitted, Alive, Counted, Ready
    <3>3. T \subseteq S
      BY <1>1, <1>2, <2>1, <2>4, <3>1, <3>2
    <3>4. S \in SUBSET Blobs /\ T \in SUBSET S
      BY <3>1, <3>3, HeldRows
    <3>5. Bytes(S) \in Nat /\ Bytes(T) \in Nat /\ Bytes(T) <= Bytes(S)
      BY <1>2, <3>4, LessBytes
    <3>6. Bytes(S) <= PaneCap
      BY <3>1 DEF Ground, QuotaIInv, PaneFits
    <3> QED BY <3>5, <3>6, AttachmentsAssumption
  <2> QED BY <2>3, <2>4
<1> QED BY <1>7, <1>9, <1>10, <1>11 DEF QuotaIInv

LEMMA QuotaChecks ==
  ASSUME Ground, NEW r \in Requests, CheckAgent(r) \/ EvictNext(r) \/ CheckScope(r)
  PROVE  QuotaIInv'
<1>1. UNCHANGED row
  BY DEF CheckAgent, EvictNext, CheckScope
<1>2. CASE CheckAgent(r)
  BY <1>1, <1>2, FitsAgentQuota, OverAgentQuota, RefusalRecedes DEF CheckAgent
<1>3. CASE EvictNext(r)
  <2>1. CASE FitsAgent(r, job[r].total)
    BY <1>3, <2>1, EvictedEnoughQuota
  <2>2. CASE RefuseRequest(r)
    BY <1>1, <1>3, <2>2, RefusalRecedes DEF EvictNext
  <2>3. CASE job[r].victims # {} /\ GoOn(r, "evicted") /\ UNCHANGED job
    <3>1. at[r] = "evict" /\ RolesInv
      BY <1>3 DEF EvictNext, Ground, QuotaIInv
    <3>2. Ships(r)
      BY <3>1, HasRow
    <3> QED BY <1>1, <2>3, <3>1, <3>2, UploadRecedes
  <2> QED BY <1>3, <2>1, <2>2, <2>3 DEF EvictNext
<1>4. CASE CheckScope(r)
  <2>1. CASE job[r].scope = "pane" /\
              Bytes({b \in Blobs : Counted(b) /\ row[b].scope = "pane"}) + job[r].size > PaneCap
    BY <1>1, <1>4, <2>1, RefusalRecedes DEF CheckScope
  <2> QED BY <1>4, <2>1, PastScopeQuota
<1> QED BY <1>2, <1>3, <1>4

-----------------------------------------------------------------------------
LEMMA QuotaIInit == AttachmentsInit => QuotaIInv
<1> SUFFICES ASSUME AttachmentsInit PROVE QuotaIInv
  OBVIOUS
<1>1. AttInv
  BY AttInvInit
<1>2. NoJob \in Job /\ NoJob.kind = "other" /\ NoRow.status = "none"
  BY DEF NoJob, Job, NoRow
<1>3. \A r \in Requests : at[r] = "idle" /\ job[r] = NoJob
  BY DEF AttachmentsInit
<1>4. RolesInv
  <2>1. job \in [Requests -> Job] /\ RestTyped
    BY <1>2 DEF AttachmentsInit, RestTyped
  <2>2. \A r \in Requests : ~Ships(r) /\ Role(r)
    BY <1>2, <1>3 DEF Ships, Role, Flying
  <2> QED BY <1>1, <2>1, <2>2 DEF RolesInv, Manned, OwnRows
<1>5. \A b \in Blobs : ~Alive(b)
  BY <1>2 DEF AttachmentsInit, Alive, Counted
<1>6. \A X : Held(X) = {}
  BY <1>5 DEF Held, Admitted
<1>7. Bytes({}) = 0
  <2>1. PICK S : S = {}
    OBVIOUS
  <2>2. PICK f, G : f = row /\ G = [s \in SUBSET S |-> 0]
    OBVIOUS
  <2>3. SumTable(f, S, G)
    BY <2>1, <2>2 DEF SumTable
  <2>4. IsFiniteSet(S)
    BY <2>1, FS_EmptySet
  <2>5. SumOf(f, S) = G[S]
    BY <2>3, <2>4, FoldIsTable
  <2> QED BY <2>1, <2>2, <2>5 DEF Bytes
<1>8. Evicting = {}
  BY <1>3 DEF Evicting
<1>9. \A X \in SUBSET Evicting : Fitting(X)
  <2>1. 0 <= AgentCap + overdrawn
    BY AttachmentsAssumption DEF AttachmentsInit
  <2> QED BY <1>6, <1>7, <2>1 DEF Fitting
<1>10. PaneFits
  <2>1. PICK S : S = {b \in Admitted(PastAll) : row[b].scope = "pane"}
    OBVIOUS
  <2>2. S = {}
    BY <1>5, <2>1 DEF Admitted
  <2>3. Bytes(S) <= PaneCap
    BY <1>7, <2>2, AttachmentsAssumption
  <2> QED BY <2>1, <2>3 DEF PaneFits
<1> QED BY <1>4, <1>8, <1>9, <1>10 DEF QuotaIInv

LEMMA QuotaIStep ==
  ASSUME Kinds = {"upload"}, QuotaIInv, [AttachmentsNext]_attachmentVars
  PROVE  QuotaIInv'
<1>1. AttInv /\ RolesInv
  BY DEF QuotaIInv, RolesInv
<1>2. Ground
  <2>1. AttInv'
    BY <1>1, AttInvStep
  <2>2. RestTyped' /\ overdrawn' >= overdrawn
    BY <1>1, RequestRest, OtherRest
  <2> QED BY <2>1, <2>2 DEF Ground
<1>3. CASE \E r \in Requests, kind \in Kinds, size \in Sizes, scope \in Scopes :
              Begin(r, kind, size, scope)
  BY <1>2, <1>3, BeginQuota
<1>4. CASE \E r \in Requests, b \in Blobs : Confirm(r, b) \/ Delete(r, b) \/ Get(r, b)
  <2>1. \A r \in Requests, b \in Blobs : ~Confirm(r, b)
    BY DEF Confirm
  <2> QED BY <1>2, <1>4, <2>1, OpenQuota
<1>5. CASE \E r \in Requests : RequestStep(r)
  <2> SUFFICES ASSUME NEW r \in Requests, RequestStep(r) PROVE QuotaIInv'
    BY <1>5
  <2>1. ~HeadBlob(r) /\ ~Stamp(r)
    BY <1>1 DEF RolesInv, Role, HeadBlob, Stamp
  <2> QED BY <1>2, <2>1, CreateQuota, SetKeyQuota, UploadGoesOnQuota, QuotaChecks,
             ListVictimsQuota, MarkEvictedQuota, FailUploadQuota, CommitQuota,
             UnlinkQuota, MarkDeletedQuota, FetchQuota
          DEF RequestStep, UploadStep
<1>6. CASE \E r \in Requests : AbortRequest(r)
  BY <1>2, <1>6, StillTable, EndRecedes DEF AbortRequest
<1>7. CASE \E b \in Blobs : UrlExpires(b)
  BY <1>2, <1>7, UrlExpiresQuota
<1>8. CASE (\E b \in Blobs : SweepRow(b)) \/ PurgePane
  BY <1>2, <1>8, SweepQuota
<1>9. CASE UNCHANGED <<row, at, job>>
  BY <1>2, <1>9, StillTable, TableRecedes
<1> QED BY <1>3, <1>4, <1>5, <1>6, <1>7, <1>8, <1>9
        DEF AttachmentsNext, ClientPut, SweepBytes, SweeperDies, attachmentVars

LEMMA QuotaIHolds == QuotaIInv => QuotaInv
<1> SUFFICES ASSUME QuotaIInv PROVE QuotaInv
  OBVIOUS
<1>1. RolesInv
  BY DEF QuotaIInv
<1>2. AttachmentsTypeOK
  BY <1>1 DEF RolesInv, AttInv, AttachmentsTyped, RestTyped, AttachmentsTypeOK
<1>3. KeptBlobs \subseteq Admitted(PastAll) /\ KeptBlobs \subseteq Held({})
  BY DEF KeptBlobs, Held, Admitted, Alive, Counted, Ready
<1>4. overdrawn \in Nat
  BY <1>1 DEF RolesInv, RestTyped
<1>5. Bytes(KeptBlobs) <= AgentCap + overdrawn
  <2>1. PICK S, T : S = Held({}) /\ T = KeptBlobs
    OBVIOUS
  <2>2. S \in SUBSET Blobs /\ T \in SUBSET S
    BY <1>3, <2>1, HeldRows
  <2>3. Bytes(S) \in Nat /\ Bytes(T) \in Nat /\ Bytes(T) <= Bytes(S)
    BY <1>1, <2>2, LessBytes
  <2>4. Bytes(S) <= AgentCap + overdrawn
    <3>1. {} \in SUBSET Evicting
      OBVIOUS
    <3>2. Fitting({})
      BY <3>1 DEF QuotaIInv
    <3> QED BY <2>1, <3>2 DEF Fitting
  <2> QED BY <1>4, <2>1, <2>3, <2>4, AttachmentsAssumption
<1>6. Bytes({b \in KeptBlobs : row[b].scope = "pane"}) <= PaneCap
  <2>1. PICK S, T : /\ S = {b \in Admitted(PastAll) : row[b].scope = "pane"}
                    /\ T = {b \in KeptBlobs : row[b].scope = "pane"}
    OBVIOUS
  <2>2. S \in SUBSET Blobs /\ T \in SUBSET S
    BY <1>3, <2>1, HeldRows
  <2>3. Bytes(S) \in Nat /\ Bytes(T) \in Nat /\ Bytes(T) <= Bytes(S)
    BY <1>1, <2>2, LessBytes
  <2>4. Bytes(S) <= PaneCap
    BY <2>1 DEF QuotaIInv, PaneFits
  <2> QED BY <2>1, <2>3, <2>4, AttachmentsAssumption
<1> QED BY <1>2, <1>5, <1>6 DEF QuotaInv, ReadyWithinCaps

(* Where every upload goes through the relay, what the listing calls ready *)
(* stays within the cap of the pane, and within the agent's but for what   *)
(* evictions took off sums that did not hold it: however many uploads sum, *)
(* list, evict and commit at once, whichever of them fail or die, and      *)
(* whatever is deleted and swept meanwhile (enforceQuotas counts pending   *)
(* rows, the upload's own among them, before it compares).                 *)
THEOREM QuotaSound == Kinds = {"upload"} /\ AttachmentsSpec => []QuotaInv
<1>1. ASSUME Kinds = {"upload"} PROVE AttachmentsSpec => []QuotaInv
  <2>1. QuotaIInv /\ [AttachmentsNext]_attachmentVars => QuotaIInv'
    BY <1>1, QuotaIStep
  <2> QED BY QuotaIInit, <2>1, QuotaIHolds, PTL DEF AttachmentsSpec
<1> QED BY <1>1

(* Without eviction nobody evicts, so that the agent's cap is kept to the  *)
(* byte (NothingOverdrawn, with QuotaSound).                               *)
NobodyEvicts == ~Evict => overdrawn = 0 /\ \A r \in Requests :
                              at[r] \notin {"list", "evict", "evicted"}

LEMMA NobodyStarts ==
  ASSUME AttInv, ~Evict, NobodyEvicts, NEW r \in Requests, NEW step, GoOn(r, step),
         step \notin {"list", "evict", "evicted"}, UNCHANGED overdrawn
  PROVE  NobodyEvicts'
<1>1. at \in [Requests -> Steps]
  BY DEF AttInv, AttachmentsTyped
<1> QED BY <1>1 DEF NobodyEvicts, GoOn

LEMMA NobodyEvictsStep == AttInv /\ NobodyEvicts /\ [AttachmentsNext]_attachmentVars
                             => NobodyEvicts'
<1> SUFFICES ASSUME AttInv, ~Evict, NobodyEvicts, [AttachmentsNext]_attachmentVars
             PROVE  NobodyEvicts'
  BY DEF NobodyEvicts
<1>1. CASE UNCHANGED <<at, overdrawn>>
  BY <1>1 DEF NobodyEvicts
<1>2. CASE \E r \in Requests : \E step : /\ GoOn(r, step) /\ UNCHANGED overdrawn
                                        /\ step \notin {"list", "evict", "evicted"}
  BY <1>2, NobodyStarts
<1>3. ASSUME NEW r \in Requests, NEW kind \in Kinds, NEW size \in Sizes, NEW scope \in Scopes,
             Begin(r, kind, size, scope)
      PROVE  NobodyEvicts'
  <2>1. PICK step : step = IF kind = "upload" THEN "create" ELSE "quota"
    OBVIOUS
  <2> QED BY <1>3, <2>1, NobodyStarts DEF Begin
<1>4. ASSUME NEW r \in Requests, NEW b \in Blobs, Confirm(r, b) \/ Delete(r, b) \/ Get(r, b)
      PROVE  NobodyEvicts'
  <2>1. UNCHANGED overdrawn
    BY <1>4 DEF Confirm, Delete, Get
  <2>2. \/ UNCHANGED at
        \/ GoOn(r, "head") \/ GoOn(r, "unlink") \/ GoOn(r, "fetch")
    BY <1>4 DEF Confirm, Delete, Get, OpenConfirm
  <2> QED BY <1>1, <2>1, <2>2, NobodyStarts
<1>5. ASSUME NEW r \in Requests, RequestStep(r) \/ AbortRequest(r) PROVE NobodyEvicts'
  <2>1. at[r] \notin {"list", "evict", "evicted"}
    BY DEF NobodyEvicts
  <2>2. UNCHANGED overdrawn
    BY <1>5, <2>1 DEF RequestStep, UploadStep, Create, SetKey, Put, CheckAgent, ListVictims,
         EvictNext, MarkEvicted, CheckScope, Scan, Unput, FailUpload, Commit, HeadBlob,
         Stamp, Unlink, MarkDeleted, Fetch, AbortRequest
  <2>3. CASE UploadStep(r)
    <3>1. CASE Create(r) \/ SetKey(r) \/ Put(r)
      <4>1. \/ GoOn(r, "idle") \/ GoOn(r, "key") \/ GoOn(r, "put")
            \/ GoOn(r, "quota") \/ GoOn(r, "fail")
        BY <3>1 DEF Create, SetKey, Put, Done
      <4> QED BY <2>2, <4>1, NobodyStarts
    <3>2. CASE CheckAgent(r) \/ CheckScope(r)
      <4>1. GoOn(r, "scope") \/ RefuseRequest(r) \/ ProceedUpload(r)
        BY <3>2 DEF CheckAgent, CheckScope
      <4>2. ASSUME RefuseRequest(r) PROVE GoOn(r, "unput") \/ GoOn(r, "idle")
        BY <4>2 DEF RefuseRequest, Done
      <4>3. ASSUME ProceedUpload(r) PROVE NobodyEvicts'
        <5>1. PICK step : step = IF job[r].kind = "presign" THEN "create"
                                 ELSE IF ScanHook THEN "scan" ELSE "commit"
          OBVIOUS
        <5>2. GoOn(r, step) /\ step \notin {"list", "evict", "evicted"}
          BY <4>3, <5>1 DEF ProceedUpload
        <5> QED BY <2>2, <5>2, NobodyStarts
      <4> QED BY <2>2, <4>1, <4>2, <4>3, NobodyStarts
    <3>3. CASE Scan(r) \/ Unput(r) \/ FailUpload(r) \/ Commit(r)
      <4>1. \/ GoOn(r, "idle") \/ GoOn(r, "commit") \/ GoOn(r, "unput")
            \/ GoOn(r, "fail")
        BY <3>3 DEF Scan, Unput, FailUpload, Commit, Done
      <4> QED BY <2>2, <4>1, NobodyStarts
    <3>4. ~(ListVictims(r) \/ EvictNext(r) \/ MarkEvicted(r))
      BY <2>1 DEF ListVictims, EvictNext, MarkEvicted
    <3> QED BY <2>3, <3>1, <3>2, <3>3, <3>4 DEF UploadStep
  <2>4. CASE ~UploadStep(r)
    <3>1. RequestStep(r) => HeadBlob(r) \/ Stamp(r) \/ Unlink(r) \/ MarkDeleted(r) \/ Fetch(r)
      BY <2>4 DEF RequestStep
    <3>2. CASE HeadBlob(r) \/ Stamp(r) \/ Unlink(r)
      <4>1. \/ GoOn(r, "stamp") \/ GoOn(r, "commit") \/ GoOn(r, "unput")
            \/ GoOn(r, "fail") \/ GoOn(r, "mark")
        BY <3>2 DEF HeadBlob, Stamp, Unlink
      <4> QED BY <2>2, <4>1, NobodyStarts
    <3>3. CASE MarkDeleted(r) \/ Fetch(r) \/ AbortRequest(r)
      <4>1. GoOn(r, "idle") \/ GoOn(r, "fail")
        BY <3>3 DEF MarkDeleted, Fetch, AbortRequest, Done
      <4> QED BY <2>2, <4>1, NobodyStarts
    <3> QED BY <1>5, <3>1, <3>2, <3>3
  <2> QED BY <2>3, <2>4
<1>6. ASSUME \/ \E b \in Blobs : \/ ClientPut(b) \/ UrlExpires(b)
                                \/ SweepRow(b) \/ SweepBytes(b)
             \/ PurgePane \/ SweeperDies \/ UNCHANGED attachmentVars
      PROVE  UNCHANGED <<at, overdrawn>>
  BY <1>6 DEF ClientPut, UrlExpires, SweepRow, SweepBytes, PurgePane, SweeperDies, attachmentVars
<1> QED BY <1>1, <1>3, <1>4, <1>5, <1>6 DEF AttachmentsNext

THEOREM NothingIsOverdrawn == AttachmentsSpec => []NothingOverdrawn
<1>1. AttachmentsInit => NobodyEvicts
  BY DEF AttachmentsInit, NobodyEvicts
<1>2. NobodyEvicts => NothingOverdrawn
  BY DEF NobodyEvicts, NothingOverdrawn
<1> QED BY AttInvInit, AttInvStep, NobodyEvictsStep, <1>1, <1>2, PTL DEF AttachmentsSpec
===============================================================================
