--------------------------- MODULE Delivery_Proofs ----------------------------
(* What reaches an agent, a machine and a person, for every number of      *)
(* events, pollers, processes, endpoints and people.  The inductive        *)
(* invariants are HookIInv, ReadsIInv, KeysIInv, PushIInv, OpenIInv and    *)
(* HomeIInv.                                                               *)
EXTENDS Webhook, AgentReads, AgentKeys, PushNotify, PageOpen, OwnerHome, TLAPS,
        SequenceTheorems, FiniteSetTheorems, WellFoundedInduction

-----------------------------------------------------------------------------
(***************************************************************************)
(* Webhook. What was posted is accounted for by the attempts of a delivery *)
(* that was started for a committed, matching event, and an acknowledged   *)
(* delivery is over.                                                       *)
(***************************************************************************)
DeliveryRow == [state : States, tries : 0 .. Attempts]

HookTypes ==
    /\ log \in Seq(BOOLEAN) /\ Len(log) <= MaxHook
    /\ delivery \in [Events -> DeliveryRow]
    /\ posted \in Seq(Events) /\ accepted \subseteq Events

StartedRightly ==
    \A e \in Events : delivery[e].state # "none" => e <= Len(log) /\ log[e]

TriesLeft ==
    \A e \in Events :
        delivery[e].state \in {"none", "resolving", "sending", "pause"} =>
            delivery[e].tries < Attempts

(* Copies counts this set. *)
Places(e) == {i \in 1 .. Len(posted) : posted[i] = e}

PostsAreTries ==
    \A e \in Events : /\ Cardinality(Places(e)) <= delivery[e].tries
                      /\ Places(e) # {} => delivery[e].state # "none"

AcceptedIsOver == \A e \in accepted : delivery[e].state = "over"

HookIInv == HookTypes /\ StartedRightly /\ TriesLeft /\ PostsAreTries /\ AcceptedIsOver

LEMMA HookStart == ASSUME WebhookAssumption, WebhookInit PROVE HookIInv
<1> USE WebhookAssumption DEF WebhookAssumption, WebhookInit
<1>1. HookTypes BY DEF HookTypes, DeliveryRow, States
<1>2. StartedRightly /\ TriesLeft /\ AcceptedIsOver
  BY DEF StartedRightly, TriesLeft, AcceptedIsOver
<1>3. PostsAreTries
  <2>1. \A e \in Events : Places(e) = {} BY DEF Places
  <2>2. \A e \in Events : Cardinality(Places(e)) = 0 BY <2>1, FS_EmptySet
  <2>3. \A e \in Events : delivery[e].tries = 0 OBVIOUS
  <2> QED BY <2>1, <2>2, <2>3 DEF PostsAreTries
<1> QED BY <1>1, <1>2, <1>3 DEF HookIInv

LEMMA PlacesFinite ==
    ASSUME HookTypes, NEW e
    PROVE  IsFiniteSet(Places(e)) /\ Cardinality(Places(e)) \in Nat
<1>1. Len(posted) \in Nat BY DEF HookTypes
<1>2. IsFiniteSet(1 .. Len(posted)) BY <1>1, FS_Interval
<1>3. Places(e) \in SUBSET (1 .. Len(posted)) BY DEF Places
<1> QED BY <1>2, <1>3, FS_Subset, FS_CardinalityType

(* One delivery takes another state, with its attempts; nothing is posted. *)
LEMMA DeliveryMoves ==
    ASSUME WebhookAssumption, HookIInv, NEW e \in Events, NEW s \in States, To(e, s),
           UNCHANGED <<log, posted>>, delivery[e].state \notin {"none", "over"},
           s # "none", s \in {"sending", "pause", "resolving"} => delivery[e].tries < Attempts,
           accepted' \subseteq accepted \cup {e}, e \in accepted' => s = "over"
    PROVE  HookIInv'
<1>1. PICK d : d = [delivery[e] EXCEPT !.state = s] OBVIOUS
<1>2. delivery[e] \in DeliveryRow BY DEF HookIInv, HookTypes
<1>3. d \in DeliveryRow /\ d.state = s /\ d.tries = delivery[e].tries
  BY <1>1, <1>2 DEF DeliveryRow
<1>4. delivery' = [delivery EXCEPT ![e] = d] BY <1>1 DEF To
<1>5. \A f \in Events : delivery'[f] = IF f = e THEN d ELSE delivery[f]
  BY <1>4 DEF HookIInv, HookTypes
<1>6. HookTypes' BY <1>3, <1>4 DEF HookIInv, HookTypes
<1>7. StartedRightly' BY <1>5 DEF HookIInv, StartedRightly
<1>8. TriesLeft' BY <1>3, <1>5 DEF HookIInv, TriesLeft
<1>9. PostsAreTries' BY <1>3, <1>5 DEF HookIInv, PostsAreTries, Places
<1>10. AcceptedIsOver' BY <1>3, <1>5 DEF HookIInv, AcceptedIsOver, HookTypes
<1> QED BY <1>6, <1>7, <1>8, <1>9, <1>10 DEF HookIInv

(* The log grows.                                                          *)
LEMMA LogGrows ==
    ASSUME WebhookAssumption, HookIInv, Len(log) < MaxHook, NEW matches \in BOOLEAN,
           log' = Append(log, matches), UNCHANGED <<posted, accepted>>,
           \/ UNCHANGED delivery
           \/ matches /\ To(Len(log) + 1, "resolving")
    PROVE  HookIInv'
<1>1. PICK n : n = Len(log) + 1 OBVIOUS
<1>2. Len(log) \in Nat /\ n \in Events /\ \A e \in Events : e <= Len(log) => e # n
  BY <1>1 DEF HookIInv, HookTypes, Events, WebhookAssumption
<1>3. /\ log' \in Seq(BOOLEAN) /\ Len(log') = n
      /\ \A i \in 1 .. Len(log) : log'[i] = log[i]
      /\ log'[n] = matches
  BY <1>1, AppendProperties DEF HookIInv, HookTypes
<1>4. Len(log') <= MaxHook /\ Len(log) <= Len(log')
  BY <1>1, <1>2, <1>3 DEF Events
<1>5. \A e \in Events : e <= Len(log) => e <= Len(log') /\ log'[e] = log[e]
  BY <1>2, <1>3, <1>4 DEF Events
<1>6. delivery[n].state = "none" BY <1>2 DEF HookIInv, StartedRightly
<1>7. CASE UNCHANGED delivery
  <2>1. HookTypes' BY <1>3, <1>4, <1>7 DEF HookIInv, HookTypes
  <2>2. StartedRightly' BY <1>5, <1>7 DEF HookIInv, StartedRightly
  <2>3. TriesLeft' /\ PostsAreTries' /\ AcceptedIsOver'
    BY <1>7 DEF HookIInv, TriesLeft, PostsAreTries, Places, AcceptedIsOver
  <2> QED BY <2>1, <2>2, <2>3 DEF HookIInv
<1>8. CASE matches /\ To(n, "resolving")
  <2>1. PICK d : d = [delivery[n] EXCEPT !.state = "resolving"] OBVIOUS
  <2>2. delivery[n] \in DeliveryRow BY <1>2 DEF HookIInv, HookTypes
  <2>3. d \in DeliveryRow /\ d.state = "resolving" /\ d.tries = delivery[n].tries
    BY <2>1, <2>2 DEF DeliveryRow, States
  <2>4. delivery' = [delivery EXCEPT ![n] = d] BY <1>8, <2>1 DEF To
  <2>5. \A f \in Events : delivery'[f] = IF f = n THEN d ELSE delivery[f]
    BY <2>4 DEF HookIInv, HookTypes
  <2>6. HookTypes' BY <1>2, <1>3, <1>4, <2>3, <2>4 DEF HookIInv, HookTypes
  <2>7. StartedRightly'
    <3>1. n <= Len(log') /\ log'[n] BY <1>3, <1>2, <1>8 DEF Events
    <3> QED BY <3>1, <1>5, <2>5 DEF HookIInv, StartedRightly
  <2>8. TriesLeft' BY <1>2, <1>6, <2>3, <2>5 DEF HookIInv, TriesLeft
  <2>9. PostsAreTries' BY <1>2, <1>6, <2>3, <2>5 DEF HookIInv, PostsAreTries, Places
  <2>10. AcceptedIsOver' BY <1>6, <2>5 DEF HookIInv, AcceptedIsOver, HookTypes
  <2> QED BY <2>6, <2>7, <2>8, <2>9, <2>10 DEF HookIInv
<1> QED BY <1>1, <1>7, <1>8

LEMMA SendOnceKeeps ==
    ASSUME WebhookAssumption, HookIInv, NEW e \in Events, SendOnce(e) PROVE HookIInv'
<1>1. delivery[e] \in DeliveryRow /\ delivery[e].state = "sending"
      /\ delivery[e].tries \in Nat /\ delivery[e].tries < Attempts
  BY DEF HookIInv, HookTypes, TriesLeft, SendOnce, DeliveryRow
<1>2. PICK n : n = delivery[e].tries + 1 OBVIOUS
<1>3. n \in 0 .. Attempts /\ n \in Nat BY <1>1, <1>2 DEF WebhookAssumption
<1>a. PICK arrives \in BOOLEAN :
          /\ delivery' = [delivery EXCEPT ![e] =
                 [state |-> IF arrives THEN "out" ELSE "silent", tries |-> @.tries + 1]]
          /\ posted' = IF arrives THEN Append(posted, e) ELSE posted
  BY DEF SendOnce
<1>b. PICK s : s = IF arrives THEN "out" ELSE "silent" OBVIOUS
<1>c. s \in {"out", "silent"} BY <1>b
<1>4. PICK d : d = [state |-> s, tries |-> n] OBVIOUS
<1>5. d \in DeliveryRow /\ d.state \in {"out", "silent"} /\ d.tries = n
  BY <1>3, <1>4, <1>c DEF DeliveryRow, States
<1>6. delivery' = [delivery EXCEPT ![e] = d] BY <1>2, <1>4, <1>a, <1>b
<1>7. \A f \in Events : delivery'[f] = IF f = e THEN d ELSE delivery[f]
  BY <1>6 DEF HookIInv, HookTypes
<1>8. UNCHANGED <<log, accepted>> BY DEF SendOnce
<1>9. posted' \in Seq(Events)
  <2>1. posted \in Seq(Events) BY DEF HookIInv, HookTypes
  <2>2. posted' = Append(posted, e) \/ posted' = posted BY <1>a
  <2>3. Append(posted, e) \in Seq(Events) BY <2>1, AppendProperties
  <2> QED BY <2>1, <2>2, <2>3
<1>10. HookTypes' BY <1>5, <1>6, <1>8, <1>9 DEF HookIInv, HookTypes
<1>11. StartedRightly' BY <1>1, <1>7, <1>8 DEF HookIInv, StartedRightly
<1>12. TriesLeft' BY <1>5, <1>7 DEF HookIInv, TriesLeft
<1>13. AcceptedIsOver' BY <1>1, <1>7, <1>8 DEF HookIInv, AcceptedIsOver, HookTypes
<1>14. PostsAreTries'
  <2>1. Cardinality(Places(e)) \in Nat /\ IsFiniteSet(Places(e))
        /\ Cardinality(Places(e)) <= delivery[e].tries
    BY PlacesFinite DEF HookIInv, PostsAreTries
  <2>2. CASE UNCHANGED posted
    <3>1. \A f \in Events : Places(f)' = Places(f) BY <2>2 DEF Places
    <3>2. Cardinality(Places(e)) <= n BY <1>1, <1>2, <2>1
    <3> QED BY <3>1, <3>2, <1>5, <1>7 DEF HookIInv, PostsAreTries
  <2>3. CASE posted' = Append(posted, e)
    <3>0. PICK m : m = Len(posted) + 1 OBVIOUS
    <3>1. /\ Len(posted) \in Nat /\ Len(posted') = m /\ posted'[m] = e
          /\ \A i \in 1 .. Len(posted) : posted'[i] = posted[i]
      BY <2>3, <3>0, AppendProperties DEF HookIInv, HookTypes
    <3>2. 1 .. Len(posted') = (1 .. Len(posted)) \cup {m} /\ m \notin 1 .. Len(posted)
      BY <3>0, <3>1
    <3>3. \A f \in Events : f # e => Places(f)' = Places(f)
      BY <3>1, <3>2 DEF Places
    <3>4. Places(e)' = Places(e) \cup {m} /\ m \notin Places(e)
      BY <3>1, <3>2 DEF Places
    <3>5. Cardinality(Places(e)') = Cardinality(Places(e)) + 1
      BY <2>1, <3>4, FS_AddElement
    <3>6. Cardinality(Places(e)') <= n BY <1>1, <1>2, <2>1, <3>5
    <3> QED BY <3>3, <3>6, <1>5, <1>7 DEF HookIInv, PostsAreTries
  <2> QED BY <2>2, <2>3 DEF SendOnce
<1> QED BY <1>10, <1>11, <1>12, <1>13, <1>14 DEF HookIInv

LEMMA RestartKeeps ==
    ASSUME WebhookAssumption, HookIInv, RestartRelay PROVE HookIInv'
<1>1. UNCHANGED <<log, posted, accepted>> BY DEF RestartRelay
<1>2. \A e \in Events :
         /\ delivery'[e] \in DeliveryRow /\ delivery'[e].tries = delivery[e].tries
         /\ delivery'[e].state = IF delivery[e].state \in {"none", "over"}
                                 THEN delivery[e].state ELSE "lost"
  <2> TAKE e \in Events
  <2>1. delivery[e] \in DeliveryRow BY DEF HookIInv, HookTypes
  <2>2. CASE delivery[e].state \in {"none", "over"}
    <3>1. delivery'[e] = delivery[e] BY <2>2 DEF RestartRelay
    <3> QED BY <2>1, <2>2, <3>1
  <2>3. CASE delivery[e].state \notin {"none", "over"}
    <3>1. PICK d : d = [delivery[e] EXCEPT !.state = "lost"] OBVIOUS
    <3>2. delivery'[e] = d BY <2>3, <3>1 DEF RestartRelay
    <3>3. d \in DeliveryRow /\ d.tries = delivery[e].tries /\ d.state = "lost"
      BY <2>1, <3>1 DEF DeliveryRow, States
    <3> QED BY <2>3, <3>2, <3>3
  <2> QED BY <2>2, <2>3
<1>3. delivery' = [e \in Events |-> delivery'[e]] BY DEF RestartRelay
<1>4. HookTypes' BY <1>1, <1>2, <1>3 DEF HookIInv, HookTypes
<1>5. StartedRightly' BY <1>1, <1>2 DEF HookIInv, StartedRightly
<1>6. TriesLeft' BY <1>2 DEF HookIInv, TriesLeft
<1>7. PostsAreTries' BY <1>1, <1>2 DEF HookIInv, PostsAreTries, Places
<1>8. AcceptedIsOver' BY <1>1, <1>2 DEF HookIInv, AcceptedIsOver, HookTypes
<1> QED BY <1>4, <1>5, <1>6, <1>7, <1>8 DEF HookIInv

LEMMA HookStep ==
    ASSUME WebhookAssumption, HookIInv, [WebhookNext]_hookVars PROVE HookIInv'
<1>1. CASE CommitEvent \/ CommitAndDie
  BY <1>1, LogGrows DEF CommitEvent, CommitAndDie, ShouldFire
<1>2. ASSUME NEW e \in Events, ResolveUrl(e) PROVE HookIInv'
  <2>1. delivery[e].tries < Attempts BY <1>2 DEF HookIInv, TriesLeft, ResolveUrl
  <2>2. e \notin accepted BY <1>2 DEF HookIInv, AcceptedIsOver, ResolveUrl
  <2> QED BY <1>2, <2>1, <2>2, DeliveryMoves DEF ResolveUrl, States
<1>3. ASSUME NEW e \in Events, Success(e) PROVE HookIInv'
  BY <1>3, DeliveryMoves DEF Success, States
<1>4. ASSUME NEW e \in Events, Failure(e) \/ FallSilent(e) \/ TimesOut(e) PROVE HookIInv'
  <2>1. e \notin accepted /\ delivery[e].state \in {"out", "silent"}
    BY <1>4 DEF HookIInv, AcceptedIsOver, Failure, FallSilent, TimesOut
  <2>2. CASE FallSilent(e) BY <2>1, <2>2, DeliveryMoves DEF FallSilent, States
  <2>3. CASE Failure(e) \/ TimesOut(e)
    <3>1. To(e, AfterFailure(e)) /\ UNCHANGED <<log, posted, accepted>>
      BY <2>3 DEF Failure, TimesOut
    <3>2. CASE delivery[e].tries < Attempts
      BY <2>1, <3>1, <3>2, DeliveryMoves DEF AfterFailure, States
    <3>3. CASE ~(delivery[e].tries < Attempts)
      BY <2>1, <3>1, <3>3, DeliveryMoves DEF AfterFailure, States
    <3> QED BY <3>2, <3>3
  <2> QED BY <1>4, <2>2, <2>3
<1>5. ASSUME NEW e \in Events, Resume(e) PROVE HookIInv'
  <2>1. delivery[e].tries < Attempts BY <1>5 DEF HookIInv, TriesLeft, Resume
  <2>2. e \notin accepted BY <1>5 DEF HookIInv, AcceptedIsOver, Resume
  <2> QED BY <1>5, <2>1, <2>2, DeliveryMoves DEF Resume, States
<1>6. CASE UNCHANGED hookVars
  <2> USE <1>6 DEF hookVars, HookIInv
  <2>1. HookTypes' BY DEF HookTypes
  <2>2. StartedRightly' /\ TriesLeft' /\ PostsAreTries' /\ AcceptedIsOver'
    BY DEF StartedRightly, TriesLeft, PostsAreTries, Places, AcceptedIsOver
  <2> QED BY <2>1, <2>2
<1> QED BY <1>1, <1>2, <1>3, <1>4, <1>5, <1>6, SendOnceKeeps, RestartKeeps DEF WebhookNext

LEMMA HookImplies ==
    ASSUME WebhookAssumption, HookIInv PROVE WebhookTypeOK /\ CopiesBounded
<1>1. WebhookTypeOK BY DEF HookIInv, HookTypes, StartedRightly, DeliveryRow, WebhookTypeOK
<1>2. ASSUME NEW i \in 1 .. Len(posted)
      PROVE  posted[i] <= Len(log) /\ log[posted[i]] /\ Copies(posted[i]) <= Attempts
  <2>1. PICK e \in Events : e = posted[i] BY DEF HookIInv, HookTypes
  <2>2. i \in Places(e) BY <2>1 DEF Places
  <2>3. e <= Len(log) /\ log[e] BY <2>2 DEF HookIInv, PostsAreTries, StartedRightly
  <2>4. /\ Cardinality(Places(e)) \in Nat
        /\ Cardinality(Places(e)) <= delivery[e].tries
        /\ delivery[e].tries \in 0 .. Attempts
    BY PlacesFinite DEF HookIInv, PostsAreTries, HookTypes, DeliveryRow
  <2>5. Cardinality(Places(e)) <= Attempts BY <2>4 DEF WebhookAssumption
  <2> QED BY <2>1, <2>3, <2>5 DEF Copies, Places
<1> QED BY <1>1, <1>2 DEF CopiesBounded

(* Whatever the receiver does and however often the relay restarts: only   *)
(* committed, matching events are sent, each at most Attempts times.       *)
THEOREM HookCopies == WebhookSpec => [](WebhookTypeOK /\ CopiesBounded)
<1>1. WebhookInit => HookIInv BY WebhookAssumption, HookStart
<1>2. HookIInv /\ [WebhookNext]_hookVars => HookIInv' BY WebhookAssumption, HookStep
<1>3. HookIInv => WebhookTypeOK /\ CopiesBounded BY WebhookAssumption, HookImplies
<1> QED BY <1>1, <1>2, <1>3, PTL DEF WebhookSpec

(* An acknowledged event is not sent again.                                *)
THEOREM HookEnds == WebhookSpec => AcknowledgedEnds
<1> DEFINE Quiet == \A e \in accepted : Len(posted') = Len(posted) \/ posted'[Len(posted')] # e
<1>1. WebhookInit => HookIInv BY WebhookAssumption, HookStart
<1>2. HookIInv /\ [WebhookNext]_hookVars => HookIInv' BY WebhookAssumption, HookStep
<1>3. HookIInv /\ [WebhookNext]_hookVars => [Quiet]_hookVars
  <2> SUFFICES ASSUME HookIInv, WebhookNext, NEW e \in accepted
               PROVE  Len(posted') = Len(posted) \/ posted'[Len(posted')] # e
    OBVIOUS
  <2>1. CASE UNCHANGED posted BY <2>1
  <2>2. ASSUME NEW f \in Events, SendOnce(f), posted' = Append(posted, f)
        PROVE  posted'[Len(posted')] # e
    <3>1. f # e BY <2>2 DEF HookIInv, AcceptedIsOver, SendOnce
    <3>2. posted'[Len(posted')] = f
      BY <2>2, AppendProperties DEF HookIInv, HookTypes
    <3> QED BY <3>1, <3>2
  <2>3. UNCHANGED posted \/ \E f \in Events : SendOnce(f) /\ posted' = Append(posted, f)
    BY DEF WebhookNext, CommitEvent, CommitAndDie, RestartRelay, ResolveUrl, SendOnce,
           Success, Failure, FallSilent, TimesOut, Resume
  <2> QED BY <2>1, <2>2, <2>3
<1>4. WebhookSpec => []HookIInv BY <1>1, <1>2, PTL DEF WebhookSpec
<1> QED BY <1>3, <1>4, PTL DEF WebhookSpec, AcknowledgedEnds

-----------------------------------------------------------------------------
(***************************************************************************)
(* Long polls. With one writer an id that is still to become visible is    *)
(* the last that was drawn, and so above every cursor; and a waiter that   *)
(* has not been woken waits for what is still to be published.             *)
(***************************************************************************)
DrawnInOrder ==
    /\ \A d, e \in LogIds : d < e /\ stage[d] = "none" => stage[e] = "none"
    /\ OneWriter => \A d, e \in LogIds : d < e /\ stage[d] = "drawn" => stage[e] = "none"

CursorWasSeen == \A p \in Pollers : poller[p].since = 0 \/ poller[p].since \in Visible

Stages == {"none", "drawn", "void", "visible", "published"}
PollRow == [pc : PollSteps, since : 0 .. MaxLog, woken : BOOLEAN, got : SUBSET LogIds]
WatchRow == [state : WatchStates, last : 0 .. MaxLog, took : SUBSET LogIds]

(* What a waiter owes to publications: an unwoken one, from the opening of *)
(* its waiter on, has nothing published above its cursor that its first    *)
(* query has not looked for.                                               *)
Heard(p) ==
    (~redis /\ poller[p].pc \in {"empty", "waiting"} /\ ~poller[p].woken) =>
        \A e \in LogIds : stage[e] = "published" => e <= poller[p].since

LogOK == stage \in [LogIds -> Stages] /\ sort \in [LogIds -> Sorts]

PollsOK ==
    /\ poller \in [Pollers -> PollRow]
    /\ \A p \in Pollers : poller[p].woken => poller[p].pc \in {"first", "empty", "waiting"}

WatchOK == watch \in WatchRow /\ unheard \in BOOLEAN /\ redis \in BOOLEAN

ReadsIInv ==
    /\ LogOK /\ PollsOK /\ WatchOK
    /\ DrawnInOrder /\ CursorWasSeen /\ CursorSkipsNothing
    /\ \A p \in Pollers : Heard(p)

-----------------------------------------------------------------------------
(* A nonempty set of ids has a greatest one, and that is what Max finds.   *)
LEMMA MaxOfIds ==
  ASSUME NEW n \in Nat, NEW S \in SUBSET (0 .. n), S # {}
  PROVE  Max(S) \in S /\ \A y \in S : y <= Max(S)
<1> DEFINE T == {n - x : x \in S}
<1>1. PICK x0 \in S : TRUE
  OBVIOUS
<1>2. T \subseteq Nat /\ n - x0 \in T
  BY <1>1
<1>3. \E m \in T : \A t \in T : ~ (<<t, m>> \in OpToRel(<, Nat))
  <2> HIDE DEF T
  <2> QED BY <1>2, NatLessThanWellFounded, WFMin
<1>4. PICK m \in T : \A t \in T : ~ (<<t, m>> \in OpToRel(<, Nat))
  BY <1>3
<1>5. m \in Nat /\ \A t \in T : t \in Nat /\ m <= t
  <2> HIDE DEF T
  <2>1. m \in Nat /\ \A t \in T : t \in Nat
    BY <1>2
  <2>2. \A t \in T : ~ (t < m)
    BY <1>4, <2>1 DEF OpToRel
  <2> QED BY <2>1, <2>2
<1>6. PICK x \in S : m = n - x
  OBVIOUS
<1>7. x \in S /\ \A y \in S : x >= y
  BY <1>5, <1>6
<1> QED BY <1>7 DEF Max

LEMMA ReadsStart == ASSUME AgentReadsAssumption, ReadsInit PROVE ReadsIInv
<1> USE AgentReadsAssumption DEF AgentReadsAssumption, ReadsInit
<1>1. LogOK BY DEF LogOK, Stages, Sorts
<1>2. PollsOK BY DEF PollsOK, PollRow, PollSteps
<1>3. WatchOK
  <2>1. PICK w : w = [state |-> "off", last |-> 0, took |-> {}] OBVIOUS
  <2>2. w \in WatchRow BY <2>1 DEF WatchRow, WatchStates
  <2> QED BY <2>1, <2>2 DEF WatchOK
<1>4. DrawnInOrder BY DEF DrawnInOrder
<1>5. CursorWasSeen BY DEF CursorWasSeen
<1>6. CursorSkipsNothing BY DEF CursorSkipsNothing, Visible
<1>7. \A p \in Pollers : Heard(p) BY DEF Heard
<1> QED BY <1>1, <1>2, <1>3, <1>4, <1>5, <1>6, <1>7 DEF ReadsIInv

-----------------------------------------------------------------------------
(* A page starts right above the cursor: what is not on it lies above all  *)
(* of it.                                                                  *)
LEMMA PageIsPrefix ==
    ASSUME AgentReadsAssumption, NEW p \in Pollers, NEW f \in Found(p), NEW e \in Visible,
           e > poller[p].since, e <= f
    PROVE  e \in Found(p)
<1> DEFINE new == {d \in Visible : d > poller[p].since}
           Below(x) == {d \in new : d < x}
<1>1. e \in new /\ f \in new /\ new \subseteq LogIds BY DEF Found, Visible
<1>2. e \in Nat /\ f \in Nat /\ new \subseteq Nat BY <1>1 DEF LogIds
<1>3. IsFiniteSet(LogIds)
  <2>1. MaxLog \in Int BY DEF AgentReadsAssumption
  <2> HIDE DEF new, Below
  <2> QED BY <2>1, FS_Interval DEF LogIds
<1>4. IsFiniteSet(Below(f))
  <2>1. Below(f) \in SUBSET LogIds BY <1>1
  <2> QED BY <1>3, <2>1, FS_Subset
<1>5. Below(e) \in SUBSET Below(f) BY <1>2
<1>6. /\ Cardinality(Below(e)) <= Cardinality(Below(f))
      /\ IsFiniteSet(Below(e))
  BY <1>4, <1>5, FS_Subset
<1>7. Cardinality(Below(e)) \in Nat /\ Cardinality(Below(f)) \in Nat
  BY <1>4, <1>6, FS_CardinalityType
<1>8. Cardinality(Below(f)) < PollPage BY DEF Found
<1>9. Cardinality(Below(e)) < PollPage
  <2> HIDE DEF Below
  <2> QED BY <1>6, <1>7, <1>8 DEF AgentReadsAssumption
<1> QED BY <1>1, <1>9 DEF Found

(* The polls keep what they have read while the log grows at its end.      *)
LEMMA PollsStay ==
    ASSUME AgentReadsAssumption, ReadsIInv,
           \A p \in Pollers : poller'[p].since = poller[p].since /\ poller'[p].got = poller[p].got,
           \A e \in LogIds : e \in Visible' =>
               e \in Visible \/ (stage[e] = "drawn"),
           Visible \subseteq Visible'
    PROVE  CursorWasSeen' /\ CursorSkipsNothing'
<1>1. CursorWasSeen' BY DEF ReadsIInv, CursorWasSeen
<1>2. CursorSkipsNothing'
  <2> SUFFICES ASSUME OneWriter, NEW p \in Pollers, NEW e \in Visible', e <= poller[p].since
               PROVE  e \in poller[p].got
    BY DEF CursorSkipsNothing
  <2>1. e \in LogIds BY DEF Visible
  <2>2. e \in Visible
    <3> SUFFICES ASSUME stage[e] = "drawn" PROVE FALSE BY <2>1
    <3>1. poller[p].since \in LogIds /\ poller[p].since \in Visible
      BY <2>1 DEF ReadsIInv, CursorWasSeen, Visible, LogIds
    <3>2. e # poller[p].since BY <3>1 DEF Visible
    <3>3. e < poller[p].since BY <2>1, <3>1, <3>2 DEF LogIds
    <3> QED BY <2>1, <3>1, <3>3 DEF ReadsIInv, DrawnInOrder, Visible
  <2> QED BY <2>2 DEF ReadsIInv, CursorSkipsNothing
<1> QED BY <1>1, <1>2

(* The parts of the invariant that a step of the log or of the watch keeps *)
(* when it does not touch the polls.                                       *)
LEMMA PollsRest ==
    ASSUME AgentReadsAssumption, ReadsIInv, LogOK', WatchOK', DrawnInOrder',
           UNCHANGED <<poller, redis>>,
           \A e \in LogIds : e \in Visible' => e \in Visible \/ stage[e] = "drawn",
           Visible \subseteq Visible',
           \A e \in LogIds : stage'[e] = "published" => stage[e] = "published"
    PROVE  ReadsIInv'
<1>1. PollsOK' BY DEF ReadsIInv, PollsOK
<1>2. CursorWasSeen' /\ CursorSkipsNothing' BY PollsStay
<1>3. \A p \in Pollers : Heard(p)' BY DEF ReadsIInv, Heard
<1> QED BY <1>1, <1>2, <1>3 DEF ReadsIInv

LEMMA DrawIdKeeps ==
    ASSUME AgentReadsAssumption, ReadsIInv, NEW e \in LogIds, NEW s \in Sorts, DrawId(e, s)
    PROVE  ReadsIInv'
<1>1. /\ stage' = [stage EXCEPT ![e] = "drawn"] /\ sort' = [sort EXCEPT ![e] = s]
      /\ stage[e] = "none"
  BY DEF DrawId
<1>2. LogOK' BY <1>1 DEF ReadsIInv, LogOK, Stages
<1>3. \A d \in LogIds : stage'[d] = IF d = e THEN "drawn" ELSE stage[d]
  BY <1>1 DEF ReadsIInv, LogOK
<1>4. WatchOK' BY DEF ReadsIInv, WatchOK, DrawId
<1>5. DrawnInOrder'
  <2>1. \A d \in LogIds : d < e => stage[d] # "none"
    BY DEF DrawId, LogIds
  <2>2. OneWriter => \A d \in LogIds : stage[d] # "drawn" BY DEF DrawId
  <2>3. \A d \in LogIds : e < d => stage[d] = "none"
    BY <1>1 DEF ReadsIInv, DrawnInOrder
  <2>4. \A d, f \in LogIds : d < f /\ stage'[d] = "none" => stage'[f] = "none"
    BY <1>3, <2>1 DEF ReadsIInv, DrawnInOrder
  <2>5. OneWriter => \A d, f \in LogIds : d < f /\ stage'[d] = "drawn" => stage'[f] = "none"
    <3> SUFFICES ASSUME OneWriter, NEW d \in LogIds, NEW f \in LogIds, d < f, stage'[d] = "drawn"
                 PROVE  stage'[f] = "none"
      OBVIOUS
    <3>1. d = e BY <1>3, <2>2
    <3>2. f # e BY <3>1 DEF LogIds
    <3> QED BY <1>3, <2>3, <3>1, <3>2
  <2> QED BY <2>4, <2>5 DEF DrawnInOrder
<1>6. Visible' = Visible BY <1>1, <1>3 DEF Visible
<1> QED BY <1>2, <1>3, <1>4, <1>5, <1>6, PollsRest DEF DrawId

(* An id that leaves "drawn" or goes on from "visible".                    *)
LEMMA OrderGoesOn ==
    ASSUME ReadsIInv, stage' \in [LogIds -> Stages],
           \A d \in LogIds : /\ stage[d] = "none" <=> stage'[d] = "none"
                             /\ stage'[d] = "drawn" => stage[d] = "drawn"
    PROVE  DrawnInOrder'
BY DEF ReadsIInv, DrawnInOrder

LEMMA EndIdKeeps ==
    ASSUME AgentReadsAssumption, ReadsIInv, NEW e \in LogIds, CommitId(e) \/ VoidId(e)
    PROVE  ReadsIInv'
<1>1. PICK s \in {"visible", "void"} : stage' = [stage EXCEPT ![e] = s]
  BY DEF CommitId, VoidId
<1>2. stage[e] = "drawn" /\ UNCHANGED <<sort, poller, watch, unheard, redis>>
  BY DEF CommitId, VoidId
<1>3. LogOK' BY <1>1, <1>2 DEF ReadsIInv, LogOK, Stages
<1>4. \A d \in LogIds : stage'[d] = IF d = e THEN s ELSE stage[d]
  BY <1>1 DEF ReadsIInv, LogOK
<1>5. WatchOK' BY <1>2 DEF ReadsIInv, WatchOK
<1>6. DrawnInOrder' BY <1>2, <1>3, <1>4, OrderGoesOn DEF LogOK
<1>7. Visible \subseteq Visible' BY <1>2, <1>4 DEF Visible
<1>8. \A d \in LogIds : d \in Visible' => d \in Visible \/ stage[d] = "drawn"
  BY <1>2, <1>4 DEF Visible
<1> QED BY <1>2, <1>3, <1>4, <1>5, <1>6, <1>7, <1>8, PollsRest

LEMMA AfterEventType ==
    ASSUME NEW state \in WatchStates, NEW taken PROVE AfterEvent(state, taken) \in WatchStates
BY DEF AfterEvent, WatchStates

(* Without Redis whoever waits is told.                                    *)
LEMMA PublishIdKeeps ==
    ASSUME AgentReadsAssumption, ReadsIInv, NEW e \in LogIds, PublishId(e) PROVE ReadsIInv'
<1>1. stage[e] = "visible" /\ stage' = [stage EXCEPT ![e] = "published"] /\ UNCHANGED <<sort, redis>>
  BY DEF PublishId
<1>2. PICK arrives \in BOOLEAN :
         /\ redis \/ arrives
         /\ poller' = [p \in Pollers |->
               IF arrives /\ Woken(p) THEN [poller[p] EXCEPT !.woken = TRUE] ELSE poller[p]]
         /\ IF watch.state = "live" /\ arrives /\ e > watch.last
            THEN watch' = [watch EXCEPT !.took = @ \cup {e}, !.state = AfterEvent(@, {sort[e]})]
            ELSE UNCHANGED watch
  BY DEF PublishId, ReadsIInv, WatchOK
<1>3. LogOK' BY <1>1 DEF ReadsIInv, LogOK, Stages
<1>4. \A d \in LogIds : stage'[d] = IF d = e THEN "published" ELSE stage[d]
  BY <1>1 DEF ReadsIInv, LogOK
<1>5. DrawnInOrder' BY <1>1, <1>3, <1>4, OrderGoesOn DEF LogOK
<1>6. WatchOK'
  <2>1. watch \in WatchRow BY DEF ReadsIInv, WatchOK
  <2>2. watch' \in WatchRow
    <3>1. CASE UNCHANGED watch BY <2>1, <3>1
    <3>2. CASE watch' = [watch EXCEPT !.took = @ \cup {e}, !.state = AfterEvent(@, {sort[e]})]
      <4>1. PICK a : a = AfterEvent(watch.state, {sort[e]}) OBVIOUS
      <4>2. a \in WatchStates BY <2>1, <4>1, AfterEventType DEF WatchRow
      <4>3. watch' = [watch EXCEPT !.took = @ \cup {e}, !.state = a] BY <3>2, <4>1
      <4> QED BY <2>1, <4>2, <4>3 DEF WatchRow
    <3> QED BY <1>2, <3>1, <3>2
  <2>3. unheard' \in BOOLEAN BY DEF PublishId, ReadsIInv, WatchOK
  <2> QED BY <2>2, <2>3, <1>1 DEF ReadsIInv, WatchOK
<1>7. \A p \in Pollers :
         /\ poller'[p] \in PollRow
         /\ poller'[p].since = poller[p].since /\ poller'[p].got = poller[p].got
         /\ poller'[p].pc = poller[p].pc
         /\ poller'[p].woken <=> (poller[p].woken \/ (arrives /\ Woken(p)))
  <2> TAKE p \in Pollers
  <2>1. poller[p] \in PollRow BY DEF ReadsIInv, PollsOK
  <2>2. CASE arrives /\ Woken(p)
    <3>1. PICK q : q = [poller[p] EXCEPT !.woken = TRUE] OBVIOUS
    <3>2. poller'[p] = q BY <1>2, <2>2, <3>1
    <3>3. q \in PollRow /\ q.since = poller[p].since /\ q.got = poller[p].got
          /\ q.pc = poller[p].pc /\ q.woken
      BY <2>1, <3>1 DEF PollRow
    <3> QED BY <2>2, <3>2, <3>3
  <2>3. CASE ~(arrives /\ Woken(p))
    <3>1. poller'[p] = poller[p] BY <1>2, <2>3
    <3> QED BY <2>1, <2>3, <3>1 DEF PollRow
  <2> QED BY <2>2, <2>3
<1>8. PollsOK'
  <2>1. poller' \in [Pollers -> PollRow]
    <3>1. poller' = [p \in Pollers |-> poller'[p]] BY <1>2
    <3> QED BY <1>7, <3>1
  <2>2. \A p \in Pollers : poller'[p].woken => poller'[p].pc \in {"first", "empty", "waiting"}
    BY <1>7 DEF ReadsIInv, PollsOK, Woken
  <2> QED BY <2>1, <2>2 DEF PollsOK
<1>9. Visible' = Visible BY <1>1, <1>4 DEF Visible
<1>10. CursorWasSeen' /\ CursorSkipsNothing' BY <1>7, <1>9, PollsStay
<1>11. \A p \in Pollers : Heard(p)'
  BY <1>1, <1>2, <1>4, <1>7 DEF ReadsIInv, Heard, Woken
<1> QED BY <1>3, <1>5, <1>6, <1>8, <1>10, <1>11 DEF ReadsIInv

-----------------------------------------------------------------------------
(* A poll moves to a step that owes nothing to publications, its cursor    *)
(* and what it has read staying as they are.                               *)
LEMMA SetStepKeeps ==
    ASSUME AgentReadsAssumption, ReadsIInv, NEW p \in Pollers,
           NEW step \in {"idle", "now", "first", "second"}, SetStep(p, step),
           UNCHANGED <<stage, sort, watch, unheard, redis>>
    PROVE  ReadsIInv'
<1>1. PICK q : q = [poller[p] EXCEPT !.pc = step, !.woken = FALSE] OBVIOUS
<1>2. poller[p] \in PollRow BY DEF ReadsIInv, PollsOK
<1>3. q \in PollRow /\ q.pc = step /\ ~q.woken /\ q.since = poller[p].since /\ q.got = poller[p].got
  BY <1>1, <1>2 DEF PollRow, PollSteps
<1>4. poller' = [poller EXCEPT ![p] = q] BY <1>1 DEF SetStep
<1>5. \A r \in Pollers : poller'[r] = IF r = p THEN q ELSE poller[r]
  BY <1>4 DEF ReadsIInv, PollsOK
<1>6. PollsOK' BY <1>3, <1>4, <1>5 DEF ReadsIInv, PollsOK
<1>7. LogOK' /\ WatchOK' /\ DrawnInOrder' BY DEF ReadsIInv, LogOK, WatchOK, DrawnInOrder
<1>8. Visible' = Visible BY DEF Visible
<1>9. CursorWasSeen' /\ CursorSkipsNothing' BY <1>3, <1>5, <1>8, PollsStay
<1>10. \A r \in Pollers : Heard(r)' BY <1>3, <1>5 DEF ReadsIInv, Heard
<1> QED BY <1>6, <1>7, <1>9, <1>10 DEF ReadsIInv

LEMMA AnswerEventsKeeps ==
    ASSUME AgentReadsAssumption, ReadsIInv, NEW p \in Pollers, AnswerEvents(p)
    PROVE  ReadsIInv'
<1>0. UNCHANGED <<stage, sort, watch, unheard, redis>> BY DEF AnswerEvents
<1>1. poller[p] \in PollRow BY DEF ReadsIInv, PollsOK
<1>2. poller[p].since \in 0 .. MaxLog /\ Found(p) \subseteq LogIds /\ Found(p) \subseteq Visible
      /\ poller[p].got \subseteq LogIds /\ MaxLog \in Nat
  BY <1>1 DEF PollRow, Found, Visible, AgentReadsAssumption
<1> DEFINE S == {poller[p].since} \cup Found(p)
<1>3. S \in SUBSET (0 .. MaxLog) /\ S # {} BY <1>2 DEF LogIds
<1>4. PICK m : m = Max(S) OBVIOUS
<1>5. m \in S /\ \A y \in S : y <= m
  <2> HIDE DEF S
  <2> QED BY <1>2, <1>3, <1>4, MaxOfIds
<1>6. PICK q : q = [pc |-> "idle", woken |-> FALSE, since |-> m,
                    got |-> poller[p].got \cup Found(p)]
  OBVIOUS
<1>7. q \in PollRow
  BY <1>2, <1>3, <1>5, <1>6 DEF PollRow, PollSteps
<1>8. poller' = [poller EXCEPT ![p] = q] BY <1>4, <1>6 DEF AnswerEvents
<1>9. \A r \in Pollers : poller'[r] = IF r = p THEN q ELSE poller[r]
  BY <1>8 DEF ReadsIInv, PollsOK
<1>10. PollsOK' BY <1>6, <1>7, <1>8, <1>9 DEF ReadsIInv, PollsOK
<1>11. LogOK' /\ WatchOK' /\ DrawnInOrder'
  BY <1>0 DEF ReadsIInv, LogOK, WatchOK, DrawnInOrder
<1>12. Visible' = Visible BY <1>0 DEF Visible
<1>13. CursorWasSeen'
  <2>1. m = 0 \/ m \in Visible BY <1>2, <1>5 DEF ReadsIInv, CursorWasSeen
  <2> QED BY <2>1, <1>6, <1>9, <1>12 DEF ReadsIInv, CursorWasSeen
<1>14. CursorSkipsNothing'
  <2> SUFFICES ASSUME OneWriter, NEW e \in Visible, e <= m
               PROVE  e \in poller[p].got \cup Found(p)
    BY <1>6, <1>9, <1>12 DEF ReadsIInv, CursorSkipsNothing
  <2>0. e \in Nat /\ poller[p].since \in Nat BY <1>2 DEF Visible, LogIds
  <2>1. CASE e <= poller[p].since BY <2>1 DEF ReadsIInv, CursorSkipsNothing
  <2>2. CASE e > poller[p].since
    <3>1. m # poller[p].since BY <2>0, <2>2
    <3>2. m \in Found(p) BY <1>5, <3>1
    <3> QED BY <2>2, <3>2, PageIsPrefix
  <2> QED BY <2>0, <2>1, <2>2
<1>15. \A r \in Pollers : Heard(r)' BY <1>0, <1>6, <1>9 DEF ReadsIInv, Heard
<1> QED BY <1>10, <1>11, <1>13, <1>14, <1>15 DEF ReadsIInv

(* A query that finds nothing leaves nothing visible above its cursor.     *)
LEMMA NothingFound ==
    ASSUME AgentReadsAssumption, ReadsIInv, NEW p \in Pollers, Found(p) = {}
    PROVE  \A e \in Visible : e <= poller[p].since
<1> DEFINE new == {d \in Visible : d > poller[p].since}
<1> SUFFICES ASSUME new # {} PROVE FALSE
  <2>1. poller[p].since \in Nat BY DEF ReadsIInv, PollsOK, PollRow
  <2> QED BY <2>1 DEF Visible, LogIds
<1>1. new \subseteq Nat BY DEF Visible, LogIds
<1>2. PICK e \in new : \A d \in new : ~ (<<d, e>> \in OpToRel(<, Nat))
  <2>1. \E e \in new : \A d \in new : ~ (<<d, e>> \in OpToRel(<, Nat))
    <3> HIDE DEF new
    <3> QED BY <1>1, NatLessThanWellFounded, WFMin
  <2> QED BY <2>1
<1>3. \A d \in new : ~(d < e) BY <1>1, <1>2 DEF OpToRel
<1>4. {d \in new : d < e} = {} BY <1>3
<1>5. Cardinality({d \in new : d < e}) = 0 BY <1>4, FS_EmptySet
<1>6. e \in Found(p)
  <2>1. 0 < PollPage BY DEF AgentReadsAssumption
  <2> QED BY <1>5, <2>1 DEF Found
<1> QED BY <1>6

LEMMA FindNothingKeeps ==
    ASSUME AgentReadsAssumption, ReadsIInv, NEW p \in Pollers,
           FindNothing(p) \/ BeginWait(p)
    PROVE  ReadsIInv'
<1>0. UNCHANGED <<stage, sort, watch, unheard, redis>> BY DEF FindNothing, BeginWait
<1>1. PICK s \in {"empty", "waiting"} : poller' = [poller EXCEPT ![p].pc = s]
  BY DEF FindNothing, BeginWait
<1>2. PICK q : q = [poller[p] EXCEPT !.pc = s] OBVIOUS
<1>3. poller[p] \in PollRow BY DEF ReadsIInv, PollsOK
<1>4. q \in PollRow /\ q.pc = s /\ q.woken = poller[p].woken
      /\ q.since = poller[p].since /\ q.got = poller[p].got
  BY <1>2, <1>3 DEF PollRow, PollSteps
<1>5. poller' = [poller EXCEPT ![p] = q] BY <1>1, <1>2
<1>6. \A r \in Pollers : poller'[r] = IF r = p THEN q ELSE poller[r]
  BY <1>5 DEF ReadsIInv, PollsOK
<1>7. PollsOK' BY <1>4, <1>5, <1>6 DEF ReadsIInv, PollsOK
<1>8. LogOK' /\ WatchOK' /\ DrawnInOrder'
  BY <1>0 DEF ReadsIInv, LogOK, WatchOK, DrawnInOrder
<1>9. Visible' = Visible BY <1>0 DEF Visible
<1>10. CursorWasSeen' /\ CursorSkipsNothing' BY <1>4, <1>6, <1>9, PollsStay
<1>11. Heard(p)'
  <2>1. CASE FindNothing(p)
    <3>1. \A e \in Visible : e <= poller[p].since BY <2>1, NothingFound DEF FindNothing
    <3> QED BY <3>1, <1>0, <1>4, <1>6 DEF Heard, Visible
  <2>2. CASE BeginWait(p)
    BY <2>2, <1>0, <1>4, <1>6 DEF ReadsIInv, Heard, BeginWait
  <2> QED BY <2>1, <2>2
<1>12. \A r \in Pollers : Heard(r)' BY <1>0, <1>6, <1>11 DEF ReadsIInv, Heard
<1> QED BY <1>7, <1>8, <1>10, <1>12 DEF ReadsIInv

-----------------------------------------------------------------------------
LEMMA WatchKeeps ==
    ASSUME AgentReadsAssumption, ReadsIInv, StartWatch \/ WatchGoesLive \/ WatchFails
    PROVE  ReadsIInv'
<1>0. UNCHANGED <<stage, sort, poller, unheard, redis>>
  BY DEF StartWatch, WatchGoesLive, WatchFails
<1>1. watch \in WatchRow BY DEF ReadsIInv, WatchOK
<1>2. watch' \in WatchRow
  <2>1. CASE StartWatch
    <3>1. PICK took : /\ took \subseteq LogIds
                      /\ watch' = [state |-> AfterEvent("replayed", {sort[e] : e \in took}),
                                   last |-> Max({0} \cup took), took |-> took]
      BY <2>1 DEF StartWatch, Visible
    <3>2. Max({0} \cup took) \in {0} \cup took
      <4>1. {0} \cup took \in SUBSET (0 .. MaxLog) /\ {0} \cup took # {} /\ MaxLog \in Nat
        BY <3>1 DEF LogIds, AgentReadsAssumption
      <4> QED BY <4>1, MaxOfIds
    <3>3. PICK m : m = Max({0} \cup took) OBVIOUS
    <3>m. m \in 0 .. MaxLog
      <4>1. m \in {0} \cup took BY <3>2, <3>3
      <4> QED BY <4>1, <3>1 DEF LogIds, AgentReadsAssumption
    <3>4. PICK a \in WatchStates : a = AfterEvent("replayed", {sort[e] : e \in took})
      BY AfterEventType DEF WatchStates
    <3>5. watch' = [state |-> a, last |-> m, took |-> took] BY <3>1, <3>3, <3>4
    <3> QED BY <3>1, <3>m, <3>5 DEF WatchRow
  <2>2. CASE WatchGoesLive BY <1>1, <2>2 DEF WatchGoesLive, WatchRow, WatchStates
  <2>3. CASE WatchFails BY <1>1, <2>3 DEF WatchFails, WatchRow, WatchStates
  <2> QED BY <2>1, <2>2, <2>3
<1>3. WatchOK' BY <1>0, <1>2 DEF ReadsIInv, WatchOK
<1>4. LogOK' /\ DrawnInOrder' BY <1>0 DEF ReadsIInv, LogOK, DrawnInOrder
<1>5. Visible' = Visible BY <1>0 DEF Visible
<1> QED BY <1>0, <1>3, <1>4, <1>5, PollsRest

LEMMA RelayDiesKeeps ==
    ASSUME AgentReadsAssumption, ReadsIInv, RelayDies PROVE ReadsIInv'
<1>0. UNCHANGED <<sort, unheard, redis>> BY DEF RelayDies
<1>1. /\ stage' \in [LogIds -> Stages]
      /\ \A d \in LogIds : stage'[d] = IF stage[d] = "drawn" THEN "void"
                                       ELSE IF stage[d] = "visible" THEN "published"
                                       ELSE stage[d]
  BY DEF RelayDies, ReadsIInv, LogOK, Stages
<1>2. LogOK' BY <1>0, <1>1 DEF ReadsIInv, LogOK
<1>3. DrawnInOrder' BY <1>1, OrderGoesOn
<1>4. Visible' = Visible BY <1>1 DEF Visible
<1>5. \A p \in Pollers : /\ poller'[p] \in PollRow /\ poller'[p].pc = "idle" /\ ~poller'[p].woken
                         /\ poller'[p].since = poller[p].since /\ poller'[p].got = poller[p].got
  <2> TAKE p \in Pollers
  <2>1. PICK q : q = [poller[p] EXCEPT !.pc = "idle", !.woken = FALSE] OBVIOUS
  <2>2. poller[p] \in PollRow BY DEF ReadsIInv, PollsOK
  <2>3. q \in PollRow /\ q.pc = "idle" /\ ~q.woken
        /\ q.since = poller[p].since /\ q.got = poller[p].got
    BY <2>1, <2>2 DEF PollRow, PollSteps
  <2>4. poller'[p] = q BY <2>1 DEF RelayDies
  <2> QED BY <2>3, <2>4
<1>6. PollsOK'
  <2>1. poller' = [p \in Pollers |-> poller'[p]] BY DEF RelayDies
  <2> QED BY <2>1, <1>5 DEF PollsOK
<1>7. CursorWasSeen' /\ CursorSkipsNothing' BY <1>4, <1>5, PollsStay
<1>8. \A p \in Pollers : Heard(p)' BY <1>5 DEF Heard
<1>9. WatchOK'
  <2>1. watch \in WatchRow BY DEF ReadsIInv, WatchOK
  <2>2. watch' \in WatchRow BY <2>1 DEF RelayDies, WatchRow, WatchStates
  <2> QED BY <2>2, <1>0 DEF ReadsIInv, WatchOK
<1> QED BY <1>2, <1>3, <1>6, <1>7, <1>8, <1>9 DEF ReadsIInv

LEMMA ReadsStep ==
    ASSUME AgentReadsAssumption, ReadsIInv, [ReadsNext]_readVars PROVE ReadsIInv'
<1>1. ASSUME NEW e \in LogIds, \E s \in Sorts : DrawId(e, s) PROVE ReadsIInv'
  BY <1>1, DrawIdKeeps
<1>2. ASSUME NEW e \in LogIds, CommitId(e) \/ VoidId(e) \/ PublishId(e) PROVE ReadsIInv'
  BY <1>2, EndIdKeeps, PublishIdKeeps
<1>3. ASSUME NEW p \in Pollers, AskEvents(p) PROVE ReadsIInv'
  BY <1>3, SetStepKeeps DEF AskEvents
<1>4. ASSUME NEW p \in Pollers, LoseAnswer(p) PROVE ReadsIInv'
  BY <1>4, SetStepKeeps DEF LoseAnswer
<1>5. ASSUME NEW p \in Pollers, WakeUp(p) \/ WaitTimesOut(p) PROVE ReadsIInv'
  BY <1>5, SetStepKeeps DEF WakeUp, WaitTimesOut
<1>6. ASSUME NEW p \in Pollers, FindNothing(p) \/ BeginWait(p) \/ AnswerEvents(p)
      PROVE  ReadsIInv'
  BY <1>6, FindNothingKeeps, AnswerEventsKeeps
<1>7. CASE UNCHANGED readVars
  <2> USE <1>7 DEF readVars
  <2>1. LogOK' /\ WatchOK' /\ DrawnInOrder' BY DEF ReadsIInv, LogOK, WatchOK, DrawnInOrder
  <2>2. Visible' = Visible BY DEF Visible
  <2> QED BY <2>1, <2>2, PollsRest
<1> QED BY <1>1, <1>2, <1>3, <1>4, <1>5, <1>6, <1>7, WatchKeeps, RelayDiesKeeps DEF ReadsNext

LEMMA ReadsImplies == ASSUME AgentReadsAssumption, ReadsIInv PROVE ReadsInv
<1> USE DEF ReadsIInv
<1>1. ReadsTypeOK
  BY DEF LogOK, PollsOK, WatchOK, Stages, PollRow, WatchRow, ReadsTypeOK
<1>2. NoLostWakeup
  <2> SUFFICES ASSUME ~redis, NEW p \in Pollers, poller[p].pc = "waiting",
                      NEW e \in LogIds, stage[e] = "published", e > poller[p].since
               PROVE  poller[p].woken
    BY DEF NoLostWakeup
  <2>1. e \in Nat /\ poller[p].since \in Nat BY DEF LogIds, PollsOK, PollRow
  <2>2. ~(e <= poller[p].since) BY <2>1
  <2> QED BY <2>2 DEF Heard
<1> QED BY <1>1, <1>2 DEF ReadsInv

(* For any number of pollers, any page size and any log: with one writer   *)
(* no cursor passes an event by, and without Redis no wait sleeps over a   *)
(* publication.                                                            *)
THEOREM ReadsSound == ReadsSpec => []ReadsInv
<1>1. ReadsInit => ReadsIInv BY AgentReadsAssumption, ReadsStart
<1>2. ReadsIInv /\ [ReadsNext]_readVars => ReadsIInv' BY AgentReadsAssumption, ReadsStep
<1>3. ReadsIInv => ReadsInv BY AgentReadsAssumption, ReadsImplies
<1> QED BY <1>1, <1>2, <1>3, PTL DEF ReadsSpec

-----------------------------------------------------------------------------
(***************************************************************************)
(* Agent keys. A process writes a whole store, its own profile included; a *)
(* key that was handed out was made once; and a rotation that waits aims   *)
(* at an agent of its owner.                                               *)
(***************************************************************************)

(* A store whose current profile is saved.                                 *)
Whole(s) == s.current # NoProfile => ~Missing(s, s.current)

(* What a process is about to write is whole, and it has what it is about  *)
(* to save: a profile and a key.                                           *)
TextsWhole ==
    /\ Whole(file.store)
    /\ \A p \in Procs :
           /\ Whole(proc[p].text)
           /\ proc[p].step \in {"asking", "read", "remove"} => proc[p].at \in Profiles
           /\ proc[p].step = "read" => proc[p].key # NoKey

(* A server that could register has registered nobody.                     *)
MadeOnce ==
    \A s \in Servers :
        /\ made[s] <= 1
        /\ proc[s].step \in {"new", "asking"} => made[s] = 0

(* A rotation under way has an agent.                                      *)
RotationsAim == \A o \in Owners : rotation[o].step = "read" => rotation[o].of \in Agents

KeysIInv == KeysTypeOK /\ TextsWhole /\ MadeOnce /\ RotationsAim /\ RevokedStayOut

-----------------------------------------------------------------------------
(* The stores that the operations make of whole ones are whole.            *)
LEMMA StoresWhole ==
  ASSUME KeysTypeOK, TextsWhole
  PROVE  /\ ReadStore \in Store /\ Whole(ReadStore)
         /\ EmptyStore \in Store /\ Whole(EmptyStore)
         /\ \A p \in Profiles : /\ Removed(ReadStore, p) \in Store
                                /\ Whole(Removed(ReadStore, p))
         /\ \A p \in Profiles : ~Missing(ReadStore, p) =>
                /\ [ReadStore EXCEPT !.current = p] \in Store
                /\ Whole([ReadStore EXCEPT !.current = p])
         /\ \A p \in Profiles, k \in 1 .. MaxKey, b \in BOOLEAN :
                /\ Upserted(ReadStore, p, k, b) \in Store
                /\ Whole(Upserted(ReadStore, p, k, b))
<1> USE KeysAssumption
<1>1. EmptyStore \in Store /\ Whole(EmptyStore)
  BY DEF EmptyStore, Store, Whole
<1>2. file.store \in Store /\ Whole(file.store)
  BY DEF KeysTypeOK, TextsWhole
<1>3. ReadStore \in Store /\ Whole(ReadStore)
  <2>1. PICK s : s = (IF file.state = "full" THEN file.store ELSE EmptyStore)
    OBVIOUS
  <2>2. s \in Store /\ Whole(s)
    BY <1>1, <1>2, <2>1
  <2>3. ReadStore = IF s.current \in Profiles /\ Missing(s, s.current)
                    THEN [s EXCEPT !.current = NoProfile] ELSE s
    BY <2>1 DEF ReadStore
  <2>4. CASE s.current \in Profiles /\ Missing(s, s.current)
    <3>1. ReadStore = [s EXCEPT !.current = NoProfile]
      BY <2>3, <2>4
    <3> QED BY <2>2, <3>1 DEF Store, Whole
  <2>5. CASE ~(s.current \in Profiles /\ Missing(s, s.current))
    BY <2>2, <2>3, <2>5
  <2> QED BY <2>4, <2>5
<1>4. PICK s : s = ReadStore
  OBVIOUS
<1>5. s \in Store /\ Whole(s)
  BY <1>3, <1>4
<1>6. \A p \in Profiles : Removed(s, p) \in Store /\ Whole(Removed(s, p))
  <2> SUFFICES ASSUME NEW p \in Profiles
               PROVE  Removed(s, p) \in Store /\ Whole(Removed(s, p))
    OBVIOUS
  <2> QED BY <1>5 DEF Removed, Store, Whole, Missing
<1>7. \A p \in Profiles : ~Missing(s, p) =>
          [s EXCEPT !.current = p] \in Store /\ Whole([s EXCEPT !.current = p])
  <2> SUFFICES ASSUME NEW p \in Profiles, ~Missing(s, p)
               PROVE  [s EXCEPT !.current = p] \in Store /\ Whole([s EXCEPT !.current = p])
    OBVIOUS
  <2> QED BY <1>5 DEF Store, Whole, Missing
<1>8. \A p \in Profiles, k \in 1 .. MaxKey, b \in BOOLEAN :
          Upserted(s, p, k, b) \in Store /\ Whole(Upserted(s, p, k, b))
  <2> SUFFICES ASSUME NEW p \in Profiles, NEW k \in 1 .. MaxKey, NEW b \in BOOLEAN
               PROVE  Upserted(s, p, k, b) \in Store /\ Whole(Upserted(s, p, k, b))
    OBVIOUS
  <2> QED BY <1>5 DEF Upserted, Store, Whole, Missing
<1> QED BY <1>1, <1>3, <1>4, <1>6, <1>7, <1>8

LEMMA KeysInitIInv == KeysInit => KeysIInv
<1> SUFFICES ASSUME KeysInit PROVE KeysIInv
  OBVIOUS
<1> USE KeysAssumption DEF KeysInit
<1>1. EmptyStore \in Store /\ Whole(EmptyStore)
  BY DEF EmptyStore, Store, Whole
<1>2. Idle \in ProcRow /\ Idle.text = EmptyStore /\ Idle.step = "new"
  BY <1>1 DEF Idle, ProcRow
<1>3. agent \in Seq(AgentRow) /\ Len(agent) = 0
  OBVIOUS
<1>4. KeysTypeOK
  <2>1. proc \in [Procs -> ProcRow]
    BY <1>2
  <2>2. file \in [state : {"absent", "emptied", "full"}, store : Store]
    BY <1>1
  <2> QED BY <1>3, <2>1, <2>2 DEF KeysTypeOK
<1>5. TextsWhole
  BY <1>1, <1>2 DEF TextsWhole
<1>6. MadeOnce /\ RotationsAim /\ RevokedStayOut
  BY DEF MadeOnce, RotationsAim, RevokedStayOut
<1> QED BY <1>4, <1>5, <1>6 DEF KeysIInv

-----------------------------------------------------------------------------
(* What a step of a process that leaves the relay alone may make of its    *)
(* row.                                                                    *)
MayBecome(p, r) ==
    /\ r \in ProcRow /\ Whole(r.text)
    /\ r.step \in {"asking", "read", "remove"} => r.at \in Profiles
    /\ r.step = "read" => r.key # NoKey
    /\ p \in Servers /\ r.step \in {"new", "asking"} =>
           proc[p].step \in {"new", "asking"} \/ made'[p] = 0

LEMMA ProcKeepsIInv ==
  ASSUME KeysIInv, NEW p \in Procs, NEW r, MayBecome(p, r),
         proc' = [proc EXCEPT ![p] = r],
         file' \in [state : {"absent", "emptied", "full"}, store : Store],
         Whole(file'.store),
         call' \in [Calls -> {"new", "answered", "refused", "lost"} \cup Servers],
         \/ made' = made
         \/ p \in Servers /\ made' = [made EXCEPT ![p] = 0],
         UNCHANGED <<agent, keys, rotation, out>>
  PROVE  KeysIInv'
<1> USE KeysAssumption
<1>0. KeysTypeOK /\ TextsWhole /\ MadeOnce /\ RotationsAim /\ RevokedStayOut
  BY DEF KeysIInv
<1>1. proc \in [Procs -> ProcRow] /\ made \in [Servers -> 0 .. MaxKey]
  BY <1>0 DEF KeysTypeOK
<1>2. proc' \in [Procs -> ProcRow] /\ made' \in [Servers -> 0 .. MaxKey]
  BY <1>1 DEF MayBecome
<1>3. KeysTypeOK'
  BY <1>0, <1>2 DEF KeysTypeOK, Agents
<1>4. TextsWhole'
  BY <1>0, <1>1 DEF TextsWhole, MayBecome
<1>5. MadeOnce'
  <2> SUFFICES ASSUME NEW s \in Servers
               PROVE  /\ made'[s] <= 1
                      /\ proc'[s].step \in {"new", "asking"} => made'[s] = 0
    BY DEF MadeOnce
  <2>1. made[s] <= 1 /\ (proc[s].step \in {"new", "asking"} => made[s] = 0) /\ s \in Procs
    BY <1>0 DEF MadeOnce, Procs
  <2>2. CASE s = p
    BY <1>1, <2>1, <2>2 DEF MayBecome
  <2>3. CASE s # p
    BY <1>1, <2>1, <2>3
  <2> QED BY <2>2, <2>3
<1>6. RotationsAim' /\ RevokedStayOut'
  BY <1>0 DEF RotationsAim, RevokedStayOut, Agents
<1> QED BY <1>3, <1>4, <1>5, <1>6 DEF KeysIInv

(* The rows that come without a store of their own.                        *)
LEMMA RestRows ==
  ASSUME NEW k \in 0 .. MaxKey
  PROVE  /\ Idle \in ProcRow /\ Ended \in ProcRow
         /\ Idle.text = EmptyStore /\ Idle.step = "new"
         /\ Ended.text = EmptyStore /\ Ended.step = "done"
         /\ [Idle EXCEPT !.step = "ready", !.key = k] \in ProcRow
         /\ [Idle EXCEPT !.step = "ready", !.key = k].text = EmptyStore
         /\ [Idle EXCEPT !.step = "ready", !.key = k].step = "ready"
<1> USE KeysAssumption
<1>1. EmptyStore \in Store
  BY DEF EmptyStore, Store
<1>2. PICK i : i = Idle
  OBVIOUS
<1>3. i \in ProcRow /\ i.text = EmptyStore /\ i.step = "new"
  BY <1>1, <1>2 DEF Idle, ProcRow
<1>4. Ended = [i EXCEPT !.step = "done"]
  BY <1>2 DEF Ended
<1>5. Ended \in ProcRow /\ Ended.text = EmptyStore /\ Ended.step = "done"
  BY <1>2, <1>3, <1>4 DEF ProcRow
<1>6. PICK q : q = [i EXCEPT !.step = "ready", !.key = k]
  OBVIOUS
<1>7. q \in ProcRow /\ q.text = EmptyStore /\ q.step = "ready"
  BY <1>2, <1>3, <1>6 DEF ProcRow
<1> QED BY <1>2, <1>3, <1>5, <1>6, <1>7

(* A step on the file, or to the end of a command or an attempt.           *)
LEMMA StoreStepKeeps ==
  ASSUME KeysIInv, NEW p \in Procs, StoreStep(p)
  PROVE  KeysIInv'
<1> USE KeysAssumption
<1>0. KeysTypeOK /\ TextsWhole /\ MadeOnce /\ RotationsAim /\ RevokedStayOut
  BY DEF KeysIInv
<1>1. /\ proc \in [Procs -> ProcRow] /\ proc[p] \in ProcRow /\ Whole(proc[p].text)
      /\ file \in [state : {"absent", "emptied", "full"}, store : Store]
      /\ Whole(file.store)
      /\ call \in [Calls -> {"new", "answered", "refused", "lost"} \cup Servers]
      /\ made \in [Servers -> 0 .. MaxKey]
  BY <1>0 DEF KeysTypeOK, TextsWhole
<1>2. EmptyStore \in Store /\ Whole(EmptyStore)
  BY <1>0, StoresWhole
<1>3. Idle \in ProcRow /\ Whole(Idle.text) /\ Idle.step = "new"
  <2>1. 0 \in 0 .. MaxKey
    OBVIOUS
  <2> QED BY <1>2, <2>1, RestRows
<1>4. Ended \in ProcRow /\ Whole(Ended.text) /\ Ended.step = "done"
  <2>1. 0 \in 0 .. MaxKey
    OBVIOUS
  <2> QED BY <1>2, <2>1, RestRows
<1>5. CASE EmptyFile(p)
  <2>1. PICK r : r = [proc[p] EXCEPT !.step = "fill"]
    OBVIOUS
  <2>2. r \in ProcRow /\ r.step = "fill" /\ r.text = proc[p].text
    BY <1>1, <2>1 DEF ProcRow
  <2>3. proc' = [proc EXCEPT ![p] = r]
    BY <1>5, <2>1 DEF EmptyFile
  <2>4. file' \in [state : {"absent", "emptied", "full"}, store : Store] /\ file'.store = file.store
    BY <1>1, <1>5 DEF EmptyFile
  <2>5. MayBecome(p, r)
    BY <1>1, <2>2 DEF MayBecome
  <2> QED BY <1>1, <1>5, <2>3, <2>4, <2>5, ProcKeepsIInv DEF EmptyFile
<1>6. CASE FillFile(p)
  <2>1. PICK r : r = IF p \in Servers
                     THEN [Idle EXCEPT !.step = "ready", !.key = proc[p].key] ELSE Ended
    OBVIOUS
  <2>2. proc[p].key \in 0 .. MaxKey /\ proc[p].text \in Store
    BY <1>1 DEF ProcRow
  <2>3. r \in ProcRow /\ r.step \in {"ready", "done"} /\ Whole(r.text)
    BY <1>2, <1>4, <2>1, <2>2, RestRows
  <2>4. proc' = [proc EXCEPT ![p] = r]
    BY <1>6, <2>1 DEF FillFile
  <2>5. file' \in [state : {"absent", "emptied", "full"}, store : Store] /\ Whole(file'.store)
    BY <1>1, <1>6, <2>2 DEF FillFile
  <2>6. MayBecome(p, r)
    BY <2>3 DEF MayBecome
  <2> QED BY <1>1, <1>6, <2>4, <2>5, <2>6, ProcKeepsIInv DEF FillFile
<1>7. CASE DropFile(p)
  <2>1. MayBecome(p, Ended)
    BY <1>4 DEF MayBecome
  <2>2. file' \in [state : {"absent", "emptied", "full"}, store : Store] /\ Whole(file'.store)
    BY <1>2, <1>7 DEF DropFile
  <2> QED BY <1>1, <1>7, <2>1, <2>2, ProcKeepsIInv DEF DropFile
<1>8. CASE UpsertProfile(p)
  <2>1. PICK t : t = Upserted(ReadStore, proc[p].at, proc[p].key, proc[p].op = "register")
    OBVIOUS
  <2>2. proc[p].at \in Profiles /\ proc[p].key \in 1 .. MaxKey
    BY <1>0, <1>1, <1>8 DEF UpsertProfile, TextsWhole, ProcRow
  <2>3. t \in Store /\ Whole(t)
    BY <1>0, <2>1, <2>2, StoresWhole
  <2>4. PICK r : r = [proc[p] EXCEPT !.step = "empty", !.text = t]
    OBVIOUS
  <2>5. r \in ProcRow /\ r.step = "empty" /\ r.text = t
    BY <1>1, <2>3, <2>4 DEF ProcRow
  <2>6. proc' = [proc EXCEPT ![p] = r]
    BY <1>1, <1>8, <2>1, <2>4 DEF UpsertProfile
  <2>7. MayBecome(p, r)
    BY <2>3, <2>5 DEF MayBecome
  <2> QED BY <1>1, <1>8, <2>6, <2>7, ProcKeepsIInv DEF UpsertProfile
<1>9. CASE Registered(p)
  <2>1. proc[p].step = "asking" /\ keys < MaxKey /\ keys' = keys + 1
        /\ agent' = Append(agent, [key |-> keys + 1, revoked |-> FALSE])
        /\ UNCHANGED <<file, call, rotation, out>>
    BY <1>9 DEF Registered
  <2>2. keys \in Nat /\ keys + 1 \in 1 .. MaxKey /\ agent \in Seq(AgentRow) /\ Len(agent) <= keys
    BY <1>0, <2>1 DEF KeysTypeOK
  <2>3. [key |-> keys + 1, revoked |-> FALSE] \in AgentRow
    BY <2>2 DEF AgentRow
  <2>4. /\ agent' \in Seq(AgentRow) /\ Len(agent') = Len(agent) + 1
        /\ \A a \in Agents : agent'[a] = agent[a]
    BY <2>1, <2>2, <2>3, AppendProperties DEF Agents
  <2>k. PICK k : k = keys + 1
    OBVIOUS
  <2>n. k \in 1 .. MaxKey /\ k \in 0 .. MaxKey /\ k # NoKey
    BY <2>2, <2>k
  <2>5. PICK r : r = [proc[p] EXCEPT !.step = "read", !.key = k]
    OBVIOUS
  <2>6. r \in ProcRow /\ r.step = "read" /\ r.text = proc[p].text /\ r.at = proc[p].at
        /\ r.key # NoKey
    BY <1>1, <2>n, <2>5 DEF ProcRow
  <2>7. proc' = [proc EXCEPT ![p] = r]
    BY <1>1, <1>9, <2>k, <2>5 DEF Registered
  <2>8. proc' \in [Procs -> ProcRow]
    BY <1>1, <2>6, <2>7
  <2>9. Agents \subseteq Agents'
    BY <2>2, <2>4 DEF Agents
  <2>10. /\ made' \in [Servers -> 0 .. MaxKey]
         /\ \A s \in Servers : made'[s] = IF s = p THEN made[s] + 1 ELSE made[s]
    <3>1. CASE p \in Servers
      <4>1. made[p] = 0 /\ 1 \in 0 .. MaxKey
        BY <1>0, <2>1, <2>2, <3>1 DEF MadeOnce
      <4>2. made' = [made EXCEPT ![p] = 1]
        BY <1>1, <1>9, <3>1, <4>1 DEF Registered
      <4>3. made' \in [Servers -> 0 .. MaxKey] /\ made'[p] = 1
        BY <1>1, <3>1, <4>1, <4>2
      <4>4. \A s \in Servers : s # p => made'[s] = made[s]
        BY <1>1, <4>2
      <4>5. made[p] + 1 = 1
        BY <4>1
      <4> QED BY <4>3, <4>4, <4>5
    <3>2. CASE p \notin Servers
      BY <1>1, <1>9, <3>2 DEF Registered
    <3> QED BY <3>1, <3>2
  <2>11. KeysTypeOK'
    <3>1. Len(agent') \in Nat /\ Len(agent) \in Nat
      BY <2>2, <2>4
    <3>2. rotation' \in [Owners -> [step : {"new", "read", "done"}, of : 0 .. Len(agent')]]
      BY <1>0, <2>1, <2>4, <3>1 DEF KeysTypeOK
    <3>3. out' \subseteq Agents'
      BY <1>0, <2>1, <2>9 DEF KeysTypeOK
    <3>4. keys' \in 0 .. MaxKey /\ Len(agent') <= keys'
      BY <2>1, <2>2, <2>4, <3>1
    <3> QED BY <1>1, <2>1, <2>4, <2>8, <2>10, <3>2, <3>3, <3>4 DEF KeysTypeOK
  <2>12. TextsWhole'
    BY <1>0, <1>1, <2>1, <2>2, <2>6, <2>7 DEF TextsWhole
  <2>13. MadeOnce'
    <3> SUFFICES ASSUME NEW s \in Servers
                 PROVE  /\ made'[s] <= 1
                        /\ proc'[s].step \in {"new", "asking"} => made'[s] = 0
      BY DEF MadeOnce
    <3>1. s \in Procs /\ made[s] <= 1 /\ (proc[s].step \in {"new", "asking"} => made[s] = 0)
      BY <1>0 DEF MadeOnce, Procs
    <3>2. CASE s = p
      BY <1>1, <2>1, <2>6, <2>7, <2>10, <3>1, <3>2
    <3>3. CASE s # p
      BY <1>1, <2>7, <2>10, <3>1, <3>3
    <3> QED BY <3>2, <3>3
  <2>14. RotationsAim' /\ RevokedStayOut'
    <3>1. out \subseteq Agents
      BY <1>0 DEF KeysTypeOK
    <3> QED BY <1>0, <2>1, <2>4, <2>9, <3>1 DEF RotationsAim, RevokedStayOut
  <2> QED BY <2>11, <2>12, <2>13, <2>14 DEF KeysIInv
<1>10. CASE AttemptFails(p) \/ ProcessDies(p)
  <2>1. PICK r : r = IF p \in Servers THEN Idle ELSE Ended
    OBVIOUS
  <2>2. proc' = [proc EXCEPT ![p] = r] /\ UNCHANGED <<agent, keys, file, rotation, out>>
    BY <1>10, <2>1 DEF AttemptFails, ProcessDies
  <2>3. made' = IF p \in Servers THEN [made EXCEPT ![p] = 0] ELSE made
    BY <1>10 DEF AttemptFails, ProcessDies
  <2>4. call' \in [Calls -> {"new", "answered", "refused", "lost"} \cup Servers]
    BY <1>1, <1>10 DEF AttemptFails, ProcessDies
  <2>5. MayBecome(p, r)
    BY <1>1, <1>3, <1>4, <2>1, <2>3 DEF MayBecome
  <2> QED BY <1>1, <2>2, <2>3, <2>4, <2>5, ProcKeepsIInv
<1> QED BY <1>5, <1>6, <1>7, <1>8, <1>9, <1>10 DEF StoreStep

(* A step of the relay that ends at most one command.                      *)
LEMMA RelayKeepsIInv ==
  ASSUME KeysIInv,
         agent' \in Seq(AgentRow), Len(agent') = Len(agent),
         keys' \in 0 .. MaxKey, keys <= keys',
         out' \subseteq Agents, \A a \in out' : agent'[a].revoked,
         rotation' \in [Owners -> [step : {"new", "read", "done"}, of : 0 .. Len(agent)]],
         \A o \in Owners : rotation'[o].step = "read" => rotation'[o].of \in Agents,
         \/ proc' = proc
         \/ \E p \in Procs : proc' = [proc EXCEPT ![p] = Ended],
         UNCHANGED <<file, call, made>>
  PROVE  KeysIInv'
<1> USE KeysAssumption
<1>0. KeysTypeOK /\ TextsWhole /\ MadeOnce /\ RotationsAim /\ RevokedStayOut
  BY DEF KeysIInv
<1>1. Agents' = Agents
  BY DEF Agents
<1>2. Ended \in ProcRow /\ Whole(Ended.text) /\ Ended.step = "done"
  <2>1. EmptyStore \in Store /\ Whole(EmptyStore) /\ 0 \in 0 .. MaxKey
    BY <1>0, StoresWhole
  <2> QED BY <2>1, RestRows
<1>3. proc \in [Procs -> ProcRow] /\ keys \in Nat /\ Len(agent) \in Nat /\ Len(agent) <= keys
  BY <1>0 DEF KeysTypeOK
<1>4. /\ proc' \in [Procs -> ProcRow]
      /\ \A p \in Procs : proc'[p] = proc[p] \/ proc'[p] = Ended
  <2>1. CASE proc' = proc
    BY <1>3, <2>1
  <2>2. CASE \E p \in Procs : proc' = [proc EXCEPT ![p] = Ended]
    <3>1. PICK q \in Procs : proc' = [proc EXCEPT ![q] = Ended]
      BY <2>2
    <3> QED BY <1>2, <1>3, <3>1
  <2> QED BY <2>1, <2>2
<1>5. KeysTypeOK'
  <2>1. Len(agent') <= keys'
    BY <1>3
  <2> QED BY <1>0, <1>1, <1>4, <2>1 DEF KeysTypeOK
<1>6. TextsWhole'
  BY <1>0, <1>2, <1>4 DEF TextsWhole
<1>7. MadeOnce'
  BY <1>0, <1>2, <1>4 DEF MadeOnce, Procs
<1>8. RotationsAim' /\ RevokedStayOut'
  BY <1>1 DEF RotationsAim, RevokedStayOut
<1> QED BY <1>5, <1>6, <1>7, <1>8 DEF KeysIInv

-----------------------------------------------------------------------------
(* The start of a command leaves a row that may become anything it should. *)
LEMMA CommandKeeps ==
  ASSUME KeysIInv, NEW c \in Commands, Command(c)
  PROVE  KeysIInv'
<1> USE KeysAssumption
<1>0. KeysTypeOK /\ TextsWhole /\ MadeOnce /\ RotationsAim /\ RevokedStayOut
  BY DEF KeysIInv
<1>1. /\ c \in Procs
      /\ proc \in [Procs -> ProcRow] /\ proc[c] \in ProcRow /\ Whole(proc[c].text)
      /\ file \in [state : {"absent", "emptied", "full"}, store : Store]
      /\ Whole(file.store)
      /\ call \in [Calls -> {"new", "answered", "refused", "lost"} \cup Servers]
      /\ made \in [Servers -> 0 .. MaxKey]
  BY <1>0 DEF KeysTypeOK, TextsWhole, Procs
<1>2. EmptyStore \in Store /\ Whole(EmptyStore) /\ ReadStore \in Store /\ Whole(ReadStore)
  BY <1>0, StoresWhole
<1>z. 0 \in 0 .. MaxKey
  OBVIOUS
<1>3. Idle \in ProcRow /\ Whole(Idle.text) /\ Idle.step = "new"
  BY <1>2, <1>z, RestRows
<1>4. Ended \in ProcRow /\ Whole(Ended.text) /\ Ended.step = "done"
  BY <1>2, <1>z, RestRows
<1>5. MayBecome(c, Ended)
  BY <1>4 DEF MayBecome
<1>6. ASSUME NEW r, MayBecome(c, r), proc[c].step = "new", proc' = [proc EXCEPT ![c] = r],
             UNCHANGED <<agent, keys, file, call, rotation, out, made>>
      PROVE  KeysIInv'
  BY <1>1, <1>6, ProcKeepsIInv
<1>7. ASSUME NEW op \in {"register", "set", "use", "rm", "logout", "wipe", "clear", "revoke"},
             NEW q, q = [Idle EXCEPT !.op = op]
      PROVE  q \in ProcRow /\ q.text = EmptyStore /\ q.step = "new" /\ q.op = op
  <2>1. PICK i : i = Idle
    OBVIOUS
  <2>2. i \in ProcRow /\ i.text = EmptyStore /\ i.step = "new"
    BY <1>3, <1>z, <2>1, RestRows
  <2>3. q = [i EXCEPT !.op = op]
    BY <1>7, <2>1
  <2> QED BY <2>2, <2>3 DEF ProcRow
<1>8. \A flag \in Flags : SaveAt(flag) \in Profiles
  BY <1>2 DEF SaveAt, Flags, Store
<1>9. CASE RunRegister(c)
  <2>1. PICK flag \in Flags :
            /\ proc[c].step = "new"
            /\ proc' = [proc EXCEPT ![c] = [[Idle EXCEPT !.op = "register"]
                                                EXCEPT !.step = "asking", !.at = SaveAt(flag)]]
            /\ UNCHANGED <<agent, keys, file, call, rotation, out, made>>
    BY <1>9 DEF RunRegister, Starts
  <2>2. PICK q : q = [Idle EXCEPT !.op = "register"]
    OBVIOUS
  <2>3. q \in ProcRow /\ q.text = EmptyStore
    BY <1>7, <2>2
  <2>4. PICK r : r = [q EXCEPT !.step = "asking", !.at = SaveAt(flag)]
    OBVIOUS
  <2>5. SaveAt(flag) \in Profiles
    BY <1>8
  <2>6. r \in ProcRow /\ r.text = EmptyStore /\ r.step = "asking" /\ r.at \in Profiles
    BY <2>3, <2>4, <2>5 DEF ProcRow
  <2>7. MayBecome(c, r)
    BY <1>2, <2>1, <2>6 DEF MayBecome
  <2> QED BY <1>6, <2>1, <2>2, <2>4, <2>7
<1>10. CASE RunSetKey(c)
  <2>1. PICK flag \in Flags, k \in 1 .. keys :
            /\ proc[c].step = "new"
            /\ proc' = [proc EXCEPT ![c] = [[Idle EXCEPT !.op = "set"]
                                EXCEPT !.step = "read", !.at = SaveAt(flag), !.key = k]]
            /\ UNCHANGED <<agent, keys, file, call, rotation, out, made>>
    BY <1>10 DEF RunSetKey, Starts
  <2>2. PICK q : q = [Idle EXCEPT !.op = "set"]
    OBVIOUS
  <2>3. q \in ProcRow /\ q.text = EmptyStore
    BY <1>7, <2>2
  <2>4. PICK r : r = [q EXCEPT !.step = "read", !.at = SaveAt(flag), !.key = k]
    OBVIOUS
  <2>5. SaveAt(flag) \in Profiles /\ k \in 0 .. MaxKey /\ k # NoKey
    BY <1>0, <1>8 DEF KeysTypeOK
  <2>6. r \in ProcRow /\ r.text = EmptyStore /\ r.step = "read" /\ r.at \in Profiles
        /\ r.key # NoKey
    BY <2>3, <2>4, <2>5 DEF ProcRow
  <2>7. MayBecome(c, r)
    BY <1>2, <2>6 DEF MayBecome
  <2> QED BY <1>6, <2>1, <2>2, <2>4, <2>7
<1>11. CASE RunConfigUse(c)
  <2>1. PICK p \in Profiles :
            /\ proc[c].step = "new"
            /\ proc' = [proc EXCEPT ![c] =
                   IF Missing(ReadStore, p) THEN Ended
                   ELSE [[Idle EXCEPT !.op = "use"]
                            EXCEPT !.step = "empty", !.text = [ReadStore EXCEPT !.current = p]]]
            /\ UNCHANGED <<agent, keys, file, call, rotation, out, made>>
    BY <1>11 DEF RunConfigUse, Starts
  <2>2. PICK q : q = [Idle EXCEPT !.op = "use"]
    OBVIOUS
  <2>3. q \in ProcRow
    BY <1>7, <2>2
  <2>4. PICK t : t = [ReadStore EXCEPT !.current = p]
    OBVIOUS
  <2>5. PICK r : r = [q EXCEPT !.step = "empty", !.text = t]
    OBVIOUS
  <2>6. CASE Missing(ReadStore, p)
    BY <1>5, <1>6, <2>1, <2>6
  <2>7. CASE ~Missing(ReadStore, p)
    <3>1. t \in Store /\ Whole(t)
      BY <1>0, <2>4, <2>7, StoresWhole
    <3>2. r \in ProcRow /\ r.text = t /\ r.step = "empty"
      BY <2>3, <2>5, <3>1 DEF ProcRow
    <3>3. MayBecome(c, r)
      BY <3>1, <3>2 DEF MayBecome
    <3> QED BY <1>6, <2>1, <2>2, <2>4, <2>5, <2>7, <3>3
  <2> QED BY <2>6, <2>7
<1>12. ASSUME NEW op \in {"rm", "logout"}, NEW p \in Profiles
       PROVE  MayBecome(c, [[Idle EXCEPT !.op = op] EXCEPT !.step = "remove", !.at = p])
  <2>2. PICK q : q = [Idle EXCEPT !.op = op]
    OBVIOUS
  <2>3. q \in ProcRow /\ q.text = EmptyStore
    BY <1>7, <2>2
  <2>4. PICK r : r = [q EXCEPT !.step = "remove", !.at = p]
    OBVIOUS
  <2>6. r \in ProcRow /\ r.text = EmptyStore /\ r.step = "remove" /\ r.at \in Profiles
    BY <2>3, <2>4 DEF ProcRow
  <2>7. MayBecome(c, r)
    BY <1>2, <2>6 DEF MayBecome
  <2> QED BY <2>2, <2>4, <2>7
<1>13. ASSUME NEW op \in {"logout", "wipe"}
       PROVE  MayBecome(c, [[Idle EXCEPT !.op = op] EXCEPT !.step = "drop"])
  <2>2. PICK q : q = [Idle EXCEPT !.op = op]
    OBVIOUS
  <2>3. q \in ProcRow /\ q.text = EmptyStore
    BY <1>7, <2>2
  <2>4. PICK r : r = [q EXCEPT !.step = "drop"]
    OBVIOUS
  <2>6. r \in ProcRow /\ r.text = EmptyStore /\ r.step = "drop"
    BY <2>3, <2>4 DEF ProcRow
  <2>7. MayBecome(c, r)
    BY <1>2, <2>6 DEF MayBecome
  <2> QED BY <2>2, <2>4, <2>7
<1>14. CASE RunConfigRm(c)
  <2>1. PICK p \in Profiles :
            /\ proc[c].step = "new"
            /\ proc' = [proc EXCEPT ![c] =
                   [[Idle EXCEPT !.op = "rm"] EXCEPT !.step = "remove", !.at = p]]
            /\ UNCHANGED <<agent, keys, file, call, rotation, out, made>>
    BY <1>14 DEF RunConfigRm, Starts
  <2> QED BY <1>6, <1>12, <2>1
<1>15. CASE RunLogout(c)
  <2>1. PICK flag \in Flags :
            /\ proc[c].step = "new"
            /\ proc' = [proc EXCEPT ![c] =
                   LET p == IF flag # NoProfile THEN flag ELSE ReadStore.current
                   IN IF p = NoProfile THEN [[Idle EXCEPT !.op = "logout"] EXCEPT !.step = "drop"]
                      ELSE IF Missing(ReadStore, p) THEN Ended
                      ELSE [[Idle EXCEPT !.op = "logout"] EXCEPT !.step = "remove", !.at = p]]
            /\ UNCHANGED <<agent, keys, file, call, rotation, out, made>>
    BY <1>15 DEF RunLogout, Starts
  <2>2. PICK p : p = IF flag # NoProfile THEN flag ELSE ReadStore.current
    OBVIOUS
  <2>3. p \in Profiles \cup {NoProfile}
    BY <1>2, <2>2 DEF Flags, Store
  <2>4. proc' = [proc EXCEPT ![c] =
                   IF p = NoProfile THEN [[Idle EXCEPT !.op = "logout"] EXCEPT !.step = "drop"]
                   ELSE IF Missing(ReadStore, p) THEN Ended
                   ELSE [[Idle EXCEPT !.op = "logout"] EXCEPT !.step = "remove", !.at = p]]
    BY <2>1, <2>2
  <2>5. CASE p = NoProfile
    BY <1>6, <1>13, <2>1, <2>4, <2>5
  <2>6. CASE p # NoProfile /\ Missing(ReadStore, p)
    BY <1>5, <1>6, <2>1, <2>4, <2>6
  <2>7. CASE p # NoProfile /\ ~Missing(ReadStore, p)
    BY <1>6, <1>12, <2>1, <2>3, <2>4, <2>7
  <2> QED BY <2>5, <2>6, <2>7
<1>16. CASE RunLogoutAll(c)
  <2>1. /\ proc[c].step = "new"
        /\ proc' = [proc EXCEPT ![c] = [[Idle EXCEPT !.op = "wipe"] EXCEPT !.step = "drop"]]
        /\ UNCHANGED <<agent, keys, file, call, rotation, out, made>>
    BY <1>16 DEF RunLogoutAll, Starts
  <2> QED BY <1>6, <1>13, <2>1
<1>17. CASE ClearActiveProfile(c)
  <2>1. /\ proc[c].step = "new"
        /\ proc' = [proc EXCEPT ![c] =
               IF ReadStore.current = NoProfile THEN Ended
               ELSE [[Idle EXCEPT !.op = "clear"]
                        EXCEPT !.step = "empty", !.text = Removed(ReadStore, ReadStore.current)]]
        /\ UNCHANGED <<agent, keys, file, call, rotation, out, made>>
    BY <1>17 DEF ClearActiveProfile, Starts
  <2>2. PICK q : q = [Idle EXCEPT !.op = "clear"]
    OBVIOUS
  <2>3. q \in ProcRow
    BY <1>7, <2>2
  <2>4. PICK t : t = Removed(ReadStore, ReadStore.current)
    OBVIOUS
  <2>5. PICK r : r = [q EXCEPT !.step = "empty", !.text = t]
    OBVIOUS
  <2>6. CASE ReadStore.current = NoProfile
    BY <1>5, <1>6, <2>1, <2>6
  <2>7. CASE ReadStore.current # NoProfile
    <3>0. ReadStore.current \in Profiles
      BY <1>2, <2>7 DEF Store
    <3>1. t \in Store /\ Whole(t)
      BY <1>0, <2>4, <3>0, StoresWhole
    <3>2. r \in ProcRow /\ r.text = t /\ r.step = "empty"
      BY <2>3, <2>5, <3>1 DEF ProcRow
    <3>3. MayBecome(c, r)
      BY <3>1, <3>2 DEF MayBecome
    <3> QED BY <1>6, <2>1, <2>2, <2>4, <2>5, <2>7, <3>3
  <2> QED BY <2>6, <2>7
<1>18. CASE RunKeyRevoke(c)
  <2>1. PICK flag \in Flags :
            /\ proc[c].step = "new"
            /\ proc' = [proc EXCEPT ![c] =
                   LET p == IF flag # NoProfile THEN flag ELSE ReadStore.current
                   IN IF p = NoProfile \/ Missing(ReadStore, p) THEN Ended
                      ELSE [[Idle EXCEPT !.op = "revoke"]
                               EXCEPT !.step = "revoking", !.key = ReadStore.saved[p]]]
            /\ UNCHANGED <<agent, keys, file, call, rotation, out, made>>
    BY <1>18 DEF RunKeyRevoke, Starts
  <2>2. PICK p : p = IF flag # NoProfile THEN flag ELSE ReadStore.current
    OBVIOUS
  <2>3. p \in Profiles \cup {NoProfile}
    BY <1>2, <2>2 DEF Flags, Store
  <2>4. proc' = [proc EXCEPT ![c] =
                   IF p = NoProfile \/ Missing(ReadStore, p) THEN Ended
                   ELSE [[Idle EXCEPT !.op = "revoke"]
                               EXCEPT !.step = "revoking", !.key = ReadStore.saved[p]]]
    BY <2>1, <2>2
  <2>5. CASE p = NoProfile \/ Missing(ReadStore, p)
    BY <1>5, <1>6, <2>1, <2>4, <2>5
  <2>6. CASE ~(p = NoProfile \/ Missing(ReadStore, p))
    <3>1. PICK k : k = ReadStore.saved[p]
      OBVIOUS
    <3>2. k \in 0 .. MaxKey
      BY <1>2, <2>3, <2>6, <3>1 DEF Store
    <3>3. PICK q : q = [Idle EXCEPT !.op = "revoke"]
      OBVIOUS
    <3>4. q \in ProcRow /\ q.text = EmptyStore
      BY <1>7, <3>3
    <3>5. PICK r : r = [q EXCEPT !.step = "revoking", !.key = k]
      OBVIOUS
    <3>6. r \in ProcRow /\ r.text = EmptyStore /\ r.step = "revoking"
      BY <3>2, <3>4, <3>5 DEF ProcRow
    <3>7. MayBecome(c, r)
      BY <1>2, <3>6 DEF MayBecome
    <3> QED BY <1>6, <2>1, <2>4, <2>6, <3>1, <3>3, <3>5, <3>7
  <2> QED BY <2>5, <2>6
<1>19. CASE RemoveProfile(c)
  <2>1. proc[c].step = "remove" /\ UNCHANGED <<agent, keys, file, call, rotation, out, made>>
    BY <1>19 DEF RemoveProfile
  <2>2. PICK t : t = Removed(ReadStore, proc[c].at)
    OBVIOUS
  <2>3. proc[c].at \in Profiles
    BY <1>0, <1>1, <2>1 DEF TextsWhole
  <2>4. t \in Store /\ Whole(t)
    BY <1>0, <2>2, <2>3, StoresWhole
  <2>5. \/ proc' = [proc EXCEPT ![c] = Ended]
        \/ proc' = [proc EXCEPT ![c] = [proc[c] EXCEPT !.step = "drop"]]
        \/ proc' = [proc EXCEPT ![c] = [proc[c] EXCEPT !.step = "empty", !.text = t]]
    BY <1>1, <1>19, <2>2 DEF RemoveProfile
  <2>6. PICK r : /\ proc' = [proc EXCEPT ![c] = r]
                 /\ \/ r = Ended
                    \/ r = [proc[c] EXCEPT !.step = "drop"]
                    \/ r = [proc[c] EXCEPT !.step = "empty", !.text = t]
    BY <2>5
  <2>7. CASE r = Ended
    BY <1>1, <1>5, <2>1, <2>6, <2>7, ProcKeepsIInv
  <2>8. CASE r = [proc[c] EXCEPT !.step = "drop"]
    <3>1. r \in ProcRow /\ r.step = "drop" /\ r.text = proc[c].text
      BY <1>1, <2>8 DEF ProcRow
    <3>2. MayBecome(c, r)
      BY <1>1, <3>1 DEF MayBecome
    <3> QED BY <1>1, <2>1, <2>6, <3>2, ProcKeepsIInv
  <2>9. CASE r = [proc[c] EXCEPT !.step = "empty", !.text = t]
    <3>1. r \in ProcRow /\ r.step = "empty" /\ r.text = t
      BY <1>1, <2>4, <2>9 DEF ProcRow
    <3>2. MayBecome(c, r)
      BY <2>4, <3>1 DEF MayBecome
    <3> QED BY <1>1, <2>1, <2>6, <3>2, ProcKeepsIInv
  <2> QED BY <2>6, <2>7, <2>8, <2>9
<1>20. CASE RevokeKey(c)
  <2>1. PICK mine : /\ mine = {a \in Agents : agent[a].key = proc[c].key /\ ~agent[a].revoked}
                    /\ agent' = [a \in Agents |-> IF a \in mine
                                     THEN [agent[a] EXCEPT !.revoked = TRUE] ELSE agent[a]]
                    /\ out' = out \cup mine
    BY <1>20 DEF RevokeKey
  <2>2. proc' = [proc EXCEPT ![c] = Ended] /\ UNCHANGED <<keys, file, call, rotation, made>>
    BY <1>20 DEF RevokeKey
  <2>3. agent \in Seq(AgentRow) /\ Len(agent) \in Nat
    BY <1>0 DEF KeysTypeOK
  <2>4. \A a \in Agents : agent'[a] \in AgentRow
    <3> SUFFICES ASSUME NEW a \in Agents PROVE agent'[a] \in AgentRow
      OBVIOUS
    <3>1. agent[a] \in AgentRow
      BY <2>3 DEF Agents
    <3>2. CASE a \in mine
      BY <2>1, <3>1, <3>2 DEF AgentRow
    <3>3. CASE a \notin mine
      BY <2>1, <3>1, <3>3
    <3> QED BY <3>2, <3>3
  <2>5. agent' \in Seq(AgentRow) /\ Len(agent') = Len(agent)
    BY <2>1, <2>3, <2>4 DEF Agents
  <2>6. \A a \in Agents : a \in out' => agent'[a].revoked
    <3> SUFFICES ASSUME NEW a \in Agents, a \in out' PROVE agent'[a].revoked
      OBVIOUS
    <3>1. agent[a] \in AgentRow
      BY <2>3 DEF Agents
    <3>2. CASE a \in mine
      BY <2>1, <3>1, <3>2 DEF AgentRow
    <3>3. CASE a \notin mine
      BY <1>0, <2>1, <3>3 DEF RevokedStayOut
    <3> QED BY <3>2, <3>3
  <2>7. out' \subseteq Agents
    BY <1>0, <2>1 DEF KeysTypeOK
  <2>8. keys \in 0 .. MaxKey /\ keys' = keys /\ keys <= keys'
    BY <1>0, <2>2 DEF KeysTypeOK
  <2>9. rotation' \in [Owners -> [step : {"new", "read", "done"}, of : 0 .. Len(agent)]]
        /\ \A o \in Owners : rotation'[o].step = "read" => rotation'[o].of \in Agents
    BY <1>0, <2>2 DEF KeysTypeOK, RotationsAim
  <2> QED BY <1>1, <2>2, <2>5, <2>6, <2>7, <2>8, <2>9, RelayKeepsIInv
<1> QED BY <1>9, <1>10, <1>11, <1>14, <1>15, <1>16, <1>17, <1>18, <1>19, <1>20 DEF Command

(* What humans do to an agent on the relay.                                *)
LEMMA OwnerKeeps ==
  ASSUME KeysIInv, OwnerRevokes \/ \E o \in Owners : BeginRotate(o) \/ FinishRotate(o)
  PROVE  KeysIInv'
<1> USE KeysAssumption
<1>0. KeysTypeOK /\ RotationsAim /\ RevokedStayOut
  BY DEF KeysIInv
<1>1. /\ agent \in Seq(AgentRow) /\ Len(agent) \in Nat /\ out \subseteq Agents
      /\ \A a \in Agents : agent[a] \in AgentRow
      /\ keys \in 0 .. MaxKey /\ keys <= keys
      /\ rotation \in [Owners -> [step : {"new", "read", "done"}, of : 0 .. Len(agent)]]
  BY <1>0 DEF KeysTypeOK, Agents
<1>2. ASSUME NEW a \in Agents, NEW r \in AgentRow, r.revoked = agent[a].revoked \/ r.revoked
      PROVE  /\ [agent EXCEPT ![a] = r] \in Seq(AgentRow)
             /\ Len([agent EXCEPT ![a] = r]) = Len(agent)
             /\ \A d \in Agents : agent[d].revoked => [agent EXCEPT ![a] = r][d].revoked
             /\ [agent EXCEPT ![a] = r][a] = r
  BY <1>1, <1>2 DEF Agents
<1>3. CASE OwnerRevokes
  <2>1. PICK a \in Agents : /\ agent' = [agent EXCEPT ![a].revoked = TRUE]
                            /\ out' = out \cup {a}
    BY <1>3 DEF OwnerRevokes
  <2>2. PICK r : r = [agent[a] EXCEPT !.revoked = TRUE]
    OBVIOUS
  <2>3. r \in AgentRow /\ r.revoked
    BY <1>1, <2>2 DEF AgentRow
  <2>4. agent' = [agent EXCEPT ![a] = r]
    BY <2>1, <2>2
  <2>5. UNCHANGED <<keys, file, proc, call, rotation, made>>
    BY <1>3 DEF OwnerRevokes
  <2>6. agent' \in Seq(AgentRow) /\ Len(agent') = Len(agent)
        /\ (\A d \in Agents : agent[d].revoked => agent'[d].revoked) /\ agent'[a] = r
    BY <1>2, <2>3, <2>4
  <2>7. out' \subseteq Agents /\ \A d \in out' : agent'[d].revoked
    BY <1>0, <1>1, <2>1, <2>3, <2>6 DEF RevokedStayOut
  <2> QED BY <1>0, <1>1, <2>5, <2>6, <2>7, RelayKeepsIInv DEF RotationsAim
<1>4. ASSUME NEW o \in Owners, BeginRotate(o) PROVE KeysIInv'
  <2>1. PICK a \in Agents : rotation' = [rotation EXCEPT ![o] = [step |-> "read", of |-> a]]
    BY <1>4 DEF BeginRotate
  <2>2. UNCHANGED <<agent, keys, file, proc, call, out, made>>
    BY <1>4 DEF BeginRotate
  <2>3. a \in 0 .. Len(agent)
    BY <1>1 DEF Agents
  <2>4. /\ rotation' \in [Owners -> [step : {"new", "read", "done"}, of : 0 .. Len(agent)]]
        /\ \A u \in Owners : rotation'[u].step = "read" => rotation'[u].of \in Agents
    BY <1>0, <1>1, <2>1, <2>3 DEF RotationsAim
  <2> QED BY <1>0, <1>1, <2>2, <2>4, RelayKeepsIInv DEF RevokedStayOut
<1>5. ASSUME NEW o \in Owners, FinishRotate(o) PROVE KeysIInv'
  <2>1. /\ rotation[o].step = "read" /\ keys < MaxKey /\ keys' = keys + 1
        /\ agent' = [agent EXCEPT ![rotation[o].of].key = keys + 1]
        /\ rotation' = [rotation EXCEPT ![o].step = "done"]
        /\ UNCHANGED <<file, proc, call, out, made>>
    BY <1>5 DEF FinishRotate
  <2>2. PICK a \in Agents : a = rotation[o].of
    BY <1>0, <2>1 DEF RotationsAim
  <2>3. PICK k : k = keys + 1
    OBVIOUS
  <2>4. k \in 1 .. MaxKey /\ keys' \in 0 .. MaxKey /\ keys <= keys'
    BY <1>1, <2>1, <2>3
  <2>5. PICK r : r = [agent[a] EXCEPT !.key = k]
    OBVIOUS
  <2>6. r \in AgentRow /\ r.revoked = agent[a].revoked
    BY <1>1, <2>4, <2>5 DEF AgentRow
  <2>7. agent' = [agent EXCEPT ![a] = r]
    BY <2>1, <2>2, <2>3, <2>5
  <2>8. agent' \in Seq(AgentRow) /\ Len(agent') = Len(agent)
        /\ \A d \in Agents : agent[d].revoked => agent'[d].revoked
    BY <1>2, <2>6, <2>7
  <2>9. PICK q : q = [rotation[o] EXCEPT !.step = "done"]
    OBVIOUS
  <2>10. q \in [step : {"new", "read", "done"}, of : 0 .. Len(agent)] /\ q.step = "done"
    BY <1>1, <2>9
  <2>11. rotation' = [rotation EXCEPT ![o] = q]
    BY <2>1, <2>9
  <2>12. /\ rotation' \in [Owners -> [step : {"new", "read", "done"}, of : 0 .. Len(agent)]]
         /\ \A u \in Owners : rotation'[u].step = "read" => rotation'[u].of \in Agents
    BY <1>0, <1>1, <2>10, <2>11 DEF RotationsAim
  <2>13. out' \subseteq Agents /\ \A d \in out' : agent'[d].revoked
    BY <1>0, <1>1, <2>1, <2>8 DEF RevokedStayOut
  <2> QED BY <2>1, <2>4, <2>8, <2>12, <2>13, RelayKeepsIInv
<1> QED BY <1>3, <1>4, <1>5

-----------------------------------------------------------------------------
(* A call asks for a client: a server that has none registers an agent, if *)
(* it is saved nowhere, or takes the key of the current profile.           *)
LEMMA CallKeeps ==
  ASSUME KeysIInv, NEW x \in Calls,
         AnswerCall(x) \/ \E s \in Servers : CallTool(x, s)
  PROVE  KeysIInv'
<1> USE KeysAssumption
<1>0. KeysTypeOK /\ TextsWhole /\ MadeOnce /\ RotationsAim /\ RevokedStayOut
  BY DEF KeysIInv
<1>1. /\ proc \in [Procs -> ProcRow]
      /\ file \in [state : {"absent", "emptied", "full"}, store : Store]
      /\ Whole(file.store)
      /\ call \in [Calls -> {"new", "answered", "refused", "lost"} \cup Servers]
  BY <1>0 DEF KeysTypeOK, TextsWhole
<1>2. EmptyStore \in Store /\ Whole(EmptyStore) /\ ReadStore \in Store
  BY <1>0, StoresWhole
<1>3. ASSUME UNCHANGED <<agent, keys, file, proc, rotation, out, made>>,
             call' \in [Calls -> {"new", "answered", "refused", "lost"} \cup Servers]
      PROVE  KeysIInv'
  BY <1>0, <1>3 DEF KeysIInv, KeysTypeOK, Agents, TextsWhole, MadeOnce, RotationsAim, RevokedStayOut
<1>4. CASE AnswerCall(x)
  BY <1>1, <1>3, <1>4 DEF AnswerCall
<1>5. ASSUME NEW s \in Servers, CallTool(x, s) PROVE KeysIInv'
  <2>1. call' \in [Calls -> {"new", "answered", "refused", "lost"} \cup Servers]
    BY <1>1, <1>5 DEF CallTool
  <2>2. UNCHANGED <<agent, keys, file, rotation, out, made>>
    BY <1>5 DEF CallTool
  <2>3. s \in Procs
    BY DEF Procs
  <2>4. CASE ~Unresolved(s)
    BY <1>3, <1>5, <2>1, <2>2, <2>4 DEF CallTool
  <2>5. CASE Unresolved(s)
    <3>1. PICK r : r = ResolveClient(s)
      OBVIOUS
    <3>2. proc' = [proc EXCEPT ![s] = r] /\ proc[s].step = "new"
      BY <1>5, <2>5, <3>1 DEF CallTool, Unresolved
    <3>3. PICK k : k = IF ReadStore.current = NoProfile THEN NoKey
                       ELSE ReadStore.saved[ReadStore.current]
      OBVIOUS
    <3>4. k \in 0 .. MaxKey
      BY <1>2, <3>3 DEF Store
    <3>5. r = IF k = NoKey
              THEN [Idle EXCEPT !.op = "register", !.step = "asking", !.at = Default]
              ELSE [Idle EXCEPT !.step = "ready", !.key = k]
      BY <3>1, <3>3 DEF ResolveClient
    <3>6. CASE k = NoKey
      <4>1. PICK i : i = Idle
        OBVIOUS
      <4>2. i \in ProcRow /\ i.text = EmptyStore
        BY <3>4, <4>1, RestRows
      <4>3. r = [i EXCEPT !.op = "register", !.step = "asking", !.at = Default]
        BY <3>5, <3>6, <4>1
      <4>4. r \in ProcRow /\ r.text = EmptyStore /\ r.step = "asking" /\ r.at = Default
        BY <4>2, <4>3 DEF ProcRow
      <4>5. MayBecome(s, r)
        BY <1>2, <3>2, <4>4 DEF MayBecome
      <4> QED BY <1>1, <2>1, <2>2, <2>3, <3>2, <4>5, ProcKeepsIInv
    <3>7. CASE k # NoKey
      <4>1. r \in ProcRow /\ r.text = EmptyStore /\ r.step = "ready"
        BY <3>4, <3>5, <3>7, RestRows
      <4>2. MayBecome(s, r)
        BY <1>2, <4>1 DEF MayBecome
      <4> QED BY <1>1, <2>1, <2>2, <2>3, <3>2, <4>2, ProcKeepsIInv
    <3> QED BY <3>6, <3>7
  <2> QED BY <2>4, <2>5
<1> QED BY <1>4, <1>5

-----------------------------------------------------------------------------
(* Whatever the processes of a machine overwrite of each other, the file's *)
(* current profile is saved in it; a server registers one agent at most;   *)
(* and a revocation that was answered is final.                            *)
THEOREM KeysSound == KeysSpec => []KeysInv
<1>1. KeysInit => KeysIInv
  BY KeysInitIInv
<1>2. KeysIInv /\ [KeysNext]_keyVars => KeysIInv'
  <2> SUFFICES ASSUME KeysIInv, [KeysNext]_keyVars PROVE KeysIInv'
    OBVIOUS
  <2>1. CASE UNCHANGED keyVars
    BY <2>1 DEF keyVars, KeysIInv, KeysTypeOK, Agents, TextsWhole, MadeOnce, RotationsAim,
                RevokedStayOut
  <2>2. CASE KeysNext
    BY <2>2, StoreStepKeeps, CommandKeeps, OwnerKeeps, CallKeeps DEF KeysNext
  <2> QED BY <2>1, <2>2
<1>3. KeysIInv => KeysInv
  BY DEF KeysIInv, KeysInv, TextsWhole, Whole, CurrentIsSaved, MadeOnce, OneAgentPerServer
<1> QED BY <1>1, <1>2, <1>3, KeysAssumption, PTL DEF KeysSpec

-----------------------------------------------------------------------------
(***************************************************************************)
(* Push notifications. A window is open exactly where one send was paid    *)
(* for, and a pane that waits for the flush is not also being sent.        *)
(***************************************************************************)

(* The page, the browser and its push service.                             *)
BrowserOK ==
    /\ session \in Persons
    /\ endpoints \in 0 .. MaxEndpoint
    /\ device \in 0 .. endpoints
    /\ gone \subseteq 1 .. endpoints
    /\ switch \in SwitchRow
    /\ click \in [Clicks -> ClickRow]
    /\ \A c \in Clicks : click[c].step \in {"unsubscribe", "erase", "save"} =>
           click[c].at \in 1 .. endpoints

(* The relay's rows.                                                       *)
RowsOK ==
    /\ subscription \in [Endpoints -> Persons \cup {NoPerson}]
    /\ off \subseteq Endpoints
    /\ OffIsQuiet

(* The coalescer and the deliveries.                                       *)
RelayTypes ==
    /\ created \in 0 .. MaxPush
    /\ throttle \in [Persons -> BOOLEAN]
    /\ buffered \in [Persons -> SUBSET Announced]
    /\ named \in [Announced -> Nat]
    /\ sent \in [Persons -> Nat]
    /\ unsaid \subseteq Announced

DeliveriesOK == push \subseteq PushRow

(* A window that is open has seen one send; a pane waits for one window, a *)
(* pane was lost when it waited, and one is named that does neither.       *)
OneSendPerWindow == \A h \in Persons : sent[h] = IF throttle[h] THEN 1 ELSE 0

Waits(p) == \E h \in Persons : p \in buffered[h]

WaitsOnce ==
    /\ \A h \in Persons : buffered[h] # {} => throttle[h]
    /\ \A h, g \in Persons, p \in Announced : p \in buffered[h] /\ p \in buffered[g] => h = g
    /\ \A p \in Announced : Waits(p) \/ p \in unsaid => p <= created
    /\ \A p \in Announced : ~(Waits(p) /\ p \in unsaid)

NamedOnce ==
    \A p \in Announced :
        named[p] = IF p <= created /\ ~Waits(p) /\ p \notin unsaid THEN 1 ELSE 0

RelayOK == RelayTypes /\ OneSendPerWindow /\ WaitsOnce /\ NamedOnce

PushIInv == BrowserOK /\ RowsOK /\ DeliveriesOK /\ RelayOK

-----------------------------------------------------------------------------
LEMMA PushInitIInv == PushInit => PushIInv
<1> SUFFICES ASSUME PushInit PROVE PushIInv
  OBVIOUS
<1> USE PushAssumption DEF PushInit
<1>1. BrowserOK
  <2>1. switch \in SwitchRow
    BY DEF Loading, SwitchRow
  <2>2. click \in [Clicks -> ClickRow] /\ \A c \in Clicks : click[c].step = "idle"
    BY DEF NoClick, ClickRow
  <2> QED BY <2>1, <2>2 DEF BrowserOK
<1>2. RowsOK /\ DeliveriesOK
  BY DEF RowsOK, OffIsQuiet, DeliveriesOK, Endpoints
<1>3. RelayTypes
  BY DEF RelayTypes, Announced
<1>4. OneSendPerWindow /\ WaitsOnce /\ NamedOnce
  BY DEF OneSendPerWindow, WaitsOnce, NamedOnce, Waits, Announced
<1> QED BY <1>1, <1>2, <1>3, <1>4 DEF PushIInv, RelayOK

(* A click's step and the page: the browser's part of each handler.        *)
LEMMA ClickKeepsBrowser ==
  ASSUME BrowserOK, NEW c \in Clicks, ClickStep(c)
  PROVE  BrowserOK'
<1> USE PushAssumption
<1>1. /\ session \in Persons /\ endpoints \in 0 .. MaxEndpoint /\ endpoints \in Nat
      /\ device \in 0 .. endpoints /\ gone \subseteq 1 .. endpoints
      /\ switch \in SwitchRow
      /\ click \in [Clicks -> ClickRow] /\ click[c] \in ClickRow
      /\ \A d \in Clicks : click[d].step \in {"unsubscribe", "erase", "save"} =>
           click[d].at \in 1 .. endpoints
  BY DEF BrowserOK
<1>2. session' = session
  BY DEF ClickStep, Click, FindSubscription, Unsubscribe, Erase, Subscribe, Save, GiveUp
<1>3. \A b, e \in BOOLEAN : [switch EXCEPT !.shown = b, !.enabled = e] \in SwitchRow
                            /\ [switch EXCEPT !.enabled = e] \in SwitchRow
  BY <1>1 DEF SwitchRow
<1>4. switch.shown \in BOOLEAN
  BY <1>1 DEF SwitchRow
<1>5. \A b \in BOOLEAN : Rendered(c, b) =>
          /\ switch' \in SwitchRow
          /\ click' = [click EXCEPT ![c] = NoClick]
  BY <1>3 DEF Rendered
<1>6. NoClick \in ClickRow /\ NoClick.step = "idle"
  BY DEF NoClick, ClickRow
<1>7. ASSUME NEW r \in ClickRow, click' = [click EXCEPT ![c] = r],
             endpoints' \in 0 .. MaxEndpoint, endpoints <= endpoints',
             device' \in 0 .. endpoints', gone' \subseteq 1 .. endpoints',
             switch' \in SwitchRow,
             r.step \in {"unsubscribe", "erase", "save"} => r.at \in 1 .. endpoints'
      PROVE  BrowserOK'
  <2>1. click' \in [Clicks -> ClickRow]
    BY <1>1, <1>7
  <2>2. ASSUME NEW d \in Clicks, click'[d].step \in {"unsubscribe", "erase", "save"}
        PROVE  click'[d].at \in 1 .. endpoints'
    <3>1. CASE d = c
      BY <1>1, <1>7, <2>2, <3>1
    <3>2. CASE d # c
      <4>1. click[d].at \in 1 .. endpoints
        BY <1>1, <1>7, <2>2, <3>2
      <4>2. click'[d] = click[d]
        BY <1>1, <1>7, <3>2
      <4> QED BY <1>1, <1>7, <4>1, <4>2
    <3> QED BY <3>1, <3>2
  <2> QED BY <1>1, <1>2, <1>7, <2>1, <2>2 DEF BrowserOK
<1>s. ASSUME NEW r \in ClickRow, click' = [click EXCEPT ![c] = r],
             UNCHANGED <<device, endpoints, gone>>, switch' \in SwitchRow,
             r.step \in {"unsubscribe", "erase", "save"} => r.at \in 1 .. endpoints
      PROVE  BrowserOK'
  <2>1. endpoints' \in 0 .. MaxEndpoint /\ endpoints <= endpoints'
    BY <1>1, <1>s
  <2>2. device' \in 0 .. endpoints' /\ gone' \subseteq 1 .. endpoints'
    BY <1>1, <1>s
  <2>3. r.step \in {"unsubscribe", "erase", "save"} => r.at \in 1 .. endpoints'
    BY <1>s
  <2>4. click' = [click EXCEPT ![c] = r] /\ switch' \in SwitchRow
    BY <1>s
  <2>5. r \in ClickRow
    OBVIOUS
  <2> QED BY <1>7, <2>1, <2>2, <2>3, <2>4, <2>5
<1>8. CASE Click(c)
  <2>1. PICK r : r = [click[c] EXCEPT !.step = IF switch.shown THEN "find" ELSE "subscribe"]
    OBVIOUS
  <2>2. r \in ClickRow /\ r.step \in {"find", "subscribe"}
    BY <1>1, <2>1 DEF ClickRow
  <2>3. click' = [click EXCEPT ![c] = r] /\ switch' = [switch EXCEPT !.enabled = FALSE]
        /\ UNCHANGED <<device, endpoints, gone>>
    BY <1>8, <2>1 DEF Click
  <2> QED BY <1>1, <1>3, <1>s, <2>2, <2>3
<1>9. CASE FindSubscription(c)
  <2>1. UNCHANGED <<device, endpoints, gone>>
    BY <1>9 DEF FindSubscription
  <2>2. CASE device = 0
    <3>1. Rendered(c, FALSE)
      BY <1>9, <2>2 DEF FindSubscription
    <3> QED BY <1>4, <1>5, <1>6, <1>s, <2>1, <3>1
  <2>3. CASE device # 0
    <3>1. PICK r : r = [step |-> "unsubscribe", at |-> device]
      OBVIOUS
    <3>2. r \in ClickRow /\ r.at \in 1 .. endpoints
      BY <1>1, <2>3, <3>1 DEF ClickRow
    <3>3. click' = [click EXCEPT ![c] = r] /\ switch' = switch
      BY <1>9, <2>3, <3>1 DEF FindSubscription
    <3> QED BY <1>1, <1>s, <2>1, <3>2, <3>3
  <2> QED BY <2>2, <2>3
<1>10. CASE Unsubscribe(c)
  <2>1. click[c].step = "unsubscribe" /\ click[c].at \in 1 .. endpoints
    BY <1>1, <1>10 DEF Unsubscribe
  <2>2. PICK r : r = [click[c] EXCEPT !.step = "erase"]
    OBVIOUS
  <2>3. r \in ClickRow /\ r.at \in 1 .. endpoints
    BY <1>1, <2>1, <2>2 DEF ClickRow
  <2>4. click' = [click EXCEPT ![c] = r] /\ endpoints' = endpoints /\ switch' = switch
    BY <1>10, <2>2 DEF Unsubscribe
  <2>5. device' \in 0 .. endpoints /\ gone' \subseteq 1 .. endpoints
    BY <1>1, <1>10, <2>1 DEF Unsubscribe
  <2>6. endpoints' \in 0 .. MaxEndpoint /\ endpoints <= endpoints' /\ switch' \in SwitchRow
        /\ device' \in 0 .. endpoints' /\ gone' \subseteq 1 .. endpoints' /\ r.at \in 1 .. endpoints'
    BY <1>1, <2>3, <2>4, <2>5
  <2>7. click' = [click EXCEPT ![c] = r] /\ r \in ClickRow
    BY <2>3, <2>4
  <2> QED BY <1>7, <2>6, <2>7
<1>11. CASE Erase(c) \/ Save(c) \/ GiveUp(c)
  <2>1. \E b \in BOOLEAN : Rendered(c, b)
    BY <1>4, <1>11 DEF Erase, Save, GiveUp
  <2>2. UNCHANGED <<device, endpoints, gone>>
    BY <1>11 DEF Erase, Save, GiveUp
  <2>3. switch' \in SwitchRow /\ click' = [click EXCEPT ![c] = NoClick]
    BY <1>5, <2>1
  <2> QED BY <1>6, <1>s, <2>2, <2>3
<1>12. CASE Subscribe(c)
  <2>1. /\ endpoints' \in 0 .. MaxEndpoint /\ endpoints <= endpoints'
        /\ device' \in 1 .. endpoints'
    BY <1>1, <1>12 DEF Subscribe
  <2>2. PICK r : r = [step |-> "save", at |-> device']
    OBVIOUS
  <2>3. r \in ClickRow /\ r.at \in 1 .. endpoints'
    BY <2>1, <2>2 DEF ClickRow
  <2>4. click' = [click EXCEPT ![c] = r] /\ switch' = switch /\ gone' = gone
    BY <1>12, <2>2 DEF Subscribe
  <2>5. gone' \subseteq 1 .. endpoints'
    BY <1>1, <2>1, <2>4
  <2>6. switch' \in SwitchRow /\ device' \in 0 .. endpoints'
    BY <1>1, <2>1, <2>4
  <2>7. click' = [click EXCEPT ![c] = r] /\ r \in ClickRow /\ r.at \in 1 .. endpoints'
    BY <2>3, <2>4
  <2> QED BY <1>7, <2>1, <2>5, <2>6, <2>7
<1> QED BY <1>8, <1>9, <1>10, <1>11, <1>12 DEF ClickStep

(* And the relay's rows: a row is taken away, or written by its person.    *)
LEMMA ClickKeepsRows ==
  ASSUME BrowserOK, RowsOK, NEW c \in Clicks, ClickStep(c)
  PROVE  /\ RowsOK'
         /\ \A e \in Endpoints : subscription[e] # NoPerson =>
                subscription'[e] \in {subscription[e], NoPerson}
<1> USE PushAssumption
<1>1. /\ subscription \in [Endpoints -> Persons \cup {NoPerson}] /\ off \subseteq Endpoints
      /\ \A e \in off : subscription[e] = NoPerson
      /\ session \in Persons
  BY DEF RowsOK, OffIsQuiet, BrowserOK
<1>2. CASE UNCHANGED <<subscription, off>>
  BY <1>1, <1>2 DEF RowsOK, OffIsQuiet
<1>3. click[c].step \in {"erase", "save"} => click[c].at \in Endpoints
  BY DEF BrowserOK, Endpoints
<1>4. CASE Erase(c)
  <2>1. PICK e \in Endpoints : e = click[c].at
    BY <1>3, <1>4 DEF Erase
  <2>2. CASE subscription' = [subscription EXCEPT ![e] = NoPerson] /\ off' = off \cup {e}
    BY <1>1, <2>2 DEF RowsOK, OffIsQuiet
  <2> QED BY <1>2, <1>4, <2>1, <2>2 DEF Erase
<1>5. CASE Save(c)
  <2>1. PICK e \in Endpoints : e = click[c].at
    BY <1>3, <1>5 DEF Save
  <2>2. CASE subscription[e] \in {NoPerson, session}
    <3>1. subscription' = [subscription EXCEPT ![e] = session] /\ off' = off \ {e}
      BY <1>5, <2>1, <2>2 DEF Save, SaveRow
    <3> QED BY <1>1, <2>2, <3>1 DEF RowsOK, OffIsQuiet
  <2>3. CASE subscription[e] \notin {NoPerson, session}
    BY <1>2, <1>5, <2>1, <2>3 DEF Save, SaveRow
  <2> QED BY <2>2, <2>3
<1>6. CASE Click(c) \/ FindSubscription(c) \/ Unsubscribe(c) \/ Subscribe(c) \/ GiveUp(c)
  BY <1>2, <1>6 DEF Click, FindSubscription, Unsubscribe, Subscribe, GiveUp
<1> QED BY <1>4, <1>5, <1>6 DEF ClickStep

(* The page without a click.                                               *)
LEMMA PageKeepsBrowser ==
  ASSUME BrowserOK,
         InitAsks \/ InitShows \/ InitFails \/ ReloadPage \/ \E h \in Persons : LogInAs(h)
  PROVE  BrowserOK'
<1> USE PushAssumption
<1>1. switch \in SwitchRow /\ switch.saw \in BOOLEAN
  BY DEF BrowserOK, SwitchRow
<1>2. CASE InitAsks
  <2>1. switch' \in SwitchRow
    BY <1>1, <1>2 DEF InitAsks, SwitchRow
  <2> QED BY <1>2, <2>1 DEF InitAsks, BrowserOK
<1>3. CASE InitShows
  <2>1. switch' \in SwitchRow
    BY <1>1, <1>3 DEF InitShows, SwitchRow
  <2> QED BY <1>3, <2>1 DEF InitShows, BrowserOK
<1>4. CASE InitFails
  <2>1. switch' \in SwitchRow
    BY <1>1, <1>4 DEF InitFails, SwitchRow
  <2> QED BY <1>4, <2>1 DEF InitFails, BrowserOK
<1>5. CASE ReloadPage
  <2>1. switch' \in SwitchRow
    BY <1>5 DEF ReloadPage, Loading, SwitchRow
  <2>2. click' \in [Clicks -> ClickRow] /\ \A c \in Clicks : click'[c].step = "idle"
    BY <1>5 DEF ReloadPage, NoClick, ClickRow
  <2> QED BY <1>5, <2>1, <2>2 DEF ReloadPage, BrowserOK
<1>6. ASSUME NEW h \in Persons, LogInAs(h) PROVE BrowserOK'
  BY <1>6 DEF LogInAs, BrowserOK
<1> QED BY <1>2, <1>3, <1>4, <1>5, <1>6

(* A delivery reads the rows and goes through them.                        *)
LEMMA SendKeeps ==
  ASSUME RowsOK, DeliveriesOK, NEW d \in push,
         ReadSubscriptions(d) \/ \E e \in Endpoints : SendTo(d, e)
  PROVE  /\ RowsOK' /\ DeliveriesOK'
         /\ \A e \in Endpoints : subscription[e] # NoPerson =>
                subscription'[e] \in {subscription[e], NoPerson}
<1>1. d \in PushRow /\ push \subseteq PushRow
  BY DEF DeliveriesOK
<1>2. \A t \in SUBSET Endpoints : [d EXCEPT !.read = TRUE, !.left = t] \in PushRow
  BY <1>1 DEF PushRow
<1>3. \A e : [d EXCEPT !.left = @ \ {e}] \in PushRow
  BY <1>1 DEF PushRow
<1>4. /\ subscription \in [Endpoints -> Persons \cup {NoPerson}] /\ off \subseteq Endpoints
      /\ \A e \in off : subscription[e] = NoPerson
  BY DEF RowsOK, OffIsQuiet
<1>5. CASE ReadSubscriptions(d)
  <2>1. PICK mine : mine = {e \in Endpoints : subscription[e] = d.to}
    OBVIOUS
  <2>2. push' = (push \ {d}) \cup
                    (IF mine = {} THEN {} ELSE {[d EXCEPT !.read = TRUE, !.left = mine]})
    BY <1>5, <2>1 DEF ReadSubscriptions
  <2>3. mine \in SUBSET Endpoints
    BY <2>1
  <2>4. DeliveriesOK'
    BY <1>1, <1>2, <2>2, <2>3 DEF DeliveriesOK
  <2>5. UNCHANGED <<subscription, off>>
    BY <1>5 DEF ReadSubscriptions
  <2> QED BY <1>4, <2>4, <2>5 DEF RowsOK, OffIsQuiet
<1>6. ASSUME NEW e \in Endpoints, SendTo(d, e)
      PROVE  /\ RowsOK' /\ DeliveriesOK'
             /\ \A f \in Endpoints : subscription[f] # NoPerson =>
                subscription'[f] \in {subscription[f], NoPerson}
  <2>1. push' = (push \ {d}) \cup (IF d.left = {e} THEN {} ELSE {[d EXCEPT !.left = @ \ {e}]})
    BY <1>6 DEF SendTo
  <2>2. DeliveriesOK'
    BY <1>1, <1>3, <2>1 DEF DeliveriesOK
  <2>3. off' = off /\ (subscription' = [subscription EXCEPT ![e] = NoPerson]
                       \/ subscription' = subscription)
    BY <1>6 DEF SendTo
  <2> QED BY <1>4, <2>2, <2>3 DEF RowsOK, OffIsQuiet
<1> QED BY <1>5, <1>6

-----------------------------------------------------------------------------
(* The coalescer: a pane is named at once, or waits for the window.        *)
LEMMA NotifyKeepsRelay ==
  ASSUME RelayOK, DeliveriesOK, NEW h \in Persons, NotifyHuman(h)
  PROVE  RelayOK' /\ DeliveriesOK'
<1> USE PushAssumption
<1>0. RelayTypes /\ OneSendPerWindow /\ WaitsOnce /\ NamedOnce
  BY DEF RelayOK
<1>1. /\ created \in 0 .. MaxPush /\ created \in Nat
      /\ throttle \in [Persons -> BOOLEAN] /\ buffered \in [Persons -> SUBSET Announced]
      /\ named \in [Announced -> Nat] /\ sent \in [Persons -> Nat] /\ unsaid \subseteq Announced
  BY <1>0 DEF RelayTypes
<1>2. PICK n : n = created + 1
  OBVIOUS
<1>3. /\ created' = n /\ n \in 0 .. MaxPush /\ n \in Announced
      /\ ~(n <= created)
      /\ \A p \in Announced : p <= n <=> p <= created \/ p = n
  BY <1>1, <1>2 DEF NotifyHuman, Announced
<1>4. ~Waits(n) /\ n \notin unsaid
  BY <1>0, <1>3 DEF WaitsOnce
<1>5. named[n] = 0
  BY <1>0, <1>3 DEF NamedOnce
<1>6. UNCHANGED unsaid
  BY DEF NotifyHuman
<1>7. CASE throttle[h]
  <2>1. buffered' = [buffered EXCEPT ![h] = @ \cup {n}] /\ UNCHANGED <<throttle, push, named, sent>>
    BY <1>3, <1>7 DEF NotifyHuman
  <2>2. buffered' \in [Persons -> SUBSET Announced]
    BY <1>1, <1>3, <2>1
  <2>3. \A p \in Announced : Waits(p)' <=> Waits(p) \/ p = n
    <3> SUFFICES ASSUME NEW p \in Announced PROVE Waits(p)' <=> Waits(p) \/ p = n
      OBVIOUS
    <3>1. \A g \in Persons : p \in buffered'[g] <=> p \in buffered[g] \/ (g = h /\ p = n)
      BY <1>1, <2>1
    <3> QED BY <3>1 DEF Waits
  <2>4. RelayTypes'
    BY <1>1, <1>3, <1>6, <2>1, <2>2 DEF RelayTypes
  <2>5. OneSendPerWindow'
    BY <1>0, <2>1 DEF OneSendPerWindow
  <2>6. WaitsOnce'
    <3>1. \A g \in Persons : buffered'[g] # {} => throttle'[g]
      BY <1>0, <1>1, <1>7, <2>1 DEF WaitsOnce
    <3>2. \A g, k \in Persons, p \in Announced : p \in buffered'[g] /\ p \in buffered'[k] => g = k
      <4> SUFFICES ASSUME NEW g \in Persons, NEW k \in Persons, NEW p \in Announced,
                          p \in buffered'[g], p \in buffered'[k]
                   PROVE  g = k
        OBVIOUS
      <4>1. CASE p = n
        <5>1. \A j \in Persons : n \notin buffered[j]
          BY <1>4 DEF Waits
        <5> QED BY <1>1, <2>1, <4>1, <5>1
      <4>2. CASE p # n
        BY <1>0, <1>1, <2>1, <4>2 DEF WaitsOnce
      <4> QED BY <4>1, <4>2
    <3>3. \A p \in Announced : /\ Waits(p)' \/ p \in unsaid' => p <= created'
                               /\ ~(Waits(p)' /\ p \in unsaid')
      BY <1>0, <1>3, <1>4, <1>6, <2>3 DEF WaitsOnce
    <3> QED BY <3>1, <3>2, <3>3 DEF WaitsOnce
  <2>7. NamedOnce'
    <3> SUFFICES ASSUME NEW p \in Announced
                 PROVE  named'[p] = IF p <= created' /\ ~Waits(p)' /\ p \notin unsaid' THEN 1 ELSE 0
      BY DEF NamedOnce
    <3>1. named'[p] = named[p] /\ (Waits(p)' <=> Waits(p) \/ p = n)
      BY <2>1, <2>3
    <3>2. CASE p = n
      BY <1>5, <3>1, <3>2
    <3>3. CASE p # n
      BY <1>0, <1>3, <1>6, <3>1, <3>3 DEF NamedOnce
    <3> QED BY <3>2, <3>3
  <2> QED BY <2>1, <2>4, <2>5, <2>6, <2>7 DEF RelayOK, DeliveriesOK
<1>8. CASE ~throttle[h]
  <2>1. /\ throttle' = [throttle EXCEPT ![h] = TRUE] /\ UNCHANGED buffered
        /\ PushTo(h, {n}, sent[h] + 1)
    BY <1>3, <1>8 DEF NotifyHuman
  <2>2. sent[h] + 1 = 1
    BY <1>0, <1>8 DEF OneSendPerWindow
  <2>3. sent' = [sent EXCEPT ![h] = 1]
    BY <2>1, <2>2 DEF PushTo
  <2>4. named' = [p \in Announced |-> IF p \in {n} THEN named[p] + 1 ELSE named[p]]
    BY <2>1 DEF PushTo
  <2>5. named' \in [Announced -> Nat] /\ named'[n] = 1
        /\ \A p \in Announced : p # n => named'[p] = named[p]
    <3>1. \A p \in Announced : named[p] \in Nat /\ named[p] + 1 \in Nat
      BY <1>1
    <3>2. named' \in [Announced -> Nat]
      BY <2>4, <3>1
    <3>3. named[n] + 1 = 1
      BY <1>5
    <3> QED BY <1>3, <2>4, <3>2, <3>3
  <2>6. \A p \in Announced : Waits(p)' <=> Waits(p)
    BY <2>1 DEF Waits
  <2>7. RelayTypes'
    BY <1>1, <1>3, <1>6, <2>1, <2>3, <2>5 DEF RelayTypes
  <2>8. OneSendPerWindow'
    BY <1>0, <1>1, <2>1, <2>3 DEF OneSendPerWindow
  <2>9. WaitsOnce'
    <3>1. \A g \in Persons : buffered'[g] # {} => throttle'[g]
      BY <1>0, <1>1, <2>1 DEF WaitsOnce
    <3>2. \A p \in Announced : /\ Waits(p)' \/ p \in unsaid' => p <= created'
                               /\ ~(Waits(p)' /\ p \in unsaid')
      BY <1>0, <1>3, <1>6, <2>6 DEF WaitsOnce
    <3> QED BY <1>0, <2>1, <3>1, <3>2 DEF WaitsOnce
  <2>10. NamedOnce'
    <3> SUFFICES ASSUME NEW p \in Announced
                 PROVE  named'[p] = IF p <= created' /\ ~Waits(p)' /\ p \notin unsaid' THEN 1 ELSE 0
      BY DEF NamedOnce
    <3>2. CASE p = n
      BY <1>3, <1>4, <1>6, <2>5, <2>6, <3>2
    <3>3. CASE p # n
      BY <1>0, <1>3, <1>6, <2>5, <2>6, <3>3 DEF NamedOnce
    <3> QED BY <3>2, <3>3
  <2>11. DeliveriesOK'
    <3>1. [to |-> h, read |-> FALSE, left |-> {}] \in PushRow
      BY DEF PushRow
    <3> QED BY <2>1, <3>1 DEF PushTo, DeliveriesOK
  <2> QED BY <2>7, <2>8, <2>9, <2>10, <2>11 DEF RelayOK
<1> QED BY <1>7, <1>8

LEMMA FlushKeepsRelay ==
  ASSUME RelayOK, DeliveriesOK, NEW h \in Persons, Flush(h)
  PROVE  RelayOK' /\ DeliveriesOK'
<1> USE PushAssumption
<1>0. RelayTypes /\ OneSendPerWindow /\ WaitsOnce /\ NamedOnce
  BY DEF RelayOK
<1>1. /\ created \in 0 .. MaxPush /\ created \in Nat
      /\ throttle \in [Persons -> BOOLEAN] /\ buffered \in [Persons -> SUBSET Announced]
      /\ named \in [Announced -> Nat] /\ sent \in [Persons -> Nat] /\ unsaid \subseteq Announced
  BY <1>0 DEF RelayTypes
<1>2. throttle[h] /\ UNCHANGED <<created, unsaid>>
  BY DEF Flush
<1>3. CASE buffered[h] = {}
  <2>1. /\ throttle' = [throttle EXCEPT ![h] = FALSE] /\ sent' = [sent EXCEPT ![h] = 0]
        /\ UNCHANGED <<buffered, push, named>>
    BY <1>3 DEF Flush
  <2>2. RelayTypes' /\ OneSendPerWindow'
    BY <1>0, <1>1, <1>2, <2>1 DEF RelayTypes, OneSendPerWindow
  <2>3. \A p \in Announced : Waits(p)' <=> Waits(p)
    BY <2>1 DEF Waits
  <2>4. \A g \in Persons : buffered'[g] # {} => throttle'[g]
    BY <1>0, <1>1, <1>3, <2>1 DEF WaitsOnce
  <2>5. WaitsOnce' /\ NamedOnce'
    BY <1>0, <1>2, <2>1, <2>3, <2>4 DEF WaitsOnce, NamedOnce
  <2> QED BY <2>1, <2>2, <2>5 DEF RelayOK, DeliveriesOK
<1>4. CASE buffered[h] # {}
  <2>1. /\ buffered' = [buffered EXCEPT ![h] = {}] /\ UNCHANGED throttle
        /\ PushTo(h, buffered[h], 1)
    BY <1>4 DEF Flush
  <2>2. /\ sent' = [sent EXCEPT ![h] = 1]
        /\ named' = [p \in Announced |-> IF p \in buffered[h] THEN named[p] + 1 ELSE named[p]]
    BY <2>1 DEF PushTo
  <2>3. \A p \in Announced : named[p] \in Nat /\ named[p] + 1 \in Nat
    BY <1>1
  <2>4. RelayTypes'
    BY <1>1, <1>2, <2>1, <2>2, <2>3 DEF RelayTypes
  <2>5. OneSendPerWindow'
    BY <1>0, <1>1, <1>2, <2>1, <2>2 DEF OneSendPerWindow
  <2>6. \A p \in Announced : Waits(p)' <=> Waits(p) /\ p \notin buffered[h]
    <3> SUFFICES ASSUME NEW p \in Announced
                 PROVE  Waits(p)' <=> Waits(p) /\ p \notin buffered[h]
      OBVIOUS
    <3>1. \A g \in Persons : p \in buffered'[g] <=> p \in buffered[g] /\ g # h
      BY <1>1, <2>1
    <3>2. \A g \in Persons : p \in buffered[g] /\ p \in buffered[h] => g = h
      BY <1>0 DEF WaitsOnce
    <3> QED BY <3>1, <3>2 DEF Waits
  <2>7. WaitsOnce'
    <3>1. \A g \in Persons : buffered'[g] \subseteq buffered[g]
      BY <1>1, <2>1
    <3>2. \A g \in Persons : buffered'[g] # {} => throttle'[g]
      BY <1>0, <2>1, <3>1 DEF WaitsOnce
    <3>3. \A p \in Announced : /\ Waits(p)' \/ p \in unsaid' => p <= created'
                               /\ ~(Waits(p)' /\ p \in unsaid')
      BY <1>0, <1>2, <2>6 DEF WaitsOnce
    <3>4. \A g, k \in Persons, p \in Announced : p \in buffered'[g] /\ p \in buffered'[k] => g = k
      BY <1>0, <3>1 DEF WaitsOnce
    <3> QED BY <3>2, <3>3, <3>4 DEF WaitsOnce
  <2>8. NamedOnce'
    <3> SUFFICES ASSUME NEW p \in Announced
                 PROVE  named'[p] = IF p <= created' /\ ~Waits(p)' /\ p \notin unsaid' THEN 1 ELSE 0
      BY DEF NamedOnce
    <3>1. CASE p \in buffered[h]
      <4>1. Waits(p)
        BY <3>1 DEF Waits
      <4>2. p <= created /\ p \notin unsaid /\ named[p] = 0
        BY <1>0, <4>1 DEF WaitsOnce, NamedOnce
      <4>3. named'[p] = named[p] + 1
        BY <2>2, <3>1
      <4>4. named'[p] = 1
        BY <4>2, <4>3
      <4> QED BY <1>2, <2>6, <3>1, <4>2, <4>4
    <3>2. CASE p \notin buffered[h]
      BY <1>0, <1>2, <2>2, <2>6, <3>2 DEF NamedOnce
    <3> QED BY <3>1, <3>2
  <2>9. DeliveriesOK'
    <3>1. [to |-> h, read |-> FALSE, left |-> {}] \in PushRow
      BY DEF PushRow
    <3> QED BY <2>1, <3>1 DEF PushTo, DeliveriesOK
  <2> QED BY <2>4, <2>5, <2>7, <2>8, <2>9 DEF RelayOK
<1> QED BY <1>3, <1>4

LEMMA StopKeepsRelay ==
  ASSUME RelayOK, RelayStops
  PROVE  RelayOK' /\ DeliveriesOK'
<1>0. RelayTypes /\ OneSendPerWindow /\ WaitsOnce /\ NamedOnce
  BY DEF RelayOK
<1>1. /\ unsaid' = unsaid \cup UNION {buffered[h] : h \in Persons}
      /\ throttle' = [h \in Persons |-> FALSE] /\ buffered' = [h \in Persons |-> {}]
      /\ sent' = [h \in Persons |-> 0] /\ push' = {} /\ UNCHANGED <<created, named>>
  BY DEF RelayStops
<1>2. \A p \in Announced : (p \in unsaid' <=> p \in unsaid \/ Waits(p)) /\ ~Waits(p)'
  <2> SUFFICES ASSUME NEW p \in Announced
               PROVE  (p \in unsaid' <=> p \in unsaid \/ Waits(p)) /\ ~Waits(p)'
    OBVIOUS
  <2>1. ~Waits(p)'
    BY <1>1 DEF Waits
  <2>2. p \in unsaid' <=> p \in unsaid \/ Waits(p)
    BY <1>1 DEF Waits
  <2> QED BY <2>1, <2>2
<1>3. unsaid' \subseteq Announced
  BY <1>0, <1>1 DEF RelayTypes
<1>4. RelayTypes' /\ OneSendPerWindow'
  BY <1>0, <1>1, <1>3 DEF RelayTypes, OneSendPerWindow
<1>5. WaitsOnce'
  BY <1>0, <1>1, <1>2 DEF WaitsOnce
<1>6. NamedOnce'
  BY <1>0, <1>1, <1>2 DEF NamedOnce
<1> QED BY <1>1, <1>4, <1>5, <1>6 DEF RelayOK, DeliveriesOK

-----------------------------------------------------------------------------
(* What is left alone stays as it is.                                      *)
LEMMA RestsSound ==
  /\ BrowserOK /\ UNCHANGED <<session, device, endpoints, gone, switch, click>> => BrowserOK'
  /\ RowsOK /\ UNCHANGED <<subscription, off>> => RowsOK'
  /\ RelayOK /\ UNCHANGED <<created, throttle, buffered, named, sent, unsaid>> => RelayOK'
  /\ DeliveriesOK /\ UNCHANGED push => DeliveriesOK'
<1>1. BrowserOK /\ UNCHANGED <<session, device, endpoints, gone, switch, click>> => BrowserOK'
  BY DEF BrowserOK
<1>2. RowsOK /\ UNCHANGED <<subscription, off>> => RowsOK'
  BY DEF RowsOK, OffIsQuiet
<1>3. RelayOK /\ UNCHANGED <<created, throttle, buffered, named, sent, unsaid>> => RelayOK'
  BY DEF RelayOK, RelayTypes, OneSendPerWindow, WaitsOnce, NamedOnce, Waits
<1>4. DeliveriesOK /\ UNCHANGED push => DeliveriesOK'
  BY DEF DeliveriesOK
<1> QED BY <1>1, <1>2, <1>3, <1>4

LEMMA PushStep ==
  ASSUME PushIInv, PushNext
  PROVE  /\ PushIInv'
         /\ \A e \in Endpoints : subscription[e] # NoPerson =>
                subscription'[e] \in {subscription[e], NoPerson}
<1>0. BrowserOK /\ RowsOK /\ DeliveriesOK /\ RelayOK
  BY DEF PushIInv
<1>1. CASE \E c \in Clicks : ClickStep(c)
  <2>1. PICK c \in Clicks : ClickStep(c)
    BY <1>1
  <2>2. UNCHANGED relayVars
    BY <2>1 DEF ClickStep, Click, FindSubscription, Unsubscribe, Erase, Subscribe, Save, GiveUp
  <2>3. UNCHANGED <<created, throttle, buffered, push, named, sent, unsaid>>
    BY <2>2 DEF relayVars
  <2> QED BY <1>0, <2>1, <2>3, ClickKeepsBrowser, ClickKeepsRows, RestsSound DEF PushIInv
<1>2. CASE InitAsks \/ InitShows \/ InitFails \/ ReloadPage \/ \E h \in Persons : LogInAs(h)
  <2>1. UNCHANGED <<subscription, off, created, throttle, buffered, push, named, sent, unsaid>>
    BY <1>2 DEF InitAsks, InitShows, InitFails, ReloadPage, LogInAs, relayVars
  <2> QED BY <1>0, <1>2, <2>1, PageKeepsBrowser, RestsSound DEF PushIInv
<1>3. CASE \E h \in Persons : NotifyHuman(h) \/ Flush(h)
  <2>1. UNCHANGED <<subscription, off, session, device, endpoints, gone, switch, click>>
    BY <1>3 DEF NotifyHuman, Flush, browserVars
  <2>2. RelayOK' /\ DeliveriesOK'
    BY <1>0, <1>3, NotifyKeepsRelay, FlushKeepsRelay
  <2> QED BY <1>0, <2>1, <2>2, RestsSound DEF PushIInv
<1>4. CASE RelayStops
  <2>1. UNCHANGED <<subscription, off, session, device, endpoints, gone, switch, click>>
    BY <1>4 DEF RelayStops, browserVars
  <2> QED BY <1>0, <1>4, <2>1, StopKeepsRelay, RestsSound DEF PushIInv
<1>5. CASE \E d \in push : ReadSubscriptions(d) \/ \E e \in Endpoints : SendTo(d, e)
  <2>1. PICK d \in push : ReadSubscriptions(d) \/ \E e \in Endpoints : SendTo(d, e)
    BY <1>5
  <2>2. UNCHANGED <<created, throttle, buffered, named, sent, unsaid,
                    session, device, endpoints, gone, switch, click>>
    BY <2>1 DEF ReadSubscriptions, SendTo, browserVars
  <2> QED BY <1>0, <2>1, <2>2, SendKeeps, RestsSound DEF PushIInv
<1> QED BY <1>1, <1>2, <1>3, <1>4, <1>5 DEF PushNext

(* A pane that was created is named by one push, waits in one window that  *)
(* is open, or was lost with the process.                                  *)
LEMMA AnnouncedOnce ==
  ASSUME RelayOK
  PROVE  EachAnnouncedOnce
<1> SUFFICES ASSUME NEW p \in 1 .. created
             PROVE  named[p] + Cardinality({h \in Persons : throttle[h] /\ p \in buffered[h]})
                      = (IF p \in unsaid THEN 0 ELSE 1)
  BY DEF EachAnnouncedOnce
<1> USE PushAssumption
<1>0. RelayTypes /\ WaitsOnce /\ NamedOnce
  BY DEF RelayOK
<1>1. p \in Announced /\ p <= created
  BY <1>0 DEF RelayTypes, Announced
<1>2. PICK W : W = {h \in Persons : throttle[h] /\ p \in buffered[h]}
  OBVIOUS
<1>3. CASE Waits(p)
  <2>1. PICK h \in Persons : p \in buffered[h]
    BY <1>3 DEF Waits
  <2>2. throttle[h]
    BY <1>0, <2>1 DEF WaitsOnce
  <2>3. W = {h}
    BY <1>0, <1>1, <1>2, <2>1, <2>2 DEF WaitsOnce
  <2>4. Cardinality(W) = 1
    BY <2>3, FS_Singleton
  <2>5. named[p] = 0 /\ p \notin unsaid
    BY <1>0, <1>1, <1>3 DEF WaitsOnce, NamedOnce
  <2> QED BY <1>2, <2>4, <2>5
<1>4. CASE ~Waits(p)
  <2>1. W = {}
    BY <1>2, <1>4 DEF Waits
  <2>2. Cardinality(W) = 0
    BY <2>1, FS_EmptySet
  <2>3. named[p] = IF p \in unsaid THEN 0 ELSE 1
    BY <1>0, <1>1, <1>4 DEF NamedOnce
  <2> QED BY <1>2, <2>2, <2>3
<1> QED BY <1>3, <1>4

(* Whatever clicks, deliveries and restarts come between, a person gets    *)
(* one push per window, each new pane is announced once or lost with the   *)
(* process, and an endpoint that was taken off the relay stays off it and  *)
(* is never handed over to somebody else.                                  *)
THEOREM PushSound == PushSpec => PushIsSound
<1>1. PushInit => PushIInv
  BY PushInitIInv
<1>2. PushIInv /\ [PushNext]_pushVars => PushIInv'
  <2> SUFFICES ASSUME PushIInv, [PushNext]_pushVars PROVE PushIInv'
    OBVIOUS
  <2>1. CASE UNCHANGED pushVars
    BY <2>1, RestsSound DEF pushVars, PushIInv
  <2> QED BY <2>1, PushStep
<1>3. PushIInv => PushInv
  <2> SUFFICES ASSUME PushIInv PROVE PushInv
    OBVIOUS
  <2>1. BrowserOK /\ RowsOK /\ DeliveriesOK /\ RelayOK /\ RelayTypes /\ OneSendPerWindow
    BY DEF PushIInv, RelayOK
  <2>2. PushTypeOK
    BY <2>1 DEF BrowserOK, RowsOK, DeliveriesOK, RelayTypes, PushTypeOK
  <2>3. OneBuzzPerWindow
    BY <2>1 DEF OneSendPerWindow, OneBuzzPerWindow
  <2>4. EachAnnouncedOnce
    BY <2>1, AnnouncedOnce
  <2> QED BY <2>1, <2>2, <2>3, <2>4 DEF PushInv, RowsOK
<1> DEFINE Keeps == \A e \in Endpoints : subscription[e] # NoPerson =>
           subscription'[e] \in {subscription[e], NoPerson}
<1>4. PushIInv /\ [PushNext]_pushVars => [Keeps]_pushVars
  BY PushStep
<1>5. PushSpec => []PushIInv
  BY <1>1, <1>2, PushAssumption, PTL DEF PushSpec
<1>6. PushSpec => EndpointKeepsOwner
  BY <1>4, <1>5, PTL DEF PushSpec, EndpointKeepsOwner
<1>7. PushSpec => []PushInv
  BY <1>3, <1>5, PTL
<1> QED BY <1>6, <1>7 DEF PushIsSound

-----------------------------------------------------------------------------
(***************************************************************************)
(* Opening a pane's page. Redirects go one way through the doors, what was *)
(* read is what is, unless something has changed since, and the page that  *)
(* is shown is one its door still admits to.                               *)
(***************************************************************************)

(* How many redirects lead to a URL at most: no door leads back to the     *)
(* token's, and /login comes last.                                         *)
HopsTo(url) == CASE url \in {"s", "none"} -> 0
                 [] url \in {"panes", "p"} -> 1
                 [] url = "login" -> 2
                 [] url = "home" -> 3

(* What is read belongs to the visit: unless something has changed, it is  *)
(* what is.                                                                *)
ReadIsFresh ==
    same =>
        /\ tab.url = "s" /\ tab.step \in {"load", "bind"} =>
              read.pane = doorway /\ read.bound = link.bound /\ ~link.revoked
        /\ tab.url \in {"panes", "p"} /\ tab.step = "load" => read.who = login

(* A page that is shown is one that its door still admits to.              *)
PageIsAdmitted ==
    /\ tab.step # "done" \/ tab.url = "login" => page = Blank
    /\ page.door \notin Doors => asked = Unasked
    /\ same /\ page.door \in Doors => Admits(page.door) /\ page.closed = doorway.closed

OpenIInv ==
    /\ OpenTypeOK /\ tab.hops <= HopsTo(tab.url) /\ ReadIsFresh /\ PageIsAdmitted /\ GatesAgree

-----------------------------------------------------------------------------
LEMMA OpenInitIInv == OpenInit => OpenIInv
<1> SUFFICES ASSUME OpenInit PROVE OpenIInv
  OBVIOUS
<1> USE OpenAssumption DEF OpenInit, Doors, Modes, Blank, Unasked
<1>1. OpenTypeOK
  <2>1. doorway \in DoorwayRow /\ link \in [revoked : BOOLEAN, bound : People \cup {NoOne}]
    BY DEF DoorwayRow
  <2>2. tab \in TabRow
    BY DEF TabRow
  <2>3. read \in PageReadRow
    BY DEF PageReadRow, Nothing, DoorwayRow
  <2>4. page \in [door : Doors \cup {"none", "refused"}, closed : BOOLEAN]
    OBVIOUS
  <2>5. asked \in [{"content", "presence"} -> {"no", "given", "refused"}]
    OBVIOUS
  <2> QED BY <2>1, <2>2, <2>3, <2>4, <2>5 DEF OpenTypeOK
<1>2. tab.hops <= HopsTo(tab.url)
  BY DEF HopsTo
<1>3. ReadIsFresh /\ PageIsAdmitted /\ GatesAgree
  BY DEF ReadIsFresh, PageIsAdmitted, GatesAgree
<1> QED BY <1>1, <1>2, <1>3 DEF OpenIInv

(* A step of a handler: it reads, it leads elsewhere, or it answers; the   *)
(* pane, its grants and the login stay as they are.                        *)
LEMMA ReadsOn ==
  ASSUME OpenIInv, NEW step \in {"load", "bind"}, tab.step # "done",
         tab' = [tab EXCEPT !.step = step],
         read' \in PageReadRow,
         same => /\ tab.url = "s" =>
                       read'.pane = doorway /\ read'.bound = link.bound /\ ~link.revoked
                 /\ tab.url \in {"panes", "p"} => read'.who = login,
         viewed' \subseteq People,
         UNCHANGED <<worldVars, page, asked, same>>
  PROVE  OpenIInv'
<1> USE DEF worldVars
<1>0. OpenTypeOK /\ tab.hops <= HopsTo(tab.url) /\ ReadIsFresh /\ PageIsAdmitted /\ GatesAgree
  BY DEF OpenIInv
<1>1. tab \in TabRow
  BY <1>0 DEF OpenTypeOK
<1>2. tab' \in TabRow /\ tab'.url = tab.url /\ tab'.hops = tab.hops /\ tab'.step = step
  BY <1>1 DEF TabRow
<1>3. OpenTypeOK'
  BY <1>0, <1>2 DEF OpenTypeOK
<1>4. ReadIsFresh'
  BY <1>2 DEF ReadIsFresh
<1>5. PageIsAdmitted' /\ GatesAgree'
  BY <1>0, <1>2 DEF PageIsAdmitted, GatesAgree, Admits, ResolveAccess
<1>6. tab'.hops <= HopsTo(tab'.url)
  BY <1>0, <1>2
<1> QED BY <1>3, <1>4, <1>5, <1>6 DEF OpenIInv

LEMMA LeadsOn ==
  ASSUME OpenIInv, tab.step # "done", NEW d \in {"panes", "p", "login"},
         tab.url \in Doors, d # "login" => tab.url = "s",
         Redirect(d) \/ (d = "login" /\ BounceToLogin),
         viewed' \subseteq People,
         UNCHANGED <<worldVars, same>>
  PROVE  OpenIInv'
<1> USE DEF worldVars, Doors
<1>0. OpenTypeOK /\ tab.hops <= HopsTo(tab.url) /\ ReadIsFresh /\ PageIsAdmitted /\ GatesAgree
  BY DEF OpenIInv
<1>1. tab \in TabRow
  BY <1>0 DEF OpenTypeOK
<1>2. tab' \in TabRow /\ tab'.url = d /\ tab'.hops = tab.hops + 1 /\ tab'.step = "new"
  <2>1. CASE Redirect(d)
    <3>1. tab' = [tab EXCEPT !.url = d, !.step = "new", !.hops = tab.hops + 1]
      BY <2>1 DEF Redirect
    <3>2. tab.hops \in Nat /\ tab.hops + 1 \in Nat
      BY <1>1 DEF TabRow
    <3> QED BY <1>1, <3>1, <3>2 DEF TabRow
  <2>2. CASE d = "login" /\ BounceToLogin
    <3>1. tab' = [tab EXCEPT !.from = tab.url, !.url = "login", !.step = "new",
                            !.hops = tab.hops + 1]
      BY <2>2 DEF BounceToLogin
    <3>2. tab.hops \in Nat /\ tab.hops + 1 \in Nat
      BY <1>1 DEF TabRow
    <3> QED BY <1>1, <2>2, <3>1, <3>2 DEF TabRow
  <2> QED BY <2>1, <2>2
<1>3. read' = Nothing /\ Nothing \in PageReadRow /\ UNCHANGED <<page, asked>>
  BY OpenAssumption DEF Redirect, BounceToLogin, Nothing, PageReadRow, DoorwayRow, Modes
<1>4. OpenTypeOK'
  BY <1>0, <1>2, <1>3 DEF OpenTypeOK
<1>5. ReadIsFresh'
  BY <1>2 DEF ReadIsFresh
<1>6. page = Blank
  BY <1>0 DEF PageIsAdmitted
<1>7. PageIsAdmitted' /\ GatesAgree'
  BY <1>0, <1>3, <1>6 DEF PageIsAdmitted, GatesAgree, Blank
<1>8. tab'.hops <= HopsTo(tab'.url)
  <2>1. tab.hops \in Nat
    BY <1>1 DEF TabRow
  <2>2. HopsTo("s") = 0 /\ HopsTo("panes") = 1 /\ HopsTo("p") = 1 /\ HopsTo("login") = 2
    BY DEF HopsTo
  <2> QED BY <1>0, <1>2, <2>1, <2>2
<1> QED BY <1>4, <1>5, <1>7, <1>8 DEF OpenIInv

LEMMA Answers ==
  ASSUME OpenIInv, tab.step # "done", tab.url \in Doors,
         RefusePage \/ (ShowShell(doorway) /\ (same => Admits(tab.url)))
                    \/ (~same /\ ShowShell(read.pane)),
         viewed' \subseteq People,
         UNCHANGED <<worldVars, same>>
  PROVE  OpenIInv'
<1> USE DEF worldVars, Doors
<1>0. OpenTypeOK /\ tab.hops <= HopsTo(tab.url) /\ ReadIsFresh /\ PageIsAdmitted /\ GatesAgree
  BY DEF OpenIInv
<1>1. tab \in TabRow /\ doorway \in DoorwayRow /\ read \in PageReadRow
  BY <1>0 DEF OpenTypeOK
<1>2. tab' \in TabRow /\ tab'.url = tab.url /\ tab'.hops = tab.hops /\ tab'.step = "done"
  BY <1>1 DEF TabRow, RefusePage, ShowShell
<1>3. read' = Nothing /\ Nothing \in PageReadRow /\ UNCHANGED asked
  BY OpenAssumption DEF RefusePage, ShowShell, Nothing, PageReadRow, DoorwayRow, Modes
<1>4. /\ page' \in [door : Doors \cup {"none", "refused"}, closed : BOOLEAN]
      /\ \/ page'.door = "refused"
         \/ /\ page'.door = tab.url
            /\ same => page'.closed = doorway.closed /\ Admits(tab.url)
  <2>1. doorway.closed \in BOOLEAN /\ read.pane \in DoorwayRow /\ read.pane.closed \in BOOLEAN
    BY <1>1 DEF PageReadRow, DoorwayRow
  <2>2. CASE RefusePage
    BY <2>2 DEF RefusePage
  <2>3. CASE ShowShell(doorway) /\ (same => Admits(tab.url))
    BY <2>1, <2>3 DEF ShowShell
  <2>4. CASE ~same /\ ShowShell(read.pane)
    BY <2>1, <2>4 DEF ShowShell
  <2> QED BY <2>2, <2>3, <2>4
<1>5. OpenTypeOK'
  BY <1>0, <1>2, <1>3, <1>4 DEF OpenTypeOK
<1>6. page = Blank /\ asked = Unasked
  BY <1>0 DEF PageIsAdmitted, Blank
<1>7. ReadIsFresh'
  BY <1>2 DEF ReadIsFresh
<1>8. \A d : Admits(d)' = Admits(d)
  BY DEF Admits, ResolveAccess
<1>9. PageIsAdmitted'
  <2>1. tab'.step = "done" /\ tab'.url # "login"
    BY <1>2
  <2>2. ASSUME same', page'.door \in Doors
        PROVE  Admits(page.door)' /\ page'.closed = doorway'.closed
    <3>1. page'.door = tab.url /\ page'.closed = doorway.closed /\ Admits(tab.url)
      BY <1>4, <2>2
    <3>2. PICK d : d = tab.url
      OBVIOUS
    <3>3. Admits(d)' /\ page'.door = d
      BY <1>8, <3>1, <3>2
    <3> QED BY <3>1, <3>3 DEF Admits
  <2>3. asked' = Unasked
    BY <1>3, <1>6
  <2> QED BY <2>1, <2>2, <2>3 DEF PageIsAdmitted
<1>10. GatesAgree'
  BY <1>3, <1>6 DEF GatesAgree, Unasked
<1>11. tab'.hops <= HopsTo(tab'.url)
  BY <1>0, <1>2
<1> QED BY <1>5, <1>7, <1>9, <1>10, <1>11 DEF OpenIInv

-----------------------------------------------------------------------------
(* The handlers, step by step.                                             *)
LEMMA HandlersKeep ==
  ASSUME OpenIInv,
         LoadByToken \/ UpgradeOwner \/ CheckBound \/ RequireHuman \/ LoadOwnedPane
            \/ ResolveHuman \/ OpenShared
  PROVE  OpenIInv'
<1> USE OpenAssumption DEF Handling
<1>0. OpenTypeOK /\ ReadIsFresh /\ PageIsAdmitted
  BY DEF OpenIInv
<1>1. /\ tab \in TabRow /\ doorway \in DoorwayRow /\ read \in PageReadRow /\ viewed \subseteq People
      /\ link \in [revoked : BOOLEAN, bound : People \cup {NoOne}]
      /\ login \in People \cup {NoOne}
  BY <1>0 DEF OpenTypeOK
<1>2. Nothing \in PageReadRow
  BY DEF Nothing, PageReadRow, DoorwayRow, Modes
<1>3. \A h \in People \cup {NoOne} : MayRecord(h) => viewed' \subseteq People
  BY <1>1 DEF MayRecord
<1>4. \A h \in People \cup {NoOne} : [Nothing EXCEPT !.who = h] \in PageReadRow
                                   /\ [Nothing EXCEPT !.who = h].who = h
  <2>1. PICK n : n = Nothing
    OBVIOUS
  <2>2. \A h \in People \cup {NoOne} : [n EXCEPT !.who = h] \in PageReadRow
                                     /\ [n EXCEPT !.who = h].who = h
    BY <1>2, <2>1 DEF PageReadRow
  <2> QED BY <2>1, <2>2
<1>5. CASE LoadByToken
  <2>1. tab.url = "s" /\ tab.step = "new" /\ UNCHANGED <<worldVars, same>>
    BY <1>5 DEF LoadByToken
  <2>2. CASE link.revoked
    <3>1. Redirect("p") /\ UNCHANGED viewed
      BY <1>5, <2>2 DEF LoadByToken
    <3> QED BY <1>1, <2>1, <3>1, LeadsOn DEF Doors
  <2>3. CASE ~link.revoked
    <3>1. /\ read' = [pane |-> doorway, bound |-> link.bound, who |-> NoOne]
          /\ tab' = [tab EXCEPT !.step = "load"] /\ UNCHANGED <<page, asked>>
          /\ MayRecord(login)
      BY <1>5, <2>3 DEF LoadByToken
    <3>2. read' \in PageReadRow /\ read'.pane = doorway /\ read'.bound = link.bound
      BY <1>1, <3>1 DEF PageReadRow
    <3>3. viewed' \subseteq People
      BY <1>1, <1>3, <3>1
    <3> QED BY <2>1, <2>3, <3>1, <3>2, <3>3, ReadsOn
  <2> QED BY <2>2, <2>3
<1>6. CASE UpgradeOwner
  <2>1. tab.url = "s" /\ tab.step = "load" /\ UNCHANGED <<worldVars, viewed, same>>
    BY <1>6 DEF UpgradeOwner
  <2>2. CASE login = PaneOwner
    <3>1. Redirect("panes")
      BY <1>6, <2>2 DEF UpgradeOwner
    <3> QED BY <1>1, <2>1, <3>1, LeadsOn DEF Doors
  <2>3. CASE login # PaneOwner
    <3>1. tab' = [tab EXCEPT !.step = "bind"] /\ UNCHANGED <<read, page, asked>>
      BY <1>6, <2>3 DEF UpgradeOwner
    <3> QED BY <1>0, <1>1, <2>1, <3>1, ReadsOn DEF ReadIsFresh
  <2> QED BY <2>2, <2>3
<1>7. CASE CheckBound
  <2>1. tab.url = "s" /\ tab.step = "bind" /\ UNCHANGED <<worldVars, viewed, same>>
    BY <1>7 DEF CheckBound
  <2>2. CASE read.bound # NoOne /\ login = NoOne
    <3>1. BounceToLogin
      BY <1>7, <2>2 DEF CheckBound
    <3> QED BY <1>1, <2>1, <3>1, LeadsOn DEF Doors
  <2>3. CASE read.bound # NoOne /\ login # NoOne /\ login # read.bound
    <3>1. RefusePage
      BY <1>7, <2>3 DEF CheckBound
    <3> QED BY <1>1, <2>1, <3>1, Answers DEF Doors
  <2>4. CASE read.bound = NoOne \/ (login # NoOne /\ login = read.bound)
    <3>1. ShowShell(read.pane)
      BY <1>7, <2>4 DEF CheckBound
    <3>2. CASE same
      <4>1. read.pane = doorway /\ read.bound = link.bound /\ ~link.revoked
        BY <1>0, <2>1, <3>2 DEF ReadIsFresh
      <4>2. ShowShell(doorway)
        BY <3>1, <4>1
      <4>3. Admits("s")
        BY <2>4, <4>1 DEF Admits
      <4> QED BY <1>1, <2>1, <4>2, <4>3, Answers DEF Doors
    <3>3. CASE ~same
      BY <1>1, <2>1, <3>1, <3>3, Answers DEF Doors
    <3> QED BY <3>2, <3>3
  <2> QED BY <2>2, <2>3, <2>4
<1>8. CASE RequireHuman
  <2>1. tab.url = "panes" /\ tab.step = "new" /\ UNCHANGED <<worldVars, viewed, same>>
    BY <1>8 DEF RequireHuman
  <2>2. CASE login = NoOne
    <3>1. BounceToLogin
      BY <1>8, <2>2 DEF RequireHuman
    <3> QED BY <1>1, <2>1, <3>1, LeadsOn DEF Doors
  <2>3. CASE login # NoOne
    <3>1. /\ read' = [Nothing EXCEPT !.who = login]
          /\ tab' = [tab EXCEPT !.step = "load"] /\ UNCHANGED <<page, asked>>
      BY <1>8, <2>3 DEF RequireHuman
    <3>2. read' \in PageReadRow /\ read'.who = login
      BY <1>1, <1>4, <3>1
    <3> QED BY <1>1, <2>1, <3>1, <3>2, ReadsOn
  <2> QED BY <2>2, <2>3
<1>9. CASE LoadOwnedPane
  <2>1. tab.url = "panes" /\ tab.step = "load" /\ UNCHANGED <<worldVars, same>>
    BY <1>9 DEF LoadOwnedPane
  <2>2. read.who \in People \cup {NoOne}
    BY <1>1 DEF PageReadRow
  <2>3. CASE read.who # PaneOwner \/ doorway.trashed
    <3>1. RefusePage /\ UNCHANGED viewed
      BY <1>9, <2>3 DEF LoadOwnedPane
    <3> QED BY <1>1, <2>1, <3>1, Answers DEF Doors
  <2>4. CASE ~(read.who # PaneOwner \/ doorway.trashed)
    <3>1. ShowShell(doorway) /\ MayRecord(read.who)
      BY <1>9, <2>4 DEF LoadOwnedPane
    <3>2. same => Admits("panes")
      BY <1>0, <2>1, <2>4 DEF ReadIsFresh, Admits
    <3> QED BY <1>3, <2>1, <2>2, <3>1, <3>2, Answers DEF Doors
  <2> QED BY <2>3, <2>4
<1>10. CASE ResolveHuman
  <2>1. tab.url = "p" /\ tab.step = "new" /\ UNCHANGED <<worldVars, page, asked, viewed, same>>
    BY <1>10 DEF ResolveHuman
  <2>2. /\ read' = [Nothing EXCEPT !.who = login]
        /\ tab' = [tab EXCEPT !.step = "load"]
    BY <1>10 DEF ResolveHuman
  <2>3. read' \in PageReadRow /\ read'.who = login
    BY <1>1, <1>4, <2>2
  <2> QED BY <1>1, <2>1, <2>2, <2>3, ReadsOn
<1>11. CASE OpenShared
  <2>1. tab.url = "p" /\ tab.step = "load" /\ UNCHANGED <<worldVars, same>>
    BY <1>11 DEF OpenShared
  <2>2. read.who \in People \cup {NoOne}
    BY <1>1 DEF PageReadRow
  <2>3. ResolveAccess(read.who) \in {"login", "not_found", "allow"}
    BY DEF ResolveAccess
  <2>4. CASE ResolveAccess(read.who) = "login"
    <3>1. BounceToLogin /\ UNCHANGED viewed
      BY <1>11, <2>4 DEF OpenShared
    <3> QED BY <1>1, <2>1, <3>1, LeadsOn DEF Doors
  <2>5. CASE ResolveAccess(read.who) = "not_found"
    <3>1. RefusePage /\ UNCHANGED viewed
      BY <1>11, <2>5 DEF OpenShared
    <3> QED BY <1>1, <2>1, <3>1, Answers DEF Doors
  <2>6. CASE ResolveAccess(read.who) = "allow"
    <3>1. ShowShell(doorway) /\ MayRecord(read.who)
      BY <1>11, <2>6 DEF OpenShared
    <3>2. same => Admits("p")
      BY <1>0, <2>1, <2>6 DEF ReadIsFresh, Admits
    <3> QED BY <1>3, <2>1, <2>2, <3>1, <3>2, Answers DEF Doors
  <2> QED BY <2>3, <2>4, <2>5, <2>6
<1> QED BY <1>5, <1>6, <1>7, <1>8, <1>9, <1>10, <1>11

(* The person at the browser.                                              *)
LEMMA PersonKeeps ==
  ASSUME OpenIInv, Leave \/ (\E d \in Doors : Visit(d)) \/ (\E h \in People : LogIn(h))
  PROVE  OpenIInv'
<1> USE OpenAssumption
<1>0. OpenTypeOK /\ tab.hops <= HopsTo(tab.url) /\ ReadIsFresh /\ PageIsAdmitted /\ GatesAgree
  BY DEF OpenIInv
<1>1. tab \in TabRow /\ tab.hops \in Nat
  BY <1>0 DEF OpenTypeOK, TabRow
<1>2. Nothing \in PageReadRow
  BY DEF Nothing, PageReadRow, DoorwayRow, Modes
<1>3. ASSUME NEW d \in Doors, Visit(d) PROVE OpenIInv'
  <2>1. /\ tab' = [url |-> d, step |-> "new", hops |-> 0, from |-> "none"]
        /\ read' = Nothing /\ page' = Blank /\ asked' = Unasked /\ same' = TRUE
        /\ viewed' = {} /\ UNCHANGED worldVars
    BY <1>3 DEF Visit
  <2>2. tab' \in TabRow /\ tab'.url = d /\ tab'.hops = 0 /\ tab'.step = "new"
    BY <2>1 DEF TabRow, Doors
  <2>3. page' \in [door : Doors \cup {"none", "refused"}, closed : BOOLEAN]
    BY <2>1 DEF Blank
  <2>4. asked' \in [{"content", "presence"} -> {"no", "given", "refused"}]
    BY <2>1 DEF Unasked
  <2>5. OpenTypeOK'
    BY <1>0, <1>2, <2>1, <2>2, <2>3, <2>4 DEF OpenTypeOK, worldVars
  <2>6. tab'.hops <= HopsTo(tab'.url)
    BY <2>2 DEF HopsTo, Doors
  <2>7. ReadIsFresh' /\ PageIsAdmitted' /\ GatesAgree'
    BY <2>1, <2>2 DEF ReadIsFresh, PageIsAdmitted, GatesAgree, Blank, Unasked, Doors
  <2> QED BY <2>5, <2>6, <2>7 DEF OpenIInv
<1>4. CASE Leave
  <2>1. /\ tab.url = "login" /\ tab' = [tab EXCEPT !.step = "done"]
        /\ UNCHANGED <<doorway, grantees, link, login, read, page, asked, viewed, same>>
    BY <1>4 DEF Leave, worldVars
  <2>2. tab' \in TabRow /\ tab'.url = "login" /\ tab'.hops = tab.hops /\ tab'.step = "done"
    BY <1>1, <2>1 DEF TabRow
  <2>3. OpenTypeOK'
    BY <1>0, <2>1, <2>2 DEF OpenTypeOK
  <2>4. page = Blank
    BY <1>0, <2>1 DEF PageIsAdmitted
  <2>5. ReadIsFresh' /\ PageIsAdmitted' /\ GatesAgree'
    BY <1>0, <2>1, <2>2, <2>4 DEF ReadIsFresh, PageIsAdmitted, GatesAgree, Blank, Doors
  <2> QED BY <1>0, <2>1, <2>2, <2>3, <2>5 DEF OpenIInv
<1>5. ASSUME NEW h \in People, LogIn(h) PROVE OpenIInv'
  <2>1. /\ tab.url = "login" /\ tab.step = "new" /\ login' = h
        /\ UNCHANGED <<doorway, grantees, link, read, page, asked, viewed, same>>
    BY <1>5 DEF LogIn
  <2>2. PICK n : n = IF login = NoOne THEN 0 ELSE tab.hops + 1
    OBVIOUS
  <2>3. n \in Nat /\ n <= 3
    <3>1. tab.hops <= 2
      BY <1>0, <2>1 DEF HopsTo
    <3> QED BY <1>1, <2>2, <3>1
  <2>4. tab' = [tab EXCEPT !.url = "home", !.step = "done", !.hops = n]
    BY <1>5, <2>2 DEF LogIn
  <2>5. tab' \in TabRow /\ tab'.url = "home" /\ tab'.hops = n /\ tab'.step = "done"
    BY <1>1, <2>3, <2>4 DEF TabRow
  <2>6. OpenTypeOK'
    BY <1>0, <2>1, <2>5 DEF OpenTypeOK
  <2>7. page = Blank
    BY <1>0, <2>1 DEF PageIsAdmitted
  <2>8. ReadIsFresh' /\ PageIsAdmitted' /\ GatesAgree'
    BY <1>0, <2>1, <2>5, <2>7 DEF ReadIsFresh, PageIsAdmitted, GatesAgree, Blank, Doors
  <2>9. tab'.hops <= HopsTo(tab'.url)
    BY <2>3, <2>5 DEF HopsTo
  <2> QED BY <2>6, <2>8, <2>9 DEF OpenIInv
<1> QED BY <1>3, <1>4, <1>5

(* What the shell asks, and what changes under it.                         *)
LEMMA ShellKeeps ==
  ASSUME OpenIInv, AskContent \/ AskPresence
  PROVE  OpenIInv'
<1>0. OpenTypeOK /\ tab.hops <= HopsTo(tab.url) /\ ReadIsFresh /\ PageIsAdmitted /\ GatesAgree
  BY DEF OpenIInv
<1>1. /\ page.door \in Doors
      /\ UNCHANGED <<doorway, grantees, link, login, tab, read, page, viewed, same>>
  BY DEF AskContent, AskPresence, worldVars
<1>2. asked \in [{"content", "presence"} -> {"no", "given", "refused"}]
  BY <1>0 DEF OpenTypeOK
<1>3. PICK k \in {"content", "presence"}, a \in {"given", "refused"} :
          asked' = [asked EXCEPT ![k] = a] /\ (same => a = "given")
  <2>1. CASE AskContent
    <3>1. PICK a : a = IF Admits(page.door) /\ ~doorway.closed THEN "given" ELSE "refused"
      OBVIOUS
    <3>2. same => a = "given"
      BY <1>0, <1>1, <2>1, <3>1 DEF AskContent, PageIsAdmitted
    <3>3. asked' = [asked EXCEPT !["content"] = a]
      BY <2>1, <3>1 DEF AskContent
    <3> QED BY <3>1, <3>2, <3>3
  <2>2. CASE AskPresence
    <3>1. PICK a : a = IF Admits(page.door) THEN "given" ELSE "refused"
      OBVIOUS
    <3>2. same => a = "given"
      BY <1>0, <1>1, <2>2, <3>1 DEF PageIsAdmitted
    <3>3. asked' = [asked EXCEPT !["presence"] = a]
      BY <2>2, <3>1 DEF AskPresence
    <3> QED BY <3>1, <3>2, <3>3
  <2> QED BY <2>1, <2>2
<1>4. asked' \in [{"content", "presence"} -> {"no", "given", "refused"}]
  BY <1>2, <1>3
<1>5. OpenTypeOK' /\ (tab.hops <= HopsTo(tab.url))'
  BY <1>0, <1>1, <1>4 DEF OpenTypeOK
<1>6. GatesAgree'
  BY <1>0, <1>1, <1>2, <1>3 DEF GatesAgree
<1>7. ReadIsFresh' /\ PageIsAdmitted'
  BY <1>0, <1>1 DEF ReadIsFresh, PageIsAdmitted, Admits, ResolveAccess
<1> QED BY <1>5, <1>6, <1>7 DEF OpenIInv

LEMMA ChangesKeep ==
  ASSUME OpenIInv, Changes
  PROVE  OpenIInv'
<1>0. OpenTypeOK /\ tab.hops <= HopsTo(tab.url) /\ PageIsAdmitted
  BY DEF OpenIInv
<1>1. same' = FALSE /\ UNCHANGED <<tab, read, page, asked, viewed>>
  BY DEF Changes
<1>2. /\ doorway \in DoorwayRow /\ grantees \subseteq People
      /\ link \in [revoked : BOOLEAN, bound : People \cup {NoOne}]
      /\ login \in People \cup {NoOne}
  BY <1>0 DEF OpenTypeOK
<1>3. /\ doorway' \in DoorwayRow /\ grantees' \subseteq People
      /\ link' \in [revoked : BOOLEAN, bound : People \cup {NoOne}]
      /\ login' \in People \cup {NoOne}
  <2>1. CASE UNCHANGED <<grantees, link, login>>
               /\ \/ doorway' = [doorway EXCEPT !.trashed = ~@]
                  \/ doorway' = [doorway EXCEPT !.closed = TRUE]
                  \/ \E m \in Modes \ {doorway.mode} : doorway' = [doorway EXCEPT !.mode = m]
    BY <1>2, <2>1 DEF DoorwayRow
  <2>2. CASE UNCHANGED <<doorway, link, login>>
               /\ \E h \in People \ {PaneOwner} :
                     grantees' \in {grantees \cup {h}, grantees \ {h}} \ {grantees}
    BY <1>2, <2>2
  <2>3. CASE UNCHANGED <<doorway, grantees, login>> /\ link' = [link EXCEPT !.revoked = TRUE]
    BY <1>2, <2>3
  <2>4. CASE /\ login' \in (IF login = NoOne THEN People ELSE {NoOne})
             /\ UNCHANGED <<doorway, grantees, link>>
    BY <1>2, <2>4
  <2> QED BY <2>1, <2>2, <2>3, <2>4 DEF Changes
<1>4. OpenTypeOK'
  BY <1>0, <1>1, <1>3 DEF OpenTypeOK
<1>5. ReadIsFresh' /\ PageIsAdmitted' /\ GatesAgree'
  BY <1>0, <1>1 DEF ReadIsFresh, PageIsAdmitted, GatesAgree
<1> QED BY <1>0, <1>1, <1>4, <1>5 DEF OpenIInv

(* However logins, grants, tokens and the pane change under way, no door   *)
(* sends a browser in a circle; and while nothing changes, a pane is shown *)
(* to the invited alone, and a shell that was shown gets what it asks for. *)
THEOREM OpenSound == OpenSpec => []OpenInv
<1>1. OpenInit => OpenIInv
  BY OpenInitIInv
<1>2. OpenIInv /\ [OpenNext]_openVars => OpenIInv'
  <2> SUFFICES ASSUME OpenIInv, [OpenNext]_openVars PROVE OpenIInv'
    OBVIOUS
  <2>1. CASE UNCHANGED openVars
    <3> USE <2>1 DEF openVars, OpenIInv
    <3>1. OpenTypeOK' BY DEF OpenTypeOK
    <3>2. ReadIsFresh' BY DEF ReadIsFresh
    <3>3. PageIsAdmitted' BY DEF PageIsAdmitted, Admits, ResolveAccess
    <3>4. GatesAgree' BY DEF GatesAgree
    <3>5. tab'.hops <= HopsTo(tab'.url) OBVIOUS
    <3> QED BY <3>1, <3>2, <3>3, <3>4, <3>5
  <2>2. CASE OpenNext
    BY <2>2, HandlersKeep, PersonKeeps, ShellKeeps, ChangesKeep DEF OpenNext
  <2> QED BY <2>1, <2>2
<1>3. OpenIInv => OpenInv
  <2> SUFFICES ASSUME OpenIInv PROVE OpenInv
    OBVIOUS
  <2>1. OpenTypeOK /\ tab.hops <= HopsTo(tab.url) /\ PageIsAdmitted /\ GatesAgree
    BY DEF OpenIInv
  <2>2. tab.hops \in Nat /\ tab.url \in Doors \cup {"login", "home", "none"}
    BY <2>1 DEF OpenTypeOK, TabRow
  <2>3. RedirectsEnd
    BY <2>1, <2>2 DEF RedirectsEnd, HopsTo, Doors
  <2>4. ShownToInvited
    <3> SUFFICES ASSUME same, page.door \in Doors
                 PROVE  \/ login = PaneOwner \/ login \in grantees
                        \/ doorway.mode # "invite_only"
                        \/ ~link.revoked /\ link.bound \in {NoOne, login}
      BY DEF ShownToInvited
    <3>1. Admits(page.door)
      BY <2>1 DEF PageIsAdmitted
    <3>2. CASE page.door = "s"
      BY <3>1, <3>2 DEF Admits
    <3>3. CASE page.door = "panes"
      BY <3>1, <3>3 DEF Admits
    <3>4. CASE page.door = "p"
      BY <3>1, <3>4 DEF Admits, ResolveAccess
    <3> QED BY <3>2, <3>3, <3>4 DEF Doors
  <2> QED BY <2>1, <2>3, <2>4 DEF OpenInv
<1> QED BY <1>1, <1>2, <1>3, OpenAssumption, PTL DEF OpenSpec
-----------------------------------------------------------------------------
(***************************************************************************)
(* OwnerHome.  The views and the history, the requests, and what the page  *)
(* shows of the answers, together.                                         *)
(***************************************************************************)
HomeEntry == [hash : Hashes, pane : HomePanes \cup {NoPane}, top : 0 .. 1]
KeptTops == [{"home", "panes", "templates"} -> 0 .. 1]

NavTypes ==
    /\ entries \in Seq(HomeEntry)
    /\ place \in 1 .. Len(entries) /\ Len(entries) <= MaxEntry
    /\ view \in Hashes \cup {"pane"} /\ mounted \in HomePanes \cup {NoPane}
    /\ scroll \in 0 .. 1 /\ kept \in KeptTops /\ opening \subseteq HomePanes

(* Only the first entry is a list; what it remembers of its scrolling is   *)
(* what the page kept of the view, while a pane is shown.                  *)
NavInv ==
    /\ NavTypes /\ UrlIsShown
    /\ entries[1].pane = NoPane
    /\ \A i \in 2 .. Len(entries) : entries[i].pane \in HomePanes
    /\ place # 1 => entries[1].top = kept[ViewOf(entries[1].hash)]

LEMMA NavInvInit ==
  ASSUME HomeInit
  PROVE  NavInv
<1>1. PICK e : e = [hash |-> "home", pane |-> NoPane, top |-> 0]
  OBVIOUS
<1>2. e \in HomeEntry /\ e.hash = "home" /\ e.pane = NoPane
  BY <1>1 DEF HomeEntry, Hashes
<1>3. entries = <<e>>
  BY <1>1 DEF HomeInit
<1>4. entries \in Seq(HomeEntry) /\ Len(entries) = 1 /\ entries[1] = e
  BY <1>2, <1>3
<1>5. kept \in KeptTops
  BY DEF HomeInit, KeptTops
<1> QED BY <1>2, <1>4, <1>5, HomeAssumption
        DEF HomeInit, NavInv, NavTypes, UrlIsShown, Hashes

LEMMA ViewsKept ==
  ASSUME NEW v \in Hashes
  PROVE  ViewOf(v) \in {"home", "panes", "templates"}
BY DEF Hashes, ViewOf

(* Which entry is shown.                                                   *)
LEMMA PlaceShown ==
  ASSUME NavInv
  PROVE  /\ 1 \in 1 .. Len(entries) /\ place \in 1 .. Len(entries)
         /\ \A i \in 1 .. Len(entries) : entries[i] \in HomeEntry
         /\ place = 1 => view = entries[1].hash /\ view \in Hashes /\ view # "pane"
                         /\ mounted = NoPane
         /\ place # 1 => view = "pane" /\ mounted = entries[place].pane
<1>1. \A i \in 1 .. Len(entries) : entries[i] \in HomeEntry
  BY ElementOfSeq DEF NavInv, NavTypes
<1>2. Len(entries) \in Nat /\ place \in 1 .. Len(entries)
  BY LenProperties DEF NavInv, NavTypes
<1>3. 1 \in 1 .. Len(entries)
  BY <1>2
<1>4. CASE place = 1
  <2>1. entries[place].pane = NoPane
    BY <1>4 DEF NavInv
  <2>2. entries[1].hash \in Hashes
    BY <1>1, <1>3 DEF HomeEntry
  <2> QED BY <1>1, <1>2, <1>3, <1>4, <2>1, <2>2 DEF NavInv, UrlIsShown, Hashes
<1>5. CASE place # 1
  <2>1. entries[place].pane \in HomePanes
    BY <1>2, <1>5 DEF NavInv
  <2> QED BY <1>1, <1>2, <1>3, <1>5, <2>1, HomeAssumption DEF NavInv, UrlIsShown
<1> QED BY <1>4, <1>5

(* The entry that is left, and what is kept of its view.                   *)
LEMMA LeftAsKept ==
  ASSUME NavInv
  PROVE  /\ Left \in Seq(HomeEntry) /\ Len(Left) = Len(entries)
         /\ \A i \in 1 .. Len(entries) : /\ Left[i].pane = entries[i].pane
                                         /\ Left[i].hash = entries[i].hash
         /\ KeepScroll \in KeptTops
         /\ Left[1].top = KeepScroll[ViewOf(Left[1].hash)]
<1>1. CASE place # 1
  <2>1. Left = entries /\ KeepScroll = kept
    BY <1>1, PlaceShown DEF Left, KeepScroll
  <2> QED BY <1>1, <2>1 DEF NavInv, NavTypes
<1>2. CASE place = 1
  <2>1. /\ view = entries[1].hash /\ view \in Hashes /\ view # "pane"
        /\ entries[1] \in HomeEntry /\ 1 \in 1 .. Len(entries)
    BY <1>2, PlaceShown
  <2>2. PICK d : d = entries[1]
    OBVIOUS
  <2>3. PICK e : e = [d EXCEPT !.top = scroll]
    OBVIOUS
  <2>4. scroll \in 0 .. 1 /\ kept \in KeptTops /\ entries \in Seq(HomeEntry)
    BY DEF NavInv, NavTypes
  <2>5. e \in HomeEntry /\ e.pane = d.pane /\ e.hash = d.hash /\ e.top = scroll
    BY <2>1, <2>2, <2>3, <2>4 DEF HomeEntry
  <2>6. Left = [entries EXCEPT ![1] = e]
    BY <1>2, <2>1, <2>2, <2>3 DEF Left
  <2>7. /\ Left \in Seq(HomeEntry) /\ Len(Left) = Len(entries)
        /\ \A i \in 1 .. Len(entries) : Left[i] = IF i = 1 THEN e ELSE entries[i]
    BY <2>1, <2>4, <2>5, <2>6, ExceptSeq
  <2>8. PICK v : v = ViewOf(view)
    OBVIOUS
  <2>9. v \in {"home", "panes", "templates"}
    BY <2>1, <2>8, ViewsKept
  <2>10. KeepScroll = [kept EXCEPT ![v] = scroll]
    BY <2>1, <2>8 DEF KeepScroll
  <2>11. KeepScroll \in KeptTops /\ KeepScroll[v] = scroll
    BY <2>4, <2>9, <2>10 DEF KeptTops
  <2>12. Left[1] = e
    BY <2>1, <2>7
  <2> QED BY <2>1, <2>2, <2>5, <2>7, <2>8, <2>11, <2>12
<1> QED BY <1>1, <1>2

LEMMA OpenPaneNav ==
  ASSUME NavInv, NEW p \in HomePanes, OpenPane(p)
  PROVE  NavInv' /\ view' = "pane"
<1>1. PICK e : e = [hash |-> "home", pane |-> p, top |-> 0]
  OBVIOUS
<1>2. e \in HomeEntry /\ e.pane = p
  BY <1>1 DEF HomeEntry, Hashes
<1>3. PICK s : s = Left
  OBVIOUS
<1>4. PICK k : k = KeepScroll
  OBVIOUS
<1>5. /\ s \in Seq(HomeEntry) /\ Len(s) = Len(entries) /\ k \in KeptTops
      /\ \A i \in 1 .. Len(entries) : s[i].pane = entries[i].pane
      /\ s[1].top = k[ViewOf(s[1].hash)]
  BY <1>3, <1>4, LeftAsKept
<1>6. PICK t : t = SubSeq(s, 1, place)
  OBVIOUS
<1>7. place \in 1 .. Len(s) /\ Len(s) \in Nat
  BY <1>5, LenProperties DEF NavInv, NavTypes
<1>8. \A i \in 1 .. place : s[i] \in HomeEntry
  BY <1>5, <1>7, ElementOfSeq
<1>9. t \in Seq(HomeEntry) /\ Len(t) = place /\ \A i \in 1 .. place : t[i] = s[i]
  <2>1. /\ t \in Seq(HomeEntry) /\ Len(t) = place - 1 + 1
        /\ \A i \in 1 .. place - 1 + 1 : t[i] = s[1 + i - 1]
    BY <1>6, <1>7, <1>8, SubSeqProperties
  <2> QED BY <1>7, <2>1
<1>10. /\ entries' = Append(t, e) /\ place' = place + 1 /\ mounted' = p /\ view' = "pane"
       /\ kept' = k /\ scroll' = 0 /\ place < MaxEntry /\ opening' \subseteq opening \cup {p}
  BY <1>1, <1>3, <1>4, <1>6 DEF OpenPane, MountPaneHost
<1>11. /\ entries' \in Seq(HomeEntry) /\ Len(entries') = place + 1
       /\ \A i \in 1 .. place : entries'[i] = s[i]
       /\ entries'[place + 1] = e
  BY <1>2, <1>9, <1>10, AppendProperties
<1>12. 1 \in 1 .. place /\ 1 \in 1 .. Len(entries)
  BY <1>5, <1>7
<1>13. entries'[1].pane = NoPane /\ entries'[1].top = kept'[ViewOf(entries'[1].hash)]
  BY <1>5, <1>10, <1>11, <1>12 DEF NavInv
<1>14. \A i \in 2 .. Len(entries') : entries'[i].pane \in HomePanes
  <2> SUFFICES ASSUME NEW i \in 2 .. place + 1 PROVE entries'[i].pane \in HomePanes
    BY <1>11
  <2>1. CASE i = place + 1
    BY <1>2, <1>11, <2>1
  <2>2. CASE i # place + 1
    <3>1. i \in 1 .. place /\ i \in 2 .. Len(entries)
      BY <1>5, <1>7, <2>2
    <3>2. entries[i].pane \in HomePanes
      BY <3>1 DEF NavInv
    <3> QED BY <1>5, <1>11, <3>1, <3>2
  <2> QED BY <2>1, <2>2
<1>15. UrlIsShown'
  BY <1>2, <1>10, <1>11, HomeAssumption DEF UrlIsShown
<1>16. NavTypes'
  <2>1. place' \in 1 .. Len(entries') /\ Len(entries') <= MaxEntry
    BY <1>7, <1>10, <1>11, HomeAssumption
  <2> QED BY <1>5, <1>10, <1>11, <2>1 DEF NavInv, NavTypes
<1>17. ViewOf(entries'[1].hash) = ViewOf(entries[1].hash)'
  BY DEF ViewOf
<1> QED BY <1>10, <1>13, <1>14, <1>15, <1>16, <1>17 DEF NavInv

LEMMA GoToNav ==
  ASSUME NavInv, NEW v \in Hashes, GoTo(v)
  PROVE  NavInv' /\ place' = place
<1>1. place = 1
  BY PlaceShown DEF GoTo
<1>2. PICK e : e = [hash |-> v, pane |-> NoPane, top |-> 0]
  OBVIOUS
<1>3. e \in HomeEntry /\ e.pane = NoPane /\ e.hash = v
  BY <1>2 DEF HomeEntry
<1>4. entries' = [entries EXCEPT ![1] = e] /\ place' = place /\ view' = v
      /\ mounted' = mounted /\ scroll' = 0 /\ kept' = KeepScroll /\ opening' = opening
  BY <1>1, <1>2 DEF GoTo, viewVars
<1>5. entries \in Seq(HomeEntry) /\ 1 \in 1 .. Len(entries) /\ mounted = NoPane
  BY <1>1, PlaceShown DEF NavInv, NavTypes
<1>6. /\ entries' \in Seq(HomeEntry) /\ Len(entries') = Len(entries)
      /\ \A i \in 1 .. Len(entries) : entries'[i] = IF i = 1 THEN e ELSE entries[i]
  BY <1>3, <1>4, <1>5, ExceptSeq
<1>7. KeepScroll \in KeptTops
  BY LeftAsKept
<1>8. NavTypes'
  BY <1>4, <1>5, <1>6, <1>7 DEF NavInv, NavTypes
<1>9. Len(entries) \in Nat
  BY <1>5, LenProperties
<1>10. \A i \in 2 .. Len(entries') : entries'[i].pane \in HomePanes
  BY <1>6, <1>9 DEF NavInv
<1> QED BY <1>1, <1>3, <1>4, <1>5, <1>6, <1>8, <1>10 DEF NavInv, UrlIsShown

(* Back and Forward: from a list to the pane behind it, or between panes,  *)
(* or to the list, whose scrolling was kept.                               *)
GoesBack ==
    place' # place /\ view' # "pane" =>
        /\ ViewOf(view') = ViewOf(entries[place'].hash) /\ scroll' = entries[place'].top
        /\ DefaultSegment = "templates" => view' = entries[place'].hash

LEMMA SegmentsSeen ==
  ASSUME NEW h \in Hashes
  PROVE  /\ SegmentOf(h) \in Hashes /\ ViewOf(SegmentOf(h)) = ViewOf(h)
         /\ DefaultSegment = "templates" => SegmentOf(h) = h
BY HomeAssumption DEF Hashes, SegmentOf, ViewOf

LEMMA TravelNav ==
  ASSUME NavInv, NEW to \in Nat, Travel(to)
  PROVE  NavInv' /\ GoesBack
<1>1. PICK s : s = Left
  OBVIOUS
<1>2. PICK k : k = KeepScroll
  OBVIOUS
<1>3. /\ s \in Seq(HomeEntry) /\ Len(s) = Len(entries) /\ k \in KeptTops
      /\ \A i \in 1 .. Len(entries) : s[i].pane = entries[i].pane /\ s[i].hash = entries[i].hash
      /\ s[1].top = k[ViewOf(s[1].hash)]
  BY <1>1, <1>2, LeftAsKept
<1>4. entries \in Seq(HomeEntry) /\ Len(entries) \in Nat /\ to \in 1 .. Len(entries)
  BY LenProperties DEF NavInv, NavTypes, Travel
<1>5. 1 \in 1 .. Len(entries) /\ place' = to
  BY <1>4 DEF Travel
<1>6. CASE to # 1
  <2>1. entries[to].pane \in HomePanes /\ entries[to].pane # NoPane
    BY <1>4, <1>6, HomeAssumption DEF NavInv
  <2>2. /\ mounted' = entries[to].pane /\ view' = "pane" /\ kept' = k /\ scroll' = 0
        /\ entries' = s /\ opening' \subseteq opening \cup {entries[to].pane}
    BY <1>1, <1>2, <2>1 DEF Travel, MountPaneHost
  <2>3. entries'[1].pane = NoPane /\ \A i \in 2 .. Len(entries') : entries'[i].pane \in HomePanes
    BY <1>3, <1>4, <1>5, <2>2 DEF NavInv
  <2>4. UrlIsShown'
    BY <1>3, <1>4, <1>5, <2>1, <2>2 DEF UrlIsShown
  <2>5. NavTypes'
    BY <1>3, <1>4, <1>5, <2>1, <2>2 DEF NavInv, NavTypes
  <2>6. entries'[1].top = kept'[ViewOf(entries[1].hash)']
    BY <1>3, <1>5, <2>2 DEF ViewOf
  <2> QED BY <2>2, <2>3, <2>4, <2>5, <2>6 DEF NavInv, GoesBack
<1>7. CASE to = 1
  <2>1. entries[to].pane = NoPane
    BY <1>7 DEF NavInv
  <2>2. PICK d : d = s[1]
    OBVIOUS
  <2>3. PICK h : h = SegmentOf(entries[1].hash)
    OBVIOUS
  <2>4. entries[1].hash \in Hashes /\ d \in HomeEntry
    BY <1>3, <1>5, <2>2, PlaceShown, ElementOfSeq DEF HomeEntry
  <2>5. /\ h \in Hashes /\ ViewOf(h) = ViewOf(entries[1].hash)
        /\ DefaultSegment = "templates" => h = entries[1].hash
    BY <2>3, <2>4, SegmentsSeen
  <2>6. PICK e : e = [d EXCEPT !.hash = h]
    OBVIOUS
  <2>7. e \in HomeEntry /\ e.hash = h /\ e.pane = d.pane /\ e.top = d.top
    BY <2>4, <2>5, <2>6 DEF HomeEntry
  <2>8. /\ mounted' = NoPane /\ view' = h /\ kept' = k /\ opening' = opening
        /\ scroll' = k[ViewOf(entries[1].hash)]
    BY <1>2, <1>7, <2>1, <2>3 DEF Travel, Restore
  <2>9. entries' = [s EXCEPT ![1] = e]
    BY <1>1, <1>7, <2>1, <2>2, <2>6, <2>8 DEF Travel
  <2>10. /\ entries' \in Seq(HomeEntry) /\ Len(entries') = Len(entries)
         /\ \A i \in 1 .. Len(entries) : entries'[i] = IF i = 1 THEN e ELSE s[i]
    BY <1>3, <1>5, <2>7, <2>9, ExceptSeq
  <2>11. entries'[1] = e /\ d.pane = NoPane /\ d.top = k[ViewOf(entries[1].hash)]
    BY <1>3, <1>5, <1>7, <2>1, <2>2, <2>10
  <2>12. scroll' \in 0 .. 1
    BY <1>3, <2>4, <2>8, ViewsKept DEF KeptTops
  <2>13. \A i \in 2 .. Len(entries') : entries'[i].pane \in HomePanes
    <3> SUFFICES ASSUME NEW i \in 2 .. Len(entries) PROVE entries'[i].pane \in HomePanes
      BY <2>10
    <3>1. i \in 1 .. Len(entries) /\ i # 1
      BY <1>4
    <3>2. entries[i].pane \in HomePanes
      BY DEF NavInv
    <3>3. entries'[i] = s[i] /\ s[i].pane = entries[i].pane
      BY <1>3, <2>10, <3>1
    <3> QED BY <3>2, <3>3
  <2>14. UrlIsShown'
    BY <1>5, <1>7, <2>7, <2>8, <2>11 DEF UrlIsShown
  <2>15. NavTypes'
    BY <1>3, <1>5, <1>7, <2>5, <2>8, <2>10, <2>12 DEF NavInv, NavTypes
  <2>16. GoesBack
    <3> SUFFICES ASSUME place' # place
                 PROVE  /\ ViewOf(view') = ViewOf(entries[1].hash) /\ scroll' = entries[1].top
                        /\ DefaultSegment = "templates" => view' = entries[1].hash
      BY <1>5, <1>7 DEF GoesBack
    <3>1. s = entries
      BY <1>1, <1>5, <1>7, PlaceShown DEF Left
    <3>2. ViewOf(view') = ViewOf(h)
      BY <2>8
    <3> QED BY <2>2, <2>5, <2>8, <2>11, <3>1, <3>2
  <2> QED BY <1>5, <1>7, <2>7, <2>11, <2>13, <2>14, <2>15, <2>16 DEF NavInv
<1> QED BY <1>6, <1>7

(* What a reload does, part by part.                                       *)
LEMMA ReloadParts ==
  ASSUME ReloadHome
  PROVE  /\ view # "pane" /\ view' = SegmentOf(entries[place].hash) /\ mounted' = NoPane
         /\ scroll' = 0 /\ kept' = [v \in DOMAIN kept |-> 0]
         /\ entries' = [i \in DOMAIN entries |->
               [entries[i] EXCEPT !.top = 0, !.hash = IF i = place THEN view' ELSE @]]
         /\ busy' = {} /\ revived' = {}
         /\ listed' = [p \in HomePanes |->
               [row |-> ~owned[p].trashed, star |-> owned[p].favorite,
                card |-> owned[p].viewed /\ ~owned[p].trashed, tags |-> owned[p].tags]]
         /\ strip' = [p \in HomePanes |->
               IF owned[p].favorite /\ ~owned[p].trashed THEN 1 ELSE 0]
         /\ editor' = [p \in HomePanes |-> "closed"]
         /\ says' = [revoked |-> ownAgent.revoked, key |-> 0]
         /\ chip' = Cardinality({p \in HomePanes : ~owned[p].trashed})
         /\ place' = place /\ opening' = opening /\ owned' = owned /\ ownAgent' = ownAgent
BY Zenon DEF ReloadHome

LEMMA ReloadAbandons ==
  ASSUME ReloadHome
  PROVE  sending' = [r \in Sends |-> Abandoned(r)]
BY Zenon DEF ReloadHome

LEMMA ReloadDoubts ==
  ASSUME ReloadHome, NEW r \in Sends, Abandoned(r) # Free
  PROVE  sending[r].on \in doubt'
BY Zenon DEF ReloadHome

LEMMA ReloadNav ==
  ASSUME NavInv, ReloadHome
  PROVE  NavInv' /\ place' = place
<1>1. place = 1 /\ view = entries[1].hash /\ view \in Hashes
  BY PlaceShown, ReloadParts
<1>2. /\ view' = SegmentOf(view) /\ mounted' = NoPane /\ scroll' = 0 /\ place' = 1
      /\ opening' = opening
  BY <1>1, ReloadParts
<1>3. kept' \in KeptTops
  <2>1. DOMAIN kept = {"home", "panes", "templates"}
    BY DEF NavInv, NavTypes, KeptTops
  <2>2. kept' = [v \in DOMAIN kept |-> 0]
    BY ReloadParts
  <2>3. kept' = [v \in {"home", "panes", "templates"} |-> 0]
    BY <2>1, <2>2, Zenon
  <2>4. 0 \in 0 .. 1
    OBVIOUS
  <2> QED BY <2>3, <2>4 DEF KeptTops
<1>4. entries \in Seq(HomeEntry) /\ Len(entries) \in Nat /\ DOMAIN entries = 1 .. Len(entries)
  BY LenProperties DEF NavInv, NavTypes
<1>5. PICK v : v = view'
  OBVIOUS
<1>6. v \in Hashes
  BY <1>1, <1>2, <1>5, SegmentsSeen
<1>7. entries' = [i \in 1 .. Len(entries) |->
                     [entries[i] EXCEPT !.top = 0, !.hash = IF i = 1 THEN v ELSE @]]
  BY <1>1, <1>4, <1>5, ReloadParts, Zenon
<1>8. \A i \in 1 .. Len(entries) :
         /\ entries'[i] \in HomeEntry /\ entries'[i].pane = entries[i].pane
         /\ i = 1 => entries'[i].hash = v
  <2> SUFFICES ASSUME NEW i \in 1 .. Len(entries)
               PROVE  /\ entries'[i] \in HomeEntry /\ entries'[i].pane = entries[i].pane
                      /\ i = 1 => entries'[i].hash = v
    OBVIOUS
  <2>1. PICK d : d = entries[i]
    OBVIOUS
  <2>2. PICK h : h = IF i = 1 THEN v ELSE d.hash
    OBVIOUS
  <2>3. d \in HomeEntry
    BY <2>1, PlaceShown
  <2>4. h \in Hashes
    BY <1>6, <2>2, <2>3 DEF HomeEntry
  <2>5. PICK e : e = [d EXCEPT !.top = 0, !.hash = h]
    OBVIOUS
  <2>6. e \in HomeEntry /\ e.pane = d.pane /\ e.hash = h
    <3>1. PICK c : c = [d EXCEPT !.top = 0]
      OBVIOUS
    <3>2. c \in HomeEntry /\ c.pane = d.pane
      BY <2>3, <3>1 DEF HomeEntry
    <3>3. e = [c EXCEPT !.hash = h]
      BY <2>5, <3>1
    <3> QED BY <2>4, <3>2, <3>3 DEF HomeEntry
  <2>7. entries'[i] = e
    BY <1>7, <2>1, <2>2, <2>5
  <2> QED BY <2>1, <2>2, <2>6, <2>7
<1>9. entries' \in [1 .. Len(entries) -> HomeEntry]
  BY <1>7, <1>8
<1>10. entries' \in Seq(HomeEntry) /\ Len(entries') = Len(entries)
  BY <1>4, <1>9
<1>11. 1 \in 1 .. Len(entries)
  BY PlaceShown
<1>12. NavTypes'
  BY <1>1, <1>2, <1>3, <1>5, <1>6, <1>10, <1>11 DEF NavInv, NavTypes
<1>13. UrlIsShown'
  BY <1>2, <1>5, <1>8, <1>11 DEF NavInv, UrlIsShown
<1>14. entries'[1].pane = NoPane /\ \A i \in 2 .. Len(entries') : entries'[i].pane \in HomePanes
  BY <1>4, <1>8, <1>10, <1>11 DEF NavInv
<1> QED BY <1>1, <1>2, <1>12, <1>13, <1>14 DEF NavInv

LEMMA NavStays ==
  ASSUME NavInv, UNCHANGED navVars
  PROVE  NavInv' /\ place' = place
<1>1. /\ entries' = entries /\ place' = place /\ view' = view /\ mounted' = mounted
      /\ scroll' = scroll /\ kept' = kept /\ opening' = opening
  BY DEF navVars, viewVars
<1> QED BY <1>1 DEF NavInv, NavTypes, UrlIsShown, ViewOf

LEMMA RecordsNav ==
  ASSUME NavInv, NEW p \in HomePanes, RecordsView(p)
  PROVE  NavInv' /\ place' = place
<1>1. /\ entries' = entries /\ place' = place /\ view' = view /\ mounted' = mounted
      /\ scroll' = scroll /\ kept' = kept /\ opening' \subseteq opening
  BY DEF RecordsView
<1> QED BY <1>1 DEF NavInv, NavTypes, UrlIsShown, ViewOf

LEMMA ScrollNav ==
  ASSUME NavInv, ScrollMain
  PROVE  NavInv' /\ place' = place
<1>1. /\ entries' = entries /\ place' = place /\ view' = view /\ mounted' = mounted
      /\ scroll' = 1 - scroll /\ kept' = kept /\ opening' = opening
  BY DEF ScrollMain, viewVars
<1>2. scroll' \in 0 .. 1
  BY <1>1 DEF NavInv, NavTypes
<1> QED BY <1>1, <1>2 DEF NavInv, NavTypes, UrlIsShown, ViewOf

(* Every step, and that the step goes back to what was left.               *)
LEMMA NavStep ==
  ASSUME NavInv, [HomeNext]_homeVars
  PROVE  NavInv' /\ GoesBack
<1>1. CASE \E v \in Hashes : GoTo(v)
  BY <1>1, GoToNav DEF GoesBack
<1>2. CASE ScrollMain
  BY <1>2, ScrollNav DEF GoesBack
<1>3. CASE Travel(place - 1) \/ Travel(place + 1)
  <2>1. place \in Nat \ {0}
    BY LenProperties DEF NavInv, NavTypes
  <2>2. place - 1 \in Nat /\ place + 1 \in Nat
    BY <2>1
  <2> QED BY <1>3, <2>2, TravelNav
<1>4. CASE ReloadHome
  BY <1>4, ReloadNav DEF GoesBack
<1>5. CASE \E p \in HomePanes : ClickPane(p) \/ RecordsView(p)
  BY <1>5, OpenPaneNav, RecordsNav DEF ClickPane, GoesBack
<1>6. CASE \E r \in Sends : Launched(r)
  BY <1>6, OpenPaneNav, HomeAssumption DEF Launched, GoesBack
<1>7. CASE UNCHANGED navVars
  BY <1>7, NavStays DEF GoesBack
<1>8. CASE OpenSheet \/ \E r \in Sends :
              ClickTile(r) \/ ClickInstall(r) \/ Installed(r) \/ LaunchFails(r)
  BY <1>7, <1>8 DEF OpenSheet, ClickTile, ClickInstall, Installed, LaunchFails
<1>9. CASE ListNext
  BY <1>7, <1>9 DEF ListNext, OpenTagEditor, CancelTags, ClickStar, ClickDelete, ClickHide,
       SaveTags, Serves, Refuses, ShowStar, ShowDeleted, ShowHidden, ShowTags
<1>10. CASE AgentsNext
  BY <1>7, <1>10 DEF AgentsNext, ClickRotate, ClickRevoke, ServesAgent, ShowAgent
<1>11. CASE \E r \in Sends : IsLost(r) \/ ShowFailure(r)
  BY <1>7, <1>11 DEF IsLost, ShowFailure
<1>12. CASE UNCHANGED homeVars
  BY <1>7, <1>12 DEF homeVars
<1> QED BY <1>1, <1>2, <1>3, <1>4, <1>5, <1>6, <1>8, <1>9, <1>10, <1>11, <1>12
        DEF HomeNext, NavNext

-----------------------------------------------------------------------------
(* What a request may know of the page and of the relay on its way.        *)
OwnedPane == [trashed : BOOLEAN, favorite : BOOLEAN, tags : TagLists, viewed : BOOLEAN]
ListedPane == [row : BOOLEAN, card : BOOLEAN, star : BOOLEAN, tags : TagLists]
HomeRequest ==
    [op : Ops \cup {"none"}, on : HomePanes \cup {NoPane, "tile", "sheet", Agent},
     with : TagLists \cup Nat, step : {"free", "sent", "yes", "no", "orphan"}]
Starring == {"star", "unstar"}
PaneOps == Starring \cup {"trash", "hide", "tags"}

ListTypes ==
    /\ owned \in [HomePanes -> OwnedPane] /\ listed \in [HomePanes -> ListedPane]
    /\ strip \in [HomePanes -> Nat] /\ chip \in Nat
    /\ editor \in [HomePanes -> {"closed", "open"} \cup Sends]
    /\ ownAgent \in [revoked : BOOLEAN, key : 1 .. MaxSecret]
    /\ says \in [revoked : BOOLEAN, key : 0 .. MaxSecret]
    /\ revived \subseteq HomePanes

AskedOf(q) ==
    /\ q \in HomeRequest
    /\ q.op \in {"install", "launch"} => q.on \in {"tile", "sheet"}
    /\ q.op \in PaneOps => q.on \in HomePanes
    /\ q.op \in {"rotate", "revoke"} => q.on = Agent
    /\ q.op = "tags" => q.with \in TagLists
    /\ q.op = "rotate" => q.with \in 0 .. MaxSecret

(* What a page that is still there asked for.                              *)
Stars(q) == q.op \in Starring /\ q.step # "orphan"
Rotates(q) == q.op = "rotate" /\ q.step # "orphan"

(* Until it is answered, a star is as the page and, unless an answer was   *)
(* lost, the relay had it; afterwards the relay has it otherwise.          *)
StarAsked(q) ==
    Stars(q) =>
        /\ q.on \in busy
        /\ listed[q.on].star <=> q.op = "unstar"
        /\ q.on \notin doubt =>
              (owned[q.on].favorite <=> IF q.step = "yes" THEN q.op = "star"
                                                          ELSE q.op = "unstar")

Granted(q) ==
    q.step = "yes" =>
        /\ q.op = "trash" => owned[q.on].trashed
        /\ q.op = "hide" => ~owned[q.on].viewed \/ q.on \in revived
        /\ q.op = "revoke" => ownAgent.revoked

(* While a key is asked for, none is shown.                                *)
KeyAsked(q) ==
    Rotates(q) => /\ "rotate" \in busy /\ says.key = 0
                  /\ q.step = "yes" /\ Agent \notin doubt => q.with = ownAgent.key

(* What a page that was left asked for may still happen.                   *)
Orphaned(q) == q.step = "orphan" => q.on \in doubt

RequestOK(q) == StarAsked(q) /\ Granted(q) /\ KeyAsked(q) /\ Orphaned(q)

(* A control that was used is disabled until the answer.                   *)
OneEach ==
    \A r, s \in Sends :
        \/ r = s
        \/ /\ Stars(sending[r]) /\ Stars(sending[s]) => sending[r].on # sending[s].on
           /\ ~(Rotates(sending[r]) /\ Rotates(sending[s]))

PageInv ==
    /\ StarIsFavorite /\ GoneIsGone
    /\ says.key # 0 => "rotate" \in busy

ListInv ==
    /\ ListTypes /\ PageInv /\ OneEach
    /\ \A r \in Sends : AskedOf(sending[r]) /\ RequestOK(sending[r])
    /\ sending \in [Sends -> HomeRequest]

LEMMA FreeIsAsked == AskedOf(Free) /\ RequestOK(Free) /\ RequestOK(Free)'
<1>1. PICK q : q = Free
  OBVIOUS
<1>2. q \in HomeRequest /\ q.op = "none" /\ q.step = "free"
  BY <1>1 DEF Free, HomeRequest
<1>3. AskedOf(q)
  BY <1>2 DEF AskedOf, PaneOps, Starring
<1>4. RequestOK(q) /\ RequestOK(q)'
  BY <1>2 DEF RequestOK, StarAsked, Granted, KeyAsked, Orphaned, Stars, Rotates, Starring
<1> QED BY <1>1, <1>3, <1>4

(* A function at one place and elsewhere.                                  *)
LEMMA OnePlace ==
  ASSUME NEW S, NEW T, NEW f \in [S -> T], NEW x \in S, NEW v \in T, NEW g,
         g = [f EXCEPT ![x] = v]
  PROVE  g \in [S -> T] /\ g[x] = v /\ \A y \in S \ {x} : g[y] = f[y]
OBVIOUS

(* What a step leaves alone for a request that stays as it is.             *)
Spares(q) ==
    /\ q.op \in PaneOps =>
          /\ owned[q.on].trashed => owned'[q.on].trashed
          /\ ~owned[q.on].viewed \/ q.on \in revived =>
                ~owned'[q.on].viewed \/ q.on \in revived'
    /\ Stars(q) =>
          /\ q.on \in busy => q.on \in busy'
          /\ listed'[q.on].star = listed[q.on].star
          /\ q.on \notin doubt' =>
                q.on \notin doubt /\ owned'[q.on].favorite = owned[q.on].favorite
    /\ q.op = "revoke" => (ownAgent.revoked => ownAgent'.revoked)
    /\ Rotates(q) => /\ "rotate" \in busy => "rotate" \in busy'
                     /\ says'.key = says.key
                     /\ Agent \notin doubt' =>
                           Agent \notin doubt /\ ownAgent'.key = ownAgent.key
    /\ doubt \subseteq doubt'

LEMMA SparedIsOK ==
  ASSUME NEW q, RequestOK(q), Spares(q)
  PROVE  RequestOK(q)'
<1>1. StarAsked(q)'
  BY DEF RequestOK, StarAsked, Spares, Stars
<1>2. Granted(q)'
  BY DEF RequestOK, Granted, Spares, PaneOps
<1>3. KeyAsked(q)'
  BY DEF RequestOK, KeyAsked, Spares, Rotates
<1>4. Orphaned(q)'
  BY DEF RequestOK, Orphaned, Spares
<1> QED BY <1>1, <1>2, <1>3, <1>4 DEF RequestOK

(* One request is sent, is answered or ends.                               *)
LEMMA OneRequestMoves ==
  ASSUME ListInv, NEW r \in Sends, NEW q, AskedOf(q), RequestOK(q)',
         sending' = [sending EXCEPT ![r] = q], ListTypes', PageInv',
         \A s \in Sends \ {r} :
            /\ Spares(sending[s])
            /\ Stars(q) /\ Stars(sending[s]) => sending[s].on # q.on
            /\ ~(Rotates(q) /\ Rotates(sending[s]))
  PROVE  ListInv'
<1>1. sending \in [Sends -> HomeRequest] /\ q \in HomeRequest
  BY DEF ListInv, AskedOf
<1>2. /\ sending' \in [Sends -> HomeRequest] /\ sending'[r] = q
      /\ \A s \in Sends \ {r} : sending'[s] = sending[s]
  BY <1>1
<1>3. \A s \in Sends : AskedOf(sending'[s]) /\ RequestOK(sending[s])'
  <2> SUFFICES ASSUME NEW s \in Sends PROVE AskedOf(sending'[s]) /\ RequestOK(sending[s])'
    OBVIOUS
  <2>1. CASE s = r
    BY <1>2, <2>1 DEF RequestOK, StarAsked, Granted, KeyAsked, Orphaned, Stars, Rotates
  <2>2. CASE s # r
    <3>1. PICK p : p = sending[s]
      OBVIOUS
    <3>2. AskedOf(p) /\ RequestOK(p) /\ Spares(p)
      BY <2>2, <3>1 DEF ListInv
    <3>3. RequestOK(p)'
      BY <3>2, SparedIsOK
    <3>4. sending'[s] = p
      BY <1>2, <2>2, <3>1
    <3> QED BY <3>2, <3>3, <3>4
            DEF RequestOK, StarAsked, Granted, KeyAsked, Orphaned, Stars, Rotates
  <2> QED BY <2>1, <2>2
<1>4. OneEach'
  BY <1>2 DEF ListInv, OneEach
<1> QED BY <1>2, <1>3, <1>4 DEF ListInv, AskedOf

(* No request moves.                                                       *)
LEMMA RequestsStay ==
  ASSUME ListInv, UNCHANGED sending, ListTypes', PageInv',
         \A s \in Sends : Spares(sending[s])
  PROVE  ListInv'
<1>1. \A s \in Sends : RequestOK(sending[s])'
  <2> SUFFICES ASSUME NEW s \in Sends PROVE RequestOK(sending[s])'
    OBVIOUS
  <2>1. PICK p : p = sending[s]
    OBVIOUS
  <2>2. RequestOK(p)'
    BY <2>1, SparedIsOK DEF ListInv
  <2> QED BY <2>1, <2>2 DEF RequestOK, StarAsked, Granted, KeyAsked, Orphaned, Stars, Rotates
<1> QED BY <1>1 DEF ListInv, OneEach, AskedOf

(* Nothing but requests and controls changes, and of the controls those    *)
(* that are pressed, or the two that launch.                               *)
Quiet ==
    /\ UNCHANGED <<owned, listed, strip, chip, ownAgent, says, doubt, revived>>
    /\ editor' \in [HomePanes -> {"closed", "open"} \cup Sends]
    /\ busy \ {"tile", "sheet"} \subseteq busy'

LEMMA QuietKeeps ==
  ASSUME ListInv, Quiet
  PROVE  ListTypes' /\ PageInv' /\ \A s \in Sends : Spares(sending[s])
<1>1. ListTypes'
  BY DEF ListInv, ListTypes, Quiet
<1>2. PageInv'
  <2>1. \A p \in HomePanes : p \in busy => p \in busy'
    BY HomeAssumption DEF Quiet
  <2>2. "rotate" \in busy => "rotate" \in busy'
    BY DEF Quiet
  <2> QED BY <2>1, <2>2 DEF ListInv, PageInv, StarIsFavorite, GoneIsGone, Quiet
<1>3. ASSUME NEW s \in Sends PROVE Spares(sending[s])
  <2>1. sending[s].op \in Starring => sending[s].on \in HomePanes
    BY DEF ListInv, AskedOf, PaneOps
  <2>2. sending[s].op \in Starring => sending[s].on \notin {"tile", "sheet"}
    BY <2>1, HomeAssumption
  <2> QED BY <2>2 DEF Quiet, Spares, Stars
<1> QED BY <1>1, <1>2, <1>3

LEMMA SentQuietly ==
  ASSUME ListInv, Quiet, NEW r \in Sends, NEW op, NEW on, NEW with,
         SendReq(r, op, on, with), NEW q,
         q = [op |-> op, on |-> on, with |-> with, step |-> "sent"],
         AskedOf(q), RequestOK(q)',
         op \in Starring => on \notin busy,
         op = "rotate" => "rotate" \notin busy
  PROVE  ListInv'
<1>1. sending' = [sending EXCEPT ![r] = q] /\ q.op = op /\ q.on = on
  BY DEF SendReq
<1>2. \A s \in Sends : /\ Stars(sending[s]) => sending[s].on \in busy
                       /\ Rotates(sending[s]) => "rotate" \in busy
  BY DEF ListInv, RequestOK, StarAsked, KeyAsked
<1>3. ASSUME NEW s \in Sends \ {r}
      PROVE  /\ Stars(q) /\ Stars(sending[s]) => sending[s].on # q.on
             /\ ~(Rotates(q) /\ Rotates(sending[s]))
  <2>1. Stars(q) => q.on \notin busy
    BY <1>1 DEF Stars
  <2>2. Rotates(q) => "rotate" \notin busy
    BY <1>1 DEF Rotates
  <2> QED BY <1>2, <2>1, <2>2
<1> QED BY <1>1, <1>3, QuietKeeps, OneRequestMoves

(* A request is over.                                                      *)
LEMMA RequestOver ==
  ASSUME ListInv, NEW r \in Sends, Over(r), ListTypes', PageInv',
         \A s \in Sends \ {r} : Spares(sending[s])
  PROVE  ListInv'
<1>1. PICK q : q = Free
  OBVIOUS
<1>2. AskedOf(q) /\ RequestOK(q)'
  BY <1>1, FreeIsAsked DEF RequestOK, StarAsked, Granted, KeyAsked, Orphaned, Stars, Rotates
<1>3. sending' = [sending EXCEPT ![r] = q]
  BY <1>1 DEF Over
<1>4. q.op = "none"
  BY <1>1 DEF Free
<1>5. ~Stars(q) /\ ~Rotates(q)
  BY <1>4 DEF Stars, Rotates, Starring
<1> QED BY <1>2, <1>3, <1>5, OneRequestMoves

(* A request is answered, with what it was asked.                          *)
LEMMA RequestAnswered ==
  ASSUME ListInv, NEW r \in Sends, NEW step \in {"yes", "no"}, Answer(r, step),
         sending[r].step # "orphan", ListTypes', PageInv',
         NEW q, q = [sending[r] EXCEPT !.step = step], RequestOK(q)',
         \A s \in Sends \ {r} : Spares(sending[s])
  PROVE  ListInv'
<1>1. sending' = [sending EXCEPT ![r] = q]
  BY DEF Answer
<1>2. sending[r] \in HomeRequest /\ AskedOf(sending[r]) /\ OneEach
  BY DEF ListInv
<1>3. q \in HomeRequest /\ q.op = sending[r].op /\ q.on = sending[r].on
      /\ q.with = sending[r].with
  BY <1>2 DEF HomeRequest
<1>4. AskedOf(q)
  BY <1>2, <1>3 DEF AskedOf
<1>5. \A s \in Sends \ {r} :
            /\ Stars(q) /\ Stars(sending[s]) => sending[s].on # q.on
            /\ ~(Rotates(q) /\ Rotates(sending[s]))
  BY <1>2, <1>3 DEF OneEach, Stars, Rotates
<1> QED BY <1>1, <1>4, <1>5, OneRequestMoves

(* A request is answered, or that of a page that was left is over.         *)
LEMMA RequestReplied ==
  ASSUME ListInv, NEW r \in Sends, NEW step \in {"yes", "no"}, Reply(r, step),
         ListTypes', PageInv', NEW q, q = [sending[r] EXCEPT !.step = step],
         sending[r].step # "orphan" => RequestOK(q)',
         \A s \in Sends \ {r} : Spares(sending[s])
  PROVE  ListInv'
<1>1. CASE sending[r].step = "orphan"
  BY <1>1, RequestOver DEF Reply
<1>2. CASE sending[r].step # "orphan"
  BY <1>2, RequestAnswered DEF Reply
<1> QED BY <1>1, <1>2

-----------------------------------------------------------------------------
(* The controls.                                                           *)
LEMMA ClickLaunchStep ==
  ASSUME ListInv, NEW r \in Sends, ClickTile(r) \/ ClickInstall(r)
  PROVE  ListInv'
<1>1. PICK op \in {"launch", "install"}, on \in {"tile", "sheet"} :
         SendReq(r, op, on, 0) /\ busy' = busy \cup {on}
  BY DEF ClickTile, ClickInstall
<1>2. Quiet
  BY <1>1 DEF ClickTile, ClickInstall, Quiet, navVars, viewVars,
         listVars, agentVars, ListInv, ListTypes
<1>3. PICK q : q = [op |-> op, on |-> on, with |-> 0, step |-> "sent"]
  OBVIOUS
<1>4. q \in HomeRequest /\ q.op = op /\ q.on = on /\ q.step = "sent"
  BY <1>3 DEF HomeRequest, Ops
<1>5. AskedOf(q) /\ RequestOK(q)'
  BY <1>4 DEF AskedOf, PaneOps, Starring, RequestOK, StarAsked, Granted, KeyAsked,
             Orphaned, Stars, Rotates
<1> QED BY <1>1, <1>2, <1>3, <1>5, SentQuietly DEF Starring

LEMMA ClickStarStep ==
  ASSUME ListInv, NEW r \in Sends, NEW p \in HomePanes, ClickStar(r, p)
  PROVE  ListInv'
<1>1. PICK op : op = IF listed[p].star THEN "unstar" ELSE "star"
  OBVIOUS
<1>2. SendReq(r, op, p, 0) /\ p \notin busy /\ busy' = busy \cup {p}
  BY <1>1 DEF ClickStar
<1>3. Quiet
  BY <1>2 DEF ClickStar, Quiet, navVars, viewVars,
         listVars, agentVars, ListInv, ListTypes
<1>4. PICK q : q = [op |-> op, on |-> p, with |-> 0, step |-> "sent"]
  OBVIOUS
<1>5. q \in HomeRequest /\ q.op = op /\ q.on = p /\ q.step = "sent"
  BY <1>1, <1>4 DEF HomeRequest, Ops
<1>6. op \in Starring /\ (listed[p].star <=> op = "unstar")
  BY <1>1 DEF Starring
<1>7. AskedOf(q)
  BY <1>5, <1>6 DEF AskedOf, PaneOps, Starring
<1>8. p \notin doubt => listed[p].star = owned[p].favorite
  BY <1>2 DEF ListInv, PageInv, StarIsFavorite
<1>9. RequestOK(q)'
  BY <1>2, <1>3, <1>5, <1>6, <1>8 DEF RequestOK, StarAsked, Granted, KeyAsked, Orphaned,
         Stars, Rotates, Quiet, Starring
<1> QED BY <1>2, <1>3, <1>4, <1>6, <1>7, <1>9, SentQuietly DEF Starring

LEMMA ClickRowStep ==
  ASSUME ListInv, NEW r \in Sends, NEW p \in HomePanes,
         ClickDelete(r, p) \/ ClickHide(r, p) \/ \E t \in TagLists : SaveTags(r, p, t)
  PROVE  ListInv'
<1>1. PICK op \in {"trash", "hide", "tags"}, with \in TagLists \cup Nat :
         SendReq(r, op, p, with) /\ (op = "tags" => with \in TagLists)
  <2>1. CASE ClickDelete(r, p)
    BY <2>1 DEF ClickDelete
  <2>2. CASE ClickHide(r, p)
    BY <2>2 DEF ClickHide
  <2>3. CASE \E t \in TagLists : SaveTags(r, p, t)
    BY <2>3 DEF SaveTags
  <2> QED BY <2>1, <2>2, <2>3
<1>2. Quiet
  BY DEF ClickDelete, ClickHide, SaveTags, SetEditor, Quiet, navVars, viewVars,
         listVars, agentVars, ListInv, ListTypes
<1>3. PICK q : q = [op |-> op, on |-> p, with |-> with, step |-> "sent"]
  OBVIOUS
<1>4. q \in HomeRequest /\ q.op = op /\ q.on = p /\ q.with = with /\ q.step = "sent"
  BY <1>3 DEF HomeRequest, Ops
<1>5. AskedOf(q) /\ RequestOK(q)'
  BY <1>1, <1>4 DEF AskedOf, PaneOps, Starring, RequestOK, StarAsked, Granted, KeyAsked,
             Orphaned, Stars, Rotates
<1> QED BY <1>1, <1>2, <1>3, <1>5, SentQuietly DEF Starring

LEMMA ClickAgentStep ==
  ASSUME ListInv, NEW r \in Sends, ClickRotate(r) \/ ClickRevoke(r)
  PROVE  ListInv'
<1>1. PICK op \in {"rotate", "revoke"} :
         SendReq(r, op, Agent, 0) /\ op \notin busy /\ busy' = busy \cup {op}
  BY DEF ClickRotate, ClickRevoke
<1>2. Quiet
  BY <1>1 DEF ClickRotate, ClickRevoke, Quiet, navVars, viewVars,
         listVars, agentVars, ListInv, ListTypes
<1>3. PICK q : q = [op |-> op, on |-> Agent, with |-> 0, step |-> "sent"]
  OBVIOUS
<1>4. q \in HomeRequest /\ q.op = op /\ q.on = Agent /\ q.step = "sent" /\ q.with = 0
  BY <1>3 DEF HomeRequest, Ops
<1>5. AskedOf(q)
  <2>1. 0 \in 0 .. MaxSecret
    BY HomeAssumption
  <2> QED BY <1>4, <2>1 DEF AskedOf, PaneOps, Starring
<1>6. op = "rotate" => says.key = 0
  BY <1>1 DEF ListInv, PageInv
<1>7. RequestOK(q)'
  BY <1>1, <1>2, <1>4, <1>6 DEF RequestOK, StarAsked, Granted, KeyAsked, Orphaned,
         Stars, Rotates, Starring, Quiet
<1> QED BY <1>1, <1>2, <1>3, <1>5, <1>7, SentQuietly DEF Starring

LEMMA LaunchingStep ==
  ASSUME ListInv, NEW r \in Sends, Installed(r) \/ Launched(r) \/ LaunchFails(r)
  PROVE  ListInv'
<1>1. sending[r] \in HomeRequest /\ AskedOf(sending[r])
  BY DEF ListInv
<1>2. sending[r].on \in {"tile", "sheet"} /\ sending[r].step = "sent"
  BY <1>1 DEF Installed, Launched, LaunchFails, Under, AskedOf
<1>3. Quiet
  BY <1>2 DEF Installed, Launched, LaunchFails, Quiet, navVars, viewVars,
         listVars, agentVars, ListInv, ListTypes
<1>4. CASE Over(r)
  BY <1>3, <1>4, QuietKeeps, RequestOver
<1>5. CASE Installed(r)
  <2>1. PICK q : q = [sending[r] EXCEPT !.op = "launch"]
    OBVIOUS
  <2>2. /\ q \in HomeRequest /\ q.op = "launch" /\ q.on \in {"tile", "sheet"}
        /\ q.step = "sent"
    BY <1>1, <1>2, <2>1 DEF HomeRequest, Ops
  <2>3. AskedOf(q) /\ RequestOK(q)'
    BY <2>2 DEF AskedOf, PaneOps, Starring, RequestOK, StarAsked, Granted, KeyAsked,
             Orphaned, Stars, Rotates
  <2>4. sending' = [sending EXCEPT ![r] = q]
    BY <1>5, <2>1 DEF Installed
  <2>5. ~Stars(q) /\ ~Rotates(q)
    BY <2>2 DEF Stars, Rotates, Starring
  <2> QED BY <1>3, <2>3, <2>4, <2>5, QuietKeeps, OneRequestMoves
<1> QED BY <1>4, <1>5 DEF Launched, LaunchFails

LEMMA QuietStep ==
  ASSUME ListInv,
         \/ OpenSheet \/ \E p \in HomePanes : OpenTagEditor(p) \/ CancelTags(p)
         \/ UNCHANGED <<revived, listVars, agentVars, busy, sending, doubt>>
  PROVE  ListInv'
<1>1. UNCHANGED sending
  BY DEF OpenSheet, OpenTagEditor, CancelTags
<1>2. Quiet
  BY DEF OpenSheet, OpenTagEditor, CancelTags, SetEditor, Quiet, navVars, viewVars,
         listVars, agentVars, ListInv, ListTypes
<1> QED BY <1>1, <1>2, QuietKeeps, RequestsStay

-----------------------------------------------------------------------------
(* The relay, and what the page makes of its answers.                      *)
LEMMA ServesStep ==
  ASSUME ListInv, NEW r \in Sends, Serves(r)
  PROVE  ListInv'
<1>1. PICK i : i = sending[r]
  OBVIOUS
<1>2. i \in HomeRequest /\ AskedOf(i) /\ RequestOK(i) /\ ListTypes /\ OneEach /\ PageInv
  BY <1>1 DEF ListInv
<1>3. PICK p : p = i.on
  OBVIOUS
<1>4. i.op \in PaneOps /\ i.step \in {"sent", "orphan"} /\ p \in HomePanes
  BY <1>1, <1>2, <1>3 DEF Serves, Asked, PaneOps, Starring, AskedOf
<1>5. PICK d : d = owned[p]
  OBVIOUS
<1>6. d \in OwnedPane
  BY <1>2, <1>4, <1>5 DEF ListTypes
<1>7. \E o \in OwnedPane :
         /\ owned' = [owned EXCEPT ![p] = o]
         /\ d.trashed => o.trashed
         /\ ~d.viewed => ~o.viewed
         /\ i.op \in Starring => (o.favorite <=> i.op = "star")
         /\ i.op \notin Starring => o.favorite = d.favorite
         /\ i.op = "trash" => o.trashed
         /\ i.op = "hide" => ~o.viewed
  <2>1. CASE i.op = "star"
    <3>1. PICK o : o = [d EXCEPT !.favorite = TRUE]
      OBVIOUS
    <3>2. o \in OwnedPane /\ o.favorite /\ o.trashed = d.trashed /\ o.viewed = d.viewed
      BY <1>6, <3>1 DEF OwnedPane
    <3>3. owned' = [owned EXCEPT ![p] = o]
      BY <1>1, <1>3, <1>5, <2>1, <3>1 DEF Serves, Asked
    <3> QED BY <2>1, <3>2, <3>3 DEF Starring
  <2>2. CASE i.op = "unstar"
    <3>1. PICK o : o = [d EXCEPT !.favorite = FALSE]
      OBVIOUS
    <3>2. o \in OwnedPane /\ ~o.favorite /\ o.trashed = d.trashed /\ o.viewed = d.viewed
      BY <1>6, <3>1 DEF OwnedPane
    <3>3. owned' = [owned EXCEPT ![p] = o]
      BY <1>1, <1>3, <1>5, <2>2, <3>1 DEF Serves, Asked
    <3> QED BY <2>2, <3>2, <3>3 DEF Starring
  <2>3. CASE i.op = "trash"
    <3>1. PICK o : o = [d EXCEPT !.trashed = TRUE]
      OBVIOUS
    <3>2. o \in OwnedPane /\ o.favorite = d.favorite /\ o.trashed /\ o.viewed = d.viewed
      BY <1>6, <3>1 DEF OwnedPane
    <3>3. owned' = [owned EXCEPT ![p] = o]
      BY <1>1, <1>3, <1>5, <2>3, <3>1 DEF Serves, Asked
    <3> QED BY <2>3, <3>2, <3>3 DEF Starring
  <2>4. CASE i.op = "hide"
    <3>1. PICK o : o = [d EXCEPT !.viewed = FALSE]
      OBVIOUS
    <3>2. o \in OwnedPane /\ o.favorite = d.favorite /\ o.trashed = d.trashed /\ ~o.viewed
      BY <1>6, <3>1 DEF OwnedPane
    <3>3. owned' = [owned EXCEPT ![p] = o]
      BY <1>1, <1>3, <1>5, <2>4, <3>1 DEF Serves, Asked
    <3> QED BY <2>4, <3>2, <3>3 DEF Starring
  <2>5. CASE i.op = "tags"
    <3>1. PICK t : t = i.with
      OBVIOUS
    <3>2. t \in TagLists
      BY <1>2, <2>5, <3>1 DEF AskedOf
    <3>3. PICK o : o = [d EXCEPT !.tags = t]
      OBVIOUS
    <3>4. o \in OwnedPane /\ o.favorite = d.favorite /\ o.trashed = d.trashed
          /\ o.viewed = d.viewed
      BY <1>6, <3>2, <3>3 DEF OwnedPane
    <3>5. owned' = [owned EXCEPT ![p] = o]
      BY <1>1, <1>3, <1>5, <2>5, <3>1, <3>3 DEF Serves, Asked
    <3> QED BY <2>5, <3>4, <3>5 DEF Starring
  <2> QED BY <1>4, <2>1, <2>2, <2>3, <2>4, <2>5 DEF PaneOps, Starring
<1>8. PICK o \in OwnedPane :
         /\ owned' = [owned EXCEPT ![p] = o]
         /\ d.trashed => o.trashed
         /\ ~d.viewed => ~o.viewed
         /\ i.op \in Starring => (o.favorite <=> i.op = "star")
         /\ i.op \notin Starring => o.favorite = d.favorite
         /\ i.op = "trash" => o.trashed
         /\ i.op = "hide" => ~o.viewed
  BY <1>7
<1>9. /\ owned' \in [HomePanes -> OwnedPane] /\ owned'[p] = o
      /\ \A x \in HomePanes \ {p} : owned'[x] = owned[x]
  <2>1. owned \in [HomePanes -> OwnedPane] /\ p \in HomePanes
    BY <1>2, <1>4 DEF ListTypes
  <2> QED BY <1>8, <2>1, OnePlace
<1>10. UNCHANGED <<listed, strip, chip, editor, ownAgent, says, busy, doubt, revived>>
  BY DEF Serves, agentVars, navVars, viewVars
<1>11. ListTypes'
  BY <1>2, <1>9, <1>10 DEF ListTypes
<1>12. i.op \in Starring => IF i.step = "orphan" THEN p \in doubt ELSE p \in busy
  BY <1>2, <1>3 DEF RequestOK, StarAsked, Orphaned, Stars
<1>13. PageInv'
  <2>1. \A x \in HomePanes : x \notin busy \cup doubt => owned'[x].favorite = owned[x].favorite
    BY <1>5, <1>8, <1>9, <1>12
  <2>2. \A x \in HomePanes : /\ owned[x].trashed => owned'[x].trashed
                             /\ ~owned[x].viewed => ~owned'[x].viewed
    BY <1>5, <1>8, <1>9
  <2>3. StarIsFavorite'
    BY <1>2, <1>10, <2>1 DEF PageInv, StarIsFavorite
  <2>4. GoneIsGone'
    BY <1>2, <1>10, <2>2 DEF PageInv, GoneIsGone
  <2> QED BY <1>2, <1>10, <2>3, <2>4 DEF PageInv
<1>14. PICK q : q = [i EXCEPT !.step = "yes"]
  OBVIOUS
<1>15. q.op = i.op /\ q.on = p /\ q.step = "yes"
  BY <1>2, <1>3, <1>14 DEF HomeRequest
<1>16. i.step # "orphan" => RequestOK(q)'
  <2> SUFFICES ASSUME i.step # "orphan" PROVE RequestOK(q)'
    OBVIOUS
  <2>1. StarAsked(q)'
    BY <1>2, <1>3, <1>8, <1>9, <1>10, <1>15 DEF RequestOK, StarAsked, Starring, Stars
  <2>2. Granted(q)'
    BY <1>4, <1>8, <1>9, <1>15 DEF Granted, PaneOps, Starring
  <2>3. KeyAsked(q)'
    BY <1>4, <1>15 DEF KeyAsked, PaneOps, Starring, Rotates
  <2>4. Orphaned(q)'
    BY <1>15 DEF Orphaned
  <2> QED BY <2>1, <2>2, <2>3, <2>4 DEF RequestOK
<1>17. ASSUME NEW s \in Sends \ {r} PROVE Spares(sending[s])
  <2>1. PICK j : j = sending[s]
    OBVIOUS
  <2>2. AskedOf(j) /\ (i.op \in Starring /\ Stars(j) => j.on # p \/ p \in doubt)
    BY <1>1, <1>3, <1>12, <2>1 DEF ListInv, OneEach, Stars
  <2>3. j.op \in PaneOps => j.on \in HomePanes
    BY <2>2 DEF AskedOf
  <2>4. j.op \in PaneOps => /\ owned[j.on].trashed => owned'[j.on].trashed
                            /\ ~owned[j.on].viewed => ~owned'[j.on].viewed
    BY <1>5, <1>8, <1>9, <2>3
  <2>5. Stars(j) /\ j.on \notin doubt => owned'[j.on].favorite = owned[j.on].favorite
    BY <1>5, <1>8, <1>9, <2>2, <2>3 DEF PaneOps, Stars
  <2>6. Spares(j)
    BY <1>10, <2>4, <2>5 DEF Spares
  <2> QED BY <2>1, <2>6
<1>18. Reply(r, "yes")
  BY DEF Serves
<1> QED BY <1>1, <1>11, <1>13, <1>14, <1>16, <1>17, <1>18, RequestReplied

LEMMA RefusesStep ==
  ASSUME ListInv, NEW r \in Sends, Refuses(r)
  PROVE  ListInv'
<1>1. PICK i : i = sending[r]
  OBVIOUS
<1>2. i \in HomeRequest /\ RequestOK(i) /\ i.step \in {"sent", "orphan"}
  BY <1>1 DEF ListInv, Refuses, Asked
<1>3. Quiet /\ UNCHANGED busy /\ Reply(r, "no")
  BY DEF Refuses, Quiet, navVars, viewVars, listVars, agentVars, ListInv, ListTypes
<1>4. PICK q : q = [i EXCEPT !.step = "no"]
  OBVIOUS
<1>5. q.op = i.op /\ q.on = i.on /\ q.step = "no"
  BY <1>2, <1>4 DEF HomeRequest
<1>6. i.step # "orphan" => RequestOK(q)'
  BY <1>2, <1>3, <1>5 DEF Quiet, RequestOK, StarAsked, Granted, KeyAsked, Orphaned, Stars, Rotates
<1> QED BY <1>1, <1>3, <1>4, <1>6, QuietKeeps, RequestReplied

LEMMA IsLostStep ==
  ASSUME ListInv, NEW r \in Sends, IsLost(r)
  PROVE  ListInv'
<1>1. PICK i : i = sending[r]
  OBVIOUS
<1>2. i \in HomeRequest /\ RequestOK(i)
  BY <1>1 DEF ListInv
<1>3. /\ UNCHANGED <<owned, listed, strip, chip, editor, ownAgent, says, busy, revived>>
      /\ Reply(r, "no") /\ doubt' = doubt \cup {i.on}
  BY <1>1 DEF IsLost, listVars, agentVars, navVars, viewVars
<1>4. PICK q : q = [i EXCEPT !.step = "no"]
  OBVIOUS
<1>5. q.op = i.op /\ q.on = i.on /\ q.step = "no"
  BY <1>2, <1>4 DEF HomeRequest
<1>6. i.step # "orphan" => RequestOK(q)'
  BY <1>2, <1>3, <1>5 DEF RequestOK, StarAsked, Granted, KeyAsked, Orphaned, Stars, Rotates
<1>7. ListTypes'
  BY <1>3 DEF ListInv, ListTypes
<1>8. PageInv'
  BY <1>3 DEF ListInv, PageInv, StarIsFavorite, GoneIsGone
<1>9. \A s \in Sends : Spares(sending[s])
  BY <1>3 DEF Spares
<1> QED BY <1>1, <1>3, <1>4, <1>6, <1>7, <1>8, <1>9, RequestReplied

LEMMA ShowStarStep ==
  ASSUME ListInv, NEW r \in Sends, ShowStar(r)
  PROVE  ListInv'
<1>1. PICK i : i = sending[r]
  OBVIOUS
<1>2. i \in HomeRequest /\ AskedOf(i) /\ RequestOK(i) /\ ListTypes /\ OneEach /\ PageInv
  BY <1>1 DEF ListInv
<1>3. PICK p : p = i.on
  OBVIOUS
<1>4. i.op \in Starring /\ i.step = "yes" /\ p \in HomePanes /\ Over(r)
  BY <1>1, <1>2, <1>3 DEF ShowStar, Answered, PaneOps, Starring, AskedOf
<1>5. (listed[p].star <=> i.op = "unstar") /\ (p \notin doubt => (owned[p].favorite <=> i.op = "star"))
  BY <1>2, <1>3, <1>4 DEF RequestOK, StarAsked, Stars
<1>6. PICK d : d = listed[p]
  OBVIOUS
<1>7. d \in ListedPane /\ owned[p] \in OwnedPane /\ strip[p] \in Nat
  BY <1>2, <1>4, <1>6 DEF ListTypes
<1>8. PICK star \in BOOLEAN : star = (i.op = "star")
  OBVIOUS
<1>9. PICK e : e = [d EXCEPT !.star = star]
  OBVIOUS
<1>10. e \in ListedPane /\ e.star = star /\ e.row = d.row /\ e.card = d.card
  BY <1>7, <1>8, <1>9 DEF ListedPane
<1>11. PICK n : n = IF i.op = "star" THEN strip[p] + 1
                    ELSE IF strip[p] = 0 THEN 0 ELSE strip[p] - 1
  OBVIOUS
<1>12. /\ listed' = [listed EXCEPT ![p] = e] /\ strip' = [strip EXCEPT ![p] = n]
       /\ busy' = busy \ {p}
       /\ UNCHANGED <<owned, chip, editor, ownAgent, says, doubt, revived>>
  <2>1. CASE i.op = "star"
    <3>1. star = TRUE
      BY <1>8, <2>1
    <3> QED BY <1>1, <1>3, <1>6, <1>9, <1>11, <2>1, <3>1 DEF ShowStar, Answered, agentVars,
            navVars, viewVars
  <2>2. CASE i.op = "unstar"
    <3>1. star = FALSE
      BY <1>8, <2>2
    <3> QED BY <1>1, <1>3, <1>6, <1>9, <1>11, <2>2, <3>1 DEF ShowStar, Answered, agentVars,
            navVars, viewVars
  <2> QED BY <1>4, <2>1, <2>2 DEF Starring
<1>13. /\ listed' \in [HomePanes -> ListedPane] /\ listed'[p] = e
       /\ \A x \in HomePanes \ {p} : listed'[x] = listed[x] /\ strip'[x] = strip[x]
       /\ n \in Nat /\ strip' \in [HomePanes -> Nat] /\ strip'[p] = n
  <2>1. listed \in [HomePanes -> ListedPane] /\ strip \in [HomePanes -> Nat]
    BY <1>2 DEF ListTypes
  <2>2. n \in Nat
    BY <1>7, <1>11
  <2>3. /\ listed' \in [HomePanes -> ListedPane] /\ listed'[p] = e
        /\ \A x \in HomePanes \ {p} : listed'[x] = listed[x]
    BY <1>4, <1>10, <1>12, <2>1, OnePlace
  <2>4. /\ strip' \in [HomePanes -> Nat] /\ strip'[p] = n
        /\ \A x \in HomePanes \ {p} : strip'[x] = strip[x]
    BY <1>4, <1>12, <2>1, <2>2, OnePlace
  <2> QED BY <2>2, <2>3, <2>4
<1>14. ListTypes'
  BY <1>2, <1>12, <1>13 DEF ListTypes
<1>15. d.row => n = (IF star THEN 1 ELSE 0)
  <2>1. d.row => strip[p] = (IF d.star THEN 1 ELSE 0)
    BY <1>2, <1>4, <1>6 DEF PageInv, StarIsFavorite
  <2>2. (d.star <=> i.op = "unstar") /\ (star <=> i.op = "star")
    BY <1>5, <1>6, <1>8
  <2> QED BY <1>4, <1>11, <2>1, <2>2 DEF Starring
<1>16. p \notin doubt => star = owned[p].favorite
  <2>1. owned[p].favorite \in BOOLEAN
    BY <1>7 DEF OwnedPane
  <2> QED BY <1>5, <1>8, <2>1
<1>17. PageInv'
  <2>1. StarIsFavorite'
    BY <1>2, <1>10, <1>12, <1>13, <1>15, <1>16 DEF PageInv, StarIsFavorite
  <2>2. GoneIsGone'
    BY <1>2, <1>6, <1>10, <1>12, <1>13 DEF PageInv, GoneIsGone
  <2>3. p # "rotate"
    BY <1>4, HomeAssumption
  <2> QED BY <1>2, <1>12, <2>1, <2>2, <2>3 DEF PageInv
<1>18. ASSUME NEW s \in Sends \ {r} PROVE Spares(sending[s])
  <2>1. PICK j : j = sending[s]
    OBVIOUS
  <2>2. Stars(j) => j.on # p /\ j.on \in HomePanes
    BY <1>1, <1>3, <1>4, <2>1 DEF ListInv, OneEach, AskedOf, PaneOps, Stars
  <2>3. p # "rotate"
    BY <1>4, HomeAssumption
  <2>4. Spares(j)
    BY <1>12, <1>13, <2>2, <2>3 DEF Spares
  <2> QED BY <2>1, <2>4
<1> QED BY <1>4, <1>14, <1>17, <1>18, RequestOver

(* A row or a card goes, or shows other tags.                              *)
LEMMA ShowRowStep ==
  ASSUME ListInv, NEW r \in Sends, ShowDeleted(r) \/ ShowHidden(r) \/ ShowTags(r)
  PROVE  ListInv'
<1>1. PICK i : i = sending[r]
  OBVIOUS
<1>2. i \in HomeRequest /\ AskedOf(i) /\ RequestOK(i) /\ ListTypes /\ PageInv
  BY <1>1 DEF ListInv
<1>3. PICK p : p = i.on
  OBVIOUS
<1>4. /\ i.op \in {"trash", "hide", "tags"} /\ i.step = "yes" /\ p \in HomePanes /\ Over(r)
      /\ UNCHANGED <<owned, strip, ownAgent, says, busy, doubt, revived>>
  BY <1>1, <1>2, <1>3
     DEF ShowDeleted, ShowHidden, ShowTags, Answered, PaneOps, Starring, AskedOf, agentVars,
         navVars, viewVars
<1>5. chip' \in Nat
  BY <1>2 DEF ShowDeleted, ShowHidden, ShowTags, ListTypes
<1>6. editor' \in [HomePanes -> {"closed", "open"} \cup Sends]
  BY <1>2 DEF ShowDeleted, ShowHidden, ShowTags, ListTypes
<1>7. PICK d : d = listed[p]
  OBVIOUS
<1>8. d \in ListedPane
  BY <1>2, <1>4, <1>7 DEF ListTypes
<1>9. \E e \in ListedPane :
         /\ listed' = [listed EXCEPT ![p] = e]
         /\ e.star = d.star
         /\ e.row => d.row
         /\ ~e.row => ~d.row \/ i.op = "trash"
         /\ ~e.card => ~d.card \/ i.op \in {"trash", "hide"}
  <2>1. CASE ShowDeleted(r) /\ i.with = 1
    <3>1. PICK e : e = [d EXCEPT !.row = FALSE]
      OBVIOUS
    <3>2. e \in ListedPane /\ e.star = d.star /\ ~e.row /\ e.card = d.card
      BY <1>8, <3>1 DEF ListedPane
    <3>3. listed' = [listed EXCEPT ![p] = e] /\ i.op = "trash"
      BY <1>1, <1>3, <1>7, <2>1, <3>1 DEF ShowDeleted, Answered
    <3> QED BY <3>2, <3>3
  <2>2. CASE (ShowDeleted(r) /\ i.with # 1) \/ ShowHidden(r)
    <3>1. PICK e : e = [d EXCEPT !.card = FALSE]
      OBVIOUS
    <3>2. e \in ListedPane /\ e.star = d.star /\ e.row = d.row
      BY <1>8, <3>1 DEF ListedPane
    <3>3. listed' = [listed EXCEPT ![p] = e] /\ i.op \in {"trash", "hide"}
      BY <1>1, <1>3, <1>7, <2>2, <3>1 DEF ShowDeleted, ShowHidden, Answered
    <3> QED BY <3>2, <3>3
  <2>3. CASE ShowTags(r)
    <3>1. PICK t : t = i.with
      OBVIOUS
    <3>2. t \in TagLists
      BY <1>1, <1>2, <2>3, <3>1 DEF ShowTags, Answered, AskedOf
    <3>3. PICK e : e = [d EXCEPT !.tags = t]
      OBVIOUS
    <3>4. e \in ListedPane /\ e.star = d.star /\ e.row = d.row /\ e.card = d.card
      BY <1>8, <3>2, <3>3 DEF ListedPane
    <3>5. listed' = [listed EXCEPT ![p] = e]
      BY <1>1, <1>3, <1>7, <2>3, <3>1, <3>3 DEF ShowTags
    <3> QED BY <3>4, <3>5
  <2> QED BY <2>1, <2>2, <2>3
<1>10. PICK e \in ListedPane :
         /\ listed' = [listed EXCEPT ![p] = e]
         /\ e.star = d.star
         /\ e.row => d.row
         /\ ~e.row => ~d.row \/ i.op = "trash"
         /\ ~e.card => ~d.card \/ i.op \in {"trash", "hide"}
  BY <1>9
<1>11. /\ listed' \in [HomePanes -> ListedPane] /\ listed'[p] = e
       /\ \A x \in HomePanes \ {p} : listed'[x] = listed[x]
  <2>1. listed \in [HomePanes -> ListedPane] /\ p \in HomePanes
    BY <1>2, <1>4 DEF ListTypes
  <2> QED BY <1>10, <2>1, OnePlace
<1>12. ListTypes'
  BY <1>2, <1>4, <1>5, <1>6, <1>11 DEF ListTypes
<1>13. /\ i.op = "trash" => owned[p].trashed
       /\ i.op = "hide" => ~owned[p].viewed \/ p \in revived
  BY <1>2, <1>3, <1>4 DEF RequestOK, Granted
<1>14. PageInv'
  <2>1. \A x \in HomePanes : listed'[x].star = listed[x].star /\ (listed'[x].row => listed[x].row)
    BY <1>7, <1>10, <1>11
  <2>2. StarIsFavorite'
    BY <1>2, <1>4, <2>1 DEF PageInv, StarIsFavorite
  <2>3. GoneIsGone'
    BY <1>2, <1>4, <1>7, <1>10, <1>11, <1>13 DEF PageInv, GoneIsGone
  <2> QED BY <1>2, <1>4, <2>2, <2>3 DEF PageInv
<1>15. \A x \in HomePanes : listed'[x].star = listed[x].star
  BY <1>7, <1>10, <1>11
<1>16. ASSUME NEW s \in Sends PROVE Spares(sending[s])
  <2>1. sending[s].op \in Starring => sending[s].on \in HomePanes
    BY DEF ListInv, AskedOf, PaneOps
  <2> QED BY <1>4, <1>15, <2>1 DEF Spares, Stars
<1> QED BY <1>4, <1>12, <1>14, <1>16, RequestOver

LEMMA ShowFailureStep ==
  ASSUME ListInv, NEW r \in Sends, ShowFailure(r)
  PROVE  ListInv'
<1>1. PICK i : i = sending[r]
  OBVIOUS
<1>2. i \in HomeRequest /\ AskedOf(i) /\ RequestOK(i) /\ ListTypes /\ OneEach /\ PageInv
  BY <1>1 DEF ListInv
<1>3. /\ i.step = "no" /\ Over(r)
      /\ UNCHANGED <<owned, listed, strip, chip, ownAgent, says, doubt, revived>>
      /\ busy' = busy \ (IF i.op \in {"rotate", "revoke"} THEN {i.op}
                         ELSE IF i.op \in Starring THEN {i.on} ELSE {})
  BY <1>1 DEF ShowFailure, agentVars, Starring, navVars, viewVars
<1>4. editor' \in [HomePanes -> {"closed", "open"} \cup Sends]
  BY <1>2 DEF ShowFailure, ListTypes
<1>5. ListTypes'
  BY <1>2, <1>3, <1>4 DEF ListTypes
<1>6. i.op \in Starring =>
         /\ i.on \in HomePanes
         /\ i.on \notin doubt => listed[i.on].star = owned[i.on].favorite
  <2> SUFFICES ASSUME i.op \in Starring
               PROVE  /\ i.on \in HomePanes
                      /\ i.on \notin doubt => listed[i.on].star = owned[i.on].favorite
    OBVIOUS
  <2>1. i.on \in HomePanes
    BY <1>2 DEF AskedOf, PaneOps
  <2>2. listed[i.on].star \in BOOLEAN /\ owned[i.on].favorite \in BOOLEAN
    BY <1>2, <2>1 DEF ListTypes, ListedPane, OwnedPane
  <2> QED BY <1>2, <1>3, <2>1, <2>2 DEF RequestOK, StarAsked, Stars
<1>7. \A p \in HomePanes : p \in busy /\ p \notin busy' => i.op \in Starring /\ p = i.on
  BY <1>3, HomeAssumption
<1>8. "rotate" \in busy /\ "rotate" \notin busy' => i.op = "rotate"
  BY <1>3, <1>6, HomeAssumption DEF Starring
<1>9. PageInv'
  <2>1. StarIsFavorite'
    BY <1>2, <1>3, <1>6, <1>7 DEF PageInv, StarIsFavorite
  <2>2. GoneIsGone'
    BY <1>2, <1>3 DEF PageInv, GoneIsGone
  <2>3. i.op = "rotate" => says.key = 0
    BY <1>2, <1>3 DEF RequestOK, KeyAsked, Rotates
  <2> QED BY <1>2, <1>3, <1>8, <2>1, <2>2, <2>3 DEF PageInv
<1>10. ASSUME NEW s \in Sends \ {r} PROVE Spares(sending[s])
  <2>1. PICK j : j = sending[s]
    OBVIOUS
  <2>2. /\ Stars(j) => j.on \in HomePanes /\ (i.op \in Starring => j.on # i.on)
        /\ ~(Rotates(j) /\ i.op = "rotate")
    BY <1>1, <1>3, <2>1 DEF ListInv, OneEach, AskedOf, PaneOps, Stars, Rotates
  <2>3. Spares(j)
    BY <1>3, <1>7, <1>8, <2>2 DEF Spares
  <2> QED BY <2>1, <2>3
<1> QED BY <1>3, <1>5, <1>9, <1>10, RequestOver

LEMMA ServesAgentStep ==
  ASSUME ListInv, NEW r \in Sends, ServesAgent(r)
  PROVE  ListInv'
<1>1. PICK i : i = sending[r]
  OBVIOUS
<1>2. i \in HomeRequest /\ AskedOf(i) /\ RequestOK(i) /\ ListTypes /\ OneEach /\ PageInv
  BY <1>1 DEF ListInv
<1>3. UNCHANGED <<owned, listed, strip, chip, editor, says, busy, doubt, revived>>
  BY DEF ServesAgent, listVars, navVars, viewVars
<1>4. PICK d : d = ownAgent
  OBVIOUS
<1>5. /\ d \in [revoked : BOOLEAN, key : 1 .. MaxSecret]
      /\ i.op \in {"rotate", "revoke"} /\ i.step \in {"sent", "orphan"}
  BY <1>1, <1>2, <1>4 DEF ListTypes, ServesAgent, Asked
<1>6. CASE i.op = "rotate" /\ ~d.revoked
  <2>1. d.key < MaxSecret
    BY <1>1, <1>4, <1>6 DEF ServesAgent, Asked
  <2>2. PICK n : n = d.key + 1
    OBVIOUS
  <2>3. PICK o : o = [d EXCEPT !.key = n]
    OBVIOUS
  <2>4. n \in 1 .. MaxSecret
    BY <1>5, <2>1, <2>2, HomeAssumption
  <2>5. o \in [revoked : BOOLEAN, key : 1 .. MaxSecret] /\ o.key = n /\ o.revoked = d.revoked
    BY <1>5, <2>3, <2>4
  <2>6. ownAgent' = o
    BY <1>1, <1>4, <1>6, <2>2, <2>3 DEF ServesAgent, Asked
  <2>7. ListTypes'
    BY <1>2, <1>3, <2>5, <2>6 DEF ListTypes
  <2>8. IF i.step = "orphan" THEN Agent \in doubt ELSE says.key = 0 /\ "rotate" \in busy
    BY <1>2, <1>6 DEF RequestOK, KeyAsked, Orphaned, Rotates, AskedOf
  <2>9. PageInv'
    BY <1>2, <1>3, <1>4, <2>5, <2>6, <2>8 DEF PageInv, StarIsFavorite, GoneIsGone
  <2>10. ASSUME NEW s \in Sends \ {r} PROVE Spares(sending[s])
    <3>1. PICK j : j = sending[s]
      OBVIOUS
    <3>2. Rotates(j) => Agent \in doubt
      BY <1>1, <1>2, <1>6, <2>8, <3>1 DEF OneEach, Rotates
    <3>3. ownAgent.revoked => ownAgent'.revoked
      BY <1>4, <2>5, <2>6
    <3>4. /\ owned' = owned /\ listed' = listed /\ busy' = busy /\ doubt' = doubt
          /\ says' = says /\ revived' = revived
      BY <1>3
    <3>5. Spares(j)
      BY <3>2, <3>3, <3>4 DEF Spares
    <3> QED BY <3>1, <3>5
  <2>11. CASE i.step = "orphan"
    <3>1. Over(r)
      BY <1>1, <1>4, <1>6, <2>11 DEF ServesAgent, Asked
    <3> QED BY <2>7, <2>9, <2>10, <3>1, RequestOver
  <2>12. CASE i.step # "orphan"
    <3>1. PICK c : c = [i EXCEPT !.step = "yes"]
      OBVIOUS
    <3>2. PICK q : q = [i EXCEPT !.step = "yes", !.with = n]
      OBVIOUS
    <3>3. c \in HomeRequest /\ c.op = i.op /\ c.on = i.on /\ c.step = "yes"
      BY <1>2, <3>1 DEF HomeRequest
    <3>4. q = [c EXCEPT !.with = n]
      BY <3>1, <3>2
    <3>5. n \in TagLists \cup Nat
      BY <2>4, HomeAssumption
    <3>6. q \in HomeRequest /\ q.op = "rotate" /\ q.on = i.on /\ q.with = n /\ q.step = "yes"
      BY <1>6, <3>3, <3>4, <3>5 DEF HomeRequest
    <3>7. sending' = [sending EXCEPT ![r] = q]
      BY <1>1, <1>4, <1>6, <2>2, <2>12, <3>2 DEF ServesAgent, Asked
    <3>8. n \in 0 .. MaxSecret
      BY <2>4
    <3>9. AskedOf(q)
      BY <1>2, <1>6, <3>6, <3>8 DEF AskedOf, PaneOps, Starring
    <3>10. RequestOK(q)'
      BY <1>3, <2>5, <2>6, <2>8, <2>12, <3>6
         DEF RequestOK, StarAsked, Granted, KeyAsked, Orphaned, Stars, Rotates, Starring
    <3>11. \A s \in Sends \ {r} : /\ Stars(q) /\ Stars(sending[s]) => sending[s].on # q.on
                                  /\ ~(Rotates(q) /\ Rotates(sending[s]))
      BY <1>1, <1>2, <1>6, <2>12, <3>6 DEF OneEach, Stars, Rotates, Starring
    <3> QED BY <2>7, <2>9, <2>10, <3>7, <3>9, <3>10, <3>11, OneRequestMoves
  <2> QED BY <2>11, <2>12
<1>7. CASE i.op = "rotate" /\ d.revoked
  <2>1. Reply(r, "no") /\ UNCHANGED ownAgent
    BY <1>1, <1>4, <1>7 DEF ServesAgent, Asked
  <2>2. Quiet
    BY <1>2, <1>3, <2>1 DEF Quiet, ListTypes
  <2>3. PICK q : q = [i EXCEPT !.step = "no"]
    OBVIOUS
  <2>4. q.op = "rotate" /\ q.step = "no"
    BY <1>2, <1>7, <2>3 DEF HomeRequest
  <2>5. i.step # "orphan" => RequestOK(q)'
    BY <1>2, <1>3, <1>7, <2>4
       DEF RequestOK, StarAsked, Granted, KeyAsked, Orphaned, Stars, Rotates, Starring
  <2> QED BY <1>1, <2>1, <2>2, <2>3, <2>5, QuietKeeps, RequestReplied
<1>8. CASE i.op = "revoke"
  <2>1. PICK o : o = [d EXCEPT !.revoked = TRUE]
    OBVIOUS
  <2>2. o \in [revoked : BOOLEAN, key : 1 .. MaxSecret] /\ o.revoked /\ o.key = d.key
    BY <1>5, <2>1
  <2>3. Reply(r, "yes") /\ ownAgent' = o
    BY <1>1, <1>4, <1>8, <2>1 DEF ServesAgent, Asked
  <2>4. ListTypes'
    BY <1>2, <1>3, <2>2, <2>3 DEF ListTypes
  <2>5. PageInv'
    BY <1>2, <1>3, <1>4, <2>2, <2>3 DEF PageInv, StarIsFavorite, GoneIsGone
  <2>6. PICK q : q = [i EXCEPT !.step = "yes"]
    OBVIOUS
  <2>7. q.op = "revoke" /\ q.step = "yes"
    BY <1>2, <1>8, <2>6 DEF HomeRequest
  <2>8. RequestOK(q)'
    BY <2>2, <2>3, <2>7
       DEF RequestOK, StarAsked, Granted, KeyAsked, Orphaned, Stars, Rotates, Starring
  <2>9. \A s \in Sends : Spares(sending[s])
    BY <1>3, <1>4, <2>2, <2>3 DEF Spares
  <2> QED BY <1>1, <2>3, <2>4, <2>5, <2>6, <2>8, <2>9, RequestReplied
<1> QED BY <1>1, <1>4, <1>5, <1>6, <1>7, <1>8 DEF ServesAgent, Asked

LEMMA ShowAgentStep ==
  ASSUME ListInv, NEW r \in Sends, ShowAgent(r)
  PROVE  ListInv'
<1>1. PICK i : i = sending[r]
  OBVIOUS
<1>2. i \in HomeRequest /\ AskedOf(i) /\ RequestOK(i) /\ ListTypes /\ OneEach /\ PageInv
  BY <1>1 DEF ListInv
<1>3. UNCHANGED <<owned, listed, strip, chip, editor, ownAgent, busy, doubt, revived>>
      /\ Over(r) /\ i.step = "yes"
  BY <1>1 DEF ShowAgent, listVars, Answered, navVars, viewVars
<1>4. PICK d : d = says
  OBVIOUS
<1>5. d \in [revoked : BOOLEAN, key : 0 .. MaxSecret] /\ ownAgent.key \in 1 .. MaxSecret
  BY <1>2, <1>4 DEF ListTypes
<1>6. CASE i.op = "rotate"
  <2>1. PICK n : n = i.with
    OBVIOUS
  <2>2. /\ Agent \notin doubt => n = ownAgent.key
        /\ "rotate" \in busy /\ n \in 0 .. MaxSecret
    BY <1>2, <1>3, <1>6, <2>1 DEF RequestOK, KeyAsked, Rotates, AskedOf
  <2>3. PICK o : o = [d EXCEPT !.key = n]
    OBVIOUS
  <2>4. o \in [revoked : BOOLEAN, key : 0 .. MaxSecret] /\ o.key = n /\ o.revoked = d.revoked
    BY <1>5, <2>2, <2>3
  <2>5. says' = o
    BY <1>1, <1>4, <1>6, <2>1, <2>3 DEF ShowAgent, Answered
  <2>6. ListTypes'
    BY <1>2, <1>3, <2>4, <2>5 DEF ListTypes
  <2>7. PageInv'
    BY <1>2, <1>3, <1>4, <2>2, <2>4, <2>5 DEF PageInv, StarIsFavorite, GoneIsGone
  <2>8. ASSUME NEW s \in Sends \ {r} PROVE Spares(sending[s])
    <3>1. ~Rotates(sending[s])
      BY <1>1, <1>2, <1>3, <1>6 DEF OneEach, Rotates
    <3> QED BY <1>3, <3>1 DEF Spares
  <2> QED BY <1>3, <2>6, <2>7, <2>8, RequestOver
<1>7. CASE i.op = "revoke"
  <2>1. PICK o : o = [d EXCEPT !.revoked = TRUE]
    OBVIOUS
  <2>2. o \in [revoked : BOOLEAN, key : 0 .. MaxSecret] /\ o.key = d.key /\ o.revoked
    BY <1>5, <2>1
  <2>3. says' = o
    BY <1>1, <1>4, <1>7, <2>1 DEF ShowAgent, Answered
  <2>4. ListTypes'
    BY <1>2, <1>3, <2>2, <2>3 DEF ListTypes
  <2>5. ownAgent.revoked
    BY <1>2, <1>3, <1>7 DEF RequestOK, Granted
  <2>6. PageInv'
    BY <1>2, <1>3, <1>4, <2>2, <2>3, <2>5 DEF PageInv, StarIsFavorite, GoneIsGone
  <2>7. \A s \in Sends : Spares(sending[s])
    BY <1>3, <1>4, <2>2, <2>3 DEF Spares
  <2> QED BY <1>3, <2>4, <2>6, <2>7, RequestOver
<1> QED BY <1>1, <1>6, <1>7 DEF ShowAgent, Answered

-----------------------------------------------------------------------------
(* The page as the relay renders it.                                       *)
LEMMA ListInvInit ==
  ASSUME HomeInit
  PROVE  ListInv
<1>1. PICK t \in TagLists :
         /\ owned = [p \in HomePanes |-> [trashed |-> FALSE, favorite |-> FALSE,
                                            tags |-> t, viewed |-> TRUE]]
         /\ listed = [p \in HomePanes |-> [row |-> TRUE, card |-> TRUE, star |-> FALSE,
                                             tags |-> t]]
  BY DEF HomeInit
<1>2. PICK o : o = [trashed |-> FALSE, favorite |-> FALSE, tags |-> t, viewed |-> TRUE]
  OBVIOUS
<1>3. PICK l : l = [row |-> TRUE, card |-> TRUE, star |-> FALSE, tags |-> t]
  OBVIOUS
<1>4. o \in OwnedPane /\ ~o.trashed /\ o.favorite = FALSE /\ o.viewed
  BY <1>2 DEF OwnedPane
<1>5. l \in ListedPane /\ l.row /\ l.card /\ l.star = FALSE
  BY <1>3 DEF ListedPane
<1>6. /\ owned \in [HomePanes -> OwnedPane] /\ listed \in [HomePanes -> ListedPane]
      /\ \A p \in HomePanes : owned[p] = o /\ listed[p] = l
  BY <1>1, <1>2, <1>3, <1>4, <1>5
<1>7. PICK a : a = [revoked |-> FALSE, key |-> 1]
  OBVIOUS
<1>8. PICK b : b = [revoked |-> FALSE, key |-> 0]
  OBVIOUS
<1>9. a \in [revoked : BOOLEAN, key : 1 .. MaxSecret]
      /\ b \in [revoked : BOOLEAN, key : 0 .. MaxSecret] /\ ~b.revoked /\ b.key = 0
  BY <1>7, <1>8, HomeAssumption
<1>10. ownAgent = a /\ says = b
  BY <1>7, <1>8 DEF HomeInit
<1>11. chip \in Nat
  BY FS_CardinalityType, HomeAssumption DEF HomeInit
<1>12. strip \in [HomePanes -> Nat] /\ \A p \in HomePanes : strip[p] = 0
  BY DEF HomeInit
<1>13. ListTypes
  BY <1>6, <1>9, <1>10, <1>11, <1>12 DEF HomeInit, ListTypes
<1>14. PageInv
  BY <1>4, <1>5, <1>6, <1>9, <1>10, <1>12 DEF PageInv, StarIsFavorite, GoneIsGone
<1>15. PICK q : q = Free
  OBVIOUS
<1>16. AskedOf(q) /\ RequestOK(q) /\ q.op = "none"
  BY <1>15, FreeIsAsked DEF Free
<1>17. sending \in [Sends -> HomeRequest] /\ \A r \in Sends : sending[r] = q
  BY <1>15, <1>16 DEF AskedOf, HomeInit
<1>18. OneEach
  BY <1>16, <1>17 DEF OneEach, Starring, Stars, Rotates
<1> QED BY <1>13, <1>14, <1>16, <1>17, <1>18 DEF ListInv

LEMMA ReloadList ==
  ASSUME ListInv, ReloadHome
  PROVE  ListInv'
<1>1. owned' = owned /\ ownAgent' = ownAgent /\ ListTypes
  BY ReloadParts DEF ListInv
<1>2. \A p \in HomePanes : owned[p] \in OwnedPane
  BY <1>1 DEF ListTypes
<1>3. ASSUME NEW p \in HomePanes
      PROVE  /\ listed'[p] \in ListedPane
             /\ listed'[p].row <=> ~owned[p].trashed
             /\ listed'[p].card <=> owned[p].viewed /\ ~owned[p].trashed
             /\ listed'[p].star = owned[p].favorite
  <2>1. PICK l : l = [row |-> ~owned[p].trashed, star |-> owned[p].favorite,
                      card |-> owned[p].viewed /\ ~owned[p].trashed, tags |-> owned[p].tags]
    OBVIOUS
  <2>2. owned[p].favorite \in BOOLEAN /\ owned[p].tags \in TagLists
    BY <1>2 DEF OwnedPane
  <2>3. l.row \in BOOLEAN /\ l.card \in BOOLEAN
    BY <2>1
  <2>4. /\ l.row <=> ~owned[p].trashed
        /\ l.card <=> owned[p].viewed /\ ~owned[p].trashed
    BY <2>1
  <2>5. l.star = owned[p].favorite /\ l.tags = owned[p].tags
    BY <2>1
  <2>6. l \in ListedPane
    BY <2>1, <2>2 DEF ListedPane
  <2>7. listed'[p] = l
    BY <2>1, ReloadParts
  <2> QED BY <2>4, <2>5, <2>6, <2>7
<1>4. listed' \in [HomePanes -> ListedPane]
  BY <1>3, ReloadParts
<1>5. /\ strip' \in [HomePanes -> Nat]
      /\ \A p \in HomePanes :
            ~owned[p].trashed => strip'[p] = (IF owned[p].favorite THEN 1 ELSE 0)
  <2>1. strip' = [p \in HomePanes |-> IF owned[p].favorite /\ ~owned[p].trashed THEN 1 ELSE 0]
    BY ReloadParts, Zenon
  <2> QED BY <2>1
<1>6. chip' \in Nat
  <2>1. PICK S : S = {p \in HomePanes : ~owned[p].trashed}
    OBVIOUS
  <2>2. IsFiniteSet(S)
    BY <2>1, FS_Subset, HomeAssumption
  <2>3. chip' = Cardinality(S)
    BY <2>1, ReloadParts
  <2> QED BY <2>2, <2>3, FS_CardinalityType
<1>7. PICK b : b = [revoked |-> ownAgent.revoked, key |-> 0]
  OBVIOUS
<1>8. ownAgent.revoked \in BOOLEAN
  BY <1>1 DEF ListTypes
<1>9. b \in [revoked : BOOLEAN, key : 0 .. MaxSecret] /\ b.revoked = ownAgent.revoked
      /\ b.key = 0
  BY <1>7, <1>8, HomeAssumption
<1>10. says' = b
  BY <1>7, ReloadParts
<1>11. editor' \in [HomePanes -> {"closed", "open"} \cup Sends]
  BY ReloadParts
<1>12. ListTypes'
  BY <1>1, <1>4, <1>5, <1>6, <1>9, <1>10, <1>11, ReloadParts DEF ListTypes
<1>13. StarIsFavorite'
  BY <1>1, <1>3, <1>5 DEF StarIsFavorite
<1>14. GoneIsGone'
  BY <1>1, <1>3, <1>9, <1>10 DEF GoneIsGone
<1>15. PageInv'
  BY <1>9, <1>10, <1>13, <1>14 DEF PageInv
<1>16. ASSUME NEW r \in Sends
       PROVE  /\ AskedOf(sending'[r]) /\ RequestOK(sending[r])'
              /\ ~Stars(sending'[r]) /\ ~Rotates(sending'[r])
  <2>1. PICK i : i = sending[r]
    OBVIOUS
  <2>2. i \in HomeRequest /\ AskedOf(i)
    BY <2>1 DEF ListInv
  <2>3. PICK q : q = Abandoned(r)
    OBVIOUS
  <2>4. sending'[r] = q
    BY <2>3, ReloadAbandons
  <2>5. CASE q = Free
    <3>1. q.op = "none" /\ AskedOf(q)
      BY <2>5, FreeIsAsked DEF Free
    <3>2. q.step = "free"
      BY <2>5 DEF Free
    <3> QED BY <2>4, <3>1, <3>2
            DEF RequestOK, StarAsked, Granted, KeyAsked, Orphaned, Stars, Rotates, Starring
  <2>6. CASE q # Free
    <3>1. q = [i EXCEPT !.step = "orphan"]
      BY <2>1, <2>3, <2>6 DEF Abandoned
    <3>2. /\ q \in HomeRequest /\ q.step = "orphan"
          /\ q.op = i.op /\ q.on = i.on /\ q.with = i.with
      BY <2>2, <3>1 DEF HomeRequest
    <3>3. AskedOf(q)
      BY <2>2, <3>2 DEF AskedOf
    <3>4. q.on \in doubt'
      BY <2>1, <2>3, <2>6, <3>2, ReloadDoubts
    <3> QED BY <2>4, <3>2, <3>3, <3>4
            DEF RequestOK, StarAsked, Granted, KeyAsked, Orphaned, Stars, Rotates
  <2> QED BY <2>5, <2>6
<1>17. sending' \in [Sends -> HomeRequest]
  BY <1>16, ReloadAbandons DEF AskedOf
<1>18. OneEach'
  BY <1>16 DEF OneEach, Stars, Rotates
<1> QED BY <1>12, <1>15, <1>16, <1>17, <1>18 DEF ListInv, AskedOf

(* The relay sees a pane opened, also one that was taken off the recents.  *)
LEMMA RecordsList ==
  ASSUME ListInv, NEW p \in HomePanes, RecordsView(p)
  PROVE  ListInv'
<1>1. ListTypes /\ PageInv
  BY DEF ListInv
<1>2. PICK d : d = owned[p]
  OBVIOUS
<1>3. d \in OwnedPane
  BY <1>1, <1>2 DEF ListTypes
<1>4. PICK o : o = [d EXCEPT !.viewed = TRUE]
  OBVIOUS
<1>5. o \in OwnedPane /\ o.favorite = d.favorite /\ o.trashed = d.trashed
  BY <1>3, <1>4 DEF OwnedPane
<1>6. /\ owned' = [owned EXCEPT ![p] = o]
      /\ revived' = IF d.viewed THEN revived ELSE revived \cup {p}
      /\ UNCHANGED <<listed, strip, chip, editor, ownAgent, says, busy, sending, doubt>>
  BY <1>2, <1>4 DEF RecordsView, agentVars
<1>7. /\ owned' \in [HomePanes -> OwnedPane] /\ owned'[p] = o
      /\ \A x \in HomePanes \ {p} : owned'[x] = owned[x]
  <2>1. owned \in [HomePanes -> OwnedPane]
    BY <1>1 DEF ListTypes
  <2> QED BY <1>5, <1>6, <2>1, OnePlace
<1>8. ListTypes'
  BY <1>1, <1>6, <1>7 DEF ListTypes
<1>9. \A x \in HomePanes :
         /\ owned'[x].favorite = owned[x].favorite /\ owned'[x].trashed = owned[x].trashed
         /\ ~owned[x].viewed \/ x \in revived => ~owned'[x].viewed \/ x \in revived'
  BY <1>2, <1>5, <1>6, <1>7
<1>10. PageInv'
  BY <1>1, <1>6, <1>9 DEF PageInv, StarIsFavorite, GoneIsGone
<1>11. ASSUME NEW s \in Sends PROVE Spares(sending[s])
  <2>1. PICK j : j = sending[s]
    OBVIOUS
  <2>2. j.op \in PaneOps => j.on \in HomePanes
    BY <2>1 DEF ListInv, AskedOf
  <2>3. Stars(j) => j.op \in PaneOps
    BY DEF Stars, PaneOps
  <2>4. Spares(j)
    BY <1>6, <1>9, <2>2, <2>3 DEF Spares
  <2> QED BY <2>1, <2>4
<1> QED BY <1>6, <1>8, <1>10, <1>11, RequestsStay

LEMMA ListStep ==
  ASSUME ListInv, [HomeNext]_homeVars
  PROVE  ListInv'
<1>1. CASE UNCHANGED <<revived, listVars, agentVars, busy, sending, doubt>>
  BY <1>1, QuietStep
<1>2. CASE NavNext
  <2>1. CASE (\E v \in Hashes : GoTo(v)) \/ ScrollMain \/ Travel(place - 1) \/ Travel(place + 1)
             \/ \E p \in HomePanes : ClickPane(p)
    BY <1>1, <2>1 DEF GoTo, ScrollMain, Travel, ClickPane, viewVars
  <2> QED BY <1>2, <2>1, ReloadList, RecordsList, QuietStep, ClickLaunchStep, LaunchingStep
          DEF NavNext
<1>3. CASE ListNext
  BY <1>3, QuietStep, ClickStarStep, ClickRowStep, ServesStep, RefusesStep, ShowStarStep,
     ShowRowStep DEF ListNext
<1>4. CASE AgentsNext
  BY <1>4, ClickAgentStep, ServesAgentStep, ShowAgentStep DEF AgentsNext
<1>5. CASE \E r \in Sends : IsLost(r) \/ ShowFailure(r)
  BY <1>5, IsLostStep, ShowFailureStep
<1>6. CASE UNCHANGED homeVars
  BY <1>1, <1>6 DEF homeVars, navVars, viewVars
<1> QED BY <1>2, <1>3, <1>4, <1>5, <1>6 DEF HomeNext

HomeIInv == NavInv /\ ListInv

(* The owner's home page shows what is and goes back to what was           *)
(* (owner-shell-spa.ts), however the views, launches that answer late,     *)
(* stars, deletes, rotations and lost answers interleave, for any number   *)
(* of panes, requests and entries, and for both default segments.          *)
THEOREM HomeSound == HomeSpec => HomeIsSound
<1>1. HomeInit => HomeIInv
  BY NavInvInit, ListInvInit DEF HomeIInv
<1>2. HomeIInv /\ [HomeNext]_homeVars => HomeIInv'
  BY NavStep, ListStep DEF HomeIInv
<1>3. HomeIInv => HomeTypeOK /\ UrlIsShown /\ StarIsFavorite /\ GoneIsGone
  <2> SUFFICES ASSUME HomeIInv PROVE HomeTypeOK /\ UrlIsShown /\ StarIsFavorite /\ GoneIsGone
    OBVIOUS
  <2>1. NavTypes /\ UrlIsShown /\ ListTypes /\ PageInv
    BY DEF HomeIInv, NavInv, ListInv
  <2>2. \A r \in Sends : sending[r].op \in Ops \cup {"none"}
    BY DEF HomeIInv, ListInv, HomeRequest
  <2>3. HomeTypeOK
    BY <2>1, <2>2 DEF HomeTypeOK, NavTypes, ListTypes, HomeEntry, KeptTops, OwnedPane, ListedPane
  <2> QED BY <2>1, <2>3 DEF PageInv
<1>4. HomeIInv /\ [HomeNext]_homeVars =>
         [place' # place /\ view' # "pane" =>
             /\ ViewOf(view') = ViewOf(entries[place'].hash) /\ scroll' = entries[place'].top
             /\ DefaultSegment = "templates" => view' = entries[place'].hash]_homeVars
  BY NavStep DEF HomeIInv, GoesBack
<1> QED BY <1>1, <1>2, <1>3, <1>4, PTL DEF HomeSpec, HomeIsSound, ReturnsWhereLeft
===============================================================================
