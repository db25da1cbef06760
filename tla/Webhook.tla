------------------------------ MODULE Webhook ------------------------------
(***************************************************************************)
(* Webhook delivery (packages/relay/src/http/webhook.ts and the end of     *)
(* core/events.ts).                                                        *)
(*                                                                         *)
(* A committed event whose type matches the pane's filter is fired from    *)
(* memory, without anyone waiting: the URL is checked again and pinned,    *)
(* and the signed body is sent up to three times, until the receiver       *)
(* answers with a 2xx. The receiver may have acted on a request whose      *)
(* answer was lost or late, or that it answered badly. The timeout is one  *)
(* of inactivity: it ends a request that has fallen silent, not one whose  *)
(* answer goes on. A restart forgets every delivery. Deliveries of         *)
(* different events overtake each other.                                   *)
(***************************************************************************)
EXTENDS Naturals, Sequences, FiniteSets

CONSTANTS
    MaxHook,     \* bound of the model: events of the pane
    Attempts      \* the length of delays

ASSUME WebhookAssumption == MaxHook \in Nat /\ Attempts \in Nat \ {0}

VARIABLES
    log,          \* the committed events: which match the filter
    delivery,     \* per event: state, attempts made, whether a request is out
    posted,       \* receiver: the events it was sent, in order
    accepted      \* history: the events whose 2xx reached the relay

hookVars == <<log, delivery, posted, accepted>>

Events == 1 .. MaxHook
States == {"none", "resolving", "sending", "out", "silent", "pause", "over", "lost"}

WebhookTypeOK ==
    /\ log \in Seq(BOOLEAN) /\ Len(log) <= MaxHook
    /\ delivery \in [Events -> [state : States, tries : 0 .. Attempts]]
    /\ \A e \in Events : delivery[e].state # "none" => e <= Len(log)
    /\ posted \in Seq(Events) /\ accepted \subseteq Events

WebhookInit ==
    /\ log = << >>
    /\ delivery = [e \in Events |-> [state |-> "none", tries |-> 0]]
    /\ posted = << >> /\ accepted = {}

To(e, state) == delivery' = [delivery EXCEPT ![e].state = state]

\* shouldFire: the pane has a webhook and its filter names the type.
ShouldFireAlways(matches) == TRUE

ShouldFire(matches) == matches

\* writeEvent has committed an event and published it; fireWebhook starts a
\* delivery if it should and the secret can be decrypted.
CommitEvent ==
    /\ Len(log) < MaxHook
    /\ \E matches \in BOOLEAN :
           /\ log' = Append(log, matches)
           /\ IF ShouldFire(matches) THEN To(Len(log) + 1, "resolving") ELSE UNCHANGED delivery
    /\ UNCHANGED <<posted, accepted>>

\* The process dies between the commit and the delivery.
CommitAndDie ==
    /\ Len(log) < MaxHook
    /\ log' = Append(log, TRUE)
    /\ UNCHANGED <<delivery, posted, accepted>>

\* resolveSafeWebhookUrl: the URL is refused, or its address is pinned.
ResolveUrl(e) ==
    /\ delivery[e].state = "resolving"
    /\ \/ To(e, "sending")
       \/ To(e, "over")
    /\ UNCHANGED <<log, posted, accepted>>

\* sendOnce: the request reaches the receiver, from which something may come for
\* as long as it likes, or does not, and nothing will come.
SendOnce(e) ==
    /\ delivery[e].state = "sending"
    /\ \E arrives \in BOOLEAN :
           /\ delivery' = [delivery EXCEPT ![e] =
                  [state |-> IF arrives THEN "out" ELSE "silent", tries |-> @.tries + 1]]
           /\ posted' = IF arrives THEN Append(posted, e) ELSE posted
    /\ UNCHANGED <<log, accepted>>

\* The state after an attempt that failed.
AfterFailureForever(e) == "pause"

AfterFailure(e) == IF delivery[e].tries < Attempts THEN "pause" ELSE "over"

\* The end of a 2xx ends the delivery.
SuccessRepeats(e) ==
    /\ delivery[e].state = "out"
    /\ To(e, AfterFailure(e))
    /\ accepted' = accepted \cup {e}
    /\ UNCHANGED <<log, posted>>

Success(e) ==
    /\ delivery[e].state = "out"
    /\ To(e, "over")
    /\ accepted' = accepted \cup {e}
    /\ UNCHANGED <<log, posted>>

\* The end of a redirect or of any other status, or a connection that breaks.
Failure(e) ==
    /\ delivery[e].state = "out"
    /\ To(e, AfterFailure(e))
    /\ UNCHANGED <<log, posted, accepted>>

\* Nothing more will come of the request: the receiver hangs or is cut off.
FallSilent(e) ==
    /\ delivery[e].state = "out"
    /\ To(e, "silent")
    /\ UNCHANGED <<log, posted, accepted>>

\* A silent request is aborted, by the inactivity timeout or a network error.
TimesOutNever(e) ==
    /\ delivery[e].state = "silent" /\ \E i \in 1 .. Len(posted) : posted[i] = e
    /\ To(e, AfterFailure(e))
    /\ UNCHANGED <<log, posted, accepted>>

TimesOut(e) ==
    /\ delivery[e].state = "silent"
    /\ To(e, AfterFailure(e))
    /\ UNCHANGED <<log, posted, accepted>>

Resume(e) ==
    /\ delivery[e].state = "pause"
    /\ To(e, "sending")
    /\ UNCHANGED <<log, posted, accepted>>

RestartRelay ==
    /\ \E e \in Events : delivery[e].state \notin {"none", "over", "lost"}
    /\ delivery' = [e \in Events |->
           IF delivery[e].state \in {"none", "over"} THEN delivery[e]
           ELSE [delivery[e] EXCEPT !.state = "lost"]]
    /\ UNCHANGED <<log, posted, accepted>>

WebhookNext ==
    \/ CommitEvent \/ CommitAndDie \/ RestartRelay
    \/ \E e \in Events :
           \/ ResolveUrl(e) \/ SendOnce(e) \/ Success(e) \/ Failure(e)
           \/ FallSilent(e) \/ TimesOut(e) \/ Resume(e)

WebhookSpec == WebhookInit /\ [][WebhookNext]_hookVars

\* Timers fire. That an answer which has begun ends, or falls silent, is not the
\* relay's to say: nothing but silence starts the timeout (webhook.ts:109-129).
WebhookFairness ==
    \A e \in Events : WF_hookVars(ResolveUrl(e) \/ SendOnce(e) \/ TimesOut(e) \/ Resume(e))
WebhookLive == WebhookSpec /\ WebhookFairness

-----------------------------------------------------------------------------
(* Properties.                                                             *)

Copies(e) == Cardinality({i \in 1 .. Len(posted) : posted[i] = e})

\* The receiver is sent committed, matching events only, and each at most as
\* often as there are attempts (webhook.ts:184, core/events.ts:262-281).
CopiesBounded ==
    \A i \in 1 .. Len(posted) :
        /\ posted[i] <= Len(log) /\ log[posted[i]]
        /\ Copies(posted[i]) <= Attempts

\* An event the receiver has acknowledged, to the relay's knowledge, is not sent
\* again: a repetition always means a lost or bad answer (webhook.ts:206).
AcknowledgedEnds ==
    [][\A e \in accepted : Len(posted') = Len(posted) \/ posted'[Len(posted')] # e]_hookVars

\* A delivery ends, unless a receiver that was sent the event never comes to the
\* end of its answer: a receiver that hangs, refuses, redirects or cannot be reached
\* uses the attempts up (webhook.ts:109-129, 184-227).
Underway(e) == delivery[e].state \notin {"none", "over", "lost"}

DeliveriesEnd ==
    \A e \in Events :
        Underway(e) ~> (~Underway(e) \/ []((\E i \in 1 .. Len(posted) : posted[i] = e)
                                          /\ delivery[e].state = "out"))

\* Not properties: what arrives arrives in the order of the log; every matching
\* event that was committed is tried; and every attempt is aborted after ten
\* seconds (the comment at webhook.ts:13-14), so that each delivery ends.
ArrivesInOrder ==
    \A i, j \in 1 .. Len(posted) : i < j => posted[i] <= posted[j]
EveryMatchIsTried ==
    \A e \in 1 .. Len(log) : log[e] => delivery[e].state \notin {"none", "lost"}

EveryAttemptIsAborted == \A e \in Events : Underway(e) ~> ~Underway(e)

(* What the receiver is sent, how often, and that it ends.                 *)
WebhookIsSound == [](WebhookTypeOK /\ CopiesBounded) /\ AcknowledgedEnds /\ DeliveriesEnd
=============================================================================
