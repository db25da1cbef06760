----------------------------- MODULE AgentReads -----------------------------
(***************************************************************************)
(* How an agent hears of events: GET /events with ?since= and ?wait=       *)
(* (packages/relay/src/http/routes/events.ts, openWaiter in                *)
(* http/broadcast.ts), asked in a loop, and `pane watch`, one WebSocket    *)
(* that runs until a terminal condition (packages/cli/src/commands/        *)
(* watch.ts, packages/core/src/stream.ts).                                 *)
(*                                                                         *)
(* An event is drawn an id, becomes visible, and is then published; a      *)
(* process that dies, or Redis, may lose the publication. A long poll      *)
(* opens its waiter before it queries and queries again when it wakes.     *)
(***************************************************************************)
EXTENDS Naturals, FiniteSets, FiniteSetsExt

CONSTANTS
    Pollers,      \* agents that poll
    PollPage,     \* take: 500
    OneWriter,    \* TRUE: SQLite, where ids become visible in their order
    MaxLog        \* bound of the model: events of the pane

ASSUME AgentReadsAssumption ==
    /\ PollPage \in Nat \ {0} /\ MaxLog \in Nat
    /\ OneWriter \in BOOLEAN

VARIABLES
    stage,        \* per event: how far it has come
    sort,         \* per event: what it is to the watch
    poller,       \* per agent: where its request stands, cursor, what it has read
    watch,        \* the watch: state, last replayed id, the ids it took
    unheard,      \* history: the watch was connected but not sent an event
    redis         \* publications pass through Redis

readVars == <<stage, sort, poller, watch, unheard, redis>>

LogIds == 1 .. MaxLog
Sorts == {"plain", "wanted", "expired"}
PollSteps == {"idle", "now", "first", "empty", "waiting", "second"}
WatchStates == {"off", "replayed", "live", "closed", "matched", "failed"}

ReadsTypeOK ==
    /\ stage \in [LogIds -> {"none", "drawn", "void", "visible", "published"}]
    /\ sort \in [LogIds -> Sorts]
    /\ poller \in [Pollers -> [pc : PollSteps, since : 0 .. MaxLog,
                               woken : BOOLEAN, got : SUBSET LogIds]]
    /\ \A p \in Pollers : poller[p].woken => poller[p].pc \in {"first", "empty", "waiting"}
    /\ watch \in [state : WatchStates, last : 0 .. MaxLog, took : SUBSET LogIds]
    /\ unheard \in BOOLEAN /\ redis \in BOOLEAN

ReadsInit ==
    /\ stage = [e \in LogIds |-> "none"]
    /\ sort = [e \in LogIds |-> "plain"]
    /\ poller = [p \in Pollers |->
           [pc |-> "idle", since |-> 0, woken |-> FALSE, got |-> {}]]
    /\ watch = [state |-> "off", last |-> 0, took |-> {}]
    /\ unheard = FALSE /\ redis \in BOOLEAN

Visible == {e \in LogIds : stage[e] \in {"visible", "published"}}

-----------------------------------------------------------------------------
(* The log.                                                                *)

\* nextval, or the id SQLite gives in its one transaction. The last event of a
\* pane closed by its agent is system.pane.expired; one closed by its TTL has none.
DrawId(e, s) ==
    /\ stage[e] = "none" /\ \A d \in 1 .. e - 1 : stage[d] # "none" /\ sort[d] # "expired"
    /\ OneWriter => \A d \in LogIds : stage[d] # "drawn"
    /\ stage' = [stage EXCEPT ![e] = "drawn"]
    /\ sort' = [sort EXCEPT ![e] = s]
    /\ UNCHANGED <<poller, watch, unheard, redis>>

CommitId(e) ==
    /\ stage[e] = "drawn"
    /\ stage' = [stage EXCEPT ![e] = "visible"]
    /\ UNCHANGED <<sort, poller, watch, unheard, redis>>

\* The transaction rolls back; the id is never used.
VoidId(e) ==
    /\ stage[e] = "drawn" /\ sort[e] # "expired"
    /\ stage' = [stage EXCEPT ![e] = "void"]
    /\ UNCHANGED <<sort, poller, watch, unheard, redis>>

\* openWaiter buffers an event from its creation on.
Woken(p) == poller[p].pc \in {"first", "empty", "waiting"}

\* onEvent: what is filtered from the output still ends the watch.
AfterEventFiltered(state, taken) == IF "wanted" \in taken THEN "matched" ELSE state

AfterEvent(state, taken) ==
    IF "expired" \in taken THEN "closed"
    ELSE IF "wanted" \in taken THEN "matched" ELSE state

\* publish: the emitter calls the waiters and the live watch of the process; with
\* Redis between them the message may reach neither.
PublishId(e) ==
    /\ stage[e] = "visible"
    /\ stage' = [stage EXCEPT ![e] = "published"]
    /\ \E arrives \in IF redis THEN BOOLEAN ELSE {TRUE} :
           /\ poller' = [p \in Pollers |->
                  IF arrives /\ Woken(p) THEN [poller[p] EXCEPT !.woken = TRUE] ELSE poller[p]]
           /\ IF watch.state = "live" /\ arrives /\ e > watch.last
              THEN watch' = [watch EXCEPT !.took = @ \cup {e},
                                          !.state = AfterEvent(@, {sort[e]})]
              ELSE UNCHANGED watch
           /\ unheard' = \/ unheard
                         \/ watch'.state \in {"replayed", "live"} /\ e \notin watch'.took
    /\ UNCHANGED <<sort, redis>>

-----------------------------------------------------------------------------
(* The long poll.                                                          *)

SetStep(p, step) == poller' = [poller EXCEPT ![p].pc = step, ![p].woken = FALSE]

\* A request, its cursor that of the last answer; wait > 0 opens the waiter.
AskEvents(p) ==
    /\ poller[p].pc = "idle"
    /\ \E step \in {"now", "first"} : SetStep(p, step)
    /\ UNCHANGED <<stage, sort, watch, unheard, redis>>

FoundNewest(p) ==
    LET new == {e \in Visible : e > poller[p].since}
    IN  {e \in new : Cardinality({d \in new : d > e}) < PollPage}

\* query: the first page above the cursor.
Found(p) ==
    LET new == {e \in Visible : e > poller[p].since}
    IN  {e \in new : Cardinality({d \in new : d < e}) < PollPage}

\* The answer arrives, and the agent goes on from next_cursor.
AnswerEvents(p) ==
    /\ \/ poller[p].pc \in {"now", "second"}
       \/ poller[p].pc = "first" /\ Found(p) # {}
    /\ poller' = [poller EXCEPT ![p] =
           [pc |-> "idle", woken |-> FALSE, since |-> Max({@.since} \cup Found(p)),
            got |-> @.got \cup Found(p)]]
    /\ UNCHANGED <<stage, sort, watch, unheard, redis>>

\* Seeded bug: the waiter is not closed.
LoseAnswerKeepsWaiter(p) ==
    /\ poller[p].pc # "idle"
    /\ poller' = [poller EXCEPT ![p].pc = "idle"]
    /\ UNCHANGED <<stage, sort, watch, unheard, redis>>

\* The answer, or the request, is lost; the agent asks again.
LoseAnswer(p) ==
    /\ poller[p].pc # "idle"
    /\ SetStep(p, "idle")
    /\ UNCHANGED <<stage, sort, watch, unheard, redis>>

\* The first query finds nothing; its result is awaited.
FindNothing(p) ==
    /\ poller[p].pc = "first" /\ Found(p) = {}
    /\ poller' = [poller EXCEPT ![p].pc = "empty"]
    /\ UNCHANGED <<stage, sort, watch, unheard, redis>>

\* Seeded bug: the waiter is opened here, after the query.
BeginWaitForgets(p) ==
    /\ poller[p].pc = "empty"
    /\ SetStep(p, "waiting")
    /\ UNCHANGED <<stage, sort, watch, unheard, redis>>

\* wait: what was buffered in between is not forgotten.
BeginWait(p) ==
    /\ poller[p].pc = "empty"
    /\ poller' = [poller EXCEPT ![p].pc = "waiting"]
    /\ UNCHANGED <<stage, sort, watch, unheard, redis>>

WakeUp(p) ==
    /\ poller[p].pc = "waiting" /\ poller[p].woken
    /\ SetStep(p, "second")
    /\ UNCHANGED <<stage, sort, watch, unheard, redis>>

\* The timer, at most 30 seconds.
WaitNeverTimesOut(p) ==
    /\ FALSE
    /\ SetStep(p, "second")
    /\ UNCHANGED <<stage, sort, watch, unheard, redis>>

WaitTimesOut(p) ==
    /\ poller[p].pc = "waiting" /\ ~poller[p].woken
    /\ SetStep(p, "second")
    /\ UNCHANGED <<stage, sort, watch, unheard, redis>>

-----------------------------------------------------------------------------
(* The watch.                                                              *)

\* openStream without --since: the replay; an event that ends the watch is the
\* last it takes.
StartWatch ==
    /\ watch.state = "off"
    /\ LET ends == {e \in Visible : sort[e] # "plain"}
           took == {e \in Visible : \A d \in ends : e <= d}
       IN  watch' = [state |-> AfterEvent("replayed", {sort[e] : e \in took}),
                     last |-> Max({0} \cup took), took |-> took]
    /\ UNCHANGED <<stage, sort, poller, unheard, redis>>

WatchGoesLive ==
    /\ watch.state = "replayed"
    /\ watch' = [watch EXCEPT !.state = "live"]
    /\ UNCHANGED <<stage, sort, poller, unheard, redis>>

\* --timeout, a relay error, or a socket that closes abnormally.
WatchFails ==
    /\ watch.state \in {"replayed", "live"}
    /\ watch' = [watch EXCEPT !.state = "failed"]
    /\ UNCHANGED <<stage, sort, poller, unheard, redis>>

\* The relay process ends: requests and sockets break, what it had not yet
\* published is never published.
RelayDies ==
    /\ \E e \in LogIds : stage[e] \in {"drawn", "visible"}
    /\ stage' = [e \in LogIds |->
           IF stage[e] = "drawn" THEN "void"
           ELSE IF stage[e] = "visible" THEN "published" ELSE stage[e]]
    /\ poller' = [p \in Pollers |-> [poller[p] EXCEPT !.pc = "idle", !.woken = FALSE]]
    /\ watch' = IF watch.state \in {"replayed", "live"}
                THEN [watch EXCEPT !.state = "failed"] ELSE watch
    /\ UNCHANGED <<sort, unheard, redis>>

ReadsNext ==
    \/ \E e \in LogIds :
           \/ \E s \in Sorts : DrawId(e, s)
           \/ CommitId(e) \/ VoidId(e) \/ PublishId(e)
    \/ \E p \in Pollers :
           AskEvents(p) \/ AnswerEvents(p) \/ LoseAnswer(p) \/ FindNothing(p)
               \/ BeginWait(p)
               \/ WakeUp(p) \/ WaitTimesOut(p)
    \/ StartWatch \/ WatchGoesLive \/ WatchFails \/ RelayDies

ReadsSpec == ReadsInit /\ [][ReadsNext]_readVars

\* The agent keeps asking, timers fire, a transaction ends and is published, and
\* not every answer is lost.
ReadsFairness ==
    /\ \A e \in LogIds :
           WF_readVars(CommitId(e) \/ VoidId(e)) /\ WF_readVars(PublishId(e))
    /\ \A p \in Pollers :
           /\ WF_readVars(AskEvents(p)) /\ SF_readVars(AnswerEvents(p))
           /\ SF_readVars(FindNothing(p)) /\ SF_readVars(BeginWait(p))
           /\ SF_readVars(WakeUp(p) \/ WaitTimesOut(p))
    /\ WF_readVars(WatchGoesLive)
ReadsLive == ReadsSpec /\ ReadsFairness

-----------------------------------------------------------------------------
(* Properties.                                                             *)

\* On SQLite a cursor passes no event by, whatever page, wait or lost answer it
\* went through (events.ts:84-103).
CursorSkipsNothing ==
    OneWriter => \A p \in Pollers, e \in Visible :
        e <= poller[p].since => e \in poller[p].got

\* A poll does not sleep over an event: one that is there while it waits is about
\* to be published, or has woken it (events.ts:107-118, broadcast.ts:196-201).
NoLostWakeup ==
    ~redis => \A p \in Pollers :
        (/\ poller[p].pc = "waiting"
         /\ \E e \in LogIds : stage[e] = "published" /\ e > poller[p].since) =>
            poller[p].woken

\* An agent that keeps polling reads every event, whatever publications are
\* lost: the wait ends by its timer and is followed by a query (events.ts:118-119).
EveryEventIsRead ==
    OneWriter => \A e \in LogIds, p \in Pollers : e \in Visible ~> e \in poller[p].got

\* A watch ends when the agent closes the pane, unless it was not sent an event
\* (watch.ts:179-198).
WatchEndsWithPane ==
    \A e \in LogIds :
        (watch.state \in {"replayed", "live"} /\ e \in Visible /\ sort[e] = "expired")
            ~> (watch.state \notin {"replayed", "live"} \/ unheard)

\* Not properties: an id that becomes visible late is never skipped on Postgres,
\* and a watch misses no event.
NothingSkipped ==
    \A p \in Pollers, e \in Visible : e <= poller[p].since => e \in poller[p].got
WatchHearsAll == ~unheard

(* What an agent has read, what it waits for, and that it gets there.      *)
ReadsInv == ReadsTypeOK /\ CursorSkipsNothing /\ NoLostWakeup
ReadsEnd == EveryEventIsRead /\ WatchEndsWithPane
=============================================================================
