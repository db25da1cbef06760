----------------------------- MODULE PushNotify -----------------------------
(***************************************************************************)
(* Web push: the relay announces new panes to their owners (push.ts), on   *)
(* the browsers whose push subscriptions it has stored (self.ts), which    *)
(* the switch under Settings adds and removes (owner-shell-spa.ts).        *)
(*                                                                         *)
(* One browser, in which people may log in one after the other, one page   *)
(* with its switch, and one relay process. An endpoint is live as long as  *)
(* the browser keeps the subscription; the push service answers 410 for    *)
(* any other. What a notification says and where a click on it leads are   *)
(* left out; so is PUSH_COALESCE_WINDOW_SECONDS = 0.                        *)
(***************************************************************************)
EXTENDS Naturals, FiniteSets

CONSTANTS
    Persons,      \* owners of panes, who use the browser
    NoPerson,
    Clicks,       \* handlers of clicks on the switch, at most so many at once
    MaxEndpoint,  \* bound of the model: subscriptions of the browser
    MaxPush       \* bound of the model: panes created

ASSUME PushAssumption ==
    /\ NoPerson \notin Persons
    /\ MaxEndpoint \in Nat /\ MaxPush \in Nat

VARIABLES
    session,      \* whose session cookie the browser has
    device,       \* the browser's subscription: its endpoint, or 0
    endpoints,    \* how many the push service has issued
    gone,         \* those that were unsubscribed
    subscription, \* the relay's rows: the human of each endpoint
    switch,       \* the page: what it shows, whether the switch takes clicks,
                  \* and how far init() is
    click,        \* handlers of clicks: step, and the endpoint they work on
    created,      \* panes of owners that were created
    throttle,     \* coalescer: whose window is open
    buffered,     \* coalescer: panes that wait for the window to close
    push,         \* deliveries under way: person, whether the rows are read, and
                  \* the endpoints still to send to
    named,         \* history: in how many pushes each pane was named
    sent,         \* history: sends of a person since the timer fired
    unsaid,       \* history: panes whose announcement died with the process
    off           \* history: endpoints taken off the relay, and not put back

pushVars == <<session, device, endpoints, gone, subscription, switch, click,
              created, throttle, buffered, push, named, sent, unsaid, off>>
browserVars == <<session, device, endpoints, gone, switch, click>>
relayVars == <<created, throttle, buffered, push, named, sent, unsaid>>

Endpoints == 1 .. MaxEndpoint
Announced == 1 .. MaxPush

SwitchRow == [shown : BOOLEAN, enabled : BOOLEAN, init : {"ask", "read", "done"},
              saw : BOOLEAN]
ClickRow == [step : {"idle", "find", "unsubscribe", "erase", "subscribe", "save"},
             at : 0 .. MaxEndpoint]
PushRow == [to : Persons, read : BOOLEAN, left : SUBSET Endpoints]

PushTypeOK ==
    /\ session \in Persons
    /\ endpoints \in 0 .. MaxEndpoint
    /\ device \in 0 .. endpoints
    /\ gone \subseteq 1 .. endpoints
    /\ subscription \in [Endpoints -> Persons \cup {NoPerson}]
    /\ switch \in SwitchRow
    /\ click \in [Clicks -> ClickRow]
    /\ created \in 0 .. MaxPush
    /\ throttle \in [Persons -> BOOLEAN]
    /\ buffered \in [Persons -> SUBSET Announced]
    /\ push \subseteq PushRow
    /\ named \in [Announced -> Nat]
    /\ sent \in [Persons -> Nat]
    /\ unsaid \subseteq Announced /\ off \subseteq Endpoints

Loading == [shown |-> FALSE, enabled |-> TRUE, init |-> "ask", saw |-> FALSE]

NoClick == [step |-> "idle", at |-> 0]

PushInit ==
    /\ session \in Persons
    /\ device = 0 /\ endpoints = 0 /\ gone = {}
    /\ subscription = [e \in Endpoints |-> NoPerson]
    /\ switch = Loading
    /\ click = [c \in Clicks |-> NoClick]
    /\ created = 0
    /\ throttle = [h \in Persons |-> FALSE]
    /\ buffered = [h \in Persons |-> {}]
    /\ push = {} /\ named = [p \in Announced |-> 0]
    /\ sent = [h \in Persons |-> 0]
    /\ unsaid = {} /\ off = {}

-----------------------------------------------------------------------------
(* The page.                                                               *)

\* init() asks the browser for its subscription, which answers later; without
\* the permission, or when that fails, it leaves the switch off.
InitAsks ==
    /\ switch.init = "ask"
    /\ switch' = [switch EXCEPT !.init = "read", !.saw = device # 0]
    /\ UNCHANGED <<session, device, endpoints, gone, click, subscription, relayVars, off>>

\* Its render() makes the switch take clicks, whatever is under way.
InitShows ==
    /\ switch.init = "read"
    /\ switch' = [switch EXCEPT !.init = "done", !.shown = switch.saw, !.enabled = TRUE]
    /\ UNCHANGED <<session, device, endpoints, gone, click, subscription, relayVars, off>>

InitFails ==
    /\ switch.init # "done"
    /\ switch' = [switch EXCEPT !.init = "done", !.enabled = TRUE]
    /\ UNCHANGED <<session, device, endpoints, gone, click, subscription, relayVars, off>>

Click(c) ==
    /\ click[c] = NoClick /\ switch.enabled
    /\ switch' = [switch EXCEPT !.enabled = FALSE]
    /\ click' = [click EXCEPT ![c].step = IF switch.shown THEN "find" ELSE "subscribe"]
    /\ UNCHANGED <<session, device, endpoints, gone, subscription, relayVars, off>>

\* setEnabled ends in render().
Rendered(c, shown) ==
    /\ switch' = [switch EXCEPT !.shown = shown, !.enabled = TRUE]
    /\ click' = [click EXCEPT ![c] = NoClick]

FindSubscription(c) ==
    /\ click[c].step = "find"
    /\ IF device = 0
       THEN Rendered(c, FALSE)
       ELSE /\ click' = [click EXCEPT ![c] = [step |-> "unsubscribe", at |-> device]]
            /\ UNCHANGED switch
    /\ UNCHANGED <<session, device, endpoints, gone, subscription, relayVars, off>>

\* The browser's part of unsubscribe(), whose failure is ignored.
Unsubscribe(c) ==
    /\ click[c].step = "unsubscribe"
    /\ click' = [click EXCEPT ![c].step = "erase"]
    /\ \/ /\ gone' = gone \cup {click[c].at}
          /\ device' = IF device = click[c].at THEN 0 ELSE device
       \/ UNCHANGED <<gone, device>>
    /\ UNCHANGED <<session, endpoints, switch, subscription, relayVars, off>>

\* DELETE /v1/self/push-subscriptions deletes the caller's row; a request that
\* does not get through is ignored too.
Erase(c) ==
    LET e == click[c].at IN
    /\ click[c].step = "erase" /\ Rendered(c, FALSE)
    /\ \/ /\ subscription[e] \in {session, NoPerson}
          /\ subscription' = [subscription EXCEPT ![e] = NoPerson]
          /\ off' = off \cup {e}
       \/ UNCHANGED <<subscription, off>>
    /\ UNCHANGED <<session, device, endpoints, gone, relayVars>>

\* With the permission and the relay's public key: pushManager.subscribe gives
\* the subscription there is, or a new one.
Subscribe(c) ==
    /\ click[c].step = "subscribe"
    /\ \/ /\ device # 0
          /\ UNCHANGED <<device, endpoints>>
       \/ /\ device = 0 /\ endpoints < MaxEndpoint
          /\ endpoints' = endpoints + 1 /\ device' = endpoints + 1
    /\ click' = [click EXCEPT ![c] = [step |-> "save", at |-> device']]
    /\ UNCHANGED <<session, gone, switch, subscription, relayVars, off>>

\* Seeded bug: the endpoint is handed over to who registers it.
SaveRowReassigns(e) ==
    /\ subscription' = [subscription EXCEPT ![e] = session]
    /\ off' = off \ {e}

\* POST /v1/self/push-subscriptions refuses an endpoint of somebody else (409).
SaveRow(e) ==
    IF subscription[e] \in {NoPerson, session}
    THEN /\ subscription' = [subscription EXCEPT ![e] = session]
         /\ off' = off \ {e}
    ELSE UNCHANGED <<subscription, off>>

\* Whatever the answer is, the page shows On.
Save(c) ==
    /\ click[c].step = "save" /\ Rendered(c, TRUE)
    /\ SaveRow(click[c].at)
    /\ UNCHANGED <<session, device, endpoints, gone, relayVars>>

\* A refused permission, a key that cannot be fetched and a request that does
\* not get through leave what is shown.
GiveUp(c) ==
    /\ click[c].step \in {"subscribe", "save"}
    /\ Rendered(c, switch.shown)
    /\ UNCHANGED <<session, device, endpoints, gone, subscription, relayVars, off>>

\* The page is loaded again; another person may have logged in, in this page or
\* in another one.
ReloadPage ==
    /\ switch' = Loading /\ switch # Loading
    /\ click' = [c \in Clicks |-> NoClick]
    /\ UNCHANGED <<session, device, endpoints, gone, subscription, relayVars, off>>

LogInAs(h) ==
    /\ session # h /\ session' = h
    /\ UNCHANGED <<device, endpoints, gone, switch, click, subscription, relayVars, off>>

-----------------------------------------------------------------------------
(* The relay.                                                              *)

PushTo(h, panes, count) ==
    /\ push' = push \cup {[to |-> h, read |-> FALSE, left |-> {}]}
    /\ named' = [p \in Announced |-> IF p \in panes THEN named[p] + 1 ELSE named[p]]
    /\ sent' = [sent EXCEPT ![h] = count]

\* notifyHuman, after POST /v1/panes has created a pane of an owner: the first
\* one is sent at once and opens a window.
NotifyHuman(h) ==
    /\ created < MaxPush /\ created' = created + 1
    /\ IF throttle[h]
       THEN /\ buffered' = [buffered EXCEPT ![h] = @ \cup {created'}]
            /\ UNCHANGED <<throttle, push, named, sent>>
       ELSE /\ throttle' = [throttle EXCEPT ![h] = TRUE]
            /\ PushTo(h, {created'}, sent[h] + 1)
            /\ UNCHANGED buffered
    /\ UNCHANGED <<browserVars, subscription, unsaid, off>>

\* The timer has fired. A window in which nothing came is closed, any other is
\* followed by the next one.
Flush(h) ==
    /\ throttle[h]
    /\ IF buffered[h] = {}
       THEN /\ throttle' = [throttle EXCEPT ![h] = FALSE]
            /\ sent' = [sent EXCEPT ![h] = 0]
            /\ UNCHANGED <<buffered, push, named>>
       ELSE /\ buffered' = [buffered EXCEPT ![h] = {}]
            /\ PushTo(h, buffered[h], 1)
            /\ UNCHANGED throttle
    /\ UNCHANGED <<browserVars, created, subscription, unsaid, off>>

\* deliver: the rows of the person, and then one request for each.
ReadSubscriptions(d) ==
    /\ ~d.read
    /\ LET mine == {e \in Endpoints : subscription[e] = d.to}
       IN push' = (push \ {d}) \cup
                     (IF mine = {} THEN {} ELSE {[d EXCEPT !.read = TRUE, !.left = mine]})
    /\ UNCHANGED <<browserVars, created, throttle, buffered, named, sent, subscription, unsaid, off>>

\* The push service takes a request for a live endpoint and the browser shows
\* it, as a toast when one of the relay's pages has the focus; for an endpoint
\* that is gone it answers 410, and the row is deleted. Other failures are
\* logged.
SendTo(d, e) ==
    /\ d.read /\ e \in d.left
    /\ push' = (push \ {d}) \cup
                  (IF d.left = {e} THEN {} ELSE {[d EXCEPT !.left = @ \ {e}]})
    /\ \/ e \in gone /\ subscription' = [subscription EXCEPT ![e] = NoPerson]
       \/ UNCHANGED subscription
    /\ UNCHANGED <<browserVars, created, throttle, buffered, named, sent, unsaid, off>>

\* Windows and buffers are in the process's memory.
RelayStops ==
    /\ \E h \in Persons : throttle[h]
    /\ unsaid' = unsaid \cup UNION {buffered[h] : h \in Persons}
    /\ throttle' = [h \in Persons |-> FALSE]
    /\ buffered' = [h \in Persons |-> {}]
    /\ sent' = [h \in Persons |-> 0]
    /\ push' = {}
    /\ UNCHANGED <<browserVars, created, named, subscription, off>>

-----------------------------------------------------------------------------
ClickStep(c) ==
    \/ Click(c) \/ FindSubscription(c) \/ Unsubscribe(c) \/ Erase(c)
    \/ Subscribe(c) \/ Save(c) \/ GiveUp(c)

PushNext ==
    \/ InitAsks \/ InitShows \/ InitFails
    \/ \E c \in Clicks : ClickStep(c)
    \/ ReloadPage \/ RelayStops
    \/ \E h \in Persons : LogInAs(h) \/ NotifyHuman(h) \/ Flush(h)
    \/ \E d \in push : ReadSubscriptions(d) \/ \E e \in Endpoints : SendTo(d, e)

PushSpec == PushInit /\ [][PushNext]_pushVars

-----------------------------------------------------------------------------
(* Properties.                                                             *)

\* Between two sends to a person the timer fires: there is at most one buzz per
\* window, also in a burst that goes on for several (push.ts:11-19, 139-173).
OneBuzzPerWindow == \A h \in Persons : sent[h] <= 1

\* Every pane is announced by one push, is waiting for a window that will close,
\* or was lost with the process: none twice, none left behind (push.ts:130-176).
EachAnnouncedOnce ==
    \A p \in 1 .. created :
        named[p] + Cardinality({h \in Persons : throttle[h] /\ p \in buffered[h]})
              = (IF p \in unsaid THEN 0 ELSE 1)

\* What the relay has deleted at the switch's request stays deleted until the
\* endpoint is registered again, whatever clicks, reloads and deliveries are
\* under way (self.ts:497-519).
OffIsQuiet == \A e \in off : subscription[e] = NoPerson

PushInv == PushTypeOK /\ OneBuzzPerWindow /\ EachAnnouncedOnce /\ OffIsQuiet

\* An endpoint goes from one account to another only by way of a deletion:
\* nobody takes over, or is put on, the notifications of somebody else
\* (self.ts:471-479).
EndpointKeepsOwner ==
    [][\A e \in Endpoints : subscription[e] # NoPerson =>
           subscription'[e] \in {subscription[e], NoPerson}]_pushVars

PushIsSound == []PushInv /\ EndpointKeepsOwner

\* Not properties: a switch that shows On has a row for the browser, which a
\* refused registration does not leave (the answer's status is not read); and
\* one that shows Off has none, which a click before init() has answered upsets.
OnIsStored ==
    switch.shown /\ (\A c \in Clicks : click[c] = NoClick)
        => device # 0 /\ subscription[device] = session
OffIsOff ==
    ~switch.shown /\ switch.init = "done"
      /\ (\A c \in Clicks : click[c] = NoClick)
        => device = 0 \/ subscription[device] = NoPerson
=============================================================================
