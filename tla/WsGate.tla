------------------------------- MODULE WsGate -------------------------------
(***************************************************************************)
(* The door of the event stream: tickets, the gates of an upgrade, the     *)
(* frames a connection may send, and the heartbeat                         *)
(* (packages/relay/src/ws/ticket.ts and handler.ts).                       *)
(*                                                                         *)
(* A shell exchanges its credentials for a ticket, kept in memory for 30   *)
(* seconds and good once. An upgrade takes its author and rights from a    *)
(* ticket or a bearer token, then reads the pane, then the number of open  *)
(* connections, and only then becomes one of them. A frame passes the      *)
(* rights of its connection, an allowance for anonymous visitors, and the  *)
(* pane read again. A socket that stays silent for a whole heartbeat       *)
(* interval is terminated. What follows a connection is EventStream's.     *)
(***************************************************************************)
EXTENDS Naturals, FiniteSets

CONSTANTS
    Tickets, Upgrades,
    Cap,          \* MAX_WS_CONNECTIONS_PER_PANE
    Allowance,    \* MAX_ANON_PUBLIC_EMITS_PER_CONNECTION
    MaxFrame      \* bound of the model: events of one connection

ASSUME WsGateAssumption ==
    /\ IsFiniteSet(Upgrades)
    /\ Cap \in Nat \ {0} /\ Allowance \in Nat /\ MaxFrame \in Nat

VARIABLES
    ticket,       \* the ticket map, and what it grants
    pane,         \* status and deletedAt
    up,           \* upgrades: credential, rights, step
    burst,        \* history: most upgrades between count and connection at once
    opened,       \* history: <<ticket, upgrade>> let in with it
    frames        \* per connection: emits counted, and frames that became events

gateVars == <<ticket, pane, up, burst, opened, frames>>

Bearer == "bearer"
Steps == {"new", "pane", "count", "connect", "open", "refused", "gone"}
InFlight == {u \in Upgrades : up[u].step = "connect"}
Connected == {u \in Upgrades : up[u].step = "open"}

TicketRow == [state : {"none", "live", "expired", "gone"},
              here : BOOLEAN, canEmit : BOOLEAN, anon : BOOLEAN]
UpgradeRow == [cred : Tickets \cup {Bearer}, step : Steps, canEmit : BOOLEAN,
               anon : BOOLEAN, alive : BOOLEAN, peer : BOOLEAN]
FrameRow == [counted : 0 .. Allowance + 1, events : 0 .. MaxFrame]

GateTypeOK ==
    /\ ticket \in [Tickets -> TicketRow]
    /\ pane \in [status : {"open", "closed"}, trashed : BOOLEAN]
    /\ up \in [Upgrades -> UpgradeRow]
    /\ burst \in 0 .. Cardinality(Upgrades)
    /\ opened \subseteq Tickets \X Upgrades
    /\ frames \in [Upgrades -> FrameRow]

GateInit ==
    /\ ticket \in [Tickets -> [state : {"none"}, here : BOOLEAN,
                               canEmit : BOOLEAN, anon : BOOLEAN]]
    /\ pane = [status |-> "open", trashed |-> FALSE]
    /\ up \in [Upgrades -> [cred : Tickets \cup {Bearer}, step : {"new"}, canEmit : {FALSE},
                            anon : {FALSE}, alive : {FALSE}, peer : {TRUE}]]
    /\ burst = 0 /\ opened = {}
    /\ frames = [u \in Upgrades |-> [counted |-> 0, events |-> 0]]

-----------------------------------------------------------------------------
(* ticket.ts.                                                              *)

\* issueTicket, for the pane of the model or for another one.
IssueTicket(t) ==
    /\ ticket[t].state = "none"
    /\ ticket' = [ticket EXCEPT ![t].state = "live"]
    /\ UNCHANGED <<pane, up, burst, opened, frames>>

TicketExpires(t) ==
    /\ ticket[t].state = "live"
    /\ ticket' = [ticket EXCEPT ![t].state = "expired"]
    /\ UNCHANGED <<pane, up, burst, opened, frames>>

\* prune: what has expired is forgotten when a ticket is issued or redeemed.
PruneTickets ==
    /\ \E t \in Tickets : ticket[t].state = "expired"
    /\ ticket' = [t \in Tickets |-> IF ticket[t].state = "expired"
                                    THEN [ticket[t] EXCEPT !.state = "gone"] ELSE ticket[t]]
    /\ UNCHANGED <<pane, up, burst, opened, frames>>

RedeemTicketKept(t) == [valid |-> ticket[t].state = "live" /\ ticket[t].here, map |-> ticket]
RedeemTicketAnywhere(t) ==
    [valid |-> ticket[t].state = "live", map |-> [ticket EXCEPT ![t].state = "gone"]]

\* redeemTicket: the ticket is deleted before its expiry and pane are looked at.
RedeemTicket(t) ==
    [valid |-> ticket[t].state = "live" /\ ticket[t].here,
     map |-> IF ticket[t].state \in {"live", "expired"}
             THEN [ticket EXCEPT ![t].state = "gone"] ELSE ticket]

-----------------------------------------------------------------------------
(* handleUpgrade. Origin, rate limit and the syntax of the request come    *)
(* before its first step here, which is the credential.                    *)

RightsAssumed(u) ==
    IF up[u].cred = Bearer THEN [canEmit |-> TRUE, anon |-> FALSE]
    ELSE [canEmit |-> TRUE, anon |-> ticket[up[u].cred].anon]

Rights(u) ==
    IF up[u].cred = Bearer THEN [canEmit |-> TRUE, anon |-> FALSE]
    ELSE [canEmit |-> ticket[up[u].cred].canEmit, anon |-> ticket[up[u].cred].anon]

\* extractCredential and the redemption; a bearer is resolved, or it is not.
TakeCredential(u) ==
    /\ up[u].step = "new"
    /\ \E valid \in BOOLEAN :
           /\ IF up[u].cred = Bearer THEN UNCHANGED <<ticket, opened>>
              ELSE LET r == RedeemTicket(up[u].cred) IN
                   /\ valid = r.valid
                   /\ ticket' = r.map
                   /\ opened' = IF valid THEN opened \cup {<<up[u].cred, u>>} ELSE opened
           /\ up' = [up EXCEPT ![u] = [@ EXCEPT
                         !.step = IF valid THEN "pane" ELSE "refused",
                         !.canEmit = Rights(u).canEmit, !.anon = Rights(u).anon]]
    /\ UNCHANGED <<pane, burst, frames>>

\* The pane is read: trash, status and expiry turn the upgrade away.
GatePane(u) ==
    /\ up[u].step = "pane"
    /\ up' = [up EXCEPT ![u].step =
                 IF pane.status = "open" /\ ~pane.trashed THEN "count" ELSE "refused"]
    /\ UNCHANGED <<ticket, pane, burst, opened, frames>>

UnderCapOrEqual == Cardinality(Connected) <= Cap

UnderCap == Cardinality(Connected) < Cap

\* connectionCount, against the cap.
GateCount(u) ==
    /\ up[u].step = "count"
    /\ up' = [up EXCEPT ![u].step = IF UnderCap THEN "connect" ELSE "refused"]
    /\ burst' = LET n == Cardinality(InFlight) + 1 IN
                IF UnderCap /\ n > burst THEN n ELSE burst
    /\ UNCHANGED <<ticket, pane, opened, frames>>

\* The handshake completes and addConnection counts it; or the query of its
\* record subscriptions does not parse, or the peer has gone.
Connect(u) ==
    /\ up[u].step = "connect"
    /\ \/ up' = [up EXCEPT ![u] = [@ EXCEPT !.step = "open", !.alive = TRUE]]
       \/ up' = [up EXCEPT ![u].step = "refused"]
    /\ UNCHANGED <<ticket, pane, burst, opened, frames>>

-----------------------------------------------------------------------------
(* handleFrame. The allowance of an anonymous visitor counts the frames    *)
(* that it may emit and that name a type; the pane is read again, and      *)
(* writeEvent takes events for open panes.                                 *)

CountUncapped(f, anon) == IF anon THEN [f EXCEPT !.counted = 1] ELSE f
CountAlways(f, anon) == IF anon THEN [f EXCEPT !.counted = @ + 1] ELSE f

Count(f, anon) ==
    IF anon /\ f.counted <= Allowance THEN [f EXCEPT !.counted = @ + 1] ELSE f

Frame(u) ==
    /\ up[u].step = "open" /\ up[u].peer /\ up[u].canEmit
    /\ LET f == Count(frames[u], up[u].anon)
           over == up[u].anon /\ f.counted > Allowance
       IN \E fits \in BOOLEAN :
              frames' = [frames EXCEPT ![u] =
                  IF fits /\ ~over /\ pane.status = "open" /\ f.events < MaxFrame
                  THEN [f EXCEPT !.events = @ + 1] ELSE f]
    /\ UNCHANGED <<ticket, pane, up, burst, opened>>

-----------------------------------------------------------------------------
(* attachWs: every 30 seconds a socket that has not answered the last ping *)
(* is terminated, and the others are pinged.                               *)

HeartbeatTrusting(u) ==
    /\ up[u].step = "open"
    /\ up' = [up EXCEPT ![u] = IF ~@.alive THEN [@ EXCEPT !.step = "gone"] ELSE @]
    /\ UNCHANGED <<ticket, pane, burst, opened, frames>>

Heartbeat(u) ==
    /\ up[u].step = "open"
    /\ up' = [up EXCEPT ![u] = IF ~@.alive THEN [@ EXCEPT !.step = "gone"]
                               ELSE [@ EXCEPT !.alive = FALSE]]
    /\ UNCHANGED <<ticket, pane, burst, opened, frames>>

Pong(u) ==
    /\ up[u].step = "open" /\ up[u].peer /\ ~up[u].alive
    /\ up' = [up EXCEPT ![u].alive = TRUE]
    /\ UNCHANGED <<ticket, pane, burst, opened, frames>>

\* The peer vanishes without a close, or closes.
PeerVanishes(u) ==
    /\ up[u].peer
    /\ up' = [up EXCEPT ![u].peer = FALSE]
    /\ UNCHANGED <<ticket, pane, burst, opened, frames>>

Disconnect(u) ==
    /\ up[u].step = "open" /\ up[u].peer
    /\ up' = [up EXCEPT ![u].step = "gone"]
    /\ UNCHANGED <<ticket, pane, burst, opened, frames>>

\* Other requests close the pane and move it to the trash.
PaneChanges ==
    /\ \/ pane' = [pane EXCEPT !.status = "closed"]
       \/ pane' = [pane EXCEPT !.trashed = TRUE]
    /\ UNCHANGED <<ticket, up, burst, opened, frames>>

GateNext ==
    \/ PaneChanges \/ PruneTickets
    \/ \E t \in Tickets : IssueTicket(t) \/ TicketExpires(t)
    \/ \E u \in Upgrades :
           \/ TakeCredential(u) \/ GatePane(u) \/ GateCount(u) \/ Connect(u)
           \/ Frame(u) \/ Heartbeat(u) \/ Pong(u) \/ PeerVanishes(u) \/ Disconnect(u)

GateSpec == GateInit /\ [][GateNext]_gateVars

\* setInterval keeps firing.
GateFairness == \A u \in Upgrades : WF_gateVars(Heartbeat(u))
GateLive == GateSpec /\ GateFairness

-----------------------------------------------------------------------------
(* Properties.                                                             *)

\* A ticket lets one upgrade in, to its own pane (ticket.ts:68-75, 110-117).
TicketOpensOnce ==
    \A x, y \in opened : /\ x[1] = y[1] => x[2] = y[2]
                         /\ ticket[x[1]].here

\* The cap is exceeded at most by the upgrades that were between its check and
\* their connection at the same time (handler.ts:493-499).
CapOvershootBounded ==
    Cardinality(Connected) + Cardinality(InFlight) < Cap + (IF burst = 0 THEN 1 ELSE burst)

\* What a ticket does not permit never becomes an event, nor more than the
\* allowance of an anonymous visitor (handler.ts:659-668, 986-1001).
FramesKeepRights ==
    \A x \in opened :
        /\ ~ticket[x[1]].canEmit => frames[x[2]].events = 0
        /\ ticket[x[1]].anon => frames[x[2]].events <= Allowance

\* A connection whose peer has vanished does not stay (handler.ts:221-236).
DeadPeersLeave ==
    \A u \in Upgrades : [](up[u].step = "open" /\ ~up[u].peer => <>(up[u].step = "gone"))

\* Not a property: no connection starts on a pane that is in the trash.
NoStreamOnTrash ==
    [][\A u \in Upgrades :
          up[u].step = "connect" /\ up'[u].step = "open" => ~pane.trashed]_gateVars

(* Who gets in, how many, and what they may do.                            *)
GateInv == GateTypeOK /\ TicketOpensOnce /\ CapOvershootBounded /\ FramesKeepRights
=============================================================================
