---------------------------- MODULE EventStream -----------------------------
(***************************************************************************)
(* The WebSocket stream of one pane (packages/relay/src/ws/handler.ts) on  *)
(* top of its event log: the upgrade and its gates, the presence registry, *)
(* the joined event, the replay, the subscription to the broadcast bus,    *)
(* the close handler, and the client that reconnects with ?since= the      *)
(* highest event id it saw (bridge/client/shell.client.ts).                *)
(*                                                                         *)
(* handleConnection awaits between its phases, so each is an action; the   *)
(* message and close listeners are only attached in the last of them.      *)
(* RedisOn selects the broadcast backend (http/broadcast.ts): in-process   *)
(* the publisher calls the subscribers synchronously; over Redis a publish *)
(* reaches each replica later, or never.                                   *)
(***************************************************************************)
EXTENDS EventLog, FiniteSetsExt

CONSTANTS
    Clients,        \* who opens sessions
    ClientOf,       \* the client each session belongs to
    Replicas,       \* relay processes
    HostOf,         \* the replica that runs each actor
    RedisOn,        \* multi-replica mode
    MaxConnections  \* config.MAX_WS_CONNECTIONS_PER_PANE; 0 disables the cap

ASSUME StreamAssumption ==
    /\ ClientOf \in [Sessions -> Clients]
    /\ HostOf \in [Actors -> Replicas]
    /\ RedisOn \in BOOLEAN
    /\ MaxConnections \in Nat

VARIABLES
    phase,      \* how far handleConnection got
    sock,       \* the socket: open, dead (peer gone, unnoticed), closed
    since,      \* the cursor the client passed
    lastReplay, \* lastReplayId
    sends,      \* how many times each event was sent on each session
    received,   \* the event ids each client has seen
    presence,   \* connIds in the presence registry
    pending     \* Redis messages on their way to a replica

streamVars == <<phase, sock, since, lastReplay, sends, received, presence,
                pending>>
vars == <<logVars, streamVars>>

Phases == {"none", "upgraded", "joining", "replayed", "live", "leaving",
           "left", "crashed"}

TypeOK ==
    /\ LogTypeOK
    /\ phase \in [Sessions -> Phases]
    /\ sock \in [Sessions -> {"none", "open", "dead", "closed"}]
    /\ since \in [Sessions -> Ids \cup {0}]
    /\ lastReplay \in [Sessions -> Ids \cup {0}]
    /\ sends \in [Sessions -> [Ids -> Nat]]
    /\ received \in [Clients -> SUBSET Ids]
    /\ presence \subseteq Sessions
    /\ pending \subseteq Replicas \X Ids

Init ==
    /\ LogInit
    /\ phase = [s \in Sessions |-> "none"]
    /\ sock = [s \in Sessions |-> "none"]
    /\ since = [s \in Sessions |-> 0]
    /\ lastReplay = [s \in Sessions |-> 0]
    /\ sends = [s \in Sessions |-> [i \in Ids |-> 0]]
    /\ received = [c \in Clients |-> {}]
    /\ presence = {}
    /\ pending = {}

-----------------------------------------------------------------------------
(* The client's lastEventId.                                               *)
Cursor(c) == IF received[c] = {} THEN 0 ELSE Max(received[c])

HasSocket(s) == sock[s] \in {"open", "dead"}

Enter(s, p) == phase' = [phase EXCEPT ![s] = p]

(* ws.send of the ids B[s] on each session s that has a socket; the client *)
(* sees them unless the connection is already dead.                        *)
Send(B) ==
    LET Sent(s) == IF HasSocket(s) THEN B[s] ELSE {}
    IN  /\ sends' = [s \in Sessions |-> [i \in Ids |->
                        IF i \in Sent(s) THEN sends[s][i] + 1 ELSE sends[s][i]]]
        /\ received' = [c \in Clients |-> received[c] \cup
              UNION {B[s] : s \in {t \in Sessions : ClientOf[t] = c
                                                    /\ sock[t] = "open"}}]

(* Seeded bug: the live filter lets the last replayed event through.       *)
EmitFromLast(i, R) ==
    Send([s \in Sessions |->
            IF phase[s] = "live" /\ HostOf[s] \in R /\ i >= lastReplay[s]
            THEN {i} ELSE {}])

(* The live subscribers of some replicas get event i: emitter.emit calls   *)
(* each subscribe callback, which drops what the replay already covered.   *)
Emit(i, R) ==
    Send([s \in Sessions |->
            IF phase[s] = "live" /\ HostOf[s] \in R /\ i > lastReplay[s]
            THEN {i} ELSE {}])

-----------------------------------------------------------------------------
(* handleUpgrade: the pane gates, then the connection cap, counted now and *)
(* taken only when handleConnection registers.  A client has one socket.   *)
Upgrade(s) ==
    /\ phase[s] = "none"
    /\ \A t \in Sessions : ClientOf[t] = ClientOf[s] => sock[t] # "open"
    /\ AcceptsEvents
    /\ MaxConnections = 0 \/ Cardinality(presence) < MaxConnections
    /\ Enter(s, "upgraded")
    /\ sock' = [sock EXCEPT ![s] = "open"]
    /\ since' = [since EXCEPT ![s] = Cursor(ClientOf[s])]
    /\ UNCHANGED <<logVars, lastReplay, sends, received, presence, pending>>

(* addConnection, then appendSystemEvent for participant.joined.           *)
Register(s) ==
    /\ phase[s] = "upgraded"
    /\ presence' = presence \cup {s}
    /\ BeginSystemEvent(s)
    /\ Enter(s, "joining")
    /\ UNCHANGED <<sock, since, lastReplay, sends, received, pending>>

(* Seeded bug: the cursor is taken as the first id wanted, plus one.       *)
ReplayOffByOne(s) ==
    LET batch == {e.id : e \in {f \in Table : f.id > since[s] + 1}}
    IN  /\ phase[s] = "joining"
        /\ pc[s] = "idle"
        /\ Send([t \in Sessions |-> IF t = s THEN batch ELSE {}])
        /\ lastReplay' = [lastReplay EXCEPT ![s] =
                             IF batch = {} THEN since[s] ELSE Max(batch)]
        /\ Enter(s, "replayed")
        /\ UNCHANGED <<logVars, sock, since, presence, pending>>

(* Seeded bug: the handshake stops when the joined event had no pane.      *)
ReplayOpenPaneOnly(s) ==
    /\ phase[s] = "joining" /\ pc[s] = "idle"
    /\ ~pane.purged
    /\ Enter(s, "replayed")
    /\ UNCHANGED <<logVars, sock, since, lastReplay, sends, received, presence,
                   pending>>

(* The replay query, its rows sent, and lastReplayId taken from them.      *)
Replay(s) ==
    LET batch == {e.id : e \in {f \in Table : f.id > since[s]}}
    IN  /\ phase[s] = "joining"
        /\ pc[s] = "idle"
        /\ Send([t \in Sessions |-> IF t = s THEN batch ELSE {}])
        /\ lastReplay' = [lastReplay EXCEPT ![s] =
                             IF batch = {} THEN since[s] ELSE Max(batch)]
        /\ Enter(s, "replayed")
        /\ UNCHANGED <<logVars, sock, since, presence, pending>>

(* subscribe() and the message and close listeners, after the awaits of    *)
(* the record replays.                                                     *)
Subscribe(s) ==
    /\ phase[s] = "replayed"
    /\ Enter(s, "live")
    /\ UNCHANGED <<logVars, sock, since, lastReplay, sends, received, presence,
                   pending>>

(* The peer vanishes; the relay does not know yet.                         *)
Drop(s) ==
    /\ sock[s] = "open"
    /\ sock' = [sock EXCEPT ![s] = "dead"]
    /\ UNCHANGED <<logVars, phase, since, lastReplay, sends, received, presence,
                   pending>>

(* The close event (a FIN, or the heartbeat's terminate).  Only a session  *)
(* whose close listener is attached unsubscribes and goes on to leave.     *)
CloseEvent(s) ==
    /\ sock[s] = "dead"
    /\ sock' = [sock EXCEPT ![s] = "closed"]
    /\ IF phase[s] = "live" THEN Enter(s, "leaving") ELSE UNCHANGED phase
    /\ UNCHANGED <<logVars, since, lastReplay, sends, received, presence,
                   pending>>

(* Seeded bug: the registry is keyed by client, not by connection.         *)
DeregisterClient(s) ==
    /\ phase[s] = "leaving"
    /\ presence' = {t \in presence : ClientOf[t] # ClientOf[s]}
    /\ BeginSystemEvent(s)
    /\ Enter(s, "left")
    /\ UNCHANGED <<sock, since, lastReplay, sends, received, pending>>

(* The close handler: removeConnection, then participant.left.             *)
Deregister(s) ==
    /\ phase[s] = "leaving"
    /\ presence' = presence \ {s}
    /\ BeginSystemEvent(s)
    /\ Enter(s, "left")
    /\ UNCHANGED <<sock, since, lastReplay, sends, received, pending>>

(* Seeded bug: whatever is registered keeps the hash alive.                *)
PresenceRefreshedByItself ==
    /\ RedisOn
    /\ presence # {}
    /\ \A s \in Sessions : ~HasSocket(s) /\ s \notin presence
    /\ presence' = {}
    /\ UNCHANGED <<logVars, phase, sock, since, lastReplay, sends, received,
                   pending>>

(* The presence hash of a pane without a socket on any replica is no       *)
(* longer refreshed, and Redis evicts it.                                  *)
PresenceExpires ==
    /\ RedisOn
    /\ presence # {}
    /\ \A s \in Sessions : ~HasSocket(s)
    /\ presence' = {}
    /\ UNCHANGED <<logVars, phase, sock, since, lastReplay, sends, received,
                   pending>>

-----------------------------------------------------------------------------
(* Seeded bug: over Redis the publisher also emits to its own subscribers. *)
PublishTwice(a) ==
    /\ Publish(a)
    /\ IF RedisOn
       THEN pending' = pending \cup (Replicas \X {rowId[a]})
       ELSE UNCHANGED pending
    /\ Emit(rowId[a], {HostOf[a]})
    /\ UNCHANGED <<phase, sock, since, lastReplay, presence>>

(* publish(): in-process it runs the subscribers; over Redis it sends the  *)
(* event to every replica, the own one included, or fails and is dropped.  *)
PublishAndBroadcast(a) ==
    /\ Publish(a)
    /\ IF RedisOn
       THEN /\ \/ pending' = pending \cup (Replicas \X {rowId[a]})
               \/ UNCHANGED pending
            /\ UNCHANGED <<sends, received>>
       ELSE Emit(rowId[a], Replicas) /\ UNCHANGED pending
    /\ UNCHANGED <<phase, sock, since, lastReplay, presence>>

(* A replica's Redis connection hands an event to its emitter ...          *)
BusDeliver(r, i) ==
    /\ <<r, i>> \in pending
    /\ pending' = pending \ {<<r, i>>}
    /\ Emit(i, {r})
    /\ UNCHANGED <<logVars, phase, sock, since, lastReplay, presence>>

(* ... or was down when the event passed.                                  *)
BusLose(r, i) ==
    /\ <<r, i>> \in pending
    /\ pending' = pending \ {<<r, i>>}
    /\ UNCHANGED <<logVars, phase, sock, since, lastReplay, sends, received,
                   presence>>

(* A replica dies: of a crash, of a deploy, or of the rejection of         *)
(* handleConnection that nothing handles.  Its in-process presence map     *)
(* dies with it, the Redis hash does not.                                  *)
Crash(r) ==
    LET here == {s \in Sessions : HostOf[s] = r}
    IN  /\ \E s \in here : phase[s] \notin {"none", "left", "crashed"}
        /\ LET A == {a \in Actors : HostOf[a] = r}
           IN  Abort(A) \/ (UNCHANGED logVars /\ \A a \in A : pc[a] = "idle")
        /\ phase' = [s \in Sessions |->
              IF s \in here /\ phase[s] # "none" THEN "crashed" ELSE phase[s]]
        /\ sock' = [s \in Sessions |->
              IF s \in here /\ sock[s] # "none" THEN "closed" ELSE sock[s]]
        /\ presence' = IF RedisOn THEN presence ELSE presence \ here
        /\ pending' = {m \in pending : m[1] # r}
        /\ UNCHANGED <<since, lastReplay, sends, received>>

-----------------------------------------------------------------------------
(* Requests and the pane go their own way.  A failing append aborts one    *)
(* request, or the left event, whose error is only logged.                 *)
LogStep ==
    /\ \/ \E w \in Writers : WriterStep(w) \/ Abort({w})
       \/ \E s \in Sessions : phase[s] = "left" /\ Abort({s})
       \/ \E a \in Actors : InsertStep(a)
       \/ PaneStep
    /\ UNCHANGED streamVars

Handshake(s) == Register(s) \/ Replay(s) \/ Subscribe(s)

SessionStep(s) ==
    Upgrade(s) \/ Handshake(s) \/ Drop(s) \/ CloseEvent(s) \/ Deregister(s)

Next ==
    \/ LogStep
    \/ \E a \in Actors : PublishAndBroadcast(a)
    \/ \E s \in Sessions : SessionStep(s)
    \/ \E r \in Replicas, i \in Ids : BusDeliver(r, i) \/ BusLose(r, i)
    \/ \E r \in Replicas : Crash(r)
    \/ PresenceExpires

(* Awaits settle, sockets that died are noticed (the heartbeat terminates  *)
(* them), and Redis evicts a hash nobody refreshes.  Nothing forces a      *)
(* client to connect, a request to come or a replica to survive.           *)
Fairness ==
    /\ \A s \in Sessions :
          /\ WF_vars(Handshake(s))
          /\ WF_vars(CloseEvent(s))
          /\ WF_vars(Deregister(s))
    /\ \A a \in Actors :
          /\ WF_vars(InsertStep(a) /\ UNCHANGED streamVars)
          /\ WF_vars(PublishAndBroadcast(a))
    /\ WF_vars(PresenceExpires)

Spec == Init /\ [][Next]_vars
FairSpec == Spec /\ Fairness

-----------------------------------------------------------------------------
(* No session is sent an event twice: what the replay covered and what the *)
(* bus brings do not overlap, although the bus may bring events the replay *)
(* already had (the session's own joined event among them).                *)
NoDuplicateSend == \A s \in Sessions, i \in Ids : sends[s][i] <= 1

(* A client never sees an event that was not committed.                    *)
ReceivedIsCommitted ==
    \A c \in Clients : \A i \in received[c] : \E e \in committed : e.id = i

(* The live subscription drops events at or below lastReplayId as already  *)
(* replayed: whatever it drops, the replay has sent.                       *)
ReplayCoversDropped ==
    \A s \in Sessions : phase[s] = "live" /\ HasSocket(s) =>
        \A e \in Table :
            /\ since[s] < e.id
            /\ e.id <= lastReplay[s]
            /\ published[e.id] = 1
            => sends[s][e.id] = 1

(* An event that landed and was broadcast has been pushed on every session *)
(* that has gone live: replay and live stream together leave nothing out.  *)
LiveStreamIsComplete ==
    \A s \in Sessions : phase[s] = "live" /\ sock[s] = "open" =>
        \A e \in Table :
            /\ since[s] < e.id
            /\ published[e.id] = 1
            /\ <<HostOf[s], e.id>> \notin pending
            => sends[s][e.id] = 1

(* Who is in the registry has a socket, or a close handler on its way.     *)
PresenceMeansConnected ==
    \A s \in presence : HasSocket(s) \/ phase[s] = "leaving"

(* Registering is the first and deregistering the last thing a session     *)
(* does: while its stream is live it is counted (in-process registry).     *)
LiveIsPresent ==
    ~RedisOn => \A s \in Sessions :
        phase[s] \in {"joining", "replayed", "live", "leaving"} => s \in presence

(* The connection cap.                                                     *)
ConnectionCap == MaxConnections > 0 => Cardinality(presence) <= MaxConnections

(* Ghosts do not stay: over Redis, once no socket is left, the registry    *)
(* of the pane empties (or somebody connects), whoever crashed and whoever *)
(* was still in the middle of its handshake.                               *)
GhostsEvicted ==
    (\A s \in Sessions : ~HasSocket(s)) ~>
        (presence = {} \/ \E s \in Sessions : HasSocket(s))

(* A handshake ends: a session that registered goes live or its process    *)
(* dies, whatever becomes of the pane, of the socket and of the joined     *)
(* event meanwhile.                                                        *)
HandshakesEnd ==
    \A s \in Sessions :
        phase[s] = "joining" ~> phase[s] \in {"live", "leaving", "left", "crashed"}

(* What the relay owes once nobody interferes: it forgets what it lost, and *)
(* it lets nobody wait in a handshake.                                     *)
RelayRecovers == GhostsEvicted /\ HandshakesEnd

(* The stream implements the abstract feed.                                *)
Feed == INSTANCE EventFeed WITH
            FeedIds <- Ids, Feeds <- Sessions,
            log <- {e.id : e \in committed}, carried <- sends

FeedSpec == Feed!Spec

(* A live session has what the replay left to the bus, and is present.     *)
LiveInv == TypeOK /\ ReplayCoversDropped /\ LiveIsPresent
=============================================================================
