---------------------------- MODULE ShellClient ----------------------------
(***************************************************************************)
(* The shell page that hosts a pane, and the page's runtime inside its     *)
(* iframe: packages/relay/src/bridge/client/shell.client.ts (connection,   *)
(* replay, records), record-store.ts and runtime.client.ts (its stores).   *)
(*                                                                         *)
(* The shell mints a ticket, opens a WebSocket with its cursors, folds     *)
(* what arrives into lastEventId, replayBuffer and a RecordStore, and      *)
(* pushes it on to the iframe, which keeps stores of its own. Sockets die  *)
(* at any time; the browser reports that later, as a close event. The      *)
(* relay's side is reduced to what it sends: every event after the cursor, *)
(* the replay marker, at most Batch rows in the order of their seq, and    *)
(* then each change (its own races are EventStream's and Records').        *)
(***************************************************************************)
EXTENDS Naturals, Sequences, SequencesExt, FiniteSets

CONSTANTS
    RecKeys,      \* record keys of the one collection
    Batch,        \* MAX_RECORDS_REPLAY_BATCH
    MaxEvent, MaxSeq,   \* bounds of the model: events and record writes,
    MaxSock, MaxLoss    \* sockets, and mints or sockets that fail

ASSUME ShellAssumption ==
    /\ IsFiniteSet(RecKeys)
    /\ Batch \in Nat \ {0} /\ MaxEvent \in Nat /\ MaxSeq \in Nat
    /\ MaxSock \in Nat /\ MaxLoss \in Nat

VARIABLES
    events,       \* the pane's log: ids 1 .. events
    recs,         \* the collection: key -> [seq, live], seq 0 for no row
    socks,        \* WebSockets the shell has created: [state, wire]
    ws,           \* the current one, or 0
    connecting, minting, timer,
    loss,         \* mints and sockets that failed so far
    iframeReady, replayDone, replayBuffer, lastEventId,
    store, storeSeq,    \* RecordStore: the Map's entries in their order; lastSeq
    seen,         \* runtime: stateEvents
    pageStore, pageSeq  \* runtime: recordStore and recordLastSeq

relayVars == <<events, recs>>
linkVars == <<socks, ws, connecting, minting, timer, loss>>
feedVars == <<replayDone, replayBuffer, lastEventId, store, storeSeq>>
pageVars == <<seen, pageStore, pageSeq>>
shellVars == <<relayVars, linkVars, iframeReady, feedVars, pageVars>>

Seqs == 0 .. MaxSeq
SetMax(S) == IF S = {} THEN 0 ELSE CHOOSE x \in S : \A y \in S : y <= x
RecHead == SetMax({recs[k].seq : k \in RecKeys})

EventMsg(i) == [kind |-> "event", id |-> i]
CompleteMsg == [kind |-> "complete"]
RecordMsg(k, r) == [kind |-> IF r.live THEN "upsert" ELSE "delete",
                    key |-> k, seq |-> r.seq]
Messages == {EventMsg(i) : i \in 1 .. MaxEvent} \cup {CompleteMsg}
    \cup {RecordMsg(k, [seq |-> s, live |-> l]) : k \in RecKeys, s \in Seqs, l \in BOOLEAN}

ShellTypeOK ==
    /\ events \in 0 .. MaxEvent
    /\ recs \in [RecKeys -> [seq : Seqs, live : BOOLEAN]]
    /\ DOMAIN socks \subseteq 1 .. MaxSock
    /\ \A n \in DOMAIN socks :
           /\ socks[n].state \in {"connecting", "open", "cut", "closed"}
           /\ socks[n].wire \in Seq(Messages)
           /\ socks[n].state # "open" => socks[n].wire = << >>
    /\ ws \in {0} \cup DOMAIN socks
    /\ <<connecting, minting, timer>> \in BOOLEAN \X BOOLEAN \X BOOLEAN
    /\ loss \in 0 .. MaxLoss
    /\ <<iframeReady, replayDone>> \in BOOLEAN \X BOOLEAN
    /\ replayBuffer \in Seq(1 .. MaxEvent) /\ lastEventId \in 0 .. events
    /\ store \in Seq([key : RecKeys, seq : 1 .. MaxSeq]) /\ storeSeq \in 0 .. RecHead
    /\ seen \in Seq(1 .. MaxEvent)
    /\ pageStore \in Seq([key : RecKeys, seq : 1 .. MaxSeq]) /\ pageSeq \in 0 .. storeSeq

\* connect() at the end of the bundle: the first mint is under way.
ShellInit ==
    /\ events = 0
    /\ recs = [k \in RecKeys |-> [seq |-> 0, live |-> FALSE]]
    /\ socks = << >> /\ ws = 0
    /\ connecting = TRUE /\ minting = TRUE /\ timer = FALSE /\ loss = 0
    /\ iframeReady = FALSE /\ replayDone = FALSE
    /\ replayBuffer = << >> /\ lastEventId = 0
    /\ store = << >> /\ storeSeq = 0
    /\ seen = << >> /\ pageStore = << >> /\ pageSeq = 0

-----------------------------------------------------------------------------
(* A Map from keys to rows, as its entries in insertion order: setting a   *)
(* key that is present keeps its place.                                    *)

Entry(k, s) == [key |-> k, seq |-> s]
MapSet(m, k, s) ==
    IF \E i \in 1 .. Len(m) : m[i].key = k
    THEN [i \in 1 .. Len(m) |-> IF m[i].key = k THEN Entry(k, s) ELSE m[i]]
    ELSE Append(m, Entry(k, s))
MapDelete(m, k) ==
    LET at == {i \in 1 .. Len(m) : m[i].key = k}
    IN  IF at = {} THEN m ELSE RemoveAt(m, CHOOSE i \in at : TRUE)
MapRows(m) == {m[i] : i \in 1 .. Len(m)}

ApplyUpsertKeepsSeq(m, last, k, s) ==
    IF s < last THEN <<m, last>> ELSE <<MapSet(m, k, s), last>>

\* RecordStore.applyUpsert and applyDelete: the store and lastSeq after a
\* message; a message at or below lastSeq changes neither.
ApplyUpsert(m, last, k, s) ==
    IF s <= last THEN <<m, last>> ELSE <<MapSet(m, k, s), s>>
ApplyDelete(m, last, k, s) ==
    IF s <= last THEN <<m, last>> ELSE <<MapDelete(m, k), s>>

IngestUpsertOnly(m, last, kind, k, s) ==
    IF s <= last THEN <<m, last>>
    ELSE <<IF kind = "upsert" THEN MapSet(m, k, s) ELSE m, s>>

\* ingestRecord: the runtime's own store, with the same stale rule.
IngestRecord(m, last, kind, k, s) ==
    IF s <= last THEN <<m, last>>
    ELSE <<IF kind = "upsert" THEN MapSet(m, k, s) ELSE MapDelete(m, k), s>>

\* The runtime's handler of record-snapshot: every row of the snapshot, in its
\* order, goes through ingestRecord.
IngestSnapshot(rows) ==
    LET after[i \in 0 .. Len(rows)] ==
            IF i = 0 THEN <<pageStore, pageSeq>>
            ELSE IngestRecord(after[i - 1][1], after[i - 1][2], "upsert",
                              rows[i].key, rows[i].seq)
    IN  after[Len(rows)]

-----------------------------------------------------------------------------
(* The relay.                                                              *)

Post(msg) ==
    [n \in DOMAIN socks |->
        IF socks[n].state = "open"
        THEN [socks[n] EXCEPT !.wire = Append(@, msg)] ELSE socks[n]]

\* An event is appended and pushed to the open streams.
AppendEvent ==
    /\ events < MaxEvent
    /\ events' = events + 1
    /\ socks' = Post(EventMsg(events + 1))
    /\ UNCHANGED <<recs, ws, connecting, minting, timer, loss, iframeReady, feedVars, pageVars>>

\* A record is written or deleted under the collection's next seq.
WriteRecord(k) ==
    /\ RecHead < MaxSeq
    /\ \E live \in BOOLEAN :
           /\ live \/ recs[k].live
           /\ LET r == [seq |-> RecHead + 1, live |-> live] IN
              /\ recs' = [recs EXCEPT ![k] = r]
              /\ socks' = Post(RecordMsg(k, r))
    /\ UNCHANGED <<events, ws, connecting, minting, timer, loss, iframeReady, feedVars, pageVars>>

\* What a stream opened with the cursors of the shell starts with: the event
\* replay and its marker, then the rows after the record cursor, by seq.
RowsAfter(sinceSeq) == {k \in RecKeys : recs[k].seq > sinceSeq}
Nth(rows, i) ==
    CHOOSE k \in rows : Cardinality({j \in rows : recs[j].seq <= recs[k].seq}) = i

Replay(since, sinceSeq) ==
    LET rows == RowsAfter(sinceSeq)
        n == IF Cardinality(rows) < Batch THEN Cardinality(rows) ELSE Batch
    IN [i \in 1 .. events - since |-> EventMsg(since + i)]
       \o <<CompleteMsg>>
       \o [i \in 1 .. n |-> RecordMsg(Nth(rows, i), recs[Nth(rows, i)])]

-----------------------------------------------------------------------------
(* connect(), openWithTicket() and scheduleReconnect().                    *)

\* connect() when the reconnect timer fires.
Fire ==
    /\ timer
    /\ timer' = FALSE
    /\ IF connecting \/ ws # 0
       THEN UNCHANGED <<connecting, minting>>
       ELSE connecting' = TRUE /\ minting' = TRUE
    /\ UNCHANGED <<relayVars, socks, ws, loss, iframeReady, feedVars, pageVars>>

\* The ticket arrives: the socket is created and becomes the current one.
MintAnswers ==
    /\ minting /\ Len(socks) < MaxSock
    /\ minting' = FALSE
    /\ socks' = Append(socks, [state |-> "connecting", wire |-> << >>])
    /\ ws' = Len(socks) + 1
    /\ UNCHANGED <<relayVars, connecting, timer, loss, iframeReady, feedVars, pageVars>>

MintFails ==
    /\ minting /\ loss < MaxLoss
    /\ minting' = FALSE /\ connecting' = FALSE
    /\ timer' = TRUE /\ loss' = loss + 1
    /\ UNCHANGED <<relayVars, socks, ws, iframeReady, feedVars, pageVars>>

CursorsOfNext == <<lastEventId, storeSeq + 1>>

\* The cursors in the query are those of the moment the socket was created;
\* nothing moves them before it opens, no other socket being current.
Cursors == <<lastEventId, storeSeq>>

\* The relay accepts the ticket and starts the stream; the open event.
Opens(n) ==
    /\ socks[n].state = "connecting"
    /\ socks' = [socks EXCEPT ![n] = [state |-> "open",
                                     wire |-> Replay(Cursors[1], Cursors[2])]]
    /\ connecting' = IF ws = n THEN FALSE ELSE connecting
    /\ UNCHANGED <<relayVars, ws, minting, timer, loss, iframeReady, feedVars, pageVars>>

\* The ticket is refused, or the network or the relay drops the socket: what is
\* on the wire is lost, and the browser does not know yet.
Breaks(n) ==
    /\ socks[n].state \in {"connecting", "open"}
    /\ loss < MaxLoss
    /\ loss' = loss + 1
    /\ socks' = [socks EXCEPT ![n] = [state |-> "cut", wire |-> << >>]]
    /\ UNCHANGED <<relayVars, ws, connecting, minting, timer, iframeReady, feedVars, pageVars>>

\* A handler that gives a live socket up without closing it.
CloseEventLeaks(n) ==
    /\ socks[n].state \in {"open", "cut"} /\ ws = n
    /\ ws' = 0 /\ connecting' = FALSE /\ timer' = TRUE
    /\ UNCHANGED <<relayVars, socks, minting, loss, iframeReady, feedVars, pageVars>>

\* A close handler that leaves connecting to the open handler.
CloseEventConnecting(n) ==
    /\ socks[n].state = "cut"
    /\ socks' = [socks EXCEPT ![n].state = "closed"]
    /\ IF ws = n
       THEN ws' = 0 /\ timer' = TRUE /\ UNCHANGED connecting
       ELSE UNCHANGED <<ws, connecting, timer>>
    /\ UNCHANGED <<relayVars, minting, loss, iframeReady, feedVars, pageVars>>

\* The close event: ws and connecting are reset, one reconnect is scheduled.
CloseEvent(n) ==
    /\ socks[n].state = "cut"
    /\ socks' = [socks EXCEPT ![n].state = "closed"]
    /\ IF ws = n
       THEN ws' = 0 /\ connecting' = FALSE /\ timer' = TRUE
       ELSE UNCHANGED <<ws, connecting, timer>>
    /\ UNCHANGED <<relayVars, minting, loss, iframeReady, feedVars, pageVars>>

-----------------------------------------------------------------------------
(* Messages of the current socket, and what the iframe is sent. A post     *)
(* reaches the runtime in order, and is dropped while it is not ready.     *)

Pop(n) == [socks EXCEPT ![n].wire = Tail(@)]
Arrives(n, kind) ==
    /\ socks[n].state = "open" /\ socks[n].wire # << >>
    /\ Head(socks[n].wire).kind = kind
    /\ ws = n

\* sendIframeInit: the runtime ingests the whole replayBuffer, each time.
SeenAfterInit(ready, done) ==
    IF ready /\ done THEN seen \o replayBuffer ELSE seen

\* system.replay.complete
ReplayComplete(n) ==
    /\ Arrives(n, "complete")
    /\ socks' = Pop(n)
    /\ replayDone' = TRUE
    /\ seen' = SeenAfterInit(iframeReady, TRUE)
    /\ UNCHANGED <<relayVars, ws, connecting, minting, timer, loss, iframeReady,
                   replayBuffer, lastEventId, store, storeSeq, pageStore, pageSeq>>

\* An event: buffered before the first marker, pushed after it.
EventArrives(n) ==
    /\ Arrives(n, "event")
    /\ LET id == Head(socks[n].wire).id IN
       /\ lastEventId' = SetMax({lastEventId, id})
       /\ IF replayDone
          THEN /\ seen' = IF iframeReady THEN Append(seen, id) ELSE seen
               /\ UNCHANGED replayBuffer
          ELSE /\ replayBuffer' = Append(replayBuffer, id)
               /\ UNCHANGED seen
    /\ socks' = Pop(n)
    /\ UNCHANGED <<relayVars, ws, connecting, minting, timer, loss, iframeReady,
                   replayDone, store, storeSeq, pageStore, pageSeq>>

\* record.upsert and record.delete: the delta is pushed unless it was stale.
RecordArrives(n) ==
    /\ \/ Arrives(n, "upsert") \/ Arrives(n, "delete")
    /\ LET m == Head(socks[n].wire)
           after == IF m.kind = "upsert"
                    THEN ApplyUpsert(store, storeSeq, m.key, m.seq)
                    ELSE ApplyDelete(store, storeSeq, m.key, m.seq)
           page == IF iframeReady /\ m.seq > storeSeq
                   THEN IngestRecord(pageStore, pageSeq, m.kind, m.key, m.seq)
                   ELSE <<pageStore, pageSeq>>
       IN /\ store' = after[1] /\ storeSeq' = after[2]
          /\ pageStore' = page[1] /\ pageSeq' = page[2]
    /\ socks' = Pop(n)
    /\ UNCHANGED <<relayVars, ws, connecting, minting, timer, loss, iframeReady,
                   replayDone, replayBuffer, lastEventId, seen>>

\* The page's document is loaded and posts ready: init, if the replay is
\* complete, and then the snapshot of the records.
IframeReady ==
    /\ ~iframeReady
    /\ iframeReady' = TRUE
    /\ seen' = SeenAfterInit(TRUE, replayDone)
    /\ LET page == IngestSnapshot(store) IN pageStore' = page[1] /\ pageSeq' = page[2]
    /\ UNCHANGED <<relayVars, linkVars, feedVars>>

ShellNext ==
    \/ AppendEvent \/ \E k \in RecKeys : WriteRecord(k)
    \/ Fire \/ MintAnswers \/ MintFails \/ IframeReady
    \/ \E n \in DOMAIN socks :
           \/ Opens(n) \/ Breaks(n) \/ CloseEvent(n)
           \/ ReplayComplete(n) \/ EventArrives(n) \/ RecordArrives(n)

ShellSpec == ShellInit /\ [][ShellNext]_shellVars

\* The browser's event loop runs: timers fire, fetches are answered, sockets
\* open, deliver and report their end. Nothing is promised of failures, of the
\* writers, or of the page becoming ready.
ShellFairness ==
    /\ WF_shellVars(Fire) /\ WF_shellVars(MintAnswers)
    /\ \A n \in 1 .. MaxSock :
           /\ WF_shellVars(n \in DOMAIN socks /\ Opens(n))
           /\ WF_shellVars(n \in DOMAIN socks /\ CloseEvent(n))
           /\ WF_shellVars(n \in DOMAIN socks
                /\ (ReplayComplete(n) \/ EventArrives(n) \/ RecordArrives(n)))

ShellLive == ShellSpec /\ ShellFairness

-----------------------------------------------------------------------------
(* Properties.                                                             *)

\* Two sockets are never alive at once: however timer, ticket and close event
\* interleave, no reconnect is started over a connection that is under way
\* (shell.client.ts:146-152).
OneLiveSocket ==
    /\ Cardinality({n \in DOMAIN socks : socks[n].state \in {"connecting", "open"}}) <= 1
    /\ minting => \A n \in DOMAIN socks : socks[n].state = "closed"

\* Once a shell has read to the head of the collection, its store holds the
\* live rows and nothing else, over any number of reconnects with its cursor
\* (record-store.ts:9-11, shell.client.ts:660).
StoreMatchesHead ==
    storeSeq = RecHead =>
        MapRows(store) = {Entry(k, recs[k].seq) : k \in {j \in RecKeys : recs[j].live}}

\* The page shows no record that the shell's store has dropped or replaced: a
\* delta that is applied is always passed on (shell.client.ts:701, 714).
PageShowsNoStale == MapRows(pageStore) \subseteq MapRows(store)

\* The shell always comes back: when sockets stop failing it is connected, and
\* has every event and every record (shell.client.ts:543-551, 814-822).
ShellCatchesUp ==
    <>[](/\ ws # 0 /\ socks[ws].state = "open"
         /\ lastEventId = events /\ storeSeq = RecHead)

\* The page's log never counts an event twice: after a reconnect "only new
\* events arrive" (docs/architecture/phase-3-human-side.md:116).
PageEventsOnce ==
    \A i, j \in 1 .. Len(seen) : seen[i] = seen[j] => i = j

\* A ready page that is up to date with the shell has every record the shell
\* has (shell.client.ts:521-523).
PageHasRecords ==
    iframeReady /\ pageSeq = storeSeq => MapRows(store) \subseteq MapRows(pageStore)

\* A ready page whose replay has been posted has every event of the shell.
PageHasEvents ==
    iframeReady /\ replayDone => \A i \in 1 .. lastEventId : i \in Range(seen)

(* One connection, one copy of the records, and a page that follows it.    *)
ShellInv == ShellTypeOK /\ OneLiveSocket /\ StoreMatchesHead /\ PageShowsNoStale
=============================================================================
