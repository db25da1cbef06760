# Verification of the Pane relay

This directory specifies Pane (`src/packages`) in TLA+. The relay lets agents
hand interactive pages ("panes") to people: an agent creates a pane, people open
it in a shell page, both sides append events, share records and attachments, and
every open page is kept up to date over a WebSocket. The specifications follow
the relay's handlers, and the browser's and the CLI's code where it keeps state,
statement by statement where two of them can interleave; payloads, names and
wording are abstracted.

Paths below are relative to `src/packages/relay/src` unless they start with
`src/`. `PROJECT.json` names, for every definition, the lines it stands for.

Contents: 1 the system; 2 the modules; 3 the runs; 4 the proofs; 5 what does not
hold; 6 what is left out; 7 plan.

## 1. The system

The relay is a Node process around a Prisma client. It runs alone on SQLite or
as several replicas on Postgres and Redis. Inside a process, code between two
awaits is atomic; every await is a point where other requests run, and with
replicas so is every statement. That, the missing transactions around
"read, then write by id", and the choice of database are what the models are
about.

| Component | State | Operations | Talks to | Hard behaviour | What makes it correct | Modules |
|---|---|---|---|---|---|---|
| Event log (`core/events.ts`) | table `events`: ids from a sequence, unique (pane, author, idempotency key) | `writeEvent`, `appendSystemEvent` | stream, webhook, panes | racing retries, ids that commit out of order, a pane purged under a write, a soft cap | a retry gets the answer of the first request; what is acknowledged is durable; one broadcast per row | `EventLog` |
| Event stream (`ws/handler.ts`, `http/broadcast.ts`, `ws/presence.ts`, `redis.ts`) | sockets, replay cursor, live filter, bus, presence | upgrade, register, replay, subscribe, close, heartbeat | log, Redis, shell | replay against live, late and lost messages, death in a handshake | no event twice on a session, nothing lost between replay and live, ghosts go | `EventStream` implements `EventFeed`; `WsGate`, `Attendance` |
| WebSocket tickets (`ws/ticket.ts`) | map in the process | mint, redeem, prune | stream | 30 s, one replica | let one upgrade in, to their pane | `WsGate` |
| Long poll, reconcile (`http/routes/events.ts`, `core/reconcile.ts`) | cursors, waiters | query, wait; pair joined with left rows | log, Redis | an event between query and wait; restarts | nothing is skipped, a wait ends; nobody is shown present who is gone | `AgentReads`, `Attendance` |
| Attachments (`attachments/*`, `http/routes/attachments.ts`) | rows with a status, bytes in a store | upload, presign, confirm, evict, scan, delete, sweep | store, scanner | two stores without a transaction, stale sums | quotas hold for what is ready, ready means these bytes | `Attachments` |
| Capability tokens (`bridge/attachment-bridge.ts`, `attachments/revoke-cache.ts`) | token rows, a cache per replica | mint, revoke, serve | attachments | two GETs of a single-use token, revocation on another replica | used once; a revocation holds everywhere; the cache refuses no good token | `CapabilityTokens` |
| Participants (`human-participant-mint.ts`, `participants-human.ts`, `identity-participant.ts`) | labelled rows, some revoked | three mints, entry, revoke | panes | labels are computed from a count | labels are never shared | `Participants` |
| Records, template records (`core/records.ts`, `core/template-records.ts`, `bridge/client/record-store.ts`) | collection with `seq`, rows, tombstones; the shell's store | POST, PATCH, DELETE, drop, list, sweep | stream, shell | READ COMMITTED, pages against writes, drop and recreate | cursors miss nothing above what they bring along, shells show nothing gone or old, `if_match` is honoured | `Records`, `TemplateRecords` |
| Panes (`http/routes/panes.ts`) | status, expiry, trash mark, context key | create or find, patch, upgrade, close, trash, restore | everything | a unique index that ignores the trash mark | one pane per key, creation is not blocked for ever | `Panes` |
| Retention (`index.ts`, `hard-delete-sweeper.ts`, `routes/trash.ts`) | trash marks, deletion log | soft and hard sweeps, purge | all rows | candidates read, audited, then deleted by id; Restrict | every purge is audited, due rows go | `Panes`, `Retention` |
| Shell (`bridge/client/*.ts`) | cursor, stores, timer, promises | connect, reconnect, apply, call | stream, tickets, page | timers, close and mint interleave; late answers | one connection at a time, always one to come; a refused call was not done | `ShellClient`, `PageCalls` |
| Sign-in, sharing (`auth/*`, `routes/auth.ts`, `pane-sharing-service.ts`) | links, humans, grants, logins | request, verify, invite, revoke | mail | prefetching mail clients, first logins that race | one sign-in per link; who was invited gets in | `SignIn` |
| Claims (`routes/agents.ts`, `self.ts`, `register.ts`) | codes, owners | mint, claim, create pane | panes | a transaction of five statements on READ COMMITTED, panes that change under it | one claim per code; panes follow | `Claims` |
| OAuth, MCP (`routes/oauth.ts`, `mcp/oauth.ts`, `routes/mcp.ts`) | consents, codes, pairs, sealed keys; session table | decide, exchange, refresh, revoke; initialize, evict | agents | refresh races, key rotation, a full table | single use, dead pairs stay dead; the cap holds | `OAuth`, `McpSessions` |
| Templates (`routes/templates.ts`, `template-marketplace.ts`, `core/schema-compat.ts`) | versions, installs, counters | publish, walk, install, upgrade, launch, trash | panes | a loop over installs read once, which change under it | versions are unique, followers advance | `TemplateCatalog` |
| Rate limiting (`http/rate-limit.ts`) | hits in memory or Redis | check, resolve the client | Redis, proxies | fallback in the middle, forged headers | the limit holds for the right client | `RateLimit` |
| Webhooks (`http/webhook.ts`) | deliveries in memory | three attempts | receivers | loss, repetition, restart, an answer without end | bounded attempts, none after a success | `Webhook` |
| Push (`push.ts`, `routes/self.ts`, the switch in `owner-shell-spa.ts`) | endpoints, windows | subscribe, announce, coalesce | push service | several people in one browser | one notification per window, to its person | `PushNotify` |
| Owner's home (`owner-shell-spa.ts`, `my-panes.ts`) | views, history, lists, controls | navigate, launch, star, delete, tag, rotate | relay | late answers between Back and Forward | the URL names what is shown; what is taken away is gone until it is opened again | `OwnerHome` |
| Doors of a pane (`bridge/routes.ts`, `owner-shell.ts`, `pane-access.ts`, `serve-pane.ts`) | login, binding, grant | open, redirect, serve | sign-in | three doors that redirect to each other | no circle, and the invited alone see it | `PageOpen` |
| CLI and MCP servers (`src/packages/cli`, `src/packages/mcp`) | profile file, keys | login, logout, register, rotate; `watch` | relay | whole-file writes by several processes | the current profile exists; one agent per server | `AgentKeys`, `AgentReads` |
| Query engine (`query/*.ts`, `routes/query.ts`) | a throwaway DuckDB per query, fed from the live tables | resolve the scope, read five tables, build views, run, time out | panes, records, events | five reads without a transaction while the data changes; two versions that disagree of a column | an answer is the caller's, true and complete | `Query` |
| Paged lists (`routes/panes.ts`, `attachments.ts`, `feedback.ts`; `list` of CLI, MCP and client) | a cursor in the client's hands | next page | panes, attachments | rows come and go between the pages, two at one moment | nothing twice, nothing that stays is passed over | `Listings` |
| Validation (`core/validation.ts`, `core/schema-compat.ts`, `core/records.ts`) | compiled validators, cached per pane and version | validate a write; compare two schemas; upgrade | panes, templates | a write and an upgrade read the pane first and finish later; what a comparison overlooks | what is stored fits its version, and a strict upgrade keeps it valid | `SchemaGate` |
| Configuration and telemetry | none | | | | | not modelled: start-up and observation |

What a component leaves out is in its note in `PROJECT.json`.

## 2. The modules

`X.tla` is the specification of a component, `MC*.tla` puts small instances of
one or several of them together for TLC, `<run>.cfg` gives the constants,
`*_Proofs.tla` holds the theorems. Operators whose comment says "Seeded bug", or
that stand next to a definition as its wrong variant, are never part of a
specification: they show that a property would notice that mistake.

**The `focus` of an MC module.** Components that do not share state are checked
in one instance: an initial state chooses a `focus`, the component that runs,
and the others stay in one of the states they may start in. `MCAccounts`,
`MCContents`, `MCDelivery`, `MCEnds`, `MCLifecycle` and `MCSockets` are built
that way; every behaviour of every component is one of theirs. Where components
do share state, they are composed: `EventStream` EXTENDS `EventLog`,
`TemplateRecords` EXTENDS `Records`, `SignIn` holds the invitations, and so on.

### Data and delivery

- **EventLog** - writers (HTTP or socket requests) and sessions (which append
  joined and left events) move through the stages of `writeEvent`: gates, soft
  cap, INSERT begun (the id is drawn), committed or refused, re-read after P2002,
  broadcast, answer. `SerialInserts` chooses the database: on SQLite ids commit
  in order, on Postgres they are drawn before the commit. The pane is closed,
  expired, restored and purged by actions of their own. `committed` and
  `published` are history variables.
- **EventStream**, **EventFeed** - sessions (`phase`, `sock`, `since`,
  `lastReplay`), the bus (`pending`, when Redis is on), the presence registry and
  the death of replicas; `Register`, `Replay`, `Subscribe` are the awaits of
  `handleConnection`. `EventFeed` is the promise in one page: a log that grows and
  feeds that carry each entry at most once. `FeedSpec` is that specification with
  `log` mapped to the ids ever committed and `carried` to the counters of `ws.send`.
- **WsGate** - tickets, the gates of an upgrade, the rights of a frame and the
  heartbeat. **Attendance** - joined and left rows, and the reconciliation at the
  start of a process.
- **AgentReads** - the long poll with its waiter, and `pane watch`.
  **Webhook** - three attempts from memory, with lost and bad answers and with
  answers that begin and may never end: the time-out is one of a silent socket
  (`FallSilent`, `TimesOut`).
- **Attachments** - rows, bytes, and requests that are at some statement of an
  upload, confirm, delete or download; the quota is a sum read in one step and
  used in later ones. A presigned URL takes PUTs until it expires, and `checked`
  (history) has the attachments whose right bytes a confirm saw. **CapabilityTokens** - tokens, a bounded revoke cache per
  replica, downloads. **Participants** - the rows of one pane in the order of
  their creation and requests on the three mint routes.
- **Records** - a request reads, bumps `seq` (which takes the row lock until the
  commit), writes and commits, and broadcasts afterwards; `Serial` chooses the
  database. Readers page with `?since=`, subscribers are stores that fold each
  broadcast in. `brought` is the cursor with which each of them met the collection
  when it was last created, which counts from 1 again. **TemplateRecords** adds
  sessions of derived panes: a replay in batches, a gap, the live filter, versions
  that declare a collection or do not; `lost` and `stale` (history) are the sessions
  that a handshake left without a row, and those that were away when rows went.

### Lives and rights

- **Panes** - create or find by context key, join, edit, upgrade, close, lapse,
  trash, restore, purge, the two sweepers and the `deletion_log`. **Retention** -
  one pass of the hard-delete sweeper over rows of five kinds that reference each
  other.
- **SignIn**, **Claims**, **OAuth**, **McpSessions**, **TemplateCatalog**,
  **RateLimit** - each handler as its statements; see the table above. In `Claims`
  the transaction of a claim is five steps, between which others commit: `ConsumeCode`
  (the conditional UPDATE of the code, held until the end), `Bind`, `MoveUnkeyed`,
  `FindKeyed`, `WriteKeyed`, and `Commit` or `ClaimAborts`. In
  `RateLimit` a check names the place that decided it and the places that recorded
  it: Redis may run the `MULTI` and fail to answer, and the verdict is then from
  memory.
- **AgentKeys** - the relay's keys and the file of profiles that commands and
  servers read, change and write back whole.

### What an agent reads and may write

- **Query** - one `POST /v1/query` from its validation to its answer, statement by
  statement, next to everything that may change the database meanwhile. What was
  in the database at some moment of the query, and what throughout, are history
  variables (`everFacts`, `heldFacts`, `everPanes`, `heldPanes`).
- **Listings** - a walk over one of the three keyset-paged lists, page by page.
- **SchemaGate** - what a JSON Schema accepts (`Accepts`), what the gate finds
  between two of them (`DocBreaks`) and what it does not look at (`DocBlind`);
  writes that read the pane, validate by a cached validator and store; upgrades
  that read, compare and re-pin, to a published version or inline.

### In the browser

- **ShellClient** - the shell's guards, timer, ticket and sockets, and the two
  stores (shell and page). **PageCalls** - the promises of `window.pane`.
- **OwnerHome** - session history and views, lists that are patched by hand, and
  requests whose answers are late or lost, or that outlive their page (`orphan`). The
  frame asks the relay for the shell of the pane it shows (`opening`), which puts the
  pane among the recents again (`RecordsView`; `revived` is a history variable). **PushNotify** - the switch, stored
  endpoints, windows. **PageOpen** - the doors and their redirects.

## 3. The runs

| Run | Instance | Shows |
|---|---|---|
| `Contents` | the log on Postgres with 2 writers, 2 identities, 1 key, 1 session, cap 1; 1 attachment, its URL good for any number of PUTs of right or wrong bytes; 2 tokens over 2 replicas, cache of 1; 2 agent mints, 1 human mint, 1 entry; 2 requests, 2 versions of 3 documents; 2 agents and 2 panes with their 4 rows, 2 changes; 5 rows of 3 moments, pages of 1 and 2 | `WritesAreSound`, `OvershootBounded`, `BytesMatchCommitment`, `TokensInv`, `LabelsSound`, `FirstChoiceIsFree`, `SchemasAreSound`, `QueryIsSound`, `WalksAreSound` |
| `EventStream_reconnect` | 1 client with 2 sessions, 1 writer, SQLite, in-process bus | `LiveInv`, and `FeedSpec` (the refinement) |
| `EventStream_redis` | 2 clients, 1 replica, Postgres, Redis, crashes; fair | `NoDuplicateSend`, `RelayRecovers` |
| `Records_sqlite` | 2 requests, 2 keys, 1 shell, 1 session of a template pane, batches of 2; a session is followed until it has both missed rows in a handshake and been away from a removal (`Followed`) | `SubscribersInv`, `SessionsInv`, `IfMatchHonoured` |
| `Ends` | attachments of at most 1, 2 and 3 bytes under an agent's cap of 2 and a pane's of 5, 2 uploads at a time, eviction, failing store, so that an upload is admitted, evicts, is refused by its pane, and meets another that takes its sum below what is there (`overdrawn`); 2 attachments of one byte that are also downloaded, deleted and swept; 2 writers and a reader with pages of 1 on Postgres; the browser: 2 people, 2 panes, 3 entries of history | `QuotaInv`, `ReaderInSync`, `SeqOrderIsCommitOrder`, `PushIsSound`, `HomeIsSound`, `OpenInv` |
| `Lifecycle` | 2 requests of 2 agents of one human, 1 key, 2 panes, batch 1; 5 rows that reference each other; fair | `PanesInv`, `RetentionInv`, `RowsEnd` |
| `Sockets` | 3 sockets of a shell; 2 calls; 1 ticket and 2 upgrades; 2 people and 3 sockets over restarts; fair | `ShellInv`, `CallsInv`, `GateInv`, `AttendInv`, `SocketsProgress` |
| `Accounts` | 2 links, 2 browsers, 1 invitation; 2 agents, 2 codes, panes that are closed, trashed and restored between a claim's statements; 2 consents, 2 exchanges; 3 versions, 1 installer; 2 checks; 3 MCP sessions, room for 2 | `SignInInv`, `ClaimsAreSound`, `OAuthInv`, `CatalogIsSound`, `RateInv`, `SessionTableIsSound` |
| `Delivery` | 2 events, 3 attempts, answers that may never end; 1 poller, page of 1; 1 command, 1 server, 2 profiles; fair | `WebhookIsSound`, `ReadsInv`, `ReadsEnd`, `KeysInv` |
| `EventStream_gap` | violation of `LiveStreamIsComplete` | an event between replay and subscription is pushed to nobody |
| `ShellClient_reinit` | violation of `PageEventsOnce` | after a reconnect the page appends every event again |
| `PageOpen_return` | violation of `LandsBackOnPane` | who is sent to /login from a pane lands on /home |

The three violations are described under "findings" in `PROJECT.json` with the
sentence of the repository they contradict.

**Conjunctions.** A property whose name ends in `Inv` or says `Sound` is the
conjunction of named parts, each stated and explained in its module with the code
it is about: `ShellInv`, for instance, of one live socket, one timer, stores that
match what the relay sent, and a page that shows nothing stale; `PanesInv` of
`PurgesAudited`, the trash with its entries, one pane per key and the agents'
tokens. The type invariant of a component is part of its conjunction. Two temporal
properties are put together where their components are: `RowsEnd` is `PanesEnd` and
`DueIsReclaimed`, `SocketsProgress` is `RunningShellCatchesUp`, `PromisesKept` and
`SocketsRecover`.

**Bounds.** Two requests in flight are what every race in this code takes: each
check-then-act pair has one victim and one intruder, and the third party (pane,
sweeper, replica, revocation, restart) is an action of its own. The counters that
are bounded (`MaxId`, `MaxSeq`, `MaxGen`, `MaxRows`, `MaxPane`, `MaxVersion`,
`MaxPair`, `MaxKey`, `MaxSock`, `MaxTime`, `MaxEntry`, ...) are "bounds of the
model" in the CONSTANTS of their module; they are guards of actions that start
something new, so nothing in flight is ever cut off, and they let every request
write once and, in `Records`, a collection be dropped and recreated. Caps, page
sizes and batches are 1 or 2 so that they are reached. Deadlock checking is off
because everything may come to rest: all requests answered, the pane purged, or a
bound reached.

**Symmetry** permutes interchangeable requests, identities and readers, in
instances that check safety only; requests of different components bear the same
names so that one set of permutations serves them. Runs with a liveness property
(`EventStream_redis`, `Lifecycle`, `Sockets`, `Delivery`) have none.

**Fairness.** Nothing obliges a client to connect, a request to come, the bus or
a mail to arrive, or a replica to survive. What is assumed:

- awaits settle (`EventStream!FairSpec`, `AgentReads`, `ShellClient`): a
  query, an INSERT or a fetch that is under way ends, in success or failure. The
  answer of a webhook's receiver is no such await: its socket times out only once it
  is silent (`http/webhook.ts:109-129`), so what is fair of an attempt is that it is
  made (`ResolveUrl`, `SendOnce`) and that a silent one ends (`TimesOut`). Where
  a handler may be interrupted again and again by another one it needs strong
  fairness: `AnswerEvents`, `WakeUp` of a poll that is asked in a loop;
- timers fire: the reconnect timer (`Fire`), the pause before the next attempt
  (`Resume`), a call's time-out (`PageCalls!TimeOut`), a poll's wait
  (`WaitTimesOut`), the heartbeat (`ws/handler.ts:271-303`), Redis' time to live
  (`ws/presence.ts`), the expiry and age of a pane (`Lapse`, `Age`);
- the sweepers run at their intervals (`index.ts`, `hard-delete-sweeper.ts`):
  `TtlRead`, `HardRead`, `Retention!Pass`. `HardAudit` and `HardDelete` have strong
  fairness, because a process that stops in the middle of a pass starts it again.

## 4. The proofs

Every theorem holds for every value of the constants that satisfies the
assumption of its module (named `...Assumption` there): sets of actors that are
disjoint, markers that are none of the actors, natural bounds, and finite sets
where a cardinality is compared (`Writers` and `Sessions` of `EventLog`, `Sessions`
of `McpSessions`, `Upgrades`, `Relays`, `Sockets`, `Keys` of `Records`, and
`HomePanes`, none of which bears the name of a control of the page). In
particular nothing is small, and the switches for the database and the bus are
arbitrary, unless a property says otherwise or a theorem has `Serial` or
`SerialInserts` as its hypothesis: it then speaks of SQLite (section 5 has what
Postgres does instead). Each proof is an inductive invariant: it holds initially,
one lemma per group of actions shows that a step keeps it, and it implies what is
claimed.

| Theorem | States | Inductive invariant, and why it is needed |
|---|---|---|
| **EventStream_Proofs** | | |
| `WritesSound` (with `LogTypeCorrect`, `AcksDurable`, `BroadcastOnce`, `RetriesGetOneAnswer`) | `WritesAreSound` | `LogInv`: ids drawn are distinct and not reused; rows in flight are not committed; a committed row with a key is the only one of its author and key; an answer names such a row; who has broadcast is past it |
| `NoEventSentTwice`, `StreamTypeCorrect` | `NoDuplicateSend` | `StreamInv`: a session whose replay has not run has been sent nothing; what is replayed is at or below `lastReplay`; an event is not broadcast yet, in the bus for a replica, or has reached the replica's sessions |
| `ImplementsFeed` | `FeedSpec` | the step simulation: a commit is an `Append`; `Replay`, `PublishAndBroadcast` and `BusDeliver` are a `Carry`; the rest stutters |
| `OvershootIsBounded` | `OvershootBounded` | `CapInv`: while the pane is there, the users' rows and the writers that have counted and not inserted are together fewer than the cap and all writers |
| `LiveSound` (with `SerialInserts`) | `LiveInv` | `SerialLog` (the row being inserted is above all that are there), `CoverInv` (`lastReplay` is the cursor or a row's id, and the session was sent what lies between) |
| **Access_Proofs** | | |
| `LabelsNeverShared`, `MintChoosesFreeLabel` | `LabelsSound`, `FirstChoiceIsFree` | `LabelInv`: rows are never removed, so every number in use is below their count |
| `TokensSound` | `TokensInv` | `TokensIInv`: a single-use token that opened a download is gone from the table; a download that found a token before its revocation is marked; what a cache holds is revoked |
| `BytesAreCommitted` | `BytesMatchCommitment` | `AttInv`: a ready row has its key, and either no URL writes its bytes and they are not wrong, or a confirm has seen the right ones (`Closed`, `RowSettled`); from its `put` on an upload works on such a row, as does a confirm past its check (`JobSettled`); no two uploads are about to set one key (`OwnKeys`). `Tame` says what a step may do to the table without unsettling a request that stands still |
| `QuotaSound` (with `Kinds = {"upload"}`), `NothingIsOverdrawn` | `QuotaInv` | `QuotaIInv`: an upload has a row of its own, pending until somebody deletes it (`Manned`, `OwnRows`); what is ready or past the quota fits, and however many of the evicting uploads may still pass, what is then admitted fits or one of them has all of it in its sum (`Fitting`); what is left of a total covers what is left of the rows it was of (`Covers`); past every quota the pane's rows fit (`PaneFits`). The sums are a fold: `SumTable` describes them without it, from a least counterexample |
| **Records_Proofs** | | |
| `ReadersMissNothing`, `CommitsAscend`, `RecordsTypeCorrect` | `ReaderInSync`, `SeqOrderIsCommitOrder` | `RecordsInv`: `LockInv` (who holds the lock has bumped, to the successor of the visible seq or to 1), `RowsInv`, `OutInv`, `CursorInv`. `FoldedFacts` describes the fold of store and reader once, from the greatest element of a bounded set |
| `IfMatchIsHonoured` (with `Serial`) | `IfMatchHonoured` | `SerialInv`: one request is in its transaction or at its broadcast, and until it commits the row is as it read it (`TurnInv`); a broadcast tells what the table shows (`BatchInv`) |
| `SubscribersShowTheRows` (with `Serial`) | `SubscribersInv` | `SubsInv`: a store's cursor is at or below the collection's seq, or still the one it brought (`StoreInv`); a row above that is shown as it is, or a broadcast on its way will say so (`Told`), and nothing else is shown (`Clean`) |
| `SessionsShowTheRows` (with `Serial`) | `SessionsInv` | `SessInv`: the same of a session that has lost nothing, where the next replay may say it too: rows above what it brought (`InStep`), and `Clean` of one that was not away when rows went; a delta that is new to it finds its row (`NotSwept`). A replay is a prefix of the rows above the cursor (`ReplayStore`) |
| **Lifecycle_Proofs** | | |
| `PanesSound` | `PanesInv` | `PanesIInv`: `KeyHeldOnce`, `JobsOK` (what a request has read is still bounded by what it may write), `TrailOK` (who is gone or trashed has its entries), `AgentsOK` |
| `RetentionSound` | `RetentionInv` | `BatchIsAudited`: a batch between its audit and its delete has its entries |
| `QuerySound` | `QueryIsSound` | `QueryIInv`: `HistoryOK` (what was loaded was there at some moment, below the scope, and the scope was the caller's), `ReadsOK` (of a table that is read, all that was there throughout and is below the scope is loaded, unless the table is over its cap; and the scope has the panes that were the caller's throughout, unless it is at its limit), `SandboxOK` |
| `WalksSound` | `WalksAreSound` | `ListIInv`: what was shown is newer than the cursor or its row, and what stayed and was not shown is past it |
| `GateAdmitsWider` | what the gate is for | between two schemas that differ in nothing it does not look at (`NodeBlind`) and in which it finds no break, all that the first accepts the second accepts |
| `SchemasSound` | `SchemasAreSound` | `GateIInv`: a row, stored or validated, satisfies its own version and, while every upgrade was `trusted`, that of the pane (`RowOK`); the pane has only moved to wider versions since a request read it (`CallOK`); a cached validator is its version's |
| **Accounts_Proofs** | | |
| `SignInSound` | `SignInInv` | `SignInIInv`: who asked for a link and who used it; an invitation is kept as a pending or a bound grant until it is revoked |
| `ClaimsSound` | `ClaimsAreSound` | `ClaimsIInv`: a claim past `ConsumeCode` holds its code alone (`TxCode`), one past `Bind` its agent (`TxAgent`); what it found and chose are panes of its agent that nobody owns yet (`TxRows`); panes are numbered as they come (`RowsInOrder`); panes of an unowned agent have no owner |
| `SessionTableSound` | `SessionTableIsSound` | `McpIInv` with `RoomKept`: each initialize under way has left room for one, counted against those that ran beside it |
| `CatalogSound` | `CatalogIsSound` | `CatalogIInv`: `NumbersTaken`, `CountCovered` (who has a row and has not counted is at work), `WalksKept` (whom a walk has passed is at its version, blocked, or interfered with) |
| **OAuth_Proofs** | | |
| `OAuthSound` | `OAuthInv` | `OAuthIInv`: rows are numbered as they come; a code belongs to the consent it used, a pair to the code or the refresh it used; a revoked refresh token has a request at work on its access token, or none is left |
| `RateSound` | `RateInv` | `RateIInv`: each place holds of every check it let through the entry as long as it counts (`Covered`), and no entry without its check (`Owed`); each check counts once per key. `ClientFound` is the walk over the forwarded addresses |
| **Sockets_Proofs** | | |
| `ShellConnectsOnce` | `OneLiveSocket` of `ShellInv` | `LinkIInv`: which of timer, ticket and socket the guards leave possible together |
| `ShellSound` (with `Cardinality(RecKeys) <= Batch`), `PageFollowsShell` | `ShellInv` | `ShellIInv`, beside `LinkIInv`: what is on a wire is in the order of the seqs and not ahead of the table, and says of a row at its present seq what the table says (`WireOK`); each row beyond the shell's cursor is on the wire of an open socket (`Covered`); the store is right about every row up to its cursor (`UpToCursor`); the page's rows are among the shell's and its cursor is not ahead (`PageInv`). `SnapshotCaught` follows the rows of a snapshot, by its first row that were to break it |
| `CallsSound`, `CallsSettleOnce` | `CallsInv`, `SettlesOnce` | `CallsIInv`: for each promise, where its request is and what was done |
| `GateSound` | `GateInv` | `GateIInv`: `TicketsSpent`, `FramesSound`, `CapKept` (connections beyond the cap met between check and connection) |
| `AttendanceSound`, `StartsCleared` | `AttendInv`, `StartClears` | `RowsPaired`: per author, unpaired joined rows and open sockets, by injections between finite sets |
| **Delivery_Proofs** | | |
| `HookCopies`, `HookEnds` | the safety parts of `WebhookIsSound` | `HookIInv`: `TriesLeft`, `PostsAreTries`, `AcceptedIsOver` |
| `ReadsSound` | `ReadsInv` | `ReadsIInv`: `DrawnInOrder`, `CursorWasSeen`, `Heard` (an event behind a wait's query has woken it) |
| `KeysSound` | `KeysInv` | `KeysIInv`: `TextsWhole` (what a process is about to write has a current profile that it holds), `MadeOnce`, `RotationsAim` |
| `PushSound` | `PushIsSound` | `PushIInv`: the browser's and the rows' endpoints, `OneSendPerWindow`, `WaitsOnce`, `NamedOnce` |
| `OpenSound` | `OpenInv` | `OpenIInv`: the number of redirects is bounded by a rank of doors (`HopsTo`), what a handler has read is fresh while nothing changes (`ReadIsFresh`) |
| `HomeSound` | `HomeIsSound` | `HomeIInv`: `NavInv` (only the first entry of the history is a list, and what is kept of its scrolling is what it was left with), `ListInv` (until a star is answered the page and the relay have it as it was asked of; a control that was used is disabled, so that no two requests ask for one star or for the key, `OneEach`; a request that outlived its page is of something in doubt, `Orphaned`; a pane without a card is trashed, out of the recents or has been opened again). `Spares` says what a step may do under a request that stands still |

**Only model-checked** is liveness, which needs fairness and ENABLED:
`RelayRecovers`, `RowsEnd`, `SocketsProgress`, `ReadsEnd`, and the live part of
`WebhookIsSound`. Every safety property of the passing runs has its theorem.

`QuotaSound` has the hypothesis `Kinds = {"upload"}`, as the run: a presign is
checked before it has a row, so any number of them can pass one check and the
caps do not hold where presigned URLs are in use.

`ShellSound` has the hypothesis that a record replay is one batch, as the run: the
relay stops after `MAX_RECORDS_REPLAY_BATCH` rows and does not go on (section 5),
so a shell with more to catch up on lives on live deltas above a gap.

## 5. What does not hold

These properties are stated in the modules, with a comment, because the code or
its documents suggest them. TLC violates each; none is a property of a listed run.
To reproduce one, add it to the configuration of the run in which its component is
in focus (with the change the table names).

| Module | Property | What happens |
|---|---|---|
| `EventStream` | `ReplayCoversDropped` with `SerialInserts = FALSE` | on Postgres an id below the last replayed one commits late and the live filter drops it |
| | `PresenceMeansConnected` | a socket that dies in its handshake stays in the in-process registry |
| | `ConnectionCap` | two upgrades pass the connection cap before either registers |
| `WsGate` | `NoStreamOnTrash` | an upgrade that has read the pane connects after the pane went to the trash |
| `Attendance` | `StartFindsNobody` (`core/reconcile.ts:11-14`) with two relays | a starting replica marks as gone who is connected to another one |
| `AgentReads` | `NothingSkipped` with `OneWriter = FALSE` | on Postgres a poll's cursor passes an id that commits later |
| | `WatchHearsAll` | `watch` subscribes after its replay, as every stream does; and it does not end on a pane whose time runs out, since only DELETE appends its last event (`http/routes/panes.ts:1642`; `src/packages/cli/src/commands/watch.ts:25-26`) |
| `Webhook` | `ArrivesInOrder`, `EveryMatchIsTried` | deliveries overtake each other; a restart forgets them |
| | `EveryAttemptIsAborted` ("each attempt is aborted after this many ms", `http/webhook.ts:13-14`; 123) | `http.request`'s `timeout` is one of an idle socket, and the promise settles at the end of the body (116-118): a receiver that keeps sending holds its attempt, and the ones after it, for as long as it likes |
| `Attachments` | `PlaceholderIsTransient` | an upload that dies early leaves the placeholder key that every later upload collides with |
| | `FittingUploadAccepted` | an upload counts itself twice against the quota |
| | `AgentWithinCap` (`config.ts:241`, "Per-agent aggregate cap") | two uploads sum before either lists what may be evicted, and one evicts bytes the other's sum did not hold; `QuotaInv` says by how much (`overdrawn`). `Ends` has such states, so it can be added there as it is. With presigned URLs the check comes before the row is there, and none of it holds |
| | `CreatedIsDownloadable`, `AnsweredStaysReady` | eviction removes what was just created; a repeated confirm fails a row that was answered ready |
| | `ReadyBytesAreCommitted` ("the TOCTOU defence MUST verify bytes", `attachments/azure.ts:318-321`) | the URL of a presigned PUT may create and overwrite until it expires (`attachments/azure.ts:250,264`), after the confirm has read the bytes, and after the row is ready (`http/routes/attachments.ts:720`), as well as before |
| | `RemovedStaysRemoved` | the commit of an upload revives a row deleted meanwhile |
| | `ScannerCanDownload` | the scanner is given a URL that serves ready rows, before the row is ready |
| | `NoOrphanBytes` | a cascade or a dying sweep leaves bytes without a row |
| `CapabilityTokens` | `ConsumedWhenServed` | a failed read of the store uses a single-use token up |
| `Participants` | `CapHolds`, `MintsAreDecided`, `ListIsBounded`, `EntriesSucceed` | the soft cap is passed; as many collisions as attempts fail a mint; revoked rows make the list longer than its comment says; a revoked session participant never enters again |
| `Records` | `IfMatchHonoured` with `Serial = FALSE` | two PATCHes with one `if_match` both commit on Postgres |
| | `SurvivesRecreation` (`bridge/client/record-store.ts:78-80`, "stale ... if the shell receives a duplicate") | a collection that is dropped and created again counts from 1 (`core/records.ts:843`), and a shell that kept its cursor takes the new rows for duplicates until they pass it (`record-store.ts:83-84`, `ws/handler.ts:846`) |
| `TemplateRecords` | `EveryPaneSees` (`core/template-records.ts:4-6`) | a pane on a version that does not declare the collection is not told |
| `Panes` | `OnlyTrashedArePurged` | a pane restored between the audit and the delete is purged |
| `Retention` | `DueIsReclaimedAlways` | a due template that is in use fails every pass, and agents that have nothing to do with it are never reclaimed |
| `SignIn` | `KnownInviteeIsBound` | an invitation that looked for its human before the first login is stored after that login bound the pending ones |
| `Claims` | `OwnedStaysOwned` (`http/routes/agents.ts:34`) | of two claims of one agent the later one takes it over |
| | `CurrentPaneFollows` (`http/routes/agents.ts:112-113`, "leave the rest unowned. The leftovers are recreate debris") | the winner of a key is closed or trashed between the findMany (121) and the updateMany (154): it follows all the same, and the pane of the key that is open then stays without an owner |
| `OAuth` | `OverlapKeepsTokens` (`docs/architecture/remote-mcp-oauth.md:130-135`), `RefreshedOnce` | two flows that meet an agent without a sealed key both make one, and the first one's tokens die; two refreshes of one token both succeed |
| `McpSessions` | `UsedStays` (`http/routes/mcp.ts:62-73` against 306-311) | a session is evicted while a request runs on it |
| `TemplateCatalog` | `CountIsExact` (`prisma/schema.prisma:370-371`), `WalkNeverMovesBack` | an install that is removed and made again is counted down but not up; of two walks, or a walk and an upgrade, the later UPDATE moves an install back |
| `RateLimit` | `RefusedIsFree` | in Redis a refused request counts |
| `PageCalls` | `RejectedIsNotDone` | a call whose timer fired may have been carried out |
| `ShellClient` | `PageHasRecords`, `PageHasEvents`, and `Batch` below the number of rows (`ws/handler.ts:752`) | the snapshot for a page that is ready late is in the store's order, and the page drops a row below a newer one; an event that came live before the page was ready is in no buffer; a record replay stops after one batch |
| `PushNotify` | `OnIsStored`, `OffIsOff` | a refused registration shows On; a click before the page has initialised shows Off over a stored row |
| `OwnerHome` | `CountIsRows`, `TagsAreStored`, `TileComesBack` | two deletes of one row count twice; two saves of tags answer in the other order; a launched tile stays disabled |
| | `CardIsView` (`http/routes/self.ts:409-412`, "opening it again re-records a view and brings it back"; `owner-shell-spa.ts:2817-2818`) | a hidden card, or one of a pane newly seen, appears only when the page is loaded again |
| | `ReturnsWhereLeft` without its exception, with `DefaultSegment = "store"` (comment at `owner-shell-spa.ts:1663-1666`) | Back to `#templates` opens the store |
| `PageOpen` | `RecentsWereShown` | the opener is recorded before the binding is checked (`bridge/routes.ts:288`) |
| `AgentKeys` | `LogoutKeepsOthers` (`src/packages/cli/src/commands/logout.ts:65-70` against its help, 21-24), `ProfilesSurvive`, `OneAgentPerMachine` | a second logout deletes the file; a whole-file write loses another's profile; two servers register two agents, and one that cannot write its store a new one per attempt. For the first: 4 commands, no servers, calls or owners, `Alone = TRUE`, `MaxKey = 2` |

Seen while modelling, outside any property: a strict upgrade
(`template-marketplace.ts:637-642`) does not compare record schemas while the walk
over the followers does; a schema with `anyOf` or `$ref` is incompatible with itself
(`core/schema-compat.ts:300-323`), which is why `FollowersAreAdvanced` compares
only installs that change version; the template filter of the pane count is undone
at once (`owner-shell-spa.ts:2122-2160`); Enter in the name editor passes the
disabled save button. In a query: a conflict of a template collection is looked up
without the `tpl_` prefix of its view (`query/engine.ts:709-717`); a collection and
an event type of one name make the second CREATE VIEW fail, a 500; beyond 5000 panes
the scope is cut without a word; a pane trashed after the scope was resolved is still
shown. In the lists: the cursor of the feedback list is a moment only
(`http/routes/feedback.ts:134`), so that of two entries of one millisecond at the end
of a page the second is passed over. In the gate: its promise ("every payload ... must
STILL validate", `core/schema-compat.ts:11-15`) does not hold of what it does not look
at (`NodeBlind`, `LeafBlind`), nor when a second upgrade came between comparison and
re-pin (`http/routes/panes.ts:1550`); the caches that comments say are dropped with the
pane (`core/validation.ts:84-86`, `core/records.ts:284`) are dropped by the TTL sweeper
(the events') or by nobody (the records'); a standards-aligned event schema is checked
by the 2020-12 Ajv and compiled by the draft-07 one; the upgrade route does not compare
template record schemas.

## 6. What is left out

- Payloads, authorisation and validation: outside `SchemaGate` they are guards that
  always hold in the models, which start where a request has passed them. Which
  template versions are compatible is a constant relation of `TemplateCatalog`.
- Time: expiry, time-outs and sweeps are actions that may happen at any moment.
  `RateLimit` and `McpSessions` have a clock; in `RateLimit` it is one for all
  replicas, and nothing passes between reading it and the call to Redis.
- The replay of records inside the handshake of `EventStream` (it is in
  `TemplateRecords` and `ShellClient`).
- HTML, CSS, previews, icons, search boxes and chips, the lists of grants and
  their mails, client registration, start-up and telemetry.

## 7. Plan

1. Prove what is still only checked (end of section 4).
2. Compose what is modelled apart and shares rows: `Panes` with `EventLog`,
   `Participants` with `PageOpen`, `Claims` with `AgentKeys`.
3. Model the remaining system pages and the tools of the MCP server, as far as
   they keep state.
