----------------------------- MODULE RateLimit -----------------------------
(***************************************************************************)
(* The sliding-window limiter in front of the relay's routes               *)
(* (packages/relay/src/http/rate-limit.ts).                                *)
(*                                                                         *)
(* A request is counted under its client's address, and for some routes    *)
(* under a second key. Hits are kept per replica in memory, or in one      *)
(* Redis set; when Redis fails in the middle of a call, before or after it *)
(* has run the call's commands, that call falls back to the replica's own  *)
(* memory. The address is taken from the socket, or from X-Forwarded-For   *)
(* behind trusted proxies, each of which appends the address of its peer   *)
(* to whatever it was sent.                                                *)
(***************************************************************************)
EXTENDS Naturals, Sequences, FiniteSets

CONSTANTS
    Checks, Hosts,
    Clients, Proxies,  \* addresses; the proxies are TRUSTED_PROXY
    Bearers,            \* second keys: bearer tokens, e-mail addresses
    Limit, Window,
    MaxTime            \* bound of the model

ASSUME RateAssumption ==
    /\ Limit \in Nat \ {0} /\ Window \in Nat \ {0} /\ MaxTime \in Nat
    /\ Clients \cap Proxies = {} /\ Bearers \cap (Clients \cup Proxies) = {}
    /\ "redis" \notin Hosts /\ "no key" \notin Clients \cup Proxies

VARIABLES
    clock,
    redisUp,
    hits,      \* per replica and key: the requests it recorded in memory, with their times
    zset,      \* per key: the requests recorded in Redis, with their times
    req,       \* requests: their step, client, keys and first verdict
    tried      \* history: every check, with its time, place and verdict

rateVars == <<clock, redisUp, hits, zset, req, tried>>

Addresses == Clients \cup Proxies
BucketKeys == Addresses \cup Bearers
Times == 0 .. MaxTime
Routes == {"one", "both", "general"}
NoBucket == "no key"

\* Where a request comes from: its client, what that put into the header, and
\* the trusted proxies it passed.
Origins ==
    [client : Clients, forged : {<< >>} \cup {<<a>> : a \in Addresses},
     via : {<< >>} \cup {<<p>> : p \in Proxies}
           \cup {<<p, q>> : p \in Proxies, q \in Proxies}]

\* A check: where its verdict comes from, and where it was recorded.
Places == Hosts \cup {"redis"}
Tries == [key : BucketKeys, by : Checks, time : Times, place : Places,
          held : SUBSET Places, ok : BOOLEAN]
Requests == [step : {"new", "second", "passed", "rejected"}, ok : BOOLEAN,
             at : Hosts, route : Routes, token : Bearers,
             client : Clients \cup {NoBucket}, key : Addresses \cup {NoBucket}]

RateTypeOK ==
    /\ clock \in Times /\ redisUp \in BOOLEAN
    /\ hits \in [Hosts -> [BucketKeys -> SUBSET (Checks \X Times)]]
    /\ zset \in [BucketKeys -> SUBSET (Checks \X Times)]
    /\ req \in [Checks -> Requests]
    /\ tried \subseteq Tries

RateInit ==
    /\ clock = 0 /\ redisUp \in BOOLEAN
    /\ hits = [h \in Hosts |-> [k \in BucketKeys |-> {}]]
    /\ zset = [k \in BucketKeys |-> {}]
    /\ req \in [Checks -> [step : {"new"}, ok : {TRUE}, at : Hosts,
                            route : Routes, token : Bearers,
                            client : {NoBucket}, key : {NoBucket}]]
    /\ tried = {}

-----------------------------------------------------------------------------
(* resolveClientIp.                                                        *)

\* What arrives at the relay: the peer of its socket, and the header that the
\* proxies on the way have built.
SocketAddress(r) == IF r.via = << >> THEN r.client ELSE r.via[Len(r.via)]
Forwarded(r) ==
    IF r.via = << >> THEN r.forged
    ELSE r.forged \o <<r.client>> \o SubSeq(r.via, 1, Len(r.via) - 1)

\* The first hop from the left that is no trusted proxy.
FirstHop(r) ==
    LET xff == Forwarded(r)
        outside == {i \in 1 .. Len(xff) : xff[i] \notin Proxies}
    IN IF SocketAddress(r) \in Proxies /\ outside # {}
       THEN xff[CHOOSE i \in outside : \A j \in outside : i <= j]
       ELSE SocketAddress(r)

\* Only a trusted peer's header counts; it is walked from the right, and the
\* first hop that is no trusted proxy is the client.
ResolveClientIp(r) ==
    LET xff == Forwarded(r)
        outside == {i \in 1 .. Len(xff) : xff[i] \notin Proxies}
    IN IF SocketAddress(r) \in Proxies /\ outside # {}
       THEN xff[CHOOSE i \in outside : \A j \in outside : j <= i]
       ELSE SocketAddress(r)

-----------------------------------------------------------------------------
(* check(key): its verdict, and the hits it leaves.                        *)

Try(q, k, place, held, ok) ==
    [key |-> k, by |-> q, time |-> clock, place |-> place, held |-> held, ok |-> ok]

\* A window that still counts the hit on its far edge.
RecentInclusive(S) == {z \in S : z[2] + Window >= clock}

Recent(S) == {z \in S : z[2] + Window > clock}

\* In memory, only what is let through is recorded. What else holds the check
\* is a Redis that ran it and did not say so.
CheckInProcess(q, k, ok, held) ==
    LET h == req[q].at
        recent == Recent(hits[h][k])
    IN /\ ok = (Cardinality(recent) < Limit)
       /\ hits' = [hits EXCEPT ![h][k] = recent \cup (IF ok THEN {<<q, clock>>} ELSE {})]
       /\ tried' = tried \cup {Try(q, k, h, held \cup (IF ok THEN {h} ELSE {}), ok)}

\* In Redis the MULTI prunes, counts and records, whatever the count is.
Multi(q, k) == zset' = [zset EXCEPT ![k] = Recent(zset[k]) \cup {<<q, clock>>}]

CheckRedisAddFirst(q, k, ok) ==
    /\ ok = (Cardinality(Recent(zset[k])) <= Limit)
    /\ Multi(q, k)
    /\ UNCHANGED hits
    /\ tried' = tried \cup {Try(q, k, "redis", {"redis"}, ok)}

CheckRedis(q, k, ok) ==
    /\ ok = (Cardinality(Recent(zset[k])) < Limit)
    /\ Multi(q, k)
    /\ UNCHANGED hits
    /\ tried' = tried \cup {Try(q, k, "redis", {"redis"}, ok)}

Check(q, k, ok) ==
    \/ redisUp /\ CheckRedis(q, k, ok)
    \/ redisUp /\ Multi(q, k) /\ CheckInProcess(q, k, ok, {"redis"})
    \/ ~redisUp /\ UNCHANGED zset /\ CheckInProcess(q, k, ok, {})

-----------------------------------------------------------------------------
(* The middlewares. One key: registration, OAuth, WebSocket upgrades. Two  *)
(* keys: the general limiter stops when the address is refused; the check  *)
(* of a magic link consults both, the e-mail address first.                *)

FirstCheck(q) ==
    /\ req[q].step = "new"
    /\ \E o \in Origins, ok \in BOOLEAN :
           LET ip == ResolveClientIp(o)
           IN /\ Check(q, IF req[q].route = "both" THEN req[q].token ELSE ip, ok)
              /\ req' = [req EXCEPT ![q] = [@ EXCEPT
                     !.ok = ok, !.client = o.client, !.key = ip,
                     !.step = CASE req[q].route = "both" -> "second"
                                [] req[q].route = "general" /\ ok -> "second"
                                [] OTHER -> IF ok THEN "passed" ELSE "rejected"]]
    /\ UNCHANGED <<clock, redisUp>>

SecondCheck(q) ==
    /\ req[q].step = "second"
    /\ \E ok \in BOOLEAN :
           /\ Check(q, IF req[q].route = "both" THEN req[q].key ELSE req[q].token, ok)
           /\ req' = [req EXCEPT ![q].step =
                         IF ok /\ req[q].ok THEN "passed" ELSE "rejected"]
    /\ UNCHANGED <<clock, redisUp>>

Tick ==
    /\ clock < MaxTime
    /\ clock' = clock + 1
    /\ UNCHANGED <<redisUp, hits, zset, req, tried>>

\* Redis goes and comes back; its keys survive, or expire meanwhile.
RedisToggles ==
    /\ redisUp' = ~redisUp
    /\ zset' = IF redisUp THEN zset ELSE [k \in BucketKeys |-> Recent(zset[k])]
    /\ UNCHANGED <<clock, hits, req, tried>>

RateNext ==
    \/ Tick \/ RedisToggles
    \/ \E q \in Checks : FirstCheck(q) \/ SecondCheck(q)

RateSpec == RateInit /\ [][RateNext]_rateVars

-----------------------------------------------------------------------------
(* Properties.                                                             *)

Admitted(t, k, place) ==
    {a \in tried : a.ok /\ a.key = k /\ a.place = place /\ a.time <= t /\ t < a.time + Window}

\* The checks that the place which decided a check held at that moment.
HeldAgainst(a) ==
    {b \in tried : /\ b # a /\ b.key = a.key /\ a.place \in b.held
                   /\ b.time <= a.time /\ a.time < b.time + Window}

\* No window of any key holds more than Limit admissions counted in one place:
\* the limit is global while Redis answers, and per replica while it does not
\* (rate-limit.ts:8-17, 198-207).
WindowHolds ==
    \A t \in Times, k \in BucketKeys, place \in Places :
        Cardinality(Admitted(t, k, place)) <= Limit

\* A request is charged to the address that the outermost proxy saw, whatever
\* header it brings (rate-limit.ts:31-39).
ClientIsCharged ==
    \A q \in Checks : req[q].key # NoBucket => req[q].key = req[q].client

\* Who stays away for a window is let in again: a refusal is owed to Limit
\* other checks of the same key within the window that the refusing place holds.
\* In memory they were all admitted; in Redis each may have been refused, or
\* decided elsewhere (rate-limit.ts:145-156, 170-191).
QuietIsAdmitted ==
    \A a \in tried : a.ok \/ Cardinality(HeldAgainst(a)) >= Limit

\* Not a property: what is refused is not held against the client. It holds in
\* memory; in Redis a refused request counts as a hit.
RefusedIsFree ==
    \A k \in BucketKeys : \A z \in zset[k] :
        \E a \in tried : a.ok /\ a.key = k /\ a.by = z[1]

(* The limit holds, for the right client, and is not more than a limit.    *)
RateInv == RateTypeOK /\ WindowHolds /\ ClientIsCharged /\ QuietIsAdmitted
=============================================================================
