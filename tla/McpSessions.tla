---------------------------- MODULE McpSessions ----------------------------
(***************************************************************************)
(* The sessions of the remote MCP endpoint                                 *)
(* (packages/relay/src/http/routes/mcp.ts).                                *)
(*                                                                         *)
(* initialize without a session first evicts: what has been idle too long, *)
(* and then the sessions seen longest ago until there is room for one. It  *)
(* then creates a transport, which enters the map only when it handles the *)
(* request, some awaits later. Any other request finds its session and     *)
(* renews it, puts its credentials into it, and runs.                      *)
(***************************************************************************)
EXTENDS Naturals, FiniteSets

CONSTANTS
    Sessions,      \* session ids, each used by at most one initialize
    Users,         \* requests that use a session, one after the other each
    MaxSessions,   \* MCP_MAX_SESSIONS
    IdleTtl,       \* MCP_SESSION_IDLE_TTL_SECONDS
    MaxTick        \* bound of the model

ASSUME McpAssumption ==
    /\ IsFiniteSet(Sessions)
    /\ MaxSessions \in Nat \ {0} /\ IdleTtl \in Nat \ {0} /\ MaxTick \in Nat

VARIABLES
    now,
    mcpSession,    \* per id: "none", "creating", "live" or "gone", and lastSeenAt
    user,          \* requests in flight: the session they hold, or none
    crowd          \* history: most initializes in flight at once

mcpVars == <<now, mcpSession, user, crowd>>

Nothing == "nothing"
In(state) == {s \in Sessions : mcpSession[s].state = state}

SessionRow == [state : {"none", "creating", "live", "gone"}, seen : 0 .. MaxTick]

McpTypeOK ==
    /\ now \in 0 .. MaxTick
    /\ mcpSession \in [Sessions -> SessionRow]
    /\ \A s \in Sessions : mcpSession[s].seen <= now
    /\ user \in [Users -> Sessions \cup {Nothing}]
    /\ crowd \in 0 .. Cardinality(Sessions)

McpInit ==
    /\ now = 0
    /\ mcpSession = [s \in Sessions |-> [state |-> "none", seen |-> 0]]
    /\ user = [u \in Users |-> Nothing]
    /\ crowd = 0

-----------------------------------------------------------------------------
(* evictSessions.                                                          *)

IdleSessions == {s \in In("live") : now - mcpSession[s].seen > IdleTtl}
FreshSessions == In("live") \ IdleSessions
Older(s) == {o \in FreshSessions : mcpSession[o].seen < mcpSession[s].seen}

\* How many of the sessions that are not idle must go to leave room for one.
OverFull == IF Cardinality(FreshSessions) > MaxSessions
            THEN Cardinality(FreshSessions) - MaxSessions ELSE 0

Over == IF Cardinality(FreshSessions) >= MaxSessions
        THEN Cardinality(FreshSessions) - MaxSessions + 1 ELSE 0

\* The ones seen longest ago; a tie is broken by the order of the map.
VictimsAny == {V \in SUBSET FreshSessions : Cardinality(V) = Over}

Victims == {V \in SUBSET FreshSessions : /\ Cardinality(V) = Over
                                 /\ \A v \in V : Older(v) \subseteq V}

-----------------------------------------------------------------------------
(* The requests.                                                           *)

\* lastSeenAt is the time of a request, not the time its idleness ends.
StampDeadline == now + IdleTtl

Stamp == now

\* initialize: evict, and begin to connect a new transport.
Initialize(s) ==
    /\ mcpSession[s].state = "none"
    /\ \E V \in Victims :
           mcpSession' = [o \in Sessions |->
               CASE o \in IdleSessions \cup V -> [mcpSession[o] EXCEPT !.state = "gone"]
                 [] o = s -> [state |-> "creating", seen |-> Stamp]
                 [] OTHER -> mcpSession[o]]
    /\ crowd' = LET n == Cardinality(In("creating")) + 1 IN IF n > crowd THEN n ELSE crowd
    /\ UNCHANGED <<now, user>>

\* onsessioninitialized: the session enters the map.
Register(s) ==
    /\ mcpSession[s].state = "creating"
    /\ mcpSession' = [mcpSession EXCEPT ![s] = [state |-> "live", seen |-> Stamp]]
    /\ UNCHANGED <<now, user, crowd>>

\* A request that names a live session renews it and runs on its transport; one
\* that names a session that is gone is answered 404.
Use(u, s) ==
    /\ user[u] = Nothing /\ mcpSession[s].state = "live"
    /\ mcpSession' = [mcpSession EXCEPT ![s].seen = Stamp]
    /\ user' = [user EXCEPT ![u] = s]
    /\ UNCHANGED <<now, crowd>>

Finish(u) ==
    /\ user[u] # Nothing
    /\ user' = [user EXCEPT ![u] = Nothing]
    /\ UNCHANGED <<now, mcpSession, crowd>>

\* The client ends its session, or its transport closes.
EndSessionOf(s) ==
    /\ mcpSession[s].state = "live"
    /\ mcpSession' = [mcpSession EXCEPT ![s].state = "gone"]
    /\ UNCHANGED <<now, user, crowd>>

TimePasses ==
    /\ now < MaxTick
    /\ now' = now + 1
    /\ UNCHANGED <<mcpSession, user, crowd>>

McpNext ==
    \/ TimePasses
    \/ \E s \in Sessions : Initialize(s) \/ Register(s) \/ EndSessionOf(s)
    \/ \E u \in Users : Finish(u) \/ \E s \in Sessions : Use(u, s)

McpSpec == McpInit /\ [][McpNext]_mcpVars

-----------------------------------------------------------------------------
(* Properties.                                                             *)

\* The map outgrows its cap at most by the initializes that ran together: the
\* room one makes is not reserved for it (mcp.ts:62-73, 306-311, 344-352).
SessionsBounded ==
    Cardinality(In("live")) < MaxSessions + (IF crowd = 0 THEN 1 ELSE crowd)

\* A session that is evicted is idle, or no session that stays was seen before
\* it was: a busy client is not thrown out for an older one (mcp.ts:88-104).
EvictionIsFair ==
    [][\A s \in Sessions :
          (\E i \in Sessions : mcpSession[i].state = "none" /\ mcpSession'[i].state = "creating")
          /\ mcpSession[s].state = "live" /\ mcpSession'[s].state = "gone"
          => \/ now - mcpSession[s].seen > IdleTtl
             \/ \A o \in Sessions : mcpSession'[o].state = "live"
                    => mcpSession[o].seen >= mcpSession[s].seen]_mcpVars

\* Not a property: a session is not evicted while a request runs on it.
UsedStays == \A u \in Users : user[u] # Nothing => mcpSession[user[u]].state = "live"

(* The table stays small, at the expense of the right sessions.            *)
SessionTableIsSound == [](McpTypeOK /\ SessionsBounded) /\ EvictionIsFair
=============================================================================
