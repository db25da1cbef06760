----------------------------- MODULE AgentKeys -----------------------------
(***************************************************************************)
(* The API keys of agents and the file that keeps them.                    *)
(*                                                                         *)
(* The relay holds one key per agent, made by POST /v1/register, replaced  *)
(* by its owner and revoked by the owner or by the agent itself. On the    *)
(* agent's machine the CLI's commands and the MCP servers share one file   *)
(* of profiles. Each reads it, changes what it read and writes all of it,  *)
(* and a write empties the file before it fills it: another process may    *)
(* come in between, and a process may die there. The relay URL of a        *)
(* profile goes with its key and is not modelled; nor are keys that come   *)
(* from the environment, which the file does not see.                      *)
(***************************************************************************)
EXTENDS Naturals, Sequences, FiniteSets

CONSTANTS
    Profiles,     \* names of profiles
    Default,      \* "default"
    NoProfile,
    NoKey,
    Commands,     \* runs of the CLI, one command each
    Servers,      \* MCP server processes
    Calls,        \* tool calls, each made once
    Owners,       \* requests of a human to replace a key
    Alone,        \* whether commands run one after the other
    MaxKey        \* bound of the model: keys made

ASSUME KeysAssumption ==
    /\ Default \in Profiles /\ NoProfile \notin Profiles
    /\ MaxKey \in Nat /\ NoKey = 0 /\ Alone \in BOOLEAN

VARIABLES
    agent,        \* relay: per agent its key and whether it is revoked
    keys,         \* relay: how many keys were made
    file,         \* the store file: absent, emptied or full
    proc,         \* the commands and servers: what each is about to do
    call,         \* per tool call: its state and the server it was made to
    rotation,     \* an owner's rotate-key: the agent it read, until it writes
    out,          \* history: agents whose revocation was answered
    made          \* history: agents a server registered since it last failed

keyVars == <<agent, keys, file, proc, call, rotation, out, made>>

Procs == Commands \cup Servers
Agents == 1 .. Len(agent)
Store == [current : Profiles \cup {NoProfile}, saved : [Profiles -> 0 .. MaxKey]]
EmptyStore == [current |-> NoProfile, saved |-> [p \in Profiles |-> NoKey]]
Idle == [step |-> "new", op |-> "none", at |-> NoProfile, key |-> NoKey, text |-> EmptyStore]
Ended == [Idle EXCEPT !.step = "done"]

AgentRow == [key : 1 .. MaxKey, revoked : BOOLEAN]
ProcRow == [step : {"new", "asking", "read", "remove", "empty", "fill",
                    "drop", "revoking", "ready", "done"},
            op : {"none", "register", "set", "use", "rm", "logout",
                  "wipe", "clear", "revoke"},
            at : Profiles \cup {NoProfile}, key : 0 .. MaxKey, text : Store]

KeysTypeOK ==
    /\ keys \in 0 .. MaxKey
    /\ agent \in Seq(AgentRow) /\ Len(agent) <= keys
    /\ file \in [state : {"absent", "emptied", "full"}, store : Store]
    /\ proc \in [Procs -> ProcRow]
    /\ call \in [Calls -> {"new", "answered", "refused", "lost"} \cup Servers]
    /\ rotation \in [Owners -> [step : {"new", "read", "done"}, of : 0 .. Len(agent)]]
    /\ out \subseteq Agents
    /\ made \in [Servers -> 0 .. MaxKey]

KeysInit ==
    /\ agent = << >> /\ keys = 0
    /\ file = [state |-> "absent", store |-> EmptyStore]
    /\ proc = [p \in Procs |-> Idle]
    /\ call = [x \in Calls |-> "new"]
    /\ rotation = [o \in Owners |-> [step |-> "new", of |-> 0]]
    /\ out = {} /\ made = [s \in Servers |-> 0]

-----------------------------------------------------------------------------
(* The store file.                                                         *)

Missing(s, p) == s.saved[p] = NoKey

\* readStore: anything but a full file reads as a store without profiles, and
\* a current profile that is not saved reads as none.
ReadStore ==
    LET s == IF file.state = "full" THEN file.store ELSE EmptyStore
    IN IF s.current \in Profiles /\ Missing(s, s.current)
       THEN [s EXCEPT !.current = NoProfile] ELSE s

\* upsertProfile's store: register makes the profile current, set-key only
\* when none is.
Upserted(s, p, key, makeCurrent) ==
    [current |-> IF makeCurrent \/ s.current = NoProfile THEN p ELSE s.current,
     saved   |-> [s.saved EXCEPT ![p] = key]]

\* Seeded bug: the removed profile stays the current one.
RemovedStillCurrent(s, p) == [s EXCEPT !.saved[p] = NoKey]

Removed(s, p) ==
    [current |-> IF s.current = p THEN NoProfile ELSE s.current,
     saved   |-> [s.saved EXCEPT ![p] = NoKey]]

\* writeStoreFull, and the rmSync of clearStore: the steps that touch the file.
EmptyFile(p) ==
    /\ proc[p].step = "empty"
    /\ file' = [file EXCEPT !.state = "emptied"]
    /\ proc' = [proc EXCEPT ![p].step = "fill"]
    /\ UNCHANGED <<agent, keys, call, rotation, out, made>>

FillFile(p) ==
    /\ proc[p].step = "fill"
    /\ file' = [state |-> "full", store |-> proc[p].text]
    /\ proc' = [proc EXCEPT ![p] = IF p \in Servers
                                   THEN [Idle EXCEPT !.step = "ready", !.key = proc[p].key] ELSE Ended]
    /\ UNCHANGED <<agent, keys, call, rotation, out, made>>

DropFile(p) ==
    /\ proc[p].step = "drop"
    /\ file' = [state |-> "absent", store |-> EmptyStore]
    /\ proc' = [proc EXCEPT ![p] = Ended]
    /\ UNCHANGED <<agent, keys, call, rotation, out, made>>

-----------------------------------------------------------------------------
(* The commands. A flag --profile is NoProfile when it is not given.       *)

Flags == Profiles \cup {NoProfile}

\* Where register and set-key save: the flag, else the current profile, else
\* "default".
SaveAt(flag) == IF flag # NoProfile THEN flag
                ELSE IF ReadStore.current # NoProfile THEN ReadStore.current ELSE Default

\* A command's first step leaves everything but itself alone.
Starts(c, op, change(_)) ==
    /\ proc[c].step = "new"
    /\ Alone => \A p \in Procs : proc[p].step \in {"new", "ready", "done"}
    /\ proc' = [proc EXCEPT ![c] = change([Idle EXCEPT !.op = op])]
    /\ UNCHANGED <<agent, keys, file, call, rotation, out, made>>

RunRegister(c) ==
    \E flag \in Flags :
        Starts(c, "register", LAMBDA r : [r EXCEPT !.step = "asking", !.at = SaveAt(flag)])

\* set-key, and config add with its profile named; the key is one a human was
\* shown.
RunSetKey(c) ==
    \E flag \in Flags, k \in 1 .. keys :
        Starts(c, "set", LAMBDA r : [r EXCEPT !.step = "read", !.at = SaveAt(flag), !.key = k])

RunConfigUse(c) ==
    \E p \in Profiles :
        Starts(c, "use", LAMBDA r :
            IF Missing(ReadStore, p) THEN Ended
            ELSE [r EXCEPT !.step = "empty", !.text = [ReadStore EXCEPT !.current = p]])

RunConfigRm(c) ==
    \E p \in Profiles :
        Starts(c, "rm", LAMBDA r : [r EXCEPT !.step = "remove", !.at = p])

\* logout reads the store to find its profile. When none is selected it deletes
\* the file.
RunLogout(c) ==
    \E flag \in Flags :
        Starts(c, "logout", LAMBDA r :
            LET p == IF flag # NoProfile THEN flag ELSE ReadStore.current
            IN IF p = NoProfile THEN [r EXCEPT !.step = "drop"]
               ELSE IF Missing(ReadStore, p) THEN Ended
               ELSE [r EXCEPT !.step = "remove", !.at = p])

RunLogoutAll(c) == Starts(c, "wipe", LAMBDA r : [r EXCEPT !.step = "drop"])

\* The logout tool of an MCP server does this in the server's process; the
\* client that the server holds keeps its key.
ClearActiveProfile(c) ==
    Starts(c, "clear", LAMBDA r :
        IF ReadStore.current = NoProfile THEN Ended
        ELSE [r EXCEPT !.step = "empty", !.text = Removed(ReadStore, ReadStore.current)])

\* key revoke resolves a client, and with it a key, or fails.
RunKeyRevoke(c) ==
    \E flag \in Flags :
        Starts(c, "revoke", LAMBDA r :
            LET p == IF flag # NoProfile THEN flag ELSE ReadStore.current
            IN IF p = NoProfile \/ Missing(ReadStore, p) THEN Ended
               ELSE [r EXCEPT !.step = "revoking", !.key = ReadStore.saved[p]])

\* upsertProfile reads the store again.
UpsertProfile(p) ==
    /\ proc[p].step = "read"
    /\ proc' = [proc EXCEPT ![p].step = "empty",
                            ![p].text = Upserted(ReadStore, proc[p].at, proc[p].key,
                                                 proc[p].op = "register")]
    /\ UNCHANGED <<agent, keys, file, call, rotation, out, made>>

\* removeProfile too; it throws when the profile is gone, and deletes the file
\* with the last one.
RemoveProfile(c) ==
    /\ proc[c].step = "remove"
    /\ LET s == Removed(ReadStore, proc[c].at)
       IN proc' = [proc EXCEPT ![c] =
              IF Missing(ReadStore, @.at) THEN Ended
              ELSE IF \A p \in Profiles : Missing(s, p) THEN [@ EXCEPT !.step = "drop"]
              ELSE [@ EXCEPT !.step = "empty", !.text = s]]
    /\ UNCHANGED <<agent, keys, file, call, rotation, out, made>>

-----------------------------------------------------------------------------
(* The relay.                                                              *)

\* requireAgent.
Authenticates(k) == \E a \in Agents : agent[a].key = k /\ ~agent[a].revoked

\* POST /v1/register, for a command or for a server without a key.
Registered(p) ==
    /\ proc[p].step = "asking" /\ keys < MaxKey
    /\ keys' = keys + 1
    /\ agent' = Append(agent, [key |-> keys + 1, revoked |-> FALSE])
    /\ proc' = [proc EXCEPT ![p].step = "read", ![p].key = keys + 1]
    /\ made' = IF p \in Servers THEN [made EXCEPT ![p] = @ + 1] ELSE made
    /\ UNCHANGED <<file, call, rotation, out>>

\* DELETE /v1/keys/:id of one's own key.
RevokeKey(c) ==
    /\ proc[c].step = "revoking"
    /\ LET mine == {a \in Agents : agent[a].key = proc[c].key /\ ~agent[a].revoked}
       IN /\ agent' = [a \in Agents |-> IF a \in mine THEN [agent[a] EXCEPT !.revoked = TRUE]
                                        ELSE agent[a]]
          /\ out' = out \cup mine
    /\ proc' = [proc EXCEPT ![c] = Ended]
    /\ UNCHANGED <<keys, file, call, rotation, made>>

OwnerRevokes ==
    \E a \in Agents :
        /\ ~agent[a].revoked
        /\ agent' = [agent EXCEPT ![a].revoked = TRUE]
        /\ out' = out \cup {a}
        /\ UNCHANGED <<keys, file, proc, call, rotation, made>>

\* rotate-key refuses a revoked agent, and then writes without looking again.
BeginRotate(o) ==
    /\ rotation[o].step = "new"
    /\ \E a \in Agents : ~agent[a].revoked /\ rotation' = [rotation EXCEPT ![o] = [step |-> "read", of |-> a]]
    /\ UNCHANGED <<agent, keys, file, proc, call, out, made>>

\* Seeded bug: a new key makes the agent active.
RotateReactivates(o) ==
    /\ rotation[o].step = "read" /\ keys < MaxKey
    /\ keys' = keys + 1
    /\ agent' = [agent EXCEPT ![rotation[o].of] = [key |-> keys + 1, revoked |-> FALSE]]
    /\ rotation' = [rotation EXCEPT ![o].step = "done"]
    /\ UNCHANGED <<file, proc, call, out, made>>

FinishRotate(o) ==
    /\ rotation[o].step = "read" /\ keys < MaxKey
    /\ keys' = keys + 1
    /\ agent' = [agent EXCEPT ![rotation[o].of].key = keys + 1]
    /\ rotation' = [rotation EXCEPT ![o].step = "done"]
    /\ UNCHANGED <<file, proc, call, out, made>>

-----------------------------------------------------------------------------
(* The MCP server.                                                         *)

\* Seeded bug: the promise of a client is kept only once it is fulfilled.
UnresolvedUntilReady(s) == proc[s].step # "ready"

\* getClient: no call has asked for a client yet, or the last attempt failed.
Unresolved(s) == proc[s].step = "new"

\* resolveClient takes the key of the current profile; without one it asks the
\* relay to register an agent, to be saved as "default" and made current.
ResolveClient(s) ==
    LET k == IF ReadStore.current = NoProfile THEN NoKey ELSE ReadStore.saved[ReadStore.current]
    IN IF k = NoKey
       THEN [Idle EXCEPT !.op = "register", !.step = "asking", !.at = Default]
       ELSE [Idle EXCEPT !.step = "ready", !.key = k]

CallTool(x, s) ==
    /\ call[x] = "new"
    /\ call' = [call EXCEPT ![x] = s]
    /\ proc' = IF Unresolved(s) THEN [proc EXCEPT ![s] = ResolveClient(s)] ELSE proc
    /\ UNCHANGED <<agent, keys, file, rotation, out, made>>

\* The call reaches the relay with the server's key.
AnswerCall(x) ==
    /\ call[x] \in Servers /\ proc[call[x]].step = "ready"
    /\ call' = [call EXCEPT ![x] = IF Authenticates(proc[call[x]].key)
                                   THEN "answered" ELSE "refused"]
    /\ UNCHANGED <<agent, keys, file, proc, rotation, out, made>>

\* The registration fails, or the file cannot be written: a command ends; a
\* server answers all calls that wait and forgets the promise, and with it the
\* agent that it may have registered.
AttemptFails(p) ==
    /\ proc[p].step \in {"asking", "read", "empty", "fill"}
    /\ proc' = [proc EXCEPT ![p] = IF p \in Servers THEN Idle ELSE Ended]
    /\ call' = [x \in Calls |-> IF call[x] = p THEN "refused" ELSE call[x]]
    /\ made' = IF p \in Servers THEN [made EXCEPT ![p] = 0] ELSE made
    /\ UNCHANGED <<agent, keys, file, rotation, out>>

\* A process dies, and a server is started again.
ProcessDies(p) ==
    /\ proc[p].step \notin {"new", "done"}
    /\ proc' = [proc EXCEPT ![p] = IF p \in Servers THEN Idle ELSE Ended]
    /\ call' = [x \in Calls |-> IF call[x] = p THEN "lost" ELSE call[x]]
    /\ made' = IF p \in Servers THEN [made EXCEPT ![p] = 0] ELSE made
    /\ UNCHANGED <<agent, keys, file, rotation, out>>

-----------------------------------------------------------------------------
StoreStep(p) ==
    EmptyFile(p) \/ FillFile(p) \/ DropFile(p) \/ UpsertProfile(p)
    \/ Registered(p) \/ AttemptFails(p) \/ ProcessDies(p)

Command(c) ==
    \/ RunRegister(c) \/ RunSetKey(c) \/ RunConfigUse(c) \/ RunConfigRm(c)
    \/ RunLogout(c) \/ RunLogoutAll(c) \/ ClearActiveProfile(c) \/ RunKeyRevoke(c)
    \/ RemoveProfile(c) \/ RevokeKey(c)

KeysNext ==
    \/ \E p \in Procs : StoreStep(p)
    \/ \E c \in Commands : Command(c)
    \/ \E x \in Calls : AnswerCall(x) \/ \E s \in Servers : CallTool(x, s)
    \/ \E o \in Owners : BeginRotate(o) \/ FinishRotate(o)
    \/ OwnerRevokes

KeysSpec == KeysInit /\ [][KeysNext]_keyVars

-----------------------------------------------------------------------------
(* Properties.                                                             *)

\* Whatever the processes overwrite of each other, the current profile of the
\* file is one of its profiles (cli/src/store.ts:36-37, 171-206).
CurrentIsSaved ==
    file.state = "full" /\ file.store.current # NoProfile
        => ~Missing(file.store, file.store.current)

\* Tool calls that reach a server together share one registration: unless it
\* fails, a process registers one agent at most (mcp/src/server.ts:36-56).
OneAgentPerServer == \A s \in Servers : made[s] <= 1

\* A revocation that was answered is final, also for a key that the owner's
\* rotate-key was making meanwhile (self.ts:117-149, 172-195).
RevokedStayOut == \A a \in out : agent[a].revoked

KeysInv == KeysTypeOK /\ CurrentIsSaved /\ OneAgentPerServer /\ RevokedStayOut

\* A logout without --all leaves the profiles it was not asked to clear
\* (commands/logout.ts:21-24).
LogoutKeepsOthers ==
    [][\A c \in Commands : proc[c].op = "logout" /\ proc'[c] # proc[c] =>
          \A p \in Profiles : p # proc[c].at /\ ~Missing(ReadStore, p)
                              => ~Missing(ReadStore', p)]_keyVars

\* Not properties: a profile survives the commands that do not name it (two
\* writers overwrite each other, and a torn file reads as an empty one), and
\* all servers of a machine speak as one agent.
ProfilesSurvive ==
    [][\A p \in Profiles : ~Missing(ReadStore, p) /\ Missing(ReadStore', p)
          => \E c \in Commands : proc[c].at = p \/ proc[c].op \in {"wipe", "clear", "logout"}]_keyVars
OneAgentPerMachine ==
    \A s, t \in Servers : proc[s].step = "ready" /\ proc[t].step = "ready"
                          => proc[s].key = proc[t].key
=============================================================================
