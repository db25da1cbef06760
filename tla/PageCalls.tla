----------------------------- MODULE PageCalls -----------------------------
(***************************************************************************)
(* What a page asks of its pane: the promises of window.pane               *)
(* (packages/relay/src/bridge/client/runtime.client.ts) and the shell that *)
(* carries them out (shell.client.ts).                                     *)
(*                                                                         *)
(* emit, uploadBlob, downloadBlob, saveBlob and the record mutators post a *)
(* request to the shell, keep a pending entry and arm a timer. The shell   *)
(* checks the request and sends an emit over its WebSocket, if that is     *)
(* open, and everything else as a fetch; it posts one result for each. The *)
(* answer of a lost socket never comes, and an answer that comes after the *)
(* timer finds no pending entry. One document of the page is modelled: its *)
(* ids are not used twice.                                                 *)
(***************************************************************************)
EXTENDS Naturals, FiniteSets

CONSTANTS
    Calls,        \* promises the page asks for
    MaxFlap       \* bound of the model: how often the WebSocket is lost

ASSUME PageCallsAssumption == MaxFlap \in Nat

VARIABLES
    call,         \* per promise: kind and argument, its state and code in the
                  \* page, where its request is, and whether the relay did it
    wsOpen, flaps

callVars == <<call, wsOpen, flaps>>

Kinds == {"emit", "upload", "download", "save", "mutate"}
Arguments == {"good", "empty", "long"}
Codes == {"none", "ok", "invalid_args", "invalid_request", "disconnected",
          "refused", "network_error", "fetch_error", "failed", "timeout"}
Places == {"page", "posted", "wire", "fetch", "did", "declined", "over"}

PromiseRow == [kind : Kinds, arg : Arguments, code : Codes,
               state : {"idle", "pending", "resolved", "rejected"},
               at : Places, done : BOOLEAN]

CallsTypeOK ==
    /\ call \in [Calls -> PromiseRow]
    /\ wsOpen \in BOOLEAN /\ flaps \in 0 .. MaxFlap
    /\ \A c \in Calls : /\ call[c].state \in {"idle", "pending"} <=> call[c].code = "none"
                        /\ call[c].at \in {"wire", "fetch"} => ~call[c].done

CallsInit ==
    /\ call \in [Calls -> [kind : Kinds, arg : Arguments, code : {"none"},
                           state : {"idle"}, at : {"page"}, done : {FALSE}]]
    /\ wsOpen \in BOOLEAN /\ flaps = 0

-----------------------------------------------------------------------------
(* The page. A call whose argument the runtime refuses is rejected at      *)
(* once; any other is posted to the shell and becomes pending.             *)

Ask(c, kinds, refused) ==
    /\ call[c].state = "idle" /\ call[c].kind \in kinds
    /\ call' = [call EXCEPT ![c] =
           IF refused
           THEN [@ EXCEPT !.state = "rejected", !.code = "invalid_args", !.at = "over"]
           ELSE [@ EXCEPT !.state = "pending", !.at = "posted"]]
    /\ UNCHANGED <<wsOpen, flaps>>

AskEmit(c) == Ask(c, {"emit"}, FALSE)
AskUpload(c) == Ask(c, {"upload"}, call[c].arg = "empty")
AskBlob(c) == Ask(c, {"download", "save"}, call[c].arg = "empty")
AskMutate(c) == Ask(c, {"mutate"}, FALSE)

\* An answer settles a promise that is still pending, and is dropped otherwise.
SettledAnyway(c, state, code, at, done) ==
    [call EXCEPT ![c] = [@ EXCEPT !.at = at, !.done = done,
                                  !.state = state, !.code = code]]

Settled(c, state, code, at, done) ==
    [call EXCEPT ![c] =
        IF call[c].state = "pending"
        THEN [@ EXCEPT !.at = at, !.done = done, !.state = state, !.code = code]
        ELSE [@ EXCEPT !.at = at, !.done = done]]

\* What ack, error and the result frames make of a promise.
Answer(c, code, done) ==
    Settled(c, IF code = "ok" THEN "resolved" ELSE "rejected", code, "over", done)

TimeOutInFlight(c) ==
    /\ call[c].state = "pending" /\ call[c].at # "over"
    /\ call' = [call EXCEPT ![c] = [@ EXCEPT !.state = "rejected", !.code = "timeout"]]
    /\ wsOpen
    /\ UNCHANGED <<wsOpen, flaps>>

TimeOutUncoded(c) ==
    /\ call[c].state = "pending"
    /\ call' = [call EXCEPT ![c].state = "rejected"]
    /\ UNCHANGED <<wsOpen, flaps>>

\* 30 seconds for emits and mutations, two minutes for the others.
TimeOut(c) ==
    /\ call[c].state = "pending"
    /\ call' = [call EXCEPT ![c] = [@ EXCEPT !.state = "rejected", !.code = "timeout"]]
    /\ UNCHANGED <<wsOpen, flaps>>

-----------------------------------------------------------------------------
(* The shell.                                                              *)

\* Requests the shell refuses: ids and names that are too long, a record
\* mutation without a collection or a key, an emit without a type.
ShellRefuses(c) ==
    \/ call[c].kind = "emit" /\ call[c].arg # "good"
    \/ call[c].kind \in {"download", "save"} /\ call[c].arg = "long"
    \/ call[c].kind = "mutate" /\ call[c].arg = "empty"

\* An emit is sent if the socket is open, and otherwise answered at once.
ForwardEmitAndRefuse(c) ==
    /\ call[c].kind = "emit" /\ call[c].at = "posted" /\ ~ShellRefuses(c)
    /\ call' = IF wsOpen
               THEN [call EXCEPT ![c].at = "wire"]
               ELSE Settled(c, "rejected", "disconnected", "wire", FALSE)
    /\ UNCHANGED <<wsOpen, flaps>>

ForwardEmit(c) ==
    /\ call[c].kind = "emit" /\ call[c].at = "posted" /\ ~ShellRefuses(c)
    /\ call' = IF wsOpen
               THEN [call EXCEPT ![c].at = "wire"]
               ELSE Answer(c, "disconnected", FALSE)
    /\ UNCHANGED <<wsOpen, flaps>>

StartFetch(c) ==
    /\ call[c].kind # "emit" /\ call[c].at = "posted" /\ ~ShellRefuses(c)
    /\ call' = [call EXCEPT ![c].at = "fetch"]
    /\ UNCHANGED <<wsOpen, flaps>>

Refuse(c) ==
    /\ call[c].at = "posted" /\ ShellRefuses(c)
    /\ call' = Answer(c, "invalid_request", FALSE)
    /\ UNCHANGED <<wsOpen, flaps>>

\* What the page is told when a fetch fails on the network, answers with an
\* error status, succeeds, or succeeds with a body that cannot be read.
UploadCode(end) ==
    [network |-> "network_error", error |-> "refused", ok |-> "ok", garbled |-> "failed"][end]
DownloadCode(end) ==
    [network |-> "fetch_error", error |-> "refused", ok |-> "ok", garbled |-> "fetch_error"][end]
SaveCode(end) ==
    [network |-> "fetch_error", error |-> "refused", ok |-> "ok", garbled |-> "failed"][end]
MutateCodeOptimistic(end) ==
    [network |-> "ok", error |-> "refused", ok |-> "ok", garbled |-> "ok"][end]
MutateCode(end) ==
    [network |-> "network_error", error |-> "refused", ok |-> "ok", garbled |-> "ok"][end]

FetchCode(kind, end) ==
    CASE kind = "upload" -> UploadCode(end)
      [] kind = "download" -> DownloadCode(end)
      [] kind = "save" -> SaveCode(end)
      [] kind = "mutate" -> MutateCode(end)

\* The fetch ends: a network failure may come before or after the relay acted.
EndFetch(c) ==
    /\ call[c].kind # "emit" /\ call[c].at \in {"fetch", "did", "declined"}
    /\ \E end \in {"network"} \cup (IF call[c].at = "did" THEN {"ok", "garbled"} ELSE {})
                              \cup (IF call[c].at = "declined" THEN {"error"} ELSE {}) :
           call' = Answer(c, FetchCode(call[c].kind, end), call[c].done)
    /\ UNCHANGED <<wsOpen, flaps>>

\* The ack or the error of an emit comes back over the socket.
AckArrives(c) ==
    /\ call[c].kind = "emit" /\ call[c].at \in {"did", "declined"}
    /\ call' = Answer(c, IF call[c].at = "did" THEN "ok" ELSE "refused", call[c].done)
    /\ UNCHANGED <<wsOpen, flaps>>

-----------------------------------------------------------------------------
(* The relay and the link.                                                 *)

\* The relay carries a request out, or declines it.
Perform(c) ==
    /\ call[c].at \in {"wire", "fetch"}
    /\ \/ call' = [call EXCEPT ![c] = [@ EXCEPT !.at = "did", !.done = TRUE]]
       \/ call' = [call EXCEPT ![c].at = "declined"]
    /\ UNCHANGED <<wsOpen, flaps>>

\* The WebSocket is lost with the emits and the answers on it, and comes back.
LoseSocket ==
    /\ wsOpen /\ flaps < MaxFlap
    /\ wsOpen' = FALSE /\ flaps' = flaps + 1
    /\ call' = [c \in Calls |->
           IF call[c].kind = "emit" /\ call[c].at \in {"wire", "did", "declined"}
           THEN [call[c] EXCEPT !.at = "over"] ELSE call[c]]

Reopen ==
    /\ ~wsOpen
    /\ wsOpen' = TRUE
    /\ UNCHANGED <<call, flaps>>

CallsNext ==
    \/ LoseSocket \/ Reopen
    \/ \E c \in Calls :
           \/ AskEmit(c) \/ AskUpload(c) \/ AskBlob(c) \/ AskMutate(c) \/ TimeOut(c)
           \/ Refuse(c) \/ ForwardEmit(c) \/ StartFetch(c)
           \/ Perform(c) \/ EndFetch(c) \/ AckArrives(c)

CallsSpec == CallsInit /\ [][CallsNext]_callVars

\* The page's timers fire; neither the network nor the relay promises anything.
CallsLive == CallsSpec /\ \A c \in Calls : WF_callVars(TimeOut(c))

-----------------------------------------------------------------------------
(* Properties.                                                             *)

\* A promise that resolves was carried out, by whatever route the answer took
\* (shell.client.ts:928-947, 1448-1463, runtime.client.ts:560-569).
ResolvedIsDone == \A c \in Calls : call[c].state = "resolved" => call[c].done

\* A call that was refused on the way, by the runtime, by the shell or for want
\* of a socket, was not carried out and never will be: it may be repeated
\* (shell.client.ts:1522-1526).
RefusedIsNotDone ==
    \A c \in Calls :
        call[c].code \in {"invalid_args", "invalid_request", "disconnected", "refused"}
            => ~call[c].done

\* A promise settles once: neither a late answer after the timer nor a second
\* one changes it (runtime.client.ts:562-564, 591-594).
SettlesOnce ==
    [][\A c \in Calls : call[c].state \in {"resolved", "rejected"} =>
           /\ call'[c].state = call[c].state
           /\ call'[c].code = call[c].code]_callVars

\* No promise hangs: not on a lost socket, a lost answer or a dead relay
\* (shell.client.ts:849-851, runtime.client.ts:375-380).
PromisesSettle ==
    \A c \in Calls :
        call[c].state = "pending" ~> call[c].state \in {"resolved", "rejected"}

\* Not a property: a call that is rejected may have been carried out.
RejectedIsNotDone == \A c \in Calls : call[c].state = "rejected" => ~call[c].done

(* What an answer tells the page, and that there is one.                   *)
CallsInv == CallsTypeOK /\ ResolvedIsDone /\ RefusedIsNotDone
PromisesKept == SettlesOnce /\ PromisesSettle
=============================================================================
