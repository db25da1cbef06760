----------------------------- MODULE MCSockets -----------------------------
(* The browser and its socket: small instances of ShellClient, PageCalls,  *)
(* WsGate and Attendance. A behaviour exercises one of them, its focus,    *)
(* and leaves the others as they start.                                    *)
EXTENDS ShellClient, PageCalls, WsGate, Attendance

VARIABLE focus

CONSTANTS u1, u2    \* WsGate: two upgrades

socketsVars == <<shellVars, callVars, gateVars, attendVars, focus>>

(* Out of focus, a component starts in one of the states it may start in.  *)
CallsStart ==
    \/ focus = "calls" /\ CallsInit
    \/ /\ focus # "calls" /\ wsOpen = TRUE
       /\ call = [c \in Calls |-> [kind |-> "emit", arg |-> "good", code |-> "none",
                                   state |-> "idle", at |-> "page", done |-> FALSE]]
       /\ CallsInit

(* Which of the upgrades holds the ticket is a matter of names.            *)
GateStarts ==
    \/ focus = "gate" /\ GateInit /\ (up[u1].cred = Bearer => up[u2].cred = Bearer)
    \/ /\ focus # "gate"
       /\ ticket = [t \in Tickets |-> [state |-> "none", here |-> TRUE,
                                       canEmit |-> TRUE, anon |-> FALSE]]
       /\ up = [u \in Upgrades |-> [cred |-> Bearer, step |-> "new", canEmit |-> FALSE,
                                    anon |-> FALSE, alive |-> FALSE, peer |-> TRUE]]
       /\ GateInit

SocketsInit ==
    /\ focus \in {"shell", "calls", "gate", "attendance"}
    /\ ShellInit /\ CallsStart /\ GateStarts /\ AttendInit

SocketsNext ==
    /\ UNCHANGED focus
    /\ \/ focus = "shell" /\ ShellNext /\ UNCHANGED <<callVars, gateVars, attendVars>>
       \/ focus = "calls" /\ CallsNext /\ UNCHANGED <<shellVars, gateVars, attendVars>>
       \/ focus = "gate" /\ GateNext /\ UNCHANGED <<shellVars, callVars, attendVars>>
       \/ focus = "attendance" /\ AttendNext
             /\ UNCHANGED <<shellVars, callVars, gateVars>>

(* ShellFairness, CallsLive and GateFairness, where they are in focus.     *)
SocketsFair ==
    /\ WF_shellVars(focus = "shell" /\ Fire)
    /\ WF_shellVars(focus = "shell" /\ MintAnswers)
    /\ \A n \in 1 .. MaxSock :
           /\ WF_shellVars(focus = "shell" /\ n \in DOMAIN socks /\ Opens(n))
           /\ WF_shellVars(focus = "shell" /\ n \in DOMAIN socks /\ CloseEvent(n))
           /\ WF_shellVars(focus = "shell" /\ n \in DOMAIN socks
                /\ (ReplayComplete(n) \/ EventArrives(n) \/ RecordArrives(n)))
    /\ \A c \in Calls : WF_callVars(focus = "calls" /\ TimeOut(c))
    /\ \A u \in Upgrades : WF_gateVars(focus = "gate" /\ Heartbeat(u))

SocketsSpec == SocketsInit /\ [][SocketsNext]_socketsVars /\ SocketsFair

(* ShellCatchesUp, of the behaviours in which the shell runs.              *)
RunningShellCatchesUp == focus = "shell" => ShellCatchesUp

(* What dies leaves: a vanished peer its place under the caps, a dead      *)
(* process the people it had joined.                                       *)
SocketsRecover == DeadPeersLeave /\ StartClears

(* What the two ends of a socket come to: a shell that loses its socket    *)
(* shows the whole record again, a call of the page is answered once or    *)
(* times out, and what dies leaves.                                        *)
SocketsProgress == RunningShellCatchesUp /\ PromisesKept /\ SocketsRecover
=============================================================================
