----------------------------- MODULE EventFeed ------------------------------
(***************************************************************************)
(* What the event stream of a pane promises whatever the transport, the    *)
(* database or the number of replicas: a log that only grows, and for each *)
(* WebSocket session a feed that carries entries of the log, never one     *)
(* that is not in it, and none of them twice.  It does NOT promise that a  *)
(* feed is complete: EventStream shows where the relay loses events.       *)
(***************************************************************************)
EXTENDS Naturals

CONSTANTS FeedIds, Feeds

VARIABLES
    log,        \* ids in the log
    carried     \* how many times each feed carried each id

Init ==
    /\ log = {}
    /\ carried = [f \in Feeds |-> [i \in FeedIds |-> 0]]

(* An event enters the log.                                                *)
Append(i) ==
    /\ i \notin log
    /\ log' = log \cup {i}
    /\ UNCHANGED carried

(* Feeds carry entries of the log that they have not carried before: one   *)
(* feed a batch of them (a replay), or several feeds one (a broadcast).    *)
Carry ==
    /\ UNCHANGED log
    /\ \E New \in [Feeds -> SUBSET log] :
          carried' = [f \in Feeds |-> [i \in FeedIds |->
                         IF i \in New[f] THEN carried[f][i] + 1
                                         ELSE carried[f][i]]]
          /\ \A f \in Feeds : \A i \in New[f] : carried[f][i] = 0

Next == Carry \/ \E i \in FeedIds : Append(i)

Spec == Init /\ [][Next]_<<log, carried>>
=============================================================================
