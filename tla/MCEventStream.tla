---------------------------- MODULE MCEventStream ---------------------------
(* Small instances of EventStream.                                         *)
EXTENDS EventStream, TLC

CONSTANTS w1, w2, s1, s2, alice, r1, r2

(* One client that reconnects: its second session follows its first.       *)
OneClient == [s \in Sessions |-> alice]

(* Every session is another client's.                                      *)
OwnClient == [s \in Sessions |-> s]

(* One process, or the second writer and session on another replica.       *)
OneHost == [a \in Actors |-> r1]
TwoHosts == [a \in Actors |-> IF a \in {w2, s2} THEN r2 ELSE r1]
=============================================================================
