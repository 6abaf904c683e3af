---------------------------- MODULE MCTeamRuntime ----------------------------
(* TLC instances of TeamRuntime. *)
EXTENDS TeamRuntime

CONSTANTS w1, n1, s1

MCWorkers1 == {w1}
MCNotes == {n1}
MCSteers == {s1}
MCMessages == Reports \cup Notes \cup Steers
MCTo == [m \in MCMessages |-> IF m \in Reports THEN Lead ELSE w1]
=============================================================================
