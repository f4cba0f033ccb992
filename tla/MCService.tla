------------------------------ MODULE MCService ------------------------------
(* Small instances of Service for TLC: two configurations that differ in   *)
(* their default proxy and in the user agent their browsers present.       *)
EXTENDS Service, TLC

CONSTANTS c1, c2, p1, p2, a1, a2

ProxyEach == [c \in Configs |-> IF c = c1 THEN p1 ELSE p2]
AgentEach == [c \in Configs |-> IF c = c1 THEN a1 ELSE a2]
FixSecond == [c \in Configs |-> IF c = c1 THEN None ELSE a1]

Symmetric == Permutations(Handlers \ {Main}) \cup Permutations(Objects)
=============================================================================
