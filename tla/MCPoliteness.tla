---------------------------- MODULE MCPoliteness ----------------------------
(* A small instance of Politeness for TLC: two servers, one of them known   *)
(* under two names, and two workers of one process.                         *)
EXTENDS Politeness, TLC

Perms == Permutations(Workers)

OneProcess == [w \in Workers |-> "i1"]
Names == {"a", "u@a", "b"}
NameKeys == [h \in Names |-> IF h = "b" THEN "b" ELSE "a"]

=============================================================================
