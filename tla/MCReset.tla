------------------------------ MODULE MCReset ------------------------------
(* Small instances of Reset for TLC: two jobs on one host.                  *)
EXTENDS Reset, TLC

Perms == Permutations(Workers)

PairTargets == {"seed1", "seed2"}
PairJobs == {"job1", "job2"}
PairUrls == {"a/", "a/x"}
PairJobOf == [t \in PairTargets |-> IF t = "seed1" THEN "job1" ELSE "job2"]
PairUrlOf == [t \in PairTargets |-> IF t = "seed1" THEN "a/" ELSE "a/x"]
PairPriorityOf == [t \in PairTargets |-> 5]
PairHostOf == [u \in PairUrls |-> "a"]

=============================================================================
