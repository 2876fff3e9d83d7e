----------------------------- MODULE MCFrontier -----------------------------
(* Small instances of Frontier for TLC.                                     *)
EXTENDS Frontier, TLC

Perms == Permutations(Workers)

(* One job: a seed and the child its page links to, on one host; one entry  *)
(* pushed by hand.                                                          *)
OneTargets == {"seed", "child", "odd"}
OneSeeds == {"seed"}
OneForeign == {"odd"}
OneJobs == {"job"}
OneUrls == {"a/", "a/x", "?"}
OneHosts == {"a"}
OneJobOf == [t \in OneTargets |-> IF t = "odd" THEN NoJob ELSE "job"]
OneUrlOf == [t \in OneTargets |-> CASE t = "seed" -> "a/" [] t = "child" -> "a/x"
                                    [] OTHER -> "?"]
OnePriorityOf == [t \in OneTargets |-> 5]
OneHostOf == [u \in OneUrls |-> "a"]

(* Two jobs on two hosts, whose pages link to one child, on the second      *)
(* one's host.  For the first job the child is urgent; the entry the second *)
(* job makes of it is one Go does not decode.  One entry is pushed by hand. *)
MeshTargets == {"seed1", "seed2", "child1", "child2", "odd"}
MeshSeeds == {"seed1", "seed2"}
MeshForeign == {"odd"}
MeshUndecodable == {"child2"}
MeshJobs == {"job1", "job2"}
MeshJobOf == [t \in MeshTargets |-> CASE t \in {"seed1", "child1"} -> "job1"
                                      [] t = "odd" -> NoJob [] OTHER -> "job2"]
MeshUrls == {"a/", "b/", "b/x", "?"}
MeshHosts == {"a", "b"}
MeshUrlOf == [t \in MeshTargets |-> CASE t = "seed1" -> "a/" [] t = "seed2" -> "b/"
                                      [] t = "odd" -> "?" [] OTHER -> "b/x"]
MeshPriorityOf == [t \in MeshTargets |-> IF t = "child1" THEN 8 ELSE 5]
MeshHostOf == [u \in MeshUrls |-> IF u \in {"b/", "b/x"} THEN "b" ELSE "a"]

(* One job whose page links to its own host and to another one.             *)
FanTargets == {"seed", "child1", "child2"}
FanHosts == {"a", "b"}
FanUrls == {"a/", "a/x", "b/"}
FanJobOf == [t \in FanTargets |-> "job"]
FanUrlOf == [t \in FanTargets |-> CASE t = "seed" -> "a/" [] t = "child1" -> "a/x"
                                    [] OTHER -> "b/"]
FanPriorityOf == [t \in FanTargets |-> 5]
FanHostOf == [u \in FanUrls |-> IF u = "b/" THEN "b" ELSE "a"]

=============================================================================
