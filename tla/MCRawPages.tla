----------------------------- MODULE MCRawPages -----------------------------
(* Small instances of RawPages for TLC.                                     *)
EXTENDS RawPages, TLC

Perms == Permutations(Workers)

(* Two pages of one job with the same text (a mirror), at two URLs, that    *)
(* share a link.                                                            *)
MirrorPages == {"p1", "p2"}
MirrorJobOf == [p \in MirrorPages |-> "job"]
MirrorUrlOf == [p \in MirrorPages |-> IF p = "p1" THEN "a/" ELSE "b/"]
MirrorBodyOf == [p \in MirrorPages |-> "text"]
MirrorLinksOf == [p \in MirrorPages |-> IF p = "p1" THEN {"x"} ELSE {"x", "y"}]

(* Two targets that redirect to one URL: two pages with one path. *)
SameUrlOf == [p \in MirrorPages |-> "a/"]

(* A shell without text in one job, and the same shell in another one.      *)
ShellJobOf == [p \in MirrorPages |-> IF p = "p1" THEN "job1" ELSE "job2"]
ShellBodyOf == [p \in MirrorPages |-> NoText]
ShellLinksOf == [p \in MirrorPages |-> {"x"}]

OnePageSet == {"p1"}
OnePageJobOf == [p \in OnePageSet |-> "job"]
OnePageUrlOf == [p \in OnePageSet |-> "a/"]
OnePageBodyOf == [p \in OnePageSet |-> "text"]
OnePageLinksOf == [p \in OnePageSet |-> {"x"}]

=============================================================================
