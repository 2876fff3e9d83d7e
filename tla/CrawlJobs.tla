------------------------------ MODULE CrawlJobs ------------------------------
(***************************************************************************)
(* What the crawler promises about jobs, without queues, leases, hosts or   *)
(* workers.  A target is live from the moment it is enqueued until its one  *)
(* outcome; a job is complete exactly while none of its targets is live;    *)
(* a URL seen before is not enqueued again unless the submitter forces it;  *)
(* a dead-lettered target may come back.                                    *)
(***************************************************************************)
EXTENDS FiniteSets

CONSTANTS Targets, Jobs, JobOf, UrlOf

VARIABLES
  live,      \* targets whose outcome is still to come
  dead,      \* targets in a dead-letter list
  seen,      \* URLs that were enqueued
  known,     \* jobs that exist
  complete   \* jobs reported as completed

vars == <<live, dead, seen, known, complete>>

Init == live = {} /\ dead = {} /\ seen = {} /\ known = {} /\ complete = {}

JobsOf(S) == {JobOf[t] : t \in S} \cap Jobs
UrlsOf(S) == {UrlOf[t] : t \in S}

(* The report follows the live targets in the same step. *)
Report == complete' = {j \in known' : j \notin JobsOf(live')}

(* A submission may name URLs that were seen; unless it is forced, those    *)
(* are not enqueued, and their jobs never come to exist.                    *)
Submit(S, skipped) ==
  /\ S \cap (live \cup dead) = {} /\ skipped \subseteq seen
  /\ JobsOf(S) \cap known = {}
  /\ live' = live \cup S
  /\ seen' = seen \cup UrlsOf(S) \cup skipped
  /\ known' = known \cup JobsOf(S)
  /\ Report
  /\ UNCHANGED dead

(* An entry of no job, pushed by hand: it is not recorded as seen. *)
Push(t) ==
  /\ JobsOf({t}) = {} /\ t \notin live \cup dead
  /\ live' = live \cup {t}
  /\ UNCHANGED <<dead, seen, known, complete>>

(* The targets of F get their outcome, those of B as dead letters.          *)
Settle(F, B) ==
  /\ F # {} /\ F \subseteq live /\ B \subseteq F
  /\ live' = live \ F
  /\ dead' = dead \cup B
  /\ Report
  /\ UNCHANGED <<seen, known>>

(* A parsed page gets its outcome and its new links become live. *)
Parse(t, children) ==
  /\ t \in live /\ children \cap (live \cup dead) = {}
  /\ JobsOf(children) \subseteq JobsOf({t})
  /\ UrlsOf(children) \cap seen = {}
  /\ live' = (live \ {t}) \cup children
  /\ seen' = seen \cup UrlsOf(children)
  /\ Report
  /\ UNCHANGED <<dead, known>>

(* Dead letters are replayed, some of them are lost in the attempt. *)
Replay(back, dropped) ==
  /\ back \cup dropped # {} /\ back \cup dropped \subseteq dead
  /\ back \cap dropped = {}
  /\ dead' = dead \ (back \cup dropped)
  /\ live' = live \cup back
  /\ Report
  /\ UNCHANGED <<seen, known>>

Next ==
  \/ \E S \in SUBSET Targets : \E skipped \in SUBSET seen : Submit(S, skipped)
  \/ \E t \in Targets : Push(t)
  \/ \E F \in SUBSET live : \E B \in SUBSET F : Settle(F, B)
  \/ \E t \in live, children \in SUBSET Targets : Parse(t, children)
  \/ \E back, dropped \in SUBSET dead : Replay(back, dropped)

Spec == Init /\ [][Next]_vars

=============================================================================
