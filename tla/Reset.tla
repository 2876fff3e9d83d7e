------------------------------- MODULE Reset -------------------------------
(***************************************************************************)
(* A reset of the cluster (POST /api/cluster/reset, or [F] and [R] in the   *)
(* TUI) composed with the frontier it wipes.  A reset is not one script:    *)
(* one UNLINK of all lists and counters, then a scan for job hashes and one *)
(* for host queues, while workers hold claims, the crawler routes and       *)
(* clients submit.                                                          *)
(*                                                                         *)
(* Abstractions.  A scan finds the keys of its moment and deletes them in a *)
(* second step.  The payloads raw_page:* are not modelled; a page without   *)
(* its payload is dead-lettered, which Frontier always allows.              *)
(***************************************************************************)
EXTENDS Frontier

CONSTANTS SubmitDuring,   \* may clients submit while a reset runs?
          MaxResets

ASSUME ResetAssumption == SubmitDuring \in BOOLEAN /\ MaxResets \in Nat

VARIABLES
  step,     \* of the reset: what it does next
  doomed,   \* the jobs or hosts whose keys the scan found
  resets,
  bump,     \* worker -> the job whose progress counter it is about to raise
  ghosts,   \* jobs whose hash holds nothing but progress counters
  used,     \* history: jobs that were submitted
  old       \* history: entries of before the reset

resetting == <<step, doomed, resets, old>>
allVars == <<vars, resetting, bump, ghosts, used>>

Known == {j \in Jobs : jobs[j].status # "none"}
Held == {claim[w] : w \in {v \in Workers : Holds(v)}}

ResetInit ==
  /\ Init
  /\ step = "none" /\ doomed = {} /\ resets = 0
  /\ bump = [w \in Workers |-> NoJob]
  /\ ghosts = {} /\ used = {} /\ old = {}

-----------------------------------------------------------------------------
(* The reset *)

GaugeKept == UNCHANGED scheduled   \* a mutated form: frontier:scheduled is forgotten

GaugeUnlinked == scheduled' = 0

(* UNLINK of every key with a fixed name *)
UnlinkLists ==
  /\ step = "none" /\ resets < MaxResets
  /\ step' = "jobs" /\ resets' = resets + 1
  /\ old' = old \cup Stored \cup Held
  /\ ingest' = {} /\ processing' = {} /\ dead' = {} /\ raw' = {} /\ rawDead' = {}
  /\ GaugeUnlinked
  /\ hosts' = [h \in Hosts |-> Absent]
  /\ lease' = [e \in Entry |-> Absent]
  /\ delayed' = [e \in Entry |-> Absent]
  /\ redeliveries' = [e \in Entry |-> 0]
  /\ seen' = {}
  /\ holder' = [e \in Entry |-> NoWorker]
  /\ UNCHANGED <<queued, jobs, claim, stopping, shutdowns, replays, doomed, bump, ghosts,
                 used>>

ScanJobs ==
  /\ step = "jobs"
  /\ doomed' = Known \cup ghosts
  /\ step' = "unlink jobs"
  /\ UNCHANGED <<vars, resets, old, bump, ghosts, used>>

UnlinkJobs ==
  /\ step = "unlink jobs"
  /\ jobs' = [j \in Jobs |-> IF j \in doomed THEN [outstanding |-> 0, status |-> "none"]
                             ELSE jobs[j]]
  /\ ghosts' = ghosts \ doomed
  /\ step' = "hosts" /\ doomed' = {}
  /\ UNCHANGED <<stores, scheduled, hosts, lease, redeliveries, seen, claim, stopping, holder,
                 shutdowns, replays, resets, old, bump, used>>

ScanHosts ==
  /\ step = "hosts"
  /\ doomed' = {Host(e) : e \in queued}
  /\ step' = "unlink hosts"
  /\ UNCHANGED <<vars, resets, old, bump, ghosts, used>>

UnlinkHosts ==
  /\ step = "unlink hosts"
  /\ queued' = {e \in queued : Host(e) \notin doomed}
  /\ step' = "none" /\ doomed' = {}
  /\ UNCHANGED <<ingest, processing, delayed, dead, raw, rawDead, scheduled, hosts, lease,
                 redeliveries, seen, jobs, claim, stopping, holder, shutdowns, replays, resets,
                 old, bump, ghosts, used>>

ResetStep == UnlinkLists \/ ScanJobs \/ UnlinkJobs \/ ScanHosts \/ UnlinkHosts

-----------------------------------------------------------------------------
(* Progress counters: after a commit the worker raises a field of job:<id>  *)
(* by HINCRBY, which creates the hash if a reset has removed it.            *)

(* Every outcome but a release and an entry without a readable job counts. *)
Counted(w) ==
  Commits(w) /\ claim[w].target \notin Undecodable /\ claim[w] \notin ingest'

Worker(w) ==
  /\ bump[w] = NoJob
  /\ TryClaim(w) \/ Handle(w) \/ Abandon(w) \/ Shutdown(w) \/ Restart(w)
  /\ bump' = [bump EXCEPT ![w] = IF Counted(w) THEN Job(claim[w]) ELSE NoJob]
  /\ UNCHANGED <<resetting, ghosts, used>>

IncrJobCounter(w) ==
  /\ bump[w] # NoJob
  /\ ghosts' = ghosts \cup ({bump[w]} \ Known)
  /\ bump' = [bump EXCEPT ![w] = NoJob]
  /\ UNCHANGED <<vars, resetting, used>>

(* The worker dies first, or the call fails. *)
LoseCount(w) ==
  /\ bump[w] # NoJob
  /\ bump' = [bump EXCEPT ![w] = NoJob]
  /\ UNCHANGED <<vars, resetting, ghosts, used>>

-----------------------------------------------------------------------------
(* The rest of the frontier goes on.  A job id is never used twice. *)
Others ==
  /\ \/ Producers /\ (SubmitDuring \/ step = "none")
     \/ Parser \/ Maintenance \/ Tick
  /\ Known' \cap used \subseteq Known
  /\ used' = used \cup Known'
  /\ UNCHANGED <<resetting, bump, ghosts>>

ResetNext ==
  \/ ResetStep
  \/ \E w \in Workers : Worker(w) \/ IncrJobCounter(w) \/ LoseCount(w)
  \/ Others

ResetSpec == ResetInit /\ [][ResetNext]_allVars

-----------------------------------------------------------------------------
(* Properties *)

(* What was there before a reset never comes back: no settle, retry or      *)
(* redelivery of a worker that still held an entry, and no commit of the    *)
(* parser, puts an old entry back, or its target with another attempt       *)
(* count, once the reset has ended.                                         *)
OldGone == step = "none" => \A e \in Stored, o \in old : e.target # o.target

(* Between resets the books are exact for the jobs that exist: the gauge,   *)
(* the registered hosts and the outstanding counters fit the queues.        *)
BooksAfterReset ==
  step = "none" =>
    /\ ScheduledExact
    /\ QueuedHostsKnown
    /\ \A j \in Known : jobs[j].outstanding = Cardinality(OfJob(Live, j))

(* After a reset no key of the crawls before it is left: no job hash of a   *)
(* job that was wiped.                                                      *)
NoGhosts == ghosts = {}

=============================================================================
