---------------------------- MODULE ResetProofs ----------------------------
(***************************************************************************)
(* What a reset leaves behind, for every value of the constants.  Between   *)
(* resets the frontier's own invariants hold, and during one the wiped      *)
(* structures stay wiped, whatever workers, crawler and parser do, because  *)
(* every script needs an entry that is no longer there.                     *)
(***************************************************************************)
EXTENDS Reset, FrontierProofs

-----------------------------------------------------------------------------
(* The inductive invariants *)

(* What the first step of a reset leaves, host queues and job hashes aside. *)
Wiped ==
  /\ ingest = {} /\ processing = {} /\ dead = {} /\ raw = {} /\ rawDead = {}
  /\ scheduled = 0 /\ seen = {}
  /\ hosts = [h \in Hosts |-> Absent]
  /\ lease = [e \in Entry |-> Absent]
  /\ delayed = [e \in Entry |-> Absent]
  /\ redeliveries = [e \in Entry |-> 0]

(* The scans miss nothing: no job is created while job hashes are deleted,  *)
(* and no entry is routed while the host queues are.                        *)
ScansComplete ==
  /\ step = "unlink jobs" => Known \subseteq doomed
  /\ step \in {"hosts", "unlink hosts"} => Known = {}
  /\ step = "unlink hosts" => \A e \in queued : Host(e) \in doomed

Settled == JobsInv /\ RegistryInv

NothingOwed == \A j \in Jobs : jobs[j].status = "none" => jobs[j].outstanding = 0

BooksInv ==
  /\ TypeOK
  /\ step \in {"none", "jobs", "unlink jobs", "hosts", "unlink hosts"}
  /\ step = "none" => Settled
  /\ step # "none" => Wiped
  /\ NothingOwed
  /\ ScansComplete

(* A wiped entry, in a worker's hands or not, belongs to a job that was     *)
(* submitted, and such a job is never submitted again.                      *)
OldInv ==
  /\ BooksInv
  /\ Known \subseteq used
  /\ \A e \in old \cup Held : e \in Entry /\ Job(e) \in used
  /\ step = "none" => \A e \in old : Job(e) \notin Known

-----------------------------------------------------------------------------
(* Steps of the frontier during a reset *)

Redis == <<stores, scheduled, hosts, lease, redeliveries, seen, jobs>>

LEMMA FinishNothing ==
  ASSUME jobs \in JobHashes
  PROVE  finish_job(jobs, {}) = jobs
BY DEF finish_job, JobHashes, OfJob

LEMMA WipedWorker ==
  ASSUME TypeOK, Wiped, NEW w \in Workers,
         TryClaim(w) \/ Handle(w) \/ Abandon(w) \/ Shutdown(w) \/ Restart(w)
  PROVE  UNCHANGED Redis /\ Held' \subseteq Held
<1>1. EmptyReady = {} /\ Ready = {}
  BY DEF Wiped, Ready, EmptyReady, Absent
<1>2. ASSUME NEW e \in queued, NEW skipped, Claim(w, e, skipped)
      PROVE  FALSE
  BY <1>1, <1>2 DEF Claim
<1>3. ASSUME NEW skipped \in SUBSET EmptyReady, ClaimNothing(w, skipped)
      PROVE  UNCHANGED Redis /\ claim' = claim
  BY <1>1, <1>3 DEF ClaimNothing, Redis, TypeOK
<1>4. \A gap : ~Settle(w, gap)
  BY DEF Wiped, Settle, Ours
<1>5. ASSUME SettleStale(w) \/ Abandon(w)
      PROVE  UNCHANGED Redis /\ claim' = [claim EXCEPT ![w] = NoEntry]
  BY <1>5 DEF SettleStale, Abandon, Redis
<1>6. ASSUME Shutdown(w) \/ Restart(w)
      PROVE  UNCHANGED Redis /\ claim' = claim
  BY <1>6 DEF Shutdown, Restart, Redis
<1>7. UNCHANGED Redis /\ (claim' = claim \/ claim' = [claim EXCEPT ![w] = NoEntry])
  BY <1>2, <1>3, <1>4, <1>5, <1>6
     DEF TryClaim, Handle, Push, Finish, Reject, DropCorrupt, Retry, Release
<1>8. Held' \subseteq Held
  BY <1>7 DEF Held, Holds, TypeOK
<1> QED BY <1>7, <1>8

LEMMA WipedOthers ==
  ASSUME TypeOK, Wiped, Parser \/ Maintenance \/ Tick
  PROVE  UNCHANGED Redis /\ claim' = claim
<1>0. jobs \in JobHashes /\ Cardinality({}) = 0
  BY FS_EmptySet DEF TypeOK, JobHashes
<1>1. ~Parser
  BY DEF Parser, Wiped
<1>2. ASSUME NEW batch \in SUBSET ingest, Route(batch)
      PROVE  UNCHANGED Redis /\ claim' = claim
  <2>1. batch = {} /\ (batch \ {e \in batch : e.target \in Foreign}) \ queued = {}
        /\ {e \in batch : e.target \in Foreign} = {}
    BY DEF Wiped
  <2>2. /\ ingest' = ingest /\ dead' = dead /\ queued' = queued
        /\ scheduled' = scheduled + 0
        /\ jobs' = finish_job(jobs, {})
        /\ hosts' = [h \in Hosts |-> hosts[h]]
        /\ UNCHANGED <<processing, delayed, raw, rawDead, lease, redeliveries, seen, claim>>
    BY <1>0, <1>2, <2>1 DEF Route
  <2> QED BY <1>0, <2>2, FinishNothing DEF Redis, stores, TypeOK
<1>3. ASSUME NEW batch \in SUBSET DelayedSet, Promote(batch)
      PROVE  UNCHANGED Redis /\ claim' = claim
  <2>1. batch = {}
    BY DEF DelayedSet, Wiped
  <2> QED BY <1>3, <2>1 DEF Promote, Redis, stores, TypeOK
<1>4. ASSUME Reap
      PROVE  UNCHANGED Redis /\ claim' = claim
  <2>1. Expired = {} /\ Exhausted = {}
    BY DEF Wiped, Expired, Exhausted
  <2>2. /\ ingest' = ingest /\ dead' = dead /\ processing' = processing
        /\ jobs' = finish_job(jobs, {})
        /\ UNCHANGED <<queued, delayed, raw, rawDead, scheduled, hosts, seen, claim>>
    BY <1>4, <2>1 DEF Reap
  <2>3. lease' = lease
    BY <1>4, <2>1 DEF Reap, Wiped, Absent
  <2>4. redeliveries' = redeliveries
    BY <1>4, <2>1 DEF Reap, Wiped
  <2> QED BY <1>0, <2>2, <2>3, <2>4, FinishNothing DEF Redis, stores
<1>5. ASSUME Tick
      PROVE  UNCHANGED Redis /\ claim' = claim
  <2>1. Dec(Absent) = Absent
    BY DEF Dec, Absent
  <2> QED BY <1>5, <2>1 DEF Tick, Wiped, Redis, stores
<1> QED BY <1>1, <1>2, <1>3, <1>4, <1>5 DEF Maintenance

-----------------------------------------------------------------------------
(* The books *)

(* The steps of a reset keep the types of what they wipe. *)
LEMMA ResetType == TypeOK /\ ResetStep => TypeOK'
<1> SUFFICES ASSUME TypeOK, ResetStep PROVE TypeOK'
  OBVIOUS
<1>1. CASE UnlinkLists
  <2>1. 0 \in 0..MaxRedeliveries /\ Absent \in Absent..Visibility
        /\ Absent \in Absent..(Visibility + HostGap) /\ Absent \in Absent..Backoff
    BY NumbersAssumption DEF Absent
  <2> QED BY <1>1, <2>1 DEF UnlinkLists, GaugeUnlinked, TypeOK
<1>2. CASE ScanJobs \/ ScanHosts
  BY <1>2 DEF ScanJobs, ScanHosts, vars, stores, TypeOK
<1>3. CASE UnlinkJobs
  <2> DEFINE Gone == [outstanding |-> 0, status |-> "none"]
  <2>0. Gone \in [outstanding : Int, status : Status]
    BY DEF Status
  <2> HIDE DEF Gone
  <2>1. jobs' = [j \in Jobs |-> IF j \in doomed THEN Gone ELSE jobs[j]]
    BY <1>3 DEF UnlinkJobs, Gone
  <2>2. jobs' \in [Jobs -> [outstanding : Int, status : Status]]
    BY <2>0, <2>1 DEF TypeOK
  <2> QED BY <1>3, <2>2 DEF UnlinkJobs, stores, TypeOK
<1>4. CASE UnlinkHosts
  BY <1>4 DEF UnlinkHosts, TypeOK
<1> QED BY <1>1, <1>2, <1>3, <1>4 DEF ResetStep

(* Nothing stored and nothing owed: the frontier is as it was at the start. *)
Emptied == TypeOK /\ Wiped /\ NothingOwed /\ queued = {} /\ Known = {}

LEMMA EmptySettled == Emptied => Settled
<1> SUFFICES ASSUME TypeOK, Wiped, NothingOwed, queued = {}, Known = {} PROVE Settled
  BY DEF Emptied
<1>1. Stored = {} /\ Live = {} /\ DelayedSet = {}
  BY DEF Wiped, Stored, Live, DelayedSet
<1>2. PlaceInv
  BY <1>1 DEF Wiped, PlaceInv, OnePlace, KnownTargets
<1>3. \A j \in Jobs : OfJob({}, j) = {}
  BY DEF OfJob
<1>4. Cardinality({}) = 0
  BY FS_EmptySet
<1>5. \A j \in Jobs : jobs[j].status = "none" /\ jobs[j].outstanding = 0
  BY DEF Known, NothingOwed
<1>6. Accounts(jobs, Live)
  BY <1>1, <1>3, <1>4, <1>5 DEF Accounts
<1>7. Registry
  BY <1>4 DEF Registry, Wiped, LeasesMatch, ScheduledExact, QueuedHostsKnown, Routable
<1> QED BY <1>2, <1>6, <1>7 DEF Settled, JobsInv, RegistryInv

LEMMA EmptySettledAfter == Emptied' => Settled'
BY EmptySettled, PTL

LEMMA InitBooks == ResetInit => BooksInv
<1> SUFFICES ASSUME ResetInit PROVE BooksInv
  OBVIOUS
<1>1. Settled
  BY InitJobs, InitPlace, InitRegistry DEF ResetInit, Settled, RegistryInv
<1>2. NothingOwed
  BY DEF ResetInit, Init, NothingOwed
<1> QED BY <1>1, <1>2 DEF ResetInit, BooksInv, ScansComplete, Settled, JobsInv, PlaceInv

(* While no reset runs the frontier takes its own steps. *)
LEMMA QuietBooks ==
  ASSUME BooksInv, step = "none", [Next]_vars, step' = step
  PROVE  BooksInv'
<1>1. Settled'
  BY JobsInductive, RegistryInductive DEF BooksInv, Settled
<1>2. TypeOK'
  BY <1>1 DEF Settled, JobsInv, PlaceInv
<1>3. NothingOwed'
  BY <1>1 DEF Settled, JobsInv, Accounts, NothingOwed
<1> QED BY <1>1, <1>2, <1>3 DEF BooksInv, ScansComplete

(* During a reset they leave Redis as it is. *)
LEMMA BusyBooks ==
  ASSUME BooksInv, step # "none", UNCHANGED Redis, UNCHANGED resetting, TypeOK'
  PROVE  BooksInv'
<1>1. Known' = Known
  BY DEF Redis, Known
<1> QED BY <1>1 DEF Redis, resetting, stores, BooksInv, Wiped, NothingOwed, ScansComplete

LEMMA ResetBooks ==
  ASSUME BooksInv, ResetStep
  PROVE  BooksInv'
<1>0. TypeOK /\ TypeOK'
  BY ResetType DEF BooksInv
<1>1. CASE UnlinkLists
  BY <1>0, <1>1 DEF UnlinkLists, GaugeUnlinked, BooksInv, Wiped, NothingOwed, ScansComplete
<1>2. CASE ScanJobs
  <2>1. Known' = Known
    BY <1>2 DEF ScanJobs, vars, Known
  <2> QED BY <1>0, <1>2, <2>1
          DEF ScanJobs, vars, stores, BooksInv, Wiped, NothingOwed, ScansComplete
<1>3. CASE UnlinkJobs
  <2>1. \A j \in Jobs : jobs'[j] = IF j \in doomed THEN [outstanding |-> 0, status |-> "none"]
                                   ELSE jobs[j]
    BY <1>3 DEF UnlinkJobs
  <2>2. \A j \in Jobs : jobs'[j].status = "none" /\ jobs'[j].outstanding = 0
    BY <1>3, <2>1 DEF UnlinkJobs, BooksInv, ScansComplete, Known, NothingOwed
  <2>3. Known' = {} /\ NothingOwed'
    BY <2>2 DEF Known, NothingOwed
  <2> QED BY <1>0, <1>3, <2>3 DEF UnlinkJobs, stores, BooksInv, Wiped, ScansComplete
<1>4. CASE ScanHosts
  <2>1. Known' = Known
    BY <1>4 DEF ScanHosts, vars, Known
  <2> QED BY <1>0, <1>4, <2>1
          DEF ScanHosts, vars, stores, BooksInv, Wiped, NothingOwed, ScansComplete
<1>5. CASE UnlinkHosts
  <2>1. Known' = {} /\ NothingOwed' /\ queued' = {}
    BY <1>5 DEF UnlinkHosts, BooksInv, NothingOwed, ScansComplete, Known
  <2>2. Wiped'
    BY <1>5 DEF UnlinkHosts, BooksInv, Wiped
  <2> QED BY <1>0, <1>5, <2>1, <2>2, EmptySettledAfter
          DEF Emptied, UnlinkHosts, BooksInv, ScansComplete
<1> QED BY <1>1, <1>2, <1>3, <1>4, <1>5 DEF ResetStep

LEMMA BooksInductive ==
  ASSUME ~SubmitDuring
  PROVE  BooksInv /\ [ResetNext]_allVars => BooksInv'
<1> SUFFICES ASSUME BooksInv, [ResetNext]_allVars PROVE BooksInv'
  OBVIOUS
<1>0. TypeOK
  BY DEF BooksInv
<1>1. CASE ResetStep
  BY <1>1, ResetBooks
<1>2. ASSUME NEW w \in Workers, Worker(w)
      PROVE  BooksInv'
  <2>1. TryClaim(w) \/ Handle(w) \/ Abandon(w) \/ Shutdown(w) \/ Restart(w)
    BY <1>2 DEF Worker
  <2>2. Next /\ UNCHANGED resetting
    BY <1>2, <2>1 DEF Next, Worker
  <2>3. TypeOK'
    BY <1>0, <2>2, TypeInductive
  <2> QED BY <1>0, <2>1, <2>2, <2>3, QuietBooks, BusyBooks, WipedWorker
          DEF BooksInv, resetting
<1>3. CASE UNCHANGED vars /\ UNCHANGED resetting
  <2>1. TypeOK' /\ UNCHANGED Redis
    BY <1>0, <1>3, TypeInductive DEF vars, Redis
  <2> QED BY <1>3, <2>1, QuietBooks, BusyBooks DEF resetting
<1>4. CASE Others
  <2>1. Next /\ UNCHANGED resetting
    BY <1>4 DEF Next, Others
  <2>2. TypeOK'
    BY <1>0, <2>1, TypeInductive
  <2>3. step # "none" => Parser \/ Maintenance \/ Tick
    BY <1>4 DEF Others
  <2> QED BY <1>0, <2>1, <2>2, <2>3, QuietBooks, BusyBooks, WipedOthers
          DEF BooksInv, resetting
<1> QED BY <1>1, <1>2, <1>3, <1>4 DEF ResetNext, IncrJobCounter, LoseCount, allVars

(* Between resets the gauge, the host registry and, if Go decodes every     *)
(* entry, the outstanding counters are exact again, although the reset is   *)
(* several deletions between which workers, crawler and parser go on, as    *)
(* long as nobody submits while it runs.                                    *)
THEOREM BooksExactAgain ==
  ASSUME ~SubmitDuring, Undecodable = {}
  PROVE  ResetSpec => []BooksAfterReset
<1>1. BooksInv => BooksAfterReset
  BY DEF BooksInv, Settled, JobsInv, Accounts, RegistryInv, Registry, BooksAfterReset, Known
<1>2. BooksInv /\ [ResetNext]_allVars => BooksInv'
  BY BooksInductive
<1> QED BY <1>1, <1>2, InitBooks, PTL DEF ResetSpec

-----------------------------------------------------------------------------
(* What was wiped stays away *)

(* A worker makes no job known and takes entries only from the host queues. *)
LEMMA WorkerKnown ==
  ASSUME TypeOK, NEW w \in Workers,
         TryClaim(w) \/ Handle(w) \/ Abandon(w) \/ Shutdown(w) \/ Restart(w)
  PROVE  Known' = Known /\ Held' \subseteq Held \cup queued
<1>0. jobs \in JobHashes /\ claim \in [Workers -> Entry \cup {NoEntry}]
  BY DEF TypeOK, JobHashes
<1>1. \/ jobs' = jobs
      \/ \E F \in SUBSET Entry : jobs' = finish_job(jobs, F)
      \/ \E j : jobs' = Started(jobs, j)
  <2>1. ASSUME NEW e, NEW skipped, Claim(w, e, skipped)
        PROVE  jobs' = Started(jobs, Job(e))
    BY <2>1 DEF Claim
  <2>2. Holds(w) => {claim[w]} \in SUBSET Entry
    BY <1>0 DEF Holds
  <2>3. ASSUME Handle(w)
        PROVE  jobs' = jobs \/ (Holds(w) /\ jobs' = finish_job(jobs, {claim[w]}))
    BY <2>3 DEF Handle, Push, Finish, Reject, DropCorrupt, Retry, Release, SettleStale,
                Decodable
  <2> QED BY <2>1, <2>2, <2>3 DEF TryClaim, ClaimNothing, Abandon, Shutdown, Restart
<1>2. Known' = Known
  <2> SUFFICES ASSUME NEW j \in Jobs
               PROVE  jobs'[j].status = "none" <=> jobs[j].status = "none"
    BY DEF Known
  <2> QED BY <1>0, <1>1, FinishKnown, StartedKnown
<1>3. \/ claim' = claim
      \/ claim' = [claim EXCEPT ![w] = NoEntry]
      \/ \E e \in queued : claim' = [claim EXCEPT ![w] = e]
  BY DEF TryClaim, Claim, ClaimNothing, Handle, Push, Finish, Reject, DropCorrupt, Retry, Release,
         Settle, SettleStale, Abandon, Shutdown, Restart
<1>4. Held' \subseteq Held \cup queued
  BY <1>0, <1>3 DEF Held, Holds
<1> QED BY <1>2, <1>4

(* With no entry pushed by hand, what is stored between resets belongs to a *)
(* known job.                                                               *)
LEMMA StoredKnown ==
  ASSUME BooksInv, step = "none", Foreign = {}, NEW e \in Stored
  PROVE  e \in Entry /\ Job(e) \in Known
<1>1. e \in Entry /\ jobs[Job(e)].status # "none"
  BY LiveType DEF BooksInv, Settled, JobsInv, PlaceInv, KnownTargets
<1>2. Job(e) \in Jobs
  BY <1>1, JobType DEF Job, Entry
<1> QED BY <1>1, <1>2 DEF Known

LEMMA InitOld == ResetInit => OldInv
<1> SUFFICES ASSUME ResetInit PROVE OldInv
  OBVIOUS
<1>1. Known = {} /\ Held = {} /\ old = {}
  BY DEF ResetInit, Init, Known, Held, Holds
<1> QED BY <1>1, InitBooks DEF OldInv

LEMMA OldInductive ==
  ASSUME ~SubmitDuring, Foreign = {}
  PROVE  OldInv /\ [ResetNext]_allVars => OldInv'
<1> SUFFICES ASSUME OldInv, [ResetNext]_allVars PROVE OldInv'
  OBVIOUS
<1>0. TypeOK /\ BooksInv /\ BooksInv'
  BY BooksInductive DEF OldInv, BooksInv
<1>1. CASE ResetStep
  <2>1. claim' = claim /\ used' = used /\ Held' = Held
    BY <1>1 DEF ResetStep, UnlinkLists, ScanJobs, UnlinkJobs, ScanHosts, UnlinkHosts, vars,
                Held, Holds
  <2>2. Known' \subseteq Known
    <3>1. CASE UnlinkJobs
      <4>1. ASSUME NEW j \in Jobs, jobs[j].status = "none"
            PROVE  jobs'[j].status = "none"
        BY <3>1, <4>1 DEF UnlinkJobs
      <4> QED BY <4>1 DEF Known
    <3>2. CASE ~UnlinkJobs
      <4>1. jobs' = jobs
        BY <1>1, <3>2 DEF ResetStep, UnlinkLists, ScanJobs, ScanHosts, UnlinkHosts, vars
      <4> QED BY <4>1 DEF Known
    <3> QED BY <3>1, <3>2
  <2>3. CASE UnlinkLists
    <3>1. step = "none" /\ step' # "none" /\ old' = old \cup Stored \cup Held
      BY <2>3 DEF UnlinkLists
    <3>2. \A e \in Stored : e \in Entry /\ Job(e) \in Known
      BY <1>0, <3>1, StoredKnown
    <3> QED BY <1>0, <2>1, <2>2, <3>1, <3>2 DEF OldInv
  <2>4. CASE ScanJobs \/ UnlinkJobs \/ ScanHosts
    BY <1>0, <2>1, <2>2, <2>4 DEF OldInv, ScanJobs, UnlinkJobs, ScanHosts
  <2>5. CASE UnlinkHosts
    <3>1. Known = {} /\ old' = old
      BY <1>0, <2>5 DEF UnlinkHosts, BooksInv, ScansComplete
    <3> QED BY <1>0, <2>1, <2>2, <3>1 DEF OldInv
  <2> QED BY <1>1, <2>3, <2>4, <2>5 DEF ResetStep
<1>2. ASSUME NEW w \in Workers, Worker(w)
      PROVE  OldInv'
  <2>1. TryClaim(w) \/ Handle(w) \/ Abandon(w) \/ Shutdown(w) \/ Restart(w)
    BY <1>2 DEF Worker
  <2>2. step' = step /\ old' = old /\ used' = used
    BY <1>2 DEF Worker, resetting
  <2>3. Known' = Known /\ Held' \subseteq Held \cup queued
    BY <1>0, <2>1, WorkerKnown
  <2>4. CASE step = "none"
    <3>1. \A e \in queued : e \in Entry /\ Job(e) \in used
      BY <1>0, <2>4, StoredKnown DEF OldInv, Stored, Live
    <3> QED BY <1>0, <2>2, <2>3, <3>1 DEF OldInv
  <2>5. CASE step # "none"
    <3>1. Held' \subseteq Held
      BY <1>0, <2>1, <2>5, WipedWorker DEF BooksInv
    <3> QED BY <1>0, <2>2, <2>3, <2>5, <3>1 DEF OldInv
  <2> QED BY <2>4, <2>5
<1>3. CASE UNCHANGED <<vars, resetting, used>>
  <2>1. Known' = Known /\ Held' = Held
    BY <1>3 DEF vars, Known, Held, Holds
  <2> QED BY <1>0, <1>3, <2>1 DEF OldInv, resetting
<1>4. CASE Others
  <2>1. step' = step /\ old' = old /\ used' = used \cup Known' /\ Known' \cap used \subseteq Known
    BY <1>4 DEF Others, resetting
  <2>2. claim' = claim
    <3>1. CASE Producers
      BY <3>1 DEF Producers, Submit, PushForeign, ReplayFrontier, ReplayRaw
    <3>2. CASE Parser
      BY <3>2 DEF Parser, ParserCommit, ParserDeadLetter
    <3>3. CASE Maintenance \/ Tick
      BY <3>3 DEF Maintenance, Route, Promote, Reap, Tick
    <3> QED BY <1>4, <3>1, <3>2, <3>3 DEF Others
  <2>3. Held' = Held
    BY <2>2 DEF Held, Holds
  <2> QED BY <1>0, <2>1, <2>3 DEF OldInv
<1> QED BY <1>1, <1>2, <1>3, <1>4 DEF ResetNext, IncrJobCounter, LoseCount, allVars

(* What was stored or in a worker's hands when a reset began is nowhere     *)
(* once it has ended, and neither it nor its target ever comes back: no     *)
(* settle, retry or redelivery, no promotion and no commit of the parser    *)
(* can bring it back, as long as nobody submits while a reset runs.  (An    *)
(* entry pushed by hand has no job id that would tell it from the same one  *)
(* pushed again.)                                                           *)
THEOREM OldStaysGone ==
  ASSUME ~SubmitDuring, Foreign = {}
  PROVE  ResetSpec => []OldGone
<1>1. OldInv => OldGone
  <2> SUFFICES ASSUME OldInv, step = "none", NEW e \in Stored, NEW o \in old,
                      e.target = o.target
               PROVE  FALSE
    BY DEF OldGone
  <2>1. Job(e) \in Known /\ Job(e) = Job(o)
    BY StoredKnown DEF OldInv, Job
  <2> QED BY <2>1 DEF OldInv
<1>2. OldInv /\ [ResetNext]_allVars => OldInv'
  BY OldInductive
<1> QED BY <1>1, <1>2, InitOld, PTL DEF ResetSpec

=============================================================================
