--------------------------- MODULE FrontierProofs ---------------------------
(***************************************************************************)
(* What TLAPS proves of the frontier for every number of targets, jobs,     *)
(* hosts and workers and every value of the timeouts and limits: types, the *)
(* one place of a target, leases, the scheduled gauge, the host registry    *)
(* and, for workers that settle within their lease, the host lock and the   *)
(* fence; then the job bookkeeping and the refinement of CrawlJobs.         *)
(***************************************************************************)
EXTENDS Frontier, FiniteSetTheorems, TLAPS

JobHashes == [Jobs -> [outstanding : Int, status : Status]]

-----------------------------------------------------------------------------
(* Lemmas about entries and about the job bookkeeping *)

(* There are finitely many queue entries: a target has at most MaxAttempts. *)
LEMMA EntryFinite == IsFiniteSet(Entry)
<1> DEFINE A == 0..(MaxAttempts - 1)
           P == Targets \X A
           f == [p \in P |-> [target |-> p[1], attempts |-> p[2]]]
<1>1. IsFiniteSet(A)
  BY FS_Interval, NumbersAssumption
<1>2. IsFiniteSet(P)
  BY <1>1, FS_Product, SetsAssumption
<1>3. f \in [P -> Entry]
  BY DEF Entry
<1>4. \A e \in Entry : \E p \in P : f[p] = e
  <2> TAKE e \in Entry
  <2>1. <<e.target, e.attempts>> \in P
    BY DEF Entry
  <2>2. f[<<e.target, e.attempts>>] = e
    BY <2>1 DEF Entry
  <2> QED BY <2>1, <2>2
<1>5. f \in Surjection(P, Entry)
  BY <1>3, <1>4 DEF Surjection
<1> QED BY <1>2, <1>5, FS_Surjection

LEMMA Counts ==
  ASSUME NEW S \in SUBSET Entry
  PROVE  IsFiniteSet(S) /\ Cardinality(S) \in Nat
BY EntryFinite, FS_Subset, FS_CardinalityType

LEMMA OfJobCounts ==
  ASSUME NEW S \in SUBSET Entry, NEW j
  PROVE  /\ OfJob(S, j) \in SUBSET Entry
         /\ Cardinality(OfJob(S, j)) \in Nat
BY Counts DEF OfJob

LEMMA FinishType ==
  ASSUME NEW js \in JobHashes, NEW F \in SUBSET Entry
  PROVE  finish_job(js, F) \in JobHashes
<1> SUFFICES ASSUME NEW j \in Jobs
             PROVE  finish_job(js, F)[j] \in [outstanding : Int, status : Status]
  BY DEF JobHashes, finish_job
<1>1. Cardinality(OfJob(F, j)) \in Nat
  BY OfJobCounts
<1> QED BY <1>1 DEF JobHashes, finish_job, Status

LEMMA CountInType ==
  ASSUME NEW js \in JobHashes, NEW A \in SUBSET Entry, NEW record \in BOOLEAN
  PROVE  CountIn(js, A, record) \in JobHashes
<1> SUFFICES ASSUME NEW j \in Jobs
             PROVE  CountIn(js, A, record)[j] \in [outstanding : Int, status : Status]
  BY DEF JobHashes, CountIn
<1>1. Cardinality(OfJob(A, j)) \in Nat
  BY OfJobCounts
<1> QED BY <1>1 DEF JobHashes, CountIn, Status

LEMMA FreshType ==
  ASSUME NEW t \in Targets
  PROVE  /\ Fresh(t) \in Entry
         /\ Fresh(t).target = t
BY NumbersAssumption DEF Fresh, Entry

LEMMA HostType ==
  ASSUME NEW e \in Entry
  PROVE  Host(e) \in Hosts
BY FieldsAssumption DEF Host, Entry

-----------------------------------------------------------------------------
(* Type correctness *)

LEMMA InitType == Init => TypeOK
BY NumbersAssumption, NoEntryAssumption
   DEF Init, TypeOK, Absent, Status

LEMMA ProducersType == TypeOK /\ Producers => TypeOK'
<1> SUFFICES ASSUME TypeOK, Producers PROVE TypeOK'
  OBVIOUS
<1>0. jobs \in JobHashes
  BY DEF TypeOK, JobHashes
<1>1. ASSUME NEW batch \in SUBSET Seeds, NEW force \in BOOLEAN, Submit(batch, force)
      PROVE  TypeOK'
  <2> DEFINE new == {Fresh(t) : t \in {t \in batch : force \/ UrlOf[t] \notin seen}}
  <2>1. new \in SUBSET Entry
    BY FreshType, SetsAssumption
  <2>2. jobs' \in JobHashes
    BY <1>0, <1>1, <2>1, CountInType DEF Submit
  <2>3. seen' \subseteq Urls
    BY <1>1, SetsAssumption, FieldsAssumption DEF Submit, TypeOK
  <2> QED BY <1>1, <2>1, <2>2, <2>3 DEF Submit, TypeOK, JobHashes
<1>2. ASSUME NEW t \in Foreign, PushForeign(t)
      PROVE  TypeOK'
  BY <1>2, FreshType, SetsAssumption DEF PushForeign, TypeOK
<1>3. ASSUME NEW batch \in SUBSET dead, NEW dropped \in SUBSET batch,
             ReplayFrontier(batch, dropped)
      PROVE  TypeOK'
  <2> DEFINE back == {Fresh(e.target) : e \in batch \ dropped}
  <2>1. back \in SUBSET Entry
    BY FreshType DEF TypeOK, Entry
  <2>2. jobs' \in JobHashes
    BY <1>0, <1>3, <2>1, CountInType DEF ReplayFrontier
  <2>3. replays' \in 0..MaxReplays
    BY <1>3, NumbersAssumption DEF ReplayFrontier, TypeOK
  <2> QED BY <1>3, <2>1, <2>2, <2>3 DEF ReplayFrontier, TypeOK, JobHashes
<1>4. ASSUME NEW batch \in SUBSET rawDead, NEW dropped \in SUBSET batch,
             ReplayRaw(batch, dropped)
      PROVE  TypeOK'
  <2>1. batch \ dropped \in SUBSET Entry
    BY DEF TypeOK
  <2>2. jobs' \in JobHashes
    BY <1>0, <1>4, <2>1, CountInType DEF ReplayRaw
  <2>3. replays' \in 0..MaxReplays
    BY <1>4, NumbersAssumption DEF ReplayRaw, TypeOK
  <2> QED BY <1>4, <2>1, <2>2, <2>3 DEF ReplayRaw, TypeOK, JobHashes
<1> QED BY <1>1, <1>2, <1>3, <1>4 DEF Producers

LEMMA ParserType == TypeOK /\ Parser => TypeOK'
<1> SUFFICES ASSUME TypeOK, NEW e \in raw,
                    \/ \E children \in SUBSET (Targets \ (Seeds \cup Foreign)) :
                         ParserCommit(e, children)
                    \/ ParserDeadLetter(e)
             PROVE  TypeOK'
  BY DEF Parser
<1>0. jobs \in JobHashes /\ {e} \in SUBSET Entry
  BY DEF TypeOK, JobHashes
<1>1. ASSUME NEW children \in SUBSET (Targets \ (Seeds \cup Foreign)),
             ParserCommit(e, children)
      PROVE  TypeOK'
  <2> DEFINE new == {Fresh(t) : t \in children}
  <2>1. new \in SUBSET Entry
    BY FreshType
  <2>2. CountIn(jobs, new, FALSE) \in JobHashes
    BY <1>0, <2>1, CountInType
  <2>3. jobs' \in JobHashes
    BY <1>0, <1>1, <2>2, FinishType DEF ParserCommit
  <2>4. seen' \subseteq Urls
    BY <1>1, FieldsAssumption DEF ParserCommit, TypeOK
  <2> QED BY <1>1, <2>1, <2>3, <2>4 DEF ParserCommit, TypeOK, JobHashes
<1>2. CASE ParserDeadLetter(e)
  <2>1. jobs' \in JobHashes
    BY <1>0, <1>2, FinishType DEF ParserDeadLetter
  <2> QED BY <1>0, <1>2, <2>1 DEF ParserDeadLetter, TypeOK, JobHashes
<1> QED BY <1>1, <1>2

LEMMA MaintenanceType == TypeOK /\ (Maintenance \/ Tick) => TypeOK'
<1> SUFFICES ASSUME TypeOK, Maintenance \/ Tick PROVE TypeOK'
  OBVIOUS
<1>0. jobs \in JobHashes
  BY DEF TypeOK, JobHashes
<1>1. ASSUME NEW batch \in SUBSET ingest, Route(batch)
      PROVE  TypeOK'
  <2> DEFINE moved == (batch \ {e \in batch : e.target \in Foreign}) \ queued
  <2>1. moved \in SUBSET Entry /\ batch \ moved \in SUBSET Entry
    BY DEF TypeOK
  <2>2. jobs' \in JobHashes
    BY <1>0, <1>1, <2>1, FinishType DEF Route
  <2>3. scheduled' \in Int
    BY <1>1, <2>1, Counts DEF Route, TypeOK
  <2>4. hosts' \in [Hosts -> Absent..(Visibility + HostGap)]
    BY <1>1, NumbersAssumption DEF Route, TypeOK, Absent
  <2> QED BY <1>1, <2>1, <2>2, <2>3, <2>4 DEF Route, TypeOK, JobHashes
<1>2. ASSUME NEW batch \in SUBSET DelayedSet, Promote(batch)
      PROVE  TypeOK'
  <2>1. delayed' \in [Entry -> Absent..Backoff]
    BY <1>2, NumbersAssumption DEF Promote, TypeOK, Absent
  <2> QED BY <1>2, <2>1 DEF Promote, TypeOK, DelayedSet
<1>3. CASE Reap
  <2>1. Expired \in SUBSET Entry /\ Exhausted \in SUBSET Entry
    BY DEF Expired, Exhausted, TypeOK
  <2>2. jobs' \in JobHashes
    BY <1>0, <1>3, <2>1, FinishType DEF Reap
  <2>3. lease' \in [Entry -> Absent..Visibility]
    BY <1>3, NumbersAssumption DEF Reap, TypeOK, Absent
  <2>4. redeliveries' \in [Entry -> 0..MaxRedeliveries]
    BY <1>3, NumbersAssumption DEF Reap, TypeOK, Expired, Exhausted, Redelivered
  <2>5. holder' \in [Entry -> Workers \cup {NoWorker}]
    BY <1>3 DEF Reap, TypeOK
  <2> QED BY <1>3, <2>1, <2>2, <2>3, <2>4, <2>5 DEF Reap, TypeOK, JobHashes
<1>4. CASE Tick
  <2>1. \A m \in Nat : \A n \in Absent..m : Dec(n) \in Absent..m
    BY DEF Dec, Absent
  <2>2. lease' \in [Entry -> Absent..Visibility]
    BY <1>4, <2>1, NumbersAssumption DEF Tick, TypeOK
  <2>3. hosts' \in [Hosts -> Absent..(Visibility + HostGap)]
    BY <1>4, <2>1, NumbersAssumption DEF Tick, TypeOK
  <2>4. delayed' \in [Entry -> Absent..Backoff]
    BY <1>4, <2>1, NumbersAssumption DEF Tick, TypeOK
  <2> QED BY <1>4, <2>2, <2>3, <2>4 DEF Tick, TypeOK
<1> QED BY <1>1, <1>2, <1>3, <1>4 DEF Maintenance

LEMMA ClaimType ==
  ASSUME TypeOK, NEW w \in Workers, TryClaim(w)
  PROVE  TypeOK'
<1>1. ASSUME NEW e \in queued, NEW skipped \in SUBSET EmptyReady, Claim(w, e, skipped)
      PROVE  TypeOK'
  <2>1. e \in Entry
    BY DEF TypeOK
  <2>2. jobs' \in JobHashes
    BY <1>1 DEF Claim, Started, TypeOK, JobHashes, Status
  <2>3. hosts' \in [Hosts -> Absent..(Visibility + HostGap)]
    BY <1>1, NumbersAssumption DEF Claim, HostLock, TypeOK, Absent
  <2>4. lease' \in [Entry -> Absent..Visibility]
    BY <1>1, <2>1, NumbersAssumption DEF Claim, TypeOK, Absent
  <2>5. scheduled' \in Int
    BY <1>1 DEF Claim, TypeOK
  <2> QED BY <1>1, <2>1, <2>2, <2>3, <2>4, <2>5 DEF Claim, TypeOK, JobHashes
<1>2. ASSUME NEW skipped \in SUBSET EmptyReady, ClaimNothing(w, skipped)
      PROVE  TypeOK'
  <2>1. hosts' \in [Hosts -> Absent..(Visibility + HostGap)]
    BY <1>2, NumbersAssumption DEF ClaimNothing, TypeOK, Absent
  <2> QED BY <1>2, <2>1 DEF ClaimNothing, TypeOK, stores
<1> QED BY <1>1, <1>2 DEF TryClaim

(* What every committed outcome leaves well typed. *)
LEMMA SettleType ==
  ASSUME TypeOK, NEW w \in Workers, NEW gap \in {0, HostGap}, Settle(w, gap)
  PROVE  /\ claim[w] \in Entry
         /\ processing' \subseteq Entry
         /\ lease' \in [Entry -> Absent..Visibility]
         /\ redeliveries' \in [Entry -> 0..MaxRedeliveries]
         /\ hosts' \in [Hosts -> Absent..(Visibility + HostGap)]
         /\ claim' \in [Workers -> Entry \cup {NoEntry}]
         /\ holder' \in [Entry -> Workers \cup {NoWorker}]
         /\ UNCHANGED <<queued, rawDead, scheduled, seen, stopping, shutdowns, replays>>
<1>1. claim[w] \in Entry
  BY DEF Settle, Holds, TypeOK
<1>2. lease' \in [Entry -> Absent..Visibility]
  BY <1>1, NumbersAssumption DEF Settle, TypeOK, Absent
<1>3. redeliveries' \in [Entry -> 0..MaxRedeliveries]
  BY <1>1, NumbersAssumption DEF Settle, Forget, TypeOK
<1>4. hosts' \in [Hosts -> Absent..(Visibility + HostGap)]
  BY <1>1, HostType, NumbersAssumption DEF Settle, TypeOK, Absent
<1> QED BY <1>1, <1>2, <1>3, <1>4 DEF Settle, TypeOK

LEMMA HandleType ==
  ASSUME TypeOK, NEW w \in Workers, Handle(w)
  PROVE  TypeOK'
<1>0. jobs \in JobHashes
  BY DEF TypeOK, JobHashes
<1> DEFINE e == claim[w]
<1>a. ASSUME NEW gap \in {0, HostGap}, Settle(w, gap), jobs' = finish_job(jobs, {e})
      PROVE  jobs' \in JobHashes
  BY <1>0, <1>a, SettleType, FinishType
<1>1. CASE Push(w)
  BY <1>1, SettleType DEF Push, TypeOK
<1>2. ASSUME NEW gap \in {0, HostGap}, Finish(w, gap)
      PROVE  TypeOK'
  <2>1. jobs' \in JobHashes
    BY <1>2, <1>a DEF Finish
  <2> QED BY <1>2, <2>1, SettleType DEF Finish, TypeOK, JobHashes
<1>3. CASE Reject(w)
  <2>1. jobs' \in JobHashes
    BY <1>3, <1>a DEF Reject
  <2> QED BY <1>3, <2>1, SettleType DEF Reject, TypeOK, JobHashes
<1>4. CASE DropCorrupt(w)
  BY <1>4, SettleType DEF DropCorrupt, TypeOK
<1>5. ASSUME NEW wait \in 1..Backoff, Retry(w, wait)
      PROVE  TypeOK'
  <2> DEFINE next == [e EXCEPT !.attempts = @ + 1]
  <2>1. Settle(w, HostGap) /\ e \in Entry
    BY <1>5, SettleType DEF Retry
  <2>2. CASE next.attempts >= MaxAttempts
    <3>1. dead' = dead \cup {e} /\ jobs' = finish_job(jobs, {e})
          /\ UNCHANGED <<delayed, ingest, raw>>
      BY <1>5, <2>2 DEF Retry
    <3>2. jobs' \in JobHashes
      BY <2>1, <3>1, <1>a
    <3> QED BY <2>1, <3>1, <3>2, SettleType DEF TypeOK, JobHashes
  <2>3. CASE ~(next.attempts >= MaxAttempts)
    <3>1. delayed' = [delayed EXCEPT ![next] = wait] /\ UNCHANGED <<dead, jobs, ingest, raw>>
      BY <1>5, <2>3 DEF Retry
    <3>2. next \in Entry
      BY <2>1, <2>3, NumbersAssumption DEF Entry
    <3>3. delayed' \in [Entry -> Absent..Backoff]
      BY <3>1, <3>2, NumbersAssumption DEF TypeOK, Absent
    <3> QED BY <2>1, <3>1, <3>3, SettleType DEF TypeOK
  <2> QED BY <2>2, <2>3
<1>6. CASE Release(w)
  BY <1>6, SettleType DEF Release, TypeOK
<1>7. CASE SettleStale(w)
  BY <1>7 DEF SettleStale, TypeOK, stores
<1> QED BY <1>1, <1>2, <1>3, <1>4, <1>5, <1>6, <1>7 DEF Handle

LEMMA ProcessType ==
  ASSUME TypeOK, NEW w \in Workers, Abandon(w) \/ Shutdown(w) \/ Restart(w)
  PROVE  TypeOK'
<1>1. CASE Abandon(w)
  BY <1>1 DEF Abandon, Holds, TypeOK, stores
<1>2. CASE Shutdown(w)
  <2>1. shutdowns' \in 0..MaxShutdowns
    BY <1>2, NumbersAssumption DEF Shutdown, TypeOK
  <2> QED BY <1>2, <2>1 DEF Shutdown, TypeOK, stores
<1>3. CASE Restart(w)
  BY <1>3 DEF Restart, TypeOK, stores
<1> QED BY <1>1, <1>2, <1>3

LEMMA TypeInductive == TypeOK /\ [Next]_vars => TypeOK'
<1> SUFFICES ASSUME TypeOK, [Next]_vars PROVE TypeOK'
  OBVIOUS
<1>1. CASE UNCHANGED vars
  BY <1>1 DEF vars, stores, TypeOK
<1>2. CASE Producers \/ Parser
  BY <1>2, ProducersType, ParserType
<1>3. ASSUME NEW w \in Workers,
             TryClaim(w) \/ Handle(w) \/ Abandon(w) \/ Shutdown(w) \/ Restart(w)
      PROVE  TypeOK'
  BY <1>3, ClaimType, HandleType, ProcessType
<1>4. CASE Maintenance \/ Tick
  BY <1>4, MaintenanceType
<1> QED BY <1>1, <1>2, <1>3, <1>4 DEF Next

(* Every store, timer and counter stays within its range: in particular no  *)
(* redelivery count passes MAX_REDELIVERIES and no attempt count            *)
(* MAX_ATTEMPTS.                                                            *)
THEOREM TypeCorrect == Spec => []TypeOK
BY InitType, TypeInductive, PTL DEF Spec

-----------------------------------------------------------------------------
(* One place.  OnePlace is inductive together with what the seen filter and *)
(* the job hashes know of every stored target: a producer's guard is about  *)
(* those, not about the queues.                                             *)

KnownTargets ==
  \A e \in Stored : e.target \notin Foreign =>
    /\ UrlOf[e.target] \in seen
    /\ jobs[Job(e)].status # "none"

PlaceInv == TypeOK /\ OnePlace /\ KnownTargets

JobsKeep(js, kept) ==
  \A j \in Jobs : js[j].status # "none" => kept[j].status # "none"

LEMMA FinishKeeps ==
  ASSUME NEW js \in JobHashes, NEW F \in SUBSET Entry
  PROVE  JobsKeep(js, finish_job(js, F))
BY DEF JobsKeep, finish_job, JobHashes

LEMMA CountInKeeps ==
  ASSUME NEW js \in JobHashes, NEW A \in SUBSET Entry, NEW record \in BOOLEAN
  PROVE  JobsKeep(js, CountIn(js, A, record))
BY DEF JobsKeep, CountIn, JobHashes

(* A job of which an entry is counted in has a hash afterwards. *)
LEMMA CountInCreates ==
  ASSUME NEW js \in JobHashes, NEW A \in SUBSET Entry, NEW record \in BOOLEAN,
         NEW e \in A, Job(e) \in Jobs,
         record \/ js[Job(e)].status # "none"
  PROVE  CountIn(js, A, record)[Job(e)].status # "none"
<1>1. e \in OfJob(A, Job(e))
  BY DEF OfJob
<1> QED BY <1>1 DEF CountIn, JobHashes

LEMMA JobType ==
  ASSUME NEW t \in Targets, t \notin Foreign
  PROVE  JobOf[t] \in Jobs
BY FieldsAssumption, SetsAssumption

(* A step that only moves or removes entries, each to one place. *)
LEMMA MovesKeepKnown ==
  ASSUME PlaceInv, Stored' \subseteq Stored, seen \subseteq seen', JobsKeep(jobs, jobs')
  PROVE  /\ KnownTargets'
         /\ \A e, f \in Stored' : e.target = f.target => e = f
<1>1. \A e \in Stored : e \in Entry
  BY DEF PlaceInv, TypeOK, Stored, Live, DelayedSet
<1>2. \A e \in Entry : e.target \notin Foreign => Job(e) \in Jobs
  BY JobType DEF Entry, Job
<1> QED BY <1>1, <1>2 DEF PlaceInv, OnePlace, KnownTargets, JobsKeep, Job

LEMMA InitPlace == Init => PlaceInv
BY InitType DEF Init, PlaceInv, OnePlace, KnownTargets, Stored, Live, DelayedSet

(* A producer's new targets are stored nowhere. *)
LEMMA SubmitPlace ==
  ASSUME PlaceInv, NEW batch \in SUBSET Seeds, NEW force \in BOOLEAN,
         Submit(batch, force), TypeOK'
  PROVE  PlaceInv'
<1> DEFINE new == {Fresh(t) : t \in {t \in batch : force \/ UrlOf[t] \notin seen}}
<1>0. jobs \in JobHashes
  BY DEF PlaceInv, TypeOK, JobHashes
<1>1. \A e \in new : e \in Entry /\ e.target \in batch /\ e = Fresh(e.target)
                     /\ e.target \in Targets /\ e.target \notin Foreign
  BY FreshType, SetsAssumption
<1>2. new \in SUBSET Entry
  BY <1>1
<1>3. \A e \in new : \A f \in Stored : e.target # f.target
  BY <1>1, JobType DEF Submit, PlaceInv, KnownTargets, Job
<1>4. ingest' = ingest \cup new /\ jobs' = CountIn(jobs, new, TRUE)
      /\ seen' = seen \cup {UrlOf[t] : t \in batch}
      /\ UNCHANGED <<queued, processing, delayed, dead, raw, rawDead>>
  BY DEF Submit
<1>5. Stored' = Stored \cup new /\ DelayedSet' = DelayedSet
  BY <1>4 DEF Stored, Live, DelayedSet
<1>6. OnePlace'
  <2>1. \A e, f \in Stored' : e.target = f.target => e = f
    BY <1>1, <1>3, <1>5 DEF PlaceInv, OnePlace
  <2>2. new \cap Stored = {}
    BY <1>3
  <2> QED BY <2>1, <2>2, <1>4, <1>5 DEF PlaceInv, OnePlace, Stored, Live
<1>7. KnownTargets'
  <2>1. ASSUME NEW e \in new
        PROVE  UrlOf[e.target] \in seen' /\ jobs'[Job(e)].status # "none"
    BY <1>0, <1>1, <1>2, <1>4, CountInCreates, JobType DEF Job
  <2>2. ASSUME NEW e \in Stored, e.target \notin Foreign
        PROVE  UrlOf[e.target] \in seen' /\ jobs'[Job(e)].status # "none"
    <3>1. Job(e) \in Jobs
      BY <2>2, JobType DEF PlaceInv, TypeOK, Stored, Live, DelayedSet, Entry, Job
    <3> QED BY <3>1, <2>2, <1>0, <1>2, <1>4, CountInKeeps DEF PlaceInv, KnownTargets, JobsKeep
  <2> QED BY <2>1, <2>2, <1>5 DEF KnownTargets, Job
<1> QED BY <1>6, <1>7 DEF PlaceInv

LEMMA CommitPlace ==
  ASSUME PlaceInv, NEW e \in raw, NEW children \in SUBSET (Targets \ (Seeds \cup Foreign)),
         ParserCommit(e, children), TypeOK'
  PROVE  PlaceInv'
<1> DEFINE new == {Fresh(t) : t \in children}
           counted == CountIn(jobs, new, FALSE)
<1>0. jobs \in JobHashes /\ e \in Entry
  BY DEF PlaceInv, TypeOK, JobHashes
<1>1. \A n \in new : n \in Entry /\ n.target \in children /\ n = Fresh(n.target)
                     /\ n.target \in Targets /\ n.target \notin Foreign
  BY FreshType
<1>2. new \in SUBSET Entry
  BY <1>1
<1>3. \A n \in new : \A f \in Stored : n.target # f.target
  BY <1>1 DEF ParserCommit, PlaceInv, KnownTargets
<1>4. raw' = raw \ {e} /\ ingest' = ingest \cup new
      /\ jobs' = finish_job(counted, {e})
      /\ seen' = seen \cup {UrlOf[t] : t \in children}
      /\ UNCHANGED <<queued, processing, delayed, dead, rawDead>>
  BY DEF ParserCommit
<1>5. Stored' \subseteq Stored \cup new /\ DelayedSet' = DelayedSet
  BY <1>4 DEF Stored, Live, DelayedSet
<1>6. OnePlace'
  <2>1. \A n, f \in Stored' : n.target = f.target => n = f
    BY <1>1, <1>3, <1>5 DEF PlaceInv, OnePlace
  <2>2. new \cap Stored = {}
    BY <1>3
  <2> QED BY <2>1, <2>2, <1>4, <1>5 DEF PlaceInv, OnePlace, Stored, Live
<1>7. KnownTargets'
  <2>1. counted \in JobHashes /\ JobsKeep(jobs, counted) /\ JobsKeep(counted, jobs')
    BY <1>0, <1>2, <1>4, CountInType, CountInKeeps, FinishKeeps
  <2>2. JobsKeep(jobs, jobs')
    BY <2>1 DEF JobsKeep
  <2>3. ASSUME NEW f \in Stored, f.target \notin Foreign
        PROVE  UrlOf[f.target] \in seen' /\ jobs'[Job(f)].status # "none"
    <3>1. Job(f) \in Jobs
      BY <2>3, JobType DEF PlaceInv, TypeOK, Stored, Live, DelayedSet, Entry, Job
    <3> QED BY <3>1, <2>2, <2>3, <1>4 DEF PlaceInv, KnownTargets, JobsKeep
  <2>4. ASSUME NEW n \in new
        PROVE  UrlOf[n.target] \in seen' /\ jobs'[Job(n)].status # "none"
    <3>1. Job(n) = Job(e) /\ Job(n) \in Jobs
      BY <1>1, JobType DEF ParserCommit, Job
    <3>2. e \in Stored /\ e.target \notin Foreign
      BY <3>1, <1>0, SetsAssumption, FieldsAssumption DEF Stored, Live, Job, Entry
    <3> QED BY <3>1, <3>2, <2>3, <1>1, <1>4
  <2> QED BY <2>3, <2>4, <1>5 DEF KnownTargets, Job
<1> QED BY <1>6, <1>7 DEF PlaceInv

LEMMA ReplayPlace ==
  ASSUME PlaceInv, NEW batch \in SUBSET dead, NEW dropped \in SUBSET batch,
         ReplayFrontier(batch, dropped), TypeOK'
  PROVE  PlaceInv'
<1> DEFINE back == {Fresh(e.target) : e \in batch \ dropped}
<1>0. jobs \in JobHashes /\ \A e \in Stored : e \in Entry
  BY DEF PlaceInv, TypeOK, JobHashes, Stored, Live, DelayedSet
<1>1. \A n \in back : n \in Entry /\ n = Fresh(n.target)
                      /\ \E e \in batch : e.target = n.target
  BY <1>0, FreshType DEF Stored, Entry
<1>2. dead' = dead \ batch /\ ingest' = ingest \cup back
      /\ jobs' = CountIn(jobs, back, FALSE)
      /\ UNCHANGED <<queued, processing, delayed, raw, rawDead, seen>>
  BY DEF ReplayFrontier
<1>3. Stored' = (Stored \ batch) \cup back /\ DelayedSet' = DelayedSet
  BY <1>2 DEF Stored, Live, DelayedSet, PlaceInv, OnePlace
<1>4. \A n \in back : \A f \in Stored \ batch : n.target # f.target
  BY <1>1 DEF PlaceInv, OnePlace, Stored
<1>5. OnePlace'
  <2>1. \A n, f \in Stored' : n.target = f.target => n = f
    BY <1>1, <1>3, <1>4 DEF PlaceInv, OnePlace
  <2>2. back \cap (Stored \ batch) = {}
    BY <1>4
  <2> QED BY <2>1, <2>2, <1>2, <1>3 DEF PlaceInv, OnePlace, Stored, Live
<1>6. KnownTargets'
  <2>1. JobsKeep(jobs, jobs')
    BY <1>0, <1>1, <1>2, CountInKeeps
  <2>2. \A e \in Stored : e.target \notin Foreign => Job(e) \in Jobs
    BY <1>0, JobType DEF Entry, Job
  <2>3. \A n \in Stored' : \E e \in Stored : e.target = n.target
    BY <1>1, <1>3 DEF Stored
  <2> QED BY <1>2, <2>1, <2>2, <2>3 DEF PlaceInv, KnownTargets, JobsKeep, Job
<1> QED BY <1>5, <1>6 DEF PlaceInv

LEMMA ProducersPlace ==
  ASSUME PlaceInv, Producers, TypeOK'
  PROVE  PlaceInv'
<1>0. jobs \in JobHashes
  BY DEF PlaceInv, TypeOK, JobHashes
<1>1. ASSUME NEW t \in Foreign, PushForeign(t)
      PROVE  PlaceInv'
  <2>1. t \in Targets /\ Fresh(t) \in Entry /\ Fresh(t).target = t
    BY FreshType, SetsAssumption
  <2>2. Stored' = Stored \cup {Fresh(t)} /\ DelayedSet' = DelayedSet
    BY <1>1 DEF PushForeign, Stored, Live, DelayedSet
  <2>3. \A f \in Stored : f.target # t
    BY <1>1 DEF PushForeign
  <2>4. OnePlace'
    <3>1. \A n, f \in Stored' : n.target = f.target => n = f
      BY <2>1, <2>2, <2>3 DEF PlaceInv, OnePlace
    <3>2. Fresh(t) \notin Stored
      BY <2>1, <2>3
    <3> QED BY <3>1, <3>2, <2>2, <1>1 DEF PushForeign, PlaceInv, OnePlace, Stored, Live
  <2>5. KnownTargets'
    BY <2>1, <2>2, <1>1 DEF PushForeign, PlaceInv, KnownTargets, Job
  <2> QED BY <2>4, <2>5 DEF PlaceInv
<1>2. ASSUME NEW batch \in SUBSET rawDead, NEW dropped \in SUBSET batch,
             ReplayRaw(batch, dropped)
      PROVE  PlaceInv'
  <2>1. JobsKeep(jobs, jobs')
    BY <1>0, <1>2, CountInKeeps DEF ReplayRaw, PlaceInv, TypeOK
  <2>2. Stored' \subseteq Stored /\ DelayedSet' = DelayedSet
    BY <1>2 DEF ReplayRaw, Stored, Live, DelayedSet
  <2>3. KnownTargets' /\ \A e, f \in Stored' : e.target = f.target => e = f
    BY <1>2, <2>1, <2>2, MovesKeepKnown DEF ReplayRaw
  <2> QED BY <1>2, <2>2, <2>3 DEF ReplayRaw, PlaceInv, OnePlace
<1> QED BY <1>1, <1>2, SubmitPlace, ReplayPlace DEF Producers

LEMMA ParserPlace ==
  ASSUME PlaceInv, Parser, TypeOK'
  PROVE  PlaceInv'
<1>1. ASSUME NEW e \in raw, ParserDeadLetter(e)
      PROVE  PlaceInv'
  <2>1. JobsKeep(jobs, jobs')
    BY <1>1, FinishKeeps DEF ParserDeadLetter, PlaceInv, TypeOK, JobHashes
  <2>2. Stored' \subseteq Stored /\ DelayedSet' = DelayedSet
    BY <1>1 DEF ParserDeadLetter, Stored, Live, DelayedSet
  <2>3. KnownTargets' /\ \A d, f \in Stored' : d.target = f.target => d = f
    BY <1>1, <2>1, <2>2, MovesKeepKnown DEF ParserDeadLetter
  <2> QED BY <1>1, <2>2, <2>3 DEF ParserDeadLetter, PlaceInv, OnePlace
<1> QED BY <1>1, CommitPlace DEF Parser

(* Time only makes members due, it removes none. *)
LEMMA TickKeepsMembers ==
  ASSUME TypeOK, Tick
  PROVE  DelayedSet' = DelayedSet
<1>1. \A n \in Absent..Backoff : Dec(n) = Absent <=> n = Absent
  BY NumbersAssumption DEF Dec, Absent
<1>2. delayed' = [e \in Entry |-> Dec(delayed[e])]
  BY DEF Tick
<1> QED BY <1>1, <1>2 DEF DelayedSet, TypeOK

LEMMA MaintenancePlace ==
  ASSUME PlaceInv, Maintenance \/ Tick, TypeOK'
  PROVE  PlaceInv'
<1>0. jobs \in JobHashes
  BY DEF PlaceInv, TypeOK, JobHashes
<1>1. ASSUME NEW batch \in SUBSET ingest, Route(batch)
      PROVE  PlaceInv'
  <2>1. JobsKeep(jobs, jobs')
    BY <1>0, <1>1, FinishKeeps DEF Route, PlaceInv, TypeOK
  <2>2. Stored' \subseteq Stored /\ DelayedSet' = DelayedSet
    BY <1>1 DEF Route, Stored, Live, DelayedSet
  <2>3. KnownTargets' /\ \A e, f \in Stored' : e.target = f.target => e = f
    BY <1>1, <2>1, <2>2, MovesKeepKnown DEF Route
  <2> QED BY <1>1, <2>2, <2>3 DEF Route, PlaceInv, OnePlace
<1>2. ASSUME NEW batch \in SUBSET DelayedSet, Promote(batch)
      PROVE  PlaceInv'
  <2>1. DelayedSet' = DelayedSet \ batch
    BY <1>2 DEF Promote, DelayedSet, PlaceInv, TypeOK
  <2>2. Stored' \subseteq Stored
    BY <1>2, <2>1 DEF Promote, Stored, Live
  <2>3. JobsKeep(jobs, jobs') /\ UNCHANGED <<seen, queued, processing, dead, raw, rawDead>>
    BY <1>2 DEF Promote, JobsKeep
  <2>4. KnownTargets' /\ \A e, f \in Stored' : e.target = f.target => e = f
    BY <2>2, <2>3, MovesKeepKnown
  <2> QED BY <1>2, <2>1, <2>3, <2>4 DEF Promote, PlaceInv, OnePlace
<1>3. CASE Reap
  <2>1. Expired \subseteq processing /\ Exhausted \subseteq Expired
    BY DEF Expired, Exhausted
  <2>2. JobsKeep(jobs, jobs')
    BY <1>0, <1>3, <2>1, FinishKeeps DEF Reap, PlaceInv, TypeOK
  <2>3. processing' = processing \ Expired /\ dead' = dead \cup Exhausted
        /\ ingest' = ingest \cup (Expired \ Exhausted)
        /\ UNCHANGED <<queued, delayed, raw, rawDead, seen>>
    BY <1>3 DEF Reap
  <2>4. Stored' \subseteq Stored /\ DelayedSet' = DelayedSet
    BY <2>1, <2>3 DEF Stored, Live, DelayedSet
  <2>5. KnownTargets' /\ \A e, f \in Stored' : e.target = f.target => e = f
    BY <2>2, <2>3, <2>4, MovesKeepKnown
  <2> QED BY <2>1, <2>3, <2>4, <2>5 DEF PlaceInv, OnePlace
<1>4. CASE Tick
  <2>1. DelayedSet' = DelayedSet
    BY <1>4, TickKeepsMembers DEF PlaceInv
  <2>2. UNCHANGED <<ingest, queued, processing, dead, raw, rawDead, seen, jobs>>
    BY <1>4 DEF Tick
  <2> QED BY <2>1, <2>2 DEF PlaceInv, OnePlace, KnownTargets, Stored, Live
<1> QED BY <1>1, <1>2, <1>3, <1>4 DEF Maintenance

(* A committed outcome takes the entry out of processing, and only there.   *)
LEMMA SettlePlace ==
  ASSUME PlaceInv, NEW w \in Workers, NEW gap, Settle(w, gap)
  PROVE  /\ claim[w] \in Entry /\ claim[w] \in processing
         /\ processing' = processing \ {claim[w]}
         /\ UNCHANGED <<queued, rawDead, seen>>
BY DEF Settle, Holds, Ours, PlaceInv, TypeOK

LEMMA HandlePlace ==
  ASSUME PlaceInv, NEW w \in Workers, Handle(w), TypeOK'
  PROVE  PlaceInv'
<1> DEFINE e == claim[w]
<1>0. jobs \in JobHashes
  BY DEF PlaceInv, TypeOK, JobHashes
<1>k. ASSUME e \in Entry, jobs' = jobs \/ jobs' = finish_job(jobs, {e})
      PROVE  JobsKeep(jobs, jobs')
  <2>1. JobsKeep(jobs, finish_job(jobs, {e}))
    BY <1>0, <1>k, FinishKeeps
  <2> QED BY <1>k, <2>1 DEF JobsKeep
(* Every outcome but a retry moves the entry to at most one other place. *)
<1>m. ASSUME NEW gap, Settle(w, gap), jobs' = jobs \/ jobs' = finish_job(jobs, {e}),
             UNCHANGED delayed,
             \/ raw' = raw \cup {e} /\ UNCHANGED <<ingest, dead>>
             \/ dead' = dead \cup {e} /\ UNCHANGED <<ingest, raw>>
             \/ ingest' = ingest \cup {e} /\ UNCHANGED <<raw, dead>>
             \/ UNCHANGED <<ingest, raw, dead>>
      PROVE  PlaceInv'
  <2>1. /\ e \in Entry /\ e \in processing /\ processing' = processing \ {e}
        /\ UNCHANGED <<queued, rawDead, seen>>
    BY <1>m, SettlePlace
  <2>2. JobsKeep(jobs, jobs')
    BY <1>k, <1>m, <2>1
  <2>3. DelayedSet' = DelayedSet
    BY <1>m DEF DelayedSet
  <2>4. Stored' \subseteq Stored
    BY <1>m, <2>1, <2>3 DEF Stored, Live
  <2>5. KnownTargets' /\ \A d, f \in Stored' : d.target = f.target => d = f
    BY <2>1, <2>2, <2>4, MovesKeepKnown
  <2>6. OnePlace'
    BY <1>m, <2>1, <2>3, <2>5 DEF PlaceInv, OnePlace
  <2> QED BY <2>5, <2>6 DEF PlaceInv
<1>1. CASE Push(w)
  BY <1>1, <1>m DEF Push
<1>2. ASSUME NEW gap \in {0, HostGap}, Finish(w, gap)
      PROVE  PlaceInv'
  BY <1>2, <1>m DEF Finish
<1>3. CASE Reject(w)
  BY <1>3, <1>m DEF Reject
<1>4. CASE DropCorrupt(w)
  BY <1>4, <1>m DEF DropCorrupt
<1>5. ASSUME NEW wait \in 1..Backoff, Retry(w, wait)
      PROVE  PlaceInv'
  <2> DEFINE next == [e EXCEPT !.attempts = @ + 1]
  <2>1. Settle(w, HostGap) /\ UNCHANGED <<ingest, raw>>
    BY <1>5 DEF Retry
  <2>2. CASE next.attempts >= MaxAttempts
    BY <1>5, <2>1, <2>2, <1>m DEF Retry
  <2>3. CASE ~(next.attempts >= MaxAttempts)
    <3>1. delayed' = [delayed EXCEPT ![next] = wait] /\ UNCHANGED <<dead, jobs>>
      BY <1>5, <2>3 DEF Retry
    <3>2. /\ e \in Entry /\ e \in processing /\ processing' = processing \ {e}
          /\ UNCHANGED <<queued, rawDead, seen>>
      BY <2>1, SettlePlace
    <3>3. next \in Entry /\ next.target = e.target /\ next # e
      BY <3>2, <2>3, NumbersAssumption DEF Entry
    <3>4. DelayedSet' = DelayedSet \cup {next}
      BY <3>1, <3>3, NumbersAssumption DEF DelayedSet, PlaceInv, TypeOK, Absent
    <3>5. e \in Stored /\ e \notin Stored' /\ Stored' = (Stored \ {e}) \cup {next}
      BY <2>1, <3>1, <3>2, <3>3, <3>4 DEF Stored, Live, PlaceInv, OnePlace
    <3>6. \A f \in Stored \ {e} : f.target # next.target
      BY <3>3, <3>5 DEF PlaceInv, OnePlace
    <3>7. OnePlace'
      <4>1. \A d, f \in Stored' : d.target = f.target => d = f
        BY <3>5, <3>6 DEF PlaceInv, OnePlace
      <4>2. next \notin Stored
        BY <3>3, <3>6 DEF Stored
      <4> QED BY <4>1, <4>2, <2>1, <3>1, <3>2, <3>4 DEF PlaceInv, OnePlace, Stored, Live
    <3>8. KnownTargets'
      BY <3>1, <3>2, <3>3, <3>5 DEF PlaceInv, KnownTargets, Job
    <3> QED BY <3>7, <3>8 DEF PlaceInv
  <2> QED BY <2>2, <2>3
<1>6. CASE Release(w)
  BY <1>6, <1>m DEF Release
<1>7. CASE SettleStale(w)
  BY <1>7 DEF SettleStale, stores, PlaceInv, OnePlace, KnownTargets, Stored, Live, DelayedSet
<1> QED BY <1>1, <1>2, <1>3, <1>4, <1>5, <1>6, <1>7 DEF Handle

LEMMA WorkerPlace ==
  ASSUME PlaceInv, NEW w \in Workers,
         TryClaim(w) \/ Handle(w) \/ Abandon(w) \/ Shutdown(w) \/ Restart(w), TypeOK'
  PROVE  PlaceInv'
<1>1. ASSUME NEW e \in queued, NEW skipped \in SUBSET EmptyReady, Claim(w, e, skipped)
      PROVE  PlaceInv'
  <2>1. JobsKeep(jobs, jobs')
    BY <1>1 DEF Claim, Started, JobsKeep, PlaceInv, TypeOK
  <2>2. Stored' \subseteq Stored /\ DelayedSet' = DelayedSet
    BY <1>1 DEF Claim, Stored, Live, DelayedSet
  <2>3. KnownTargets' /\ \A d, f \in Stored' : d.target = f.target => d = f
    BY <1>1, <2>1, <2>2, MovesKeepKnown DEF Claim
  <2> QED BY <1>1, <2>2, <2>3 DEF Claim, PlaceInv, OnePlace
<1>2. ASSUME UNCHANGED <<stores, seen, jobs>>
      PROVE  PlaceInv'
  BY <1>2 DEF stores, PlaceInv, OnePlace, KnownTargets, Stored, Live, DelayedSet
<1>3. ASSUME NEW skipped \in SUBSET EmptyReady, ClaimNothing(w, skipped)
      PROVE  PlaceInv'
  BY <1>2, <1>3 DEF ClaimNothing
<1>4. CASE Abandon(w) \/ Shutdown(w) \/ Restart(w)
  BY <1>2, <1>4 DEF Abandon, Shutdown, Restart
<1> QED BY <1>1, <1>3, <1>4, HandlePlace DEF TryClaim

LEMMA PlaceInductive == PlaceInv /\ [Next]_vars => PlaceInv'
<1> SUFFICES ASSUME PlaceInv, [Next]_vars PROVE PlaceInv'
  OBVIOUS
<1>0. TypeOK'
  BY TypeInductive DEF PlaceInv
<1>1. CASE UNCHANGED vars
  BY <1>1, <1>0 DEF vars, stores, PlaceInv, OnePlace, KnownTargets, Stored, Live, DelayedSet
<1>2. CASE Producers \/ Parser
  BY <1>0, <1>2, ProducersPlace, ParserPlace
<1>3. ASSUME NEW w \in Workers,
             TryClaim(w) \/ Handle(w) \/ Abandon(w) \/ Shutdown(w) \/ Restart(w)
      PROVE  PlaceInv'
  BY <1>0, <1>3, WorkerPlace
<1>4. CASE Maintenance \/ Tick
  BY <1>0, <1>4, MaintenancePlace
<1> QED BY <1>1, <1>2, <1>3, <1>4 DEF Next

(* No script ever leaves a target in two places or twice in one, whether or *)
(* not workers outlive their leases, crash or are stopped.                  *)
THEOREM EveryTargetInOnePlace == Spec => []OnePlace
<1>1. Spec => []PlaceInv
  BY InitPlace, PlaceInductive, PTL DEF Spec
<1>2. PlaceInv => OnePlace
  BY DEF PlaceInv
<1> QED BY <1>1, <1>2, PTL

-----------------------------------------------------------------------------
(* Leases and host registry.  An entry without a host is never claimed, so  *)
(* it is never redelivered either: otherwise routing it to the dead list    *)
(* would leave a redelivery count behind.                                   *)

Routable ==
  /\ \A e \in queued \cup processing : e.target \notin Foreign
  /\ \A e \in Entry : redeliveries[e] > 0 => e.target \notin Foreign

Registry == LeasesMatch /\ ScheduledExact /\ QueuedHostsKnown /\ Routable

RegistryInv == PlaceInv /\ Registry

LEMMA InitRegistry == Init => Registry
<1> SUFFICES ASSUME Init PROVE Registry
  OBVIOUS
<1>1. Cardinality({}) = 0
  BY FS_EmptySet
<1> QED BY <1>1 DEF Init, Registry, LeasesMatch, ScheduledExact, QueuedHostsKnown, Routable, Absent

(* A step that leaves leases, hosts and queues alone. *)
LEMMA RegistryKept ==
  ASSUME RegistryInv, UNCHANGED <<queued, processing, scheduled, hosts, lease, redeliveries>>,
         \A e \in ingest : e \in ingest' \/ redeliveries[e] = 0
  PROVE  Registry'
BY DEF RegistryInv, PlaceInv, TypeOK, Registry, LeasesMatch, ScheduledExact, QueuedHostsKnown,
       Routable, Host

LEMMA ProducersRegistry ==
  ASSUME RegistryInv, Producers \/ Parser
  PROVE  Registry'
<1>1. ASSUME NEW batch, NEW force, Submit(batch, force)
      PROVE  Registry'
  BY <1>1, RegistryKept DEF Submit
<1>2. ASSUME NEW t \in Foreign, PushForeign(t)
      PROVE  Registry'
  BY <1>2, RegistryKept DEF PushForeign
<1>3. ASSUME NEW batch, NEW dropped, ReplayFrontier(batch, dropped)
      PROVE  Registry'
  BY <1>3, RegistryKept DEF ReplayFrontier
<1>4. ASSUME NEW batch, NEW dropped, ReplayRaw(batch, dropped)
      PROVE  Registry'
  BY <1>4, RegistryKept DEF ReplayRaw
<1>5. ASSUME NEW e, NEW children, ParserCommit(e, children)
      PROVE  Registry'
  BY <1>5, RegistryKept DEF ParserCommit
<1>6. ASSUME NEW e, ParserDeadLetter(e)
      PROVE  Registry'
  BY <1>6, RegistryKept DEF ParserDeadLetter
<1> QED BY <1>1, <1>2, <1>3, <1>4, <1>5, <1>6 DEF Producers, Parser

LEMMA RouteRegistry ==
  ASSUME RegistryInv, NEW batch \in SUBSET ingest, Route(batch)
  PROVE  Registry'
<1> DEFINE lost == {e \in batch : e.target \in Foreign}
           moved == (batch \ lost) \ queued
<1>1. /\ ingest' = ingest \ batch /\ queued' = queued \cup moved
      /\ scheduled' = scheduled + Cardinality(moved)
      /\ hosts' = [h \in Hosts |-> IF hosts[h] = Absent /\ \E e \in moved : Host(e) = h
                                   THEN 0 ELSE hosts[h]]
      /\ UNCHANGED <<processing, lease, redeliveries>>
  BY DEF Route
<1>2. queued \in SUBSET Entry /\ moved \in SUBSET Entry
  BY DEF RegistryInv, PlaceInv, TypeOK
<1>3. ScheduledExact'
  <2>1. queued \cap moved = {}
    OBVIOUS
  <2>2. Cardinality(queued \cup moved) = Cardinality(queued) + Cardinality(moved)
    <3>1. Cardinality(queued \cap moved) = 0
      BY <2>1, FS_EmptySet
    <3>2. /\ IsFiniteSet(queued) /\ IsFiniteSet(moved)
          /\ Cardinality(queued) \in Nat /\ Cardinality(moved) \in Nat
      BY <1>2, Counts
    <3> HIDE DEF moved
    <3>3. Cardinality(queued \cup moved)
            = Cardinality(queued) + Cardinality(moved) - Cardinality(queued \cap moved)
      BY <3>2, FS_Union
    <3> QED BY <3>1, <3>2, <3>3
  <2> QED BY <1>1, <2>2 DEF ScheduledExact, RegistryInv, Registry
<1>4. QueuedHostsKnown'
  <2>1. \A e \in queued \cup moved : Host(e) \in Hosts
    BY <1>2, HostType
  <2> QED BY <1>1, <2>1 DEF QueuedHostsKnown, RegistryInv, Registry, Absent, Host
<1>5. LeasesMatch'
  BY <1>1 DEF LeasesMatch, RegistryInv, Registry, Routable
<1>6. Routable'
  BY <1>1 DEF Routable, RegistryInv, Registry
<1> QED BY <1>3, <1>4, <1>5, <1>6 DEF Registry

LEMMA ReapRegistry ==
  ASSUME RegistryInv, Reap
  PROVE  Registry'
<1> DEFINE back == Expired \ Exhausted
<1>1. /\ processing' = processing \ Expired
      /\ ingest' = ingest \cup back
      /\ lease' = [e \in Entry |->
                     IF e \in processing /\ lease[e] = Absent THEN Visibility
                     ELSE IF e \in Expired \/ lease[e] = 0 THEN Absent ELSE lease[e]]
      /\ redeliveries' = [e \in Entry |-> IF e \in Exhausted THEN 0
                                          ELSE IF e \in back THEN Redelivered(redeliveries[e])
                                          ELSE redeliveries[e]]
      /\ UNCHANGED <<queued, scheduled, hosts>>
  BY DEF Reap
<1>2. \A e \in Entry : lease[e] # Absent <=> e \in processing
  BY DEF RegistryInv, Registry, LeasesMatch
<1>3. Expired = {e \in processing : lease[e] = 0} /\ Exhausted \subseteq Expired
  BY DEF Expired, Exhausted
<1>4. processing \in SUBSET Entry
  BY DEF RegistryInv, PlaceInv, TypeOK
<1>5. \A e \in Entry : lease'[e] # Absent <=> e \in processing'
  BY <1>1, <1>2, <1>3, <1>4 DEF Absent
<1>6. \A e \in Entry : redeliveries'[e] > 0 => e \in ingest' \cup queued' \cup processing'
  BY <1>1, <1>3 DEF RegistryInv, Registry, LeasesMatch
<1>7. \A e \in Entry : redeliveries'[e] > 0 => e.target \notin Foreign
  BY <1>1, <1>3 DEF RegistryInv, Registry, Routable
<1>8. Routable'
  BY <1>1, <1>7 DEF RegistryInv, Registry, Routable
<1>9. ScheduledExact' /\ QueuedHostsKnown'
  BY <1>1 DEF RegistryInv, Registry, ScheduledExact, QueuedHostsKnown, Host
<1> QED BY <1>5, <1>6, <1>8, <1>9 DEF Registry, LeasesMatch

(* Time makes nothing appear or disappear. *)
LEMMA TickRegistry ==
  ASSUME RegistryInv, Tick
  PROVE  Registry'
<1>1. \A m \in Nat : \A n \in Absent..m : Dec(n) = Absent <=> n = Absent
  BY DEF Dec, Absent
<1>a. /\ lease \in [Entry -> Absent..Visibility]
      /\ hosts \in [Hosts -> Absent..(Visibility + HostGap)]
      /\ Visibility \in Nat /\ Visibility + HostGap \in Nat
  BY NumbersAssumption DEF RegistryInv, PlaceInv, TypeOK
<1>b. /\ lease' = [e \in Entry |-> Dec(lease[e])]
      /\ hosts' = [h \in Hosts |-> Dec(hosts[h])]
  BY DEF Tick
<1>2. \A e \in Entry : lease'[e] = Absent <=> lease[e] = Absent
  BY <1>1, <1>a, <1>b
<1>3. \A h \in Hosts : hosts'[h] = Absent <=> hosts[h] = Absent
  BY <1>1, <1>a, <1>b
<1>4. \A e \in queued : Host(e) \in Hosts
  BY HostType DEF RegistryInv, PlaceInv, TypeOK
<1>5. UNCHANGED <<ingest, queued, processing, scheduled, redeliveries>>
  BY DEF Tick
<1> QED BY <1>2, <1>3, <1>4, <1>5
        DEF RegistryInv, Registry, LeasesMatch, ScheduledExact, QueuedHostsKnown, Routable, Host

LEMMA MaintenanceRegistry ==
  ASSUME RegistryInv, Maintenance \/ Tick
  PROVE  Registry'
<1>1. ASSUME NEW batch, Promote(batch)
      PROVE  Registry'
  BY <1>1, RegistryKept DEF Promote
<1> QED BY <1>1, RouteRegistry, ReapRegistry, TickRegistry DEF Maintenance

(* A host that the claim script drops has no entries. *)
LEMMA ClaimRegistry ==
  ASSUME RegistryInv, NEW w \in Workers, TryClaim(w)
  PROVE  Registry'
<1>0. \A e \in queued : e \in Entry /\ Host(e) \in Hosts
  BY HostType DEF RegistryInv, PlaceInv, TypeOK
<1>e. \A h \in EmptyReady : \A e \in queued : Host(e) # h
  BY DEF EmptyReady, QueueOf
<1>1. ASSUME NEW e \in queued, NEW skipped \in SUBSET EmptyReady, Claim(w, e, skipped)
      PROVE  Registry'
  <2>1. /\ queued' = queued \ {e} /\ scheduled' = scheduled - 1
        /\ processing' = processing \cup {e}
        /\ lease' = [lease EXCEPT ![e] = Visibility]
        /\ hosts' = [h \in Hosts |-> IF h \in skipped THEN Absent
                                     ELSE IF h = Host(e) THEN HostLock ELSE hosts[h]]
        /\ UNCHANGED <<ingest, redeliveries>>
    BY <1>1 DEF Claim
  <2>2. ScheduledExact'
    <3>1. IsFiniteSet(queued) /\ Cardinality(queued \ {e}) = Cardinality(queued) - 1
      BY <1>0, Counts, FS_RemoveElement DEF RegistryInv, PlaceInv, TypeOK
    <3> QED BY <2>1, <3>1 DEF ScheduledExact, RegistryInv, Registry
  <2>3. QueuedHostsKnown'
    BY <2>1, <1>0, <1>e, NumbersAssumption
       DEF QueuedHostsKnown, RegistryInv, Registry, HostLock, Absent, Host
  <2>4. LeasesMatch'
    BY <2>1, <1>0, NumbersAssumption DEF LeasesMatch, RegistryInv, Registry, PlaceInv, TypeOK, Absent
  <2>5. Routable'
    BY <2>1 DEF Routable, RegistryInv, Registry
  <2> QED BY <2>2, <2>3, <2>4, <2>5 DEF Registry
<1>2. ASSUME NEW skipped \in SUBSET EmptyReady, ClaimNothing(w, skipped)
      PROVE  Registry'
  <2>1. /\ hosts' = [h \in Hosts |-> IF h \in skipped THEN Absent ELSE hosts[h]]
        /\ UNCHANGED <<ingest, queued, processing, scheduled, lease, redeliveries>>
    BY <1>2 DEF ClaimNothing, stores
  <2>2. QueuedHostsKnown'
    BY <2>1, <1>0, <1>e DEF QueuedHostsKnown, RegistryInv, Registry, Host
  <2> QED BY <2>1, <2>2 DEF RegistryInv, Registry, LeasesMatch, ScheduledExact, Routable
<1> QED BY <1>1, <1>2 DEF TryClaim

LEMMA SettleRegistry ==
  ASSUME RegistryInv, NEW w \in Workers, NEW gap \in {0, HostGap}, Settle(w, gap),
         ingest \subseteq ingest'
  PROVE  Registry'
<1> DEFINE e == claim[w]
<1>1. e \in Entry /\ e \in processing /\ Host(e) \in Hosts
  BY SettlePlace, HostType DEF RegistryInv
<1>2. /\ processing' = processing \ {e}
      /\ lease' = [lease EXCEPT ![e] = Absent]
      /\ redeliveries' = [redeliveries EXCEPT ![e] = 0]
      /\ hosts' = [hosts EXCEPT ![Host(e)] = IF @ = Absent THEN Absent ELSE gap]
      /\ UNCHANGED <<queued, scheduled>>
  BY DEF Settle, Forget
<1>3. LeasesMatch'
  BY <1>1, <1>2 DEF LeasesMatch, RegistryInv, Registry, PlaceInv, TypeOK
<1>4. QueuedHostsKnown'
  <2>1. \A h \in Hosts : hosts[h] # Absent => hosts'[h] # Absent
    BY <1>1, <1>2, NumbersAssumption DEF RegistryInv, PlaceInv, TypeOK, Absent
  <2>2. \A d \in queued : Host(d) \in Hosts
    BY HostType DEF RegistryInv, PlaceInv, TypeOK
  <2> QED BY <1>2, <2>1, <2>2 DEF QueuedHostsKnown, RegistryInv, Registry, Host
<1>5. Routable'
  BY <1>1, <1>2 DEF Routable, RegistryInv, Registry, PlaceInv, TypeOK
<1>6. ScheduledExact'
  BY <1>2 DEF ScheduledExact, RegistryInv, Registry
<1> QED BY <1>3, <1>4, <1>5, <1>6 DEF Registry

LEMMA WorkerRegistry ==
  ASSUME RegistryInv, NEW w \in Workers,
         Handle(w) \/ Abandon(w) \/ Shutdown(w) \/ Restart(w)
  PROVE  Registry'
<1>1. CASE Push(w)
  BY <1>1, SettleRegistry DEF Push
<1>2. ASSUME NEW gap \in {0, HostGap}, Finish(w, gap)
      PROVE  Registry'
  BY <1>2, SettleRegistry DEF Finish
<1>3. CASE Reject(w)
  BY <1>3, SettleRegistry DEF Reject
<1>4. CASE DropCorrupt(w)
  BY <1>4, SettleRegistry DEF DropCorrupt
<1>5. ASSUME NEW wait, Retry(w, wait)
      PROVE  Registry'
  BY <1>5, SettleRegistry DEF Retry
<1>6. CASE Release(w)
  BY <1>6, SettleRegistry DEF Release
<1>7. CASE SettleStale(w) \/ Abandon(w) \/ Shutdown(w) \/ Restart(w)
  BY <1>7, RegistryKept DEF SettleStale, Abandon, Shutdown, Restart, stores
<1> QED BY <1>1, <1>2, <1>3, <1>4, <1>5, <1>6, <1>7 DEF Handle

LEMMA RegistryInductive == RegistryInv /\ [Next]_vars => RegistryInv'
<1> SUFFICES ASSUME RegistryInv, [Next]_vars PROVE Registry'
  BY PlaceInductive DEF RegistryInv
<1>1. CASE UNCHANGED vars
  BY <1>1, RegistryKept DEF vars, stores
<1>2. CASE Producers \/ Parser
  BY <1>2, ProducersRegistry
<1>3. ASSUME NEW w \in Workers,
             TryClaim(w) \/ Handle(w) \/ Abandon(w) \/ Shutdown(w) \/ Restart(w)
      PROVE  Registry'
  BY <1>3, ClaimRegistry, WorkerRegistry
<1>4. CASE Maintenance \/ Tick
  BY <1>4, MaintenanceRegistry
<1> QED BY <1>1, <1>2, <1>3, <1>4 DEF Next

LEMMA RegistryInvariant == Spec => []RegistryInv
<1>1. Init => RegistryInv
  BY InitPlace, InitRegistry DEF RegistryInv
<1> QED BY <1>1, RegistryInductive, PTL DEF Spec

(* Leases are those of the entries in processing, and a redelivery count    *)
(* never survives an outcome or a dead letter.                              *)
THEOREM LeasesExact == Spec => []LeasesMatch
<1>1. RegistryInv => LeasesMatch
  BY DEF RegistryInv, Registry
<1> QED BY <1>1, RegistryInvariant, PTL

(* frontier:scheduled is exact although three scripts share its upkeep. *)
THEOREM GaugeExact == Spec => []ScheduledExact
<1>1. RegistryInv => ScheduledExact
  BY DEF RegistryInv, Registry
<1> QED BY <1>1, RegistryInvariant, PTL

(* A host with queued entries is never forgotten. *)
THEOREM HostsKept == Spec => []QueuedHostsKnown
<1>1. RegistryInv => QueuedHostsKnown
  BY DEF RegistryInv, Registry
<1> QED BY <1>1, RegistryInvariant, PTL

-----------------------------------------------------------------------------
(* Host lock and fence.  As long as every live worker settles within its    *)
(* lease, a claim is backed by everything Redis has of it: the entry is in  *)
(* processing, its lease has not run out, its host stays closed at least as *)
(* long as the lease, and nobody was handed the entry since.                *)

Backed(w) ==
  /\ claim[w] \in processing
  /\ lease[claim[w]] > 0
  /\ hosts[Host(claim[w])] >= lease[claim[w]]
  /\ holder[claim[w]] = w

HoldInv ==
  /\ RegistryInv
  /\ \A w \in Workers : Holds(w) => Backed(w)
  /\ OneRequestPerHost

(* What a step has to leave alone for a worker's claim to stay backed. *)
LEMMA BackedKept ==
  ASSUME NEW w \in Workers, Backed(w), claim'[w] = claim[w], claim[w] \in processing',
         lease'[claim[w]] = lease[claim[w]], holder'[claim[w]] = holder[claim[w]],
         hosts'[Host(claim[w])] = hosts[Host(claim[w])]
  PROVE  Backed(w)'
BY DEF Backed, Host

LEMMA HeldType ==
  ASSUME HoldInv, NEW w \in Workers, Holds(w)
  PROVE  /\ claim[w] \in Entry /\ Host(claim[w]) \in Hosts /\ Backed(w)
         /\ hosts[Host(claim[w])] > 0
         /\ lease[claim[w]] \in 1..Visibility
<1>1. claim[w] \in Entry /\ Backed(w)
  BY DEF HoldInv, RegistryInv, PlaceInv, TypeOK, Holds
<1>2. Host(claim[w]) \in Hosts
  BY <1>1, HostType
<1>3. hosts[Host(claim[w])] \in Int /\ lease[claim[w]] \in Absent..Visibility
  BY <1>1, <1>2, NumbersAssumption DEF HoldInv, RegistryInv, PlaceInv, TypeOK, Absent
<1> QED BY <1>1, <1>2, <1>3, NumbersAssumption DEF Backed, Absent

(* A step that neither takes nor drops a claim, nor touches what backs one. *)
LEMMA HoldKept ==
  ASSUME HoldInv, UNCHANGED <<claim, processing, lease, holder>>,
         \A h \in Hosts : hosts[h] > 0 => hosts'[h] = hosts[h]
  PROVE  (\A w \in Workers : Holds(w) => Backed(w))' /\ OneRequestPerHost'
<1>1. ASSUME NEW w \in Workers, Holds(w)'
      PROVE  Backed(w)'
  <2>1. Holds(w)
    BY <1>1 DEF Holds
  <2>2. Backed(w) /\ hosts'[Host(claim[w])] = hosts[Host(claim[w])]
    BY <2>1, HeldType
  <2> QED BY <2>2, BackedKept DEF Backed
<1>2. OneRequestPerHost'
  BY DEF HoldInv, OneRequestPerHost, Holds, Host
<1> QED BY <1>1, <1>2

LEMMA ClaimHold ==
  ASSUME HoldInv, NEW w \in Workers, NEW e \in queued,
         NEW skipped \in SUBSET EmptyReady, Claim(w, e, skipped)
  PROVE  (\A v \in Workers : Holds(v) => Backed(v))' /\ OneRequestPerHost'
<1>1. /\ claim[w] = NoEntry /\ Host(e) \in Ready
      /\ processing' = processing \cup {e}
      /\ lease' = [lease EXCEPT ![e] = Visibility]
      /\ hosts' = [h \in Hosts |-> IF h \in skipped THEN Absent
                                   ELSE IF h = Host(e) THEN HostLock ELSE hosts[h]]
      /\ claim' = [claim EXCEPT ![w] = e]
      /\ holder' = [holder EXCEPT ![e] = w]
  BY DEF Claim
<1>2. /\ e \in Entry /\ e \notin processing /\ Host(e) \in Hosts
      /\ lease \in [Entry -> Absent..Visibility]
      /\ claim \in [Workers -> Entry \cup {NoEntry}]
      /\ holder \in [Entry -> Workers \cup {NoWorker}]
  BY HostType DEF HoldInv, RegistryInv, PlaceInv, TypeOK, OnePlace
<1>3. \A h \in skipped : hosts[h] = 0 /\ h # Host(e)
  BY DEF EmptyReady, Ready, QueueOf
<1>4. claim'[w] = e /\ Backed(w)'
  BY <1>1, <1>2, <1>3, NumbersAssumption DEF Backed, HostLock, Host
<1>5. ASSUME NEW v \in Workers, v # w, Holds(v)'
      PROVE  Holds(v) /\ claim'[v] = claim[v] /\ Host(claim[v]) # Host(e) /\ Backed(v)'
  <2>1. Holds(v) /\ claim'[v] = claim[v]
    BY <1>1, <1>2, <1>5 DEF Holds
  <2>2. hosts[Host(claim[v])] > 0 /\ Backed(v) /\ Host(claim[v]) \in Hosts
    BY <2>1, HeldType
  <2>3. Host(claim[v]) # Host(e) /\ Host(claim[v]) \notin skipped
    BY <1>1, <1>3, <2>2 DEF Ready
  <2>4. claim[v] # e /\ claim[v] \in Entry
    BY <2>1, <2>3, HeldType
  <2> QED BY <1>1, <1>2, <2>1, <2>2, <2>3, <2>4, BackedKept DEF Backed
<1>6. OneRequestPerHost'
  BY <1>4, <1>5 DEF HoldInv, OneRequestPerHost, Holds, Host
<1> QED BY <1>4, <1>5, <1>6

(* A worker that ends its claim disturbs nobody else's, because the others  *)
(* are on other hosts.                                                      *)
LEMMA EndHold ==
  ASSUME HoldInv, NEW w \in Workers, Holds(w),
         claim' = [claim EXCEPT ![w] = NoEntry],
         processing \ {claim[w]} \subseteq processing',
         \A e \in Entry : e # claim[w] => lease'[e] = lease[e] /\ holder'[e] = holder[e],
         \A h \in Hosts : h # Host(claim[w]) => hosts'[h] = hosts[h]
  PROVE  (\A v \in Workers : Holds(v) => Backed(v))' /\ OneRequestPerHost'
<1>1. claim \in [Workers -> Entry \cup {NoEntry}]
  BY DEF HoldInv, RegistryInv, PlaceInv, TypeOK
<1>2. ASSUME NEW v \in Workers, Holds(v)'
      PROVE  Holds(v) /\ claim'[v] = claim[v] /\ Backed(v)'
  <2>1. v # w /\ Holds(v) /\ claim'[v] = claim[v]
    BY <1>1, <1>2 DEF Holds
  <2>2. Host(claim[v]) # Host(claim[w])
    BY <2>1 DEF HoldInv, OneRequestPerHost
  <2>3. claim[v] # claim[w] /\ claim[v] \in Entry /\ Host(claim[v]) \in Hosts /\ Backed(v)
    BY <2>1, <2>2, HeldType
  <2>4. claim[v] \in processing'
    BY <2>3 DEF Backed
  <2> QED BY <2>1, <2>2, <2>3, <2>4, BackedKept
<1>3. OneRequestPerHost'
  BY <1>2 DEF HoldInv, OneRequestPerHost, Host
<1> QED BY <1>2, <1>3

LEMMA SettleHold ==
  ASSUME HoldInv, NEW w \in Workers, NEW gap, Settle(w, gap)
  PROVE  (\A v \in Workers : Holds(v) => Backed(v))' /\ OneRequestPerHost'
<1>1. /\ Holds(w) /\ claim' = [claim EXCEPT ![w] = NoEntry]
      /\ processing' = processing \ {claim[w]}
      /\ lease' = [lease EXCEPT ![claim[w]] = Absent]
      /\ holder' = [holder EXCEPT ![claim[w]] = NoWorker]
      /\ hosts' = [hosts EXCEPT ![Host(claim[w])] = IF @ = Absent THEN Absent ELSE gap]
  BY DEF Settle
<1>2. /\ lease \in [Entry -> Absent..Visibility]
      /\ holder \in [Entry -> Workers \cup {NoWorker}]
      /\ hosts \in [Hosts -> Absent..(Visibility + HostGap)]
  BY DEF HoldInv, RegistryInv, PlaceInv, TypeOK
<1>3. \A e \in Entry : e # claim[w] => lease'[e] = lease[e] /\ holder'[e] = holder[e]
  BY <1>1, <1>2
<1>4. \A h \in Hosts : h # Host(claim[w]) => hosts'[h] = hosts[h]
  BY <1>1, <1>2
<1> QED BY <1>1, <1>3, <1>4, EndHold

LEMMA WorkerHold ==
  ASSUME HoldInv, NEW w \in Workers,
         TryClaim(w) \/ Handle(w) \/ Abandon(w) \/ Shutdown(w) \/ Restart(w)
  PROVE  (\A v \in Workers : Holds(v) => Backed(v))' /\ OneRequestPerHost'
<1>1. ASSUME NEW skipped \in SUBSET EmptyReady, ClaimNothing(w, skipped)
      PROVE  (\A v \in Workers : Holds(v) => Backed(v))' /\ OneRequestPerHost'
  <2>1. \A h \in skipped : ~(hosts[h] > 0)
    BY DEF EmptyReady, Ready
  <2> QED BY <1>1, <2>1, HoldKept DEF ClaimNothing, stores
<1>2. ASSUME NEW gap, Settle(w, gap)
      PROVE  (\A v \in Workers : Holds(v) => Backed(v))' /\ OneRequestPerHost'
  BY <1>2, SettleHold
<1>3. CASE SettleStale(w)
  <2>1. Holds(w) /\ claim[w] \notin processing
    BY <1>3 DEF SettleStale, Ours
  <2> QED BY <2>1, HeldType DEF Backed
<1>4. CASE Abandon(w)
  <2>1. /\ Holds(w) /\ claim' = [claim EXCEPT ![w] = NoEntry]
        /\ holder' = IF holder[claim[w]] = w THEN [holder EXCEPT ![claim[w]] = NoWorker]
                                             ELSE holder
        /\ UNCHANGED <<processing, lease, hosts>>
    BY <1>4 DEF Abandon, stores
  <2>2. \A e \in Entry : e # claim[w] => holder'[e] = holder[e]
    BY <2>1 DEF HoldInv, RegistryInv, PlaceInv, TypeOK
  <2> QED BY <2>1, <2>2, EndHold
<1>5. CASE Shutdown(w) \/ Restart(w)
  BY <1>5, HoldKept DEF Shutdown, Restart, stores
<1> QED BY <1>1, <1>2, <1>3, <1>4, <1>5, ClaimHold
        DEF TryClaim, Handle, Push, Finish, Reject, DropCorrupt, Retry, Release

(* Reaping takes only entries nobody works on. *)
LEMMA ReapHold ==
  ASSUME HoldInv, Reap
  PROVE  (\A v \in Workers : Holds(v) => Backed(v))' /\ OneRequestPerHost'
<1>1. /\ processing' = processing \ Expired
      /\ lease' = [e \in Entry |->
                     IF e \in processing /\ lease[e] = Absent THEN Visibility
                     ELSE IF e \in Expired \/ lease[e] = 0 THEN Absent ELSE lease[e]]
      /\ holder' = [e \in Entry |-> IF e \in Expired THEN NoWorker ELSE holder[e]]
      /\ UNCHANGED <<claim, hosts>>
  BY DEF Reap
<1>2. ASSUME NEW v \in Workers, Holds(v)'
      PROVE  Holds(v) /\ Backed(v)'
  <2>1. Holds(v)
    BY <1>1, <1>2 DEF Holds
  <2>2. claim[v] \in Entry /\ lease[claim[v]] \in 1..Visibility /\ Backed(v)
    BY <2>1, HeldType
  <2>3. claim[v] \notin Expired /\ lease[claim[v]] # 0 /\ lease[claim[v]] # Absent
    BY <2>2 DEF Expired, Absent
  <2>4. claim[v] \in processing'
    BY <1>1, <2>2, <2>3 DEF Backed
  <2> QED BY <1>1, <2>1, <2>2, <2>3, <2>4, BackedKept
<1>3. OneRequestPerHost'
  BY <1>1 DEF HoldInv, OneRequestPerHost, Holds, Host
<1> QED BY <1>2, <1>3

(* Time passes for lease and host lock alike, and without Overrun it stops  *)
(* at the last moment of a lease somebody still works under.                *)
LEMMA TickHold ==
  ASSUME HoldInv, ~Overrun, Tick
  PROVE  (\A v \in Workers : Holds(v) => Backed(v))' /\ OneRequestPerHost'
<1>1. /\ \A v \in Workers : Holds(v) => lease[claim[v]] # 1
      /\ lease' = [e \in Entry |-> Dec(lease[e])]
      /\ hosts' = [h \in Hosts |-> Dec(hosts[h])]
      /\ UNCHANGED <<claim, processing, holder>>
  BY DEF Tick
<1>2. ASSUME NEW v \in Workers, Holds(v)'
      PROVE  Backed(v)'
  <2>1. Holds(v)
    BY <1>1, <1>2 DEF Holds
  <2>2. /\ claim[v] \in Entry /\ Host(claim[v]) \in Hosts
        /\ lease[claim[v]] \in 2..Visibility /\ Backed(v)
    BY <1>1, <2>1, HeldType, NumbersAssumption
  <2>3. hosts[Host(claim[v])] \in Int
    BY <2>2, NumbersAssumption DEF HoldInv, RegistryInv, PlaceInv, TypeOK, Absent
  <2>4. /\ lease'[claim[v]] = lease[claim[v]] - 1
        /\ hosts'[Host(claim[v])] = hosts[Host(claim[v])] - 1
    BY <1>1, <2>2, <2>3, NumbersAssumption DEF Backed, Dec
  <2> QED BY <1>1, <2>2, <2>3, <2>4, NumbersAssumption DEF Backed, Host
<1>3. OneRequestPerHost'
  BY <1>1 DEF HoldInv, OneRequestPerHost, Holds, Host
<1> QED BY <1>2, <1>3

LEMMA HoldInductive ==
  ASSUME ~Overrun
  PROVE  HoldInv /\ [Next]_vars => HoldInv'
<1> SUFFICES ASSUME HoldInv, [Next]_vars
             PROVE  (\A v \in Workers : Holds(v) => Backed(v))' /\ OneRequestPerHost'
  BY RegistryInductive DEF HoldInv
<1>1. CASE UNCHANGED vars
  BY <1>1, HoldKept DEF vars, stores
<1>2. CASE Producers \/ Parser
  BY <1>2, HoldKept DEF Producers, Parser, Submit, PushForeign, ReplayFrontier, ReplayRaw,
                        ParserCommit, ParserDeadLetter
<1>3. ASSUME NEW batch, Route(batch)
      PROVE  (\A v \in Workers : Holds(v) => Backed(v))' /\ OneRequestPerHost'
  <2>1. \A h \in Hosts : hosts[h] > 0 => hosts'[h] = hosts[h]
    BY <1>3 DEF Route, Absent
  <2> QED BY <1>3, <2>1, HoldKept DEF Route
<1>4. ASSUME NEW batch, Promote(batch)
      PROVE  (\A v \in Workers : Holds(v) => Backed(v))' /\ OneRequestPerHost'
  BY <1>4, HoldKept DEF Promote
<1>5. ASSUME NEW w \in Workers,
             TryClaim(w) \/ Handle(w) \/ Abandon(w) \/ Shutdown(w) \/ Restart(w)
      PROVE  (\A v \in Workers : Holds(v) => Backed(v))' /\ OneRequestPerHost'
  BY <1>5, WorkerHold
<1> QED BY <1>1, <1>2, <1>3, <1>4, <1>5, ReapHold, TickHold DEF Next, Maintenance

LEMMA HoldInvariant ==
  ASSUME ~Overrun
  PROVE  Spec => []HoldInv
<1>1. Init => HoldInv
  BY InitPlace, InitRegistry DEF Init, HoldInv, RegistryInv, OneRequestPerHost, Holds
<1> QED BY <1>1, HoldInductive, PTL DEF Spec

(* If every live worker settles within its lease, no host ever gets two     *)
(* requests at a time.                                                      *)
THEOREM PoliteToHosts ==
  ASSUME ~Overrun
  PROVE  Spec => []OneRequestPerHost
<1>1. HoldInv => OneRequestPerHost
  BY DEF HoldInv
<1> QED BY <1>1, HoldInvariant, PTL

(* Under the same condition the fence also identifies the worker: only the  *)
(* one that was handed the entry last commits an outcome for it.            *)
THEOREM FenceIdentifies ==
  ASSUME ~Overrun
  PROVE  Spec => OnlyHolderCommits
<1>1. HoldInv /\ [Next]_vars => [\A w \in Workers : Commits(w) => holder[claim[w]] = w]_vars
  BY DEF HoldInv, Commits, Backed
<1> QED BY <1>1, HoldInvariant, PTL DEF Spec, OnlyHolderCommits

-----------------------------------------------------------------------------
(* The job bookkeeping: outstanding counts the live targets of a job, the   *)
(* job is completed exactly when there are none, and the frontier           *)
(* implements CrawlJobs.                                                    *)

(* What a job's hash says about the set L of live entries.  Entries that Go *)
(* cannot decode leave without being counted, so in general the counter is  *)
(* only an upper bound.  That the status follows the counter is what makes  *)
(* the invariant inductive: finish_job only looks at the counter.           *)
Accounts(js, L) ==
  \A j \in Jobs :
    /\ js[j].outstanding >= Cardinality(OfJob(L, j))
    /\ Undecodable = {} => js[j].outstanding = Cardinality(OfJob(L, j))
    /\ js[j].status = "none" => js[j].outstanding = 0
    /\ js[j].status # "none" => (js[j].status = "completed" <=> js[j].outstanding <= 0)

JobsInv == PlaceInv /\ Accounts(jobs, Live)

-----------------------------------------------------------------------------
(* How the bookkeeping operators keep it *)

LEMMA OfJobMinus ==
  ASSUME NEW L \in SUBSET Entry, NEW F \in SUBSET L, NEW j
  PROVE  Cardinality(OfJob(L \ F, j)) = Cardinality(OfJob(L, j)) - Cardinality(OfJob(F, j))
<1>1. OfJob(L \ F, j) = OfJob(L, j) \ OfJob(F, j)
  BY DEF OfJob
<1>2. OfJob(L, j) \cap OfJob(F, j) = OfJob(F, j)
  BY DEF OfJob
<1>3. IsFiniteSet(OfJob(L, j))
  BY OfJobCounts, Counts
<1> QED BY <1>1, <1>2, <1>3, FS_Difference

LEMMA OfJobPlus ==
  ASSUME NEW L \in SUBSET Entry, NEW A \in SUBSET Entry, A \cap L = {}, NEW j
  PROVE  Cardinality(OfJob(L \cup A, j)) = Cardinality(OfJob(L, j)) + Cardinality(OfJob(A, j))
<1> DEFINE P == OfJob(L, j)
           Q == OfJob(A, j)
<1>1. OfJob(L \cup A, j) = P \cup Q /\ P \cap Q = {}
  BY DEF OfJob
<1>2. /\ IsFiniteSet(P) /\ IsFiniteSet(Q)
      /\ Cardinality(P) \in Nat /\ Cardinality(Q) \in Nat
  BY OfJobCounts, Counts
<1> HIDE DEF P, Q
<1>3. Cardinality(P \cup Q) = Cardinality(P) + Cardinality(Q) - Cardinality(P \cap Q)
  BY <1>2, FS_Union
<1>4. Cardinality(P \cap Q) = 0
  BY <1>1, FS_EmptySet
<1>5. Cardinality(P \cup Q) = Cardinality(P) + Cardinality(Q)
  BY <1>2, <1>3, <1>4
<1> QED BY <1>1, <1>5 DEF P, Q

LEMMA NoneOfJob ==
  ASSUME NEW S \in SUBSET Entry, NEW j
  PROVE  Cardinality(OfJob(S, j)) = 0 <=> OfJob(S, j) = {}
BY OfJobCounts, Counts, FS_EmptySet

LEMMA FinishAccounts ==
  ASSUME NEW js \in JobHashes, NEW L \in SUBSET Entry, NEW F \in SUBSET L, Accounts(js, L),
         \A e \in F : Job(e) \in Jobs => js[Job(e)].status # "none"
  PROVE  Accounts(finish_job(js, F), L \ F)
<1> DEFINE kept == finish_job(js, F)
<1> SUFFICES ASSUME NEW j \in Jobs
             PROVE  /\ kept[j].outstanding >= Cardinality(OfJob(L \ F, j))
                    /\ Undecodable = {} =>
                         kept[j].outstanding = Cardinality(OfJob(L \ F, j))
                    /\ kept[j].status = "none" => kept[j].outstanding = 0
                    /\ kept[j].status # "none" =>
                         (kept[j].status = "completed" <=> kept[j].outstanding <= 0)
  BY DEF Accounts
<1> DEFINE nL == Cardinality(OfJob(L, j))
           nF == Cardinality(OfJob(F, j))
<1>1. /\ nL \in Nat /\ nF \in Nat /\ Cardinality(OfJob(L \ F, j)) = nL - nF
      /\ nL - nF \in Nat
  <2>1. L \ F \in SUBSET Entry /\ F \in SUBSET Entry
    OBVIOUS
  <2>2. Cardinality(OfJob(L \ F, j)) = nL - nF
    BY OfJobMinus
  <2> QED BY <2>1, <2>2, OfJobCounts
<1>2. js[j].outstanding \in Int /\ js[j].status \in Status
  BY DEF JobHashes
<1>3. /\ js[j].outstanding >= nL /\ (Undecodable = {} => js[j].outstanding = nL)
      /\ js[j].status = "none" => js[j].outstanding = 0
      /\ js[j].status # "none" => (js[j].status = "completed" <=> js[j].outstanding <= 0)
  BY DEF Accounts
<1>4. CASE OfJob(F, j) = {}
  <2>1. nF = 0 /\ kept[j] = js[j]
    BY <1>4, NoneOfJob DEF finish_job
  <2> QED BY <2>1, <1>1, <1>2, <1>3
<1>5. CASE OfJob(F, j) # {}
  <2>1. js[j].status # "none"
    BY <1>5 DEF OfJob
  <2>2. nF # 0
    BY <1>5, NoneOfJob
  <2>3. kept[j] = [outstanding |-> js[j].outstanding - nF,
                   status |-> IF js[j].outstanding - nF <= 0 THEN "completed"
                                                             ELSE js[j].status]
    BY <2>1, <1>5 DEF finish_job
  <2>4. kept[j].outstanding = js[j].outstanding - nF
    BY <2>3
  <2>5. kept[j].status = IF js[j].outstanding - nF <= 0 THEN "completed" ELSE js[j].status
    BY <2>3
  <2>6. js[j].outstanding > 0
    BY <1>1, <1>2, <1>3, <2>2
  <2>7. js[j].status # "completed"
    BY <1>2, <1>3, <2>1, <2>6
  <2> QED BY <1>1, <1>2, <1>3, <2>1, <2>4, <2>5, <2>7
<1> QED BY <1>4, <1>5

LEMMA CountInAccounts ==
  ASSUME NEW js \in JobHashes, NEW L \in SUBSET Entry, NEW A \in SUBSET Entry,
         A \cap L = {}, Accounts(js, L), NEW record \in BOOLEAN,
         \A e \in A : Job(e) \in Jobs => (record <=> js[Job(e)].status = "none")
  PROVE  Accounts(CountIn(js, A, record), L \cup A)
<1> DEFINE kept == CountIn(js, A, record)
<1> SUFFICES ASSUME NEW j \in Jobs
             PROVE  /\ kept[j].outstanding >= Cardinality(OfJob(L \cup A, j))
                    /\ Undecodable = {} =>
                         kept[j].outstanding = Cardinality(OfJob(L \cup A, j))
                    /\ kept[j].status = "none" => kept[j].outstanding = 0
                    /\ kept[j].status # "none" =>
                         (kept[j].status = "completed" <=> kept[j].outstanding <= 0)
  BY DEF Accounts
<1> DEFINE nL == Cardinality(OfJob(L, j))
           nA == Cardinality(OfJob(A, j))
<1>1. nL \in Nat /\ nA \in Nat /\ Cardinality(OfJob(L \cup A, j)) = nL + nA
  BY OfJobPlus, OfJobCounts
<1>2. js[j].outstanding \in Int /\ js[j].status \in Status
  BY DEF JobHashes
<1>3. /\ js[j].outstanding >= nL /\ (Undecodable = {} => js[j].outstanding = nL)
      /\ js[j].status = "none" => js[j].outstanding = 0
      /\ js[j].status # "none" => (js[j].status = "completed" <=> js[j].outstanding <= 0)
  BY DEF Accounts
<1>4. CASE OfJob(A, j) = {}
  <2>1. nA = 0 /\ kept[j] = js[j]
    BY <1>4, NoneOfJob DEF CountIn
  <2> QED BY <2>1, <1>1, <1>2, <1>3
<1>5. CASE OfJob(A, j) # {}
  <2>1. record <=> js[j].status = "none"
    BY <1>5 DEF OfJob
  <2>2. nA > 0
    BY <1>1, <1>5, NoneOfJob
  <2>3. kept[j].outstanding = js[j].outstanding + nA
    BY <1>5 DEF CountIn
  <2>4. kept[j].status \notin {"none", "completed"}
    BY <1>2, <1>5, <2>1 DEF CountIn, Status
  <2> QED BY <1>1, <1>2, <1>3, <2>2, <2>3, <2>4
<1> QED BY <1>4, <1>5

(* Replacing an entry by another one of the same job changes no count. *)
LEMMA RenameAccounts ==
  ASSUME NEW js, NEW L \in SUBSET Entry, NEW e \in L, NEW n \in Entry,
         n \notin L, Job(n) = Job(e), Accounts(js, L)
  PROVE  Accounts(js, (L \ {e}) \cup {n})
<1> SUFFICES ASSUME NEW j
             PROVE  Cardinality(OfJob((L \ {e}) \cup {n}, j)) = Cardinality(OfJob(L, j))
  BY DEF Accounts
<1>1. Cardinality(OfJob(L \ {e}, j)) = Cardinality(OfJob(L, j)) - Cardinality(OfJob({e}, j))
  BY OfJobMinus, {e} \in SUBSET L
<1>2. Cardinality(OfJob((L \ {e}) \cup {n}, j)) =
        Cardinality(OfJob(L \ {e}, j)) + Cardinality(OfJob({n}, j))
  BY OfJobPlus, L \ {e} \in SUBSET Entry, {n} \in SUBSET Entry, {n} \cap (L \ {e}) = {}
<1>3. Cardinality(OfJob({n}, j)) = Cardinality(OfJob({e}, j))
  <2>1. CASE Job(e) = j
    <3>1. OfJob({e}, j) = {e} /\ OfJob({n}, j) = {n}
      BY <2>1 DEF OfJob
    <3> QED BY <3>1, FS_Singleton
  <2>2. CASE Job(e) # j
    <3>1. OfJob({e}, j) = {} /\ OfJob({n}, j) = {}
      BY <2>2 DEF OfJob
    <3> QED BY <3>1
  <2> QED BY <2>1, <2>2
<1>4. Cardinality(OfJob(L, j)) \in Nat /\ Cardinality(OfJob({e}, j)) \in Nat
  BY OfJobCounts, {e} \in SUBSET Entry
<1> QED BY <1>1, <1>2, <1>3, <1>4

(* An entry that leaves without being counted: only an undecodable one does. *)
LEMMA DropAccounts ==
  ASSUME NEW js \in JobHashes, NEW L \in SUBSET Entry, NEW e \in L, Undecodable # {},
         Accounts(js, L)
  PROVE  Accounts(js, L \ {e})
<1> SUFFICES ASSUME NEW j \in Jobs
             PROVE  js[j].outstanding >= Cardinality(OfJob(L \ {e}, j))
  BY DEF Accounts
<1>1. Cardinality(OfJob(L \ {e}, j)) = Cardinality(OfJob(L, j)) - Cardinality(OfJob({e}, j))
  BY OfJobMinus, {e} \in SUBSET L
<1>2. Cardinality(OfJob(L, j)) \in Nat /\ Cardinality(OfJob({e}, j)) \in Nat
  BY OfJobCounts, {e} \in SUBSET Entry
<1>3. js[j].outstanding \in Int /\ js[j].outstanding >= Cardinality(OfJob(L, j))
  BY DEF Accounts, JobHashes
<1> QED BY <1>1, <1>2, <1>3

LEMMA StartedAccounts ==
  ASSUME NEW js \in JobHashes, NEW L, NEW j, Accounts(js, L)
  PROVE  Accounts(Started(js, j), L)
<1> DEFINE kept == Started(js, j)
<1>1. CASE j \in Jobs /\ js[j].status = "enqueued"
  <2>1. \A i \in Jobs : /\ kept[i].outstanding = js[i].outstanding
                        /\ i # j => kept[i].status = js[i].status
    BY <1>1 DEF Started, JobHashes
  <2>2. kept[j].status = "running"
    BY <1>1 DEF Started, JobHashes
  <2> QED BY <1>1, <2>1, <2>2 DEF Accounts
<1>2. CASE ~(j \in Jobs /\ js[j].status = "enqueued")
  BY <1>2 DEF Started
<1> QED BY <1>1, <1>2

-----------------------------------------------------------------------------
(* The steps *)

LEMMA LiveType ==
  ASSUME PlaceInv
  PROVE  jobs \in JobHashes /\ Live \in SUBSET Entry /\ Stored \in SUBSET Entry
BY DEF PlaceInv, TypeOK, JobHashes, Live, Stored, DelayedSet

(* A live entry of a job has a job hash to be finished in. *)
LEMMA LiveKnown ==
  ASSUME PlaceInv, NEW e \in Stored, Job(e) \in Jobs
  PROVE  e.target \notin Foreign /\ jobs[Job(e)].status # "none"
<1>1. e.target \notin Foreign
  BY LiveType, FieldsAssumption, SetsAssumption DEF Job, Entry
<1> QED BY <1>1 DEF PlaceInv, KnownTargets

LEMMA InitJobs == Init => JobsInv
<1> SUFFICES ASSUME Init PROVE Accounts(jobs, Live)
  BY InitPlace DEF JobsInv
<1>1. Live = {}
  BY DEF Init, Live, DelayedSet
<1>2. \A j \in Jobs : OfJob({}, j) = {}
  BY DEF OfJob
<1>3. Cardinality({}) = 0
  BY FS_EmptySet
<1> QED BY <1>1, <1>2, <1>3 DEF Init, Accounts

LEMMA SubmitJobs ==
  ASSUME JobsInv, NEW batch \in SUBSET Seeds, NEW force \in BOOLEAN, Submit(batch, force)
  PROVE  Accounts(jobs', Live')
<1> DEFINE new == {Fresh(t) : t \in {t \in batch : force \/ UrlOf[t] \notin seen}}
<1>1. \A e \in new : e \in Entry /\ e.target \in batch
  BY FreshType, SetsAssumption
<1>2. \A e \in new : jobs[Job(e)].status = "none"
  BY <1>1 DEF Submit, Job
<1>3. new \cap Live = {}
  <2>1. \A e \in new : Job(e) \in Jobs
    BY <1>1, JobType, SetsAssumption DEF Job
  <2> QED BY <1>2, <2>1, LiveKnown DEF JobsInv, Stored
<1>4. jobs' = CountIn(jobs, new, TRUE) /\ Live' = Live \cup new
  BY DEF Submit, Live, DelayedSet
<1>5. Accounts(CountIn(jobs, new, TRUE), Live \cup new)
  BY <1>1, <1>2, <1>3, LiveType, CountInAccounts DEF JobsInv
<1> QED BY <1>4, <1>5

LEMMA ReplayJobs ==
  ASSUME JobsInv, NEW batch \in SUBSET dead, NEW dropped \in SUBSET batch,
         ReplayFrontier(batch, dropped)
  PROVE  Accounts(jobs', Live')
<1> DEFINE back == {Fresh(e.target) : e \in batch \ dropped}
<1>1. \A n \in back : n \in Entry /\ \E e \in batch : e \in Stored /\ e.target = n.target
  BY LiveType, FreshType DEF JobsInv, Stored, Entry
<1>2. \A n \in back : Job(n) \in Jobs => jobs[Job(n)].status # "none"
  BY <1>1, LiveKnown DEF JobsInv, Job
<1>3. back \cap Live = {}
  BY <1>1 DEF JobsInv, PlaceInv, OnePlace, Stored, Live
<1>4. jobs' = CountIn(jobs, back, FALSE) /\ Live' = Live \cup back
  BY DEF ReplayFrontier, Live, DelayedSet
<1>5. Accounts(CountIn(jobs, back, FALSE), Live \cup back)
  BY <1>1, <1>2, <1>3, LiveType, CountInAccounts DEF JobsInv
<1> QED BY <1>4, <1>5

LEMMA ProducersJobs ==
  ASSUME JobsInv, Producers
  PROVE  Accounts(jobs', Live')
<1>1. ASSUME NEW t \in Foreign, PushForeign(t)
      PROVE  Accounts(jobs', Live')
  <2>1. t \in Targets /\ Fresh(t) \in Entry /\ Job(Fresh(t)) \notin Jobs
    BY FreshType, SetsAssumption, FieldsAssumption DEF Job
  <2>2. jobs' = jobs /\ Live' = Live \cup {Fresh(t)}
    BY <1>1 DEF PushForeign, Live, DelayedSet
  <2>3. \A j \in Jobs : OfJob(Live \cup {Fresh(t)}, j) = OfJob(Live, j)
    BY <2>1 DEF OfJob
  <2> QED BY <2>2, <2>3 DEF Accounts, JobsInv
<1>2. ASSUME NEW batch \in SUBSET rawDead, NEW dropped \in SUBSET batch,
             ReplayRaw(batch, dropped)
      PROVE  Accounts(jobs', Live')
  <2> DEFINE back == batch \ dropped
  <2>1. \A e \in back : e \in Stored /\ e \in Entry
    BY LiveType DEF JobsInv, Stored
  <2>2. \A e \in back : Job(e) \in Jobs => jobs[Job(e)].status # "none"
    BY <2>1, LiveKnown DEF JobsInv
  <2>3. back \cap Live = {}
    BY DEF JobsInv, PlaceInv, OnePlace, Live
  <2>4. jobs' = CountIn(jobs, back, FALSE) /\ Live' = Live \cup back
    BY <1>2 DEF ReplayRaw, Live, DelayedSet
  <2>5. Accounts(CountIn(jobs, back, FALSE), Live \cup back)
    BY <2>1, <2>2, <2>3, LiveType, CountInAccounts DEF JobsInv
  <2> QED BY <2>4, <2>5
<1> QED BY <1>1, <1>2, SubmitJobs, ReplayJobs DEF Producers

LEMMA ParserJobs ==
  ASSUME JobsInv, Parser
  PROVE  Accounts(jobs', Live')
<1>1. ASSUME NEW e \in raw, ParserDeadLetter(e)
      PROVE  Accounts(jobs', Live')
  <2>1. {e} \in SUBSET Live /\ e \in Stored
    BY DEF Live, Stored
  <2>2. jobs' = finish_job(jobs, {e}) /\ Live' = Live \ {e}
    BY <1>1 DEF ParserDeadLetter, Live, DelayedSet, JobsInv, PlaceInv, OnePlace
  <2>3. Accounts(finish_job(jobs, {e}), Live \ {e})
    BY <2>1, LiveKnown, LiveType, FinishAccounts DEF JobsInv
  <2> QED BY <2>2, <2>3
<1>2. ASSUME NEW e \in raw, NEW children \in SUBSET (Targets \ (Seeds \cup Foreign)),
             ParserCommit(e, children)
      PROVE  Accounts(jobs', Live')
  <2> DEFINE new == {Fresh(t) : t \in children}
             counted == CountIn(jobs, new, FALSE)
  <2>1. e \in Live /\ e \in Stored
    BY DEF Live, Stored
  <2>2. \A n \in new : n \in Entry /\ n.target \in children
    BY FreshType
  <2>3. \A n \in new : Job(n) = Job(e)
    BY <1>2, <2>2 DEF ParserCommit, Job
  <2>4. new \cap Live = {}
    BY <1>2, <2>2 DEF ParserCommit, JobsInv, PlaceInv, KnownTargets, Stored
  <2>5. Accounts(counted, Live \cup new)
    BY <2>1, <2>2, <2>3, <2>4, LiveKnown, LiveType, CountInAccounts DEF JobsInv
  <2>6. counted \in JobHashes /\ JobsKeep(jobs, counted)
    BY <2>2, LiveType, CountInType, CountInKeeps DEF JobsInv
  <2>7. Job(e) \in Jobs => counted[Job(e)].status # "none"
    BY <2>1, <2>6, LiveKnown DEF JobsInv, JobsKeep
  <2>8. Live \cup new \in SUBSET Entry /\ {e} \in SUBSET (Live \cup new)
    BY <2>1, <2>2, LiveType DEF JobsInv
  <2>9. Accounts(finish_job(counted, {e}), (Live \cup new) \ {e})
    BY <2>5, <2>6, <2>7, <2>8, FinishAccounts
  <2>10. jobs' = finish_job(counted, {e}) /\ Live' = (Live \cup new) \ {e}
    BY <1>2, <2>1, <2>4 DEF ParserCommit, Live, DelayedSet, JobsInv, PlaceInv, OnePlace
  <2> QED BY <2>9, <2>10
<1> QED BY <1>1, <1>2 DEF Parser

LEMMA MaintenanceJobs ==
  ASSUME JobsInv, Maintenance \/ Tick
  PROVE  Accounts(jobs', Live')
<1>1. ASSUME NEW batch \in SUBSET ingest, Route(batch)
      PROVE  Accounts(jobs', Live')
  <2> DEFINE moved == (batch \ {e \in batch : e.target \in Foreign}) \ queued
             done == batch \ moved
  <2>1. done \in SUBSET Live /\ \A e \in done : e \in Stored
    BY DEF Live, Stored
  <2>2. jobs' = finish_job(jobs, done)
    BY <1>1 DEF Route
  <2>3. Live' = Live \ done
    BY <1>1 DEF Route, Live, DelayedSet, JobsInv, PlaceInv, OnePlace
  <2>4. Accounts(finish_job(jobs, done), Live \ done)
    BY <2>1, LiveKnown, LiveType, FinishAccounts DEF JobsInv
  <2> QED BY <2>2, <2>3, <2>4
<1>2. ASSUME NEW batch \in SUBSET DelayedSet, Promote(batch)
      PROVE  Accounts(jobs', Live')
  <2>1. DelayedSet' = DelayedSet \ batch
    BY <1>2 DEF Promote, DelayedSet, JobsInv, PlaceInv, TypeOK
  <2>2. Live' = Live /\ jobs' = jobs
    BY <1>2, <2>1 DEF Promote, Live
  <2> QED BY <2>2 DEF JobsInv
<1>3. CASE Reap
  <2>1. Expired \subseteq processing /\ Exhausted \subseteq Expired
    BY DEF Expired, Exhausted
  <2>2. Exhausted \in SUBSET Live /\ \A e \in Exhausted : e \in Stored
    BY <2>1 DEF Live, Stored
  <2>3. jobs' = finish_job(jobs, Exhausted)
    BY <1>3 DEF Reap
  <2>4. processing' = processing \ Expired /\ ingest' = ingest \cup (Expired \ Exhausted)
        /\ UNCHANGED <<queued, delayed, raw>>
    BY <1>3 DEF Reap
  <2>5. Live' = Live \ Exhausted
    BY <2>1, <2>4 DEF Live, DelayedSet, JobsInv, PlaceInv, OnePlace
  <2>6. Accounts(finish_job(jobs, Exhausted), Live \ Exhausted)
    BY <2>2, LiveKnown, LiveType, FinishAccounts DEF JobsInv
  <2> QED BY <2>3, <2>5, <2>6
<1>4. CASE Tick
  <2>1. DelayedSet' = DelayedSet
    BY <1>4, TickKeepsMembers DEF JobsInv, PlaceInv
  <2>2. Live' = Live /\ jobs' = jobs
    BY <1>4, <2>1 DEF Tick, Live
  <2> QED BY <2>2 DEF JobsInv
<1> QED BY <1>1, <1>2, <1>3, <1>4 DEF Maintenance

LEMMA HandleJobs ==
  ASSUME JobsInv, NEW w \in Workers, Handle(w)
  PROVE  Accounts(jobs', Live')
<1> DEFINE e == claim[w]
<1>s. ASSUME NEW gap, Settle(w, gap)
      PROVE  /\ e \in Entry /\ e \in processing /\ e \in Live /\ e \in Stored
             /\ processing' = processing \ {e} /\ UNCHANGED queued
  BY <1>s, SettlePlace DEF JobsInv, Live, Stored
(* The entry stays live. *)
<1>k. ASSUME NEW gap, Settle(w, gap), jobs' = jobs, UNCHANGED delayed,
             \/ raw' = raw \cup {e} /\ UNCHANGED ingest
             \/ ingest' = ingest \cup {e} /\ UNCHANGED raw
      PROVE  Accounts(jobs', Live')
  <2>1. Live' = Live
    BY <1>k, <1>s DEF Live, DelayedSet
  <2> QED BY <1>k, <2>1 DEF JobsInv
(* The entry is live no more. *)
<1>g. ASSUME NEW gap, Settle(w, gap), UNCHANGED <<delayed, ingest, raw>>
      PROVE  Live' = Live \ {e}
  BY <1>g, <1>s DEF Live, DelayedSet, JobsInv, PlaceInv, OnePlace
<1>f. ASSUME NEW gap, Settle(w, gap), UNCHANGED <<delayed, ingest, raw>>,
             jobs' = finish_job(jobs, {e})
      PROVE  Accounts(jobs', Live')
  <2>1. {e} \in SUBSET Live /\ (Job(e) \in Jobs => jobs[Job(e)].status # "none")
    BY <1>f, <1>s, LiveKnown DEF JobsInv
  <2>2. Accounts(finish_job(jobs, {e}), Live \ {e})
    BY <2>1, LiveType, FinishAccounts DEF JobsInv
  <2> QED BY <1>f, <1>g, <2>2
<1>1. CASE Push(w)
  BY <1>1, <1>k DEF Push
<1>2. ASSUME NEW gap \in {0, HostGap}, Finish(w, gap)
      PROVE  Accounts(jobs', Live')
  BY <1>2, <1>f DEF Finish
<1>3. CASE Reject(w)
  BY <1>3, <1>f DEF Reject
<1>4. CASE DropCorrupt(w)
  <2>1. Settle(w, 0) /\ UNCHANGED <<delayed, ingest, raw, jobs>> /\ Undecodable # {}
    BY <1>4 DEF DropCorrupt
  <2>2. Accounts(jobs, Live \ {e})
    BY <2>1, <1>s, LiveType, DropAccounts DEF JobsInv
  <2> QED BY <2>1, <2>2, <1>g
<1>5. ASSUME NEW wait \in 1..Backoff, Retry(w, wait)
      PROVE  Accounts(jobs', Live')
  <2> DEFINE next == [e EXCEPT !.attempts = @ + 1]
  <2>1. Settle(w, HostGap) /\ UNCHANGED <<ingest, raw>>
    BY <1>5 DEF Retry
  <2>2. CASE next.attempts >= MaxAttempts
    BY <1>5, <2>1, <2>2, <1>f DEF Retry
  <2>3. CASE ~(next.attempts >= MaxAttempts)
    <3>1. delayed' = [delayed EXCEPT ![next] = wait] /\ jobs' = jobs
      BY <1>5, <2>3 DEF Retry
    <3>2. e \in Entry /\ e \in Live /\ processing' = processing \ {e} /\ UNCHANGED queued
      BY <2>1, <1>s
    <3>3. next \in Entry /\ next.target = e.target /\ next # e
      BY <3>2, <2>3, NumbersAssumption DEF Entry
    <3>4. DelayedSet' = DelayedSet \cup {next}
      BY <3>1, <3>3, NumbersAssumption DEF DelayedSet, JobsInv, PlaceInv, TypeOK, Absent
    <3>5. Live' = (Live \ {e}) \cup {next}
      BY <2>1, <1>s, <3>2, <3>3, <3>4 DEF Live, JobsInv, PlaceInv, OnePlace
    <3>6. next \notin Live /\ Job(next) = Job(e)
      BY <3>2, <3>3 DEF JobsInv, PlaceInv, OnePlace, Stored, Job
    <3>7. Accounts(jobs, (Live \ {e}) \cup {next})
      BY <3>2, <3>3, <3>6, LiveType, RenameAccounts DEF JobsInv
    <3> QED BY <3>1, <3>5, <3>7
  <2> QED BY <2>2, <2>3
<1>6. CASE Release(w)
  BY <1>6, <1>k DEF Release
<1>7. CASE SettleStale(w)
  <2>1. Live' = Live /\ jobs' = jobs
    BY <1>7 DEF SettleStale, stores, Live, DelayedSet
  <2> QED BY <2>1 DEF JobsInv
<1> QED BY <1>1, <1>2, <1>3, <1>4, <1>5, <1>6, <1>7 DEF Handle

LEMMA WorkerJobs ==
  ASSUME JobsInv, NEW w \in Workers,
         TryClaim(w) \/ Handle(w) \/ Abandon(w) \/ Shutdown(w) \/ Restart(w)
  PROVE  Accounts(jobs', Live')
<1>1. ASSUME NEW e \in queued, NEW skipped \in SUBSET EmptyReady, Claim(w, e, skipped)
      PROVE  Accounts(jobs', Live')
  <2>1. Live' = Live /\ jobs' = Started(jobs, Job(e))
    BY <1>1 DEF Claim, Live, DelayedSet
  <2>2. Accounts(Started(jobs, Job(e)), Live)
    BY LiveType, StartedAccounts DEF JobsInv
  <2> QED BY <2>1, <2>2
<1>2. ASSUME UNCHANGED <<stores, jobs>>
      PROVE  Accounts(jobs', Live')
  <2>1. Live' = Live
    BY <1>2 DEF stores, Live, DelayedSet
  <2> QED BY <1>2, <2>1 DEF JobsInv
<1>3. ASSUME NEW skipped \in SUBSET EmptyReady, ClaimNothing(w, skipped)
      PROVE  Accounts(jobs', Live')
  BY <1>2, <1>3 DEF ClaimNothing
<1>4. CASE Abandon(w) \/ Shutdown(w) \/ Restart(w)
  BY <1>2, <1>4 DEF Abandon, Shutdown, Restart
<1> QED BY <1>1, <1>3, <1>4, HandleJobs DEF TryClaim

LEMMA JobsInductive == JobsInv /\ [Next]_vars => JobsInv'
<1> SUFFICES ASSUME JobsInv, [Next]_vars PROVE Accounts(jobs', Live')
  BY PlaceInductive DEF JobsInv
<1>1. CASE UNCHANGED vars
  <2>1. Live' = Live /\ jobs' = jobs
    BY <1>1 DEF vars, stores, Live, DelayedSet
  <2> QED BY <2>1 DEF JobsInv
<1>2. CASE Producers \/ Parser
  BY <1>2, ProducersJobs, ParserJobs
<1>3. ASSUME NEW w \in Workers,
             TryClaim(w) \/ Handle(w) \/ Abandon(w) \/ Shutdown(w) \/ Restart(w)
      PROVE  Accounts(jobs', Live')
  BY <1>3, WorkerJobs
<1>4. CASE Maintenance \/ Tick
  BY <1>4, MaintenanceJobs
<1> QED BY <1>1, <1>2, <1>3, <1>4 DEF Next

LEMMA JobsInvariant == Spec => []JobsInv
BY InitJobs, JobsInductive, PTL DEF Spec

-----------------------------------------------------------------------------
(* The theorems *)

(* No job is reported completed while a target of it is on its way, and the *)
(* counter is never below the number of those targets, even when Go rejects *)
(* entries and workers outlive their leases.                                *)
THEOREM NeverEarly == Spec => []NeverCompletedEarly
<1>1. JobsInv => NeverCompletedEarly
  <2> SUFFICES ASSUME JobsInv, NEW j \in Jobs
               PROVE  /\ jobs[j].outstanding >= Cardinality(OfJob(Live, j))
                      /\ jobs[j].status = "completed" => OfJob(Live, j) = {}
    BY DEF NeverCompletedEarly
  <2>1. Live \in SUBSET Entry /\ jobs[j].outstanding \in Int
    BY LiveType DEF JobsInv, JobHashes
  <2>2. Cardinality(OfJob(Live, j)) \in Nat
    BY <2>1, OfJobCounts
  <2>3. jobs[j].outstanding >= Cardinality(OfJob(Live, j))
    BY DEF JobsInv, Accounts
  <2>4. ASSUME jobs[j].status = "completed"
        PROVE  Cardinality(OfJob(Live, j)) = 0
    BY <2>1, <2>2, <2>3, <2>4 DEF JobsInv, Accounts
  <2> QED BY <2>1, <2>3, <2>4, NoneOfJob
<1> QED BY <1>1, JobsInvariant, PTL

(* If Go decodes every entry the gateway and the parser write, the counter  *)
(* is exactly the number of live targets.                                   *)
THEOREM AccountingExact ==
  ASSUME Undecodable = {}
  PROVE  Spec => []JobAccounting
<1>1. JobsInv => JobAccounting
  BY DEF JobsInv, Accounts, JobAccounting
<1> QED BY <1>1, JobsInvariant, PTL

LEMMA CompletedFromInv ==
  ASSUME JobsInv, Undecodable = {}
  PROVE  CompletedIffDrained
<1> SUFFICES ASSUME NEW j \in Jobs, jobs[j].status # "none"
             PROVE  jobs[j].status = "completed" <=> OfJob(Live, j) = {}
  BY DEF CompletedIffDrained
<1>1. Live \in SUBSET Entry
  BY LiveType DEF JobsInv
<1>2. Cardinality(OfJob(Live, j)) \in Nat
  BY <1>1, OfJobCounts
<1>3. jobs[j].status = "completed" <=> Cardinality(OfJob(Live, j)) = 0
  BY <1>2 DEF JobsInv, Accounts
<1> QED BY <1>1, <1>3, NoneOfJob

(* Then a job that exists is reported completed exactly while it has no     *)
(* live target.                                                             *)
THEOREM CompletionExact ==
  ASSUME Undecodable = {}
  PROVE  Spec => []CompletedIffDrained
BY CompletedFromInv, JobsInvariant, PTL

-----------------------------------------------------------------------------
(* Completed jobs stay completed *)

Reopens(j) == jobs[j].status = "completed" /\ jobs'[j].status # "completed"

ReplayedOf(j) == \E e \in dead \cup rawDead : Job(e) = j /\ e \notin dead' \cup rawDead'

(* Counting in reopens the jobs of the entries only, finishing none. *)
LEMMA WhoReopens ==
  ASSUME NEW js \in JobHashes, NEW j \in Jobs, js[j].status = "completed"
  PROVE  /\ \A F : finish_job(js, F)[j].status = "completed"
         /\ \A A : CountIn(js, A, TRUE)[j].status = "completed"
         /\ \A A : CountIn(js, A, FALSE)[j].status # "completed" => OfJob(A, j) # {}
         /\ \A i : Started(js, i)[j].status = "completed"
<1>1. \A F : finish_job(js, F)[j].status = "completed"
  BY DEF finish_job
<1>2. \A A : CountIn(js, A, TRUE)[j].status = "completed"
  BY DEF CountIn
<1>3. \A A : CountIn(js, A, FALSE)[j].status # "completed" => OfJob(A, j) # {}
  BY DEF CountIn
<1>4. \A i : Started(js, i)[j].status = "completed"
  BY DEF Started, JobHashes
<1> QED BY <1>1, <1>2, <1>3, <1>4

(* A live entry keeps its job from being completed. *)
LEMMA LiveNotCompleted ==
  ASSUME JobsInv, NEW e \in Live, Job(e) \in Jobs
  PROVE  jobs[Job(e)].status # "completed"
<1> DEFINE j == Job(e)
           n == Cardinality(OfJob(Live, j))
<1>1. Live \in SUBSET Entry /\ jobs[j].outstanding \in Int /\ e \in Stored
  BY LiveType DEF JobsInv, JobHashes, Live, Stored
<1>2. OfJob(Live, j) # {}
  BY DEF OfJob
<1>3. n \in Nat /\ n # 0
  BY <1>1, <1>2, OfJobCounts, NoneOfJob
<1>4. /\ jobs[j].outstanding >= n
      /\ jobs[j].status # "none" => (jobs[j].status = "completed" <=> jobs[j].outstanding <= 0)
  BY DEF JobsInv, Accounts
<1> HIDE DEF n, j
<1> QED BY <1>1, <1>3, <1>4 DEF j

LEMMA ReopenStep ==
  ASSUME JobsInv, NEW j \in Jobs, Reopens(j), [Next]_vars
  PROVE  ReplayedOf(j)
<1>1. jobs \in JobHashes /\ jobs[j].status = "completed" /\ jobs'[j].status # "completed"
  BY LiveType DEF JobsInv, Reopens
<1>2. ASSUME \/ jobs' = jobs
             \/ \E F : jobs' = finish_job(jobs, F)
             \/ \E A : jobs' = CountIn(jobs, A, TRUE)
             \/ \E i : jobs' = Started(jobs, i)
      PROVE  FALSE
  BY <1>1, <1>2, WhoReopens
<1>3. ASSUME NEW batch \in SUBSET dead, NEW dropped \in SUBSET batch,
             ReplayFrontier(batch, dropped)
      PROVE  ReplayedOf(j)
  <2> DEFINE back == {Fresh(e.target) : e \in batch \ dropped}
  <2>1. jobs' = CountIn(jobs, back, FALSE) /\ dead' = dead \ batch /\ rawDead' = rawDead
    BY <1>3 DEF ReplayFrontier
  <2>2. OfJob(back, j) # {}
    BY <1>1, <2>1, WhoReopens
  <2>3. PICK e \in batch : Job(e) = j
    BY <2>2 DEF OfJob, Fresh, Job
  <2> QED BY <2>1, <2>3 DEF ReplayedOf, JobsInv, PlaceInv, OnePlace
<1>4. ASSUME NEW batch \in SUBSET rawDead, NEW dropped \in SUBSET batch,
             ReplayRaw(batch, dropped)
      PROVE  ReplayedOf(j)
  <2>1. /\ jobs' = CountIn(jobs, batch \ dropped, FALSE)
        /\ rawDead' = rawDead \ batch /\ dead' = dead
    BY <1>4 DEF ReplayRaw
  <2>2. OfJob(batch \ dropped, j) # {}
    BY <1>1, <2>1, WhoReopens
  <2>3. PICK e \in batch : Job(e) = j
    BY <2>2 DEF OfJob
  <2> QED BY <2>1, <2>3 DEF ReplayedOf, JobsInv, PlaceInv, OnePlace
<1>5. ASSUME NEW e \in raw, NEW children \in SUBSET (Targets \ (Seeds \cup Foreign)),
             ParserCommit(e, children)
      PROVE  FALSE
  <2> DEFINE new == {Fresh(t) : t \in children}
             counted == CountIn(jobs, new, FALSE)
  <2>1. jobs' = finish_job(counted, {e})
    BY <1>5 DEF ParserCommit
  <2>2. new \in SUBSET Entry /\ \A n \in new : Job(n) = Job(e)
    BY <1>5, FreshType DEF ParserCommit, Job, Fresh
  <2>3. counted \in JobHashes
    BY <1>1, <2>2, CountInType
  <2>4. counted[j].status # "completed"
    BY <1>1, <2>1, <2>3, WhoReopens
  <2>5. OfJob(new, j) # {}
    BY <1>1, <2>4, WhoReopens
  <2>6. Job(e) = j
    BY <2>2, <2>5 DEF OfJob
  <2> QED BY <1>1, <2>6, LiveNotCompleted DEF Live
<1>6. CASE UNCHANGED vars
  BY <1>2, <1>6 DEF vars
<1>7. CASE Producers
  <2>1. ASSUME NEW batch, NEW force, Submit(batch, force)
        PROVE  FALSE
    BY <1>2, <2>1 DEF Submit
  <2>2. ASSUME NEW t, PushForeign(t)
        PROVE  FALSE
    BY <1>2, <2>2 DEF PushForeign
  <2> QED BY <1>3, <1>4, <1>7, <2>1, <2>2 DEF Producers
<1>8. CASE Parser
  <2>1. ASSUME NEW e, ParserDeadLetter(e)
        PROVE  FALSE
    BY <1>2, <2>1 DEF ParserDeadLetter
  <2> QED BY <1>5, <1>8, <2>1 DEF Parser
<1>9. ASSUME NEW w \in Workers,
             TryClaim(w) \/ Handle(w) \/ Abandon(w) \/ Shutdown(w) \/ Restart(w)
      PROVE  FALSE
  <2>1. CASE TryClaim(w)
    BY <1>2, <2>1 DEF TryClaim, Claim, ClaimNothing
  <2>2. CASE Handle(w)
    <3>1. jobs' = jobs \/ jobs' = finish_job(jobs, {claim[w]})
      BY <2>2 DEF Handle, Push, Finish, Reject, DropCorrupt, Retry, Release, SettleStale
    <3> QED BY <1>2, <3>1
  <2>3. CASE Abandon(w) \/ Shutdown(w) \/ Restart(w)
    BY <1>2, <2>3 DEF Abandon, Shutdown, Restart
  <2> QED BY <1>9, <2>1, <2>2, <2>3
<1>10. CASE Maintenance \/ Tick
  <2>1. jobs' = jobs \/ \E F : jobs' = finish_job(jobs, F)
    BY <1>10 DEF Maintenance, Route, Promote, Reap, Tick
  <2> QED BY <1>2, <2>1
<1> QED BY <1>6, <1>7, <1>8, <1>9, <1>10 DEF Next

(* Nothing but the replay of one of its dead letters starts a completed job *)
(* again, even when Go rejects entries of it.                               *)
THEOREM ReopenedOnlyByReplay == Spec => ReopenedByReplay
<1> DEFINE A == \A j \in Jobs : Reopens(j) => ReplayedOf(j)
<1>1. JobsInv /\ [Next]_vars => [A]_vars
  BY ReopenStep
<1>2. ReopenedByReplay <=> [][A]_vars
  BY DEF ReopenedByReplay, Reopens, ReplayedOf
<1> HIDE DEF A
<1> QED BY <1>1, <1>2, JobsInvariant, PTL DEF Spec

-----------------------------------------------------------------------------
(* The frontier implements CrawlJobs: whatever the queues, leases, workers  *)
(* and reapers do, targets and jobs only ever take the steps that the       *)
(* abstract specification knows.                                            *)

DeadEntries == dead \cup rawDead
KnownJobs == {j \in Jobs : jobs[j].status # "none"}
CompleteJobs == {j \in Jobs : jobs[j].status = "completed"}

Exact == JobsInv /\ Undecodable = {}

(* The report of a state: complete are the known jobs without live targets. *)
Reported == CompleteJobs = {j \in KnownJobs : j \notin Promise!JobsOf(TargetsOf(Live))}

-----------------------------------------------------------------------------
(* What the steps have in common *)

LEMMA ReportExact == Exact => Reported
<1> SUFFICES ASSUME Exact PROVE Reported
  OBVIOUS
<1>1. CompletedIffDrained
  BY CompletedFromInv DEF Exact
<1>2. \A j \in Jobs : OfJob(Live, j) = {} <=> j \notin Promise!JobsOf(TargetsOf(Live))
  BY DEF OfJob, Promise!JobsOf, TargetsOf, Job
<1> QED BY <1>1, <1>2 DEF CompletedIffDrained, KnownJobs, CompleteJobs, Reported

LEMMA ReportAfter == Exact' => Reported'
BY ReportExact, PTL

(* A step that keeps the live and dead targets, the seen URLs and the known *)
(* jobs keeps the report as well.                                           *)
LEMMA Stutters ==
  ASSUME Exact, Exact', TargetsOf(Live') = TargetsOf(Live), DeadEntries' = DeadEntries,
         seen' = seen, KnownJobs' = KnownJobs
  PROVE  UNCHANGED Promise!vars
<1>1. CompleteJobs' = CompleteJobs
  BY ReportExact, ReportAfter DEF Reported
<1> QED BY <1>1 DEF Promise!vars, DeadEntries, KnownJobs, CompleteJobs, TargetsOf

LEMMA Settles ==
  ASSUME Exact, Exact', NEW F \in SUBSET Live, F # {}, NEW B \in SUBSET F,
         Live' = Live \ F, DeadEntries' = DeadEntries \cup B,
         seen' = seen, KnownJobs' = KnownJobs
  PROVE  Promise!Next
<1>1. \A e, f \in Live : e.target = f.target => e = f
  BY DEF Exact, JobsInv, PlaceInv, OnePlace, Stored
<1>2. TargetsOf(Live') = TargetsOf(Live) \ TargetsOf(F)
  BY <1>1 DEF TargetsOf
<1>3. TargetsOf(DeadEntries') = TargetsOf(DeadEntries) \cup TargetsOf(B)
  BY DEF TargetsOf
<1>4. Promise!Report
  BY ReportAfter DEF Promise!Report, Reported, KnownJobs, CompleteJobs
<1>5. /\ TargetsOf(F) # {} /\ TargetsOf(F) \subseteq TargetsOf(Live)
      /\ TargetsOf(B) \subseteq TargetsOf(F)
  BY DEF TargetsOf
<1>6. Promise!Settle(TargetsOf(F), TargetsOf(B))
  BY <1>2, <1>3, <1>4, <1>5 DEF Promise!Settle, DeadEntries, KnownJobs
<1> QED BY <1>5, <1>6 DEF Promise!Next

(* Only a submission makes a job known. *)
LEMMA FinishKnown ==
  ASSUME NEW js \in JobHashes, NEW F \in SUBSET Entry, NEW j \in Jobs
  PROVE  finish_job(js, F)[j].status = "none" <=> js[j].status = "none"
BY DEF finish_job, JobHashes

LEMMA CountInKnown ==
  ASSUME NEW js \in JobHashes, NEW A \in SUBSET Entry, NEW j \in Jobs
  PROVE  CountIn(js, A, FALSE)[j].status = "none" <=> js[j].status = "none"
BY DEF CountIn, JobHashes

LEMMA StartedKnown ==
  ASSUME NEW js \in JobHashes, NEW i, NEW j \in Jobs
  PROVE  Started(js, i)[j].status = "none" <=> js[j].status = "none"
BY DEF Started, JobHashes

LEMMA SameKnown ==
  ASSUME Exact,
         \/ jobs' = jobs
         \/ \E F \in SUBSET Entry : jobs' = finish_job(jobs, F)
         \/ \E A \in SUBSET Entry : jobs' = CountIn(jobs, A, FALSE)
         \/ \E A, F \in SUBSET Entry : jobs' = finish_job(CountIn(jobs, A, FALSE), F)
         \/ \E i : jobs' = Started(jobs, i)
  PROVE  KnownJobs' = KnownJobs
<1>1. jobs \in JobHashes
  BY LiveType DEF Exact, JobsInv
<1> SUFFICES ASSUME NEW j \in Jobs
             PROVE  jobs'[j].status = "none" <=> jobs[j].status = "none"
  BY DEF KnownJobs
<1>2. ASSUME NEW F \in SUBSET Entry, jobs' = finish_job(jobs, F)
      PROVE  jobs'[j].status = "none" <=> jobs[j].status = "none"
  BY <1>1, <1>2, FinishKnown
<1>3. ASSUME NEW A \in SUBSET Entry, jobs' = CountIn(jobs, A, FALSE)
      PROVE  jobs'[j].status = "none" <=> jobs[j].status = "none"
  BY <1>1, <1>3, CountInKnown
<1>4. ASSUME NEW A \in SUBSET Entry, NEW F \in SUBSET Entry,
             jobs' = finish_job(CountIn(jobs, A, FALSE), F)
      PROVE  jobs'[j].status = "none" <=> jobs[j].status = "none"
  <2>1. CountIn(jobs, A, FALSE) \in JobHashes
    BY <1>1, CountInType
  <2>2. jobs'[j].status = "none" <=> CountIn(jobs, A, FALSE)[j].status = "none"
    BY <1>4, <2>1, FinishKnown
  <2>3. CountIn(jobs, A, FALSE)[j].status = "none" <=> jobs[j].status = "none"
    BY <1>1, CountInKnown
  <2> QED BY <2>2, <2>3
<1>5. ASSUME NEW i, jobs' = Started(jobs, i)
      PROVE  jobs'[j].status = "none" <=> jobs[j].status = "none"
  BY <1>1, <1>5, StartedKnown
<1> QED BY <1>2, <1>3, <1>4, <1>5

LEMMA StoredTypes ==
  ASSUME Exact
  PROVE  /\ Live \in SUBSET Entry /\ DeadEntries \in SUBSET Entry
         /\ Live \cap DeadEntries = {}
         /\ \A e, f \in Live \cup DeadEntries : e.target = f.target => e = f
BY LiveType DEF Exact, JobsInv, PlaceInv, OnePlace, Live, Stored, DeadEntries

LEMMA FreshTargets ==
  ASSUME NEW L, NEW S
  PROVE  TargetsOf(L \cup {Fresh(t) : t \in S}) = TargetsOf(L) \cup S
<1> DEFINE new == {Fresh(t) : t \in S}
<1>1. \A t : Fresh(t).target = t
  BY DEF Fresh
<1>2. \A t : t \in TargetsOf(new) <=> t \in S
  BY <1>1, Zenon DEF TargetsOf
<1> HIDE DEF new
<1>3. TargetsOf(L \cup new) = TargetsOf(L) \cup TargetsOf(new)
  BY DEF TargetsOf
<1> QED BY <1>2, <1>3 DEF new

-----------------------------------------------------------------------------
(* The producers and the parser *)

LEMMA SubmitPromise ==
  ASSUME Exact, Exact', NEW batch \in SUBSET Seeds, NEW force \in BOOLEAN,
         Submit(batch, force)
  PROVE  Promise!Next
<1> DEFINE added == {t \in batch : force \/ UrlOf[t] \notin seen}
           new == {Fresh(t) : t \in added}
           again == {UrlOf[t] : t \in batch \ added}
<1>1. added \in SUBSET Targets /\ again \in SUBSET seen
  BY SetsAssumption
<1>2. \A t \in added : JobOf[t] \in Jobs /\ jobs[JobOf[t]].status = "none"
  BY JobType, SetsAssumption DEF Submit
<1>3. \A e \in Live \cup DeadEntries : Job(e) \in Jobs => jobs[Job(e)].status # "none"
  BY LiveKnown DEF Exact, JobsInv, Stored, Live, DeadEntries
<1>4. added \cap (TargetsOf(Live) \cup TargetsOf(DeadEntries)) = {}
  BY <1>2, <1>3 DEF TargetsOf, Job
<1>5. Promise!JobsOf(added) \cap KnownJobs = {}
  BY <1>2 DEF Promise!JobsOf, KnownJobs
<1>6. TargetsOf(Live') = TargetsOf(Live) \cup added
  <2>1. Live' = Live \cup new
    BY DEF Submit, Live, DelayedSet
  <2> QED BY <2>1, FreshTargets
<1>7. seen' = seen \cup Promise!UrlsOf(added) \cup again
  BY DEF Submit, Promise!UrlsOf
<1>8. KnownJobs' = KnownJobs \cup Promise!JobsOf(added)
  <2>1. \A t \in added : Fresh(t) \in Entry /\ Job(Fresh(t)) = JobOf[t]
    BY <1>1, FreshType DEF Job
  <2>2. \A j \in Jobs : OfJob(new, j) = {} <=> j \notin Promise!JobsOf(added)
    BY <2>1 DEF OfJob, Promise!JobsOf
  <2>3. jobs' = CountIn(jobs, new, TRUE) /\ jobs \in JobHashes
    BY LiveType DEF Submit, Exact, JobsInv
  <2>4. \A j \in Jobs : jobs'[j].status # "none"
                          <=> jobs[j].status # "none" \/ j \in Promise!JobsOf(added)
    BY <2>2, <2>3 DEF CountIn, JobHashes
  <2>5. Promise!JobsOf(added) \subseteq Jobs
    BY DEF Promise!JobsOf
  <2> QED BY <2>4, <2>5 DEF KnownJobs
<1>9. DeadEntries' = DeadEntries
  BY DEF Submit, DeadEntries
<1>10. Promise!Report
  BY ReportAfter DEF Promise!Report, Reported, KnownJobs, CompleteJobs
<1> HIDE DEF added, again
<1>11. PICK S \in SUBSET Targets : S = added
  BY <1>1
<1>12. PICK A \in SUBSET seen : A = again
  BY <1>1
<1>13. Promise!Submit(S, A)
  BY <1>1, <1>4, <1>5, <1>6, <1>7, <1>8, <1>9, <1>10, <1>11, <1>12
  DEF Promise!Submit, DeadEntries, KnownJobs
<1> QED BY <1>13 DEF Promise!Next

LEMMA PushPromise ==
  ASSUME Exact, Exact', NEW t \in Foreign, PushForeign(t)
  PROVE  Promise!Next
<1>1. t \in Targets /\ Promise!JobsOf({t}) = {}
  BY SetsAssumption, FieldsAssumption DEF Promise!JobsOf
<1>2. t \notin TargetsOf(Live) \cup TargetsOf(DeadEntries)
  BY DEF PushForeign, TargetsOf, Stored, DeadEntries
<1>3. TargetsOf(Live') = TargetsOf(Live) \cup {t}
  <2>1. Live' = Live \cup {Fresh(t)}
    BY DEF PushForeign, Live, DelayedSet
  <2>2. Live' = Live \cup {Fresh(c) : c \in {t}}
    BY <2>1
  <2> QED BY <2>2, FreshTargets
<1>4. UNCHANGED <<TargetsOf(DeadEntries), seen, KnownJobs, CompleteJobs>>
  BY DEF PushForeign, DeadEntries, KnownJobs, CompleteJobs
<1>5. Promise!Push(t)
  BY <1>1, <1>2, <1>3, <1>4 DEF Promise!Push, DeadEntries, KnownJobs, CompleteJobs
<1> QED BY <1>1, <1>5 DEF Promise!Next

LEMMA Replays ==
  ASSUME Exact, Exact', NEW batch \in SUBSET DeadEntries, NEW dropped \in SUBSET batch,
         batch # {}, DeadEntries' = DeadEntries \ batch,
         TargetsOf(Live') = TargetsOf(Live) \cup TargetsOf(batch \ dropped),
         seen' = seen, KnownJobs' = KnownJobs
  PROVE  Promise!Next
<1> DEFINE back == TargetsOf(batch \ dropped)
           lost == TargetsOf(dropped)
<1>1. /\ back \cup lost # {} /\ back \cup lost \subseteq TargetsOf(DeadEntries)
      /\ back \cap lost = {}
      /\ TargetsOf(DeadEntries') = TargetsOf(DeadEntries) \ (back \cup lost)
  BY StoredTypes DEF TargetsOf
<1>2. Promise!Report
  BY ReportAfter DEF Promise!Report, Reported, KnownJobs, CompleteJobs
<1> HIDE DEF back, lost
<1>3. TargetsOf(Live') = TargetsOf(Live) \cup back
  BY DEF back
<1>4. Promise!Replay(back, lost)
  BY <1>1, <1>2, <1>3 DEF Promise!Replay, DeadEntries, KnownJobs
<1>5. back \in SUBSET TargetsOf(DeadEntries) /\ lost \in SUBSET TargetsOf(DeadEntries)
  BY <1>1
<1> QED BY <1>4, <1>5 DEF Promise!Next, DeadEntries

LEMMA ProducersPromise ==
  ASSUME Exact, Exact', Producers
  PROVE  Promise!Next
<1>1. ASSUME NEW batch \in SUBSET dead, NEW dropped \in SUBSET batch,
             ReplayFrontier(batch, dropped)
      PROVE  Promise!Next
  <2> DEFINE back == {Fresh(e.target) : e \in batch \ dropped}
  <2>1. Live' = Live \cup back
    BY <1>1 DEF ReplayFrontier, Live, DelayedSet
  <2>2. TargetsOf(Live') = TargetsOf(Live) \cup TargetsOf(batch \ dropped)
    <3>1. back = {Fresh(t) : t \in TargetsOf(batch \ dropped)}
      BY DEF TargetsOf
    <3> QED BY <2>1, <3>1, FreshTargets
  <2>3. back \in SUBSET Entry
    BY StoredTypes, FreshType DEF DeadEntries, Entry
  <2>4. KnownJobs' = KnownJobs
    BY <1>1, <2>3, SameKnown DEF ReplayFrontier
  <2>5. DeadEntries' = DeadEntries \ batch /\ batch \in SUBSET DeadEntries
    BY <1>1 DEF ReplayFrontier, DeadEntries, Exact, JobsInv, PlaceInv, OnePlace
  <2>6. batch # {} /\ seen' = seen
    BY <1>1 DEF ReplayFrontier
  <2> QED BY <2>2, <2>4, <2>5, <2>6, Replays
<1>2. ASSUME NEW batch \in SUBSET rawDead, NEW dropped \in SUBSET batch,
             ReplayRaw(batch, dropped)
      PROVE  Promise!Next
  <2>1. Live' = Live \cup (batch \ dropped)
    BY <1>2 DEF ReplayRaw, Live, DelayedSet
  <2>2. TargetsOf(Live') = TargetsOf(Live) \cup TargetsOf(batch \ dropped)
    BY <2>1 DEF TargetsOf
  <2>3. batch \ dropped \in SUBSET Entry
    BY StoredTypes DEF DeadEntries
  <2>4. KnownJobs' = KnownJobs
    BY <1>2, <2>3, SameKnown DEF ReplayRaw
  <2>5. DeadEntries' = DeadEntries \ batch /\ batch \in SUBSET DeadEntries
    BY <1>2 DEF ReplayRaw, DeadEntries, Exact, JobsInv, PlaceInv, OnePlace
  <2>6. batch # {} /\ seen' = seen
    BY <1>2 DEF ReplayRaw
  <2> QED BY <2>2, <2>4, <2>5, <2>6, Replays
<1> QED BY <1>1, <1>2, SubmitPromise, PushPromise DEF Producers

LEMMA ParsePromise ==
  ASSUME Exact, Exact', NEW e \in raw,
         NEW children \in SUBSET (Targets \ (Seeds \cup Foreign)), ParserCommit(e, children)
  PROVE  Promise!Next
<1> DEFINE t == e.target
           new == {Fresh(c) : c \in children}
<1>1. e \in Live /\ t \in TargetsOf(Live)
  BY DEF Live, TargetsOf
<1>2. \A n \in Live \cup DeadEntries : n.target \notin Foreign => UrlOf[n.target] \in seen
  BY DEF Exact, JobsInv, PlaceInv, KnownTargets, Stored, DeadEntries
<1>3. children \cap (TargetsOf(Live) \cup TargetsOf(DeadEntries)) = {}
  BY <1>2 DEF ParserCommit, TargetsOf
<1>4. /\ Promise!JobsOf(children) \subseteq Promise!JobsOf({t})
      /\ Promise!UrlsOf(children) \cap seen = {}
      /\ seen' = seen \cup Promise!UrlsOf(children)
  BY DEF ParserCommit, Promise!JobsOf, Promise!UrlsOf, Job
<1>5. TargetsOf(Live') = (TargetsOf(Live) \ {t}) \cup children
  <2>1. new \cap Live = {}
    BY <1>3 DEF TargetsOf, Fresh
  <2>2. Live' = (Live \ {e}) \cup new
    BY <1>1, <2>1 DEF ParserCommit, Live, DelayedSet, Exact, JobsInv, PlaceInv, OnePlace
  <2>3. TargetsOf(Live \ {e}) = TargetsOf(Live) \ {t}
    BY <1>1, StoredTypes DEF TargetsOf
  <2> QED BY <2>2, <2>3, FreshTargets
<1>6. KnownJobs' = KnownJobs
  <2>1. new \in SUBSET Entry /\ {e} \in SUBSET Entry
    BY <1>1, FreshType, StoredTypes
  <2>2. jobs' = finish_job(CountIn(jobs, new, FALSE), {e})
    BY DEF ParserCommit
  <2> QED BY <2>1, <2>2, SameKnown
<1>7. DeadEntries' = DeadEntries
  BY DEF ParserCommit, DeadEntries
<1>8. Promise!Report
  BY ReportAfter DEF Promise!Report, Reported, KnownJobs, CompleteJobs
<1> HIDE DEF t
<1>9. Promise!Parse(t, children)
  BY <1>1, <1>3, <1>4, <1>5, <1>6, <1>7, <1>8 DEF Promise!Parse, DeadEntries, KnownJobs
<1>10. children \in SUBSET Targets
  OBVIOUS
<1> QED BY <1>1, <1>9, <1>10 DEF Promise!Next

LEMMA ParserPromise ==
  ASSUME Exact, Exact', Parser
  PROVE  Promise!Next
<1>1. ASSUME NEW e \in raw, ParserDeadLetter(e)
      PROVE  Promise!Next
  <2>1. {e} \in SUBSET Live /\ {e} \in SUBSET Entry
    BY StoredTypes DEF Live
  <2>2. Live' = Live \ {e}
    BY <1>1 DEF ParserDeadLetter, Live, DelayedSet, Exact, JobsInv, PlaceInv, OnePlace
  <2>3. DeadEntries' = DeadEntries \cup {e} /\ seen' = seen
    BY <1>1 DEF ParserDeadLetter, DeadEntries
  <2>4. KnownJobs' = KnownJobs
    BY <1>1, <2>1, SameKnown DEF ParserDeadLetter
  <2> QED BY <2>1, <2>2, <2>3, <2>4, Settles
<1> QED BY <1>1, ParsePromise DEF Parser

-----------------------------------------------------------------------------
(* Maintenance and workers *)

LEMMA MaintenancePromise ==
  ASSUME Exact, Exact', Maintenance \/ Tick
  PROVE  Promise!Next \/ UNCHANGED Promise!vars
<1>1. ASSUME NEW batch \in SUBSET ingest, Route(batch)
      PROVE  Promise!Next \/ UNCHANGED Promise!vars
  <2> DEFINE lost == {e \in batch : e.target \in Foreign}
             done == batch \ ((batch \ lost) \ queued)
  <2>1. done = lost /\ lost \in SUBSET Live
    BY DEF Exact, JobsInv, PlaceInv, OnePlace, Live
  <2>2. Live' = Live \ lost
    BY <1>1 DEF Route, Live, DelayedSet, Exact, JobsInv, PlaceInv, OnePlace
  <2>3. jobs' = finish_job(jobs, done) /\ DeadEntries' = DeadEntries \cup lost /\ seen' = seen
    BY <1>1 DEF Route, DeadEntries
  <2>4. KnownJobs' = KnownJobs
    BY <2>1, <2>3, StoredTypes, SameKnown
  <2> HIDE DEF lost, done
  <2>5. CASE lost = {}
    <3>1. Live' = Live /\ DeadEntries' = DeadEntries
      BY <2>2, <2>3, <2>5
    <3> QED BY <2>3, <2>4, <3>1, Stutters
  <2>6. CASE lost # {}
    BY <2>1, <2>2, <2>3, <2>4, <2>6, Settles
  <2> QED BY <2>5, <2>6
<1>2. ASSUME NEW batch \in SUBSET DelayedSet, Promote(batch)
      PROVE  UNCHANGED Promise!vars
  <2>1. DelayedSet' = DelayedSet \ batch
    BY <1>2 DEF Promote, DelayedSet, Exact, JobsInv, PlaceInv, TypeOK
  <2>2. Live' = Live /\ DeadEntries' = DeadEntries /\ seen' = seen /\ jobs' = jobs
    BY <1>2, <2>1 DEF Promote, Live, DeadEntries
  <2>3. KnownJobs' = KnownJobs
    BY <2>2, SameKnown
  <2> QED BY <2>2, <2>3, Stutters
<1>3. ASSUME Reap
      PROVE  Promise!Next \/ UNCHANGED Promise!vars
  <2>1. Exhausted \subseteq Expired /\ Expired \subseteq processing
    BY DEF Expired, Exhausted
  <2>2. Exhausted \in SUBSET Live
    BY <2>1 DEF Live
  <2>3. processing' = processing \ Expired /\ ingest' = ingest \cup (Expired \ Exhausted)
        /\ UNCHANGED <<queued, delayed, raw>>
    BY <1>3 DEF Reap
  <2>4. Live' = Live \ Exhausted
    BY <2>1, <2>3 DEF Live, DelayedSet, Exact, JobsInv, PlaceInv, OnePlace
  <2>5. /\ jobs' = finish_job(jobs, Exhausted)
        /\ DeadEntries' = DeadEntries \cup Exhausted /\ seen' = seen
    BY <1>3 DEF Reap, DeadEntries
  <2>6. KnownJobs' = KnownJobs
    BY <2>2, <2>5, StoredTypes, SameKnown
  <2>7. CASE Exhausted = {}
    <3>1. Live' = Live /\ DeadEntries' = DeadEntries
      BY <2>4, <2>5, <2>7
    <3> QED BY <2>5, <2>6, <3>1, Stutters
  <2>8. CASE Exhausted # {}
    BY <2>2, <2>4, <2>5, <2>6, <2>8, Settles
  <2> QED BY <2>7, <2>8
<1>4. ASSUME Tick
      PROVE  UNCHANGED Promise!vars
  <2>1. DelayedSet' = DelayedSet
    BY <1>4, TickKeepsMembers DEF Exact, JobsInv, PlaceInv
  <2>2. Live' = Live /\ DeadEntries' = DeadEntries /\ seen' = seen /\ jobs' = jobs
    BY <1>4, <2>1 DEF Tick, Live, DeadEntries
  <2>3. KnownJobs' = KnownJobs
    BY <2>2, SameKnown
  <2> QED BY <2>2, <2>3, Stutters
<1> QED BY <1>1, <1>2, <1>3, <1>4 DEF Maintenance

LEMMA HandlePromise ==
  ASSUME Exact, Exact', NEW w \in Workers, Handle(w)
  PROVE  Promise!Next \/ UNCHANGED Promise!vars
<1> DEFINE e == claim[w]
<1>s. ASSUME NEW gap, Settle(w, gap)
      PROVE  /\ e \in Entry /\ e \in processing /\ e \in Live
             /\ processing' = processing \ {e} /\ seen' = seen
             /\ UNCHANGED <<queued, rawDead>>
  BY <1>s, SettlePlace DEF Exact, JobsInv, Live
(* The entry stays live. *)
<1>k. ASSUME NEW gap, Settle(w, gap), jobs' = jobs, UNCHANGED <<delayed, dead>>,
             \/ raw' = raw \cup {e} /\ UNCHANGED ingest
             \/ ingest' = ingest \cup {e} /\ UNCHANGED raw
      PROVE  UNCHANGED Promise!vars
  <2>1. Live' = Live /\ DeadEntries' = DeadEntries /\ seen' = seen
    BY <1>k, <1>s DEF Live, DelayedSet, DeadEntries
  <2>2. KnownJobs' = KnownJobs
    BY <1>k, SameKnown
  <2> QED BY <2>1, <2>2, Stutters
(* The entry gets its outcome, in B if it is a dead letter. *)
<1>f. ASSUME NEW gap, Settle(w, gap), UNCHANGED <<delayed, ingest, raw>>,
             jobs' = finish_job(jobs, {e}), NEW B \in SUBSET {e}, dead' = dead \cup B
      PROVE  Promise!Next
  <2>1. /\ Live' = Live \ {e} /\ DeadEntries' = DeadEntries \cup B
        /\ {e} \in SUBSET Live /\ seen' = seen
    BY <1>f, <1>s DEF Live, DelayedSet, DeadEntries, Exact, JobsInv, PlaceInv, OnePlace
  <2>2. KnownJobs' = KnownJobs
    BY <1>f, <1>s, SameKnown
  <2> QED BY <2>1, <2>2, Settles
<1>1. CASE Push(w)
  BY <1>1, <1>k DEF Push
<1>2. ASSUME NEW gap \in {0, HostGap}, Finish(w, gap)
      PROVE  Promise!Next
  <2>1. dead' = dead \cup {}
    BY <1>2 DEF Finish
  <2> QED BY <1>2, <2>1, <1>f DEF Finish
<1>3. CASE Reject(w)
  BY <1>3, <1>f DEF Reject
<1>4. CASE DropCorrupt(w)
  BY <1>4 DEF DropCorrupt, Exact
<1>5. ASSUME NEW wait \in 1..Backoff, Retry(w, wait)
      PROVE  Promise!Next \/ UNCHANGED Promise!vars
  <2> DEFINE next == [e EXCEPT !.attempts = @ + 1]
  <2>1. Settle(w, HostGap) /\ UNCHANGED <<ingest, raw>>
    BY <1>5 DEF Retry
  <2>2. CASE next.attempts >= MaxAttempts
    BY <1>5, <2>1, <2>2, <1>f DEF Retry
  <2>3. CASE ~(next.attempts >= MaxAttempts)
    <3>1. delayed' = [delayed EXCEPT ![next] = wait] /\ jobs' = jobs /\ dead' = dead
      BY <1>5, <2>3 DEF Retry
    <3>2. /\ e \in Entry /\ e \in Live /\ processing' = processing \ {e}
          /\ UNCHANGED <<queued, rawDead>> /\ seen' = seen
      BY <2>1, <1>s
    <3>3. next \in Entry /\ next.target = e.target /\ next # e
      BY <3>2, <2>3, NumbersAssumption DEF Entry
    <3>4. DelayedSet' = DelayedSet \cup {next}
      BY <3>1, <3>3, NumbersAssumption DEF DelayedSet, Exact, JobsInv, PlaceInv, TypeOK, Absent
    <3>5. Live' = (Live \ {e}) \cup {next}
      BY <2>1, <1>s, <3>2, <3>3, <3>4 DEF Live, Exact, JobsInv, PlaceInv, OnePlace
    <3> HIDE DEF next
    <3>6. TargetsOf(Live') = TargetsOf(Live)
      BY <3>2, <3>3, <3>5 DEF TargetsOf
    <3>7. DeadEntries' = DeadEntries
      BY <3>1, <3>2 DEF DeadEntries
    <3>8. KnownJobs' = KnownJobs
      BY <3>1, SameKnown
    <3> QED BY <3>2, <3>6, <3>7, <3>8, Stutters
  <2> QED BY <2>2, <2>3
<1>6. CASE Release(w)
  BY <1>6, <1>k DEF Release
<1>7. CASE SettleStale(w)
  <2>1. Live' = Live /\ DeadEntries' = DeadEntries /\ seen' = seen /\ jobs' = jobs
    BY <1>7 DEF SettleStale, stores, Live, DelayedSet, DeadEntries
  <2>2. KnownJobs' = KnownJobs
    BY <2>1, SameKnown
  <2> QED BY <2>1, <2>2, Stutters
<1> QED BY <1>1, <1>2, <1>3, <1>4, <1>5, <1>6, <1>7 DEF Handle

LEMMA WorkerPromise ==
  ASSUME Exact, Exact', NEW w \in Workers,
         TryClaim(w) \/ Handle(w) \/ Abandon(w) \/ Shutdown(w) \/ Restart(w)
  PROVE  Promise!Next \/ UNCHANGED Promise!vars
<1>1. ASSUME NEW e \in queued, NEW skipped \in SUBSET EmptyReady, Claim(w, e, skipped)
      PROVE  UNCHANGED Promise!vars
  <2>1. /\ Live' = Live /\ DeadEntries' = DeadEntries /\ seen' = seen
        /\ jobs' = Started(jobs, Job(e))
    BY <1>1 DEF Claim, Live, DelayedSet, DeadEntries
  <2>2. KnownJobs' = KnownJobs
    BY <2>1, SameKnown
  <2> QED BY <2>1, <2>2, Stutters
<1>2. ASSUME UNCHANGED <<stores, jobs, seen>>
      PROVE  UNCHANGED Promise!vars
  <2>1. Live' = Live /\ DeadEntries' = DeadEntries /\ seen' = seen /\ jobs' = jobs
    BY <1>2 DEF stores, Live, DelayedSet, DeadEntries
  <2>2. KnownJobs' = KnownJobs
    BY <2>1, SameKnown
  <2> QED BY <2>1, <2>2, Stutters
<1>3. ASSUME NEW skipped \in SUBSET EmptyReady, ClaimNothing(w, skipped)
      PROVE  UNCHANGED Promise!vars
  BY <1>2, <1>3 DEF ClaimNothing
<1>4. CASE Abandon(w) \/ Shutdown(w) \/ Restart(w)
  BY <1>2, <1>4 DEF Abandon, Shutdown, Restart
<1> QED BY <1>1, <1>3, <1>4, HandlePromise DEF TryClaim

-----------------------------------------------------------------------------
(* The theorem *)

LEMMA InitPromise == Init => Promise!Init
<1> SUFFICES ASSUME Init PROVE Promise!Init
  OBVIOUS
<1>1. Live = {} /\ dead \cup rawDead = {} /\ seen = {}
  BY DEF Init, Live, DelayedSet
<1>2. \A j \in Jobs : jobs[j].status = "none"
  BY DEF Init
<1> QED BY <1>1, <1>2 DEF Promise!Init, TargetsOf

LEMMA StepPromise ==
  ASSUME Undecodable = {}
  PROVE  JobsInv /\ JobsInv' /\ [Next]_vars => [Promise!Next]_(Promise!vars)
<1> SUFFICES ASSUME Exact, Exact', [Next]_vars
             PROVE  Promise!Next \/ UNCHANGED Promise!vars
  BY DEF Exact
<1>1. CASE UNCHANGED vars
  <2>1. Live' = Live /\ DeadEntries' = DeadEntries /\ seen' = seen /\ jobs' = jobs
    BY <1>1 DEF vars, stores, Live, DelayedSet, DeadEntries
  <2>2. KnownJobs' = KnownJobs
    BY <2>1, SameKnown
  <2> QED BY <2>1, <2>2, Stutters
<1>2. CASE Producers \/ Parser
  BY <1>2, ProducersPromise, ParserPromise
<1>3. ASSUME NEW w \in Workers,
             TryClaim(w) \/ Handle(w) \/ Abandon(w) \/ Shutdown(w) \/ Restart(w)
      PROVE  Promise!Next \/ UNCHANGED Promise!vars
  BY <1>3, WorkerPromise
<1>4. CASE Maintenance \/ Tick
  BY <1>4, MaintenancePromise
<1> QED BY <1>1, <1>2, <1>3, <1>4 DEF Next

(* The frontier keeps the promise of CrawlJobs, workers that outlive their  *)
(* leases included, if Go decodes every entry the gateway and the parser    *)
(* write: an entry it rejects leaves its job's report behind (DropCorrupt). *)
THEOREM Implements ==
  ASSUME Undecodable = {}
  PROVE  Spec => KeepsPromise
<1>1. Init => Promise!Init
  BY InitPromise
<1>2. JobsInv /\ JobsInv' /\ [Next]_vars => [Promise!Next]_(Promise!vars)
  BY StepPromise
<1> QED BY <1>1, <1>2, JobsInvariant, PTL DEF Spec, KeepsPromise, Promise!Spec

=============================================================================
