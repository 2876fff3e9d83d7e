------------------------------ MODULE Frontier ------------------------------
(***************************************************************************)
(* The URL frontier: the Redis structures the gateway, the crawler workers, *)
(* the crawler's maintenance loop and the parser share, and every Lua       *)
(* script that changes them.  One action is one script (Redis runs it       *)
(* atomically) together with the local state of its caller.                 *)
(*                                                                         *)
(* Abstractions.  A CrawlTarget is a model value with its job, URL and      *)
(* priority; a queue entry (its JSON) is the target plus its attempt count, *)
(* the one field that the crawler changes, so two entries are the same      *)
(* string, and have the same SHA-1, exactly when they are the same record.  *)
(* A list is the set of its entries: a job id is a fresh UUID and a child   *)
(* URL is pushed once, so no producer sends one string twice.  A sorted set *)
(* scored by a time is the function entry -> time left, Absent when the     *)
(* entry is not a member and 0 when it is due.  Order inside a list and     *)
(* among due members is left open.                                          *)
(***************************************************************************)
EXTENDS Integers, FiniteSets

CONSTANTS
  Targets,         \* CrawlTargets (a URL within a job)
  Seeds,           \* those the gateway submits; their job id is a new UUID
  Foreign,         \* entries without an http(s) host, pushed by hand
  Undecodable,     \* targets cjson reads and Go's json.Unmarshal rejects
  Jobs, NoJob,     \* job ids
  Urls, Hosts,
  JobOf, UrlOf, PriorityOf,   \* fields of a target
  HostOf,                     \* the host of a URL
  Workers, NoWorker, NoEntry,
  MaxAttempts,     \* MAX_ATTEMPTS
  MaxRedeliveries, \* MAX_REDELIVERIES
  Visibility,      \* VISIBILITY_TIMEOUT_SEC, in ticks
  HostGap,         \* politeness gap after a request, in ticks
  Backoff,         \* longest retry backoff, in ticks
  RouteBatch, PromoteBatch, ScanLimit,
  Overrun,         \* may a live worker hold a claim past its lease?
  MaxShutdowns, MaxReplays    \* bounds on what operators do

Absent == -1

ASSUME SetsAssumption ==
  /\ IsFiniteSet(Targets) /\ Seeds \subseteq Targets /\ Foreign \subseteq Targets
  /\ Seeds \cap Foreign = {} /\ Undecodable \subseteq Targets \ Foreign
  /\ NoJob \notin Jobs /\ NoWorker \notin Workers
ASSUME FieldsAssumption ==
  /\ JobOf \in [Targets -> Jobs \cup {NoJob}]
  /\ \A t \in Targets : JobOf[t] = NoJob <=> t \in Foreign
  /\ UrlOf \in [Targets -> Urls]
  /\ HostOf \in [Urls -> Hosts]
  /\ PriorityOf \in [Targets -> 1..10]
  /\ \A s1, s2 \in Seeds : JobOf[s1] = JobOf[s2] => s1 = s2
ASSUME NumbersAssumption ==
  /\ MaxAttempts \in Nat \ {0}
  /\ MaxRedeliveries \in Nat /\ Visibility \in Nat \ {0}
  /\ HostGap \in Nat /\ Backoff \in Nat
  /\ RouteBatch \in Nat \ {0} /\ PromoteBatch \in Nat \ {0}
  /\ ScanLimit \in Nat \ {0}
  /\ Overrun \in BOOLEAN
  /\ MaxShutdowns \in Nat /\ MaxReplays \in Nat

Entry == [target : Targets, attempts : 0..(MaxAttempts - 1)]
ASSUME NoEntryAssumption == NoEntry \notin Entry

Job(e) == JobOf[e.target]
Host(e) == HostOf[UrlOf[e.target]]
Status == {"none", "enqueued", "running", "completed"}

VARIABLES
  ingest,        \* frontier:queue
  queued,        \* the union of the frontier:host:<host> sets
  scheduled,     \* frontier:scheduled
  hosts,         \* frontier:hosts, time until the host may be contacted
  processing,    \* frontier:processing
  lease,         \* frontier:leases, time left
  redeliveries,  \* frontier:redeliveries, 0 when the field is missing
  delayed,       \* frontier:delayed, time left
  dead,          \* frontier:dead
  raw,           \* pages handed to the parser and not yet settled by it
  rawDead,       \* queue:raw_pages:dead
  seen,          \* the seen filter (bloom:url_seen or set:seen_urls)
  jobs,          \* job:<id>: outstanding and status
  claim,         \* worker -> the entry it holds
  stopping,      \* workers whose context is cancelled
  holder,        \* history: entry -> the worker that took it last
  shutdowns, replays

stores == <<ingest, queued, processing, delayed, dead, raw, rawDead>>
vars == <<stores, scheduled, hosts, lease, redeliveries, seen, jobs, claim,
          stopping, holder, shutdowns, replays>>

DelayedSet == {e \in Entry : delayed[e] # Absent}

(* An entry whose outcome is still to come: it counts as outstanding. *)
Live == ingest \cup queued \cup processing \cup DelayedSet \cup raw
Stored == Live \cup dead \cup rawDead

TypeOK ==
  /\ ingest \subseteq Entry /\ queued \subseteq Entry /\ processing \subseteq Entry
  /\ dead \subseteq Entry /\ raw \subseteq Entry /\ rawDead \subseteq Entry
  /\ scheduled \in Int
  /\ hosts \in [Hosts -> Absent..(Visibility + HostGap)]
  /\ lease \in [Entry -> Absent..Visibility]
  /\ redeliveries \in [Entry -> 0..MaxRedeliveries]
  /\ delayed \in [Entry -> Absent..Backoff]
  /\ seen \subseteq Urls
  /\ jobs \in [Jobs -> [outstanding : Int, status : Status]]
  /\ claim \in [Workers -> Entry \cup {NoEntry}]
  /\ stopping \subseteq Workers
  /\ holder \in [Entry -> Workers \cup {NoWorker}]
  /\ shutdowns \in 0..MaxShutdowns /\ replays \in 0..MaxReplays

Init ==
  /\ ingest = {} /\ queued = {} /\ processing = {}
  /\ dead = {} /\ raw = {} /\ rawDead = {}
  /\ scheduled = 0
  /\ hosts = [h \in Hosts |-> Absent]
  /\ lease = [e \in Entry |-> Absent]
  /\ redeliveries = [e \in Entry |-> 0]
  /\ delayed = [e \in Entry |-> Absent]
  /\ seen = {}
  /\ jobs = [j \in Jobs |-> [outstanding |-> 0, status |-> "none"]]
  /\ claim = [w \in Workers |-> NoEntry]
  /\ stopping = {}
  /\ holder = [e \in Entry |-> NoWorker]
  /\ shutdowns = 0 /\ replays = 0

-----------------------------------------------------------------------------
(* Job bookkeeping.  Each operator maps the job hashes to the job hashes    *)
(* after a script has handled a set of entries.                             *)

OfJob(E, j) == {e \in E : Job(e) = j}

finish_jobOnce(js, F) ==   \* a mutated form: once per script, not per entry
  [j \in Jobs |->
     LET left == js[j].outstanding - 1
     IN  IF js[j].status = "none" \/ OfJob(F, j) = {} THEN js[j]
         ELSE [outstanding |-> left,
               status |-> IF left <= 0 THEN "completed" ELSE js[j].status]]

finish_job(js, F) ==
  [j \in Jobs |->
     LET left == js[j].outstanding - Cardinality(OfJob(F, j))
     IN  IF js[j].status = "none" \/ OfJob(F, j) = {} THEN js[j]
         ELSE [outstanding |-> left,
               status |-> IF left <= 0 THEN "completed" ELSE js[j].status]]

CountInSilently(js, A, record) ==   \* a mutated form: never reopens a job
  [j \in Jobs |->
     IF OfJob(A, j) = {} THEN js[j]
     ELSE [outstanding |-> js[j].outstanding + Cardinality(OfJob(A, j)),
           status |-> IF js[j].status = "none" THEN "enqueued" ELSE js[j].status]]

(* HINCRBY outstanding 1 for each entry of A.  With record (seeds) a new    *)
(* job starts as enqueued, otherwise a completed one is running again.      *)
CountIn(js, A, record) ==
  [j \in Jobs |->
     IF OfJob(A, j) = {} THEN js[j]
     ELSE [outstanding |-> js[j].outstanding + Cardinality(OfJob(A, j)),
           status |-> IF record
                      THEN IF js[j].status = "none" THEN "enqueued"
                                                    ELSE js[j].status
                      ELSE IF js[j].status = "completed" THEN "running"
                                                         ELSE js[j].status]]

Fresh(t) == [target |-> t, attempts |-> 0]

-----------------------------------------------------------------------------
(* Producers *)

(* POST /api/jobs and /api/jobs/batch.  The batch has one target per        *)
(* canonical URL, each with a new job id.  Without force a URL that was     *)
(* seen before is skipped.                                                  *)
Submit(batch, force) ==
  LET added == {t \in batch : force \/ UrlOf[t] \notin seen}
      new == {Fresh(t) : t \in added}
  IN  /\ \A t \in batch : jobs[JobOf[t]].status = "none"
      /\ \A t1, t2 \in batch : UrlOf[t1] = UrlOf[t2] => t1 = t2
      /\ seen' = seen \cup {UrlOf[t] : t \in batch}
      /\ ingest' = ingest \cup new
      /\ jobs' = CountIn(jobs, new, TRUE)
      /\ UNCHANGED <<queued, processing, delayed, dead, raw, rawDead, scheduled,
                     hosts, lease, redeliveries, claim, stopping, holder,
                     shutdowns, replays>>

(* An entry that no gateway or parser would produce, pushed straight onto   *)
(* the list: it has no host and no job.                                     *)
PushForeign(t) ==
  /\ \A e \in Stored : e.target # t
  /\ ingest' = ingest \cup {Fresh(t)}
  /\ UNCHANGED <<queued, processing, delayed, dead, raw, rawDead, scheduled,
                 hosts, lease, redeliveries, seen, jobs, claim, stopping, holder,
                 shutdowns, replays>>

(* POST /api/dead-letters/replay, queue = frontier: attempts start again.   *)
(* A foreign payload without a url string is dropped.                       *)
ReplayFrontier(batch, dropped) ==
  LET back == {Fresh(e.target) : e \in batch \ dropped}
  IN  /\ replays < MaxReplays
      /\ replays' = replays + 1
      /\ batch # {} /\ batch \subseteq dead
      /\ dropped \subseteq {e \in batch : e.target \in Foreign}
      /\ dead' = dead \ batch
      /\ ingest' = ingest \cup back
      /\ jobs' = CountIn(jobs, back, FALSE)
      /\ UNCHANGED <<queued, processing, delayed, raw, rawDead, scheduled, hosts,
                     lease, redeliveries, seen, claim, stopping, holder, shutdowns>>

(* The same for queue = raw_pages; a page whose payload expired is dropped. *)
ReplayRaw(batch, dropped) ==
  /\ replays < MaxReplays
  /\ replays' = replays + 1
  /\ batch # {} /\ batch \subseteq rawDead /\ dropped \subseteq batch
  /\ rawDead' = rawDead \ batch
  /\ raw' = raw \cup (batch \ dropped)
  /\ jobs' = CountIn(jobs, batch \ dropped, FALSE)
  /\ UNCHANGED <<ingest, queued, processing, delayed, dead, scheduled, hosts,
                 lease, redeliveries, seen, claim, stopping, holder, shutdowns>>

(* The parser's commit for one page: the children that were never seen are  *)
(* enqueued and the page is finished.  A duplicate page has no children.    *)
(* Taking the page from its queue and redelivering it is not modelled here. *)
ParserCommit(e, children) ==
  LET new == {Fresh(t) : t \in children}
  IN  /\ e \in raw
      /\ \A t \in children : /\ JobOf[t] = Job(e)
                             /\ UrlOf[t] \notin seen
      /\ \A t1, t2 \in children : UrlOf[t1] = UrlOf[t2] => t1 = t2
      /\ raw' = raw \ {e}
      /\ seen' = seen \cup {UrlOf[t] : t \in children}
      /\ ingest' = ingest \cup new
      /\ jobs' = finish_job(CountIn(jobs, new, FALSE), {e})
      /\ UNCHANGED <<queued, processing, delayed, dead, rawDead, scheduled, hosts,
                     lease, redeliveries, claim, stopping, holder, shutdowns,
                     replays>>

(* The parser or its reaper dead-letters the page. *)
ParserDeadLetter(e) ==
  /\ e \in raw
  /\ raw' = raw \ {e}
  /\ rawDead' = rawDead \cup {e}
  /\ jobs' = finish_job(jobs, {e})
  /\ UNCHANGED <<ingest, queued, processing, delayed, dead, scheduled, hosts,
                 lease, redeliveries, seen, claim, stopping, holder, shutdowns,
                 replays>>

-----------------------------------------------------------------------------
(* Crawler: routing and claiming *)

(* What a script that takes at most n members of S may take. *)
Takes(batch, S, n) ==
  /\ batch \subseteq S /\ Cardinality(batch) <= n
  /\ batch = S \/ Cardinality(batch) = n

QueueOf(h) == {e \in queued : Host(e) = h}

(* An entry without a host is dead-lettered, one that is in its host queue  *)
(* already is dropped; both finish their job's item.  A host that gets an   *)
(* entry is registered as ready now unless it is known.                     *)
Route(batch) ==
  LET lost == {e \in batch : e.target \in Foreign}
      moved == (batch \ lost) \ queued
  IN  /\ Takes(batch, ingest, RouteBatch)
      /\ ingest' = ingest \ batch
      /\ dead' = dead \cup lost
      /\ queued' = queued \cup moved
      /\ scheduled' = scheduled + Cardinality(moved)
      /\ hosts' = [h \in Hosts |-> IF hosts[h] = Absent /\ \E e \in moved : Host(e) = h
                                   THEN 0 ELSE hosts[h]]
      /\ jobs' = finish_job(jobs, batch \ moved)
      /\ UNCHANGED <<processing, delayed, raw, rawDead, lease, redeliveries, seen,
                     claim, stopping, holder, shutdowns, replays>>

Ready == {h \in Hosts : hosts[h] = 0}

EmptyReady == {h \in Ready : QueueOf(h) = {}}

(* How long the claim script closes the host: as long as the lease lasts.   *)
GapLock == HostGap   \* a mutated form: closes the host for the politeness gap

HostLock == Visibility

Started(js, j) ==
  IF j \in Jobs /\ js[j].status = "enqueued"
  THEN [js EXCEPT ![j].status = "running"] ELSE js

(* The claim script visits ready hosts, drops those it finds empty (skipped) *)
(* and takes the best entry of the first that is not.  The host is locked    *)
(* as long as the entry is leased.                                           *)
Claim(w, e, skipped) ==
  /\ claim[w] = NoEntry /\ w \notin stopping
  /\ e \in queued /\ Host(e) \in Ready
  /\ \A o \in QueueOf(Host(e)) : PriorityOf[o.target] <= PriorityOf[e.target]
  /\ skipped \subseteq EmptyReady /\ Cardinality(skipped) < ScanLimit
  /\ queued' = queued \ {e}
  /\ scheduled' = scheduled - 1
  /\ processing' = processing \cup {e}
  /\ lease' = [lease EXCEPT ![e] = Visibility]
  /\ hosts' = [h \in Hosts |-> IF h \in skipped THEN Absent
                               ELSE IF h = Host(e) THEN HostLock ELSE hosts[h]]
  /\ jobs' = Started(jobs, Job(e))
  /\ claim' = [claim EXCEPT ![w] = e]
  /\ holder' = [holder EXCEPT ![e] = w]
  /\ UNCHANGED <<ingest, delayed, dead, raw, rawDead, redeliveries, seen, stopping,
                 shutdowns, replays>>

(* The script finds nothing in the hosts it visits. *)
ClaimNothing(w, skipped) ==
  /\ claim[w] = NoEntry /\ w \notin stopping
  /\ Takes(skipped, EmptyReady, ScanLimit)
  /\ Ready = EmptyReady \/ Cardinality(skipped) = ScanLimit
  /\ hosts' = [h \in Hosts |-> IF h \in skipped THEN Absent ELSE hosts[h]]
  /\ UNCHANGED <<stores, scheduled, lease, redeliveries, seen, jobs, claim, stopping,
                 holder, shutdowns, replays>>

-----------------------------------------------------------------------------
(* Crawler: settling.  Handle fetches the page and commits one outcome.     *)

Holds(w) == claim[w] # NoEntry

NoFence(e) == TRUE   \* a mutated form

(* The fence of every outcome: LREM processing found the entry. *)
Ours(e) == e \in processing

KeepCount(counts, e) == counts   \* a mutated form: no HDEL

(* HDEL redeliveries *)
Forget(counts, e) == [counts EXCEPT ![e] = 0]

(* What every committed outcome does; the host reopens after gap if it is   *)
(* still registered.                                                        *)
Settle(w, gap) ==
  LET e == claim[w]
  IN  /\ Holds(w) /\ Ours(e)
      /\ processing' = processing \ {e}
      /\ lease' = [lease EXCEPT ![e] = Absent]
      /\ redeliveries' = Forget(redeliveries, e)
      /\ hosts' = [hosts EXCEPT ![Host(e)] = IF @ = Absent THEN Absent ELSE gap]
      /\ claim' = [claim EXCEPT ![w] = NoEntry]
      /\ holder' = [holder EXCEPT ![e] = NoWorker]
      /\ UNCHANGED <<queued, rawDead, scheduled, seen, stopping, shutdowns, replays>>

Decodable(w) == Holds(w) /\ claim[w].target \notin Undecodable

PushFinishes(w) ==   \* a mutated form: the job's item is finished as well
  /\ Decodable(w) /\ Settle(w, HostGap)
  /\ raw' = raw \cup {claim[w]}
  /\ jobs' = finish_job(jobs, {claim[w]})
  /\ UNCHANGED <<ingest, delayed, dead>>

(* A 2xx HTML page goes to the parser. *)
Push(w) ==
  /\ Decodable(w) /\ Settle(w, HostGap)
  /\ raw' = raw \cup {claim[w]}
  /\ UNCHANGED <<ingest, delayed, dead, jobs>>

(* robots.txt forbids the URL (no gap), or the answer leaves nothing to     *)
(* parse (4xx, not HTML, out of scope).                                     *)
Finish(w, gap) ==
  /\ Decodable(w) /\ gap \in {0, HostGap} /\ Settle(w, gap)
  /\ jobs' = finish_job(jobs, {claim[w]})
  /\ UNCHANGED <<ingest, delayed, dead, raw>>

(* Go cannot parse the URL, or the address is blocked. *)
Reject(w) ==
  /\ Decodable(w) /\ Settle(w, 0)
  /\ dead' = dead \cup {claim[w]}
  /\ jobs' = finish_job(jobs, {claim[w]})
  /\ UNCHANGED <<ingest, delayed, raw>>

(* Claim's own dead letter for an entry Go cannot decode.  The claim has an *)
(* empty CrawlTarget, so the script is given the key "job:" and finishes no *)
(* job.                                                                     *)
DropCorrupt(w) ==
  /\ Holds(w) /\ claim[w].target \in Undecodable /\ Settle(w, 0)
  /\ dead' = dead \cup {claim[w]}
  /\ UNCHANGED <<ingest, delayed, raw, jobs>>

(* Network error, 429 or 5xx: wait and try again, or give up.               *)
Retry(w, wait) ==
  LET e == claim[w]
      next == [e EXCEPT !.attempts = @ + 1]
  IN  /\ Decodable(w) /\ Settle(w, HostGap)
      /\ IF next.attempts >= MaxAttempts
         THEN /\ dead' = dead \cup {e}
              /\ jobs' = finish_job(jobs, {e})
              /\ UNCHANGED delayed
         ELSE /\ delayed' = [delayed EXCEPT ![next] = wait]
              /\ UNCHANGED <<dead, jobs>>
      /\ UNCHANGED <<ingest, raw>>

(* The shutdown cancelled the request: back to ingest at once. *)
Release(w) ==
  /\ w \in stopping /\ Decodable(w) /\ Settle(w, 0)
  /\ ingest' = ingest \cup {claim[w]}
  /\ UNCHANGED <<delayed, dead, raw, jobs>>

(* Any of these outcomes when the entry is no longer in processing. *)
SettleStale(w) ==
  /\ Holds(w) /\ ~Ours(claim[w])
  /\ claim' = [claim EXCEPT ![w] = NoEntry]
  /\ UNCHANGED <<stores, scheduled, hosts, lease, redeliveries, seen, jobs, stopping,
                 holder, shutdowns, replays>>

(* The worker dies, or its settling call fails, or the reply of its claim   *)
(* was lost: the entry stays in processing and nobody works on it.          *)
Abandon(w) ==
  /\ Holds(w)
  /\ claim' = [claim EXCEPT ![w] = NoEntry]
  /\ holder' = IF holder[claim[w]] = w THEN [holder EXCEPT ![claim[w]] = NoWorker]
                                       ELSE holder
  /\ UNCHANGED <<stores, scheduled, hosts, lease, redeliveries, seen, jobs, stopping,
                 shutdowns, replays>>

(* SIGTERM cancels the worker's context; the process is started again once  *)
(* the worker has returned.                                                 *)
Shutdown(w) ==
  /\ shutdowns < MaxShutdowns /\ w \notin stopping
  /\ shutdowns' = shutdowns + 1
  /\ stopping' = stopping \cup {w}
  /\ UNCHANGED <<stores, scheduled, hosts, lease, redeliveries, seen, jobs, claim,
                 holder, replays>>

Restart(w) ==
  /\ w \in stopping /\ ~Holds(w)
  /\ stopping' = stopping \ {w}
  /\ UNCHANGED <<stores, scheduled, hosts, lease, redeliveries, seen, jobs, claim,
                 holder, shutdowns, replays>>

-----------------------------------------------------------------------------
(* Crawler: maintenance *)

AlmostExpired == {e \in processing : lease[e] \in {0, 1}}   \* a mutated form

Expired == {e \in processing : lease[e] = 0}

NotCounted(n) == n   \* a mutated form: a redelivery is not counted

Redelivered(n) == n + 1   \* HINCRBY redeliveries

ExhaustedBefore == {e \in Expired : redeliveries[e] > MaxRedeliveries}   \* a mutated form

Exhausted == {e \in Expired : Redelivered(redeliveries[e]) > MaxRedeliveries}

(* reap.lua with job_id_mode = json *)
Reap ==
  LET back == Expired \ Exhausted
  IN  /\ processing' = processing \ Expired
      /\ lease' = [e \in Entry |->
                     IF e \in processing /\ lease[e] = Absent THEN Visibility
                     ELSE IF e \in Expired \/ lease[e] = 0 THEN Absent ELSE lease[e]]
      /\ redeliveries' = [e \in Entry |-> IF e \in Exhausted THEN 0
                                          ELSE IF e \in back THEN Redelivered(redeliveries[e])
                                          ELSE redeliveries[e]]
      /\ dead' = dead \cup Exhausted
      /\ ingest' = ingest \cup back
      /\ jobs' = finish_job(jobs, Exhausted)
      /\ holder' = [e \in Entry |-> IF e \in Expired THEN NoWorker ELSE holder[e]]
      /\ UNCHANGED <<queued, delayed, raw, rawDead, scheduled, hosts, seen, claim,
                     stopping, shutdowns, replays>>

Promote(batch) ==
  /\ Takes(batch, {e \in Entry : delayed[e] = 0}, PromoteBatch)
  /\ delayed' = [e \in Entry |-> IF e \in batch THEN Absent ELSE delayed[e]]
  /\ ingest' = ingest \cup batch
  /\ UNCHANGED <<queued, processing, dead, raw, rawDead, scheduled, hosts, lease,
                 redeliveries, seen, jobs, claim, stopping, holder, shutdowns, replays>>

(* One unit of time passes, on the one clock of the deployment.  Without    *)
(* Overrun every worker settles or dies before its lease runs out.          *)
Dec(n) == IF n > 0 THEN n - 1 ELSE n

Tick ==
  /\ Overrun \/ \A w \in Workers : Holds(w) => lease[claim[w]] # 1
  /\ lease' = [e \in Entry |-> Dec(lease[e])]
  /\ hosts' = [h \in Hosts |-> Dec(hosts[h])]
  /\ delayed' = [e \in Entry |-> Dec(delayed[e])]
  /\ UNCHANGED <<ingest, queued, processing, dead, raw, rawDead, scheduled,
                 redeliveries, seen, jobs, claim, stopping, holder, shutdowns, replays>>

-----------------------------------------------------------------------------
Producers ==
  \/ \E batch \in SUBSET Seeds \ {{}}, force \in BOOLEAN : Submit(batch, force)
  \/ \E t \in Foreign : PushForeign(t)
  \/ \E batch \in SUBSET dead : \E dropped \in SUBSET batch :
       ReplayFrontier(batch, dropped)
  \/ \E batch \in SUBSET rawDead : \E dropped \in SUBSET batch :
       ReplayRaw(batch, dropped)

Parser ==
  \E e \in raw :
    \/ \E children \in SUBSET (Targets \ (Seeds \cup Foreign)) :
         ParserCommit(e, children)
    \/ ParserDeadLetter(e)

TryClaim(w) ==
  \/ \E e \in queued, skipped \in SUBSET EmptyReady : Claim(w, e, skipped)
  \/ \E skipped \in SUBSET EmptyReady : ClaimNothing(w, skipped)

Handle(w) ==
  \/ Push(w)
  \/ \E gap \in {0, HostGap} : Finish(w, gap)
  \/ Reject(w)
  \/ DropCorrupt(w)
  \/ \E wait \in 1..Backoff : Retry(w, wait)
  \/ Release(w)
  \/ SettleStale(w)

Maintenance ==
  \/ \E batch \in SUBSET ingest : Route(batch)
  \/ \E batch \in SUBSET DelayedSet : Promote(batch)
  \/ Reap

Next ==
  \/ Producers \/ Parser
  \/ \E w \in Workers :
       TryClaim(w) \/ Handle(w) \/ Abandon(w) \/ Shutdown(w) \/ Restart(w)
  \/ Maintenance
  \/ Tick

Spec == Init /\ [][Next]_vars

(* What the code's scheduling gives: time passes, some crawler instance     *)
(* runs the maintenance tickers, an idle worker keeps claiming, a busy one  *)
(* comes to an outcome (requests have timeouts) unless it dies, a stopped   *)
(* process is started again and the parser drains its queue.  Nothing is    *)
(* assumed about crashes: they may happen for ever.                         *)
Fairness ==
  /\ WF_vars(Tick)
  /\ WF_vars(\E batch \in SUBSET ingest : Route(batch))
  /\ WF_vars(\E batch \in SUBSET DelayedSet : Promote(batch))
  /\ WF_vars(Reap)
  /\ \A w \in Workers : /\ WF_vars(TryClaim(w))
                        /\ WF_vars(Handle(w))
                        /\ WF_vars(Restart(w))
  /\ WF_vars(Parser)

FairSpec == Spec /\ Fairness

-----------------------------------------------------------------------------
(* Properties *)

(* A target is never in two places at once and never there twice, whatever  *)
(* workers, reaper, promotion and replay do: every hand-over removes it     *)
(* from where it was in the same script.                                    *)
OnePlace ==
  /\ \A e, f \in Stored : e.target = f.target => e = f
  /\ ingest \cap (queued \cup processing \cup DelayedSet \cup raw \cup dead \cup rawDead) = {}
  /\ queued \cap (processing \cup DelayedSet \cup raw \cup dead \cup rawDead) = {}
  /\ processing \cap (DelayedSet \cup raw \cup dead \cup rawDead) = {}
  /\ DelayedSet \cap (raw \cup dead \cup rawDead) = {}
  /\ raw \cap (dead \cup rawDead) = {}
  /\ dead \cap rawDead = {}

(* A job's outstanding counter is the number of its targets that are        *)
(* enqueued but not finished (jobs.lua), through every script that moves,   *)
(* multiplies or ends targets.                                              *)
JobAccounting ==
  \A j \in Jobs : jobs[j].outstanding = Cardinality(OfJob(Live, j))

(* A job is reported completed exactly when nothing of it is left to do:    *)
(* neither early, while a retry or a page is pending, nor never.            *)
CompletedIffDrained ==
  \A j \in Jobs : jobs[j].status # "none" =>
    (jobs[j].status = "completed" <=> OfJob(Live, j) = {})

(* A job is never reported completed while one of its targets is on its     *)
(* way, even if Go rejects entries of the job.                              *)
NeverCompletedEarly ==
  \A j \in Jobs : /\ jobs[j].outstanding >= Cardinality(OfJob(Live, j))
                  /\ jobs[j].status = "completed" => OfJob(Live, j) = {}

(* The gauge frontier:scheduled, kept by INCR in one script and DECR in     *)
(* another, is the number of entries in all host queues.                    *)
ScheduledExact == scheduled = Cardinality(queued)

(* A host with queued entries is registered, so that Claim will visit it:   *)
(* dropping a host found empty never strands an entry routed meanwhile.     *)
QueuedHostsKnown == \A e \in queued : hosts[Host(e)] # Absent

(* Leases and entries in processing come and go together, and a redelivery  *)
(* count outlives neither an outcome nor a dead letter: a later delivery of *)
(* the same string starts from zero.                                        *)
LeasesMatch ==
  /\ \A e \in Entry : lease[e] # Absent <=> e \in processing
  /\ \A e \in Entry : redeliveries[e] > 0 => e \in ingest \cup queued \cup processing

(* At most one request is in flight per host, whatever claim, settle, the   *)
(* lock's expiry and redelivery do, as long as no live worker outlives its  *)
(* lease.                                                                   *)
OneRequestPerHost ==
  \A w1, w2 \in Workers :
    Holds(w1) /\ Holds(w2) /\ Host(claim[w1]) = Host(claim[w2]) => w1 = w2

Commits(w) == Holds(w) /\ claim'[w] = NoEntry /\ claim[w] \in processing \ processing'

(* An outcome is committed only by the worker the entry was last handed to. *)
OnlyHolderCommits ==
  [][\A w \in Workers : Commits(w) => holder[claim[w]] = w]_vars

(* A completed job starts again only because one of its dead letters was    *)
(* replayed.                                                                *)
ReopenedByReplay ==
  [][\A j \in Jobs : jobs[j].status = "completed" /\ jobs'[j].status # "completed"
       => \E e \in dead \cup rawDead : Job(e) = j /\ e \notin dead' \cup rawDead']_vars

(* Every submitted job completes, even if workers die again and again,      *)
(* because redeliveries and attempts are bounded.                           *)
JobsComplete ==
  \A j \in Jobs : jobs[j].status # "none" ~> jobs[j].status = "completed"

(* The abstract specification, with the job state the API reports.          *)
TargetsOf(E) == {e.target : e \in E}

Promise == INSTANCE CrawlJobs WITH
  live <- TargetsOf(Live),
  dead <- TargetsOf(dead \cup rawDead),
  known <- {j \in Jobs : jobs[j].status # "none"},
  complete <- {j \in Jobs : jobs[j].status = "completed"}

KeepsPromise == Promise!Spec

=============================================================================
