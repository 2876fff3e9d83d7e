------------------------------ MODULE RawPages ------------------------------
(***************************************************************************)
(* The parser: the raw page queue item by item, the loop of the parser      *)
(* workers, and the pipeline's commit with its documents and its Markdown   *)
(* files.  One action is one Redis command or script, or one local step, of *)
(* one worker; everything between two of them may interleave.               *)
(*                                                                         *)
(* Abstractions.  A page id is a model value; its payload is a page with a  *)
(* job, a final URL (after redirects), a body and links.  Two bodies are    *)
(* equal exactly when their fingerprints are; NoText is the body without    *)
(* text.  A list of ids is a set: an id is random, so it is pushed once.    *)
(* A deadline is the time left, Absent when there is none, 0 when it has    *)
(* passed.  A child target is the pair of its job and its URL.              *)
(***************************************************************************)
EXTENDS Integers, FiniteSets, Sequences

CONSTANTS
  Pages,           \* page ids the crawler pushes
  Jobs, JobOf,     \* the job in the id "<job_id>/<random>"
  Urls, UrlOf,     \* RawPage.url
  Bodies, BodyOf, NoText,
  Links, LinksOf,  \* the canonical links within max_depth and scope
  Malformed,       \* pages whose payload RawPage does not validate
  Workers, NoPage,
  Visibility,      \* VISIBILITY_TIMEOUT_SEC, in ticks
  MaxRedeliveries, \* MAX_REDELIVERIES
  ReapInterval,    \* REAP_INTERVAL_SEC, in ticks
  MaxDocs,         \* MAX_PARSED_DOCS, 0 for no limit
  Overrun,         \* pages that may keep a live worker past their lease
  Faults,          \* may workers die and Redis calls fail?
  MaxStops, MaxReplays    \* bounds on what operators do

Absent == -1

ASSUME PagesAssumption ==
  /\ IsFiniteSet(Pages) /\ NoPage \notin Pages
  /\ JobOf \in [Pages -> Jobs] /\ UrlOf \in [Pages -> Urls]
  /\ BodyOf \in [Pages -> Bodies \cup {NoText}] /\ NoText \notin Bodies
  /\ IsFiniteSet(Links) /\ LinksOf \in [Pages -> SUBSET Links]
  /\ Malformed \subseteq Pages
ASSUME LimitsAssumption ==
  /\ Visibility \in Nat \ {0} /\ MaxRedeliveries \in Nat /\ ReapInterval \in Nat \ {0}
  /\ MaxDocs \in Nat /\ Overrun \subseteq Pages /\ Faults \in BOOLEAN
  /\ MaxStops \in Nat /\ MaxReplays \in Nat

(* <output_dir>/<job_id>/<hash of the URL>.md *)
Path(p) == <<JobOf[p], UrlOf[p]>>
Paths == {Path(p) : p \in Pages}

Child == Jobs \X Links

VARIABLES
  coming,        \* pages the crawler has not pushed yet
  queue,         \* queue:raw_pages
  processing,    \* queue:raw_pages:processing
  lease,         \* queue:raw_pages:leases, time left
  redeliveries,  \* queue:raw_pages:redeliveries, 0 when the field is missing
  dead,          \* queue:raw_pages:dead
  payload,       \* ids whose raw_page:<id> exists
  contentSeen,   \* content:seen
  docs,          \* queue:parsed_docs, newest first
  total,         \* stats:totals documents
  seen,          \* the seen filter
  frontier,      \* child targets enqueued for the crawler
  jobs,          \* job:<id>
  files,         \* path -> the page its file was written from
  pc, page,      \* where a worker is, and the page it works on
  nextReap,      \* time left until maybe_reap reaps
  stopping,      \* workers with running = False
  outcome,       \* history: what became of a page for good
  recordings,    \* history: the pages recorded, in that order
  stops, replays

keys == <<queue, processing, lease, redeliveries, dead, payload>>
results == <<contentSeen, docs, total, seen, frontier, outcome, recordings>>
vars == <<coming, keys, results, jobs, files, pc, page, nextReap, stopping,
          stops, replays>>

Control == {"idle", "polling", "taken", "leased", "parsing", "written",
            "duplicate", "failed", "down"}
Holding == {"taken", "leased", "parsing", "written", "duplicate", "failed"}

JobHash == [outstanding : Int, status : {"running", "completed"},
            parsed : Nat, duplicate : Nat, links : Nat]

TypeOK ==
  /\ coming \subseteq Pages /\ queue \subseteq Pages /\ processing \subseteq Pages
  /\ dead \subseteq Pages /\ payload \subseteq Pages
  /\ lease \in [Pages -> Absent..Visibility]
  /\ redeliveries \in [Pages -> 0..MaxRedeliveries]
  /\ contentSeen \subseteq Bodies
  /\ docs \in Seq(Pages) /\ total \in Nat /\ recordings \in Seq(Pages)
  /\ seen \subseteq Links /\ frontier \subseteq Child
  /\ jobs \in [Jobs -> JobHash]
  /\ files \in [Paths -> Pages \cup {NoPage}]
  /\ pc \in [Workers -> Control]
  /\ page \in [Workers -> Pages \cup {NoPage}]
  /\ \A w \in Workers : page[w] = NoPage <=> pc[w] \notin Holding
  /\ nextReap \in [Workers -> 0..ReapInterval]
  /\ stopping \subseteq Workers
  /\ outcome \in [Pages -> {"none", "recorded", "duplicate", "dropped"}]
  /\ stops \in 0..MaxStops /\ replays \in 0..MaxReplays

OfJob(S, j) == {p \in S : JobOf[p] = j}

(* Every page counts as outstanding since its target was enqueued. *)
Init ==
  /\ coming = Pages
  /\ queue = {} /\ processing = {} /\ dead = {} /\ payload = {}
  /\ lease = [p \in Pages |-> Absent]
  /\ redeliveries = [p \in Pages |-> 0]
  /\ contentSeen = {} /\ docs = <<>> /\ total = 0 /\ recordings = <<>>
  /\ seen = {} /\ frontier = {}
  /\ jobs = [j \in Jobs |-> [outstanding |-> Cardinality(OfJob(Pages, j)),
                             status |-> "running",
                             parsed |-> 0, duplicate |-> 0, links |-> 0]]
  /\ files = [f \in Paths |-> NoPage]
  /\ pc = [w \in Workers |-> "idle"]
  /\ page = [w \in Workers |-> NoPage]
  /\ nextReap = [w \in Workers |-> 0]
  /\ stopping = {}
  /\ outcome = [p \in Pages |-> "none"]
  /\ stops = 0 /\ replays = 0

Goto(w, label, p) ==
  /\ pc' = [pc EXCEPT ![w] = label]
  /\ page' = [page EXCEPT ![w] = p]

-----------------------------------------------------------------------------
(* Job bookkeeping on one job hash h *)

(* finish_job, n times *)
finish_job(h, n) ==
  IF n = 0 THEN h
  ELSE [h EXCEPT !.outstanding = @ - n,
                 !.status = IF h.outstanding - n <= 0 THEN "completed" ELSE @]

(* enqueue_targets counts n new children in. *)
count_in(h, n) ==
  IF n = 0 THEN h
  ELSE [h EXCEPT !.outstanding = @ + n, !.status = "running"]

Finish(S) == [j \in Jobs |-> finish_job(jobs[j], Cardinality(OfJob(S, j)))]

-----------------------------------------------------------------------------
(* The crawler and the operators *)

(* The crawler's push settle. *)
Push(p) ==
  /\ p \in coming
  /\ coming' = coming \ {p}
  /\ queue' = queue \cup {p}
  /\ payload' = payload \cup {p}
  /\ UNCHANGED <<processing, lease, redeliveries, dead, results, jobs, files, pc,
                 page, nextReap, stopping, stops, replays>>

(* The time to live of raw_page:<id> ends. *)
Expire(p) ==
  /\ p \in payload
  /\ payload' = payload \ {p}
  /\ UNCHANGED <<coming, queue, processing, lease, redeliveries, dead, results,
                 jobs, files, pc, page, nextReap, stopping, stops, replays>>

(* POST /api/dead-letters/replay, queue = raw_pages.  A page whose payload  *)
(* has expired is dropped.                                                  *)
Replay(batch) ==
  LET back == batch \cap payload
      lost == batch \ payload
  IN  /\ replays < MaxReplays
      /\ replays' = replays + 1
      /\ batch # {} /\ batch \subseteq dead
      /\ dead' = dead \ batch
      /\ queue' = queue \cup back
      /\ jobs' = [j \in Jobs |-> count_in(jobs[j], Cardinality(OfJob(back, j)))]
      /\ outcome' = [p \in Pages |-> IF p \in lost THEN "dropped" ELSE outcome[p]]
      /\ UNCHANGED <<coming, processing, lease, redeliveries, payload, contentSeen,
                     docs, total, seen, frontier, recordings, files, pc, page,
                     nextReap, stopping, stops>>

-----------------------------------------------------------------------------
(* The worker's loop *)

ExpiredOrOrphan == {p \in processing : lease[p] <= 0}   \* a mutated form

Expired == {p \in processing : lease[p] = 0}

NoOrphans == {}   \* a mutated form: items without a lease are passed over

(* Taken, and no lease registered *)
Orphans == {p \in processing : lease[p] = Absent}

Redelivered(n) == n + 1   \* HINCRBY redeliveries

ExhaustedBefore == {p \in Expired : redeliveries[p] > MaxRedeliveries}   \* a mutated form

Exhausted == {p \in Expired : Redelivered(redeliveries[p]) > MaxRedeliveries}

RequeuedAll == Expired   \* a mutated form: dead-lettered and requeued

Requeued == Expired \ Exhausted

EndedItems == Expired   \* a mutated form: only leases of items end

(* Leases that end: those of expired items and the due ones of nothing. *)
Ended == {p \in Pages : lease[p] = 0}

(* reap.lua with job_id_mode = id: orphans get a lease, expired pages go    *)
(* back to the queue or to the dead letters, leases of nothing end.         *)
Reap ==
  /\ processing' = processing \ Expired
  /\ queue' = queue \cup Requeued
  /\ dead' = dead \cup Exhausted
  /\ lease' = [p \in Pages |-> IF p \in Orphans THEN Visibility
                               ELSE IF p \in Ended THEN Absent ELSE lease[p]]
  /\ redeliveries' = [p \in Pages |-> IF p \in Exhausted THEN 0
                                      ELSE IF p \in Expired THEN Redelivered(redeliveries[p])
                                      ELSE redeliveries[p]]
  /\ jobs' = Finish(Exhausted)
  /\ UNCHANGED <<payload, results>>

(* The top of the loop: leave after a signal, reap when it is time, and     *)
(* poll.  The next reaping is scheduled before the call, which may fail.    *)
Exit(w) ==
  /\ pc[w] = "idle" /\ w \in stopping
  /\ Goto(w, "down", NoPage)
  /\ UNCHANGED <<coming, keys, results, jobs, files, nextReap, stopping, stops, replays>>

MaybeReap(w) ==
  /\ pc[w] = "idle" /\ w \notin stopping /\ nextReap[w] = 0
  /\ Goto(w, "polling", NoPage)
  /\ nextReap' = [nextReap EXCEPT ![w] = ReapInterval]
  /\ Reap
  /\ UNCHANGED <<coming, files, stopping, stops, replays>>

NotYet(w) ==
  /\ pc[w] = "idle" /\ w \notin stopping /\ nextReap[w] > 0
  /\ Goto(w, "polling", NoPage)
  /\ UNCHANGED <<coming, keys, results, jobs, files, nextReap, stopping, stops, replays>>

ReapFails(w) ==
  /\ Faults
  /\ pc[w] = "idle" /\ w \notin stopping /\ nextReap[w] = 0
  /\ nextReap' = [nextReap EXCEPT ![w] = ReapInterval]
  /\ UNCHANGED <<coming, keys, results, jobs, files, pc, page, stopping, stops, replays>>

(* BLMOVE, or its timeout. *)
Take(w, p) ==
  /\ pc[w] = "polling" /\ p \in queue
  /\ queue' = queue \ {p}
  /\ processing' = processing \cup {p}
  /\ Goto(w, "taken", p)
  /\ UNCHANGED <<coming, lease, redeliveries, dead, payload, results, jobs, files,
                 nextReap, stopping, stops, replays>>

TakeNothing(w) ==
  /\ pc[w] = "polling" /\ queue = {}
  /\ Goto(w, "idle", NoPage)
  /\ UNCHANGED <<coming, keys, results, jobs, files, nextReap, stopping, stops, replays>>

(* The second command of take: ZADD, whatever happened to the page since.   *)
Register(w) ==
  /\ pc[w] = "taken"
  /\ lease' = [lease EXCEPT ![page[w]] = Visibility]
  /\ Goto(w, "leased", page[w])
  /\ UNCHANGED <<coming, queue, processing, redeliveries, dead, payload, results, jobs,
                 files, nextReap, stopping, stops, replays>>

-----------------------------------------------------------------------------
(* handle *)

(* The payload is gone or malformed, or it is a page to parse. *)
Read(w) ==
  /\ pc[w] = "leased"
  /\ Goto(w, IF page[w] \in payload \ Malformed THEN "parsing" ELSE "failed", page[w])
  /\ UNCHANGED <<coming, keys, results, jobs, files, nextReap, stopping, stops, replays>>

(* process_raw_page up to the commit: the page is extracted, its Markdown   *)
(* written to a temporary file and moved into place.                        *)
Write(w) ==
  /\ pc[w] = "parsing"
  /\ files' = [files EXCEPT ![Path(page[w])] = page[w]]
  /\ Goto(w, "written", page[w])
  /\ UNCHANGED <<coming, keys, results, jobs, nextReap, stopping, stops, replays>>

(* The extractor raises on this page, or the file cannot be written or      *)
(* removed: any exception that is not Redis's.                              *)
Raise(w) ==
  /\ pc[w] \in {"parsing", "duplicate"}
  /\ Goto(w, "failed", page[w])
  /\ UNCHANGED <<coming, keys, results, jobs, files, nextReap, stopping, stops, replays>>

NoFence(p) == TRUE   \* a mutated form

(* The fence of a settle: LREM processing found the page. *)
Ours(p) == p \in processing

(* What every committed settle does to the queue's keys. *)
Acknowledge(p) ==
  /\ processing' = processing \ {p}
  /\ lease' = [lease EXCEPT ![p] = Absent]
  /\ redeliveries' = [redeliveries EXCEPT ![p] = 0]

DeadLetter(w) ==
  LET p == page[w]
  IN  /\ pc[w] = "failed"
      /\ IF Ours(p)
         THEN /\ Acknowledge(p)
              /\ dead' = dead \cup {p}
              /\ jobs' = Finish({p})
         ELSE UNCHANGED <<processing, lease, redeliveries, dead, jobs>>
      /\ Goto(w, "idle", NoPage)
      /\ UNCHANGED <<coming, queue, payload, results, files, nextReap, stopping, stops,
                     replays>>

-----------------------------------------------------------------------------
(* PROCESS_PAGE_LUA *)

(* SADD content:seen found the fingerprint; a page without text is exempt.  *)
IsDuplicate(p) == BodyOf[p] # NoText /\ BodyOf[p] \in contentSeen

OldestKept(s) ==   \* a mutated form: the other end of the list is cut
  IF MaxDocs > 0 /\ Len(s) > MaxDocs THEN Tail(s) ELSE s

(* LPUSH and LTRIM *)
Newest(s) == IF MaxDocs > 0 THEN SubSeq(s, 1, IF Len(s) < MaxDocs THEN Len(s) ELSE MaxDocs)
                            ELSE s

SeenLinks(p) == LinksOf[p]   \* a mutated form: what the filter says is ignored

NewLinks(p) == LinksOf[p] \ seen

RecordedJob(h, new) ==
  finish_job(count_in([h EXCEPT !.parsed = @ + 1, !.links = @ + new], new), 1)

DuplicateJobOpen(h) == [h EXCEPT !.duplicate = @ + 1]   \* a mutated form: not finished

DuplicateJob(h) == finish_job([h EXCEPT !.duplicate = @ + 1], 1)

CommitDuplicate(w) ==
  LET p == page[w]
  IN  /\ pc[w] = "written" /\ Ours(p) /\ IsDuplicate(p)
      /\ Acknowledge(p)
      /\ payload' = payload \ {p}
      /\ jobs' = [jobs EXCEPT ![JobOf[p]] = DuplicateJob(@)]
      /\ outcome' = [outcome EXCEPT ![p] = "duplicate"]
      /\ Goto(w, "duplicate", p)
      /\ UNCHANGED <<coming, queue, dead, contentSeen, docs, total, seen, frontier,
                     recordings, files, nextReap, stopping, stops, replays>>

CommitDocument(w) ==
  LET p == page[w]
  IN  /\ pc[w] = "written" /\ Ours(p) /\ ~IsDuplicate(p)
      /\ Acknowledge(p)
      /\ payload' = payload \ {p}
      /\ contentSeen' = contentSeen \cup ({BodyOf[p]} \ {NoText})
      /\ docs' = Newest(<<p>> \o docs)
      /\ total' = total + 1
      /\ recordings' = Append(recordings, p)
      /\ seen' = seen \cup LinksOf[p]
      /\ frontier' = frontier \cup ({JobOf[p]} \X NewLinks(p))
      /\ jobs' = [jobs EXCEPT ![JobOf[p]] = RecordedJob(@, Cardinality(NewLinks(p)))]
      /\ outcome' = [outcome EXCEPT ![p] = "recorded"]
      /\ Goto(w, "idle", NoPage)
      /\ UNCHANGED <<coming, queue, dead, files, nextReap, stopping, stops, replays>>

CommitStaleUnlinks(w) ==   \* a mutated form: cleans up as after a duplicate
  /\ pc[w] = "written" /\ ~Ours(page[w])
  /\ Goto(w, "duplicate", page[w])
  /\ UNCHANGED <<coming, keys, results, jobs, files, nextReap, stopping, stops, replays>>

(* Somebody else settled the page, or will.  The file is left to them. *)
CommitStale(w) ==
  /\ pc[w] = "written" /\ ~Ours(page[w])
  /\ Goto(w, "idle", NoPage)
  /\ UNCHANGED <<coming, keys, results, jobs, files, nextReap, stopping, stops, replays>>

(* The file of a duplicate is removed, if it is still there. *)
Unlink(w) ==
  /\ pc[w] = "duplicate"
  /\ files' = [files EXCEPT ![Path(page[w])] = NoPage]
  /\ Goto(w, "idle", NoPage)
  /\ UNCHANGED <<coming, keys, results, jobs, nextReap, stopping, stops, replays>>

-----------------------------------------------------------------------------
(* Faults *)

(* A call raises RedisError: before it was executed, or because its reply   *)
(* was lost (at "duplicate" that of the commit).  The worker goes on.       *)
RedisFails(w) ==
  /\ Faults
  /\ pc[w] \in {"taken", "leased", "written", "duplicate", "failed"}
  /\ Goto(w, "idle", NoPage)
  /\ UNCHANGED <<coming, keys, results, jobs, files, nextReap, stopping, stops, replays>>

(* The process dies.  Without a page in its hands it would lose nothing.    *)
Crash(w) ==
  /\ Faults
  /\ pc[w] \in Holding
  /\ Goto(w, "down", NoPage)
  /\ UNCHANGED <<coming, keys, results, jobs, files, nextReap, stopping, stops, replays>>

(* SIGTERM or SIGINT: running = False *)
Stop(w) ==
  /\ pc[w] # "down" /\ w \notin stopping /\ stops < MaxStops
  /\ stops' = stops + 1
  /\ stopping' = stopping \cup {w}
  /\ UNCHANGED <<coming, keys, results, jobs, files, pc, page, nextReap, replays>>

Restart(w) ==
  /\ pc[w] = "down"
  /\ Goto(w, "idle", NoPage)
  /\ nextReap' = [nextReap EXCEPT ![w] = 0]
  /\ stopping' = stopping \ {w}
  /\ UNCHANGED <<coming, keys, results, jobs, files, stops, replays>>

Dec(n) == IF n > 0 THEN n - 1 ELSE n

(* One unit of time.  Except for Overrun a worker settles before the lease of *)
(* its page (its own, or the one an orphan was given) runs out.             *)
Tick ==
  /\ \A w \in Workers :
       pc[w] \in Holding /\ page[w] \notin Overrun => lease[page[w]] # 1
  /\ lease' = [p \in Pages |-> Dec(lease[p])]
  /\ nextReap' = [w \in Workers |-> Dec(nextReap[w])]
  /\ UNCHANGED <<coming, queue, processing, redeliveries, dead, payload, results, jobs,
                 files, pc, page, stopping, stops, replays>>

-----------------------------------------------------------------------------
Handle(w) ==
  \/ Register(w) \/ Read(w) \/ Write(w) \/ Raise(w) \/ DeadLetter(w)
  \/ CommitDuplicate(w) \/ CommitDocument(w) \/ CommitStale(w) \/ Unlink(w)

Work(w) ==
  \/ Exit(w) \/ MaybeReap(w) \/ NotYet(w) \/ TakeNothing(w)
  \/ \E p \in queue : Take(w, p)
  \/ Handle(w)

Next ==
  \/ \E p \in Pages : Push(p) \/ Expire(p)
  \/ \E batch \in SUBSET dead : Replay(batch)
  \/ \E w \in Workers : \/ Work(w) \/ ReapFails(w) \/ RedisFails(w) \/ Crash(w)
                        \/ Stop(w) \/ Restart(w)
  \/ Tick

Spec == Init /\ [][Next]_vars

(* What the code's scheduling gives: time passes; a worker's loop goes on   *)
(* (BLMOVE has a timeout, parsing ends); a process that ended is started    *)
(* again (restart: unless-stopped); reaping is tried again and again and    *)
(* Redis does not fail for ever.  Nothing is assumed about crashes and      *)
(* failing calls of a worker that holds a page: they may happen for ever.   *)
Fairness ==
  /\ WF_vars(Tick)
  /\ \A w \in Workers : /\ WF_vars(Work(w))
                        /\ SF_vars(MaybeReap(w))
                        /\ WF_vars(Restart(w))

FairSpec == Spec /\ Fairness

-----------------------------------------------------------------------------
(* Properties *)

Settled == {p \in Pages : outcome[p] # "none"}
Recorded == {p \in Pages : outcome[p] = "recorded"}
Repeated == {p \in Pages : outcome[p] = "duplicate"}

(* No page is lost between the two commands of take, between worker and     *)
(* reaper or in a replay, and none is in two places: it is with the         *)
(* crawler, in the queue, in processing, a dead letter or settled for good, *)
(* so it is recorded at most once.                                          *)
OnePlace ==
  /\ coming \cup queue \cup processing \cup dead \cup Settled = Pages
  /\ coming \cap (queue \cup processing \cup dead \cup Settled) = {}
  /\ queue \cap (processing \cup dead \cup Settled) = {}
  /\ processing \cap (dead \cup Settled) = {}
  /\ dead \cap Settled = {}

ChildrenOf(j) == {c \in frontier : c[1] = j}

(* The books of a job, kept by four scripts, agree with what happened to    *)
(* its pages: outstanding is the number of its pages and child targets      *)
(* without an outcome, the progress counters count outcomes, and the job is *)
(* completed exactly when nothing is outstanding.                           *)
JobBooks ==
  \A j \in {JobOf[p] : p \in Pages} :
    /\ jobs[j].outstanding = Cardinality(OfJob(coming \cup queue \cup processing, j))
                             + Cardinality(ChildrenOf(j))
    /\ jobs[j].parsed = Cardinality(OfJob(Recorded, j))
    /\ jobs[j].duplicate = Cardinality(OfJob(Repeated, j))
    /\ jobs[j].links = Cardinality(ChildrenOf(j))
    /\ jobs[j].status = "completed" <=> jobs[j].outstanding = 0

(* A link is enqueued for one job only, and only if it was not seen.        *)
LinksOnce ==
  /\ seen = {c[2] : c \in frontier}
  /\ \A c, d \in frontier : c[2] = d[2] => c = d

(* A body is indexed once, and a page is only dropped as a duplicate when   *)
(* the document it repeats is indexed: the first page of a body never gets  *)
(* lost to its copies, however its commit was delayed.                      *)
ContentOnce ==
  /\ \A p, q \in Recorded : BodyOf[p] = BodyOf[q] /\ BodyOf[p] # NoText => p = q
  /\ \A p \in Repeated : \E q \in Recorded : BodyOf[p] = BodyOf[q] /\ BodyOf[p] # NoText

(* The document list holds the documents that were recorded last, each once *)
(* and the newest first, MaxDocs of them unless there are fewer, and the    *)
(* running total counts all that ever were.                                 *)
DocsKept ==
  /\ total = Len(recordings)
  /\ Recorded = {recordings[i] : i \in 1..total}
  /\ \A i, k \in 1..total : recordings[i] = recordings[k] => i = k
  /\ Len(docs) = IF MaxDocs > 0 /\ total > MaxDocs THEN MaxDocs ELSE total
  /\ \A i \in 1..Len(docs) : docs[i] = recordings[total + 1 - i]

(* Every indexed document has a Markdown file, although files are written   *)
(* before the commit by workers that may have lost the page, and removed    *)
(* after it.                                                                *)
SinkComplete == \A p \in Recorded : files[Path(p)] # NoPage

(* A page whose content is a duplicate leaves no file behind.               *)
NoStrayFile ==
  \A p \in Repeated :
    (\A w \in Workers : page[w] # p) => files[Path(p)] # p

(* A worker that settles within its lease has its page for itself, though a *)
(* page is taken and leased in two steps and the reaper runs in between.    *)
OneHolder ==
  \A w \in Workers : pc[w] \in Holding \ {"duplicate"} /\ page[w] \notin Overrun =>
    (pc[w] = "failed" /\ outcome[page[w]] # "none") \/
    /\ page[w] \in processing
    /\ \A v \in Workers \ {w} : page[v] # page[w]

(* Every page that arrived gets an outcome, even if its workers die again   *)
(* and again.                                                               *)
PagesSettle ==
  \A p \in Pages : p \notin coming ~> p \in dead \cup Settled

(* The lease that a stalled take registers for a page it no longer has goes *)
(* away.                                                                    *)
StaleLeasesEnd ==
  \A p \in Pages : lease[p] # Absent ~> lease[p] = Absent \/ p \in processing

Promise == INSTANCE PageOutcomes WITH
  waiting <- queue \cup processing,
  recorded <- Recorded,
  duplicate <- Repeated,
  dropped <- {p \in Pages : outcome[p] = "dropped"}

KeepsPromise == Promise!Spec

=============================================================================
