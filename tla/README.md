# A formal model of the distributed web crawler

The repository is a crawler of three services that share nothing but Redis: a
gateway (TypeScript) that accepts URLs, a crawler engine (Go) that fetches them
and a parser (Python) that turns pages into Markdown and new URLs; a terminal UI
(Python) submits, pauses, flushes and exports. What has to be right under
concurrency, crashes and redelivery happens in a dozen Lua scripts and in the order
in which the programs call them. That is what these modules model.

Paths below are relative to the repository; `frontier.go` stands for
`services/crawler-engine/internal/frontier/redis_frontier.go`, `pool.go`, `fetcher.go` and
`robots.go` for their namesakes under `services/crawler-engine/internal/`,
`pipeline.py`, `reliable_queue.py`, `urls.py` and `extractor.py` for those under
`services/parser-scraper/app/`, `tui.py` for `scripts/tui.py`.

## 1. Inventory

| Component | State | Operations | Correct when | Module |
|---|---|---|---|---|
| Job bookkeeping (`shared/redis/jobs.lua`, `enqueue_targets.lua`) | `job:<id>`: `outstanding`, `status` | count in, finish, reopen | `outstanding` is the number of the job's targets without an outcome; the status says completed exactly when there are none | `Frontier` |
| Enqueueing (`api-gateway/src/frontier.ts`, `routes/jobs.ts`) | seen filter | single and batch submission, force | a URL is marked seen if and only if it is enqueued or was seen before | `Frontier` |
| Frontier (`frontier.go`, `shared/redis/reap.lua`) | ingest list, host queues, `frontier:hosts`, processing, leases, redelivery counts, delayed, dead, `frontier:scheduled` | route, claim, settle (push, finish, delay, dead, release), promote, reap | no entry is lost or doubled; one request per host; bounded redelivery; every job ends | `Frontier` |
| Worker pool (`pool.go`) | the claim each goroutine holds | handle, retry, graceful shutdown, three tickers | every claim gets one outcome; a host gets its gap | `Frontier`, `Politeness` |
| robots.txt checker (`robots.go`) | memory cache, in-flight calls, Redis cache | check | one fetch per host at a time, no policy older than its lifetime, nobody waits for ever | `Politeness` |
| Dead-letter replay (`routes/deadLetters.ts`) | two dead lists | replay | a replay reopens the job it belongs to | `Frontier`, `RawPages` |
| Raw page queue (`reliable_queue.py`, `parser_worker.py`) | queue, processing, leases, redelivery counts, `raw_page:<id>` | take, register, settle, dead-letter, reap | no page is lost or settled twice, although taking and leasing are two commands | `RawPages` |
| Parser pipeline (`pipeline.py`) | fingerprints, documents, totals, Markdown files | write, commit, unlink | one document per body, with its file; links enqueued once | `RawPages` |
| Canonical URLs and scope (`urls.py`, `extractor.py`, `api-gateway/src/url.ts`, `scope.go`, `pool.go`) | the seen filter | canonicalise, resolve, decide on scope | two languages give one page one key; no crawl leaves its site | `Urls` |
| Cluster reset (`routes/metrics.ts`, `tui.py`) | all keys | unlink, scan, unlink, ... | nothing of before comes back, what is left is consistent | `Reset` |
| Terminal UI, supervisor (`tui.py`) | `crawler:paused`, page limit, flags of the screen | submit, pause, resume, flush, recrawl, quit, stop at the limit | what the screen says is true; a mission is complete when its documents are there; a process that had the time to stop leaves no pause behind | `Supervisor` |
| Terminal UI, export (`tui.py`, `extractor.py`) | three files per mission | filter, write, chunk | the files belong together; no word is lost | `Export` |
| Fetcher, HTML extraction, gateway set-up, dashboard, configuration, contracts, deployment | none | - | - | see section 7 |

How they interact. The gateway pushes entries on `frontier:queue`. Every crawler
instance routes them to a queue per host, claims from hosts whose time has come,
asks the robots.txt checker, fetches, and commits one outcome with a script that is
fenced on the entry still being in `frontier:processing`. Pages go to
`queue:raw_pages`; a parser worker takes one, writes its Markdown file, and commits
document, children and bookkeeping in one script, which pushes the children on
`frontier:queue` again. The terminal UI stops the crawl through `crawler:paused`,
which `Claim` reads, and wipes it by unlinking keys, like the gateway's reset. Redis
executes a script or a command atomically; everything between two of them interleaves.

The hard parts: a process may die between any two scripts; a lease may run out
while its worker is still alive, so that two workers believe to own an entry; the
host lock is a time and not a fact; counters live beside the data they count; a
job's end is detected by a counter that several services change; files are written
and removed outside of the fence; the threads of the terminal UI share fields
without a lock; one rule for URLs is implemented in two languages.

## 2. Plan

1. **Frontier** with job bookkeeping, worker pool and replay, the abstract
   specification **CrawlJobs**, their proofs. *Done.*
2. **RawPages**: the parser's queue item by item and the pipeline's commit, the
   abstract specification **PageOutcomes**, their proofs. *Done.*
3. **Politeness**: `Handle` with the robots.txt checker and the gaps, in time, and its
   proofs. *Done.*
4. **Reset** composed with Frontier, and its proofs. *Done.*
5. **Supervisor** and **Export**: the terminal UI, and their proofs. *Done.*
6. **Urls**: canonical forms, links and scope in both languages, and their proofs. *Done.*
7. Open: the backoff in 64 bits (`pool.go:265` shifts before it caps), the frontier
   and the raw page queue composed and refined by CrawlJobs, false positives of the
   Bloom filter, Redis losing its last second.

## 3. Modules

| Module | Content |
|---|---|
| `Frontier` | the state and every script of the frontier, its properties |
| `CrawlJobs` | the abstract promise: targets are live, then finished or dead; a job is complete while none of its targets is live |
| `FrontierProofs` | types, `OnePlace`, leases, gauge, host registry, host lock and fence for all constants; job accounting, completion and reopening, and that `Frontier` implements `CrawlJobs` |
| `RawPages` | the parser's loop, queue and commit, step by step |
| `PageOutcomes` | the abstract promise: a page that arrived gets one outcome |
| `RawPagesProofs` | types, `OnePlace`, `ContentOnce`, `SinkComplete`, `OneHolder`, `LinksOnce`, `DocsKept`, `JobBooks`, and that `RawPages` implements `PageOutcomes` |
| `Politeness` | a worker from claim to settle, the robots.txt checker, the gap of a host |
| `PolitenessProofs` | types, `GapKept` and `PolicyFresh` for all constants |
| `Reset` | the reset in its separate calls, composed with `Frontier` (EXTENDS) |
| `ResetProofs` | `BooksAfterReset` and `OldGone`, on top of the invariants of `FrontierProofs` |
| `Supervisor` | the three threads of the terminal UI and the crawl they steer |
| `SupervisorProofs` | types and all safety properties of the terminal UI for all constants |
| `Export` | overlapping exports and the chunks of a document |
| `ExportProofs` | `FilesAgree` and `TypeOK` for all documents and any number of exports, `ChunksFaithful` for documents of every length |
| `Urls` | canonical forms, reference resolution, scope, and the seen filter they feed |
| `UrlsProofs` | `StaysOnSite` and `AdmittedByCrawler` for all host names; `TypeOK`, `CrawledOnce` and `LinkKept` for paths of every length |
| `FoldProofs` | induction over the steps of a fold, for `UrlsProofs` and `ExportProofs` |
| `MC...` | small instances for TLC |

### Frontier

| Model | Code |
|---|---|
| `ingest`, `queued`, `hosts`, `scheduled`, `processing`, `lease`, `redeliveries`, `delayed`, `dead` | the Redis keys `frontier:queue`, `frontier:host:*`, `frontier:hosts`, `frontier:scheduled`, `frontier:processing`, `frontier:leases`, `frontier:redeliveries`, `frontier:delayed`, `frontier:dead` |
| `raw`, `rawDead` | pages between the crawler's push and the parser's outcome, and the parser's dead letters |
| `seen`, `jobs` | the seen filter; `job:<id>` with `outstanding` and `status` |
| `claim[w]` | the `Claim` a worker goroutine holds; `NoEntry` while it is idle |
| `holder` | history: who was handed the entry last; no guard reads it |
| `Submit` | `POST /api/jobs`, `POST /api/jobs/batch` down to `enqueue_targets` |
| `ReplayFrontier`, `ReplayRaw` | `REPLAY_LUA` |
| `ParserCommit`, `ParserDeadLetter` | `PROCESS_PAGE_LUA`, `DEAD_LETTER_LUA` and the reaper's dead letter, as far as the frontier and the jobs see them |
| `Route`, `Claim`, `ClaimNothing`, `Promote`, `Reap` | the scripts of `frontier.go` and `reap.lua` |
| `Settle` with `Push`, `Finish`, `Reject`, `Retry`, `Release`, `DropCorrupt` | the settle script, with the outcome `Handle` (or `Claim` itself, for an entry Go cannot decode) passes to it |
| `SettleStale` | any settle that finds the entry gone (`ErrStale`) |
| `Abandon` | a crash, a settle that failed with a Redis error, a claim whose reply was lost: the entry stays in processing |
| `Shutdown`, `Restart` | SIGTERM and the restart of the process |
| `Tick` | one unit of time: deadlines, host times and delays come closer |

An entry (the JSON of a CrawlTarget) is a target with its attempt count, because
that is the only field the crawler rewrites: two entries are the same string, and
have the same SHA-1 in leases and redelivery counts, exactly when they are the
same record. Lists are sets of entries. That loses nothing as long as no producer
sends one string twice, which holds: job ids are fresh UUIDs, the parser sends a
child only when its URL is new, and `OnePlace` shows that the crawler does not
make copies. It would not cover a client that pushes one JSON string twice by
hand, and `PushForeign` accordingly pushes an entry that is not stored yet. The
order inside a list is left open; the priority order of a host queue is kept.

Time. A score that is a time is modelled by the time left. All clocks are one
clock: the scripts get the caller's clock, so the model assumes that the crawler
hosts agree on the time to well within a lease.

`Overrun` says whether a live worker may still hold an entry when its lease has
run out. With `FALSE` the worker has settled or died by then, which is what the
default timeouts are chosen for; with `TRUE` anything goes. In RawPages `Overrun` is
the set of the pages whose workers may outlive their lease.

### RawPages

| Model | Code |
|---|---|
| `queue`, `processing`, `lease`, `redeliveries`, `dead`, `payload` | `queue:raw_pages` and its companions, the keys `raw_page:<id>` |
| `contentSeen`, `docs`, `total`, `seen`, `frontier`, `jobs` | `content:seen`, `queue:parsed_docs`, `stats:totals`, the seen filter, the children pushed on `frontier:queue`, `job:<id>` with its progress counters |
| `files` | the Markdown files, by path (job and final URL) |
| `recordings` | history: the pages in the order in which they were recorded; no guard reads it |
| `pc`, `page`, `nextReap`, `stopping` | where `Worker.run` is, the item it works on, its reaping clock, its `running` flag |
| `Push`, `Expire` | the crawler's push, and the end of the payload's seven days |
| `MaybeReap`, `ReapFails`, `Take`, `TakeNothing`, `Register` | `maybe_reap`; `BLMOVE`; `ZADD` of the lease: a worker may die or stall between the last two |
| `Read`, `Write`, `Raise` | the payload is read and validated, the file written; an exception |
| `CommitDocument`, `CommitDuplicate`, `CommitStale`, `Unlink`, `DeadLetter` | the three answers of `PROCESS_PAGE_LUA`, what the pipeline does after them, `DEAD_LETTER_LUA` |
| `RedisFails` | a call that failed, or was executed and its reply lost |
| `Crash`, `Stop`, `Restart` | death, SIGTERM, a new process |

The reply of a settle script may be lost after it was executed; the worker then goes
on as if it had failed. A fingerprint is the body itself: collisions of the hash
are left out.

### Politeness

| Model | Code |
|---|---|
| `hosts[h]` | the score of `h` in `frontier:hosts`, as time left |
| `cache`, `memory`, `inflight` | `robots:<host>`, and the checker's two maps in each process |
| `worker[w]` | where `Handle` is, what the check found, the time left of its network call |
| `owed` | history: what is left of the gap after the host's last answer; no guard reads it |
| `Recall`, `Join`, `Lead`, `Conclude`, `Remember` | the branches of `policy`: remembered, in flight, first to ask; the end of the call; the map that is emptied when it is full |
| `LoadCached`, `LoadMissing`, `Fetched`, `LookupFails` | `load` and `fetch` |
| `Release`, `RetryLater`, `Disallowed`, `Fetch`, `HostAnswers`, `RequestFails`, `RequestBlocked` | the branches of `Handle`; each settles, or fails to and leaves the lock |
| `Shutdown`, `Restart`, `Crash` | of a process, whose memory is lost |

Frontier leaves open which gap an outcome leaves and lets time pass at any point;
Politeness says which, and lets time pass in network calls only. `Hosts` are names in
the frontier, `Keys` are what the checker calls a host (`u.Host`): the frontier
takes a URL with credentials for a host of its own, so two workers may ask for
one key. A worker whose context has been cancelled may still get an answer that was
under way. `RESPECT_ROBOTS` is on, as by default, and URLs are valid.

### Reset, Supervisor, Export, Urls

`Reset` extends `Frontier` with the five steps of a reset (`UnlinkLists`, then for jobs
and hosts a scan and an unlink), the counter that `IncrJobCounter` raises after a
settle, and the question whether clients submit meanwhile (`SubmitDuring`). All of
Frontier's actions interleave with them.

`Supervisor` has one program counter per thread of `tui.py` (`main`, `keys`,
`seeder`); one action is what a thread does between two calls of Redis or the
gateway, so each shared field is read and written where the code does.
The crawl is the number of waiting targets, the pages workers hold and the documents.
A key may come as long as the listener waits for one, also after the loop was told to end;
a handler that takes long (the scans of a flush, a submission, an export, here without its
files) may outlast the 0.8 s that `stop_processes` sleeps (`Overstay`), and with `Insists`
the user may press Ctrl-C again meanwhile (`InterruptAgain`): either way the process ends
without the listener's `finally`.
`Overlap = FALSE` keeps the two threads from interleaving between a key and its end;
the missions are all those the menu and the flags can produce. The switch is taken to
be off when the UI starts.

`Export` steps through `auto_save_documents` (snapshot and filter, three times open
and write) in two threads; `chunk_markdown` is the pure operator that the chunk file
is made with. Files are sequences of documents, `Torn` where two writers mixed.

`Urls` has both canonical forms (`canonicalizeUrl` of the gateway, `canonicalize` of the
parser), the parser's `urljoin` and a browser's `Resolve`, and the scope rule of both
languages as operators on structured URLs; what Go prints for a redirect's URL (`Effective`:
path and non-ASCII host percent-escaped) and what it reads of a host (`ParsedHostname`); and
the system that feeds the seen
filter with them: clients submit, servers redirect, pages link. The operators for
urllib and WHATWG URLs stand for library code and are external.


## 4. Properties and runs

| Run | Properties | What it shows |
|---|---|---|
| `mesh` | `TypeOK`, `LeasesMatch`, `NeverCompletedEarly`, `OneRequestPerHost`, `OnlyHolderCommits` | two jobs, two hosts and one common child: leases and processing match, no redelivery count survives an outcome, host lock and fence hold for workers that respect their lease, no job is reported completed too early even if Go rejects an entry |
| `overrun` | `OnePlace`, `JobAccounting`, `KeepsPromise`, `JobsComplete` | exactly-once effects, exact counters and the refinement of `CrawlJobs` even if workers outlive their leases; every job completes although they may die for ever |
| `polite` | `TypeOK`, `PolicyFresh`, `GapKept`, `HandleEnds` | decisions rest on fresh policies, hosts get their gap whatever became of the worker that contacted them, nobody waits for ever |
| `raw_mirror` | `TypeOK`, `OnePlace`, `JobBooks`, `SinkComplete`, `KeepsPromise` | two pages with one body: nothing is lost or recorded twice, the job's books are exact, each document has its file, `PageOutcomes` is implemented |
| `raw_shells` | `LinksOnce`, `DocsKept`, `OneHolder`, `PagesSettle`, `StaleLeasesEnd` | two jobs with one link and room for one document, which has to be the last one recorded; one page's worker may outlive its lease, the other's may not |
| `ui_missions` | `PausedAsShown`, `OrderlyExitUnpauses`, `OnlyThisCrawl`, `CompletesOnTarget` | all missions of menu and flags, old documents in Redis, two keys |
| `ui_threads` | `TypeOK`, `AtMostInFlight`, `TargetNoticed` | the three threads interleave freely, with two crawler workers |
| `reset` | `OldGone`, `BooksAfterReset` | a reset between claims, settles and maintenance |
| `urls` | `TypeOK`, `CrawledOnce`, `LinkKept`, `StaysOnSite`, `AdmittedByCrawler` | one key per page, links that lead where a browser would go, crawls that stay on their site; redirects give their hosts in ASCII |
| `exports` | `TypeOK`, `FilesAgree`, `ChunksFaithful` | overlapping exports, every document of up to four lines |
| `raw_v_sink`, `url_v_key` | `SinkComplete`, `CrawledOnce` | the two disagreements of section 8 |

`KeepsPromise` says what several smaller properties would: that a job is completed
exactly when nothing of it is left and only a replay reopens it (`CompletedIffDrained`,
`ReopenedByReplay`), and in RawPages that a body is indexed once and what is dropped as a
duplicate repeats an indexed document (`ContentOnce`), however late a commit comes.
`BooksAfterReset` contains `ScheduledExact` and `QueuedHostsKnown`. What is contained has theorems
of their own (section 5) and no run of their own. `CrawlJobs` and `PageOutcomes` are
short on purpose: a target is live, then finished, dead or discarded, a page has
one outcome, and nothing in them knows of leases, queues or workers.

**Bounds.** Two workers wherever workers compete: a script involves one worker and the
stores, and conflicts are between two. Limits are the smallest at which both sides
of the limit are reached: `MaxAttempts = 2` and `MaxRedeliveries = 1` (one retry and one
redelivery before each dead letter), `MaxDocs = 1` with two pages (`DocumentsKept` has any limit), `maxMemoryHosts = 1`
with two keys, windows of three words on lines of four, a page limit of one or two
with up to three documents. Time is in ticks, few enough for the space to be finite
and in the order that matters: a lease outlives the gap (so a mutant that locks a host
for the gap only is caught); in `polite` a lock is two calls and the longest gap, the
least the assumption of the module allows, a memory lives as long as the shared
cache, and both expire within the run. Shutdowns, crashes of `polite`, replays, resets, keys and
submissions are bounded by `Max...` constants, which bound what people do; what the
program does is bounded by its own limits, and every state space is explored
completely. The instances are built so that the cases happen: a common child decides
which job gets a link, a fan-out of children on two hosts is reaped together, an
entry without a host and one Go does not decode are in the queues, two mirrored pages
race for one fingerprint, one server is known under two names. `urls` uses every path of up to three segments from names,
dots, double dots and empty segments; its operators for urllib were compared with
Python on some 1600 pairs of base and reference while they were written.

`CHECK_DEADLOCK FALSE` is said in `Supervisor`, `Urls` and `Export`: the program exits,
or the bounded clients stop. The other systems never stop, since time goes on, and are
checked for deadlock. Worker identities are symmetric in `mesh`, `raw_mirror`, `raw_v_sink` and `reset`;
in the runs with liveness symmetry would be unsound.

**Fairness.** `overrun`: weak fairness of time; of each maintenance ticker, which
`maintenanceLoop` runs in every instance; of a worker's loop of claiming and handling
(requests have timeouts, and settling has its own, `bookkeepingTimeout`); of the
restart of a stopped process (`restart: unless-stopped` in `docker-compose.yml`); of the
parser. `raw_shells`: the same for time, the worker's loop and restart, and strong
fairness of `MaybeReap`: the loop passes it again and again, it is not possible while a
page is handled, and Redis does not fail for ever. `ui_threads`: each of the three threads
goes on. `polite`: a worker goes on, and its calls end by their timeouts. Deaths and
failed calls get neither fairness nor (in `overrun` and `raw_shells`) a bound: things
end because redeliveries and attempts are bounded, not because workers stop dying.
The pause switch is assumed off where a liveness property is about jobs, and Redis up.

Every property has a mutant of the code it depends on (`PROJECT.json`); the mutated
forms stand beside the originals and are marked as such.

## 5. What is proved

The theorems hold for every finite set of targets, pages or keys, any workers,
processes, hosts, limits and batch sizes. The assumptions on all constants are
those named in the modules; a theorem that needs more says so in its statement.

### Frontier

* `TypeCorrect`: not only typing; attempts stay below `MaxAttempts` (a retry that
  reaches the limit is a dead letter) and redelivery counts within `MaxRedeliveries`.
* `EveryTargetInOnePlace`: `OnePlace` alone is not inductive: a submission could
  enqueue a target that is already stored. `PlaceInv` adds `KnownTargets`: every stored
  target of a job has a job hash and a URL in the seen filter. A submission then brings
  only unknown jobs, the parser only unseen URLs, and every other step moves an entry
  from one store to one other. The fence (`Ours`) is what the settle case rests on.
* `NeverEarly`, `AccountingExact`, `CompletionExact`: `JobsInv` adds, for each job, how
  `outstanding`, `status` and the set of live entries relate. Each bookkeeping operator
  has a lemma about any job hashes and any set of entries, and each step is an instance
  of one or two of them; the parser's commit is counting in followed by finishing, in
  this order. The exact forms assume `Undecodable = {}`, since the path of a corrupt
  entry (section 8) breaks them; `NeverEarly` does not.
* `ReopenedOnlyByReplay`: by `JobsInv` a job with a live page is not completed, so the
  children of a page never reopen its job.
* `Implements`: `Spec => KeepsPromise`, assuming `Undecodable = {}`. Each step is one of
  the five abstract steps or a stutter; `OnePlace` makes taking an entry away the same
  as taking its target away, and `CompletedFromInv` makes the report of both sides agree.
* `LeasesExact`, `GaugeExact`, `HostsKept`: `RegistryInv` is `PlaceInv`, the three
  properties, and `Routable`: entries without a host are neither queued nor in processing
  and have no redelivery count. Without it `Route` could dead-letter an entry and leave
  its count behind.
* `PoliteToHosts`, `FenceIdentifies`, assuming `~Overrun`: `HoldInv` says that a claim
  is `Backed`: its entry is in processing, with a lease that has not run out and that the
  host's time does not undercut, and its `holder` is the worker. `Overrun` is used in one
  step, `Tick`. The assumption is needed (section 8).

### RawPages

* `TypeCorrect` and `NoPageLost`: the invariant says, for every value of `pc`, where the
  page of the worker may be, so that the two commands of `take` and the reaper's
  adoption of orphans fit together, and that a page with an outcome is in no store.
* `ContentIndexedOnce`: `contentSeen` is exactly the set of indexed bodies, because
  fingerprint and document are written by one script.
* `SinkNeverMisses`: when no two pages share a job and a final URL (`DistinctPaths`), an
  indexed document has its file. `FileBooks` says more, that the file is the document's own:
  only the worker whose commit said "duplicate" removes a
  file, and that page is not indexed. The assumption is needed (`raw_v_sink`).
* `PipelineKeepsPromise`: `Spec => KeepsPromise`.
* `LinkEnqueuedOnce`: the seen filter is the set of enqueued links.
* `DocumentsKept`: the list is the end of `recordings`, backwards, as long as its limit
  allows. It rests on `OnePlace` (a page in processing was not recorded) and on what
  `LPUSH` and `LTRIM` make of a list (`NewestShape`).
* `JobBooksKept`: `JobBooks` speaks of the jobs that have pages; `AllBooks` says the same
  through one operator, `Shows`, of a hash and four numbers. Counting in, finishing,
  recording and dropping have a lemma each about any hash that shows some numbers;
  that the numbers are cardinalities is separate, and rests on `OnePlace` (a page is
  in one of the sets that are counted) and `LinksOnce` (a new link is no child yet).
* `PunctualHolderAlone`: `OneHolder` says nothing of a worker whose page is settled
  already, of the step between a duplicate's commit and its unlink, or of a page nobody
  holds. `HolderInv` does: only pages in processing have a lease, so one that is
  taken again starts without a lease, and the lease of a page held in time never
  runs out, which is why the reaper leaves it alone.

### Politeness

* `HostsAreSpared`: `Spec => []GapKept`. The invariant `Budget` bounds from below what is
  left of the lock of a busy worker's host by where the worker is and what is left of
  its network call; a worker that waits for another one's look-up has used as much as
  that one. `Apart` follows: a busy worker's host is never claimable. `Owed` says that a
  host is closed as long as it is owed time. That the gap survives a worker that
  dies after the answer is where `PolitenessAssumption` is used: the lock outlasts two
  calls and the longest gap. The defaults satisfy it; nothing in the code
  enforces it.
* `PoliciesAreFresh`: what is in the shared cache is younger than its lifetime, and in a
  memory age and time left add up to at most both lifetimes (`Kept`), since an entry is
  never renewed.
* `TypesCorrect`: with the bound on a process's memory, and leaders for all look-ups.

### Reset

* `BooksExactAgain`: `ResetSpec => []BooksAfterReset`, assuming `~SubmitDuring` and
  `Undecodable = {}`. Between resets the invariants of Frontier hold, with every step
  of Frontier covered by their step lemmas. During one they do not, since queues and
  job hashes go in separate calls. `BooksInv` says what holds then: what the first
  unlink removes stays empty (`Wiped`), because every script of crawler and parser
  first looks for an entry in one of the lists; a deleted job owes nothing; and the two
  scans miss nothing (`ScansComplete`). When the last call returns, everything is empty,
  which is an initial state of the frontier but for what the workers hold.
* `OldStaysGone`: `ResetSpec => []OldGone`, assuming `~SubmitDuring` and `Foreign = {}`.
  `OldInv` adds that wiped entries and entries in workers' hands belong to job ids that
  were used, and a job id is never used again. An entry pushed by hand has no job id:
  pushed again it is the same string.

With `SubmitDuring` both sorts of leftovers happen (section 8). `Undecodable` is
needed for the same reason as in `AccountingExact`.

### Supervisor

* `TypeCorrect` and `FlushForgets` need no assumption. The latter rests on `SessionInv`:
  documents are at most those of the start and the scraped ones, and during a
  flush exactly the scraped ones.
* `PausingStops`: `InFlightInv` counts the claims made since the switch was set together
  with the workers that have looked at it before and may still claim.
* `OrderlyExits` (`OrderlyExitUnpauses`) assumes `~Overlap` and `HasTerminal`, and speaks of a
  process whose listener ended before it. `TurnInv` relates the positions
  of the two threads: once the listener cleans up, the main thread is not
  where it pauses, and `running` is false, so that it never gets there again. Of a process
  that ends before its listener nothing of the kind is true (section 8).
* `ScreenTellsTruth` assumes `~Overlap`. `ShownInv` says for each position of the
  threads which of `paused`, the switch and `mission_complete` may already be ahead.
* `CompleteMeansDone` assumes `~Overlap`; it is an action property and follows from
  `TurnInv`: the count that was read is still at most the number of documents.

The assumptions are needed; section 8 has what the code does without them.

### Folds

Dot segments, windows and filters are computed along a sequence, and the models write
that as `FoldLeft`. What such a fold returns for every sequence is an induction over its
length, and the library's induction theorems, whose parameter is a predicate, cannot be
instantiated by the provers. `FoldProofs` does the induction on a set instead
(`Induction`: a set that holds 0 and with `n` also `n + 1` holds `Nat`), from the library's
theorem on minimal elements, whose parameters are a set and a relation. The community
modules define a fold by a recursive function over all subsets of the domain, of which the
language only says "some function that satisfies the equation". `Iteration` shows that there
is one, with the step of the fold as a function; `StepByStep` turns it into a function `f` on
`0 .. Len(s)` with `f[0]` the start, `f[n + 1]` the step applied to `f[n]`, and `f[Len(s)]` the
fold. Each operator that is folded has one lemma of that form (`WalkFold`, `SkipFold`,
`WhatwgFold`, `ScanFold`, `CutFold`, `KeepFold`); what is proved of it afterwards is an
invariant of `f`, like that of a program.

### Export

* `OverlapsAgree`: `Spec => []FilesAgree`, for every list of documents. `AgreeInv` says of
  the exports since the last quiet moment, if all of them are of the documents `s`:
  a file being written is empty or complete, never torn; and a file that does not
  hold `s` is still to be written by some thread. When all threads rest nobody owes a
  file, so all three hold `s`.
* `ExportsTyped`: `Spec => []TypeOK`, if lists are sequences (`TypedLists`). What passes the
  filter is embedded in the list by an increasing function of positions (an invariant of
  the fold over `Keep`); a commit shifts the positions by one, so files of earlier exports
  stay in the order of the list.
* `NoWordLost` and `WordsStayUnderHeadings` (`ChunksFaithful`): `Scanned` is the invariant of
  the lines read so far: the heading under way is the last one above, words lie in
  sections of the last heading above them, and every word of text is in a finished
  section or the one under way. A section is not kept when it has no words, so its end
  loses none. `WindowsFaithful` is the arithmetic of the windows: the stride is between
  one and `MaxTokens`, so word `k` is in window `(k - 1) \div step + 1`. The first theorem
  holds for all documents (`DocumentLists`); the second adds that no comment looks like a
  heading (`CommentlessLists`), which is where the code goes wrong (section 8).

### Urls

* `NeverLeavesSite`: `ScopeInv` says that the seed's name is a suffix of the host of
  every target that stays, and that all hosts are in ASCII. A link adds two relations:
  the host that answered lies below the one asked (Go's rule) and the link's host below
  that (Python's); suffixes are transitive. With `scope_host` the parser compares
  with the seed directly.
* `CrawlerAdmits`: rests on `StripsAgree`, the lemma that Go's `stripWWW`, which drops one
  trailing dot, and Python's `_strip_www`, which drops all of them, give the same on names.
* `FrontierCanonical`: `Spec => []TypeOK`. Neither removal of dots leaves one, for any path
  (`ParserUndots`, `BrowserUndots`), and joining paths returns a path.
* `ParserAgrees`: `_remove_dot_segments(p) = WhatwgPath(p)` for every nonempty path `p`
  without percent-encoded dots. The parser walks all segments and then looks at the last, WHATWG
  decides at each segment and needs to know whether it is the last: the invariant is that
  both have the same output before the last segment.
* `LinksLeadToTheirPages` (`LinkKept`) and `PagesCrawledOnce` (`CrawledOnce`): `NameInv` says that
  every target is named by its page, that the gateway leaves this name alone, and that
  no name is enqueued twice. A seed is named by the gateway itself, which changes nothing
  the second time. For a link, the parser's `urljoin` and a browser's resolution
  collapse the same dots (`SameUrl`), and then `ParserAgrees`, and its counterparts for
  ports and hosts, make one name of both.

The first two assume `NamedHosts`: no empty label but the root's, and no IPv6 literal. Python's
idna codec rejects empty labels; with literals the crawler's rule fails (section 8).
`TypedPaths`, for `FrontierCanonical`, says no more than that paths are sequences.
`PlainWebs`, for the last two, names what the two languages treat alike. Everywhere: hosts
are names. Redirects give their hosts in ASCII. In links and redirects: no sharp s, no percent-escaped
host, no percent-encoded dots, no empty segments
but the last, in links no accent that is not encoded and no bare `?`. Seeds may have encoded
dots, accents and a sharp s, for the gateway is the first to see them, but no path that keeps an
empty segment inside once its dots are removed. Each of those is a difference of the two languages and not a
convenience: sharp s, accents and encoded dots are finding 2 of section 8, redirects to hosts
that are not ASCII and gaps are
in its table and the bare `?` is below it. The run `urls` is an instance of all of these assumptions.

**Only model-checked**: liveness (`JobsComplete`, `PagesSettle`, `StaleLeasesEnd`,
`TargetNoticed`, `HandleEnds`), which is out of the prover's reach. Every safety property a
passing run checks has a theorem.

## 6. How the modules fit together

Frontier treats the parser as two actions (`ParserCommit`, `ParserDeadLetter`) and any
gap as possible; RawPages and Politeness detail these two places. RawPages is the
environment that Frontier assumes: a page handed over gets one outcome (`OnePlace`,
`PagesSettle`), its children are counted in before it is finished, a link is enqueued
once (`LinksOnce`). Politeness is a worker between `Claim` and `Settle` of Frontier:
its steps never shorten a lock but by a settle. Reset runs on top of Frontier itself.
The composition is by these matching promises, not by one state space.

## 7. Not modelled

* Fetcher transport, address filter, truncation and content sniffing; HTML to Markdown
  and metadata; the metrics and document routes, which read; set-up of the gateway,
  configuration, dashboard, message schemas, deployment: no state that others depend on.
* False positives of the Bloom filter: a new link taken for a seen one is skipped,
  which the model covers as a page without that link; for a seed it is a refusal the
  model does not have.
* Redis losing its last second (`appendfsync everysec`), and clocks that differ.
* The backoff's 64-bit shift (`pool.go:265`): the 32nd attempt is the first to
  overflow it, the default is three; in the models the backoff is a constant.
* Paths inside robots.txt: a policy allows a host or forbids it.
* In Reset, the raw page queue and its payloads, which the first unlink removes
  together with the frontier's lists.
* In Supervisor, the child processes and a client that sets `crawler:paused` by hand.
* Escapes and characters in URLs outside the tables of `Urls`; matching of IP literals
  beyond one IPv6 literal.

## 8. Where code and documents disagree

In runs:

1. **A duplicate can delete another page's file** (`raw_v_sink`). The Markdown path is made of
   job and final URL, so two targets that redirect to one URL share it; the second one
   overwrites it, its commit is a duplicate and unlinks it, and the first one's document is
   left without a file. `REDIS_SPEC.md:88-89` promises
   that every document has a file and none goes missing.
2. **Two canonical forms** (`url_v_key`). Encoded dot segments, non-ASCII paths and the
   sharp s get different keys from the gateway and the parser, so a page is crawled
   twice, which `url_canonicalization.json:2` excludes.

Observed outside the runs. Each is reproduced by checking the named definition with the
constants given; they show the boundary of what the passing runs say.

| Definition | Constants | What the code does |
|---|---|---|
| `JobAccounting` (Frontier) | `Undecodable = {"seed"}`, one job (`OneTargets`, `OneSeeds`, ...) | `Claim` dead-letters an entry `json.Unmarshal` rejects under the key `job:` (frontier.go:258), so its job never completes; `REDIS_SPEC.md:47` says a corrupt payload finishes the job's item. The gateway puts no maximum on `max_depth` (jobs.ts:15) |
| `OnlyHolderCommits` (Frontier) | `Overrun = TRUE` | the fence is on the entry, not on the holder: the stale worker commits and the new one is refused; `REDIS_SPEC.md:12` says the opposite. The effects are still exactly once |
| `OneRequestPerHost` (Frontier) | `Overrun = TRUE` | the host lock is a time; `REDIS_SPEC.md:42` states one request per host without that condition |
| `NoStrayFile` (RawPages) | `mirror` | a late writer leaves the file of a duplicate, which `test_pipeline.py:156` says must not stay |
| `NoGhosts` (Reset) | `reset` | `HINCRBY` after a reset makes a job hash of one counter (frontier.go:335); `REDIS_SPEC.md:112` |
| `BooksAfterReset` (Reset) | `SubmitDuring = TRUE` | a target submitted between two steps of a reset keeps its entry and loses its job, or its host queue (metrics.ts:178); the answer says everything was flushed cleanly |
| `PausedAsShown` (Supervisor) | `Overlap = TRUE` | `resume_crawling` clears the flag before it raises the limit (tui.py:115): a paused, completed screen over a crawl that goes on |
| `CountsThisSession` (Supervisor) | `Interfaces = {"flags"}`, `HasTerminal = FALSE` | without a target URL documents of earlier sessions complete the mission (tui.py:529); tui.py:528 says "scraped in this session" |
| `ExitUnpauses` (Supervisor) | `missions` | the key listener, a daemon thread (tui.py:885), removes `crawler:paused` when it ends (tui.py:744: "Ensure crawler:paused key is cleaned up on exit"), but the process waits 0.8 s for it (tui.py:463): when the handler of a key takes longer (`[E]`, the scans of `[F]` and `[R]`, a submission) Ctrl-C ends the process without the clean-up and the crawl stays paused. With `Insists = TRUE` a second Ctrl-C in the 0.8 s does the same |
| `ExitUnpauses` (Supervisor) | `Interfaces = {"flags"}`, `HasTerminal = FALSE` | only the key listener removes `crawler:paused`, and it is not started without a terminal (tui.py:884, against tui.py:744) |
| `OrderlyExitUnpauses` (Supervisor) | `Overlap = TRUE` | q is pressed while the main thread completes a mission: the listener removes the switch, `pause_crawling` sets it again (tui.py:746, tui.py:533), and the crawl stays paused after the exit |
| `CompletesOnTarget` (Supervisor) | `Overlap = TRUE` | a flush falls between the count and its comparison (tui.py:529): the mission completes on documents that are gone |
| `FlushUnpauses` (Supervisor) | `Interfaces = {"menu"}` | neither flush nor reset removes `crawler:paused` (tui.py:81); README.md:258 promises a clean start |
| `CrawledOnce` (Urls) | `Webs <- RawHosts` | after a redirect to a host that is not ASCII Go prints the host percent-escaped (fetcher.go:145), which the parser takes for the base of relative links and keeps (urls.py:40): their keys name `%c3%bc.com`, those of the same pages submitted or linked in full the punycode host that `url_canonicalization.json:5` asks for. `urls`, `PagesCrawledOnce` and `LinksLeadToTheirPages` assume that redirects give hosts in ASCII |
| `LinkKept` (Urls) | `Webs <- Literals` | `hostname` drops the brackets of an IPv6 literal (urls.py:45) |
| `LinkKept` (Urls) | `Webs <- Slashes` | `urljoin` drops empty segments of a relative path (extractor.py:296) |
| `AdmittedByCrawler` (Urls) | `Webs <- Literals` | `scope_host` of an IPv6 seed has brackets, Go's `Hostname()` has none (pool.go:331): the seed's own page is out of scope |
| `ChunksFaithful` (Export) | `Lists` = the document of `Commented` | a `#` comment in a code block becomes the section heading (extractor.py:432) |
| `OnlyAskedLanguages` (Export) | `Lists` = orders of `Spanish` | documents carry no language, so every Latin script is "en" (pipeline.py:114, tui.py:264) |
| `ExportsKept` (Export) | `exports` | the corpus has no timestamp in its name (tui.py:379); README.md:259 says it has |

Met while modelling, without a definition: `pool.go:194` and `REDIS_SPEC.md:43` say that
no request was made when a page is disallowed, but robots.txt may just have been fetched, and the
gap is kept neither after it nor between it and the page; redirects are followed without asking
robots.txt (README.md:140 says disallowed URLs are never fetched); a release on shutdown and a
blocked redirect reopen the host without a gap although it may have been contacted; a
`Retry-After` is lost when the settle that carries it fails; `<base href>` is ignored by the
extractor; the host `www.com` loses its first label;
for the link `?` `urljoin` keeps the query of the page (extractor.py:296), so the parser takes it
for a link of the page to itself, where a browser opens the page without a query; `chunk_id` is the same for chunk 11 of
`/p` and chunk 1 of `/p1` (extractor.py:464).
