----------------------------- MODULE Supervisor -----------------------------
(***************************************************************************)
(* The terminal UI (scripts/tui.py) as the controller of a crawl.  Three    *)
(* threads of one process share a Supervisor object without a lock: the     *)
(* main thread refreshes the screen and stops the crawl at the page limit,  *)
(* the key listener pauses, resumes, flushes and starts over, and a third   *)
(* thread submits the seeds.  They talk to the crawler only through Redis   *)
(* and to the gateway through HTTP.                                         *)
(*                                                                         *)
(* Abstractions.  One action is what a thread does from one call of Redis   *)
(* or the gateway to the next.  Redis answers.  The crawl is counters: a    *)
(* page waits, is held by a worker of the crawler (from its claim to the    *)
(* parser's commit), and becomes a document or nothing.  Status messages,   *)
(* logs and layout are left out, and what [E] writes is module Export: here *)
(* an export only takes its time.                                           *)
(***************************************************************************)
EXTENDS Integers, FiniteSets

CONSTANTS
  Workers,       \* the crawler's workers
  Limits,        \* the page limits users ask for; 0 is no limit
  DefaultLimit,  \* 30
  More,          \* 50, what [C] adds
  Attempts,      \* 12
  FileUrls,      \* URLs in the seed file
  Interfaces,    \* where the mission may come from: "menu", "flags"
  HasTerminal,   \* sys.stdin.isatty()
  Insists,       \* may the user press Ctrl-C again while the process stops?
  Overlap,       \* may keys be handled while the main thread counts?
  MaxKeys, MaxOld, MaxWaiting, MaxDocs    \* bounds

NoLimit == -1   \* max_pages is None

ASSUME SupervisorAssumption ==
  /\ IsFiniteSet(Workers)
  /\ Limits \subseteq Nat /\ DefaultLimit \in Nat /\ More \in Nat
  /\ Attempts \in Nat \ {0} /\ FileUrls \in Nat
  /\ Interfaces \subseteq {"menu", "flags"} /\ HasTerminal \in BOOLEAN
  /\ Insists \in BOOLEAN /\ Overlap \in BOOLEAN
  /\ "menu" \in Interfaces => HasTerminal
  /\ MaxKeys \in Nat /\ MaxOld \in Nat /\ MaxWaiting \in Nat /\ MaxDocs \in Nat

-----------------------------------------------------------------------------
(* Missions *)

Mission == [url : BOOLEAN, file : BOOLEAN, flush : BOOLEAN, depth : {0, 2},
            max_pages : Limits \cup {NoLimit, 1, DefaultLimit}, valid : BOOLEAN]

SinglePage == [url |-> TRUE, file |-> FALSE, flush |-> TRUE, depth |-> 0, max_pages |-> 1,
               valid |-> TRUE]
SiteCrawl(n) == [SinglePage EXCEPT !.depth = 2, !.max_pages = n]
SeedFile == [SiteCrawl(NoLimit) EXCEPT !.url = FALSE, !.file = TRUE]
NoSeeds(fl) == [SeedFile EXCEPT !.file = FALSE, !.flush = fl]

(* What the menu makes of its answers: the first choice, the second one and *)
(* the page limit, where it asks for them.                                  *)
prompt_user_menu(choice, sub, limit) ==
  CASE choice = "url" -> IF sub = "1" THEN SinglePage ELSE SiteCrawl(limit)
    [] choice \in {"1", "domain"} -> SinglePage
    [] choice = "2" -> SiteCrawl(limit)
    [] choice = "3" -> SeedFile
    [] choice = "4" /\ sub = "1" -> SinglePage
    [] choice = "4" /\ sub = "2" -> SiteCrawl(DefaultLimit)
    [] choice = "4" /\ sub = "3" -> SeedFile
    [] choice = "4" /\ sub = "4" -> NoSeeds(TRUE)
    [] OTHER -> NoSeeds(FALSE)

FromTheMenu ==
  {prompt_user_menu(c, s, n) : c \in {"1", "2", "3", "4", "5", "url", "domain", "?"},
                               s \in {"1", "2", "3", "4"}, n \in Limits}

(* The flags, unless they ask for nothing and there is a terminal. *)
FromFlags ==
  {m \in Mission : /\ m.max_pages \in Limits \cup {NoLimit}
                   /\ m.url \/ m.file \/ m.flush \/ ~HasTerminal}

(* The gateway refuses what is not a URL of http or https. *)
Missions ==
  LET asked(i) == IF i = "menu" THEN FromTheMenu ELSE FromFlags
  IN {[m EXCEPT !.valid = v] : m \in UNION {asked(i) : i \in Interfaces}, v \in BOOLEAN}

-----------------------------------------------------------------------------
VARIABLES
  mission,           \* what was asked for
  switch,            \* crawler:paused exists
  documents,         \* stats:totals documents
  waiting,           \* targets waiting in the frontier
  worker,            \* "void": it holds a page a flush took away
  paused, mission_complete, max_pages, initial_doc_count, running,
  main, count,       \* the main thread, and its parsed_count
  keys,              \* the key listener
  seeder,            \* the thread that submits the seeds
  attempt,           \* tries of the two threads that submit
  presses,           \* keys pressed so far
  scraped,           \* history: documents of this session since the last flush
  claims             \* history: pages claimed since crawler:paused was set

crawl == <<documents, waiting, worker, scraped>>
fields == <<paused, mission_complete, max_pages, initial_doc_count, running>>
vars == <<mission, switch, crawl, fields, main, count, keys, seeder, attempt, presses, claims>>

Senders == {"seeder", "keys"}

TypeOK ==
  /\ mission \in Mission
  /\ switch \in BOOLEAN /\ documents \in Nat /\ waiting \in Nat
  /\ worker \in [Workers -> {"idle", "looked", "holding", "void"}]
  /\ paused \in BOOLEAN /\ mission_complete \in BOOLEAN /\ running \in BOOLEAN
  /\ max_pages \in Nat \cup {NoLimit} /\ initial_doc_count \in Nat
  /\ main \in {"top", "checking", "pausing", "stopping", "waiting", "leaving", "exited"}
  /\ count \in Nat
  /\ keys \in {"none", "select", "pausing", "resuming", "extending", "scanning", "clearing",
               "rescanning", "reclearing", "restarting", "sending", "exporting", "cleaning",
               "ended"}
  /\ seeder \in {"sending", "ended"}
  /\ attempt \in [Senders -> 0..Attempts]
  /\ presses \in 0..MaxKeys
  /\ scraped \in Nat /\ claims \in Nat

(* main up to its loop: a flush comes before the services start. *)
Init ==
  /\ mission \in Missions
  /\ \E old \in 0..MaxOld, queued \in 0..1 :
       /\ documents = IF mission.flush THEN 0 ELSE old
       /\ waiting = IF mission.flush THEN 0 ELSE queued
  /\ switch = FALSE
  /\ worker = [w \in Workers |-> "idle"]
  /\ paused = FALSE /\ mission_complete = FALSE /\ running = TRUE
  /\ max_pages = mission.max_pages /\ initial_doc_count = documents
  /\ main = "top" /\ count = 0
  /\ keys = IF HasTerminal THEN "select" ELSE "none"
  /\ seeder = IF mission.url \/ mission.file THEN "sending" ELSE "ended"
  /\ attempt = [t \in Senders |-> 0]
  /\ presses = 0 /\ scraped = 0 /\ claims = 0

-----------------------------------------------------------------------------
(* crawler:paused *)

SetSwitch ==
  /\ switch' = TRUE
  /\ claims' = IF switch THEN claims ELSE 0

ClearSwitch == switch' = FALSE /\ UNCHANGED claims

-----------------------------------------------------------------------------
(* The main thread: render, and in get_metrics the page limit *)

(* Without Overlap a key is handled, and the documents are counted, only    *)
(* while the other thread is between two rounds.                            *)
KeysAtRest == Overlap \/ keys \in {"none", "select", "ended"}
MainAtRest == Overlap \/ main \in {"top", "waiting"}

Count ==
  /\ main = "top" /\ running /\ KeysAtRest
  /\ count' = documents
  /\ main' = "checking"
  /\ UNCHANGED <<mission, switch, crawl, fields, keys, seeder, attempt, presses, claims>>

NonNegative(n) == IF n > 0 THEN n ELSE 0

CountsAll(total) == total   \* a mutated form

EffectiveOf(total) ==
  IF mission.url THEN NonNegative(total - initial_doc_count) ELSE total

ReachedBeyond(n) == max_pages > 0 /\ n > max_pages   \* a mutated form

(* `self.max_pages and effective_count >= self.max_pages` *)
Reached(n) == max_pages > 0 /\ n >= max_pages

Complete ==
  /\ main = "checking"
  /\ Reached(EffectiveOf(count)) /\ ~mission_complete
  /\ mission_complete' = TRUE
  /\ paused' = TRUE
  /\ main' = "pausing"
  /\ UNCHANGED <<mission, switch, crawl, max_pages, initial_doc_count, running, count,
                 keys, seeder, attempt, presses, claims>>

CarryOn ==
  /\ main = "checking"
  /\ ~Reached(EffectiveOf(count)) \/ mission_complete
  /\ main' = "top"
  /\ UNCHANGED <<mission, switch, crawl, fields, count, keys, seeder, attempt, presses, claims>>

PauseAtLimit ==
  /\ main = "pausing"
  /\ SetSwitch
  /\ main' = "top"
  /\ UNCHANGED <<mission, crawl, fields, count, keys, seeder, attempt, presses>>

Leave ==
  /\ main = "top" /\ ~running
  /\ main' = "stopping"
  /\ UNCHANGED <<mission, switch, crawl, fields, count, keys, seeder, attempt, presses, claims>>

(* Ctrl-C *)
Interrupt ==
  /\ main \in {"top", "checking", "pausing"}
  /\ main' = "stopping"
  /\ UNCHANGED <<mission, switch, crawl, fields, count, keys, seeder, attempt, presses, claims>>

stop_processes ==
  /\ main = "stopping"
  /\ running' = FALSE
  /\ main' = "waiting"
  /\ UNCHANGED <<mission, switch, crawl, paused, mission_complete, max_pages,
                 initial_doc_count, count, keys, seeder, attempt, presses, claims>>

(* stop_processes sleeps 0.8 s.  The key listener needs less for a call of   *)
(* Redis and for its last select, but these handlers may still run then.    *)
LongHandlers ==
  {"scanning", "rescanning", "reclearing", "restarting", "sending", "exporting"}

Overstay ==
  /\ main = "waiting" /\ keys \in LongHandlers
  /\ main' = "leaving"
  /\ UNCHANGED <<mission, switch, crawl, fields, count, keys, seeder, attempt, presses, claims>>

(* Another Ctrl-C ends stop_processes, and the process. *)
InterruptAgain ==
  /\ Insists /\ main \in {"stopping", "waiting"}
  /\ main' = "leaving"
  /\ UNCHANGED <<mission, switch, crawl, fields, count, keys, seeder, attempt, presses, claims>>

(* The process ends, and its other threads with it: they are daemons, which *)
(* no finally can keep alive.                                               *)
Exit ==
  /\ \/ main = "waiting" /\ keys \in {"none", "ended"}
     \/ main = "leaving"
  /\ main' = "exited"
  /\ UNCHANGED <<mission, switch, crawl, fields, count, keys, seeder, attempt, presses, claims>>

-----------------------------------------------------------------------------
(* The key listener *)

(* `while sup.running`, which is not looked at again until a key came, or   *)
(* none for 0.2 s.                                                          *)
Press ==
  /\ main # "exited" /\ keys = "select" /\ MainAtRest
  /\ presses < MaxKeys
  /\ presses' = presses + 1

NextRound == IF running THEN "select" ELSE "cleaning"

(* [C], and [P] while paused *)
ResumeAgain ==
  /\ paused' = FALSE
  /\ UNCHANGED <<mission_complete, max_pages>>   \* a mutated form

Resume ==
  /\ paused' = FALSE
  /\ mission_complete' = FALSE
  /\ UNCHANGED max_pages

resume_crawling ==
  /\ Press
  /\ Resume
  /\ keys' = "resuming"
  /\ UNCHANGED <<mission, switch, crawl, initial_doc_count, running, main, count, seeder,
                 attempt, claims>>

Unpause ==
  /\ main # "exited" /\ keys = "resuming"
  /\ ClearSwitch
  /\ keys' = "extending"
  /\ UNCHANGED <<mission, crawl, fields, main, count, seeder, attempt, presses>>

Extend ==
  /\ main # "exited" /\ keys = "extending"
  /\ max_pages' = IF max_pages = NoLimit THEN More ELSE max_pages + More
  /\ keys' = NextRound
  /\ UNCHANGED <<mission, switch, crawl, paused, mission_complete, initial_doc_count,
                 running, main, count, seeder, attempt, presses, claims>>

(* [P] while not paused *)
pause_crawling ==
  /\ Press
  /\ ~paused
  /\ paused' = TRUE
  /\ keys' = "pausing"
  /\ UNCHANGED <<mission, switch, crawl, mission_complete, max_pages, initial_doc_count,
                 running, main, count, seeder, attempt, claims>>

PauseByKey ==
  /\ main # "exited" /\ keys = "pausing"
  /\ SetSwitch
  /\ keys' = NextRound
  /\ UNCHANGED <<mission, crawl, fields, main, count, seeder, attempt, presses>>

(* flush_redis of [F] (again = FALSE) and [R]: first one UNLINK of all      *)
(* lists and counters.  crawler:paused is not among them.                   *)
flush_redis(again) ==
  /\ Press
  /\ documents' = 0 /\ waiting' = 0 /\ scraped' = 0
  /\ worker' = [w \in Workers |-> IF worker[w] = "holding" THEN "void" ELSE worker[w]]
  /\ keys' = IF again THEN "rescanning" ELSE "scanning"
  /\ UNCHANGED <<mission, switch, fields, main, count, seeder, attempt, claims>>

(* Then job and host keys, by scanning.  Targets that were submitted and    *)
(* routed in between may go with the queues of their hosts.                 *)
Scan ==
  /\ main # "exited" /\ keys \in {"scanning", "rescanning"}
  /\ \E left \in 0..waiting : waiting' = left
  /\ keys' = IF keys = "scanning" THEN "clearing" ELSE "reclearing"
  /\ UNCHANGED <<mission, switch, documents, worker, scraped, fields, main, count, seeder,
                 attempt, presses, claims>>

ForgetCount == initial_doc_count' = 0

Cleared ==
  /\ main # "exited" /\ keys = "clearing"
  /\ ForgetCount
  /\ keys' = NextRound
  /\ UNCHANGED <<mission, switch, crawl, paused, mission_complete, max_pages, running, main,
                 count, seeder, attempt, presses, claims>>

(* recrawl_target after its flush *)
recrawl_target ==
  /\ main # "exited" /\ keys = "reclearing"
  /\ ForgetCount
  /\ mission_complete' = FALSE /\ paused' = FALSE
  /\ keys' = "restarting"
  /\ UNCHANGED <<mission, switch, crawl, max_pages, running, main, count, seeder, attempt,
                 presses, claims>>

Recrawl ==
  /\ main # "exited" /\ keys = "restarting"
  /\ ClearSwitch
  /\ IF mission.url \/ mission.file
     THEN /\ keys' = "sending"
          /\ attempt' = [attempt EXCEPT !["keys"] = 0]
     ELSE keys' = NextRound /\ UNCHANGED attempt
  /\ UNCHANGED <<mission, crawl, fields, main, count, seeder, presses>>

(* [E] *)
export_documents ==
  /\ Press
  /\ keys' = "exporting"
  /\ UNCHANGED <<mission, switch, crawl, fields, main, count, seeder, attempt, claims>>

Exported ==
  /\ main # "exited" /\ keys = "exporting"
  /\ keys' = NextRound
  /\ UNCHANGED <<mission, switch, crawl, fields, main, count, seeder, attempt, presses, claims>>

(* [Q], or Enter at the end of a mission; a Ctrl-C ends the loop too. *)
Quit ==
  /\ Press
  /\ running' = FALSE
  /\ keys' = "cleaning"
  /\ UNCHANGED <<mission, switch, crawl, paused, mission_complete, max_pages,
                 initial_doc_count, main, count, seeder, attempt, claims>>

EndLoop ==
  /\ main # "exited" /\ keys = "select" /\ ~running
  /\ keys' = "cleaning"
  /\ UNCHANGED <<mission, switch, crawl, fields, main, count, seeder, attempt, presses, claims>>

NoCleanUp == UNCHANGED <<switch, claims>>   \* a mutated form

CleanUp == ClearSwitch

Finally ==
  /\ main # "exited" /\ keys = "cleaning"
  /\ CleanUp
  /\ keys' = "ended"
  /\ UNCHANGED <<mission, crawl, fields, main, count, seeder, attempt, presses>>

-----------------------------------------------------------------------------
(* enqueue_url and enqueue_file: the same submission, forced, until the     *)
(* gateway answers.                                                         *)

IsSending(t) ==
  /\ main # "exited"
  /\ IF t = "keys" THEN keys = "sending" ELSE seeder = "sending"

OneTryMore(t) == attempt[t] <= Attempts   \* a mutated form

TriesLeft(t) == attempt[t] < Attempts

Done(t) ==
  IF t = "keys" THEN keys' = NextRound /\ UNCHANGED seeder
                ELSE seeder' = "ended" /\ UNCHANGED keys

(* POST /api/jobs or /api/jobs/batch creates new jobs each time. *)
Executed == waiting' = waiting + IF mission.url THEN 1 ELSE FileUrls

Accept(t) ==
  /\ IsSending(t) /\ TriesLeft(t) /\ mission.valid
  /\ Executed
  /\ Done(t)
  /\ UNCHANGED <<mission, switch, documents, worker, scraped, fields, main, count, attempt,
                 presses, claims>>

(* No answer within 3 or 4 s, although the gateway executes the request. *)
AnswerLost(t) ==
  /\ IsSending(t) /\ TriesLeft(t) /\ mission.valid
  /\ Executed
  /\ attempt' = [attempt EXCEPT ![t] = @ + 1]
  /\ UNCHANGED <<mission, switch, documents, worker, scraped, fields, main, count, keys,
                 seeder, presses, claims>>

(* The gateway is not up yet, or answers with an error. *)
Unreached(t) ==
  /\ IsSending(t) /\ TriesLeft(t)
  /\ attempt' = [attempt EXCEPT ![t] = @ + 1]
  /\ UNCHANGED <<mission, switch, crawl, fields, main, count, keys, seeder,
                 presses, claims>>

(* 400 *)
Invalid(t) ==
  /\ IsSending(t) /\ TriesLeft(t) /\ ~mission.valid
  /\ Done(t)
  /\ UNCHANGED <<mission, switch, crawl, fields, main, count, attempt, presses,
                 claims>>

GiveUp(t) ==
  /\ IsSending(t) /\ ~TriesLeft(t)
  /\ Done(t)
  /\ UNCHANGED <<mission, switch, crawl, fields, main, count, attempt, presses,
                 claims>>

-----------------------------------------------------------------------------
(* The crawl *)

LooksAnyway == TRUE   \* a mutated form

(* Claim reads crawler:paused before it runs its script. *)
NotPaused == ~switch

Look(w) ==
  /\ main # "exited" /\ worker[w] = "idle" /\ NotPaused
  /\ worker' = [worker EXCEPT ![w] = "looked"]
  /\ UNCHANGED <<mission, switch, documents, waiting, scraped, fields, main, count, keys,
                 seeder, attempt, presses, claims>>

Claim(w) ==
  /\ main # "exited" /\ worker[w] = "looked"
  /\ IF waiting > 0
     THEN /\ waiting' = waiting - 1
          /\ worker' = [worker EXCEPT ![w] = "holding"]
          /\ claims' = claims + 1
     ELSE worker' = [worker EXCEPT ![w] = "idle"] /\ UNCHANGED <<waiting, claims>>
  /\ UNCHANGED <<mission, switch, documents, scraped, fields, main, count, keys, seeder,
                 attempt, presses>>

VoidCommits(w) == worker[w] \in {"holding", "void"}   \* a mutated form: no fence

(* The settle finds the page in processing. *)
Fenced(w) == worker[w] = "holding"

Document(w) ==
  /\ main # "exited" /\ Fenced(w) /\ documents < MaxDocs
  /\ documents' = documents + 1
  /\ scraped' = scraped + IF worker[w] = "holding" THEN 1 ELSE 0
  /\ \E links \in IF mission.depth = 0 THEN {0} ELSE 0..1 :
       /\ waiting + links <= MaxWaiting \/ links = 0
       /\ waiting' = waiting + links
  /\ worker' = [worker EXCEPT ![w] = "idle"]
  /\ UNCHANGED <<mission, switch, fields, main, count, keys, seeder, attempt, presses, claims>>

(* The page ends without a document, or its settle is refused. *)
NoDocument(w) ==
  /\ main # "exited" /\ worker[w] \in {"holding", "void"}
  /\ worker' = [worker EXCEPT ![w] = "idle"]
  /\ UNCHANGED <<mission, switch, documents, waiting, scraped, fields, main, count, keys,
                 seeder, attempt, presses, claims>>

-----------------------------------------------------------------------------
Main ==
  \/ Count \/ Complete \/ CarryOn \/ PauseAtLimit \/ Leave \/ stop_processes \/ Overstay
  \/ Exit

KeySteps ==
  \/ Unpause \/ Extend \/ PauseByKey \/ Scan \/ Cleared \/ recrawl_target \/ Recrawl
  \/ Exported \/ EndLoop \/ Finally

Key ==
  \/ resume_crawling \/ pause_crawling \/ flush_redis(FALSE) \/ flush_redis(TRUE)
  \/ export_documents \/ Quit

Send(t) == Accept(t) \/ AnswerLost(t) \/ Unreached(t) \/ Invalid(t) \/ GiveUp(t)

Crawl(w) == Look(w) \/ Claim(w) \/ Document(w) \/ NoDocument(w)

Next ==
  \/ Main \/ Interrupt \/ InterruptAgain \/ KeySteps \/ Key
  \/ \E t \in Senders : Send(t)
  \/ \E w \in Workers : Crawl(w)

Spec == Init /\ [][Next]_vars

(* Threads get their turns, and submissions end (they count attempts). *)
Fairness == WF_vars(Main) /\ WF_vars(KeySteps) /\ \A t \in Senders : WF_vars(Send(t))

FairSpec == Spec /\ Fairness

-----------------------------------------------------------------------------
(* Properties *)

Quiet == main = "top" /\ keys = "select"

(* What the screen and the key listener believe of the crawl is true when   *)
(* no key is being handled: it is paused exactly when crawler:paused is     *)
(* set, and a mission shown as complete has its workers paused.             *)
PausedAsShown == Quiet => (paused <=> switch) /\ (mission_complete => switch)

Completing == ~mission_complete /\ mission_complete'

(* A mission is only reported complete when that many documents are there   *)
(* since the last flush; when it has a target URL, of this session.         *)
CompletesOnTarget ==
  [][Completing => max_pages <= IF mission.url THEN scraped ELSE documents]_vars

(* The completion goal is based on the documents scraped in this session.   *)
CountsThisSession == [][Completing => scraped >= max_pages]_vars

(* A process that had the time to stop leaves no pause behind, although     *)
(* both threads write crawler:paused and a key may come after the loop was  *)
(* told to end.                                                             *)
OrderlyExitUnpauses == [][main = "waiting" /\ main' = "exited" => ~switch']_vars

(* The process never leaves the crawl paused behind, however it ends. *)
ExitUnpauses == main = "exited" => ~switch

(* A flush leaves a crawl that can start: the workers claim again. *)
FlushUnpauses == [][keys = "clearing" /\ keys' # "clearing" => ~switch']_vars

(* The switch is read before the claim, so pausing is not immediate; but it *)
(* lets no worker claim more than one page.                                 *)
AtMostInFlight == switch => claims <= Cardinality(Workers)

(* Pages of before a flush never count as documents after it, though their  *)
(* workers still hold them.                                                 *)
OnlyThisCrawl == scraped <= documents /\ (initial_doc_count = 0 => documents = scraped)

(* The page limit is noticed: it stops the crawl unless the user changes it or   *)
(* leaves.                                                                  *)
AtLimit == max_pages > 0 /\ EffectiveOf(documents) >= max_pages

TargetNoticed ==
  AtLimit /\ ~mission_complete
    ~> mission_complete \/ ~running \/ main = "exited" \/ ~AtLimit

=============================================================================
