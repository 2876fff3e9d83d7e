----------------------------- MODULE Politeness -----------------------------
(***************************************************************************)
(* How the crawler keeps to the rules of a host: Handle of a worker, from   *)
(* the claim that locks the host to the settle that says when it may be     *)
(* contacted again, with the robots.txt checker in between.  The checker of *)
(* a process remembers policies for some minutes and lets one worker look   *)
(* a policy up for all that ask meanwhile; all processes share a longer     *)
(* cache in Redis.                                                          *)
(*                                                                         *)
(* Abstractions.  Time is counted in ticks, and passes in network calls and *)
(* between claims.  Every host has targets waiting; what becomes of them is *)
(* module Frontier.  A policy allows all pages of a host or none.           *)
(***************************************************************************)
EXTENDS Integers, FiniteSets

CONSTANTS
  Instances,       \* processes of the crawler
  Workers,
  InstanceOf,      \* worker -> its process
  Hosts,           \* hosts as the frontier names them
  Keys,            \* hosts as URLs name them (u.Host)
  KeyOf,           \* an entry pushed with credentials has a host "user@a" and the key "a"
  Policies,        \* what servers answer, of those below
  SlowDelay,       \* the Crawl-delay of "slow"
  NoWorker,
  okTTL, serverErrorTTL, memoryTTL, maxMemoryHosts,
  PolitenessDelay, MaxCrawlDelay, retryAfterMax,
  RetryAfters,     \* what servers ask for
  FetchTimeout, VisibilityTimeout,
  MaxStops         \* bound on crashes and shutdowns

Larger(m, n) == IF m > n THEN m ELSE n
Smaller(m, n) == IF m < n THEN m ELSE n

(* Two calls fit into a lock, and leave time for the longest gap of a host. *)
ASSUME PolitenessAssumption ==
  /\ InstanceOf \in [Workers -> Instances] /\ KeyOf \in [Hosts -> Keys]
  /\ IsFiniteSet(Keys) /\ "none" \notin Hosts
  /\ Policies \subseteq {"open", "closed", "slow", "failing"} /\ NoWorker \notin Workers
  /\ {okTTL, serverErrorTTL, memoryTTL, maxMemoryHosts, FetchTimeout} \subseteq Nat \ {0}
  /\ {SlowDelay, PolitenessDelay, MaxCrawlDelay, retryAfterMax, MaxStops} \subseteq Nat
  /\ RetryAfters \subseteq Nat
  /\ VisibilityTimeout \in Nat /\ VisibilityTimeout > 2 * FetchTimeout
  /\ VisibilityTimeout >= 2 * FetchTimeout + Larger(PolitenessDelay, MaxCrawlDelay)

-----------------------------------------------------------------------------
(* Policies: parse takes 5xx for a blanket disallow.                        *)

Allowed(p) == p \in {"open", "slow"}
CrawlDelay(p) == IF p = "slow" THEN SlowDelay ELSE 0
Ttl(p) == IF p = "failing" THEN serverErrorTTL ELSE okTTL

Aged == [policy : Policies, age : Nat]
None == [policy |-> "none", age |-> 0]
Failed == [policy |-> "error", age |-> 0]

VARIABLES
  hosts,      \* frontier:hosts: time until a host may be contacted
  cache,      \* robots:<host> in Redis
  memory,     \* of every process; left = 0 for an entry that has expired
  inflight,   \* of every process: the worker that looks a host up
  worker,     \* pc, host, what it found, time left of its network call
  stopping, stops,
  owed        \* history: what is left of the gap after the last answer

vars == <<hosts, cache, memory, inflight, worker, stopping, stops, owed>>

Idle == [pc |-> "idle", host |-> "none", found |-> None, left |-> 0]

TypeOK ==
  /\ hosts \in [Hosts -> Nat] /\ owed \in [Hosts -> Nat]
  /\ \A k \in Keys :
       cache[k] # None => cache[k] \in Aged /\ cache[k].age < Ttl(cache[k].policy)
  /\ \A i \in Instances :
       /\ \A k \in Keys : memory[i][k].left \in 0..memoryTTL
       /\ Cardinality({k \in Keys : memory[i][k].policy # "none"}) <= maxMemoryHosts
       /\ \A k \in Keys : inflight[i][k] # NoWorker =>
            LET w == inflight[i][k] IN
            /\ InstanceOf[w] = i /\ worker[w].pc \in {"loading", "fetching"}
            /\ KeyOf[worker[w].host] = k
  /\ \A w \in Workers :
       /\ worker[w].pc \in {"idle", "checking", "waiting", "loading", "fetching", "decided",
                            "requesting"}
       /\ worker[w].left \in 0..FetchTimeout
       /\ worker[w].pc = "waiting" => inflight[InstanceOf[w]][KeyOf[worker[w].host]] # NoWorker

Empty == [k \in Keys |-> [policy |-> "none", age |-> 0, left |-> 0]]

Init ==
  /\ hosts = [h \in Hosts |-> 0] /\ owed = [h \in Hosts |-> 0]
  /\ cache = [k \in Keys |-> None]
  /\ memory = [i \in Instances |-> Empty]
  /\ inflight = [i \in Instances |-> [k \in Keys |-> NoWorker]]
  /\ worker = [w \in Workers |-> Idle]
  /\ stopping = [i \in Instances |-> FALSE] /\ stops = 0

Key(w) == KeyOf[worker[w].host]
Stopping(w) == stopping[InstanceOf[w]]
Remembered(w) == memory[InstanceOf[w]][Key(w)]
Leader(w) == inflight[InstanceOf[w]][Key(w)]

-----------------------------------------------------------------------------
(* The frontier *)

ShortLock == FetchTimeout   \* a mutated form

(* A claimed host is locked for as long as the claim may last. *)
HostLock == VisibilityTimeout

Claim(w, h) ==
  /\ worker[w].pc = "idle" /\ ~Stopping(w) /\ hosts[h] = 0
  /\ hosts' = [hosts EXCEPT ![h] = HostLock]
  /\ worker' = [worker EXCEPT ![w] = [Idle EXCEPT !.pc = "checking", !.host = h]]
  /\ UNCHANGED <<cache, memory, inflight, stopping, stops, owed>>

(* The settle reopens the host after gap, or fails and leaves the lock.     *)
Settle(w, gap) ==
  /\ \/ hosts' = [hosts EXCEPT ![worker[w].host] = gap]
     \/ UNCHANGED hosts
  /\ worker' = [worker EXCEPT ![w] = Idle]

-----------------------------------------------------------------------------
(* Check and policy *)

RecallLonger(w) ==   \* a mutated form: what is used stays remembered
  /\ worker[w].pc = "checking" /\ Remembered(w).left > 0
  /\ worker' = [worker EXCEPT ![w].pc = "decided",
                  ![w].found = [policy |-> Remembered(w).policy, age |-> Remembered(w).age]]
  /\ memory' = [memory EXCEPT ![InstanceOf[w]][Key(w)].left = memoryTTL]
  /\ UNCHANGED <<hosts, cache, inflight, stopping, stops, owed>>

(* What the process remembers is used as it is. *)
Recall(w) ==
  /\ worker[w].pc = "checking" /\ Remembered(w).left > 0
  /\ worker' = [worker EXCEPT ![w].pc = "decided",
                  ![w].found = [policy |-> Remembered(w).policy, age |-> Remembered(w).age]]
  /\ UNCHANGED <<hosts, cache, memory, inflight, stopping, stops, owed>>

Join(w) ==
  /\ worker[w].pc = "checking" /\ Remembered(w).left = 0 /\ Leader(w) # NoWorker
  /\ worker' = [worker EXCEPT ![w].pc = "waiting"]
  /\ UNCHANGED <<hosts, cache, memory, inflight, stopping, stops, owed>>

Lead(w) ==
  /\ worker[w].pc = "checking" /\ Remembered(w).left = 0 /\ Leader(w) = NoWorker
  /\ inflight' = [inflight EXCEPT ![InstanceOf[w]][Key(w)] = w]
  /\ worker' = [worker EXCEPT ![w].pc = "loading"]
  /\ UNCHANGED <<hosts, cache, memory, stopping, stops, owed>>

Known(i) == {k \in Keys : memory[i][k].policy # "none"}

(* The leader ends the call and closes done: all that wait get its result.  *)
Answered(w) ==
  {v \in Workers : /\ InstanceOf[v] = InstanceOf[w]
                   /\ v = w \/ (worker[v].pc = "waiting" /\ Key(v) = Key(w))}

OnlyOnSuccess(w, found) ==   \* a mutated form: an error returns before the end
  IF found = Failed
  THEN /\ worker' = [worker EXCEPT ![w] = [@ EXCEPT !.pc = "decided", !.found = found, !.left = 0]]
       /\ UNCHANGED inflight
  ELSE /\ inflight' = [inflight EXCEPT ![InstanceOf[w]][Key(w)] = NoWorker]
       /\ worker' = [v \in Workers |->
            IF v \in Answered(w)
            THEN [worker[v] EXCEPT !.pc = "decided", !.found = found, !.left = 0]
            ELSE worker[v]]

Conclude(w, found) ==
  /\ inflight' = [inflight EXCEPT ![InstanceOf[w]][Key(w)] = NoWorker]
  /\ worker' = [v \in Workers |->
       IF v \in Answered(w)
       THEN [worker[v] EXCEPT !.pc = "decided", !.found = found, !.left = 0]
       ELSE worker[v]]

RememberAll(w, found) ==   \* a mutated form
  memory' = [memory EXCEPT ![InstanceOf[w]][Key(w)] =
               [policy |-> found.policy, age |-> found.age, left |-> memoryTTL]]

(* A full memory is emptied before an entry is added. *)
Remember(w, found) ==
  LET i == InstanceOf[w]
      kept == IF Cardinality(Known(i)) >= maxMemoryHosts THEN Empty ELSE memory[i]
      entry == [policy |-> found.policy, age |-> found.age, left |-> memoryTTL]
  IN memory' = [memory EXCEPT ![i] = [kept EXCEPT ![Key(w)] = entry]]

LoadCached(w) ==
  /\ worker[w].pc = "loading" /\ cache[Key(w)] # None
  /\ Conclude(w, cache[Key(w)])
  /\ Remember(w, cache[Key(w)])
  /\ UNCHANGED <<hosts, cache, stopping, stops, owed>>

LoadMissing(w) ==
  /\ worker[w].pc = "loading" /\ cache[Key(w)] = None /\ ~Stopping(w)
  /\ worker' = [worker EXCEPT ![w].pc = "fetching", ![w].left = FetchTimeout]
  /\ UNCHANGED <<hosts, cache, memory, inflight, stopping, stops, owed>>

(* An answer, whatever its status, is cached; that may fail. *)
Fetched(w) ==
  /\ worker[w].pc = "fetching"
  /\ \E p \in Policies :
       LET found == [policy |-> p, age |-> 0] IN
       /\ Conclude(w, found)
       /\ Remember(w, found)
       /\ cache' \in {cache, [cache EXCEPT ![Key(w)] = found]}
  /\ UNCHANGED <<hosts, stopping, stops, owed>>

(* Redis or the server does not answer, or the process shuts down. *)
LookupFails(w) ==
  /\ worker[w].pc \in {"loading", "fetching"}
  /\ Conclude(w, Failed)
  /\ UNCHANGED <<hosts, cache, memory, stopping, stops, owed>>

-----------------------------------------------------------------------------
(* Handle *)

Release(w) ==
  /\ Stopping(w)
  /\ \/ worker[w].pc \in {"waiting", "requesting"}
     \/ worker[w].pc = "decided" /\ worker[w].found = Failed
  /\ Settle(w, 0)
  /\ UNCHANGED <<cache, memory, inflight, stopping, stops, owed>>

RetryLater(w) ==
  /\ worker[w].pc = "decided" /\ worker[w].found = Failed /\ ~Stopping(w)
  /\ Settle(w, PolitenessDelay)
  /\ UNCHANGED <<cache, memory, inflight, stopping, stops, owed>>

Disallowed(w) ==
  /\ worker[w].pc = "decided" /\ worker[w].found # Failed /\ ~Allowed(worker[w].found.policy)
  /\ Settle(w, 0)
  /\ UNCHANGED <<cache, memory, inflight, stopping, stops, owed>>

Fetch(w) ==
  /\ worker[w].pc = "decided" /\ worker[w].found # Failed /\ Allowed(worker[w].found.policy)
  /\ worker' = [worker EXCEPT ![w] =
                  [pc |-> "requesting", host |-> @.host, left |-> FetchTimeout,
                   found |-> [policy |-> @.found.policy, age |-> 0]]]
  /\ UNCHANGED <<hosts, cache, memory, inflight, stopping, stops, owed>>

hostDelay(p) == Larger(PolitenessDelay, Smaller(CrawlDelay(p), MaxCrawlDelay))

(* What a host is owed, by the comment on PolitenessDelay and robots.txt.   *)
Due(p) == Larger(PolitenessDelay, IF CrawlDelay(p) > MaxCrawlDelay THEN MaxCrawlDelay
                                  ELSE CrawlDelay(p))

(* The host answers, and may ask for more time (429, 5xx).  From here on it *)
(* is owed its gap; a Retry-After only if the settle gets through.          *)
HostAnswers(w) ==
  /\ worker[w].pc = "requesting"
  /\ \E after \in RetryAfters :
       LET p == worker[w].found.policy
           asked == Smaller(after, retryAfterMax)
       IN /\ Settle(w, Larger(hostDelay(p), asked))
          /\ owed' = [owed EXCEPT ![worker[w].host] =
                        IF hosts' = hosts THEN Due(p) ELSE Larger(Due(p), asked)]
  /\ UNCHANGED <<cache, memory, inflight, stopping, stops>>

(* No answer, or none that can be read: the host may have been contacted.   *)
RequestFails(w) ==
  /\ worker[w].pc = "requesting" /\ ~Stopping(w)
  /\ Settle(w, hostDelay(worker[w].found.policy))
  /\ owed' = [owed EXCEPT ![worker[w].host] = Due(worker[w].found.policy)]
  /\ UNCHANGED <<cache, memory, inflight, stopping, stops>>

(* The guard refuses the address. *)
RequestBlocked(w) ==
  /\ worker[w].pc = "requesting" /\ ~Stopping(w)
  /\ Settle(w, 0)
  /\ UNCHANGED <<cache, memory, inflight, stopping, stops, owed>>

-----------------------------------------------------------------------------
(* Processes and time *)

Of(i) == {w \in Workers : InstanceOf[w] = i}

Shutdown(i) ==
  /\ stops < MaxStops /\ ~stopping[i]
  /\ stopping' = [stopping EXCEPT ![i] = TRUE] /\ stops' = stops + 1
  /\ UNCHANGED <<hosts, cache, memory, inflight, worker, owed>>

(* A new process remembers nothing. *)
Anew(i) ==
  /\ memory' = [memory EXCEPT ![i] = Empty]
  /\ inflight' = [inflight EXCEPT ![i] = [k \in Keys |-> NoWorker]]
  /\ worker' = [w \in Workers |-> IF w \in Of(i) THEN Idle ELSE worker[w]]
  /\ stopping' = [stopping EXCEPT ![i] = FALSE]
  /\ UNCHANGED <<hosts, cache, owed>>

Restart(i) ==
  /\ stopping[i] /\ \A w \in Of(i) : worker[w].pc = "idle"
  /\ Anew(i) /\ UNCHANGED stops

Crash(i) ==
  /\ stops < MaxStops /\ \E w \in Of(i) : worker[w].pc # "idle"
  /\ Anew(i) /\ stops' = stops + 1

Less(n) == IF n > 0 THEN n - 1 ELSE 0

(* Calls end within their time; anything else takes none. *)
Tick ==
  /\ \A w \in Workers :
       \/ worker[w].pc \in {"idle", "waiting"}
       \/ worker[w].pc \in {"fetching", "requesting"} /\ worker[w].left > 0
  /\ hosts' = [h \in Hosts |-> Less(hosts[h])]
  /\ owed' = [h \in Hosts |-> Less(owed[h])]
  /\ worker' = [w \in Workers |-> [worker[w] EXCEPT !.left = Less(@)]]
  /\ cache' = [k \in Keys |->
       IF cache[k] = None \/ cache[k].age + 1 >= Ttl(cache[k].policy) THEN None
       ELSE [cache[k] EXCEPT !.age = @ + 1]]
  /\ memory' = [i \in Instances |-> [k \in Keys |->
       LET e == memory[i][k] IN
       IF e.left > 1 THEN [policy |-> e.policy, age |-> e.age + 1, left |-> e.left - 1]
       ELSE [policy |-> e.policy, age |-> 0, left |-> 0]]]
  /\ UNCHANGED <<inflight, stopping, stops>>

Check(w) ==
  \/ Recall(w) \/ Join(w) \/ Lead(w) \/ LoadCached(w) \/ LoadMissing(w) \/ Fetched(w)
  \/ LookupFails(w)

Handle(w) ==
  \/ Check(w) \/ Release(w) \/ RetryLater(w) \/ Disallowed(w) \/ Fetch(w) \/ HostAnswers(w)
  \/ RequestFails(w) \/ RequestBlocked(w)

Next ==
  \/ \E w \in Workers : Handle(w) \/ \E h \in Hosts : Claim(w, h)
  \/ \E i \in Instances : Shutdown(i) \/ Restart(i) \/ Crash(i)
  \/ Tick

Spec == Init /\ [][Next]_vars

(* Every goroutine goes on, and calls end by their timeouts. *)
FairSpec == Spec /\ \A w \in Workers : WF_vars(Handle(w))

-----------------------------------------------------------------------------
(* Properties *)

(* A decision never rests on a robots.txt fetched longer ago than the two   *)
(* caches together may keep it, however processes and look-ups interleave:  *)
(* a day and five minutes, or an hour and five minutes after a 5xx.         *)
PolicyFresh ==
  \A w \in Workers : worker[w].pc = "decided" /\ worker[w].found # Failed =>
    worker[w].found.age < Ttl(worker[w].found.policy) + memoryTTL

(* No page is requested from a host before the gap after its last answer    *)
(* has passed, or while another request is under way, even if the worker    *)
(* that got the answer died or could not settle: the lock outlasts two      *)
(* calls and the gap.                                                       *)
GapKept ==
  \A w \in Workers : worker[w].pc = "requesting" =>
    /\ worker[w].left = FetchTimeout => owed[worker[w].host] = 0
    /\ \A v \in Workers \ {w} : worker[v].host # worker[w].host

(* Handle always settles: no worker waits for ever, neither for a server    *)
(* nor for the look-up of another one.                                      *)
HandleEnds == \A w \in Workers : worker[w].pc # "idle" ~> worker[w].pc = "idle"

=============================================================================
