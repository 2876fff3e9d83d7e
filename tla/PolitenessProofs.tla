-------------------------- MODULE PolitenessProofs --------------------------
(***************************************************************************)
(* Proofs about Politeness for any number of processes, workers and hosts,  *)
(* and any timeouts that PolitenessAssumption admits.                       *)
(***************************************************************************)
EXTENDS Politeness, FiniteSetTheorems, TLAPS

Controls == {"idle", "checking", "waiting", "loading", "fetching", "decided", "requesting"}
Finding == [policy : Policies \cup {"none", "error"}, age : Nat]
Record == [pc : Controls, host : Hosts \cup {"none"}, found : Finding, left : 0..FetchTimeout]
Entry == [policy : Policies \cup {"none"}, age : Nat, left : 0..memoryTTL]

Typed ==
  /\ hosts \in [Hosts -> Nat] /\ owed \in [Hosts -> Nat]
  /\ cache \in [Keys -> Aged \cup {None}]
  /\ memory \in [Instances -> [Keys -> Entry]]
  /\ inflight \in [Instances -> [Keys -> Workers \cup {NoWorker}]]
  /\ worker \in [Workers -> Record]
  /\ stopping \in [Instances -> BOOLEAN] /\ stops \in Nat

Busy(w) == worker[w].pc # "idle"

(* Who looks a key up, and who waits for the answer.                        *)
Lookups ==
  /\ \A i \in Instances, k \in Keys : inflight[i][k] # NoWorker =>
       /\ InstanceOf[inflight[i][k]] = i
       /\ worker[inflight[i][k]].pc \in {"loading", "fetching"}
       /\ KeyOf[worker[inflight[i][k]].host] = k
  /\ \A w \in Workers : worker[w].pc = "waiting" => Leader(w) # NoWorker

(* A busy worker has a host to itself. *)
Apart ==
  /\ \A w \in Workers : Busy(w) <=> worker[w].host # "none"
  /\ \A w, v \in Workers : w # v /\ Busy(w) => worker[v].host # worker[w].host

(* How much of its lock a worker has used at most, by where it is; a worker *)
(* that waits has used as much as the one it waits for.                     *)
Lock(w) == hosts[worker[w].host]
InBudget(w) ==
  /\ worker[w].pc \in {"checking", "loading"} => Lock(w) >= VisibilityTimeout
  /\ worker[w].pc = "waiting" =>
       /\ worker[Leader(w)].pc = "loading" => Lock(w) >= VisibilityTimeout
       /\ worker[Leader(w)].pc = "fetching" =>
            Lock(w) >= VisibilityTimeout - FetchTimeout + worker[Leader(w)].left
  /\ worker[w].pc = "fetching" =>
       Lock(w) >= VisibilityTimeout - FetchTimeout + worker[w].left
  /\ worker[w].pc = "decided" => Lock(w) >= VisibilityTimeout - FetchTimeout
  /\ worker[w].pc = "requesting" =>
       Lock(w) >= VisibilityTimeout - 2 * FetchTimeout + worker[w].left

Budget == \A w \in Workers : InBudget(w)

(* A host is closed as long as it is owed time, and owed none while a       *)
(* worker is busy with it.                                                  *)
Owed ==
  /\ \A h \in Hosts : owed[h] <= hosts[h]
  /\ \A w \in Workers : Busy(w) => owed[worker[w].host] = 0

Locks == Apart /\ Budget /\ Owed

GapInv == Typed /\ Lookups /\ Locks
-----------------------------------------------------------------------------
LEMMA Arithmetic ==
  /\ \A m, n \in Nat : Larger(m, n) \in Nat /\ Smaller(m, n) \in Nat
  /\ \A m, n \in Nat : Larger(m, n) >= m /\ Larger(m, n) >= n
  /\ \A m, n \in Nat : Smaller(m, n) <= m /\ Smaller(m, n) <= n
  /\ \A n \in Nat : Less(n) \in Nat /\ Less(n) <= n /\ Less(n) >= n - 1
  /\ \A m, n \in Nat : m <= n => Less(m) <= Less(n)
BY DEF Larger, Smaller, Less

LEMMA Constants ==
  /\ InstanceOf \in [Workers -> Instances] /\ KeyOf \in [Hosts -> Keys]
  /\ "none" \notin Hosts /\ NoWorker \notin Workers
  /\ FetchTimeout \in Nat \ {0} /\ VisibilityTimeout \in Nat /\ memoryTTL \in Nat \ {0}
  /\ VisibilityTimeout > 2 * FetchTimeout
BY PolitenessAssumption

(* A gap never exceeds what two calls leave of the lock.                    *)
LEMMA Gaps ==
  ASSUME NEW p
  PROVE  /\ hostDelay(p) \in Nat /\ Due(p) \in Nat /\ Due(p) = hostDelay(p)
         /\ Due(p) <= VisibilityTimeout - 2 * FetchTimeout
<1> CrawlDelay(p) \in Nat
  BY PolitenessAssumption DEF CrawlDelay
<1> QED
  BY PolitenessAssumption DEF hostDelay, Due, Larger, Smaller

LEMMA Start == Init => GapInv
<1> SUFFICES ASSUME Init PROVE GapInv
  OBVIOUS
<1> USE PolitenessAssumption
<1>1. Typed
  BY DEF Init, Typed, Record, Finding, Entry, Controls, Idle, None, Empty
<1>2. Lookups
  BY DEF Init, Lookups, Idle, Leader
<1>3. Locks
  BY DEF Init, Locks, Apart, Budget, InBudget, Owed, Busy, Idle
<1> QED
  BY <1>1, <1>2, <1>3 DEF GapInv

-----------------------------------------------------------------------------
LEMMA StepClaim ==
  ASSUME GapInv, NEW w \in Workers, NEW h \in Hosts, Claim(w, h)
  PROVE  GapInv'
<1> USE Constants DEF GapInv
<1>1. /\ worker[w].pc = "idle" /\ hosts[h] = 0
      /\ worker' = [worker EXCEPT ![w] = [Idle EXCEPT !.pc = "checking", !.host = h]]
      /\ hosts' = [hosts EXCEPT ![h] = VisibilityTimeout]
      /\ UNCHANGED <<cache, memory, inflight, stopping, stops, owed>>
  BY DEF Claim, HostLock
<1>2. worker'[w] = [pc |-> "checking", host |-> h, found |-> None, left |-> 0]
  BY <1>1 DEF Idle, Typed
<1>3. \A v \in Workers : Busy(v) => worker[v].host # h
  <2> SUFFICES ASSUME NEW v \in Workers, Busy(v), worker[v].host = h PROVE FALSE
    OBVIOUS
  <2>1. Lock(v) = 0
    BY <1>1 DEF Lock
  <2>2. worker[v].pc = "waiting" =>
          /\ worker[Leader(v)].pc \in {"loading", "fetching"} /\ worker[Leader(v)].left \in Nat
    BY DEF Lookups, Leader, Key, Typed, Record
  <2>3. worker[v].pc \in Controls /\ worker[v].left \in Nat
    BY DEF Typed, Record
  <2>4. CASE worker[v].pc = "waiting"
    BY <2>1, <2>2, <2>4 DEF Locks, Budget, InBudget
  <2>5. CASE worker[v].pc # "waiting"
    BY <2>1, <2>3, <2>5 DEF Locks, Budget, InBudget, Busy, Controls
  <2> QED
    BY <2>4, <2>5
<1>4. Typed'
  <2>1. worker'[w] \in Record
    BY <1>2 DEF Record, Controls, Finding, None
  <2> QED
    BY <1>1, <2>1 DEF Typed
<1>5. Lookups'
  BY <1>1, <1>2 DEF Lookups, Leader, Key, Typed, Record
<1>6. Apart'
  BY <1>1, <1>2, <1>3 DEF Locks, Apart, Busy, Typed, Record
<1>7. Budget'
  BY <1>1, <1>2, <1>3 DEF Locks, Budget, InBudget, Apart, Busy, Lock, Leader, Key, Lookups, Typed, Record
<1>8. Owed'
  BY <1>1, <1>2, <1>3 DEF Locks, Owed, Busy, Typed, Record
<1> QED
  BY <1>4, <1>5, <1>6, <1>7, <1>8 DEF Locks

(* A worker goes on without a change of the host's times.                   *)
LEMMA Moves ==
  ASSUME GapInv, NEW w \in Workers, Busy(w), NEW r \in Record,
         r.pc # "idle", r.host = worker[w].host,
         r.pc = "waiting" => Leader(w) # NoWorker,
         worker[w].pc \in {"loading", "fetching"} => r.pc \in {"loading", "fetching"},
         worker' = [worker EXCEPT ![w] = r],
         UNCHANGED <<hosts, inflight, owed>>
  PROVE  Lookups' /\ Apart' /\ Owed'
<1> USE Constants DEF GapInv
<1>1. Lookups'
  BY DEF Lookups, Leader, Key, Typed, Record
<1>2. Apart'
  BY DEF Locks, Apart, Busy, Typed, Record
<1>3. Owed'
  BY DEF Locks, Owed, Busy, Typed, Record
<1> QED
  BY <1>1, <1>2, <1>3

LEMMA StepRecall ==
  ASSUME GapInv, NEW w \in Workers, Recall(w)
  PROVE  GapInv'
<1> USE Constants DEF GapInv
<1> DEFINE e == Remembered(w)
           r == [worker[w] EXCEPT !.pc = "decided", !.found = [policy |-> e.policy, age |-> e.age]]
<1>1. worker[w] \in Record /\ worker[w].pc = "checking" /\ Busy(w) /\ worker[w].host \in Hosts
  BY DEF Recall, Typed, Record, Busy, Locks, Apart
<1>2. e \in Entry
  BY <1>1 DEF Remembered, Key, Typed
<1>3. r \in Record /\ r.pc = "decided" /\ r.host = worker[w].host
  BY <1>1, <1>2 DEF Record, Controls, Entry, Finding
<1>4. worker' = [worker EXCEPT ![w] = r] /\ UNCHANGED <<hosts, cache, memory, inflight, stopping, stops, owed>>
  BY DEF Recall, Typed
<1> HIDE DEF r, e
<1>5. Lookups' /\ Apart' /\ Owed'
  BY <1>1, <1>3, <1>4, Moves
<1>6. Typed'
  BY <1>3, <1>4 DEF Typed
<1>7. Budget'
  BY <1>1, <1>3, <1>4 DEF Locks, Budget, InBudget, Lock, Leader, Key, Lookups, Typed, Record
<1> QED
  BY <1>5, <1>6, <1>7 DEF Locks

LEMMA StepJoin ==
  ASSUME GapInv, NEW w \in Workers, Join(w)
  PROVE  GapInv'
<1> USE Constants DEF GapInv
<1> DEFINE r == [worker[w] EXCEPT !.pc = "waiting"]
<1>1. worker[w] \in Record /\ worker[w].pc = "checking" /\ Busy(w) /\ worker[w].host \in Hosts
  BY DEF Join, Typed, Record, Busy, Locks, Apart
<1>2. Leader(w) \in Workers /\ Leader(w) # w /\ worker[Leader(w)] \in Record
  <2>1. Leader(w) # NoWorker /\ InstanceOf[w] \in Instances /\ Key(w) \in Keys
    BY <1>1 DEF Join, Key
  <2>2. Leader(w) \in Workers
    BY <2>1 DEF Leader, Typed
  <2>3. worker[Leader(w)].pc \in {"loading", "fetching"}
    BY <2>1 DEF Leader, Lookups
  <2> QED
    BY <1>1, <2>2, <2>3 DEF Typed
<1>3. r \in Record /\ r.pc = "waiting" /\ r.host = worker[w].host
  BY <1>1 DEF Record, Controls
<1>4. worker' = [worker EXCEPT ![w] = r] /\ UNCHANGED <<hosts, cache, memory, inflight, stopping, stops, owed>>
  BY DEF Join, Typed
<1> HIDE DEF r
<1>5. Lookups' /\ Apart' /\ Owed'
  BY <1>1, <1>2, <1>3, <1>4, Moves
<1>6. Typed'
  BY <1>3, <1>4 DEF Typed
<1>7. Budget'
  BY <1>1, <1>2, <1>3, <1>4 DEF Locks, Budget, InBudget, Lock, Leader, Key, Lookups, Typed, Record
<1> QED
  BY <1>5, <1>6, <1>7 DEF Locks

LEMMA StepLead ==
  ASSUME GapInv, NEW w \in Workers, Lead(w)
  PROVE  GapInv'
<1> USE Constants DEF GapInv
<1> DEFINE r == [worker[w] EXCEPT !.pc = "loading"]
<1>1. worker[w] \in Record /\ worker[w].pc = "checking" /\ Busy(w) /\ worker[w].host \in Hosts
  BY DEF Lead, Typed, Record, Busy, Locks, Apart
<1>2. r \in Record /\ r.pc = "loading" /\ r.host = worker[w].host
  BY <1>1 DEF Record, Controls
<1>3. /\ worker' = [worker EXCEPT ![w] = r] /\ Leader(w) = NoWorker
      /\ inflight' = [inflight EXCEPT ![InstanceOf[w]][Key(w)] = w]
      /\ UNCHANGED <<hosts, cache, memory, stopping, stops, owed>>
  BY DEF Lead, Typed
<1>4. InstanceOf[w] \in Instances /\ Key(w) \in Keys /\ Key(w) = KeyOf[worker[w].host]
  BY <1>1 DEF Key
<1> HIDE DEF r
<1>5. Typed'
  BY <1>2, <1>3, <1>4 DEF Typed
<1>6. Lookups'
  BY <1>1, <1>2, <1>3, <1>4 DEF Lookups, Leader, Key, Typed, Record
<1>7. Apart'
  BY <1>1, <1>2, <1>3 DEF Locks, Apart, Busy, Typed, Record
<1>8. Owed'
  BY <1>1, <1>2, <1>3 DEF Locks, Owed, Busy, Typed, Record
<1>9. \A v \in Workers : worker[v].pc = "waiting" =>
        /\ Leader(v) \in Workers \ {w} /\ v # w
        /\ worker'[v] = worker[v] /\ worker'[Leader(v)] = worker[Leader(v)]
        /\ Leader(v)' = Leader(v)
  <2> SUFFICES ASSUME NEW v \in Workers, worker[v].pc = "waiting"
               PROVE  /\ Leader(v) \in Workers \ {w} /\ v # w
                      /\ worker'[v] = worker[v] /\ worker'[Leader(v)] = worker[Leader(v)]
                      /\ Leader(v)' = Leader(v)
    OBVIOUS
  <2>1. v # w /\ worker[v].host \in Hosts /\ InstanceOf[v] \in Instances /\ Key(v) \in Keys
    BY <1>1 DEF Key, Locks, Apart, Busy, Typed, Record
  <2>2. Leader(v) \in Workers /\ worker[Leader(v)].pc \in {"loading", "fetching"}
    BY <2>1 DEF Lookups, Leader, Typed
  <2>3. worker'[v] = worker[v] /\ worker'[Leader(v)] = worker[Leader(v)] /\ Leader(v) # w
    BY <1>1, <1>3, <2>1, <2>2 DEF Typed
  <2>4. InstanceOf[v] # InstanceOf[w] \/ Key(v) # Key(w)
    BY <1>3 DEF Lookups, Leader
  <2>5. Key(v)' = Key(v)
    BY <2>3 DEF Key
  <2>6. Leader(v)' = Leader(v)
    BY <1>3, <1>4, <2>1, <2>4, <2>5 DEF Leader, Typed
  <2> QED
    BY <2>1, <2>2, <2>3, <2>6
<1>10. Budget'
  <2> SUFFICES ASSUME NEW v \in Workers PROVE InBudget(v)'
    BY DEF Budget
  <2>1. CASE v = w
    BY <1>1, <1>2, <1>3, <2>1 DEF Locks, Budget, InBudget, Lock, Typed, Record
  <2>2. CASE v # w /\ worker[v].pc # "waiting"
    BY <1>1, <1>2, <1>3, <2>2 DEF Locks, Budget, InBudget, Lock, Typed, Record
  <2>3. CASE v # w /\ worker[v].pc = "waiting"
    BY <1>3, <1>9, <2>3 DEF Locks, Budget, InBudget, Lock
  <2> QED
    BY <2>1, <2>2, <2>3
<1> QED
  BY <1>5, <1>6, <1>7, <1>8, <1>10 DEF Locks

(* Who waits has a leader that looks the same key up in the same process.   *)
LEMMA Waiters ==
  ASSUME GapInv, NEW v \in Workers, worker[v].pc = "waiting"
  PROVE  /\ Busy(v) /\ worker[v].host \in Hosts
         /\ InstanceOf[v] \in Instances /\ Key(v) \in Keys
         /\ Leader(v) \in Workers /\ worker[Leader(v)] \in Record
         /\ worker[Leader(v)].pc \in {"loading", "fetching"}
         /\ InstanceOf[Leader(v)] = InstanceOf[v] /\ Key(Leader(v)) = Key(v)
<1> USE Constants DEF GapInv
<1>1. Busy(v) /\ worker[v].host \in Hosts
  BY DEF Locks, Apart, Busy, Typed, Record
<1>2. InstanceOf[v] \in Instances /\ Key(v) \in Keys
  BY <1>1 DEF Key
<1>3. Leader(v) \in Workers
  BY <1>2 DEF Leader, Lookups, Typed
<1>4. /\ worker[Leader(v)].pc \in {"loading", "fetching"}
      /\ InstanceOf[Leader(v)] = InstanceOf[v] /\ Key(Leader(v)) = Key(v)
  BY <1>2, <1>3 DEF Leader, Key, Lookups
<1> QED
  BY <1>1, <1>2, <1>3, <1>4 DEF Typed

LEMMA StepLoadMissing ==
  ASSUME GapInv, NEW w \in Workers, LoadMissing(w)
  PROVE  GapInv'
<1> USE Constants DEF GapInv
<1> DEFINE r == [worker[w] EXCEPT !.pc = "fetching", !.left = FetchTimeout]
<1>1. worker[w] \in Record /\ worker[w].pc = "loading" /\ Busy(w) /\ worker[w].host \in Hosts
  BY DEF LoadMissing, Typed, Record, Busy, Locks, Apart
<1>2. r \in Record /\ r.pc = "fetching" /\ r.host = worker[w].host /\ r.left = FetchTimeout
  <2>1. r = [pc |-> "fetching", host |-> worker[w].host, found |-> worker[w].found,
             left |-> FetchTimeout]
    <3> DEFINE q == [worker[w] EXCEPT !.pc = "fetching"]
    <3>1. q = [pc |-> "fetching", host |-> worker[w].host, found |-> worker[w].found,
               left |-> worker[w].left]
      BY <1>1 DEF Record
    <3>2. r = [q EXCEPT !.left = FetchTimeout]
      OBVIOUS
    <3> HIDE DEF q, r
    <3> QED
      BY <3>1, <3>2
  <2>2. FetchTimeout \in 0..FetchTimeout
    OBVIOUS
  <2> QED
    BY <1>1, <2>1, <2>2 DEF Record, Controls
<1>3. /\ worker' = [worker EXCEPT ![w] = r]
      /\ UNCHANGED <<hosts, cache, memory, inflight, stopping, stops, owed>>
  BY DEF LoadMissing, Typed
<1> HIDE DEF r
<1>4. Lookups' /\ Apart' /\ Owed'
  BY <1>1, <1>2, <1>3, Moves
<1>5. Typed'
  BY <1>2, <1>3 DEF Typed
<1>6. Budget'
  <2> SUFFICES ASSUME NEW v \in Workers PROVE InBudget(v)'
    BY DEF Budget
  <2>1. CASE v = w
    BY <1>1, <1>2, <1>3, <2>1 DEF Locks, Budget, InBudget, Lock, Typed, Record
  <2>2. CASE v # w /\ worker[v].pc # "waiting"
    BY <1>1, <1>2, <1>3, <2>2 DEF Locks, Budget, InBudget, Lock, Typed, Record
  <2>3. CASE v # w /\ worker[v].pc = "waiting"
    <3>1. worker'[v] = worker[v] /\ Leader(v)' = Leader(v) /\ Leader(v) \in Workers
      BY <1>3, <2>3, Waiters DEF Leader, Key, Typed
    <3>2. hosts[worker[v].host] \in Nat
      BY <2>3, Waiters DEF Typed
    <3>3. CASE Leader(v) = w
      BY <1>1, <1>2, <1>3, <2>3, <3>1, <3>2, <3>3 DEF Locks, Budget, InBudget, Lock, Typed
    <3>4. CASE Leader(v) # w
      <4>1. worker'[Leader(v)] = worker[Leader(v)]
        BY <1>3, <3>1, <3>4 DEF Typed
      <4> QED
        BY <1>3, <2>3, <3>1, <4>1 DEF Locks, Budget, InBudget, Lock
    <3> QED
      BY <3>3, <3>4
  <2> QED
    BY <2>1, <2>2, <2>3
<1> QED
  BY <1>4, <1>5, <1>6 DEF Locks

(* The end of a look-up frees the key and lets all that wait decide.        *)
LEMMA Concludes ==
  ASSUME GapInv, NEW w \in Workers, worker[w].pc \in {"loading", "fetching"},
         NEW found \in Finding, Conclude(w, found), UNCHANGED <<hosts, owed>>
  PROVE  /\ worker' \in [Workers -> Record]
         /\ inflight' \in [Instances -> [Keys -> Workers \cup {NoWorker}]]
         /\ Lookups' /\ Locks'
<1> USE Constants DEF GapInv
<1>1. worker[w] \in Record /\ Busy(w) /\ worker[w].host \in Hosts
  BY DEF Typed, Record, Busy, Locks, Apart
<1>2. InstanceOf[w] \in Instances /\ Key(w) \in Keys /\ Key(w) = KeyOf[worker[w].host]
  BY <1>1 DEF Key
<1>3. \A v \in Workers : v \in Answered(w) =>
        /\ worker[v].pc \in {"waiting", "loading", "fetching"}
        /\ worker'[v] = [worker[v] EXCEPT !.pc = "decided", !.found = found, !.left = 0]
  BY DEF Conclude, Answered
<1>4. \A v \in Workers : v \notin Answered(w) => worker'[v] = worker[v]
  BY DEF Conclude
<1>5. \A v \in Workers : v \in Answered(w) =>
        /\ worker'[v] \in Record /\ worker'[v].pc = "decided"
        /\ worker'[v].host = worker[v].host
  <2> SUFFICES ASSUME NEW v \in Workers, v \in Answered(w)
               PROVE  /\ worker'[v] \in Record /\ worker'[v].pc = "decided"
                      /\ worker'[v].host = worker[v].host
    OBVIOUS
  <2>1. worker[v] \in Record
    BY DEF Typed
  <2>2. worker'[v] = [pc |-> "decided", host |-> worker[v].host, found |-> found, left |-> 0]
    BY <1>3, <2>1 DEF Record
  <2>3. 0 \in 0..FetchTimeout
    OBVIOUS
  <2> QED
    BY <2>1, <2>2, <2>3 DEF Record, Controls
<1>6. worker' \in [Workers -> Record]
  <2>1. \A v \in Workers : worker'[v] \in Record
    BY <1>4, <1>5 DEF Typed
  <2>2. worker' = [v \in Workers |-> worker'[v]]
    BY DEF Conclude
  <2> QED
    BY <2>1, <2>2
<1>7. inflight' \in [Instances -> [Keys -> Workers \cup {NoWorker}]]
  BY <1>2 DEF Conclude, Typed
<1>8. \A i \in Instances, k \in Keys :
        IF i = InstanceOf[w] /\ k = Key(w) THEN inflight'[i][k] = NoWorker
                                           ELSE inflight'[i][k] = inflight[i][k]
  BY <1>2 DEF Conclude, Typed
<1>9. \A i \in Instances, k \in Keys : inflight'[i][k] # NoWorker =>
        LET l == inflight[i][k] IN
        /\ inflight'[i][k] = l /\ l \in Workers \ Answered(w)
        /\ InstanceOf[l] = i /\ worker[l].pc \in {"loading", "fetching"}
        /\ KeyOf[worker[l].host] = k
  <2> SUFFICES ASSUME NEW i \in Instances, NEW k \in Keys, inflight'[i][k] # NoWorker
               PROVE  LET l == inflight[i][k] IN
                      /\ inflight'[i][k] = l /\ l \in Workers \ Answered(w)
                      /\ InstanceOf[l] = i /\ worker[l].pc \in {"loading", "fetching"}
                      /\ KeyOf[worker[l].host] = k
    OBVIOUS
  <2> DEFINE l == inflight[i][k]
  <2>1. l = inflight'[i][k] /\ ~(i = InstanceOf[w] /\ k = Key(w))
    BY <1>8
  <2>2. l \in Workers /\ l # NoWorker
    BY <2>1 DEF Typed
  <2>3. /\ InstanceOf[l] = i /\ worker[l].pc \in {"loading", "fetching"}
        /\ KeyOf[worker[l].host] = k
    BY <2>2 DEF Lookups
  <2>4. l \notin Answered(w)
    BY <1>2, <2>1, <2>3 DEF Answered
  <2> QED
    BY <2>1, <2>2, <2>3, <2>4
<1>10. \A v \in Workers : worker'[v].pc = "waiting" =>
         /\ v \notin Answered(w) /\ worker'[v] = worker[v]
         /\ Leader(v)' = Leader(v) /\ Leader(v) \in Workers \ Answered(w)
  <2> SUFFICES ASSUME NEW v \in Workers, worker'[v].pc = "waiting"
               PROVE  /\ v \notin Answered(w) /\ worker'[v] = worker[v]
                      /\ Leader(v)' = Leader(v) /\ Leader(v) \in Workers \ Answered(w)
    OBVIOUS
  <2>1. v \notin Answered(w) /\ worker'[v] = worker[v]
    BY <1>4, <1>5
  <2>2. ~(InstanceOf[v] = InstanceOf[w] /\ Key(v) = Key(w))
    BY <2>1 DEF Answered
  <2>3. Leader(v)' = Leader(v) /\ Leader(v) \in Workers
    BY <1>8, <2>1, <2>2, Waiters DEF Leader, Key
  <2>4. Leader(v) \notin Answered(w)
    BY <1>2, <2>1, <2>2, Waiters DEF Answered
  <2> QED
    BY <2>1, <2>3, <2>4
<1>11. Lookups'
  BY <1>4, <1>9, <1>10, Waiters, Constants DEF Lookups
<1>12. \A v \in Workers : worker'[v].host = worker[v].host /\ (Busy(v)' <=> Busy(v))
  BY <1>3, <1>4, <1>5 DEF Busy
<1>13. Apart' /\ Owed'
  BY <1>12 DEF Locks, Apart, Owed
<1>14. Budget'
  <2> SUFFICES ASSUME NEW v \in Workers PROVE InBudget(v)'
    BY DEF Budget
  <2>1. CASE v \in Answered(w)
    <3>1. worker[v].host \in Hosts /\ worker[v].left \in Nat
      <4>1. worker[v] \in Record /\ Busy(v)
        BY <1>3, <2>1 DEF Busy, Typed
      <4> QED
        BY <4>1 DEF Locks, Apart, Record
    <3>2. Lock(v) >= VisibilityTimeout - FetchTimeout
      <4>1. CASE worker[v].pc = "waiting"
        BY <3>1, <4>1, Waiters DEF Locks, Budget, InBudget, Lock, Typed, Record
      <4>2. CASE worker[v].pc \in {"loading", "fetching"}
        BY <3>1, <4>2 DEF Locks, Budget, InBudget, Lock, Typed
      <4> QED
        BY <1>3, <2>1, <4>1, <4>2
    <3> QED
      BY <1>5, <2>1, <3>2 DEF InBudget, Lock
  <2>2. CASE v \notin Answered(w) /\ worker[v].pc # "waiting"
    BY <1>4, <2>2 DEF Locks, Budget, InBudget, Lock
  <2>3. CASE v \notin Answered(w) /\ worker[v].pc = "waiting"
    <3>1. worker'[v] = worker[v] /\ Leader(v)' = Leader(v)
          /\ worker'[Leader(v)] = worker[Leader(v)]
      BY <1>4, <1>10, <2>3
    <3> QED
      BY <2>3, <3>1 DEF Locks, Budget, InBudget, Lock
  <2> QED
    BY <2>1, <2>2, <2>3
<1> QED
  BY <1>6, <1>7, <1>11, <1>13, <1>14 DEF Locks

(* The memory of a process holds entries of that form.                      *)
LEMMA Remembers ==
  ASSUME GapInv, NEW w \in Workers, Busy(w), NEW found \in Aged, Remember(w, found)
  PROVE  memory' \in [Instances -> [Keys -> Entry]]
<1> USE Constants DEF GapInv
<1> DEFINE i == InstanceOf[w]
           kept == IF Cardinality(Known(i)) >= maxMemoryHosts THEN Empty ELSE memory[i]
           entry == [policy |-> found.policy, age |-> found.age, left |-> memoryTTL]
<1>1. i \in Instances /\ entry \in Entry
  BY DEF Aged, Entry
<1>2. Empty \in [Keys -> Entry] /\ memory[i] \in [Keys -> Entry]
  BY <1>1 DEF Empty, Entry, Typed
<1>3. kept \in [Keys -> Entry]
  BY <1>2
<1>4. memory' = [memory EXCEPT ![i] = [kept EXCEPT ![Key(w)] = entry]]
  BY DEF Remember
<1> HIDE DEF kept, entry, i
<1> QED
  BY <1>1, <1>3, <1>4 DEF Typed

LEMMA StepLoadCached ==
  ASSUME GapInv, NEW w \in Workers, LoadCached(w)
  PROVE  GapInv'
<1> USE Constants DEF GapInv
<1>1. worker[w].pc = "loading" /\ Busy(w) /\ worker[w].host \in Hosts
  BY DEF LoadCached, Typed, Record, Busy, Locks, Apart
<1>2. cache[Key(w)] \in Aged /\ Aged \subseteq Finding
  BY <1>1 DEF LoadCached, Key, Typed, Aged, Finding
<1>3. memory' \in [Instances -> [Keys -> Entry]]
  BY <1>1, <1>2, Remembers DEF LoadCached
<1>4. /\ worker' \in [Workers -> Record]
      /\ inflight' \in [Instances -> [Keys -> Workers \cup {NoWorker}]]
      /\ Lookups' /\ Locks'
  BY <1>1, <1>2, Concludes DEF LoadCached
<1> QED
  BY <1>3, <1>4 DEF LoadCached, Typed

LEMMA StepFetched ==
  ASSUME GapInv, NEW w \in Workers, Fetched(w)
  PROVE  GapInv'
<1> USE Constants DEF GapInv
<1>1. worker[w].pc = "fetching" /\ Busy(w) /\ worker[w].host \in Hosts
  BY DEF Fetched, Typed, Record, Busy, Locks, Apart
<1>2. PICK p \in Policies :
        /\ Conclude(w, [policy |-> p, age |-> 0]) /\ Remember(w, [policy |-> p, age |-> 0])
        /\ cache' \in {cache, [cache EXCEPT ![Key(w)] = [policy |-> p, age |-> 0]]}
  BY DEF Fetched
<1> DEFINE found == [policy |-> p, age |-> 0]
<1>3. found \in Aged /\ found \in Finding
  BY DEF Aged, Finding
<1>4. memory' \in [Instances -> [Keys -> Entry]]
  BY <1>1, <1>2, <1>3, Remembers
<1>5. /\ worker' \in [Workers -> Record]
      /\ inflight' \in [Instances -> [Keys -> Workers \cup {NoWorker}]]
      /\ Lookups' /\ Locks'
  BY <1>1, <1>2, <1>3, Concludes DEF Fetched
<1>6. cache' \in [Keys -> Aged \cup {None}]
  BY <1>2, <1>3 DEF Typed
<1> QED
  BY <1>4, <1>5, <1>6 DEF Fetched, Typed

LEMMA StepLookupFails ==
  ASSUME GapInv, NEW w \in Workers, LookupFails(w)
  PROVE  GapInv'
<1> USE Constants DEF GapInv
<1>1. Failed \in Finding
  BY DEF Failed, Finding
<1>2. /\ worker' \in [Workers -> Record]
      /\ inflight' \in [Instances -> [Keys -> Workers \cup {NoWorker}]]
      /\ Lookups' /\ Locks'
  BY <1>1, Concludes DEF LookupFails
<1> QED
  BY <1>2 DEF LookupFails, Typed

-----------------------------------------------------------------------------
LEMMA StepFetch ==
  ASSUME GapInv, NEW w \in Workers, Fetch(w)
  PROVE  GapInv'
<1> USE Constants DEF GapInv
<1> DEFINE r == [pc |-> "requesting", host |-> worker[w].host,
                 found |-> [policy |-> worker[w].found.policy, age |-> 0], left |-> FetchTimeout]
<1>1. worker[w] \in Record /\ worker[w].pc = "decided" /\ Busy(w) /\ worker[w].host \in Hosts
  BY DEF Fetch, Typed, Record, Busy, Locks, Apart
<1>2. r \in Record
  <2>1. [policy |-> worker[w].found.policy, age |-> 0] \in Finding /\ FetchTimeout \in 0..FetchTimeout
    BY <1>1 DEF Record, Finding
  <2> QED
    BY <1>1, <2>1 DEF Record, Controls
<1>3. worker' = [worker EXCEPT ![w] = r]
  BY DEF Fetch, Typed
<1>4. UNCHANGED <<hosts, cache, memory, inflight, stopping, stops, owed>>
  BY DEF Fetch
<1>5. r.pc = "requesting" /\ r.host = worker[w].host /\ r.left = FetchTimeout
  OBVIOUS
<1> HIDE DEF r
<1>6. Lookups' /\ Apart' /\ Owed'
  BY <1>1, <1>2, <1>3, <1>4, <1>5, Moves
<1>7. Typed'
  BY <1>2, <1>3, <1>4 DEF Typed
<1>8. Budget'
  <2> SUFFICES ASSUME NEW v \in Workers PROVE InBudget(v)'
    BY DEF Budget
  <2>1. CASE v = w
    <3>1. Lock(w) \in Nat
      BY <1>1 DEF Lock, Typed
    <3> QED
      BY <1>1, <1>3, <1>4, <1>5, <2>1, <3>1 DEF Locks, Budget, InBudget, Lock, Typed
  <2>2. CASE v # w
    <3>1. worker'[v] = worker[v]
      BY <1>3, <2>2 DEF Typed
    <3>2. worker[v].pc = "waiting" =>
            Leader(v)' = Leader(v) /\ worker'[Leader(v)] = worker[Leader(v)]
      BY <1>1, <1>3, <1>4, <3>1, Waiters DEF Leader, Key, Typed
    <3> QED
      BY <1>4, <3>1, <3>2 DEF Locks, Budget, InBudget, Lock
  <2> QED
    BY <2>1, <2>2
<1> QED
  BY <1>6, <1>7, <1>8 DEF Locks

(* A worker that settles leaves its host closed for as long as it is owed.  *)
LEMMA Settles ==
  ASSUME GapInv, NEW w \in Workers, Busy(w), worker[w].pc \notin {"loading", "fetching"},
         NEW gap \in Nat, Settle(w, gap),
         NEW due \in Nat, owed' = [owed EXCEPT ![worker[w].host] = due],
         due <= hosts'[worker[w].host],
         UNCHANGED <<cache, memory, inflight, stopping, stops>>
  PROVE  GapInv'
<1> USE Constants DEF GapInv
<1>1. worker[w] \in Record /\ worker[w].host \in Hosts
  BY DEF Typed, Record, Locks, Apart
<1>2. worker' = [worker EXCEPT ![w] = Idle] /\ Idle \in Record
  BY DEF Settle, Idle, Record, Controls, Finding, None
<1>3. hosts' \in [Hosts -> Nat] /\ \A h \in Hosts \ {worker[w].host} : hosts'[h] = hosts[h]
  BY <1>1 DEF Settle, Typed
<1>4. Typed'
  BY <1>1, <1>2, <1>3 DEF Typed
<1>5. \A v \in Workers : worker[v].pc = "waiting" => Leader(v) # w
  BY Waiters
<1>6. \A v \in Workers \ {w} : worker'[v] = worker[v] /\ Leader(v)' = Leader(v)
  BY <1>2 DEF Leader, Key, Typed
<1>7. worker'[w].pc = "idle" /\ worker'[w].host = "none"
  BY <1>2 DEF Idle, Typed
<1>8. Lookups'
  <2>1. \A i \in Instances, k \in Keys : inflight[i][k] # NoWorker => inflight[i][k] \in Workers \ {w}
    BY DEF Lookups, Typed
  <2> QED
    BY <1>6, <1>7, <2>1 DEF Lookups
<1>9. Apart'
  BY <1>6, <1>7 DEF Locks, Apart, Busy
<1>10. \A v \in Workers \ {w} : Busy(v) => worker[v].host \in Hosts \ {worker[w].host}
  BY DEF Locks, Apart, Busy, Typed, Record
<1>11. Owed'
  <2>1. \A h \in Hosts : owed'[h] <= hosts'[h]
    BY <1>1, <1>3 DEF Locks, Owed, Typed
  <2>2. \A v \in Workers : Busy(v)' => owed'[worker'[v].host] = 0
    BY <1>1, <1>6, <1>7, <1>10 DEF Locks, Owed, Busy, Typed
  <2> QED
    BY <2>1, <2>2 DEF Owed
<1>12. Budget'
  <2> SUFFICES ASSUME NEW v \in Workers PROVE InBudget(v)'
    BY DEF Budget
  <2>1. CASE v = w
    BY <1>7, <2>1 DEF InBudget
  <2>2. CASE v # w /\ Busy(v)
    <3>1. Lock(v)' = Lock(v) /\ worker'[v] = worker[v] /\ Leader(v)' = Leader(v)
      BY <1>3, <1>6, <1>10, <2>2 DEF Lock
    <3>2. worker[v].pc = "waiting" => worker'[Leader(v)] = worker[Leader(v)]
      BY <1>2, <1>5, Waiters DEF Typed
    <3> QED
      BY <3>1, <3>2 DEF Locks, Budget, InBudget
  <2>3. CASE v # w /\ ~Busy(v)
    BY <1>6, <2>3 DEF InBudget, Busy
  <2> QED
    BY <2>1, <2>2, <2>3
<1> QED
  BY <1>4, <1>8, <1>9, <1>11, <1>12 DEF Locks

(* Nothing is owed when a worker settles without an answer.                 *)
LEMMA SettlesEarly ==
  ASSUME GapInv, NEW w \in Workers, Busy(w), worker[w].pc \notin {"loading", "fetching"},
         NEW gap \in Nat, Settle(w, gap),
         UNCHANGED <<cache, memory, inflight, stopping, stops, owed>>
  PROVE  GapInv'
<1> USE Constants DEF GapInv
<1>1. worker[w].host \in Hosts /\ owed[worker[w].host] = 0
  BY DEF Typed, Record, Locks, Apart, Owed
<1>2. owed' = [owed EXCEPT ![worker[w].host] = 0]
  BY <1>1 DEF Typed
<1>3. hosts'[worker[w].host] >= 0
  BY <1>1 DEF Settle, Typed
<1> QED
  BY <1>2, <1>3, Settles

(* While a page is requested, the lock lasts for the gap that follows.      *)
LEMMA LockOutlasts ==
  ASSUME GapInv, NEW w \in Workers, worker[w].pc = "requesting", NEW p
  PROVE  Busy(w) /\ worker[w].host \in Hosts /\ hosts[worker[w].host] >= Due(p)
<1> USE Constants DEF GapInv
<1>1. Busy(w) /\ worker[w].host \in Hosts /\ worker[w].left \in Nat
  BY DEF Typed, Record, Busy, Locks, Apart
<1>2. Lock(w) \in Nat /\ Lock(w) >= VisibilityTimeout - 2 * FetchTimeout + worker[w].left
  BY <1>1 DEF Locks, Budget, InBudget, Lock, Typed
<1> QED
  BY <1>1, <1>2, Gaps DEF Lock

LEMMA StepSettles ==
  ASSUME GapInv, NEW w \in Workers,
         Release(w) \/ RetryLater(w) \/ Disallowed(w) \/ RequestBlocked(w)
  PROVE  GapInv'
<1>1. Busy(w) /\ worker[w].pc \notin {"loading", "fetching"}
  BY DEF Release, RetryLater, Disallowed, RequestBlocked, Busy
<1>2. /\ Settle(w, 0) \/ Settle(w, PolitenessDelay)
      /\ UNCHANGED <<cache, memory, inflight, stopping, stops, owed>>
  BY DEF Release, RetryLater, Disallowed, RequestBlocked
<1>3. 0 \in Nat /\ PolitenessDelay \in Nat
  BY PolitenessAssumption
<1> QED
  BY <1>1, <1>2, <1>3, SettlesEarly

LEMMA StepHostAnswers ==
  ASSUME GapInv, NEW w \in Workers, HostAnswers(w)
  PROVE  GapInv'
<1> USE Constants DEF GapInv
<1> DEFINE h == worker[w].host
           p == worker[w].found.policy
<1>1. PICK after \in RetryAfters :
        /\ Settle(w, Larger(hostDelay(p), Smaller(after, retryAfterMax)))
        /\ owed' = [owed EXCEPT ![h] =
             IF hosts' = hosts THEN Due(p) ELSE Larger(Due(p), Smaller(after, retryAfterMax))]
  BY DEF HostAnswers
<1> DEFINE asked == Smaller(after, retryAfterMax)
           gap == Larger(hostDelay(p), asked)
           due == IF hosts' = hosts THEN Due(p) ELSE Larger(Due(p), asked)
<1>2. asked \in Nat
  BY PolitenessAssumption, Arithmetic
<1>3. gap \in Nat /\ due \in Nat
  BY <1>2, Gaps, Arithmetic
<1>4. worker[w].pc = "requesting" /\ UNCHANGED <<cache, memory, inflight, stopping, stops>>
  BY DEF HostAnswers
<1>5. Busy(w) /\ h \in Hosts /\ hosts[h] >= Due(p)
  BY <1>4, LockOutlasts
<1>6. due <= hosts'[h]
  <2>1. CASE hosts' = hosts
    BY <1>5, <2>1, Gaps DEF Typed
  <2>2. CASE hosts' # hosts
    <3>1. hosts' = [hosts EXCEPT ![h] = gap]
      BY <1>1, <2>2 DEF Settle
    <3> QED
      BY <1>3, <1>5, <2>2, <3>1, Gaps DEF Typed
  <2> QED
    BY <2>1, <2>2
<1>7. Settle(w, gap) /\ owed' = [owed EXCEPT ![h] = due]
  BY <1>1
<1> HIDE DEF gap, due, h
<1> QED
  BY <1>3, <1>4, <1>5, <1>6, <1>7, Settles DEF h

LEMMA StepRequestFails ==
  ASSUME GapInv, NEW w \in Workers, RequestFails(w)
  PROVE  GapInv'
<1> USE Constants DEF GapInv
<1> DEFINE h == worker[w].host
           p == worker[w].found.policy
<1>1. /\ Settle(w, hostDelay(p)) /\ owed' = [owed EXCEPT ![h] = Due(p)]
      /\ worker[w].pc = "requesting" /\ UNCHANGED <<cache, memory, inflight, stopping, stops>>
  BY DEF RequestFails
<1>2. Busy(w) /\ h \in Hosts /\ hosts[h] >= Due(p)
  BY <1>1, LockOutlasts
<1>3. hostDelay(p) \in Nat /\ Due(p) \in Nat /\ Due(p) = hostDelay(p)
  BY Gaps
<1>4. Due(p) <= hosts'[h]
  BY <1>1, <1>2, <1>3 DEF Settle, Typed
<1> QED
  BY <1>1, <1>2, <1>3, <1>4, Settles

-----------------------------------------------------------------------------
(* A process that ends loses its look-ups with its workers.                 *)
LEMMA Ends ==
  ASSUME GapInv, NEW i \in Instances, Anew(i), stops' \in Nat
  PROVE  GapInv'
<1> USE Constants DEF GapInv
<1>1. \A v \in Workers : worker'[v] = IF InstanceOf[v] = i THEN Idle ELSE worker[v]
  BY DEF Anew, Of
<1>2. \A j \in Instances : inflight'[j] = IF j = i THEN [k \in Keys |-> NoWorker] ELSE inflight[j]
  BY DEF Anew, Typed
<1>3. Typed'
  <2>1. Idle \in Record /\ Empty \in [Keys -> Entry]
    BY DEF Idle, Record, Controls, Finding, None, Empty, Entry
  <2>2. worker' \in [Workers -> Record]
    BY <2>1 DEF Anew, Typed
  <2>3. memory' \in [Instances -> [Keys -> Entry]]
    BY <2>1 DEF Anew, Typed
  <2> QED
    BY <2>2, <2>3 DEF Anew, Typed
<1>4. \A v \in Workers : worker[v].pc = "waiting" /\ InstanceOf[v] # i =>
        worker'[v] = worker[v] /\ Leader(v)' = Leader(v) /\ worker'[Leader(v)] = worker[Leader(v)]
  BY <1>1, <1>2, Waiters DEF Leader, Key
<1>5. Lookups'
  <2>1. \A j \in Instances, k \in Keys : inflight'[j][k] # NoWorker =>
          /\ j # i /\ inflight'[j][k] = inflight[j][k] /\ inflight[j][k] \in Workers
          /\ worker'[inflight[j][k]] = worker[inflight[j][k]]
    BY <1>1, <1>2 DEF Lookups, Typed
  <2>2. \A v \in Workers : worker'[v].pc = "waiting" => worker[v].pc = "waiting" /\ InstanceOf[v] # i
    BY <1>1 DEF Idle
  <2> QED
    BY <1>4, <2>1, <2>2 DEF Lookups
<1>6. Apart'
  BY <1>1 DEF Locks, Apart, Busy, Idle
<1>7. Owed'
  BY <1>1 DEF Anew, Locks, Owed, Busy, Idle
<1>8. Budget'
  <2> SUFFICES ASSUME NEW v \in Workers PROVE InBudget(v)'
    BY DEF Budget
  <2>1. CASE InstanceOf[v] = i
    BY <1>1, <2>1 DEF InBudget, Idle
  <2>2. CASE InstanceOf[v] # i
    BY <1>1, <1>4, <2>2 DEF Anew, Locks, Budget, InBudget, Lock
  <2> QED
    BY <2>1, <2>2
<1> QED
  BY <1>3, <1>5, <1>6, <1>7, <1>8 DEF Locks

LEMMA StepProcess ==
  ASSUME GapInv, NEW i \in Instances, Shutdown(i) \/ Restart(i) \/ Crash(i)
  PROVE  GapInv'
<1>1. CASE Restart(i)
  BY <1>1, Ends DEF Restart, GapInv, Typed
<1>2. CASE Crash(i)
  BY <1>2, Ends DEF Crash, GapInv, Typed
<1>3. CASE Shutdown(i)
  <2>1. UNCHANGED <<hosts, cache, memory, inflight, worker, owed>>
    BY <1>3 DEF Shutdown
  <2>2. Typed'
    BY <1>3, <2>1 DEF Shutdown, GapInv, Typed
  <2>3. Lookups' /\ Locks'
    BY <2>1 DEF GapInv, Lookups, Leader, Key, Locks, Apart, Budget, InBudget, Owed, Busy, Lock
  <2> QED
    BY <2>2, <2>3 DEF GapInv
<1> QED
  BY <1>1, <1>2, <1>3

(* Time passes for the lock as it does for the calls made under it.         *)
LEMMA StepTick ==
  ASSUME GapInv, Tick
  PROVE  GapInv'
<1> USE Constants DEF GapInv
<1>1. \A w \in Workers : /\ worker'[w] \in Record /\ worker'[w].left = Less(worker[w].left)
                         /\ worker'[w].pc = worker[w].pc /\ worker'[w].host = worker[w].host
  <2> SUFFICES ASSUME NEW w \in Workers
               PROVE  /\ worker'[w] \in Record /\ worker'[w].left = Less(worker[w].left)
                      /\ worker'[w].pc = worker[w].pc /\ worker'[w].host = worker[w].host
    OBVIOUS
  <2>1. worker[w] \in Record
    BY DEF Typed
  <2>2. worker'[w] = [worker[w] EXCEPT !.left = Less(@)]
    BY DEF Tick
  <2>3. worker'[w] = [pc |-> worker[w].pc, host |-> worker[w].host, found |-> worker[w].found,
                      left |-> Less(worker[w].left)]
    BY <2>1, <2>2 DEF Record
  <2>4. Less(worker[w].left) \in 0..FetchTimeout
    BY <2>1 DEF Less, Record
  <2> QED
    BY <2>1, <2>3, <2>4 DEF Record
<1>9. \A w \in Workers : worker'[w].pc = worker[w].pc /\ worker'[w].host = worker[w].host
  BY <1>1
<1>2. \A h \in Hosts : hosts'[h] = Less(hosts[h]) /\ owed'[h] = Less(owed[h])
  BY DEF Tick
<1>3. Typed'
  <2>1. worker' \in [Workers -> Record]
    BY <1>1 DEF Tick
  <2>2. hosts' \in [Hosts -> Nat] /\ owed' \in [Hosts -> Nat]
    BY Arithmetic DEF Tick, Typed
  <2>3. cache' \in [Keys -> Aged \cup {None}]
    <3> DEFINE Later(c) == IF c = None \/ c.age + 1 >= Ttl(c.policy) THEN None
                           ELSE [c EXCEPT !.age = @ + 1]
    <3>1. \A c \in Aged : [c EXCEPT !.age = @ + 1] \in Aged
      BY DEF Aged
    <3>2. \A c \in Aged \cup {None} : Later(c) \in Aged \cup {None}
      BY <3>1
    <3>3. cache' = [k \in Keys |-> Later(cache[k])]
      BY DEF Tick
    <3> HIDE DEF Later
    <3> QED
      BY <3>2, <3>3 DEF Typed
  <2>4. memory' \in [Instances -> [Keys -> Entry]]
    <3> DEFINE Older(e) ==
                 IF e.left > 1 THEN [policy |-> e.policy, age |-> e.age + 1, left |-> e.left - 1]
                 ELSE [policy |-> e.policy, age |-> 0, left |-> 0]
    <3>1. \A e \in Entry : Older(e) \in Entry
      BY DEF Entry
    <3>2. memory' = [i \in Instances |-> [k \in Keys |-> Older(memory[i][k])]]
      BY DEF Tick
    <3> HIDE DEF Older
    <3> QED
      BY <3>1, <3>2 DEF Typed
  <2> QED
    BY <2>1, <2>2, <2>3, <2>4 DEF Tick, Typed
<1>4. inflight' = inflight /\ \A w \in Workers : Leader(w)' = Leader(w) /\ (Busy(w)' <=> Busy(w))
  BY <1>1 DEF Tick, Leader, Key, Busy
<1>5. Lookups'
  <2>1. \A i \in Instances, k \in Keys : inflight[i][k] # NoWorker => inflight[i][k] \in Workers
    BY DEF Typed
  <2> QED
    BY <1>4, <1>9, <2>1 DEF Lookups
<1>6. Apart'
  BY <1>4, <1>9 DEF Locks, Apart
<1>7. Owed'
  <2>1. \A h \in Hosts : owed[h] \in Nat /\ hosts[h] \in Nat /\ owed[h] <= hosts[h]
    BY DEF Locks, Owed, Typed
  <2>2. \A h \in Hosts : owed'[h] <= hosts'[h]
    BY <1>2, <2>1 DEF Less
  <2>3. ASSUME NEW w \in Workers, Busy(w)' PROVE owed'[worker'[w].host] = 0
    <3>1. worker[w].host \in Hosts /\ owed[worker[w].host] = 0 /\ worker'[w].host = worker[w].host
      BY <1>4, <1>9, <2>3 DEF Locks, Apart, Owed, Typed, Record
    <3> QED
      BY <1>2, <3>1 DEF Less
  <2> QED
    BY <2>2, <2>3 DEF Owed
<1>8. Budget'
  <2> SUFFICES ASSUME NEW v \in Workers PROVE InBudget(v)'
    BY DEF Budget
  <2>1. \A w \in Workers : \/ worker[w].pc \in {"idle", "waiting"}
                           \/ worker[w].pc \in {"fetching", "requesting"} /\ worker[w].left > 0
    BY DEF Tick
  <2>2. CASE worker[v].pc = "idle"
    BY <1>9, <2>2 DEF InBudget
  <2>3. ASSUME NEW w \in Workers, worker[w].left > 0
        PROVE  worker[w].left \in Nat /\ worker'[w].left = worker[w].left - 1
    <3>1. worker[w].left \in Nat
      BY DEF Typed, Record
    <3> QED
      BY <1>1, <2>3, <3>1 DEF Less
  <2>4. ASSUME Busy(v) PROVE Lock(v) \in Nat /\ Lock(v)' \in Nat /\ Lock(v)' >= Lock(v) - 1
    <3>1. worker[v].host \in Hosts /\ worker'[v].host = worker[v].host
      BY <1>9, <2>4 DEF Locks, Apart, Typed, Record
    <3>2. hosts[worker[v].host] \in Nat /\ hosts'[worker[v].host] = Less(hosts[worker[v].host])
      BY <1>2, <3>1 DEF Typed
    <3> QED
      BY <3>1, <3>2, Arithmetic DEF Lock
  <2>5. CASE worker[v].pc = "waiting"
    <3> DEFINE l == Leader(v)
    <3>1. Busy(v) /\ l \in Workers /\ worker[l].pc = "fetching" /\ worker[l].left > 0
      BY <2>1, <2>5, Waiters
    <3>2. Lock(v) >= VisibilityTimeout - FetchTimeout + worker[l].left
      BY <2>5, <3>1 DEF Locks, Budget, InBudget
    <3>3. Leader(v)' = l /\ worker'[l].pc = "fetching" /\ worker'[v].pc = "waiting"
      BY <1>4, <1>9, <2>5, <3>1
    <3>4. worker[l].left \in Nat /\ worker'[l].left = worker[l].left - 1
      BY <2>3, <3>1
    <3> HIDE DEF l
    <3>5. Lock(v)' >= VisibilityTimeout - FetchTimeout + worker'[l].left
      BY <2>4, <3>1, <3>2, <3>4
    <3> QED
      BY <3>3, <3>5 DEF InBudget
  <2>6. CASE worker[v].pc \in {"fetching", "requesting"}
    <3>1. Busy(v) /\ worker[v].left > 0 /\ worker'[v].pc = worker[v].pc
      BY <1>9, <2>1, <2>6 DEF Busy
    <3>2. worker[v].left \in Nat /\ worker'[v].left = worker[v].left - 1
      BY <2>3, <3>1
    <3>3. InBudget(v)
      BY DEF Locks, Budget
    <3> QED
      BY <2>4, <2>6, <3>1, <3>2, <3>3 DEF InBudget
  <2> QED
    BY <2>1, <2>2, <2>5, <2>6
<1> QED
  BY <1>3, <1>5, <1>6, <1>7, <1>8 DEF Locks

LEMMA Stutter == GapInv /\ UNCHANGED vars => GapInv'
BY DEF vars, GapInv, Typed, Lookups, Leader, Key, Locks, Apart, Budget, InBudget, Owed, Busy, Lock

LEMMA Inductive == Spec => []GapInv
<1>1. GapInv /\ [Next]_vars => GapInv'
  <2> SUFFICES ASSUME GapInv, [Next]_vars PROVE GapInv'
    OBVIOUS
  <2>1. CASE \E w \in Workers : Handle(w)
    <3> PICK w \in Workers : Handle(w)
      BY <2>1
    <3>1. CASE Check(w)
      BY <3>1, StepRecall, StepJoin, StepLead, StepLoadCached, StepLoadMissing, StepFetched,
         StepLookupFails DEF Check
    <3>2. CASE ~Check(w)
      BY <3>2, StepSettles, StepFetch, StepHostAnswers, StepRequestFails DEF Handle
    <3> QED
      BY <3>1, <3>2
  <2>2. CASE \E w \in Workers, h \in Hosts : Claim(w, h)
    BY <2>2, StepClaim
  <2>3. CASE \E i \in Instances : Shutdown(i) \/ Restart(i) \/ Crash(i)
    BY <2>3, StepProcess
  <2>4. CASE Tick
    BY <2>4, StepTick
  <2>5. CASE UNCHANGED vars
    BY <2>5, Stutter
  <2> QED
    BY <2>1, <2>2, <2>3, <2>4, <2>5 DEF Next
<1> QED
  BY <1>1, Start, PTL DEF Spec

(* The gap of a host is kept: a worker that requests a page has the host to *)
(* itself, and the host is owed no time when the request starts, however    *)
(* claims, look-ups, failed settles, crashes and shutdowns interleave.      *)
THEOREM HostsAreSpared == Spec => []GapKept
<1>1. GapInv => GapKept
  BY DEF GapInv, Locks, Apart, Owed, Busy, GapKept
<1> QED
  BY <1>1, Inductive, PTL

-----------------------------------------------------------------------------
(* How old a policy is, in the shared cache, in a memory and in a decision. *)

Cached == \A k \in Keys : cache[k] # None => cache[k].age < Ttl(cache[k].policy)

Fresh(e) == e.policy \in Policies /\ e.age + e.left < Ttl(e.policy) + memoryTTL
Kept == \A i \in Instances, k \in Keys : memory[i][k].left > 0 => Fresh(memory[i][k])

Recent(f) == f # Failed => f \in Aged /\ f.age < Ttl(f.policy) + memoryTTL
Decided == \A w \in Workers : worker[w].pc = "decided" => Recent(worker[w].found)

Small == \A i \in Instances : Cardinality(Known(i)) <= maxMemoryHosts

CacheInv == Cached /\ Kept /\ Decided /\ Small

LEMMA Ages ==
  /\ memoryTTL \in Nat \ {0} /\ maxMemoryHosts \in Nat \ {0} /\ IsFiniteSet(Keys)
  /\ "none" \notin Policies /\ "error" \notin Policies
  /\ \A p \in Policies : Ttl(p) \in Nat \ {0}
BY PolitenessAssumption DEF Ttl

LEMMA NothingKnown ==
  ASSUME NEW m, m = Empty
  PROVE  Cardinality({k \in Keys : m[k].policy # "none"}) = 0
<1>1. {k \in Keys : m[k].policy # "none"} = {}
  BY DEF Empty
<1> QED
  BY <1>1, FS_EmptySet

LEMMA CacheStart == Init => CacheInv
<1> SUFFICES ASSUME Init PROVE CacheInv
  OBVIOUS
<1> USE Ages
<1>1. Cached /\ Kept /\ Decided
  BY DEF Init, Cached, Kept, Decided, Empty, Idle
<1>2. \A i \in Instances : memory[i] = Empty
  BY DEF Init
<1>3. Small
  <2> SUFFICES ASSUME NEW i \in Instances PROVE Cardinality(Known(i)) <= maxMemoryHosts
    BY DEF Small
  <2>1. Cardinality(Known(i)) = 0
    BY <1>2, NothingKnown DEF Known
  <2> QED
    BY <2>1
<1> QED
  BY <1>1, <1>3 DEF CacheInv

(* Nothing is learnt, forgotten or decided. *)
LEMMA Quiet ==
  ASSUME CacheInv, UNCHANGED <<cache, memory>>,
         \A v \in Workers : worker'[v].pc = "decided" => worker'[v] = worker[v]
  PROVE  CacheInv'
BY DEF CacheInv, Cached, Kept, Decided, Small, Known

LEMMA QuietSteps ==
  ASSUME CacheInv, Typed, NEW w \in Workers,
         \/ Join(w) \/ Lead(w) \/ LoadMissing(w) \/ Release(w) \/ RetryLater(w) \/ Disallowed(w)
         \/ Fetch(w) \/ HostAnswers(w) \/ RequestFails(w) \/ RequestBlocked(w)
         \/ \E h \in Hosts : Claim(w, h)
  PROVE  CacheInv'
<1>1. UNCHANGED <<cache, memory>>
  BY DEF Join, Lead, LoadMissing, Release, RetryLater, Disallowed, Fetch, HostAnswers,
     RequestFails, RequestBlocked, Claim
<1>2. \A v \in Workers \ {w} : worker'[v] = worker[v]
  BY DEF Join, Lead, LoadMissing, Release, RetryLater, Disallowed, Fetch, HostAnswers,
     RequestFails, RequestBlocked, Claim, Settle, Typed
<1>3. worker'[w].pc # "decided"
  <2>1. worker[w] \in Record
    BY DEF Typed
  <2>2. CASE Join(w) \/ Lead(w) \/ LoadMissing(w)
    BY <2>1, <2>2 DEF Join, Lead, LoadMissing, Record, Typed
  <2>3. CASE Fetch(w)
    BY <2>3 DEF Fetch, Typed
  <2>5. CASE \E h \in Hosts : Claim(w, h)
    <3> PICK h \in Hosts : Claim(w, h)
      BY <2>5
    <3>1. worker' = [worker EXCEPT ![w] = [Idle EXCEPT !.pc = "checking", !.host = h]]
      BY DEF Claim
    <3>2. worker'[w] = [pc |-> "checking", host |-> h, found |-> None, left |-> 0]
      BY <3>1 DEF Idle, Typed
    <3> QED
      BY <3>2
  <2>4. CASE \E gap : Settle(w, gap)
    BY <2>4 DEF Settle, Idle, Typed
  <2> QED
    BY <2>2, <2>3, <2>4, <2>5 DEF Release, RetryLater, Disallowed, HostAnswers, RequestFails,
       RequestBlocked
<1> QED
  BY <1>1, <1>2, <1>3, Quiet

LEMMA CacheRecall ==
  ASSUME CacheInv, GapInv, NEW w \in Workers, Recall(w)
  PROVE  CacheInv'
<1> USE Constants, Ages DEF GapInv
<1> DEFINE e == Remembered(w)
           f == [policy |-> e.policy, age |-> e.age]
<1>1. worker[w] \in Record /\ worker[w].pc = "checking" /\ worker[w].host \in Hosts
  BY DEF Recall, Typed, Record, Busy, Locks, Apart
<1>2. e \in Entry /\ e.left > 0 /\ Fresh(e)
  <2>1. InstanceOf[w] \in Instances /\ Key(w) \in Keys
    BY <1>1 DEF Key
  <2>2. e = memory[InstanceOf[w]][Key(w)] /\ e.left > 0
    BY DEF Remembered, Recall
  <2> HIDE DEF e
  <2> QED
    BY <2>1, <2>2 DEF Typed, CacheInv, Kept
<1>3. e.policy \in Policies /\ e.age \in Nat /\ e.age < Ttl(e.policy) + memoryTTL
  BY <1>2 DEF Fresh, Entry
<1>4. Recent(f)
  BY <1>3 DEF Recent, Aged
<1>5. worker' = [worker EXCEPT ![w].pc = "decided", ![w].found = f] /\ UNCHANGED <<cache, memory>>
  BY DEF Recall
<1> HIDE DEF f, e
<1>6. worker'[w].found = f /\ \A v \in Workers \ {w} : worker'[v] = worker[v]
  BY <1>1, <1>5 DEF Typed, Record
<1>7. Decided'
  BY <1>4, <1>6 DEF CacheInv, Decided
<1> QED
  BY <1>5, <1>7 DEF CacheInv, Cached, Kept, Small, Known

(* All that learn a policy by the end of a look-up decide by it.            *)
LEMMA ConcludesDecided ==
  ASSUME CacheInv, Typed, NEW w \in Workers, NEW found, Recent(found), Conclude(w, found)
  PROVE  Decided'
<1> SUFFICES ASSUME NEW v \in Workers, worker'[v].pc = "decided"
             PROVE  Recent(worker'[v].found)
  BY DEF Decided, Recent, Failed
<1>1. CASE v \in Answered(w)
  <2>1. worker[v] \in Record
    BY DEF Typed
  <2>2. worker'[v] = [worker[v] EXCEPT !.pc = "decided", !.found = found, !.left = 0]
    BY <1>1 DEF Conclude
  <2>3. worker'[v].found = found
    BY <2>1, <2>2 DEF Record
  <2> QED
    BY <2>3
<1>2. CASE v \notin Answered(w)
  BY <1>2 DEF Conclude, CacheInv, Decided
<1> QED
  BY <1>1, <1>2

(* A full memory is emptied first, so that one more entry always fits.      *)
LEMMA RemembersFew ==
  ASSUME CacheInv, GapInv, NEW w \in Workers, Busy(w), NEW found \in Aged,
         found.age < Ttl(found.policy), Remember(w, found)
  PROVE  Kept' /\ Small'
<1> USE Constants, Ages DEF GapInv
<1> DEFINE i == InstanceOf[w]
           kept == IF Cardinality(Known(i)) >= maxMemoryHosts THEN Empty ELSE memory[i]
           entry == [policy |-> found.policy, age |-> found.age, left |-> memoryTTL]
           few == {k \in Keys : kept[k].policy # "none"}
<1>1. i \in Instances /\ Key(w) \in Keys
  BY DEF Key, Locks, Apart, Typed, Record
<1>2. Fresh(entry)
  BY DEF Fresh, Aged
<1>3. kept \in [Keys -> Entry] /\ \A k \in Keys : kept[k].left > 0 => Fresh(kept[k])
  <2>1. CASE kept = Empty
    BY <2>1 DEF Empty, Entry
  <2>2. CASE kept = memory[i]
    BY <1>1, <2>2 DEF CacheInv, Kept, Typed
  <2> QED
    BY <2>1, <2>2
<1>4. IsFiniteSet(few) /\ Cardinality(few) \in Nat
  BY FS_Subset, FS_CardinalityType
<1>5. Cardinality(few) < maxMemoryHosts
  <2>1. CASE Cardinality(Known(i)) >= maxMemoryHosts
    BY <2>1, NothingKnown
  <2>2. CASE ~(Cardinality(Known(i)) >= maxMemoryHosts)
    <3>1. few = Known(i)
      BY <2>2 DEF Known
    <3> HIDE DEF few
    <3> QED
      BY <1>4, <2>2, <3>1
  <2> QED
    BY <2>1, <2>2
<1>6. memory' = [memory EXCEPT ![i] = [kept EXCEPT ![Key(w)] = entry]]
  BY DEF Remember
<1> HIDE DEF kept, entry, i
<1>7. /\ \A k \in Keys : memory'[i][k] = IF k = Key(w) THEN entry ELSE kept[k]
      /\ \A j \in Instances \ {i} : memory'[j] = memory[j]
  BY <1>1, <1>3, <1>6 DEF Typed
<1>8. Kept'
  BY <1>2, <1>3, <1>7 DEF CacheInv, Kept, Fresh
<1>9. Cardinality(Known(i)') <= maxMemoryHosts
  <2>1. Known(i)' \subseteq few \cup {Key(w)}
    BY <1>7 DEF Known
  <2> HIDE DEF few
  <2>2. IsFiniteSet(few \cup {Key(w)}) /\ Cardinality(few \cup {Key(w)}) <= Cardinality(few) + 1
    <3>1. /\ IsFiniteSet(few \cup {Key(w)})
          /\ Cardinality(few \cup {Key(w)}) \in {Cardinality(few), Cardinality(few) + 1}
      BY <1>4, FS_AddElement
    <3> QED
      BY <1>4, <3>1
  <2>3. /\ Cardinality(Known(i)') \in Nat /\ Cardinality(few \cup {Key(w)}) \in Nat
        /\ Cardinality(Known(i)') <= Cardinality(few \cup {Key(w)})
    BY <2>1, <2>2, FS_Subset, FS_CardinalityType
  <2> QED
    BY <1>4, <1>5, <2>2, <2>3
<1>10. Small'
  BY <1>7, <1>9 DEF CacheInv, Small, Known
<1> QED
  BY <1>8, <1>10

LEMMA CacheLookup ==
  ASSUME CacheInv, GapInv, NEW w \in Workers, LoadCached(w) \/ Fetched(w) \/ LookupFails(w)
  PROVE  CacheInv'
<1> USE Constants, Ages DEF GapInv
<1>1. Busy(w) /\ Key(w) \in Keys
  BY DEF LoadCached, Fetched, LookupFails, Key, Busy, Locks, Apart, Typed, Record
<1>2. \A f \in Aged : f.age < Ttl(f.policy) => Recent(f)
  BY DEF Recent, Aged
<1>3. CASE LoadCached(w)
  <2> DEFINE found == cache[Key(w)]
  <2>1. found \in Aged /\ found.age < Ttl(found.policy)
    BY <1>1, <1>3 DEF LoadCached, Typed, CacheInv, Cached
  <2>2. Conclude(w, found) /\ Remember(w, found) /\ cache' = cache
    BY <1>3 DEF LoadCached
  <2> HIDE DEF found
  <2>3. Decided' /\ Kept' /\ Small'
    BY <1>1, <1>2, <2>1, <2>2, ConcludesDecided, RemembersFew
  <2> QED
    BY <2>2, <2>3 DEF CacheInv, Cached
<1>4. CASE Fetched(w)
  <2> PICK p \in Policies :
        /\ Conclude(w, [policy |-> p, age |-> 0]) /\ Remember(w, [policy |-> p, age |-> 0])
        /\ cache' \in {cache, [cache EXCEPT ![Key(w)] = [policy |-> p, age |-> 0]]}
    BY <1>4 DEF Fetched
  <2> DEFINE found == [policy |-> p, age |-> 0]
  <2>1. found \in Aged /\ found.age < Ttl(found.policy)
    BY DEF Aged
  <2>2. Conclude(w, found) /\ Remember(w, found)
        /\ cache' \in {cache, [cache EXCEPT ![Key(w)] = found]}
    OBVIOUS
  <2> HIDE DEF found
  <2>3. Decided' /\ Kept' /\ Small'
    BY <1>1, <1>2, <2>1, <2>2, ConcludesDecided, RemembersFew
  <2>4. Cached'
    BY <1>1, <2>1, <2>2 DEF CacheInv, Cached, Typed
  <2> QED
    BY <2>3, <2>4 DEF CacheInv
<1>5. CASE LookupFails(w)
  <2>1. Decided'
    BY <1>5, ConcludesDecided DEF LookupFails, Recent
  <2> QED
    BY <1>5, <2>1 DEF LookupFails, CacheInv, Cached, Kept, Small, Known
<1> QED
  BY <1>3, <1>4, <1>5

LEMMA CacheEnds ==
  ASSUME CacheInv, Typed, NEW i \in Instances, Anew(i)
  PROVE  CacheInv'
<1> USE Ages
<1>1. /\ memory'[i] = Empty /\ cache' = cache
      /\ \A j \in Instances \ {i} : memory'[j] = memory[j]
  BY DEF Anew, Typed
<1>2. Decided'
  BY DEF Anew, CacheInv, Decided, Idle
<1>3. Kept'
  BY <1>1 DEF CacheInv, Kept, Fresh, Empty
<1>4. Small'
  <2>1. Cardinality(Known(i)') = 0
    BY <1>1, NothingKnown DEF Known
  <2>2. \A j \in Instances \ {i} : Known(j)' = Known(j)
    BY <1>1 DEF Known
  <2> QED
    BY <2>1, <2>2 DEF CacheInv, Small
<1> QED
  BY <1>1, <1>2, <1>3, <1>4 DEF CacheInv, Cached

LEMMA CacheTick ==
  ASSUME CacheInv, Typed, Tick
  PROVE  CacheInv'
<1> USE Ages
<1>1. Decided'
  <2> SUFFICES ASSUME NEW w \in Workers PROVE worker'[w].pc # "decided"
    BY DEF Decided
  <2>1. worker[w].pc # "decided" /\ worker[w] \in Record
    BY DEF Tick, Typed
  <2>2. worker'[w] = [worker[w] EXCEPT !.left = Less(worker[w].left)]
    BY DEF Tick
  <2> QED
    BY <2>1, <2>2 DEF Record
<1>2. Cached'
  <2> SUFFICES ASSUME NEW k \in Keys, cache'[k] # None
               PROVE  cache'[k].age < Ttl(cache'[k].policy)
    BY DEF Cached, None
  <2>1. /\ cache[k] # None /\ ~(cache[k].age + 1 >= Ttl(cache[k].policy))
        /\ cache'[k] = [cache[k] EXCEPT !.age = cache[k].age + 1]
    BY DEF Tick
  <2>2. cache[k] \in Aged
    BY <2>1 DEF Typed
  <2>3. cache'[k].age = cache[k].age + 1 /\ cache'[k].policy = cache[k].policy
    BY <2>1, <2>2 DEF Aged
  <2>4. cache[k].age \in Nat /\ Ttl(cache[k].policy) \in Nat
    BY <2>2 DEF Aged
  <2> QED
    BY <2>1, <2>3, <2>4
<1>3. \A i \in Instances, k \in Keys :
        /\ memory'[i][k].policy = memory[i][k].policy
        /\ memory'[i][k].left > 0 => /\ memory[i][k].left > 0
                                     /\ memory'[i][k].left = memory[i][k].left - 1
                                     /\ memory'[i][k].age = memory[i][k].age + 1
  <2> SUFFICES ASSUME NEW i \in Instances, NEW k \in Keys
               PROVE  /\ memory'[i][k].policy = memory[i][k].policy
                      /\ memory'[i][k].left > 0 =>
                           /\ memory[i][k].left > 0
                           /\ memory'[i][k].left = memory[i][k].left - 1
                           /\ memory'[i][k].age = memory[i][k].age + 1
    OBVIOUS
  <2> DEFINE e == memory[i][k]
  <2>1. e \in Entry
    BY DEF Typed
  <2>2. memory'[i][k] =
          IF e.left > 1 THEN [policy |-> e.policy, age |-> e.age + 1, left |-> e.left - 1]
          ELSE [policy |-> e.policy, age |-> 0, left |-> 0]
    BY DEF Tick
  <2> HIDE DEF e
  <2>3. /\ memory'[i][k].policy = e.policy
        /\ memory'[i][k].left > 0 =>
             e.left > 0 /\ memory'[i][k].left = e.left - 1 /\ memory'[i][k].age = e.age + 1
    BY <2>1, <2>2 DEF Entry
  <2> QED
    BY <2>3 DEF e
<1>4. Kept'
  <2> SUFFICES ASSUME NEW i \in Instances, NEW k \in Keys, memory'[i][k].left > 0
               PROVE  Fresh(memory'[i][k])
    BY DEF Kept, Fresh
  <2>1. memory[i][k] \in Entry /\ Fresh(memory[i][k])
    BY <1>3 DEF CacheInv, Kept, Typed
  <2> QED
    BY <1>3, <2>1 DEF Fresh, Entry
<1>5. Small'
  BY <1>3 DEF CacheInv, Small, Known
<1> QED
  BY <1>1, <1>2, <1>4, <1>5 DEF CacheInv

LEMMA CacheInductive == Spec => []CacheInv
<1>1. CacheInv /\ GapInv /\ [Next]_vars => CacheInv'
  <2> SUFFICES ASSUME CacheInv, GapInv, [Next]_vars PROVE CacheInv'
    OBVIOUS
  <2> USE DEF GapInv
  <2>1. CASE \E w \in Workers : Handle(w)
    BY <2>1, QuietSteps, CacheRecall, CacheLookup DEF Handle, Check
  <2>2. CASE \E w \in Workers, h \in Hosts : Claim(w, h)
    BY <2>2, QuietSteps
  <2>3. CASE \E i \in Instances : Shutdown(i)
    BY <2>3, Quiet DEF Shutdown
  <2>4. CASE \E i \in Instances : Restart(i) \/ Crash(i)
    BY <2>4, CacheEnds DEF Restart, Crash
  <2>5. CASE Tick
    BY <2>5, CacheTick
  <2>6. CASE UNCHANGED vars
    BY <2>6, Quiet DEF vars
  <2> QED
    BY <2>1, <2>2, <2>3, <2>4, <2>5, <2>6 DEF Next
<1> QED
  BY <1>1, CacheStart, Inductive, PTL DEF Spec

(* No decision rests on a robots.txt older than the two caches allow: the   *)
(* shared one hands out what has not expired, and a memory adds its own     *)
(* time at most, for it never renews an entry.                              *)
THEOREM PoliciesAreFresh == Spec => []PolicyFresh
<1>1. CacheInv => PolicyFresh
  BY DEF CacheInv, Decided, Recent, PolicyFresh
<1> QED
  BY <1>1, CacheInductive, PTL

(* Types, with the bound on what a process remembers, and the rule that     *)
(* every look-up has a leader in the process and every waiter a look-up.    *)
THEOREM TypesCorrect == Spec => []TypeOK
<1>1. GapInv /\ CacheInv => TypeOK
  <2> SUFFICES ASSUME GapInv, CacheInv PROVE TypeOK
    OBVIOUS
  <2> USE Constants DEF GapInv
  <2>1. \A k \in Keys :
          cache[k] # None => cache[k] \in Aged /\ cache[k].age < Ttl(cache[k].policy)
    BY DEF Typed, CacheInv, Cached
  <2>2. \A i \in Instances :
          /\ \A k \in Keys : memory[i][k].left \in 0..memoryTTL
          /\ Cardinality({k \in Keys : memory[i][k].policy # "none"}) <= maxMemoryHosts
    BY DEF Typed, Entry, CacheInv, Small, Known
  <2>3. \A w \in Workers : worker[w].pc \in Controls /\ worker[w].left \in 0..FetchTimeout
    BY DEF Typed, Record
  <2>4. \A i \in Instances, k \in Keys : inflight[i][k] # NoWorker =>
          LET w == inflight[i][k] IN
          /\ InstanceOf[w] = i /\ worker[w].pc \in {"loading", "fetching"}
          /\ KeyOf[worker[w].host] = k
    BY DEF Lookups
  <2>5. \A w \in Workers :
          worker[w].pc = "waiting" => inflight[InstanceOf[w]][KeyOf[worker[w].host]] # NoWorker
    BY DEF Lookups, Leader, Key
  <2>6. hosts \in [Hosts -> Nat] /\ owed \in [Hosts -> Nat]
    BY DEF Typed
  <2>7. \A i \in Instances :
          /\ \A k \in Keys : memory[i][k].left \in 0..memoryTTL
          /\ Cardinality({k \in Keys : memory[i][k].policy # "none"}) <= maxMemoryHosts
          /\ \A k \in Keys : inflight[i][k] # NoWorker =>
               LET w == inflight[i][k] IN
               /\ InstanceOf[w] = i /\ worker[w].pc \in {"loading", "fetching"}
               /\ KeyOf[worker[w].host] = k
    BY <2>2, <2>4, Zenon
  <2>8. \A w \in Workers :
          /\ worker[w].pc \in {"idle", "checking", "waiting", "loading", "fetching", "decided",
                               "requesting"}
          /\ worker[w].left \in 0..FetchTimeout
          /\ worker[w].pc = "waiting" =>
               inflight[InstanceOf[w]][KeyOf[worker[w].host]] # NoWorker
    BY <2>3, <2>5 DEF Controls
  <2> QED
    BY <2>1, <2>6, <2>7, <2>8, Zenon DEF TypeOK
<1> QED
  BY <1>1, Inductive, CacheInductive, PTL

=============================================================================
