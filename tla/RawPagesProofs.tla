--------------------------- MODULE RawPagesProofs ---------------------------
(***************************************************************************)
(* What TLAPS proves of the raw page queue and the pipeline, for every      *)
(* number of pages, jobs and workers and every value of the limits.         *)
(***************************************************************************)
EXTENDS RawPages, FiniteSetTheorems, SequenceTheorems, TLAPS

-----------------------------------------------------------------------------
(* Lemmas about the job bookkeeping and the document list *)

LEMMA Counts ==
  ASSUME NEW S \in SUBSET Pages, NEW j
  PROVE  /\ IsFiniteSet(OfJob(S, j))
         /\ Cardinality(OfJob(S, j)) \in Nat
BY PagesAssumption, FS_Subset, FS_CardinalityType DEF OfJob

LEMMA LinkCounts ==
  ASSUME NEW p \in Pages
  PROVE  /\ NewLinks(p) \subseteq LinksOf[p] /\ LinksOf[p] \subseteq Links
         /\ IsFiniteSet(NewLinks(p)) /\ Cardinality(NewLinks(p)) \in Nat
BY PagesAssumption, FS_Subset, FS_CardinalityType DEF NewLinks

LEMMA FinishJobType ==
  ASSUME NEW h \in JobHash, NEW n \in Nat
  PROVE  finish_job(h, n) \in JobHash /\ count_in(h, n) \in JobHash
<1> DEFINE s == IF h.outstanding - n <= 0 THEN "completed" ELSE h.status
           d == [h EXCEPT !.outstanding = @ - n, !.status = s]
           u == [h EXCEPT !.outstanding = @ + n, !.status = "running"]
<1>1. /\ h.outstanding - n \in Int /\ h.outstanding + n \in Int
      /\ s \in {"running", "completed"}
  BY DEF JobHash
<1> HIDE DEF s
<1>2. d \in JobHash
  BY <1>1 DEF JobHash
<1>3. u \in JobHash
  BY <1>1 DEF JobHash
<1> QED BY <1>2, <1>3 DEF finish_job, count_in, s

LEMMA FinishType ==
  ASSUME jobs \in [Jobs -> JobHash], NEW S \in SUBSET Pages
  PROVE  Finish(S) \in [Jobs -> JobHash]
BY Counts, FinishJobType DEF Finish

LEMMA RecordedType ==
  ASSUME NEW h \in JobHash, NEW n \in Nat
  PROVE  /\ RecordedJob(h, n) \in JobHash
         /\ DuplicateJob(h) \in JobHash
<1> DEFINE a == [h EXCEPT !.parsed = @ + 1, !.links = @ + n]
           b == [h EXCEPT !.duplicate = @ + 1]
<1>0. h.parsed + 1 \in Nat /\ h.links + n \in Nat /\ h.duplicate + 1 \in Nat
  BY DEF JobHash
<1>1a. a \in JobHash
  BY <1>0 DEF JobHash
<1>1b. b \in JobHash
  BY <1>0 DEF JobHash
<1>1. a \in JobHash /\ b \in JobHash
  BY <1>1a, <1>1b
<1>2. finish_job(count_in(a, n), 1) \in JobHash
  BY <1>1, FinishJobType
<1>3. finish_job(b, 1) \in JobHash
  BY <1>1, FinishJobType
<1> QED BY <1>2, <1>3 DEF RecordedJob, DuplicateJob

LEMMA NewestType ==
  ASSUME NEW s \in Seq(Pages), NEW p \in Pages
  PROVE  Newest(<<p>> \o s) \in Seq(Pages)
<1> DEFINE t == <<p>> \o s
           n == IF Len(t) < MaxDocs THEN Len(t) ELSE MaxDocs
<1>1. t \in Seq(Pages)
  OBVIOUS
<1>2. n \in Int /\ \A i \in 1..n : t[i] \in Pages
  BY <1>1, LimitsAssumption
<1>3. SubSeq(t, 1, n) \in Seq(Pages)
  BY <1>2, SubSeqProperties
<1> QED BY <1>1, <1>3 DEF Newest

-----------------------------------------------------------------------------
(* Type correctness *)

LEMMA InitType == Init => TypeOK
<1> SUFFICES ASSUME Init PROVE TypeOK
  OBVIOUS
<1>1. jobs \in [Jobs -> JobHash]
  BY Counts DEF Init, JobHash
<1>2. docs \in Seq(Pages)
  BY DEF Init
<1> QED BY <1>1, <1>2, PagesAssumption, LimitsAssumption
        DEF Init, TypeOK, Absent, Control, Holding

LEMMA ReapType ==
  ASSUME TypeOK, Reap
  PROVE  /\ queue' \subseteq Pages /\ processing' \subseteq Pages /\ dead' \subseteq Pages
         /\ lease' \in [Pages -> Absent..Visibility]
         /\ redeliveries' \in [Pages -> 0..MaxRedeliveries]
         /\ jobs' \in [Jobs -> JobHash]
         /\ UNCHANGED <<payload, results>>
<1>1. Exhausted \in SUBSET Pages /\ Expired \in SUBSET Pages
  BY DEF TypeOK, Exhausted, Expired
<1>2. jobs' \in [Jobs -> JobHash]
  BY <1>1, FinishType DEF Reap, TypeOK
<1>3. lease' \in [Pages -> Absent..Visibility]
  BY LimitsAssumption DEF Reap, TypeOK, Absent
<1>4. redeliveries' \in [Pages -> 0..MaxRedeliveries]
  BY LimitsAssumption DEF Reap, TypeOK, Exhausted, Redelivered
<1> QED BY <1>1, <1>2, <1>3, <1>4 DEF Reap, TypeOK, Requeued

(* The two variables of a worker after a Goto. *)
LEMMA GotoType ==
  ASSUME TypeOK, NEW w \in Workers, NEW label \in Control, NEW p \in Pages \cup {NoPage},
         Goto(w, label, p), p = NoPage <=> label \notin Holding
  PROVE  /\ pc' \in [Workers -> Control]
         /\ page' \in [Workers -> Pages \cup {NoPage}]
         /\ \A v \in Workers : page'[v] = NoPage <=> pc'[v] \notin Holding
BY DEF TypeOK, Goto

LEMMA PageOfHolder ==
  ASSUME TypeOK, NEW w \in Workers, pc[w] \in Holding
  PROVE  page[w] \in Pages
BY DEF TypeOK

LEMMA OthersType == TypeOK /\ (Tick \/ \E p \in Pages : Push(p) \/ Expire(p)) => TypeOK'
<1> SUFFICES ASSUME TypeOK, Tick \/ \E p \in Pages : Push(p) \/ Expire(p) PROVE TypeOK'
  OBVIOUS
<1>1. CASE Tick
  <2>1. lease' \in [Pages -> Absent..Visibility]
    BY <1>1, LimitsAssumption DEF Tick, TypeOK, Dec, Absent
  <2>2. nextReap' \in [Workers -> 0..ReapInterval]
    BY <1>1, LimitsAssumption DEF Tick, TypeOK, Dec
  <2> QED BY <1>1, <2>1, <2>2 DEF Tick, TypeOK, results
<1>2. ASSUME NEW p \in Pages, Push(p) PROVE TypeOK'
  BY <1>2 DEF Push, TypeOK, results
<1>3. ASSUME NEW p \in Pages, Expire(p) PROVE TypeOK'
  BY <1>3 DEF Expire, TypeOK, results
<1> QED BY <1>1, <1>2, <1>3

LEMMA ReplayType ==
  ASSUME TypeOK, NEW batch \in SUBSET dead, Replay(batch)
  PROVE  TypeOK'
<1>1. batch \cap payload \in SUBSET Pages
  BY DEF TypeOK
<1>2. \A j \in Jobs : count_in(jobs[j], Cardinality(OfJob(batch \cap payload, j))) \in JobHash
  BY <1>1, Counts, FinishJobType DEF TypeOK
<1>3. jobs' \in [Jobs -> JobHash]
  BY <1>2 DEF Replay
<1>4. outcome' \in [Pages -> {"none", "recorded", "duplicate", "dropped"}]
  BY DEF Replay, TypeOK
<1>5. replays' \in 0..MaxReplays
  BY LimitsAssumption DEF Replay, TypeOK
<1> QED BY <1>1, <1>3, <1>4, <1>5 DEF Replay, TypeOK

(* The steps of a worker that settles nothing. *)
LEMMA LoopType ==
  ASSUME TypeOK, NEW w \in Workers,
         \/ Exit(w) \/ MaybeReap(w) \/ NotYet(w) \/ ReapFails(w) \/ TakeNothing(w)
         \/ \E p \in queue : Take(w, p)
         \/ Register(w) \/ Read(w) \/ Write(w) \/ Raise(w) \/ CommitStale(w) \/ Unlink(w)
         \/ RedisFails(w) \/ Crash(w) \/ Stop(w) \/ Restart(w)
  PROVE  TypeOK'
<1> USE DEF keys, results
<1>1. CASE Exit(w)
  BY <1>1, GotoType DEF Exit, TypeOK, Control, Holding
<1>2. CASE MaybeReap(w)
  <2>1. nextReap' \in [Workers -> 0..ReapInterval]
    BY <1>2, LimitsAssumption DEF MaybeReap, TypeOK
  <2>2. Reap /\ Goto(w, "polling", NoPage)
    BY <1>2 DEF MaybeReap
  <2> QED BY <1>2, <2>1, <2>2, ReapType, GotoType DEF MaybeReap, TypeOK, Control, Holding
<1>3. CASE NotYet(w)
  BY <1>3, GotoType DEF NotYet, TypeOK, Control, Holding
<1>4. CASE ReapFails(w)
  BY <1>4, LimitsAssumption DEF ReapFails, TypeOK
<1>5. CASE TakeNothing(w)
  BY <1>5, GotoType DEF TakeNothing, TypeOK, Control, Holding
<1>6. ASSUME NEW p \in queue, Take(w, p) PROVE TypeOK'
  <2>1. p \in Pages /\ p # NoPage
    BY PagesAssumption DEF TypeOK
  <2> QED BY <1>6, <2>1, GotoType DEF Take, TypeOK, Control, Holding
<1>7. CASE Register(w)
  <2>1. page[w] \in Pages /\ page[w] # NoPage
    BY <1>7, PageOfHolder, PagesAssumption DEF Register, Holding
  <2>2. lease' \in [Pages -> Absent..Visibility]
    <3>1. lease \in [Pages -> Absent..Visibility] /\ Visibility \in Absent..Visibility
      BY LimitsAssumption DEF TypeOK, Absent
    <3>2. lease' = [lease EXCEPT ![page[w]] = Visibility]
      BY <1>7 DEF Register
    <3> QED BY <3>1, <3>2
  <2> QED BY <1>7, <2>1, <2>2, GotoType DEF Register, TypeOK, Control, Holding
<1>8. CASE Read(w)
  <2>1. page[w] \in Pages /\ page[w] # NoPage
    BY <1>8, PageOfHolder, PagesAssumption DEF Read, Holding
  <2> QED BY <1>8, <2>1, GotoType DEF Read, TypeOK, Control, Holding
<1>9. CASE Write(w)
  <2>1. page[w] \in Pages /\ page[w] # NoPage
    BY <1>9, PageOfHolder, PagesAssumption DEF Write, Holding
  <2>2. files' \in [Paths -> Pages \cup {NoPage}]
    BY <1>9, <2>1 DEF Write, TypeOK
  <2> QED BY <1>9, <2>1, <2>2, GotoType DEF Write, TypeOK, Control, Holding
<1>10. CASE Raise(w)
  <2>1. page[w] \in Pages /\ page[w] # NoPage
    BY <1>10, PageOfHolder, PagesAssumption DEF Raise, Holding
  <2> QED BY <1>10, <2>1, GotoType DEF Raise, TypeOK, Control, Holding
<1>11. CASE CommitStale(w)
  BY <1>11, GotoType DEF CommitStale, TypeOK, Control, Holding
<1>12. CASE Unlink(w)
  <2>1. files' \in [Paths -> Pages \cup {NoPage}]
    BY <1>12 DEF Unlink, TypeOK
  <2> QED BY <1>12, <2>1, GotoType DEF Unlink, TypeOK, Control, Holding
<1>13. CASE RedisFails(w)
  BY <1>13, GotoType DEF RedisFails, TypeOK, Control, Holding
<1>14. CASE Crash(w)
  BY <1>14, GotoType DEF Crash, TypeOK, Control, Holding
<1>15. CASE Stop(w)
  BY <1>15, LimitsAssumption DEF Stop, TypeOK
<1>16. CASE Restart(w)
  <2>1. nextReap' \in [Workers -> 0..ReapInterval]
    BY <1>16, LimitsAssumption DEF Restart, TypeOK
  <2> QED BY <1>16, <2>1, GotoType DEF Restart, TypeOK, Control, Holding
<1> QED BY <1>1, <1>2, <1>3, <1>4, <1>5, <1>6, <1>7, <1>8, <1>9, <1>10, <1>11, <1>12,
           <1>13, <1>14, <1>15, <1>16

LEMMA AcknowledgeType ==
  ASSUME TypeOK, NEW p \in Pages, Acknowledge(p)
  PROVE  /\ processing' \subseteq Pages
         /\ lease' \in [Pages -> Absent..Visibility]
         /\ redeliveries' \in [Pages -> 0..MaxRedeliveries]
BY LimitsAssumption DEF Acknowledge, TypeOK, Absent

LEMMA SettleType ==
  ASSUME TypeOK, NEW w \in Workers,
         DeadLetter(w) \/ CommitDuplicate(w) \/ CommitDocument(w)
  PROVE  TypeOK'
<1> USE DEF results
<1>0. page[w] \in Pages /\ page[w] # NoPage
  BY PageOfHolder, PagesAssumption
     DEF DeadLetter, CommitDuplicate, CommitDocument, Holding
<1>1. CASE DeadLetter(w)
  <2>1. CASE Ours(page[w])
    <3>1. Acknowledge(page[w]) /\ dead' = dead \cup {page[w]} /\ jobs' = Finish({page[w]})
      BY <1>1, <2>1 DEF DeadLetter
    <3>2. jobs' \in [Jobs -> JobHash]
      BY <3>1, <1>0, FinishType DEF TypeOK
    <3> QED BY <1>0, <1>1, <3>1, <3>2, AcknowledgeType, GotoType
            DEF DeadLetter, TypeOK, Control, Holding
  <2>2. CASE ~Ours(page[w])
    BY <1>0, <1>1, <2>2, GotoType DEF DeadLetter, TypeOK, Control, Holding
  <2> QED BY <2>1, <2>2
<1>2. CASE CommitDuplicate(w)
  <2>1. jobs' \in [Jobs -> JobHash]
    BY <1>0, <1>2, RecordedType, PagesAssumption DEF CommitDuplicate, TypeOK
  <2>2. outcome' \in [Pages -> {"none", "recorded", "duplicate", "dropped"}]
    BY <1>2 DEF CommitDuplicate, TypeOK
  <2> QED BY <1>0, <1>2, <2>1, <2>2, AcknowledgeType, GotoType
          DEF CommitDuplicate, TypeOK, Control, Holding
<1>3. CASE CommitDocument(w)
  <2>1. jobs' \in [Jobs -> JobHash]
    BY <1>0, <1>3, RecordedType, LinkCounts, PagesAssumption DEF CommitDocument, TypeOK
  <2>2. outcome' \in [Pages -> {"none", "recorded", "duplicate", "dropped"}]
    BY <1>3 DEF CommitDocument, TypeOK
  <2>3. docs' \in Seq(Pages) /\ total' \in Nat /\ recordings' \in Seq(Pages)
    BY <1>0, <1>3, NewestType DEF CommitDocument, TypeOK
  <2>4. contentSeen' \subseteq Bodies
    BY <1>0, <1>3, PagesAssumption DEF CommitDocument, TypeOK
  <2>5. seen' \subseteq Links /\ frontier' \subseteq Child
    BY <1>0, <1>3, LinkCounts, PagesAssumption DEF CommitDocument, TypeOK, Child
  <2>6. /\ UNCHANGED <<coming, queue, dead, files, nextReap, stopping, stops, replays>>
        /\ payload' = payload \ {page[w]} /\ Acknowledge(page[w]) /\ Goto(w, "idle", NoPage)
    BY <1>3 DEF CommitDocument
  <2>7. "idle" \in Control /\ "idle" \notin Holding
    BY DEF Control, Holding
  <2>8. /\ pc' \in [Workers -> Control] /\ page' \in [Workers -> Pages \cup {NoPage}]
        /\ \A v \in Workers : page'[v] = NoPage <=> pc'[v] \notin Holding
    BY <2>6, <2>7, GotoType
  <2> QED BY <1>0, <2>1, <2>2, <2>3, <2>4, <2>5, <2>6, <2>8, AcknowledgeType DEF TypeOK
<1> QED BY <1>1, <1>2, <1>3

(* Next as the cases the proofs below distinguish. *)
Loop(w) ==
  \/ Exit(w) \/ MaybeReap(w) \/ NotYet(w) \/ ReapFails(w) \/ TakeNothing(w)
  \/ \E p \in queue : Take(w, p)
  \/ Register(w) \/ Read(w) \/ Write(w) \/ Raise(w) \/ CommitStale(w) \/ Unlink(w)
  \/ RedisFails(w) \/ Crash(w) \/ Stop(w) \/ Restart(w)
SettleStep(w) == DeadLetter(w) \/ CommitDuplicate(w) \/ CommitDocument(w)

LEMMA Cases ==
  ASSUME Next
  PROVE  \/ Tick \/ \E p \in Pages : Push(p) \/ Expire(p)
         \/ \E batch \in SUBSET dead : Replay(batch)
         \/ \E w \in Workers : Loop(w) \/ SettleStep(w)
BY DEF Next, Work, Handle, Loop, SettleStep

LEMMA StepType == TypeOK /\ [Next]_vars => TypeOK'
<1> SUFFICES ASSUME TypeOK, [Next]_vars PROVE TypeOK'
  OBVIOUS
<1>1. CASE UNCHANGED vars
  BY <1>1 DEF vars, keys, results, TypeOK
<1>2. CASE Tick \/ \E p \in Pages : Push(p) \/ Expire(p)
  BY <1>2, OthersType
<1>3. ASSUME NEW batch \in SUBSET dead, Replay(batch) PROVE TypeOK'
  BY <1>3, ReplayType
<1>4. ASSUME NEW w \in Workers, Loop(w) PROVE TypeOK'
  BY <1>4, LoopType DEF Loop
<1>5. ASSUME NEW w \in Workers, SettleStep(w) PROVE TypeOK'
  BY <1>5, SettleType DEF SettleStep
<1> QED BY <1>1, <1>2, <1>3, <1>4, <1>5, Cases

(* The queue's keys, the documents, the job hashes and the workers keep     *)
(* their types: no redelivery count passes its limit, and a worker has a    *)
(* page exactly in the states in which the code has one.                    *)
THEOREM TypeCorrect == Spec => []TypeOK
<1>1. TypeOK /\ [Next]_vars => TypeOK'
  BY StepType
<1> QED BY <1>1, InitType, PTL DEF Spec

-----------------------------------------------------------------------------
(* Where a page is *)

(* What the steps of a worker that settles nothing do to the places.        *)
LEMMA LoopPlaces ==
  ASSUME TypeOK, NEW w \in Workers, Loop(w)
  PROVE  /\ UNCHANGED <<coming, outcome, contentSeen>>
         /\ \/ UNCHANGED <<queue, processing, dead>>
            \/ Reap
            \/ \E p \in queue : /\ queue' = queue \ {p}
                               /\ processing' = processing \cup {p}
                               /\ UNCHANGED dead
<1> USE DEF keys, results
<1>1. CASE Exit(w)
  BY <1>1 DEF Exit
<1>2. CASE MaybeReap(w)
  BY <1>2 DEF MaybeReap, Reap
<1>3. CASE NotYet(w) \/ ReapFails(w) \/ TakeNothing(w) \/ Read(w) \/ Raise(w)
  BY <1>3 DEF NotYet, ReapFails, TakeNothing, Read, Raise
<1>4. CASE \E p \in queue : Take(w, p)
  BY <1>4 DEF Take
<1>5. CASE Register(w) \/ Write(w) \/ CommitStale(w) \/ Unlink(w)
  BY <1>5 DEF Register, Write, CommitStale, Unlink
<1>6. CASE RedisFails(w) \/ Crash(w) \/ Stop(w) \/ Restart(w)
  BY <1>6 DEF RedisFails, Crash, Stop, Restart
<1> QED BY <1>1, <1>2, <1>3, <1>4, <1>5, <1>6 DEF Loop

(* A settle moves the worker's page out of processing, or does nothing to   *)
(* the places.                                                              *)
LEMMA SettlePlaces ==
  ASSUME TypeOK, NEW w \in Workers, SettleStep(w)
  PROVE  /\ UNCHANGED <<coming, queue>>
         /\ page[w] \in Pages
         /\ \/ UNCHANGED <<processing, dead, outcome, contentSeen>>
            \/ /\ page[w] \in processing /\ processing' = processing \ {page[w]}
               /\ dead' = dead \cup {page[w]}
               /\ UNCHANGED <<outcome, contentSeen>>
            \/ /\ page[w] \in processing /\ processing' = processing \ {page[w]}
               /\ IsDuplicate(page[w])
               /\ outcome' = [outcome EXCEPT ![page[w]] = "duplicate"]
               /\ UNCHANGED <<dead, contentSeen>>
            \/ /\ page[w] \in processing /\ processing' = processing \ {page[w]}
               /\ ~IsDuplicate(page[w])
               /\ outcome' = [outcome EXCEPT ![page[w]] = "recorded"]
               /\ contentSeen' = contentSeen \cup ({BodyOf[page[w]]} \ {NoText})
               /\ UNCHANGED dead
<1> USE DEF results
<1>0. page[w] \in Pages
  BY PageOfHolder DEF SettleStep, DeadLetter, CommitDuplicate, CommitDocument, Holding
<1>1. CASE DeadLetter(w)
  BY <1>0, <1>1 DEF DeadLetter, Ours, Acknowledge
<1>2. CASE CommitDuplicate(w)
  BY <1>0, <1>2 DEF CommitDuplicate, Ours, Acknowledge
<1>3. CASE CommitDocument(w)
  BY <1>0, <1>3 DEF CommitDocument, Ours, Acknowledge
<1> QED BY <1>1, <1>2, <1>3 DEF SettleStep

LEMMA OnePlaceStep ==
  ASSUME TypeOK, OnePlace, [Next]_vars
  PROVE  OnePlace'
<1>1. CASE UNCHANGED vars
  BY <1>1 DEF vars, keys, results, OnePlace, Settled
<1>2. CASE Tick \/ \E p \in Pages : Push(p) \/ Expire(p)
  BY <1>2 DEF Tick, Push, Expire, results, OnePlace, Settled, TypeOK
<1>3. ASSUME NEW batch \in SUBSET dead, Replay(batch) PROVE OnePlace'
  <2>1. Settled' = Settled \cup (batch \ payload)
    BY <1>3 DEF Replay, Settled, TypeOK
  <2> QED BY <1>3, <2>1 DEF Replay, OnePlace
<1>4. ASSUME NEW w \in Workers, Loop(w) PROVE OnePlace'
  <2>1. Settled' = Settled /\ coming' = coming
    BY <1>4, LoopPlaces DEF Settled
  <2>2. CASE UNCHANGED <<queue, processing, dead>>
    BY <2>1, <2>2 DEF OnePlace
  <2>3. CASE Reap
    BY <2>1, <2>3 DEF Reap, Requeued, Exhausted, Expired, OnePlace
  <2>4. CASE \E p \in queue : /\ queue' = queue \ {p}
                             /\ processing' = processing \cup {p}
                             /\ UNCHANGED dead
    BY <2>1, <2>4 DEF OnePlace
  <2> QED BY <1>4, <2>2, <2>3, <2>4, LoopPlaces
<1>5. ASSUME NEW w \in Workers, SettleStep(w) PROVE OnePlace'
  <2>1. \/ UNCHANGED <<processing, dead>> /\ Settled' = Settled
        \/ /\ page[w] \in processing /\ processing' = processing \ {page[w]}
           /\ dead' = dead \cup {page[w]} /\ Settled' = Settled
        \/ /\ page[w] \in processing /\ processing' = processing \ {page[w]}
           /\ dead' = dead /\ Settled' = Settled \cup {page[w]}
    BY <1>5, SettlePlaces DEF Settled, TypeOK
  <2>2. coming' = coming /\ queue' = queue
    BY <1>5, SettlePlaces
  <2> QED BY <2>1, <2>2 DEF OnePlace
<1> QED BY <1>1, <1>2, <1>3, <1>4, <1>5, Cases

(* No page is lost or doubled, whatever the workers, the reaper and replays *)
(* do between each other's commands, and whichever calls fail.              *)
THEOREM NoPageLost == Spec => []OnePlace
<1>1. Init => OnePlace
  BY DEF Init, OnePlace, Settled
<1>2. TypeOK /\ OnePlace /\ [Next]_vars => OnePlace'
  BY OnePlaceStep
<1> QED BY <1>1, <1>2, TypeCorrect, PTL DEF Spec

-----------------------------------------------------------------------------
(* Content and files *)

(* The seen fingerprints are those of the recorded pages, and every page    *)
(* found to be a duplicate repeats one of them.                             *)
ContentBooks ==
  /\ contentSeen = {BodyOf[p] : p \in Recorded} \ {NoText}
  /\ ContentOnce

LEMMA ContentStep ==
  ASSUME TypeOK, OnePlace, ContentBooks, [Next]_vars
  PROVE  ContentBooks'
<1> USE DEF ContentBooks, ContentOnce, Recorded, Repeated
<1>1. CASE UNCHANGED <<outcome, contentSeen>>
  BY <1>1
<1>2. CASE Tick \/ \E p \in Pages : Push(p) \/ Expire(p)
  BY <1>1, <1>2 DEF Tick, Push, Expire, results
<1>3. ASSUME NEW batch \in SUBSET dead, Replay(batch) PROVE ContentBooks'
  <2>1. \A p \in batch \ payload : p \in Pages /\ outcome[p] = "none"
    BY DEF OnePlace, Settled, TypeOK
  <2>2. Recorded' = Recorded /\ Repeated' = Repeated /\ contentSeen' = contentSeen
    BY <1>3, <2>1 DEF Replay, TypeOK
  <2> QED BY <2>2
<1>4. ASSUME NEW w \in Workers, Loop(w) PROVE ContentBooks'
  BY <1>1, <1>4, LoopPlaces
<1>5. ASSUME NEW w \in Workers, SettleStep(w) PROVE ContentBooks'
  <2> DEFINE p == page[w]
  <2>1. p \in Pages
    BY <1>5, SettlePlaces
  <2>2. p \in processing => outcome[p] = "none"
    BY <2>1 DEF OnePlace, Settled
  <2>3. ASSUME p \in processing, IsDuplicate(p), contentSeen' = contentSeen,
               outcome' = [outcome EXCEPT ![p] = "duplicate"]
        PROVE  ContentBooks'
    <3>1. Recorded' = Recorded /\ Repeated' = Repeated \cup {p}
      BY <2>1, <2>2, <2>3 DEF TypeOK
    <3>2. \E q \in Recorded : BodyOf[p] = BodyOf[q] /\ BodyOf[p] # NoText
      BY <2>3 DEF IsDuplicate
    <3> QED BY <2>3, <3>1, <3>2
  <2>4. ASSUME p \in processing, ~IsDuplicate(p),
               contentSeen' = contentSeen \cup ({BodyOf[p]} \ {NoText}),
               outcome' = [outcome EXCEPT ![p] = "recorded"]
        PROVE  ContentBooks'
    <3>1. Recorded' = Recorded \cup {p} /\ Repeated' = Repeated
      BY <2>1, <2>2, <2>4 DEF TypeOK
    <3>2. \A q \in Recorded : BodyOf[q] = BodyOf[p] => BodyOf[p] = NoText
      BY <2>4 DEF IsDuplicate
    <3>3. contentSeen' = {BodyOf[q] : q \in Recorded'} \ {NoText}
      BY <2>4, <3>1
    <3> QED BY <3>1, <3>2, <3>3
  <2> QED BY <1>1, <1>5, <2>3, <2>4, SettlePlaces
<1> QED BY <1>1, <1>2, <1>3, <1>4, <1>5, Cases DEF vars, results

(* A body is indexed once, and a page is dropped as a duplicate only when   *)
(* the document it repeats is indexed, for every order of the commits.      *)
THEOREM ContentIndexedOnce == Spec => []ContentOnce
<1>1. Init => ContentBooks
  BY DEF Init, ContentBooks, ContentOnce, Recorded, Repeated
<1>2. TypeOK /\ OnePlace /\ ContentBooks /\ [Next]_vars => ContentBooks'
  BY ContentStep
<1>3. ContentBooks => ContentOnce
  BY DEF ContentBooks
<1> QED BY <1>1, <1>2, <1>3, TypeCorrect, NoPageLost, PTL DEF Spec

-----------------------------------------------------------------------------
(* No two pages share a file: no two targets of a job end, after redirects, *)
(* at one URL.                                                              *)
DistinctPaths == \A p, q \in Pages : Path(p) = Path(q) => p = q

(* Beyond SinkComplete: a file holds the page it was written for, a page    *)
(* that waits for its commit has its file unless it was found to be a       *)
(* duplicate meanwhile, and only duplicates are unlinked.                   *)
OwnFiles == \A p \in Recorded : files[Path(p)] = p
FileBooks ==
  /\ OwnFiles
  /\ \A w \in Workers : pc[w] = "written" =>
       files[Path(page[w])] = page[w] \/ outcome[page[w]] = "duplicate"
  /\ \A w \in Workers : pc[w] = "duplicate" => outcome[page[w]] = "duplicate"

(* The workers about to commit or to unlink are those that were, except w   *)
(* when it has just written.                                                *)
SameAuthors == \A v \in Workers : pc'[v] \in {"written", "duplicate"} =>
                 pc[v] = pc'[v] /\ page[v] = page'[v]

LEMMA LoopFiles ==
  ASSUME TypeOK, NEW w \in Workers, Loop(w)
  PROVE  \/ SameAuthors /\ files' = files
         \/ Write(w)
         \/ Unlink(w) /\ SameAuthors
<1> USE DEF TypeOK, Goto, SameAuthors, Control
<1>1. CASE Exit(w) \/ MaybeReap(w) \/ NotYet(w) \/ ReapFails(w) \/ TakeNothing(w)
  BY <1>1 DEF Exit, MaybeReap, NotYet, ReapFails, TakeNothing
<1>2. CASE \E p \in queue : Take(w, p)
  BY <1>2 DEF Take
<1>3. CASE Register(w) \/ Read(w) \/ Raise(w) \/ CommitStale(w) \/ Unlink(w)
  BY <1>3 DEF Register, Read, Raise, CommitStale, Unlink
<1>4. CASE RedisFails(w) \/ Crash(w) \/ Stop(w) \/ Restart(w)
  BY <1>4 DEF RedisFails, Crash, Stop, Restart
<1> QED BY <1>1, <1>2, <1>3, <1>4 DEF Loop

LEMMA FileStep ==
  ASSUME DistinctPaths, TypeOK, OnePlace, FileBooks, [Next]_vars
  PROVE  FileBooks'
<1> USE DEF FileBooks, OwnFiles, Recorded
<1>0. \A w \in Workers : pc[w] \in {"written", "duplicate"} => page[w] \in Pages
  BY PageOfHolder DEF Holding
<1>1. CASE UNCHANGED <<files, outcome, pc, page>>
  BY <1>1
<1>2. CASE Tick \/ \E p \in Pages : Push(p) \/ Expire(p)
  BY <1>1, <1>2 DEF Tick, Push, Expire, results
<1>3. ASSUME NEW batch \in SUBSET dead, Replay(batch) PROVE FileBooks'
  <2>1. \A p \in batch \ payload : p \in Pages /\ outcome[p] = "none"
    BY DEF OnePlace, Settled, TypeOK
  <2>2. Recorded' = Recorded
    BY <1>3, <2>1 DEF Replay, TypeOK
  <2>3. \A p \in Pages : outcome[p] = "duplicate" => outcome'[p] = "duplicate"
    BY <1>3, <2>1 DEF Replay, TypeOK
  <2>4. UNCHANGED <<files, pc, page>>
    BY <1>3 DEF Replay
  <2> QED BY <1>0, <2>2, <2>3, <2>4
<1>4. ASSUME NEW w \in Workers, Loop(w) PROVE FileBooks'
  <2>1. outcome' = outcome
    BY <1>4, LoopPlaces
  <2>2. CASE SameAuthors /\ files' = files
    BY <2>1, <2>2 DEF SameAuthors
  <2>3. CASE Write(w)
    <3>1. /\ page[w] \in Pages /\ pc[w] = "parsing"
          /\ files' = [files EXCEPT ![Path(page[w])] = page[w]]
          /\ page' = page /\ pc' = [pc EXCEPT ![w] = "written"]
      BY <2>3, PageOfHolder DEF Write, Goto, Holding, TypeOK
    <3>2. \A p \in Pages : files[Path(p)] = p => files'[Path(p)] = p
      BY <3>1 DEF DistinctPaths, TypeOK, Paths
    <3>3. files'[Path(page[w])] = page[w]
      BY <3>1 DEF TypeOK, Paths
    <3> QED BY <1>0, <2>1, <3>1, <3>2, <3>3 DEF TypeOK
  <2>4. CASE Unlink(w) /\ SameAuthors
    <3>1. /\ page[w] \in Pages /\ outcome[page[w]] = "duplicate"
          /\ files' = [files EXCEPT ![Path(page[w])] = NoPage]
      BY <2>4, <1>0 DEF Unlink
    <3>2. \A p \in Pages : p # page[w] => files'[Path(p)] = files[Path(p)]
      BY <3>1 DEF DistinctPaths, TypeOK, Paths
    <3> QED BY <1>0, <2>1, <2>4, <3>1, <3>2 DEF SameAuthors
  <2> QED BY <1>4, <2>2, <2>3, <2>4, LoopFiles
<1>5. ASSUME NEW w \in Workers, SettleStep(w) PROVE FileBooks'
  <2> DEFINE p == page[w]
  <2>1. p \in Pages /\ (p \in processing => outcome[p] = "none")
    BY <1>5, SettlePlaces DEF OnePlace, Settled
  <2>2. files' = files
    BY <1>5 DEF SettleStep, DeadLetter, CommitDuplicate, CommitDocument
  <2>3. CASE DeadLetter(w)
    <3>1. SameAuthors /\ outcome' = outcome
      BY <2>3 DEF DeadLetter, Goto, SameAuthors, TypeOK, results
    <3> QED BY <2>2, <3>1 DEF SameAuthors
  <2>4. CASE CommitDuplicate(w)
    <3>1. /\ outcome[p] = "none" /\ outcome' = [outcome EXCEPT ![p] = "duplicate"]
          /\ page' = page /\ pc' = [pc EXCEPT ![w] = "duplicate"]
      BY <2>1, <2>4 DEF CommitDuplicate, Ours, Goto, TypeOK
    <3>2. Recorded' = Recorded /\ outcome'[p] = "duplicate"
      BY <2>1, <3>1 DEF TypeOK
    <3>3. \A q \in Pages : outcome[q] = "duplicate" => outcome'[q] = "duplicate"
      BY <2>1, <3>1 DEF TypeOK
    <3> QED BY <1>0, <2>2, <3>1, <3>2, <3>3 DEF TypeOK
  <2>5. CASE CommitDocument(w)
    <3>1. /\ outcome[p] = "none" /\ outcome' = [outcome EXCEPT ![p] = "recorded"]
          /\ pc[w] = "written" /\ SameAuthors
      BY <2>1, <2>5 DEF CommitDocument, Ours, Goto, TypeOK, SameAuthors
    <3>2. Recorded' = Recorded \cup {p}
      BY <2>1, <3>1 DEF TypeOK
    <3>3. files[Path(p)] = p
      BY <3>1
    <3>4. \A q \in Pages : outcome[q] = "duplicate" => outcome'[q] = "duplicate"
      BY <2>1, <3>1 DEF TypeOK
    <3> QED BY <1>0, <2>2, <3>1, <3>2, <3>3, <3>4 DEF SameAuthors
  <2> QED BY <1>5, <2>3, <2>4, <2>5 DEF SettleStep
<1> QED BY <1>1, <1>2, <1>3, <1>4, <1>5, Cases DEF vars, results

(* Every indexed document has its Markdown file, in spite of crashes, lost  *)
(* replies and workers that write for a page they no longer have, provided  *)
(* no two pages share a path.                                               *)
THEOREM SinkNeverMisses == DistinctPaths => (Spec => []SinkComplete)
<1> SUFFICES ASSUME DistinctPaths PROVE Spec => []SinkComplete
  OBVIOUS
<1>1. Init => FileBooks
  BY DEF Init, FileBooks, OwnFiles, Recorded
<1>2. TypeOK /\ OnePlace /\ FileBooks /\ [Next]_vars => FileBooks'
  BY FileStep
<1>3. FileBooks => SinkComplete
  BY PagesAssumption DEF FileBooks, OwnFiles, SinkComplete, Recorded
<1> QED BY <1>1, <1>2, <1>3, TypeCorrect, NoPageLost, PTL DEF Spec

-----------------------------------------------------------------------------
(* The pipeline implements PageOutcomes *)

Dropped == {p \in Pages : outcome[p] = "dropped"}
Waiting == queue \cup processing
promised == <<Waiting, Recorded, Repeated, dead, Dropped>>

(* What the abstract specification says of a body that is recorded is what  *)
(* the fingerprints say.                                                    *)
LEMMA KnownBody ==
  ASSUME TypeOK, ContentBooks, NEW p \in Pages
  PROVE  IsDuplicate(p) <=> Promise!Known(p)
BY DEF ContentBooks, Recorded, IsDuplicate, Promise!Known

LEMMA PromiseStep ==
  ASSUME TypeOK, OnePlace, ContentBooks, [Next]_vars
  PROVE  [Promise!Next]_promised
<1> USE DEF promised, Waiting, Recorded, Repeated, Dropped
<1>1. CASE UNCHANGED <<queue, processing, dead, outcome>>
  BY <1>1
<1>2. CASE Tick
  BY <1>1, <1>2 DEF Tick, results
<1>3. ASSUME NEW p \in Pages, Push(p) PROVE [Promise!Next]_promised
  <2>1. Promise!Arrive(p)
    BY <1>3 DEF Push, results, OnePlace, Settled, Promise!Arrive, Promise!Arrived
  <2> QED BY <2>1 DEF Promise!Next
<1>4. ASSUME NEW p \in Pages, Expire(p) PROVE [Promise!Next]_promised
  BY <1>1, <1>4 DEF Expire, results
<1>5. ASSUME NEW batch \in SUBSET dead, Replay(batch) PROVE [Promise!Next]_promised
  <2>0. PICK back \in SUBSET dead, lost \in SUBSET dead :
               back = batch \cap payload /\ lost = batch \ payload
    OBVIOUS
  <2>1. back \cup lost = batch /\ back \cap lost = {}
    BY <2>0
  <2>2. \A p \in lost : p \in Pages /\ outcome[p] = "none"
    BY <2>0 DEF OnePlace, Settled, TypeOK
  <2>3. Recorded' = Recorded /\ Repeated' = Repeated /\ Dropped' = Dropped \cup lost
    BY <1>5, <2>0, <2>2 DEF Replay, TypeOK
  <2>4. Promise!Replay(back, lost)
    BY <1>5, <2>0, <2>1, <2>3 DEF Replay, Promise!Replay
  <2> QED BY <2>4 DEF Promise!Next
<1>6. ASSUME NEW w \in Workers, Loop(w) PROVE [Promise!Next]_promised
  <2>1. outcome' = outcome
    BY <1>6, LoopPlaces
  <2>2. CASE UNCHANGED <<queue, processing, dead>>
    BY <1>1, <2>1, <2>2
  <2>3. CASE Reap
    <3>1. /\ Waiting' = Waiting \ Exhausted /\ dead' = dead \cup Exhausted
          /\ Exhausted \in SUBSET Waiting
      BY <2>3 DEF Reap, Requeued, Exhausted, Expired, OnePlace
    <3>2. CASE Exhausted = {}
      BY <2>1, <3>1, <3>2
    <3>3. CASE Exhausted # {}
      <4>1. Promise!Bury(Exhausted)
        BY <2>1, <3>1, <3>3 DEF Promise!Bury
      <4> QED BY <3>1, <4>1 DEF Promise!Next
    <3> QED BY <3>2, <3>3
  <2>4. CASE \E p \in queue : /\ queue' = queue \ {p}
                             /\ processing' = processing \cup {p}
                             /\ UNCHANGED dead
    BY <2>1, <2>4
  <2> QED BY <1>6, <2>2, <2>3, <2>4, LoopPlaces
<1>7. ASSUME NEW w \in Workers, SettleStep(w) PROVE [Promise!Next]_promised
  <2>0. PICK p \in Pages : p = page[w]
    BY <1>7, SettlePlaces
  <2>1. UNCHANGED queue
    BY <1>7, SettlePlaces
  <2>2. p \in processing => outcome[p] = "none" /\ p \notin queue
    BY <2>1 DEF OnePlace, Settled
  <2>3. ASSUME p \in processing, processing' = processing \ {p}, dead' = dead \cup {p},
               UNCHANGED outcome
        PROVE  [Promise!Next]_promised
    <3>1. Promise!Bury({p}) /\ {p} \in SUBSET Waiting
      BY <2>1, <2>2, <2>3 DEF Promise!Bury
    <3> QED BY <3>1 DEF Promise!Next
  <2>4. ASSUME p \in processing, processing' = processing \ {p}, IsDuplicate(p),
               outcome' = [outcome EXCEPT ![p] = "duplicate"], UNCHANGED dead
        PROVE  [Promise!Next]_promised
    <3>1. Recorded' = Recorded /\ Repeated' = Repeated \cup {p} /\ Dropped' = Dropped
      BY <2>1, <2>2, <2>4 DEF TypeOK
    <3>2. Promise!Known(p) /\ Waiting' = Waiting \ {p} /\ p \in Waiting
      BY <2>1, <2>2, <2>4, KnownBody
    <3>3. Promise!Repeat(p)
      BY <2>4, <3>1, <3>2 DEF Promise!Repeat
    <3> QED BY <3>3 DEF Promise!Next
  <2>5. ASSUME p \in processing, processing' = processing \ {p}, ~IsDuplicate(p),
               outcome' = [outcome EXCEPT ![p] = "recorded"], UNCHANGED dead
        PROVE  [Promise!Next]_promised
    <3>1. Recorded' = Recorded \cup {p} /\ Repeated' = Repeated /\ Dropped' = Dropped
      BY <2>1, <2>2, <2>5 DEF TypeOK
    <3>2. ~Promise!Known(p) /\ Waiting' = Waiting \ {p} /\ p \in Waiting
      BY <2>1, <2>2, <2>5, KnownBody
    <3>3. Promise!Record(p)
      BY <2>5, <3>1, <3>2 DEF Promise!Record
    <3> QED BY <3>3 DEF Promise!Next
  <2> QED BY <1>1, <1>7, <2>0, <2>1, <2>3, <2>4, <2>5, SettlePlaces
<1> QED BY <1>1, <1>2, <1>3, <1>4, <1>5, <1>6, <1>7, Cases DEF vars, keys, results

(* Seen from outside, every page gets one outcome and keeps it: workers,    *)
(* leases, lost replies and redelivery only add steps nobody notices.       *)
THEOREM PipelineKeepsPromise == Spec => KeepsPromise
<1>1. Init => Promise!Init
  BY DEF Init, Promise!Init, Recorded, Repeated
<1>2. TypeOK /\ OnePlace /\ ContentBooks /\ [Next]_vars => ContentBooks'
  BY ContentStep
<1>3. Init => ContentBooks
  BY DEF Init, ContentBooks, ContentOnce, Recorded, Repeated
<1>4. TypeOK /\ OnePlace /\ ContentBooks /\ [Next]_vars => [Promise!Next]_(Promise!vars)
  BY PromiseStep DEF promised, Waiting, Dropped, Promise!vars
<1> QED BY <1>1, <1>2, <1>3, <1>4, TypeCorrect, NoPageLost, PTL
        DEF Spec, KeepsPromise, Promise!Spec

-----------------------------------------------------------------------------
(* One holder of a page *)

Punctual(w) == pc[w] \in Holding \ {"duplicate"} /\ page[w] \notin Overrun

(* The page of w was settled by somebody while w found it a duplicate.      *)
SettledAlready(w) == pc[w] = "failed" /\ outcome[page[w]] # "none"

HasForItself(w) ==
  /\ page[w] \in processing /\ lease[page[w]] # 0
  /\ \A v \in Workers \ {w} : page[v] # page[w]

(* Beyond OneHolder: the lease of a page held in time never ends, a worker  *)
(* at "duplicate" has settled its page, and only pages that are worked on   *)
(* have a lease, so that one that is taken again starts without one.        *)
HolderInv ==
  /\ \A w \in Workers : Punctual(w) => SettledAlready(w) \/ HasForItself(w)
  /\ \A w \in Workers : pc[w] = "duplicate" => outcome[page[w]] = "duplicate"
  /\ \A p \in Pages \ Overrun : p \notin processing => lease[p] = Absent

LEMMA HolderMeans == HolderInv => OneHolder
BY DEF HolderInv, OneHolder, Punctual, SettledAlready, HasForItself

(* A step that goes on with the page it has, or lets it go. *)
GoesOn(v) ==
  /\ page'[v] \in {page[v], NoPage}
  /\ pc'[v] = "duplicate" => pc[v] = "duplicate" /\ page'[v] = page[v]
  /\ pc'[v] \in Holding \ {"duplicate"} =>
       /\ page'[v] = page[v] /\ pc[v] \in Holding
       /\ pc[v] \in {"failed", "duplicate"} => pc'[v] = "failed"

(* A change of the queue's keys under workers that stay where they are, or  *)
(* one of which is done with its page.                                      *)
LEMMA KeysChange ==
  ASSUME TypeOK, HolderInv, \A v \in Workers : GoesOn(v),
         \A p \in Pages : outcome[p] # "none" => outcome'[p] = outcome[p],
         \A v \in Workers : Punctual(v)' /\ HasForItself(v) =>
            page[v] \in processing' /\ lease'[page[v]] # 0,
         \A p \in Pages \ Overrun : p \notin processing' => lease'[p] = Absent
  PROVE  HolderInv'
<1>1. ASSUME NEW w \in Workers, Punctual(w)'
      PROVE  SettledAlready(w)' \/ HasForItself(w)'
  <2>1. pc[w] \in Holding /\ page'[w] = page[w] /\ page[w] \in Pages /\ page[w] # NoPage
    BY <1>1, PageOfHolder, PagesAssumption DEF Punctual, GoesOn
  <2>2. CASE pc[w] = "duplicate"
    <3>1. pc'[w] = "failed" /\ outcome[page[w]] = "duplicate"
      BY <1>1, <2>1, <2>2 DEF GoesOn, Punctual, HolderInv
    <3>2. outcome'[page'[w]] # "none"
      BY <2>1, <3>1
    <3> QED BY <3>1, <3>2 DEF SettledAlready
  <2>3. CASE pc[w] # "duplicate"
    <3>1. Punctual(w)
      BY <1>1, <2>1, <2>3 DEF Punctual
    <3>2. CASE SettledAlready(w)
      <4>1. pc'[w] = "failed"
        BY <1>1, <3>2 DEF SettledAlready, GoesOn, Punctual
      <4> QED BY <2>1, <3>2, <4>1 DEF SettledAlready
    <3>3. CASE HasForItself(w)
      <4>1. \A v \in Workers \ {w} : page'[v] # page'[w]
        BY <2>1, <3>3 DEF HasForItself, GoesOn
      <4>2. page[w] \in processing' /\ lease'[page[w]] # 0
        BY <1>1, <3>3
      <4> QED BY <2>1, <4>1, <4>2 DEF HasForItself
    <3> QED BY <3>1, <3>2, <3>3 DEF HolderInv
  <2> QED BY <2>2, <2>3
<1>2. \A w \in Workers : pc'[w] = "duplicate" => outcome'[page'[w]] = "duplicate"
  BY PageOfHolder DEF HolderInv, GoesOn, Holding
<1> QED BY <1>1, <1>2 DEF HolderInv

(* The worker's steps that move no page, and those that fail. *)
LEMMA StepsGoOn ==
  ASSUME TypeOK, NEW w \in Workers,
         \/ Exit(w) \/ MaybeReap(w) \/ NotYet(w) \/ ReapFails(w) \/ TakeNothing(w)
         \/ Register(w) \/ Read(w) \/ Write(w) \/ Raise(w) \/ CommitStale(w) \/ Unlink(w)
         \/ RedisFails(w) \/ Crash(w) \/ Stop(w) \/ Restart(w)
         \/ DeadLetter(w) \/ CommitDocument(w)
  PROVE  \A v \in Workers : GoesOn(v)
<1> USE DEF TypeOK, Goto, GoesOn, Holding, Control
<1>1. CASE Exit(w) \/ MaybeReap(w) \/ NotYet(w) \/ ReapFails(w) \/ TakeNothing(w)
  BY <1>1 DEF Exit, MaybeReap, NotYet, ReapFails, TakeNothing
<1>2. CASE Register(w) \/ Read(w) \/ Write(w)
  BY <1>2 DEF Register, Read, Write
<1>3. CASE Raise(w) \/ CommitStale(w) \/ Unlink(w)
  BY <1>3 DEF Raise, CommitStale, Unlink
<1>4. CASE RedisFails(w) \/ Crash(w) \/ Stop(w) \/ Restart(w)
  BY <1>4 DEF RedisFails, Crash, Stop, Restart
<1>5. CASE DeadLetter(w) \/ CommitDocument(w)
  BY <1>5 DEF DeadLetter, CommitDocument
<1> QED BY <1>1, <1>2, <1>3, <1>4, <1>5

LEMMA QuietHolder ==
  ASSUME TypeOK, HolderInv, UNCHANGED <<processing, lease, outcome>>,
         \A v \in Workers : GoesOn(v)
  PROVE  HolderInv'
<1>1. \A v \in Workers : Punctual(v)' /\ HasForItself(v) =>
         page[v] \in processing' /\ lease'[page[v]] # 0
  BY DEF HasForItself
<1>2. \A p \in Pages \ Overrun : p \notin processing' => lease'[p] = Absent
  BY DEF HolderInv
<1> QED BY <1>1, <1>2, KeysChange

LEMMA TakeHolder ==
  ASSUME TypeOK, OnePlace, HolderInv, NEW w \in Workers, NEW p \in queue, Take(w, p)
  PROVE  HolderInv'
<1>1. /\ p \in Pages /\ p \notin processing /\ outcome[p] = "none" /\ p # NoPage
      /\ processing' = processing \cup {p} /\ UNCHANGED <<lease, outcome>>
      /\ \A v \in Workers : pc'[v] = (IF v = w THEN "taken" ELSE pc[v])
                          /\ page'[v] = (IF v = w THEN p ELSE page[v])
  BY PagesAssumption DEF Take, Goto, TypeOK, OnePlace, Settled, results
<1>2. ASSUME p \notin Overrun, NEW v \in Workers, page[v] = p PROVE FALSE
  <2>1. pc[v] \in Holding
    BY <1>1, <1>2 DEF TypeOK
  <2>2. pc[v] # "duplicate"
    BY <1>1, <1>2 DEF HolderInv
  <2>3. Punctual(v)
    BY <1>2, <2>1, <2>2 DEF Punctual
  <2>4. ~SettledAlready(v) /\ ~HasForItself(v)
    BY <1>1, <1>2 DEF SettledAlready, HasForItself
  <2> QED BY <2>3, <2>4 DEF HolderInv
<1>3. ASSUME NEW v \in Workers, Punctual(v)'
      PROVE  SettledAlready(v)' \/ HasForItself(v)'
  <2>1. CASE v = w
    <3>1. page'[w] = p /\ p \notin Overrun
      BY <1>1, <1>3, <2>1 DEF Punctual
    <3>2. lease'[p] # 0
      BY <1>1, <3>1 DEF HolderInv, Absent
    <3>3. \A u \in Workers \ {w} : page'[u] # p
      BY <1>1, <1>2, <3>1
    <3> QED BY <1>1, <2>1, <3>1, <3>2, <3>3 DEF HasForItself
  <2>2. CASE v # w
    <3>1. Punctual(v)
      BY <1>1, <1>3, <2>2 DEF Punctual
    <3>2. CASE SettledAlready(v)
      BY <1>1, <2>2, <3>2 DEF SettledAlready
    <3>3. CASE HasForItself(v)
      BY <1>1, <2>2, <3>3 DEF HasForItself
    <3> QED BY <3>1, <3>2, <3>3 DEF HolderInv
  <2> QED BY <2>1, <2>2
<1>4. \A v \in Workers : pc'[v] = "duplicate" => outcome'[page'[v]] = "duplicate"
  BY <1>1 DEF HolderInv
<1>5. \A q \in Pages \ Overrun : q \notin processing' => lease'[q] = Absent
  BY <1>1 DEF HolderInv
<1> QED BY <1>3, <1>4, <1>5 DEF HolderInv

(* A settle that takes the page p of w out of processing: another worker    *)
(* that holds it is not punctual, or knows that it was settled.             *)
LEMMA AcknowledgedHolder ==
  ASSUME TypeOK, HolderInv, NEW w \in Workers, NEW p \in Pages, p = page[w], Acknowledge(p),
         NEW v \in Workers \ {w}, HasForItself(v), page[v] # NoPage
  PROVE  page[v] \in processing' /\ lease'[page[v]] # 0
<1>1. page[v] # p /\ page[v] \in processing /\ lease[page[v]] # 0 /\ page[v] \in Pages
  BY DEF HasForItself, TypeOK
<1> QED BY <1>1 DEF Acknowledge, TypeOK

LEMMA AcknowledgedLease ==
  ASSUME TypeOK, HolderInv, NEW p \in Pages, Acknowledge(p)
  PROVE  \A q \in Pages \ Overrun : q \notin processing' => lease'[q] = Absent
BY DEF Acknowledge, TypeOK, HolderInv

LEMMA SettleHolder ==
  ASSUME TypeOK, OnePlace, HolderInv, NEW w \in Workers, SettleStep(w)
  PROVE  HolderInv'
<1> DEFINE p == page[w]
<1>0. p \in Pages /\ (p \in processing => outcome[p] = "none")
  BY SettlePlaces DEF OnePlace, Settled
<1>1. ASSUME DeadLetter(w) \/ CommitDocument(w), Acknowledge(p),
             \A q \in Pages : outcome[q] # "none" => outcome'[q] = outcome[q]
      PROVE  HolderInv'
  <2>1. \A v \in Workers : GoesOn(v)
    BY <1>1, StepsGoOn
  <2>2. pc'[w] \notin Holding
    BY <1>1 DEF DeadLetter, CommitDocument, Goto, TypeOK, Holding
  <2>3. ASSUME NEW v \in Workers, Punctual(v)', HasForItself(v)
        PROVE  page[v] \in processing' /\ lease'[page[v]] # 0
    <3>1. v # w /\ page[v] # NoPage
      BY <2>2, <2>3, PagesAssumption DEF Punctual, HasForItself, TypeOK
    <3> HIDE DEF p
    <3> QED BY <1>0, <1>1, <2>3, <3>1, AcknowledgedHolder DEF p
  <2>4. \A q \in Pages \ Overrun : q \notin processing' => lease'[q] = Absent
    BY <1>0, <1>1, AcknowledgedLease
  <2> QED BY <1>1, <2>1, <2>3, <2>4, KeysChange
<1>2. CASE DeadLetter(w)
  <2>1. outcome' = outcome
    BY <1>2 DEF DeadLetter, results
  <2>2. CASE Ours(p)
    <3>1. Acknowledge(p)
      BY <1>2, <2>2 DEF DeadLetter
    <3> QED BY <1>1, <1>2, <2>1, <3>1
  <2>3. CASE ~Ours(p)
    <3>1. UNCHANGED <<processing, lease, outcome>>
      BY <1>2, <2>1, <2>3 DEF DeadLetter
    <3> QED BY <1>2, <3>1, StepsGoOn, QuietHolder
  <2> QED BY <2>2, <2>3
<1>3. CASE CommitDocument(w)
  <2>1. Acknowledge(p) /\ outcome[p] = "none" /\ outcome' = [outcome EXCEPT ![p] = "recorded"]
    BY <1>0, <1>3 DEF CommitDocument, Ours
  <2>2. \A q \in Pages : outcome[q] # "none" => outcome'[q] = outcome[q]
    BY <1>0, <2>1 DEF TypeOK
  <2> QED BY <1>1, <1>3, <2>1, <2>2
<1>4. CASE CommitDuplicate(w)
  <2>1. /\ Acknowledge(p) /\ outcome[p] = "none" /\ pc[w] = "written"
        /\ outcome' = [outcome EXCEPT ![p] = "duplicate"]
        /\ page' = page /\ pc' = [pc EXCEPT ![w] = "duplicate"]
    BY <1>0, <1>4 DEF CommitDuplicate, Ours, Goto, TypeOK
  <2>2. \A q \in Pages : outcome[q] # "none" => outcome'[q] = outcome[q]
    BY <1>0, <2>1 DEF TypeOK
  <2>3. ASSUME NEW v \in Workers, Punctual(v)'
        PROVE  SettledAlready(v)' \/ HasForItself(v)'
    <3>1. v # w /\ pc'[v] = pc[v] /\ page'[v] = page[v]
      BY <2>1, <2>3 DEF Punctual, TypeOK
    <3>2. Punctual(v) /\ page[v] \in Pages /\ page[v] # NoPage
      BY <2>3, <3>1, PageOfHolder, PagesAssumption DEF Punctual
    <3>3. CASE SettledAlready(v)
      BY <2>2, <3>1, <3>2, <3>3 DEF SettledAlready
    <3>4. CASE HasForItself(v)
      <4> HIDE DEF p
      <4>1. page[v] \in processing' /\ lease'[page[v]] # 0
        BY <1>0, <2>1, <3>1, <3>2, <3>4, AcknowledgedHolder DEF p
      <4> QED BY <2>1, <3>1, <3>4, <4>1 DEF HasForItself
    <3> QED BY <3>2, <3>3, <3>4 DEF HolderInv
  <2>4. ASSUME NEW v \in Workers, pc'[v] = "duplicate"
        PROVE  outcome'[page'[v]] = "duplicate"
    <3>1. CASE v = w
      BY <1>0, <2>1, <3>1 DEF TypeOK
    <3>2. CASE v # w
      <4>1. pc[v] = "duplicate" /\ page'[v] = page[v] /\ page[v] \in Pages
        BY <2>1, <2>4, <3>2, PageOfHolder DEF TypeOK, Holding
      <4> QED BY <2>2, <4>1 DEF HolderInv
    <3> QED BY <3>1, <3>2
  <2>5. \A q \in Pages \ Overrun : q \notin processing' => lease'[q] = Absent
    BY <1>0, <2>1, AcknowledgedLease
  <2> QED BY <2>3, <2>4, <2>5 DEF HolderInv
<1> QED BY <1>2, <1>3, <1>4 DEF SettleStep

LEMMA HolderStep ==
  ASSUME TypeOK, OnePlace, HolderInv, [Next]_vars
  PROVE  HolderInv'
<1>0. UNCHANGED <<pc, page>> => \A v \in Workers : GoesOn(v)
  BY DEF GoesOn, Holding
<1>1. CASE UNCHANGED vars
  BY <1>0, <1>1, QuietHolder DEF vars, keys, results
<1>2. CASE \E p \in Pages : Push(p) \/ Expire(p)
  BY <1>0, <1>2, QuietHolder DEF Push, Expire, results
<1>3. CASE Tick
  <2>1. \A v \in Workers : GoesOn(v)
    BY <1>0, <1>3 DEF Tick
  <2>2. ASSUME NEW v \in Workers, Punctual(v)', HasForItself(v)
        PROVE  page[v] \in processing' /\ lease'[page[v]] # 0
    <3>1. /\ pc[v] \in Holding /\ page[v] \notin Overrun /\ page[v] \in Pages
          /\ page[v] \in processing /\ lease[page[v]] # 0
      BY <1>3, <2>2, PageOfHolder DEF Tick, Punctual, HasForItself
    <3>2. lease[page[v]] # 1 /\ lease[page[v]] \in Int
      BY <1>3, <3>1, LimitsAssumption DEF Tick, TypeOK, Absent
    <3>3. Dec(lease[page[v]]) # 0
      BY <3>1, <3>2 DEF Dec
    <3> QED BY <1>3, <3>1, <3>3 DEF Tick
  <2>3. \A q \in Pages \ Overrun : q \notin processing' => lease'[q] = Absent
    BY <1>3 DEF Tick, HolderInv, Dec, Absent
  <2>4. outcome' = outcome
    BY <1>3 DEF Tick, results
  <2> QED BY <2>1, <2>2, <2>3, <2>4, KeysChange
<1>4. ASSUME NEW batch \in SUBSET dead, Replay(batch) PROVE HolderInv'
  <2>1. UNCHANGED <<pc, page, processing, lease>>
    BY <1>4 DEF Replay
  <2>2. \A q \in Pages : outcome[q] # "none" => outcome'[q] = outcome[q]
    BY <1>4 DEF Replay, OnePlace, Settled, TypeOK
  <2>3. \A v \in Workers : HasForItself(v) => page[v] \in processing' /\ lease'[page[v]] # 0
    BY <2>1 DEF HasForItself
  <2>4. \A q \in Pages \ Overrun : q \notin processing' => lease'[q] = Absent
    BY <2>1 DEF HolderInv
  <2> QED BY <1>0, <2>1, <2>2, <2>3, <2>4, KeysChange
<1>5. ASSUME NEW w \in Workers, Loop(w) PROVE HolderInv'
  <2>1. CASE \E p \in queue : Take(w, p)
    BY <2>1, TakeHolder
  <2>2. CASE MaybeReap(w)
    <3>1. Reap /\ outcome' = outcome /\ \A v \in Workers : GoesOn(v)
      BY <2>2, StepsGoOn DEF MaybeReap, Reap, results
    <3>2. ASSUME NEW v \in Workers, Punctual(v)', HasForItself(v)
          PROVE  page[v] \in processing' /\ lease'[page[v]] # 0
      <4>1. page[v] \in processing /\ lease[page[v]] # 0 /\ page[v] \in Pages
        BY <3>2 DEF HasForItself, TypeOK
      <4> QED BY <3>1, <4>1, LimitsAssumption DEF Reap, Expired, Orphans, Ended
    <3>3. \A q \in Pages \ Overrun : q \notin processing' => lease'[q] = Absent
      BY <3>1 DEF Reap, Expired, Orphans, Ended, HolderInv, Absent
    <3> QED BY <3>1, <3>2, <3>3, KeysChange
  <2>3. CASE Register(w)
    <3>1. /\ \A v \in Workers : GoesOn(v)
          /\ UNCHANGED <<processing, outcome>> /\ page[w] \in Pages
          /\ lease' = [lease EXCEPT ![page[w]] = Visibility] /\ pc[w] = "taken"
      BY <2>3, StepsGoOn, PageOfHolder DEF Register, results, Holding
    <3>2. ASSUME NEW v \in Workers, Punctual(v)', HasForItself(v)
          PROVE  page[v] \in processing' /\ lease'[page[v]] # 0
      BY <3>1, <3>2, LimitsAssumption DEF HasForItself, TypeOK
    <3>3. page[w] \notin Overrun => page[w] \in processing
      BY <3>1 DEF HolderInv, Punctual, SettledAlready, HasForItself, Holding
    <3>4. \A q \in Pages \ Overrun : q \notin processing' => lease'[q] = Absent
      BY <3>1, <3>3 DEF HolderInv, TypeOK
    <3> QED BY <3>1, <3>2, <3>4, KeysChange
  <2>4. CASE Exit(w) \/ NotYet(w) \/ ReapFails(w) \/ TakeNothing(w)
    <3>1. UNCHANGED <<processing, lease, outcome>>
      BY <2>4 DEF Exit, NotYet, ReapFails, TakeNothing, keys, results
    <3> QED BY <2>4, <3>1, StepsGoOn, QuietHolder
  <2>5. CASE Read(w) \/ Write(w) \/ Raise(w) \/ CommitStale(w) \/ Unlink(w)
    <3>1. UNCHANGED <<processing, lease, outcome>>
      BY <2>5 DEF Read, Write, Raise, CommitStale, Unlink, keys, results
    <3> QED BY <2>5, <3>1, StepsGoOn, QuietHolder
  <2>6. CASE RedisFails(w) \/ Crash(w) \/ Stop(w) \/ Restart(w)
    <3>1. UNCHANGED <<processing, lease, outcome>>
      BY <2>6 DEF RedisFails, Crash, Stop, Restart, keys, results
    <3> QED BY <2>6, <3>1, StepsGoOn, QuietHolder
  <2> QED BY <1>5, <2>1, <2>2, <2>3, <2>4, <2>5, <2>6 DEF Loop
<1>6. ASSUME NEW w \in Workers, SettleStep(w) PROVE HolderInv'
  BY <1>6, SettleHolder
<1> QED BY <1>1, <1>2, <1>3, <1>4, <1>5, <1>6, Cases

(* A worker that settles within its lease has its page for itself, whatever *)
(* the others and the reaper do between the two commands of take.           *)
THEOREM PunctualHolderAlone == Spec => []OneHolder
<1>1. Init => HolderInv
  BY DEF Init, HolderInv, Punctual, Holding
<1>2. TypeOK /\ OnePlace /\ HolderInv /\ [Next]_vars => HolderInv'
  BY HolderStep
<1> QED BY <1>1, <1>2, HolderMeans, TypeCorrect, NoPageLost, PTL DEF Spec

-----------------------------------------------------------------------------
(* Links *)

(* What a document adds, and that nothing else touches these variables.     *)
LEMMA DocumentsOnly ==
  ASSUME [Next]_vars
  PROVE  \/ UNCHANGED <<docs, total, seen, frontier, recordings>>
         \/ \E w \in Workers : CommitDocument(w)
<1> USE DEF keys, results
<1>1. CASE UNCHANGED vars
  BY <1>1 DEF vars
<1>2. CASE Tick \/ \E p \in Pages : Push(p) \/ Expire(p)
  BY <1>2 DEF Tick, Push, Expire
<1>3. CASE \E batch \in SUBSET dead : Replay(batch)
  BY <1>3 DEF Replay
<1>4. ASSUME NEW w \in Workers, Loop(w) PROVE UNCHANGED <<docs, total, seen, frontier, recordings>>
  <2>1. CASE Exit(w) \/ MaybeReap(w) \/ NotYet(w) \/ ReapFails(w) \/ TakeNothing(w)
    BY <2>1 DEF Exit, MaybeReap, Reap, NotYet, ReapFails, TakeNothing
  <2>2. CASE \E p \in queue : Take(w, p)
    BY <2>2 DEF Take
  <2>3. CASE Register(w) \/ Read(w) \/ Write(w) \/ Raise(w) \/ CommitStale(w) \/ Unlink(w)
    BY <2>3 DEF Register, Read, Write, Raise, CommitStale, Unlink
  <2>4. CASE RedisFails(w) \/ Crash(w) \/ Stop(w) \/ Restart(w)
    BY <2>4 DEF RedisFails, Crash, Stop, Restart
  <2> QED BY <1>4, <2>1, <2>2, <2>3, <2>4 DEF Loop
<1>5. ASSUME NEW w \in Workers, DeadLetter(w) \/ CommitDuplicate(w)
      PROVE  UNCHANGED <<docs, total, seen, frontier, recordings>>
  BY <1>5 DEF DeadLetter, CommitDuplicate
<1> QED BY <1>1, <1>2, <1>3, <1>4, <1>5, Cases DEF SettleStep

LEMMA PageInHand ==
  ASSUME TypeOK, OnePlace, NEW w \in Workers, CommitDocument(w)
  PROVE  /\ page[w] \in Pages /\ page[w] \in processing /\ outcome[page[w]] = "none"
         /\ outcome' = [outcome EXCEPT ![page[w]] = "recorded"]
         /\ Recorded' = Recorded \cup {page[w]} /\ page[w] \notin Recorded
         /\ Repeated' = Repeated
<1>1. page[w] \in Pages /\ page[w] \in processing
  BY PageOfHolder DEF CommitDocument, Holding, Ours
<1>2. outcome[page[w]] = "none"
  BY <1>1 DEF OnePlace, Settled
<1>3. outcome' = [outcome EXCEPT ![page[w]] = "recorded"]
  BY DEF CommitDocument
<1> QED BY <1>1, <1>2, <1>3 DEF Recorded, Repeated, TypeOK

LEMMA LinksStep ==
  ASSUME TypeOK, OnePlace, LinksOnce, [Next]_vars
  PROVE  LinksOnce'
<1>1. CASE UNCHANGED <<docs, total, seen, frontier, recordings>>
  BY <1>1 DEF LinksOnce
<1>2. ASSUME NEW w \in Workers, CommitDocument(w) PROVE LinksOnce'
  <2>1. PICK p \in Pages : p = page[w]
    BY <1>2, PageInHand
  <2>2. /\ seen' = seen \cup LinksOf[p]
        /\ frontier' = frontier \cup ({JobOf[p]} \X NewLinks(p))
    BY <1>2, <2>1 DEF CommitDocument
  <2>3. NewLinks(p) = LinksOf[p] \ seen
    BY DEF NewLinks
  <2>4. \A c \in {JobOf[p]} \X NewLinks(p) : c[1] = JobOf[p] /\ c[2] \in NewLinks(p)
    OBVIOUS
  <2>5. ASSUME NEW l \in LinksOf[p] PROVE \E c \in frontier' : c[2] = l
    <3>1. CASE l \in seen
      BY <2>2, <3>1 DEF LinksOnce
    <3>2. CASE l \notin seen
      <4>1. <<JobOf[p], l>> \in {JobOf[p]} \X NewLinks(p)
        BY <2>3, <3>2
      <4>2. <<JobOf[p], l>> \in frontier' /\ <<JobOf[p], l>>[2] = l
        BY <2>2, <4>1
      <4> QED BY <4>2
    <3> QED BY <3>1, <3>2
  <2>6. seen' = {c[2] : c \in frontier'}
    <3>1. ASSUME NEW l \in seen' PROVE \E c \in frontier' : c[2] = l
      BY <2>2, <2>5, <3>1 DEF LinksOnce
    <3>2. ASSUME NEW c \in frontier' PROVE c[2] \in seen'
      BY <2>2, <2>3, <2>4, <3>2 DEF LinksOnce
    <3> QED BY <3>1, <3>2
  <2>7. ASSUME NEW c \in frontier', NEW d \in frontier', c[2] = d[2] PROVE c = d
    <3>1. CASE c \in frontier /\ d \in frontier
      BY <2>7, <3>1 DEF LinksOnce
    <3>2. CASE c \in frontier /\ d \notin frontier
      BY <2>2, <2>3, <2>4, <2>7, <3>2 DEF LinksOnce
    <3>3. CASE c \notin frontier /\ d \in frontier
      BY <2>2, <2>3, <2>4, <2>7, <3>3 DEF LinksOnce
    <3>4. CASE c \notin frontier /\ d \notin frontier
      BY <2>2, <2>4, <2>7, <3>4
    <3> QED BY <3>1, <3>2, <3>3, <3>4
  <2> QED BY <2>6, <2>7 DEF LinksOnce
<1> QED BY <1>1, <1>2, DocumentsOnly

(* A link is enqueued for one job only, once, and exactly when the seen     *)
(* filter did not know it.                                                  *)
THEOREM LinkEnqueuedOnce == Spec => []LinksOnce
<1>1. Init => LinksOnce
  BY DEF Init, LinksOnce
<1>2. TypeOK /\ OnePlace /\ LinksOnce /\ [Next]_vars => LinksOnce'
  BY LinksStep
<1> QED BY <1>1, <1>2, TypeCorrect, NoPageLost, PTL DEF Spec

-----------------------------------------------------------------------------
(* Documents *)

(* The list with a new document in front, before and after it is cut.       *)
LEMMA NewestShape ==
  ASSUME NEW s \in Seq(Pages), NEW p \in Pages
  PROVE  /\ Newest(<<p>> \o s) \in Seq(Pages)
         /\ Len(Newest(<<p>> \o s))
              = IF MaxDocs > 0 /\ Len(s) + 1 > MaxDocs THEN MaxDocs ELSE Len(s) + 1
         /\ \A i \in 1..Len(Newest(<<p>> \o s)) :
              Newest(<<p>> \o s)[i] = IF i = 1 THEN p ELSE s[i - 1]
<1> DEFINE u == <<p>> \o s
           n == IF Len(u) < MaxDocs THEN Len(u) ELSE MaxDocs
<1>1. /\ u \in Seq(Pages) /\ Len(u) = Len(s) + 1
      /\ \A i \in 1..Len(u) : u[i] = IF i = 1 THEN p ELSE s[i - 1]
  OBVIOUS
<1>2. n \in Int /\ n <= Len(u) /\ \A i \in 1..n : u[i] \in Pages
  BY <1>1, LimitsAssumption
<1>3. /\ SubSeq(u, 1, n) \in Seq(Pages)
      /\ Len(SubSeq(u, 1, n)) = IF 1 <= n THEN n - 1 + 1 ELSE 0
      /\ \A i \in 1..(n - 1 + 1) : SubSeq(u, 1, n)[i] = u[1 + i - 1]
  BY <1>2, SubSeqProperties
<1>4. CASE MaxDocs > 0
  <2>1. Newest(u) = SubSeq(u, 1, n)
    BY <1>4 DEF Newest
  <2>2. n >= 1 /\ n = IF Len(s) + 1 > MaxDocs THEN MaxDocs ELSE Len(s) + 1
    BY <1>1, <1>4, LimitsAssumption
  <2>3. 1..n \subseteq 1..Len(u)
    BY <1>2, <2>2, <1>1
  <2> HIDE DEF u, n
  <2>4. Len(Newest(u)) = n /\ \A i \in 1..n : Newest(u)[i] = u[i]
    BY <1>2, <1>3, <2>1, <2>2
  <2>5. Newest(u) \in Seq(Pages)
    BY <1>3, <2>1
  <2>6. \A i \in 1..n : Newest(u)[i] = IF i = 1 THEN p ELSE s[i - 1]
    BY <1>1, <2>3, <2>4
  <2> QED BY <1>4, <2>2, <2>4, <2>5, <2>6 DEF u
<1>5. CASE ~(MaxDocs > 0)
  BY <1>1, <1>5 DEF Newest
<1> QED BY <1>4, <1>5, LimitsAssumption

LEMMA DocsStep ==
  ASSUME TypeOK, OnePlace, DocsKept, [Next]_vars
  PROVE  DocsKept'
<1>2. CASE \E w \in Workers : CommitDocument(w)
  <2>1. PICK w \in Workers : CommitDocument(w)
    BY <1>2
  <2>2. PICK p \in Pages : p = page[w]
    BY <2>1, PageInHand
  <2>3. /\ docs' = Newest(<<p>> \o docs) /\ total' = total + 1
        /\ recordings' = Append(recordings, p)
    BY <2>1, <2>2 DEF CommitDocument
  <2>4. Recorded' = Recorded \cup {p} /\ p \notin Recorded
    BY <2>1, <2>2, PageInHand
  <2>5. /\ total \in Nat /\ total = Len(recordings) /\ total' = Len(recordings')
        /\ recordings'[total'] = p
        /\ \A i \in 1..total : recordings'[i] = recordings[i]
    BY <2>3 DEF DocsKept, TypeOK
  <2>6. /\ Len(docs') = IF MaxDocs > 0 /\ Len(docs) + 1 > MaxDocs THEN MaxDocs ELSE Len(docs) + 1
        /\ \A i \in 1..Len(docs') : docs'[i] = IF i = 1 THEN p ELSE docs[i - 1]
        /\ Len(docs) \in Nat
    <3>1. docs \in Seq(Pages) /\ Len(docs) \in Nat
      BY DEF TypeOK
    <3> HIDE DEF TypeOK
    <3>2. /\ Len(Newest(<<p>> \o docs))
               = IF MaxDocs > 0 /\ Len(docs) + 1 > MaxDocs THEN MaxDocs ELSE Len(docs) + 1
          /\ \A i \in 1..Len(Newest(<<p>> \o docs)) :
               Newest(<<p>> \o docs)[i] = IF i = 1 THEN p ELSE docs[i - 1]
      BY <3>1, NewestShape
    <3> QED BY <2>3, <3>1, <3>2
  <2>7. Len(docs') = IF MaxDocs > 0 /\ total' > MaxDocs THEN MaxDocs ELSE total'
    BY <2>3, <2>5, <2>6, LimitsAssumption DEF DocsKept
  <2>8. Recorded' = {recordings'[i] : i \in 1..total'}
    <3>1. Recorded = {recordings[i] : i \in 1..total}
      BY DEF DocsKept
    <3>2. {recordings'[i] : i \in 1..total'} = {recordings[i] : i \in 1..total} \cup {p}
      <4>1. 1..total' = (1..total) \cup {total'}
        BY <2>3, <2>5
      <4> QED BY <2>5, <4>1
    <3> QED BY <2>4, <3>1, <3>2
  <2>9. ASSUME NEW i \in 1..total', NEW k \in 1..total', recordings'[i] = recordings'[k]
        PROVE  i = k
    <3>1. \A m \in 1..total : recordings'[m] \in Recorded /\ recordings'[m] # p
      BY <2>4, <2>5 DEF DocsKept
    <3>2. (i = total' \/ i \in 1..total) /\ (k = total' \/ k \in 1..total)
      BY <2>3, <2>5
    <3>3. CASE i \in 1..total /\ k \in 1..total
      BY <2>5, <2>9, <3>3 DEF DocsKept
    <3> QED BY <2>5, <2>9, <3>1, <3>2, <3>3
  <2>10. ASSUME NEW i \in 1..Len(docs') PROVE docs'[i] = recordings'[total' + 1 - i]
    <3>1. CASE i = 1
      BY <2>3, <2>5, <2>6, <3>1
    <3>2. CASE i # 1
      <4>1. i - 1 \in 1..Len(docs) /\ docs'[i] = docs[i - 1]
        BY <2>6, <3>2, LimitsAssumption
      <4>2. docs[i - 1] = recordings[total + 1 - (i - 1)]
        BY <4>1 DEF DocsKept
      <4>3. Len(docs) <= total
        BY <2>5, LimitsAssumption DEF DocsKept
      <4>4. total + 1 - (i - 1) \in 1..total /\ total' + 1 - i = total + 1 - (i - 1)
        BY <2>3, <2>5, <2>6, <4>1, <4>3
      <4> QED BY <2>5, <4>1, <4>2, <4>4
    <3> QED BY <3>1, <3>2
  <2> QED BY <2>5, <2>7, <2>8, <2>9, <2>10 DEF DocsKept
<1>3. CASE UNCHANGED <<docs, total, seen, frontier, recordings>> /\ Recorded' = Recorded
  BY <1>3 DEF DocsKept
<1>4. Recorded' = Recorded \/ \E w \in Workers : CommitDocument(w)
  <2>1. CASE UNCHANGED vars
    BY <2>1 DEF vars, results, Recorded
  <2>2. CASE Tick \/ \E p \in Pages : Push(p) \/ Expire(p)
    BY <2>2 DEF Tick, Push, Expire, results, Recorded
  <2>3. CASE \E batch \in SUBSET dead : Replay(batch)
    BY <2>3 DEF Replay, OnePlace, Settled, TypeOK, Recorded
  <2>4. CASE \E w \in Workers : Loop(w)
    BY <2>4, LoopPlaces DEF Recorded
  <2>5. ASSUME NEW w \in Workers, DeadLetter(w) PROVE Recorded' = Recorded
    BY <2>5 DEF DeadLetter, results, Recorded
  <2>6. ASSUME NEW w \in Workers, CommitDuplicate(w) PROVE Recorded' = Recorded
    <3>1. page[w] \in Pages /\ outcome[page[w]] = "none"
      BY <2>6, PageOfHolder DEF CommitDuplicate, Holding, Ours, OnePlace, Settled
    <3> QED BY <2>6, <3>1 DEF CommitDuplicate, Recorded, TypeOK
  <2> QED BY <2>1, <2>2, <2>3, <2>4, <2>5, <2>6, Cases DEF SettleStep
<1> QED BY <1>2, <1>3, <1>4, DocumentsOnly

(* The document list holds what was recorded last, the newest first and     *)
(* without a copy, as long as the limit allows, and the total counts all    *)
(* that ever was.                                                           *)
THEOREM DocumentsKept == Spec => []DocsKept
<1>1. Init => DocsKept
  <2> SUFFICES ASSUME Init PROVE DocsKept
    OBVIOUS
  <2>1. Recorded = {}
    BY DEF Init, Recorded
  <2>2. total = 0 /\ docs = <<>> /\ recordings = <<>> /\ 1..total = {}
    BY DEF Init
  <2> QED BY <2>1, <2>2, LimitsAssumption DEF DocsKept
<1>2. TypeOK /\ OnePlace /\ DocsKept /\ [Next]_vars => DocsKept'
  BY DocsStep
<1> QED BY <1>1, <1>2, TypeCorrect, NoPageLost, PTL DEF Spec

-----------------------------------------------------------------------------
(* Books of a job *)

(* The hash h shows o things outstanding, d documents, r repeated pages and *)
(* l links, and is completed exactly when nothing is outstanding.           *)
Shows(h, o, d, r, l) ==
  /\ h.outstanding = o /\ h.parsed = d /\ h.duplicate = r /\ h.links = l
  /\ h.status = "completed" <=> o = 0

LEMMA FinishShows ==
  ASSUME NEW h \in JobHash, NEW o \in Nat, NEW d, NEW r, NEW l, Shows(h, o, d, r, l),
         NEW n \in Nat, n <= o
  PROVE  Shows(finish_job(h, n), o - n, d, r, l)
<1>1. CASE n = 0
  BY <1>1 DEF finish_job, Shows
<1>2. CASE n # 0
  <2> DEFINE s == IF h.outstanding - n <= 0 THEN "completed" ELSE h.status
  <2>1. s = "completed" <=> o - n = 0
    BY <1>2 DEF Shows
  <2>2. finish_job(h, n) = [h EXCEPT !.outstanding = @ - n, !.status = s]
    BY <1>2 DEF finish_job
  <2> HIDE DEF s
  <2> QED BY <2>1, <2>2 DEF Shows, JobHash
<1> QED BY <1>1, <1>2

LEMMA CountInShows ==
  ASSUME NEW h \in JobHash, NEW o \in Nat, NEW d, NEW r, NEW l, Shows(h, o, d, r, l),
         NEW n \in Nat
  PROVE  Shows(count_in(h, n), o + n, d, r, l)
<1>1. CASE n = 0
  BY <1>1 DEF count_in, Shows
<1>2. CASE n # 0
  <2>1. count_in(h, n) = [h EXCEPT !.outstanding = @ + n, !.status = "running"]
    BY <1>2 DEF count_in
  <2>2. o + n # 0
    BY <1>2
  <2> QED BY <2>1, <2>2 DEF Shows, JobHash
<1> QED BY <1>1, <1>2

LEMMA SettledShows ==
  ASSUME NEW h \in JobHash, NEW o \in Nat, NEW d \in Nat, NEW r \in Nat, NEW l \in Nat,
         Shows(h, o, d, r, l), NEW n \in Nat, o >= 1
  PROVE  /\ Shows(RecordedJob(h, n), o + n - 1, d + 1, r, l + n)
         /\ Shows(DuplicateJob(h), o - 1, d, r + 1, l)
<1> DEFINE a == [h EXCEPT !.parsed = @ + 1, !.links = @ + n]
           b == [h EXCEPT !.duplicate = @ + 1]
<1>0. h.parsed + 1 \in Nat /\ h.links + n \in Nat /\ h.duplicate + 1 \in Nat
  BY DEF JobHash
<1>1. a \in JobHash /\ Shows(a, o, d + 1, r, l + n)
  <2>1. a \in JobHash
    BY <1>0 DEF JobHash
  <2>2. Shows(a, o, d + 1, r, l + n)
    BY DEF JobHash, Shows
  <2> QED BY <2>1, <2>2
<1>2. b \in JobHash /\ Shows(b, o, d, r + 1, l)
  <2>1. b \in JobHash
    BY <1>0 DEF JobHash
  <2>2. Shows(b, o, d, r + 1, l)
    BY DEF JobHash, Shows
  <2> QED BY <2>1, <2>2
<1>3. RecordedJob(h, n) = finish_job(count_in(a, n), 1) /\ DuplicateJob(h) = finish_job(b, 1)
  BY DEF RecordedJob, DuplicateJob
<1> HIDE DEF a, b
<1>4. count_in(a, n) \in JobHash /\ Shows(count_in(a, n), o + n, d + 1, r, l + n)
  BY <1>1, CountInShows, FinishJobType
<1>5. o + n \in Nat /\ 1 <= o + n /\ 1 \in Nat
  OBVIOUS
<1>6. Shows(finish_job(count_in(a, n), 1), o + n - 1, d + 1, r, l + n)
  BY <1>4, <1>5, FinishShows
<1>7. Shows(finish_job(b, 1), o - 1, d, r + 1, l)
  BY <1>2, <1>5, FinishShows
<1> QED BY <1>3, <1>6, <1>7

(* The pages of a job in a set that gains or loses some. *)
LEMMA CountChange ==
  ASSUME NEW S \in SUBSET Pages, NEW T \in SUBSET Pages, NEW j
  PROVE  /\ S \cap T = {} => Cardinality(OfJob(S \cup T, j))
                               = Cardinality(OfJob(S, j)) + Cardinality(OfJob(T, j))
         /\ T \subseteq S => /\ Cardinality(OfJob(S \ T, j))
                                  = Cardinality(OfJob(S, j)) - Cardinality(OfJob(T, j))
                             /\ Cardinality(OfJob(T, j)) <= Cardinality(OfJob(S, j))
<1> DEFINE s == OfJob(S, j)
           t == OfJob(T, j)
<1>1. IsFiniteSet(s) /\ IsFiniteSet(t) /\ Cardinality(s) \in Nat /\ Cardinality(t) \in Nat
  BY Counts
<1>2. OfJob(S \cup T, j) = s \cup t /\ OfJob(S \ T, j) = s \ t
  BY DEF OfJob
<1>3. (S \cap T = {} => s \cap t = {}) /\ (T \subseteq S => s \cap t = t /\ t \in SUBSET s)
  BY DEF OfJob
<1> HIDE DEF s, t
<1>4. S \cap T = {} => Cardinality(s \cup t) = Cardinality(s) + Cardinality(t)
  BY <1>1, <1>3, FS_Union, FS_EmptySet
<1>5. T \subseteq S => /\ Cardinality(s \ t) = Cardinality(s) - Cardinality(t)
                       /\ Cardinality(t) <= Cardinality(s)
  BY <1>1, <1>3, FS_Difference, FS_Subset
<1> QED BY <1>2, <1>4, <1>5 DEF s, t

LEMMA CountOne ==
  ASSUME NEW p \in Pages, NEW j
  PROVE  Cardinality(OfJob({p}, j)) = IF j = JobOf[p] THEN 1 ELSE 0
<1>1. OfJob({p}, j) = IF j = JobOf[p] THEN {p} ELSE {}
  BY DEF OfJob
<1> QED BY <1>1, FS_Singleton, FS_EmptySet

(* The pages that are not settled nor dead letters. *)
OpenPages == coming \cup queue \cup processing

(* What every step does to the pages and the job hashes. *)
LEMMA BooksCases ==
  ASSUME TypeOK, OnePlace, [Next]_vars
  PROVE  \/ UNCHANGED <<jobs, frontier>> /\ UNCHANGED <<OpenPages, Recorded, Repeated>>
         \/ /\ UNCHANGED frontier /\ UNCHANGED <<Recorded, Repeated>>
            /\ \E S \in SUBSET Pages :
                 /\ OpenPages \cap S = {} /\ OpenPages' = OpenPages \cup S
                 /\ jobs' = [j \in Jobs |-> count_in(jobs[j], Cardinality(OfJob(S, j)))]
         \/ /\ UNCHANGED frontier /\ UNCHANGED <<Recorded, Repeated>>
            /\ \E S \in SUBSET OpenPages :
                 OpenPages' = OpenPages \ S /\ jobs' = Finish(S)
         \/ /\ UNCHANGED frontier /\ UNCHANGED Recorded
            /\ \E p \in OpenPages \cap Pages :
                 /\ OpenPages' = OpenPages \ {p}
                 /\ Repeated' = Repeated \cup {p} /\ p \notin Repeated
                 /\ jobs' = [jobs EXCEPT ![JobOf[p]] = DuplicateJob(@)]
         \/ /\ UNCHANGED Repeated
            /\ \E p \in OpenPages \cap Pages :
                 /\ OpenPages' = OpenPages \ {p}
                 /\ Recorded' = Recorded \cup {p} /\ p \notin Recorded
                 /\ frontier' = frontier \cup ({JobOf[p]} \X NewLinks(p))
                 /\ jobs' = [jobs EXCEPT ![JobOf[p]]
                               = RecordedJob(@, Cardinality(NewLinks(p)))]
<1> USE DEF OpenPages
<1>1. CASE UNCHANGED vars
  BY <1>1 DEF vars, keys, results, Recorded, Repeated
<1>2. CASE Tick \/ \E p \in Pages : Push(p) \/ Expire(p)
  BY <1>2 DEF Tick, Push, Expire, results, Recorded, Repeated
<1>3. ASSUME NEW batch \in SUBSET dead, Replay(batch)
      PROVE  /\ UNCHANGED frontier /\ UNCHANGED <<Recorded, Repeated>>
             /\ \E S \in SUBSET Pages :
                  /\ OpenPages \cap S = {} /\ OpenPages' = OpenPages \cup S
                  /\ jobs' = [j \in Jobs |-> count_in(jobs[j], Cardinality(OfJob(S, j)))]
  <2>1. \A p \in batch \ payload : p \in Pages /\ outcome[p] = "none"
    BY DEF OnePlace, Settled, TypeOK
  <2>2. Recorded' = Recorded /\ Repeated' = Repeated /\ frontier' = frontier
    BY <1>3, <2>1 DEF Replay, TypeOK, Recorded, Repeated
  <2>3. PICK S \in SUBSET Pages : S = batch \cap payload
    BY DEF TypeOK
  <2>4. OpenPages \cap S = {}
    BY <2>3 DEF OnePlace
  <2>5. /\ OpenPages' = OpenPages \cup S
        /\ jobs' = [j \in Jobs |-> count_in(jobs[j], Cardinality(OfJob(S, j)))]
    BY <1>3, <2>3 DEF Replay
  <2> QED BY <2>2, <2>4, <2>5
<1>4. ASSUME NEW w \in Workers, Loop(w)
      PROVE  /\ UNCHANGED frontier /\ UNCHANGED <<Recorded, Repeated>>
             /\ \/ UNCHANGED jobs /\ UNCHANGED OpenPages
                \/ \E S \in SUBSET OpenPages :
                     OpenPages' = OpenPages \ S /\ jobs' = Finish(S)
  <2>1. UNCHANGED <<Recorded, Repeated>> /\ coming' = coming
    BY <1>4, LoopPlaces DEF Recorded, Repeated
  <2>2. CASE MaybeReap(w)
    <3>1. Reap /\ frontier' = frontier
      BY <2>2 DEF MaybeReap, Reap, results
    <3>2. Exhausted \subseteq processing /\ Exhausted \subseteq Expired /\ Expired \subseteq processing
      BY DEF Exhausted, Expired
    <3>3. OpenPages' = OpenPages \ Exhausted /\ jobs' = Finish(Exhausted)
      BY <2>1, <3>1, <3>2 DEF Reap, Requeued, OnePlace
    <3> QED BY <2>1, <3>1, <3>2, <3>3
  <2>3. CASE \E p \in queue : Take(w, p)
    BY <2>1, <2>3 DEF Take, results
  <2>4. CASE Exit(w) \/ NotYet(w) \/ ReapFails(w) \/ TakeNothing(w)
    BY <2>1, <2>4 DEF Exit, NotYet, ReapFails, TakeNothing, keys, results
  <2>5. CASE Register(w) \/ Read(w) \/ Write(w) \/ Raise(w) \/ CommitStale(w) \/ Unlink(w)
    BY <2>1, <2>5 DEF Register, Read, Write, Raise, CommitStale, Unlink, keys, results
  <2>6. CASE RedisFails(w) \/ Crash(w) \/ Stop(w) \/ Restart(w)
    BY <2>1, <2>6 DEF RedisFails, Crash, Stop, Restart, keys, results
  <2> QED BY <1>4, <2>2, <2>3, <2>4, <2>5, <2>6 DEF Loop
<1>5. ASSUME NEW w \in Workers, DeadLetter(w)
      PROVE  /\ UNCHANGED frontier /\ UNCHANGED <<Recorded, Repeated>>
             /\ \/ UNCHANGED jobs /\ UNCHANGED OpenPages
                \/ \E S \in SUBSET OpenPages :
                     OpenPages' = OpenPages \ S /\ jobs' = Finish(S)
  <2>1. UNCHANGED frontier /\ UNCHANGED <<Recorded, Repeated>>
    BY <1>5 DEF DeadLetter, results, Recorded, Repeated
  <2>2. CASE Ours(page[w])
    <3>1. PICK p \in processing : p = page[w]
      BY <2>2 DEF Ours
    <3>2. /\ processing' = processing \ {p} /\ jobs' = Finish({p})
          /\ queue' = queue /\ coming' = coming
      BY <1>5, <2>2, <3>1 DEF DeadLetter, Acknowledge
    <3>3. OpenPages' = OpenPages \ {p} /\ {p} \in SUBSET OpenPages
      BY <3>1, <3>2 DEF OnePlace
    <3> QED BY <2>1, <3>2, <3>3
  <2>3. CASE ~Ours(page[w])
    BY <1>5, <2>1, <2>3 DEF DeadLetter
  <2> QED BY <2>2, <2>3
<1>6. ASSUME NEW w \in Workers, CommitDuplicate(w)
      PROVE  /\ UNCHANGED frontier /\ UNCHANGED Recorded
             /\ \E p \in OpenPages \cap Pages :
                  /\ OpenPages' = OpenPages \ {p}
                  /\ Repeated' = Repeated \cup {p} /\ p \notin Repeated
                  /\ jobs' = [jobs EXCEPT ![JobOf[p]] = DuplicateJob(@)]
  <2>1. PICK p \in processing : p = page[w] /\ p \in Pages
    BY <1>6 DEF CommitDuplicate, Ours, TypeOK
  <2>2. outcome[p] = "none"
    BY <2>1 DEF OnePlace, Settled
  <2>3. /\ processing' = processing \ {p} /\ queue' = queue /\ coming' = coming
        /\ outcome' = [outcome EXCEPT ![p] = "duplicate"] /\ frontier' = frontier
        /\ jobs' = [jobs EXCEPT ![JobOf[p]] = DuplicateJob(@)]
    BY <1>6, <2>1 DEF CommitDuplicate, Acknowledge
  <2>4. Recorded' = Recorded /\ Repeated' = Repeated \cup {p} /\ p \notin Repeated
    BY <2>1, <2>2, <2>3 DEF Recorded, Repeated, TypeOK
  <2>5. OpenPages' = OpenPages \ {p} /\ p \in OpenPages
    BY <2>1, <2>3 DEF OnePlace
  <2> QED BY <2>1, <2>3, <2>4, <2>5
<1>7. ASSUME NEW w \in Workers, CommitDocument(w)
      PROVE  /\ UNCHANGED Repeated
             /\ \E p \in OpenPages \cap Pages :
                 /\ OpenPages' = OpenPages \ {p}
                 /\ Recorded' = Recorded \cup {p} /\ p \notin Recorded
                 /\ frontier' = frontier \cup ({JobOf[p]} \X NewLinks(p))
                 /\ jobs' = [jobs EXCEPT ![JobOf[p]]
                               = RecordedJob(@, Cardinality(NewLinks(p)))]
  <2>1. PICK p \in Pages : p = page[w] /\ p \in processing
    BY <1>7, PageInHand
  <2>2. Recorded' = Recorded \cup {p} /\ p \notin Recorded /\ Repeated' = Repeated
    BY <1>7, <2>1, PageInHand
  <2>3. /\ processing' = processing \ {p} /\ queue' = queue /\ coming' = coming
        /\ frontier' = frontier \cup ({JobOf[p]} \X NewLinks(p))
        /\ jobs' = [jobs EXCEPT ![JobOf[p]] = RecordedJob(@, Cardinality(NewLinks(p)))]
    BY <1>7, <2>1 DEF CommitDocument, Acknowledge
  <2>4. OpenPages' = OpenPages \ {p} /\ p \in OpenPages
    BY <2>1, <2>3 DEF OnePlace
  <2> QED BY <2>1, <2>2, <2>3, <2>4
<1> HIDE DEF OpenPages
<1> QED BY <1>1, <1>2, <1>3, <1>4, <1>5, <1>6, <1>7, Cases DEF SettleStep

(* JobBooks for one job, and that it has finitely many children. *)
BooksOf(j) ==
  /\ IsFiniteSet(ChildrenOf(j))
  /\ Shows(jobs[j], Cardinality(OfJob(OpenPages, j)) + Cardinality(ChildrenOf(j)),
           Cardinality(OfJob(Recorded, j)), Cardinality(OfJob(Repeated, j)),
           Cardinality(ChildrenOf(j)))
AllBooks == \A j \in {JobOf[p] : p \in Pages} : BooksOf(j)

LEMMA BooksMean == AllBooks => JobBooks
BY DEF AllBooks, BooksOf, JobBooks, Shows, OpenPages

LEMMA BookTypes ==
  ASSUME TypeOK, OnePlace, NEW j, IsFiniteSet(ChildrenOf(j))
  PROVE  /\ OpenPages \in SUBSET Pages /\ Recorded \in SUBSET Pages /\ Repeated \in SUBSET Pages
         /\ Cardinality(OfJob(OpenPages, j)) \in Nat /\ Cardinality(ChildrenOf(j)) \in Nat
         /\ Cardinality(OfJob(Recorded, j)) \in Nat /\ Cardinality(OfJob(Repeated, j)) \in Nat
<1>1. /\ OpenPages \in SUBSET Pages /\ Recorded \in SUBSET Pages
      /\ Repeated \in SUBSET Pages
  BY DEF TypeOK, OpenPages, Recorded, Repeated
<1>2. Cardinality(ChildrenOf(j)) \in Nat
  BY FS_CardinalityType
<1> QED BY <1>1, <1>2, Counts

(* The children of a job after a document of job k adds links no child has. *)
LEMMA ChildrenAdded ==
  ASSUME TypeOK, LinksOnce, NEW p \in Pages, NEW j, IsFiniteSet(ChildrenOf(j)),
         frontier' = frontier \cup ({JobOf[p]} \X NewLinks(p))
  PROVE  /\ IsFiniteSet(ChildrenOf(j)')
         /\ Cardinality(ChildrenOf(j)') = IF j = JobOf[p]
              THEN Cardinality(ChildrenOf(j)) + Cardinality(NewLinks(p))
              ELSE Cardinality(ChildrenOf(j))
<1> DEFINE new == {JobOf[p]} \X NewLinks(p)
<1>1. CASE j = JobOf[p]
  <2>1. ChildrenOf(j)' = ChildrenOf(j) \cup new
    BY <1>1 DEF ChildrenOf
  <2>2. ChildrenOf(j) \cap new = {}
    BY DEF ChildrenOf, LinksOnce, NewLinks
  <2>3. IsFiniteSet(NewLinks(p)) /\ Cardinality(NewLinks(p)) \in Nat
    BY LinkCounts
  <2>4. IsFiniteSet({JobOf[p]}) /\ Cardinality({JobOf[p]}) = 1
    BY FS_Singleton
  <2>5. IsFiniteSet(new) /\ Cardinality(new) = 1 * Cardinality(NewLinks(p))
    BY <2>3, <2>4, FS_Product
  <2>6. Cardinality(ChildrenOf(j)) \in Nat
    BY FS_CardinalityType
  <2> HIDE DEF new
  <2>7. /\ IsFiniteSet(ChildrenOf(j) \cup new)
        /\ Cardinality(ChildrenOf(j) \cup new)
             = Cardinality(ChildrenOf(j)) + Cardinality(new) - Cardinality({})
    BY <2>2, <2>5, FS_Union
  <2>8. Cardinality({}) = 0
    BY FS_EmptySet
  <2> QED BY <1>1, <2>1, <2>3, <2>5, <2>6, <2>7, <2>8
<1>2. CASE j # JobOf[p]
  <2>1. ChildrenOf(j)' = ChildrenOf(j)
    BY <1>2 DEF ChildrenOf
  <2> QED BY <1>2, <2>1
<1> QED BY <1>1, <1>2

LEMMA BooksStep ==
  ASSUME TypeOK, OnePlace, LinksOnce, AllBooks, [Next]_vars
  PROVE  AllBooks'
<1> SUFFICES ASSUME NEW j \in {JobOf[p] : p \in Pages} PROVE BooksOf(j)'
  BY DEF AllBooks
<1>0. /\ j \in Jobs /\ jobs[j] \in JobHash /\ BooksOf(j) /\ jobs \in [Jobs -> JobHash]
      /\ IsFiniteSet(ChildrenOf(j))
  <2>1. j \in Jobs
    BY PagesAssumption
  <2>2. jobs \in [Jobs -> JobHash]
    BY DEF TypeOK
  <2>3. BooksOf(j)
    BY DEF AllBooks
  <2> QED BY <2>1, <2>2, <2>3 DEF BooksOf
<1> DEFINE o == Cardinality(OfJob(OpenPages, j))
           c == Cardinality(ChildrenOf(j))
           d == Cardinality(OfJob(Recorded, j))
           r == Cardinality(OfJob(Repeated, j))
<1>1. /\ o \in Nat /\ c \in Nat /\ d \in Nat /\ r \in Nat
      /\ OpenPages \in SUBSET Pages /\ Recorded \in SUBSET Pages /\ Repeated \in SUBSET Pages
      /\ Shows(jobs[j], o + c, d, r, c) /\ o + c \in Nat
  BY <1>0, BookTypes DEF BooksOf
<1>2. CASE UNCHANGED <<jobs, frontier>> /\ UNCHANGED <<OpenPages, Recorded, Repeated>>
  BY <1>0, <1>2 DEF BooksOf, ChildrenOf
<1>3. ASSUME NEW S \in SUBSET Pages, UNCHANGED frontier, UNCHANGED <<Recorded, Repeated>>,
             OpenPages \cap S = {}, OpenPages' = OpenPages \cup S,
             jobs' = [k \in Jobs |-> count_in(jobs[k], Cardinality(OfJob(S, k)))]
      PROVE  BooksOf(j)'
  <2> DEFINE n == Cardinality(OfJob(S, j))
  <2>1. n \in Nat /\ Cardinality(OfJob(OpenPages', j)) = o + n
    <3>1. n \in Nat
      BY Counts
    <3>2. Cardinality(OfJob(OpenPages \cup S, j)) = o + n
      BY <1>1, <1>3, CountChange
    <3> QED BY <1>3, <3>1, <3>2
  <2>2. jobs'[j] = count_in(jobs[j], n) /\ ChildrenOf(j)' = ChildrenOf(j)
    BY <1>0, <1>3 DEF ChildrenOf
  <2> HIDE DEF n, o, c, d, r
  <2>3. Shows(count_in(jobs[j], n), (o + c) + n, d, r, c)
    BY <1>0, <1>1, <2>1, CountInShows
  <2>4. (o + c) + n = (o + n) + c
    BY <1>1, <2>1
  <2>5. Shows(jobs'[j], (o + n) + c, d, r, c)
    BY <2>2, <2>3, <2>4
  <2> QED BY <1>0, <1>3, <2>1, <2>2, <2>5 DEF BooksOf, o, c, d, r
<1>4. ASSUME NEW S \in SUBSET OpenPages, UNCHANGED frontier, UNCHANGED <<Recorded, Repeated>>,
             OpenPages' = OpenPages \ S, jobs' = Finish(S)
      PROVE  BooksOf(j)'
  <2> DEFINE n == Cardinality(OfJob(S, j))
  <2>0. S \in SUBSET Pages
    BY <1>1
  <2>1. n \in Nat /\ Cardinality(OfJob(OpenPages', j)) = o - n /\ n <= o
    BY <1>1, <1>4, <2>0, Counts, CountChange
  <2>2. jobs'[j] = finish_job(jobs[j], n) /\ ChildrenOf(j)' = ChildrenOf(j)
    BY <1>0, <1>4 DEF ChildrenOf, Finish
  <2> HIDE DEF n, o, c, d, r
  <2>3. Shows(finish_job(jobs[j], n), (o + c) - n, d, r, c)
    BY <1>0, <1>1, <2>1, FinishShows
  <2>4. (o + c) - n = (o - n) + c
    BY <1>1, <2>1
  <2>5. Shows(jobs'[j], (o - n) + c, d, r, c)
    BY <2>2, <2>3, <2>4
  <2> QED BY <1>0, <1>4, <2>1, <2>2, <2>5 DEF BooksOf, o, c, d, r
<1>5. ASSUME NEW p \in OpenPages \cap Pages, OpenPages' = OpenPages \ {p}
      PROVE  /\ j = JobOf[p] => o >= 1 /\ Cardinality(OfJob(OpenPages', j)) = o - 1
             /\ j # JobOf[p] => Cardinality(OfJob(OpenPages', j)) = o
  <2>1. {p} \in SUBSET Pages /\ {p} \subseteq OpenPages
    OBVIOUS
  <2>2. /\ Cardinality(OfJob(OpenPages', j)) = o - Cardinality(OfJob({p}, j))
        /\ Cardinality(OfJob({p}, j)) <= o
    BY <1>1, <1>5, <2>1, CountChange
  <2>3. Cardinality(OfJob({p}, j)) = IF j = JobOf[p] THEN 1 ELSE 0
    BY CountOne
  <2> HIDE DEF o
  <2>4. CASE j = JobOf[p]
    BY <1>1, <2>2, <2>3, <2>4
  <2>5. CASE j # JobOf[p]
    BY <1>1, <2>2, <2>3, <2>5
  <2> QED BY <2>4, <2>5
<1>6. ASSUME NEW S \in SUBSET Pages, NEW p \in Pages, p \notin S
      PROVE  Cardinality(OfJob(S \cup {p}, j))
               = IF j = JobOf[p] THEN Cardinality(OfJob(S, j)) + 1 ELSE Cardinality(OfJob(S, j))
  <2>1. {p} \in SUBSET Pages /\ S \cap {p} = {}
    BY <1>6
  <2>2. Cardinality(OfJob(S \cup {p}, j))
          = Cardinality(OfJob(S, j)) + Cardinality(OfJob({p}, j))
    BY <2>1, CountChange
  <2>3. Cardinality(OfJob({p}, j)) = IF j = JobOf[p] THEN 1 ELSE 0
    BY CountOne
  <2>4. Cardinality(OfJob(S, j)) \in Nat
    BY Counts
  <2>5. CASE j = JobOf[p]
    BY <2>2, <2>3, <2>5
  <2>6. CASE j # JobOf[p]
    BY <2>2, <2>3, <2>4, <2>6
  <2> QED BY <2>5, <2>6
<1>7. ASSUME NEW p \in OpenPages \cap Pages, UNCHANGED frontier, UNCHANGED Recorded,
             OpenPages' = OpenPages \ {p},
             Repeated' = Repeated \cup {p}, p \notin Repeated,
             jobs' = [jobs EXCEPT ![JobOf[p]] = DuplicateJob(@)]
      PROVE  BooksOf(j)'
  <2>0. Repeated \in SUBSET Pages /\ p \in Pages /\ ChildrenOf(j)' = ChildrenOf(j)
    BY <1>1, <1>7 DEF ChildrenOf
  <2>1. CASE j = JobOf[p]
    <3>1. jobs'[j] = DuplicateJob(jobs[j])
      BY <1>0, <1>7, <2>1
    <3>2. /\ o >= 1 /\ Cardinality(OfJob(OpenPages', j)) = o - 1
          /\ Cardinality(OfJob(Repeated', j)) = r + 1
      BY <1>5, <1>6, <1>7, <2>0, <2>1
    <3> HIDE DEF o, c, d, r
    <3>3. Shows(DuplicateJob(jobs[j]), (o + c) - 1, d, r + 1, c)
      <4>1. o + c >= 1 /\ 0 \in Nat
        BY <1>1, <3>2
      <4> QED BY <1>0, <1>1, <4>1, SettledShows
    <3>4. (o + c) - 1 = (o - 1) + c
      BY <1>1
    <3>5. Shows(jobs'[j], (o - 1) + c, d, r + 1, c)
      BY <3>1, <3>3, <3>4
    <3> QED BY <1>0, <1>7, <2>0, <3>2, <3>5 DEF BooksOf, o, c, d, r
  <2>2. CASE j # JobOf[p]
    <3>1. jobs'[j] = jobs[j]
      BY <1>0, <1>7, <2>2
    <3>2. Cardinality(OfJob(OpenPages', j)) = o /\ Cardinality(OfJob(Repeated', j)) = r
      BY <1>5, <1>6, <1>7, <2>0, <2>2
    <3> QED BY <1>0, <1>1, <1>7, <2>0, <3>1, <3>2 DEF BooksOf
  <2> QED BY <2>1, <2>2
<1>8. ASSUME NEW p \in OpenPages \cap Pages, UNCHANGED Repeated,
             OpenPages' = OpenPages \ {p},
             Recorded' = Recorded \cup {p}, p \notin Recorded,
             frontier' = frontier \cup ({JobOf[p]} \X NewLinks(p)),
             jobs' = [jobs EXCEPT ![JobOf[p]] = RecordedJob(@, Cardinality(NewLinks(p)))]
      PROVE  BooksOf(j)'
  <2> DEFINE n == Cardinality(NewLinks(p))
  <2>0. Recorded \in SUBSET Pages /\ p \in Pages /\ n \in Nat /\ IsFiniteSet(ChildrenOf(j)')
    BY <1>0, <1>1, <1>8, LinkCounts, ChildrenAdded
  <2>1. CASE j = JobOf[p]
    <3>1. jobs'[j] = RecordedJob(jobs[j], n)
      BY <1>0, <1>8, <2>1
    <3>2. /\ o >= 1 /\ Cardinality(OfJob(OpenPages', j)) = o - 1
          /\ Cardinality(OfJob(Recorded', j)) = d + 1
          /\ Cardinality(ChildrenOf(j)') = c + n
      BY <1>0, <1>5, <1>6, <1>8, <2>0, <2>1, ChildrenAdded
    <3> HIDE DEF n, o, c, d, r
    <3>3. Shows(RecordedJob(jobs[j], n), (o + c) + n - 1, d + 1, r, c + n)
      <4>1. o + c >= 1
        BY <1>1, <3>2
      <4> QED BY <1>0, <1>1, <2>0, <4>1, SettledShows
    <3>4. (o + c) + n - 1 = (o - 1) + (c + n)
      BY <1>1, <2>0
    <3>5. Shows(jobs'[j], (o - 1) + (c + n), d + 1, r, c + n)
      BY <3>1, <3>3, <3>4
    <3> QED BY <1>0, <1>8, <2>0, <3>2, <3>5 DEF BooksOf, r
  <2>2. CASE j # JobOf[p]
    <3>1. jobs'[j] = jobs[j]
      BY <1>0, <1>8, <2>2
    <3>2. /\ Cardinality(OfJob(OpenPages', j)) = o /\ Cardinality(OfJob(Recorded', j)) = d
          /\ Cardinality(ChildrenOf(j)') = c
      BY <1>0, <1>5, <1>6, <1>8, <2>0, <2>2, ChildrenAdded
    <3> QED BY <1>0, <1>1, <1>8, <2>0, <3>1, <3>2 DEF BooksOf
  <2> QED BY <2>1, <2>2
<1> HIDE DEF o, c, d, r
<1> QED BY <1>2, <1>3, <1>4, <1>7, <1>8, BooksCases

LEMMA InitBooks == Init => AllBooks
<1> SUFFICES ASSUME Init, NEW j \in {JobOf[p] : p \in Pages} PROVE BooksOf(j)
  BY DEF AllBooks
<1>1. OpenPages = Pages /\ Recorded = {} /\ Repeated = {} /\ ChildrenOf(j) = {}
  BY DEF Init, OpenPages, Recorded, Repeated, ChildrenOf
<1>2. j \in Jobs /\ OfJob({}, j) = {}
  BY PagesAssumption DEF OfJob
<1>3. Cardinality({}) = 0 /\ IsFiniteSet({})
  BY FS_EmptySet
<1>4. Cardinality(OfJob(Pages, j)) \in Nat /\ Cardinality(OfJob(Pages, j)) # 0
  <2>1. PICK p \in Pages : j = JobOf[p]
    OBVIOUS
  <2>2. p \in OfJob(Pages, j) /\ IsFiniteSet(OfJob(Pages, j))
    BY <2>1, Counts DEF OfJob
  <2> HIDE DEF Init
  <2>3. OfJob(Pages, j) # {}
    BY <2>2
  <2> QED BY <2>2, <2>3, Counts, FS_EmptySet
<1>5. jobs[j] = [outstanding |-> Cardinality(OfJob(Pages, j)), status |-> "running",
                 parsed |-> 0, duplicate |-> 0, links |-> 0]
  BY <1>2 DEF Init
<1>6. /\ Cardinality(OfJob(OpenPages, j)) = Cardinality(OfJob(Pages, j))
      /\ Cardinality(OfJob(Recorded, j)) = 0 /\ Cardinality(OfJob(Repeated, j)) = 0
      /\ Cardinality(ChildrenOf(j)) = 0 /\ IsFiniteSet(ChildrenOf(j))
  BY <1>1, <1>2, <1>3
<1> DEFINE n == Cardinality(OfJob(Pages, j))
<1>7. n \in Nat /\ n # 0 /\ n + 0 = n
  BY <1>4
<1>8. /\ jobs[j].outstanding = n /\ jobs[j].parsed = 0 /\ jobs[j].duplicate = 0
      /\ jobs[j].links = 0 /\ jobs[j].status = "running"
  BY <1>5
<1> HIDE DEF Init, n
<1>9. Shows(jobs[j], n + 0, 0, 0, 0)
  BY <1>7, <1>8 DEF Shows
<1> QED BY <1>6, <1>9 DEF BooksOf, n

(* However commits, the reaper, dead-lettering and replays interleave, and  *)
(* whichever calls fail, the hash of a job counts its pages, documents,     *)
(* duplicates and links as they are, and completes exactly when nothing of  *)
(* it is outstanding.                                                       *)
THEOREM JobBooksKept == Spec => []JobBooks
<1>1. TypeOK /\ OnePlace /\ LinksOnce /\ AllBooks /\ [Next]_vars => AllBooks'
  BY BooksStep
<1> QED BY <1>1, InitBooks, BooksMean, TypeCorrect, NoPageLost, LinkEnqueuedOnce, PTL
        DEF Spec

=============================================================================
