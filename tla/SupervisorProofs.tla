-------------------------- MODULE SupervisorProofs --------------------------
(***************************************************************************)
(* What TLAPS proves of the terminal UI, for every number of workers, every *)
(* page limit and any number of keys, documents and tries.                  *)
(***************************************************************************)
EXTENDS Supervisor, FiniteSetTheorems, TLAPS

-----------------------------------------------------------------------------
(* Missions *)

PageLimits == Limits \cup {NoLimit, 1, DefaultLimit}

LEMMA MissionChanged ==
  ASSUME NEW m \in Mission, NEW v \in BOOLEAN
  PROVE  /\ [m EXCEPT !.url = v] \in Mission /\ [m EXCEPT !.file = v] \in Mission
         /\ [m EXCEPT !.flush = v] \in Mission /\ [m EXCEPT !.valid = v] \in Mission
         /\ [m EXCEPT !.depth = 2] \in Mission
BY DEF Mission

LEMMA MissionLimited ==
  ASSUME NEW m \in Mission, NEW n \in PageLimits
  PROVE  [m EXCEPT !.max_pages = n] \in Mission
BY DEF Mission, PageLimits

LEMMA PageLimitsType == PageLimits \subseteq Nat \cup {NoLimit}
<1>1. ASSUME NEW n \in Limits PROVE n \in Nat
  BY SupervisorAssumption, Zenon
<1>2. DefaultLimit \in Nat /\ 1 \in Nat
  BY SupervisorAssumption
<1> QED BY <1>1, <1>2, Zenon DEF PageLimits

(* What the menu makes of its answers are missions. *)
LEMMA MissionShapes ==
  /\ SinglePage \in Mission
  /\ \A n \in Limits \cup {NoLimit, DefaultLimit} : SiteCrawl(n) \in Mission
  /\ SeedFile \in Mission
  /\ \A fl \in BOOLEAN : NoSeeds(fl) \in Mission
<1>1. SinglePage \in Mission
  BY DEF SinglePage, Mission
<1>2. ASSUME NEW n \in Limits \cup {NoLimit, DefaultLimit} PROVE SiteCrawl(n) \in Mission
  <2> DEFINE a == [SinglePage EXCEPT !.depth = 2]
  <2>1. a \in Mission
    BY <1>1, MissionChanged, Zenon
  <2>2. SiteCrawl(n) = [a EXCEPT !.max_pages = n]
    BY Zenon DEF SiteCrawl
  <2> HIDE DEF a
  <2>3. n \in PageLimits
    BY DEF PageLimits
  <2> QED BY <2>1, <2>2, <2>3, MissionLimited, Zenon
<1>3. SeedFile \in Mission
  <2> DEFINE a == [SiteCrawl(NoLimit) EXCEPT !.url = FALSE]
  <2>1. a \in Mission
    BY <1>2, MissionChanged
  <2>2. SeedFile = [a EXCEPT !.file = TRUE]
    BY Zenon DEF SeedFile
  <2> HIDE DEF a
  <2> QED BY <2>1, <2>2, MissionChanged, Zenon
<1>4. ASSUME NEW fl \in BOOLEAN PROVE NoSeeds(fl) \in Mission
  <2> DEFINE a == [SeedFile EXCEPT !.file = FALSE]
  <2>1. a \in Mission
    BY <1>3, MissionChanged
  <2>2. NoSeeds(fl) = [a EXCEPT !.flush = fl]
    BY Zenon DEF NoSeeds
  <2> HIDE DEF a
  <2> QED BY <2>1, <2>2, MissionChanged, Zenon
<1> QED BY <1>1, <1>2, <1>3, <1>4

LEMMA MissionsType == Missions \subseteq Mission
<1>1. FromFlags \subseteq Mission
  BY DEF FromFlags
<1>2. FromTheMenu \subseteq Mission
  <2>1. ASSUME NEW c, NEW s, NEW n \in Limits PROVE prompt_user_menu(c, s, n) \in Mission
    BY MissionShapes DEF prompt_user_menu
  <2> QED BY <2>1 DEF FromTheMenu
<1> DEFINE asked == UNION {IF i = "menu" THEN FromTheMenu ELSE FromFlags : i \in Interfaces}
<1>3. \A m \in asked : m \in Mission
  BY <1>1, <1>2
<1>4. \A x \in {[m EXCEPT !.valid = v] : m \in asked, v \in BOOLEAN} : x \in Mission
  <2> HIDE DEF asked
  <2> QED BY <1>3 DEF Mission
<1> QED BY <1>4 DEF Missions

-----------------------------------------------------------------------------
(* Type correctness *)

Interrupts == Interrupt \/ InterruptAgain

LEMMA InitType == Init => TypeOK
<1> SUFFICES ASSUME Init PROVE TypeOK
  OBVIOUS
<1>1. mission \in Mission
  BY MissionsType DEF Init
<1>2. mission.max_pages \in Nat \cup {NoLimit}
  <2>1. mission.max_pages \in PageLimits
    BY <1>1 DEF Mission, PageLimits
  <2> QED BY <2>1, PageLimitsType, Zenon
<1>3. documents \in Nat /\ waiting \in Nat
  BY SupervisorAssumption DEF Init
<1>4. /\ max_pages \in Nat \cup {NoLimit} /\ initial_doc_count \in Nat
      /\ switch \in BOOLEAN /\ paused \in BOOLEAN /\ mission_complete \in BOOLEAN
      /\ running \in BOOLEAN
  BY <1>2, <1>3, Zenon DEF Init
<1>5. count \in Nat /\ presses \in 0..MaxKeys /\ scraped \in Nat /\ claims \in Nat
  BY SupervisorAssumption DEF Init
<1>6. attempt \in [Senders -> 0..Attempts]
  BY SupervisorAssumption DEF Init
<1>7. /\ worker \in [Workers -> {"idle", "looked", "holding", "void"}]
      /\ main = "top" /\ keys \in {"none", "select"} /\ seeder \in {"sending", "ended"}
  BY DEF Init
<1> QED BY <1>1, <1>3, <1>4, <1>5, <1>6, <1>7 DEF TypeOK

LEMMA MainType == TypeOK /\ (Main \/ Interrupts) => TypeOK'
<1> SUFFICES ASSUME TypeOK, Main \/ Interrupts PROVE TypeOK'
  OBVIOUS
<1> USE DEF TypeOK, crawl, fields
<1>1. CASE Count \/ CarryOn \/ Leave \/ Overstay \/ Exit \/ Interrupts
  BY <1>1 DEF Count, CarryOn, Leave, Overstay, Exit, Interrupts, Interrupt, InterruptAgain
<1>2. CASE Complete
  BY <1>2 DEF Complete
<1>3. CASE PauseAtLimit
  <2>1. switch' = TRUE /\ claims' \in Nat
    BY <1>3 DEF PauseAtLimit, SetSwitch
  <2> QED BY <1>3, <2>1 DEF PauseAtLimit
<1>4. CASE stop_processes
  BY <1>4 DEF stop_processes
<1> QED BY <1>1, <1>2, <1>3, <1>4 DEF Main

LEMMA KeyStepsType == TypeOK /\ KeySteps => TypeOK'
<1> SUFFICES ASSUME TypeOK, KeySteps PROVE TypeOK'
  OBVIOUS
<1> USE DEF TypeOK, crawl, fields, ClearSwitch, SetSwitch, NextRound
<1>1. CASE Unpause \/ Finally
  BY <1>1 DEF Unpause, Finally, CleanUp
<1>6. CASE Exported \/ EndLoop
  BY <1>6 DEF Exported, EndLoop
<1>7. CASE PauseByKey
  <2>1. switch' = TRUE /\ claims' \in Nat
    BY <1>7 DEF PauseByKey
  <2> QED BY <1>7, <2>1 DEF PauseByKey
<1>2. CASE Extend
  <2>1. max_pages' \in Nat \cup {NoLimit}
    BY <1>2, SupervisorAssumption DEF Extend
  <2> QED BY <1>2, <2>1 DEF Extend
<1>3. CASE Scan
  BY <1>3 DEF Scan
<1>4. CASE Cleared
  BY <1>4 DEF Cleared, ForgetCount
<1>8. CASE recrawl_target
  BY <1>8 DEF recrawl_target, ForgetCount
<1>5. CASE Recrawl
  <2>1. 0 \in 0..Attempts
    BY SupervisorAssumption
  <2>2. attempt' \in [Senders -> 0..Attempts] /\ keys' \in {"sending", "select", "cleaning"}
    BY <1>5, <2>1 DEF Recrawl
  <2> QED BY <1>5, <2>2 DEF Recrawl
<1> QED BY <1>1, <1>2, <1>3, <1>4, <1>5, <1>6, <1>7, <1>8 DEF KeySteps

LEMMA KeyType == TypeOK /\ Key => TypeOK'
<1> SUFFICES ASSUME TypeOK, Key PROVE TypeOK'
  OBVIOUS
<1>0. Press => presses' \in 0..MaxKeys
  BY SupervisorAssumption DEF Press, TypeOK
<1>1. CASE resume_crawling \/ pause_crawling \/ export_documents \/ Quit
  BY <1>0, <1>1 DEF resume_crawling, pause_crawling, export_documents, Quit, Resume, TypeOK,
                    crawl, fields
<1>2. CASE flush_redis(FALSE) \/ flush_redis(TRUE)
  BY <1>0, <1>2 DEF flush_redis, TypeOK, fields
<1> QED BY <1>1, <1>2 DEF Key

LEMMA SendType == TypeOK /\ (\E t \in Senders : Send(t)) => TypeOK'
<1> SUFFICES ASSUME TypeOK, NEW t \in Senders, Send(t) PROVE TypeOK'
  OBVIOUS
<1>1. Executed => waiting' \in Nat
  BY SupervisorAssumption DEF Executed, TypeOK
<1>2. TriesLeft(t) => [attempt EXCEPT ![t] = @ + 1] \in [Senders -> 0..Attempts]
  BY SupervisorAssumption DEF TriesLeft, TypeOK
<1>3. Done(t) => /\ keys' \in {keys, "select", "cleaning"} /\ seeder' \in {seeder, "ended"}
  BY DEF Done, NextRound
<1>4. CASE Accept(t) \/ Invalid(t) \/ GiveUp(t)
  BY <1>1, <1>3, <1>4 DEF Accept, Invalid, GiveUp, TypeOK, crawl, fields
<1>5. CASE AnswerLost(t) \/ Unreached(t)
  BY <1>1, <1>2, <1>5 DEF AnswerLost, Unreached, TypeOK, crawl, fields
<1> QED BY <1>4, <1>5 DEF Send

LEMMA CrawlType == TypeOK /\ (\E w \in Workers : Crawl(w)) => TypeOK'
<1> SUFFICES ASSUME TypeOK, NEW w \in Workers, Crawl(w) PROVE TypeOK'
  OBVIOUS
<1> USE DEF TypeOK, fields
<1>1. CASE Look(w) \/ NoDocument(w)
  BY <1>1 DEF Look, NoDocument
<1>2. CASE Claim(w)
  BY <1>2 DEF Claim
<1>3. CASE Document(w)
  BY <1>3 DEF Document, Fenced
<1> QED BY <1>1, <1>2, <1>3 DEF Crawl

LEMMA StepType == TypeOK /\ [Next]_vars => TypeOK'
<1>1. TypeOK /\ UNCHANGED vars => TypeOK'
  BY DEF TypeOK, vars, crawl, fields
<1> QED BY <1>1, MainType, KeyStepsType, KeyType, SendType, CrawlType DEF Next, Interrupts

(* The fields, the phases of the threads and the counters keep their types; *)
(* no submission is tried more often than it may be.                        *)
THEOREM TypeCorrect == Spec => []TypeOK
<1> QED BY InitType, StepType, PTL DEF Spec

-----------------------------------------------------------------------------
(* Counting documents *)

FlushSteps == {"scanning", "clearing", "rescanning", "reclearing"}

(* Beyond OnlyThisCrawl: what there is of before the session is at most what *)
(* it started from, and nothing while a flush is under way, so that the key  *)
(* listener may forget where it started from.                                *)
SessionInv ==
  /\ scraped <= documents /\ documents <= initial_doc_count + scraped
  /\ keys \in FlushSteps => documents = scraped

LEMMA SessionStep ==
  ASSUME TypeOK, SessionInv, [Next]_vars
  PROVE  SessionInv'
<1> USE DEF TypeOK, SessionInv, FlushSteps
<1>1. CASE UNCHANGED <<documents, scraped, initial_doc_count>>
           /\ (keys' \in FlushSteps => keys \in FlushSteps)
  BY <1>1
<1>2. CASE UNCHANGED vars
  BY <1>1, <1>2 DEF vars, crawl, fields
<1>3. CASE Main \/ Interrupts
  BY <1>1, <1>3 DEF Main, Count, Complete, CarryOn, PauseAtLimit, Leave, stop_processes,
                    Overstay, Exit, Interrupts, Interrupt, InterruptAgain, crawl, fields
<1>4. CASE KeySteps
  <2>1. CASE Unpause \/ Extend \/ PauseByKey \/ Recrawl \/ Exported \/ EndLoop \/ Finally
    BY <1>1, <2>1 DEF Unpause, Extend, PauseByKey, Recrawl, Exported, EndLoop, Finally,
                      NextRound, crawl, fields
  <2>2. CASE Scan
    BY <1>1, <2>2 DEF Scan, fields
  <2>3. CASE Cleared \/ recrawl_target
    <3>1. /\ keys \in FlushSteps /\ keys' \notin FlushSteps
          /\ initial_doc_count' = 0 /\ UNCHANGED <<documents, scraped>>
      BY <2>3 DEF Cleared, recrawl_target, ForgetCount, NextRound, crawl
    <3> QED BY <3>1
  <2> QED BY <1>4, <2>1, <2>2, <2>3 DEF KeySteps
<1>5. CASE Key
  <2>1. CASE resume_crawling \/ pause_crawling \/ export_documents \/ Quit
    BY <1>1, <2>1 DEF resume_crawling, pause_crawling, export_documents, Quit, crawl, fields
  <2>2. CASE flush_redis(FALSE) \/ flush_redis(TRUE)
    BY <2>2 DEF flush_redis, fields
  <2> QED BY <1>5, <2>1, <2>2 DEF Key
<1>6. ASSUME NEW t \in Senders, Send(t) PROVE SessionInv'
  BY <1>1, <1>6 DEF Send, Accept, AnswerLost, Unreached, Invalid, GiveUp, Done, NextRound,
                    crawl, fields
<1>7. ASSUME NEW w \in Workers, Crawl(w) PROVE SessionInv'
  <2>1. CASE Look(w) \/ Claim(w) \/ NoDocument(w)
    BY <1>1, <2>1 DEF Look, Claim, NoDocument, fields
  <2>2. CASE Document(w)
    <3>1. documents' = documents + 1 /\ scraped' = scraped + 1
      BY <2>2 DEF Document, Fenced
    <3>2. UNCHANGED <<initial_doc_count, keys>>
      BY <2>2 DEF Document, fields
    <3> QED BY <3>1, <3>2
  <2> QED BY <1>7, <2>1, <2>2 DEF Crawl
<1> QED BY <1>2, <1>3, <1>4, <1>5, <1>6, <1>7 DEF Next, Interrupts

LEMMA SessionKept == Spec => []SessionInv
<1>1. Init => SessionInv
  <2> SUFFICES ASSUME Init PROVE SessionInv
    OBVIOUS
  <2>1. documents \in Nat /\ scraped = 0 /\ initial_doc_count = documents
    BY InitType DEF TypeOK, Init
  <2>2. keys \notin FlushSteps
    BY DEF Init, FlushSteps
  <2> QED BY <2>1, <2>2 DEF SessionInv
<1>2. TypeOK /\ SessionInv /\ [Next]_vars => SessionInv'
  BY SessionStep
<1> QED BY <1>1, <1>2, TypeCorrect, PTL DEF Spec

(* Pages of before a flush never count as documents after it, whoever holds *)
(* them and whenever they arrive.                                           *)
THEOREM FlushForgets == Spec => []OnlyThisCrawl
<1>1. TypeOK /\ SessionInv => OnlyThisCrawl
  BY DEF TypeOK, SessionInv, OnlyThisCrawl
<1> QED BY <1>1, TypeCorrect, SessionKept, PTL

-----------------------------------------------------------------------------
(* Claims under the switch *)

Looked == {w \in Workers : worker[w] = "looked"}

(* Every page claimed since the switch was set used up a look from before.  *)
InFlightInv == switch => claims + Cardinality(Looked) <= Cardinality(Workers)

LEMMA LookedCount ==
  /\ IsFiniteSet(Looked) /\ Cardinality(Looked) \in Nat
  /\ Cardinality(Workers) \in Nat /\ Cardinality(Looked) <= Cardinality(Workers)
<1>1. IsFiniteSet(Workers)
  BY SupervisorAssumption, Zenon
<1>2. Looked \in SUBSET Workers
  BY DEF Looked
<1> QED BY <1>1, <1>2, FS_Subset, FS_CardinalityType

LEMMA InFlightStep ==
  ASSUME TypeOK, InFlightInv, [Next]_vars
  PROVE  InFlightInv'
<1> USE DEF InFlightInv
<1>1. CASE UNCHANGED <<switch, claims>> /\ Looked' = Looked
  BY <1>1
<1>1a. CASE UNCHANGED <<switch, claims, worker>>
  BY <1>1, <1>1a DEF Looked
<1>1b. CASE SetSwitch /\ worker' = worker
  <2>1. Looked' = Looked
    BY <1>1b DEF Looked
  <2>2. CASE switch
    BY <1>1b, <2>1, <2>2 DEF SetSwitch
  <2>3. CASE ~switch
    BY <1>1b, <2>1, <2>3, LookedCount DEF SetSwitch
  <2> QED BY <2>2, <2>3
<1>1c. CASE ClearSwitch
  BY <1>1c DEF ClearSwitch
<1>2. CASE UNCHANGED vars
  BY <1>1a, <1>2 DEF vars, crawl
<1>3. CASE Main \/ Interrupts
  BY <1>1a, <1>1b, <1>3 DEF Main, Count, Complete, CarryOn, PauseAtLimit, Leave,
                            stop_processes, Overstay, Exit, Interrupts, Interrupt,
                            InterruptAgain, crawl
<1>4. CASE KeySteps
  <2>1. CASE Unpause \/ Recrawl \/ Finally
    BY <1>1c, <2>1 DEF Unpause, Recrawl, Finally, CleanUp
  <2>2. CASE Extend \/ Scan \/ Cleared \/ recrawl_target \/ Exported \/ EndLoop
    BY <1>1a, <2>2 DEF Extend, Scan, Cleared, recrawl_target, Exported, EndLoop, crawl
  <2>3. CASE PauseByKey
    BY <1>1b, <2>3 DEF PauseByKey, crawl
  <2> QED BY <1>4, <2>1, <2>2, <2>3 DEF KeySteps
<1>5. CASE Key
  <2>1. CASE resume_crawling \/ pause_crawling \/ export_documents \/ Quit
    BY <1>1a, <2>1 DEF resume_crawling, pause_crawling, export_documents, Quit, crawl
  <2>2. CASE flush_redis(FALSE) \/ flush_redis(TRUE)
    <3>1. Looked' = Looked
      BY <2>2 DEF flush_redis, Looked, TypeOK
    <3> QED BY <1>1, <2>2, <3>1 DEF flush_redis
  <2> QED BY <1>5, <2>1, <2>2 DEF Key
<1>6. ASSUME NEW t \in Senders, Send(t) PROVE InFlightInv'
  BY <1>1a, <1>6 DEF Send, Accept, AnswerLost, Unreached, Invalid, GiveUp, crawl
<1>7. ASSUME NEW w \in Workers, Crawl(w) PROVE InFlightInv'
  <2>1. CASE Look(w)
    BY <2>1 DEF Look, NotPaused
  <2>2. CASE Claim(w)
    <3>1. Looked' = Looked \ {w} /\ w \in Looked
      BY <2>2 DEF Claim, Looked, TypeOK
    <3>2. Cardinality(Looked') = Cardinality(Looked) - 1
      BY <3>1, LookedCount, FS_RemoveElement
    <3>3. claims' \in {claims, claims + 1} /\ switch' = switch
      BY <2>2 DEF Claim
    <3>4. claims \in Nat
      BY DEF TypeOK
    <3> QED BY <3>2, <3>3, <3>4, LookedCount
  <2>3. CASE Document(w)
    <3>1. Looked' = Looked
      BY <2>3 DEF Document, Fenced, Looked, TypeOK
    <3> QED BY <1>1, <2>3, <3>1 DEF Document
  <2>4. CASE NoDocument(w)
    <3>1. Looked' = Looked
      BY <2>4 DEF NoDocument, Looked, TypeOK
    <3> QED BY <1>1, <2>4, <3>1 DEF NoDocument
  <2> QED BY <1>7, <2>1, <2>2, <2>3, <2>4 DEF Crawl
<1> QED BY <1>2, <1>3, <1>4, <1>5, <1>6, <1>7 DEF Next, Interrupts

(* While the crawl is paused no more pages are claimed than there are       *)
(* workers, although each reads the switch before it claims.                *)
THEOREM PausingStops == Spec => []AtMostInFlight
<1>1. Init => InFlightInv
  BY DEF Init, InFlightInv
<1>2. TypeOK /\ InFlightInv /\ [Next]_vars => InFlightInv'
  BY InFlightStep
<1>3. TypeOK /\ InFlightInv => AtMostInFlight
  BY LookedCount DEF TypeOK, InFlightInv, AtMostInFlight
<1> QED BY <1>1, <1>2, <1>3, TypeCorrect, PTL DEF Spec

-----------------------------------------------------------------------------
(* Pausing and completing *)

(* Keys and counting take turns: while the main thread decides the key      *)
(* listener rests and the crawl runs, what was counted is there, and a key   *)
(* listener that left has cleared the switch.                                *)
TurnInv ==
  /\ main \in {"checking", "pausing"} => keys \in {"none", "select"} /\ running
  /\ main = "checking" => count <= documents
  /\ keys \in {"cleaning", "ended"} => ~running
  /\ keys \in {"sending", "ended"} => ~switch
  /\ HasTerminal => keys # "none"

(* What the fields say of crawler:paused at every step of a key. *)
ShownInv ==
  /\ main = "pausing" => paused
  /\ main \in {"top", "checking"} =>
       /\ keys \in {"none", "select", "exporting"} \cup FlushSteps =>
            (paused <=> switch) /\ (mission_complete => switch)
       /\ keys = "pausing" => paused
       /\ keys \in {"resuming", "extending", "restarting", "sending"} =>
            ~paused /\ ~mission_complete
       /\ keys \in {"extending", "sending"} => ~switch

LEMMA TurnStep ==
  ASSUME ~Overlap, TypeOK, TurnInv, SessionInv, [Next]_vars
  PROVE  TurnInv'
<1> USE DEF TypeOK, TurnInv, FlushSteps, NextRound
<1>1. CASE UNCHANGED <<main, keys, running, switch, count, documents>>
  BY <1>1
<1>2. CASE UNCHANGED vars
  BY <1>1, <1>2 DEF vars, crawl, fields
<1>3. CASE Main \/ Interrupts
  <2>1. CASE Count
    BY <2>1 DEF Count, KeysAtRest, crawl, fields
  <2>2. CASE Complete \/ CarryOn
    BY <2>2 DEF Complete, CarryOn, crawl, fields
  <2>3. CASE PauseAtLimit
    BY <2>3 DEF PauseAtLimit, SetSwitch, crawl, fields
  <2>4. CASE Leave \/ Interrupts
    BY <2>4 DEF Leave, Interrupts, Interrupt, InterruptAgain, crawl, fields
  <2>5. CASE stop_processes
    BY <2>5 DEF stop_processes, crawl
  <2>6. CASE Overstay \/ Exit
    BY <2>6 DEF Overstay, Exit, crawl, fields
  <2> QED BY <1>3, <2>1, <2>2, <2>3, <2>4, <2>5, <2>6 DEF Main
<1>4. CASE KeySteps
  <2>1. CASE Unpause \/ Finally
    BY <2>1 DEF Unpause, Finally, CleanUp, ClearSwitch, crawl, fields
  <2>2. CASE Recrawl
    BY <2>2 DEF Recrawl, ClearSwitch, crawl, fields
  <2>3. CASE Extend \/ Scan
    BY <2>3 DEF Extend, Scan, crawl, fields
  <2>4. CASE Cleared \/ recrawl_target
    BY <2>4 DEF Cleared, recrawl_target, crawl, fields
  <2>5. CASE Exported \/ EndLoop
    BY <2>5 DEF Exported, EndLoop, crawl, fields
  <2>6. CASE PauseByKey
    BY <2>6 DEF PauseByKey, SetSwitch, crawl, fields
  <2> QED BY <1>4, <2>1, <2>2, <2>3, <2>4, <2>5, <2>6 DEF KeySteps
<1>5. CASE Key
  <2>1. CASE resume_crawling \/ pause_crawling \/ export_documents
    BY <2>1 DEF resume_crawling, pause_crawling, export_documents, Press, MainAtRest, crawl,
                fields
  <2>2. CASE flush_redis(FALSE) \/ flush_redis(TRUE)
    BY <2>2 DEF flush_redis, Press, MainAtRest, fields
  <2>3. CASE Quit
    BY <2>3 DEF Quit, Press, MainAtRest, crawl
  <2> QED BY <1>5, <2>1, <2>2, <2>3 DEF Key
<1>6. ASSUME NEW t \in Senders, Send(t) PROVE TurnInv'
  <2>1. CASE Accept(t) \/ Invalid(t) \/ GiveUp(t)
    BY <2>1 DEF Accept, Invalid, GiveUp, Done, IsSending, crawl, fields
  <2>2. CASE AnswerLost(t) \/ Unreached(t)
    BY <1>1, <2>2 DEF AnswerLost, Unreached, crawl, fields
  <2> QED BY <1>6, <2>1, <2>2 DEF Send
<1>7. ASSUME NEW w \in Workers, Crawl(w) PROVE TurnInv'
  <2>1. CASE Look(w) \/ Claim(w) \/ NoDocument(w)
    BY <1>1, <2>1 DEF Look, Claim, NoDocument, fields
  <2>2. CASE Document(w)
    BY <2>2 DEF Document, fields
  <2> QED BY <1>7, <2>1, <2>2 DEF Crawl
<1> QED BY <1>2, <1>3, <1>4, <1>5, <1>6, <1>7 DEF Next, Interrupts

LEMMA TurnsTaken == ~Overlap => (Spec => []TurnInv)
<1> SUFFICES ASSUME ~Overlap PROVE Spec => []TurnInv
  OBVIOUS
<1>1. Init => TurnInv
  BY DEF Init, TurnInv
<1>2. TypeOK /\ SessionInv /\ TurnInv /\ [Next]_vars => TurnInv'
  BY TurnStep
<1> QED BY <1>1, <1>2, TypeCorrect, SessionKept, PTL DEF Spec

LEMMA OnlyExitExits ==
  ASSUME TypeOK, [Next]_vars, main # "exited", main' = "exited"
  PROVE  Exit
<1>1. main' # main
  OBVIOUS
<1>2. CASE Main \/ Interrupts \/ UNCHANGED vars
  BY <1>1, <1>2 DEF Main, Count, Complete, CarryOn, PauseAtLimit, Leave, stop_processes,
                    Overstay, Interrupts, Interrupt, InterruptAgain, vars
<1>3. CASE KeySteps
  BY <1>1, <1>3 DEF KeySteps, Unpause, Extend, PauseByKey, Scan, Cleared, recrawl_target,
                    Recrawl, Exported, EndLoop, Finally
<1>4. CASE Key
  BY <1>1, <1>4 DEF Key, resume_crawling, pause_crawling, flush_redis, export_documents, Quit
<1>5. ASSUME NEW t \in Senders, Send(t) PROVE Exit
  BY <1>1, <1>5 DEF Send, Accept, AnswerLost, Unreached, Invalid, GiveUp
<1>6. ASSUME NEW w \in Workers, Crawl(w) PROVE Exit
  BY <1>1, <1>6 DEF Crawl, Look, Claim, Document, NoDocument
<1> QED BY <1>2, <1>3, <1>4, <1>5, <1>6 DEF Next, Interrupts

(* A process with a terminal that had the time to stop leaves no pause      *)
(* behind, if a key is handled between two counts: whoever set              *)
(* crawler:paused, and whether the session ended by a key, by Ctrl-C or by  *)
(* a Ctrl-C with a key right behind it, the finally of the key listener     *)
(* comes last.                                                              *)
THEOREM OrderlyExits == HasTerminal /\ ~Overlap => (Spec => OrderlyExitUnpauses)
<1> SUFFICES ASSUME HasTerminal, ~Overlap PROVE Spec => OrderlyExitUnpauses
  OBVIOUS
<1>1. ASSUME TypeOK, TurnInv, [Next]_vars, main = "waiting", main' = "exited"
      PROVE  ~switch'
  <2>1. Exit
    BY <1>1, OnlyExitExits
  <2>2. keys = "ended" /\ switch' = switch
    BY <1>1, <2>1 DEF Exit, TurnInv
  <2> QED BY <1>1, <2>2 DEF TurnInv
<1>2. TypeOK /\ TurnInv /\ [Next]_vars
        => [main = "waiting" /\ main' = "exited" => ~switch']_vars
  BY <1>1
<1> QED BY <1>2, TypeCorrect, TurnsTaken, PTL DEF Spec, OrderlyExitUnpauses

LEMMA ShownStep ==
  ASSUME ~Overlap, TypeOK, TurnInv, ShownInv, [Next]_vars
  PROVE  ShownInv'
<1> USE DEF TypeOK, TurnInv, ShownInv, FlushSteps, NextRound
<1>1. CASE UNCHANGED <<main, keys, paused, mission_complete, switch>>
  BY <1>1
<1>2. CASE UNCHANGED vars
  BY <1>1, <1>2 DEF vars, fields
<1>3. CASE Main \/ Interrupts
  <2>1. CASE Count
    BY <2>1 DEF Count, fields
  <2>2. CASE Complete
    BY <2>2 DEF Complete
  <2>3. CASE CarryOn
    BY <2>3 DEF CarryOn, fields
  <2>4. CASE PauseAtLimit
    BY <2>4 DEF PauseAtLimit, SetSwitch, fields
  <2>5. CASE Leave \/ stop_processes \/ Overstay \/ Exit \/ Interrupts
    BY <2>5 DEF Leave, stop_processes, Overstay, Exit, Interrupts, Interrupt, InterruptAgain
  <2> QED BY <1>3, <2>1, <2>2, <2>3, <2>4, <2>5 DEF Main
<1>4. CASE KeySteps
  <2>1. CASE Unpause
    BY <2>1 DEF Unpause, ClearSwitch, fields
  <2>2. CASE Exported \/ Finally \/ EndLoop
    BY <2>2 DEF Exported, Finally, EndLoop, fields
  <2>3. CASE Recrawl
    BY <2>3 DEF Recrawl, ClearSwitch, fields
  <2>4. CASE Extend
    BY <2>4 DEF Extend
  <2>5. CASE Scan
    BY <2>5 DEF Scan, fields
  <2>6. CASE Cleared
    BY <2>6 DEF Cleared
  <2>7. CASE recrawl_target
    BY <2>7 DEF recrawl_target
  <2>8. CASE PauseByKey
    BY <2>8 DEF PauseByKey, SetSwitch, fields
  <2> QED BY <1>4, <2>1, <2>2, <2>3, <2>4, <2>5, <2>6, <2>7, <2>8 DEF KeySteps
<1>5. CASE Key
  <2>1. CASE resume_crawling
    BY <2>1 DEF resume_crawling, Resume, Press, MainAtRest
  <2>2. CASE pause_crawling
    BY <2>2 DEF pause_crawling, Press, MainAtRest
  <2>3. CASE flush_redis(FALSE) \/ flush_redis(TRUE)
    BY <2>3 DEF flush_redis, Press, MainAtRest, fields
  <2>4. CASE export_documents \/ Quit
    BY <2>4 DEF export_documents, Quit, Press, MainAtRest, fields
  <2> QED BY <1>5, <2>1, <2>2, <2>3, <2>4 DEF Key
<1>6. ASSUME NEW t \in Senders, Send(t) PROVE ShownInv'
  <2>1. CASE Accept(t) \/ Invalid(t) \/ GiveUp(t)
    BY <2>1 DEF Accept, Invalid, GiveUp, Done, IsSending, fields
  <2>2. CASE AnswerLost(t) \/ Unreached(t)
    BY <1>1, <2>2 DEF AnswerLost, Unreached, fields
  <2> QED BY <1>6, <2>1, <2>2 DEF Send
<1>7. ASSUME NEW w \in Workers, Crawl(w) PROVE ShownInv'
  BY <1>1, <1>7 DEF Crawl, Look, Claim, NoDocument, Document, fields
<1> QED BY <1>2, <1>3, <1>4, <1>5, <1>6, <1>7 DEF Next, Interrupts

(* What the screen and the key listener believe of the crawl is true        *)
(* whenever both threads rest, if a key is handled between two counts.      *)
THEOREM ScreenTellsTruth == ~Overlap => (Spec => []PausedAsShown)
<1> SUFFICES ASSUME ~Overlap PROVE Spec => []PausedAsShown
  OBVIOUS
<1>1. Init => ShownInv
  BY DEF Init, ShownInv
<1>2. TypeOK /\ TurnInv /\ ShownInv /\ [Next]_vars => ShownInv'
  BY ShownStep
<1>3. ShownInv => PausedAsShown
  BY DEF ShownInv, PausedAsShown, Quiet
<1> QED BY <1>1, <1>2, <1>3, TypeCorrect, TurnsTaken, PTL DEF Spec

-----------------------------------------------------------------------------
(* The page limit *)

(* Only the main thread, at its check, completes a mission. *)
LEMMA OnlyMainCompletes ==
  ASSUME TypeOK, [Next]_vars, Completing
  PROVE  Complete
<1> USE DEF Completing, TypeOK
<1>1. CASE UNCHANGED mission_complete
  BY <1>1
<1>2. CASE Main \/ Interrupts \/ UNCHANGED vars
  BY <1>1, <1>2 DEF Main, Count, CarryOn, PauseAtLimit, Leave, stop_processes, Overstay, Exit,
                    Interrupts, Interrupt, InterruptAgain, vars, fields
<1>3. CASE KeySteps
  BY <1>1, <1>3 DEF KeySteps, Unpause, Extend, PauseByKey, Scan, Cleared, recrawl_target,
                    Recrawl, Exported, EndLoop, Finally, fields
<1>4. CASE Key
  BY <1>1, <1>4 DEF Key, resume_crawling, Resume, pause_crawling, flush_redis,
                    export_documents, Quit, fields
<1>5. ASSUME NEW t \in Senders, Send(t) PROVE Complete
  BY <1>1, <1>5 DEF Send, Accept, AnswerLost, Unreached, Invalid, GiveUp, fields
<1>6. ASSUME NEW w \in Workers, Crawl(w) PROVE Complete
  BY <1>1, <1>6 DEF Crawl, Look, Claim, Document, NoDocument, fields
<1> QED BY <1>2, <1>3, <1>4, <1>5, <1>6 DEF Next, Interrupts

LEMMA CompleteReached ==
  ASSUME TypeOK, SessionInv, TurnInv, Complete
  PROVE  max_pages <= IF mission.url THEN scraped ELSE documents
<1>1. /\ count \in Nat /\ documents \in Nat /\ scraped \in Nat /\ initial_doc_count \in Nat
      /\ count <= documents /\ documents <= initial_doc_count + scraped
      /\ max_pages \in Int
  BY DEF TypeOK, SessionInv, TurnInv, Complete, NoLimit
<1>2. max_pages > 0 /\ EffectiveOf(count) >= max_pages
  BY DEF Complete, Reached
<1>3. CASE mission.url
  <2>1. EffectiveOf(count) = IF count - initial_doc_count > 0
                             THEN count - initial_doc_count ELSE 0
    BY <1>3 DEF EffectiveOf, NonNegative
  <2> QED BY <1>1, <1>2, <1>3, <2>1
<1>4. CASE ~mission.url
  BY <1>1, <1>2, <1>4 DEF EffectiveOf
<1> QED BY <1>3, <1>4

(* A mission is only reported complete when that many documents are there   *)
(* since the last flush, although the count is read before it is compared.  *)
THEOREM CompleteMeansDone == ~Overlap => (Spec => CompletesOnTarget)
<1> SUFFICES ASSUME ~Overlap PROVE Spec => CompletesOnTarget
  OBVIOUS
<1>1. TypeOK /\ SessionInv /\ TurnInv /\ [Next]_vars
        => [Completing => max_pages <= IF mission.url THEN scraped ELSE documents]_vars
  BY OnlyMainCompletes, CompleteReached
<1> QED BY <1>1, TypeCorrect, SessionKept, TurnsTaken, PTL DEF Spec, CompletesOnTarget

=============================================================================
