---------------------------- MODULE ExportProofs ----------------------------
(***************************************************************************)
(* Exports that overlap: for every list of documents, every choice of       *)
(* languages and every number of exports, two threads that read the same    *)
(* documents leave one consistent set of files, however their steps mix.    *)
(* What is in the files: documents of the list in its order, and chunks     *)
(* that hold every word of their text under its heading.                    *)
(***************************************************************************)
EXTENDS Export, FoldProofs, FiniteSetTheorems, TLAPS

(* The steps in which a thread has yet to fill the file f. *)
Towards(f) ==
  {"markdown", "writing markdown"}
  \cup (IF f \in {"chunks", "corpus"} THEN {"chunks", "writing chunks"} ELSE {})
  \cup (IF f = "corpus" THEN {"corpus", "writing corpus"} ELSE {})

Writing == {"writing markdown", "writing chunks", "writing corpus"}

Owed(f) == \E t \in Threads : pc[t] \in Towards(f)

ThreadsOK ==
  /\ pc \in [Threads -> {"idle"} \cup DOMAIN Opened \cup Writing]
  /\ DOMAIN files = Files /\ files = [f \in Files |-> files[f]]
  /\ IsFiniteSet(group)
  /\ docs \in [Threads -> group \cup {<<>>}]
  /\ \A t \in Threads : IF pc[t] = "idle" THEN docs[t] = <<>> ELSE docs[t] \in group

(* All exports since the last quiet moment are of the documents s: a file   *)
(* that is being written is empty or done, a file that is not done will be, *)
(* and the Markdown they leave is the one that is kept.                     *)
Agreed(s) ==
  /\ \A t \in Threads : pc[t] \in Writing => files[FileAt(t)] \in {Holds(<<>>), Holds(s)}
  /\ \A f \in {Markdown(s), "chunks", "corpus"} : files[f] = Holds(s) \/ Owed(f)
  /\ Quiet => saved = Markdown(s)

AgreeInv == ThreadsOK /\ \A s \in group : group = {s} => Agreed(s)

-----------------------------------------------------------------------------
LEMMA Stages ==
  /\ DOMAIN Opened = {"markdown", "chunks", "corpus"}
  /\ Opened["markdown"] = "writing markdown"
  /\ Opened["chunks"] = "writing chunks"
  /\ Opened["corpus"] = "writing corpus"
BY DEF Opened

LEMMA FileNames ==
  /\ \A s : Markdown(s) \in Files \ {"chunks", "corpus"}
  /\ \A t \in Threads : FileAt(t) \in Files
BY DEF Markdown, FileAt, Files

(* The file a thread is at is the one its control says. *)
LEMMA Where ==
  ASSUME NEW t \in Threads
  PROVE  /\ pc[t] \in {"markdown", "writing markdown"} => FileAt(t) = Markdown(docs[t])
         /\ pc[t] \in {"chunks", "writing chunks"} => FileAt(t) = "chunks"
         /\ pc[t] \in {"corpus", "writing corpus"} => FileAt(t) = "corpus"
BY DEF FileAt

LEMMA TowardsIs ==
  ASSUME NEW f, NEW x
  PROVE  x \in Towards(f) <=>
           \/ x \in {"markdown", "writing markdown"}
           \/ f \in {"chunks", "corpus"} /\ x \in {"chunks", "writing chunks"}
           \/ f = "corpus" /\ x \in {"corpus", "writing corpus"}
BY DEF Towards

LEMMA InitThreads == Init => AgreeInv
BY FS_EmptySet DEF Init, AgreeInv, ThreadsOK

LEMMA ThreadsStep == ThreadsOK /\ [Next]_vars => ThreadsOK'
<1> SUFFICES ASSUME ThreadsOK, [Next]_vars PROVE ThreadsOK'
  OBVIOUS
<1>1. CASE UNCHANGED vars
  BY <1>1 DEF vars, ThreadsOK
<1>2. ASSUME NEW longer \in Lists, Commit(longer)
      PROVE  ThreadsOK'
  BY <1>2 DEF Commit, ThreadsOK
<1>3. ASSUME NEW t \in Threads, Read(t)
      PROVE  ThreadsOK'
  <2> DEFINE new == Filtered(list)
  <2>1. /\ docs' = [docs EXCEPT ![t] = new]
        /\ pc' = [pc EXCEPT ![t] = "markdown"]
        /\ group' = (IF Quiet THEN {} ELSE group) \cup {new}
        /\ files' = files /\ pc[t] = "idle"
    BY <1>3 DEF Read
  <2> HIDE DEF new
  <2>2. IsFiniteSet(group')
    <3>1. IsFiniteSet(IF Quiet THEN {} ELSE group)
      BY FS_EmptySet DEF ThreadsOK
    <3> QED BY <2>1, <3>1, FS_AddElement
  <2>3. \A u \in Threads \ {t} : docs[u] \in group' \cup {<<>>}
    BY <2>1 DEF ThreadsOK, Quiet
  <2>4. docs' \in [Threads -> group' \cup {<<>>}]
    BY <2>1, <2>3 DEF ThreadsOK
  <2>5. ASSUME NEW u \in Threads
        PROVE  IF pc'[u] = "idle" THEN docs'[u] = <<>> ELSE docs'[u] \in group'
    BY <2>1 DEF ThreadsOK, Quiet
  <2>6. pc' \in [Threads -> {"idle"} \cup DOMAIN Opened \cup Writing]
    BY <2>1, Stages DEF ThreadsOK
  <2> QED BY <2>1, <2>2, <2>4, <2>5, <2>6 DEF ThreadsOK
<1>4. ASSUME NEW t \in Threads, Open(t)
      PROVE  ThreadsOK'
  <2>1. Opened[pc[t]] \in Writing
    BY <1>4, Stages DEF Open, Writing
  <2>2. pc' = [pc EXCEPT ![t] = Opened[pc[t]]] /\ pc[t] # "idle" /\ UNCHANGED <<docs, group>>
        /\ files' = [files EXCEPT ![FileAt(t)] = Holds(<<>>)]
    BY <1>4, Stages DEF Open
  <2>3. DOMAIN files' = Files /\ files' = [f \in Files |-> files'[f]]
    BY <2>2 DEF ThreadsOK
  <2> QED BY <2>1, <2>2, <2>3 DEF ThreadsOK, Writing
<1>5. ASSUME NEW t \in Threads, Write(t)
      PROVE  ThreadsOK'
  <2>1. pc' = [pc EXCEPT ![t] = IF @ = "writing markdown" THEN "chunks" ELSE "corpus"]
        /\ pc[t] \in Writing /\ UNCHANGED <<docs, group>>
    BY <1>5 DEF Write, Writing
  <2>2. DOMAIN files' = Files /\ files' = [f \in Files |-> files'[f]]
    BY <1>5 DEF ThreadsOK, Write
  <2> QED BY <2>1, <2>2, Stages DEF ThreadsOK, Writing
<1>6. ASSUME NEW t \in Threads, Finish(t)
      PROVE  ThreadsOK'
  <2>1. pc' = [pc EXCEPT ![t] = "idle"] /\ docs' = [docs EXCEPT ![t] = <<>>] /\ group' = group
    BY <1>6 DEF Finish
  <2>2. DOMAIN files' = Files /\ files' = [f \in Files |-> files'[f]]
    BY <1>6 DEF ThreadsOK, Finish
  <2> QED BY <2>1, <2>2 DEF ThreadsOK
<1> QED BY <1>1, <1>2, <1>3, <1>4, <1>5, <1>6 DEF Next

-----------------------------------------------------------------------------
(* Steps while all exports are of the documents s *)

(* The threads at work have read s. *)
LEMMA SameDocs ==
  ASSUME ThreadsOK, NEW s, group = {s}
  PROVE  \A t \in Threads : pc[t] # "idle" => docs[t] = s
BY DEF ThreadsOK

(* A thread starts on the same documents, or as the only one. *)
LEMMA ReadAgrees ==
  ASSUME AgreeInv, AgreeInv => ThreadsOK', NEW t \in Threads, Read(t), NEW s, group' = {s}
  PROVE  Agreed(s)'
<1>1. /\ pc' = [pc EXCEPT ![t] = "markdown"] /\ pc[t] = "idle"
      /\ files' = files /\ UNCHANGED <<list, saved>> /\ docs' = [docs EXCEPT ![t] = s]
  BY DEF Read
<1>2. ThreadsOK
  BY DEF AgreeInv
<1>3. pc'[t] = "markdown" /\ ~Quiet'
  BY <1>1, <1>2 DEF ThreadsOK, Quiet
<1>4. \A f : Owed(f)'
  BY <1>3 DEF Owed, Towards
<1>5. ASSUME NEW u \in Threads, pc'[u] \in Writing
      PROVE  files'[FileAt(u)'] \in {Holds(<<>>), Holds(s)}
  <2>1. u # t /\ pc[u] = pc'[u] /\ docs'[u] = docs[u] /\ pc[u] # "idle"
    BY <1>1, <1>2, <1>5 DEF ThreadsOK, Writing
  <2>2. group = {s}
    <3>1. ~Quiet
      BY <2>1 DEF Quiet
    <3>2. docs[u] \in group /\ group \subseteq group'
      BY <2>1, <1>2, <3>1 DEF ThreadsOK, Read
    <3> QED BY <3>2
  <2>3. FileAt(u)' = FileAt(u)
    BY <2>1 DEF FileAt
  <2> QED BY <1>1, <1>5, <2>1, <2>2, <2>3 DEF AgreeInv, Agreed
<1> QED BY <1>3, <1>4, <1>5 DEF Agreed

(* Opening a file empties it, and the thread that does so will fill it. *)
LEMMA OpenAgrees ==
  ASSUME ThreadsOK, NEW t \in Threads, Open(t), NEW s, group = {s}, Agreed(s)
  PROVE  Agreed(s)'
<1> DEFINE g == FileAt(t)
<1>1. /\ pc[t] \in {"markdown", "chunks", "corpus"}
      /\ pc' = [pc EXCEPT ![t] = Opened[pc[t]]]
      /\ files' = [files EXCEPT ![g] = Holds(<<>>)]
      /\ UNCHANGED <<docs, saved>>
  BY Stages DEF Open
<1>2. g \in Files /\ docs[t] = s
  BY <1>1, FileNames, SameDocs
<1>3. /\ pc'[t] = Opened[pc[t]] /\ pc'[t] # "idle" /\ FileAt(t)' = g
      /\ \A u \in Threads \ {t} : pc'[u] = pc[u] /\ FileAt(u)' = FileAt(u)
  BY <1>1, Stages DEF ThreadsOK, FileAt
<1>4. files'[g] = Holds(<<>>) /\ \A f \in Files \ {g} : files'[f] = files[f]
  BY <1>1, <1>2 DEF ThreadsOK
<1>5. ASSUME NEW u \in Threads, pc'[u] \in Writing
      PROVE  files'[FileAt(u)'] \in {Holds(<<>>), Holds(s)}
  BY <1>3, <1>4, <1>5, FileNames DEF Agreed
<1>6. ASSUME NEW f \in {Markdown(s), "chunks", "corpus"}
      PROVE  files'[f] = Holds(s) \/ Owed(f)'
  <2>1. CASE f = g
    <3>1. \/ pc[t] = "markdown" /\ pc'[t] = "writing markdown"
          \/ pc[t] = "chunks" /\ pc'[t] = "writing chunks" /\ f = "chunks"
          \/ pc[t] = "corpus" /\ pc'[t] = "writing corpus" /\ f = "corpus"
      BY <1>1, <1>3, <2>1, Stages, Where
    <3>2. pc'[t] \in Towards(f)
      BY <3>1, TowardsIs
    <3> QED BY <3>2 DEF Owed
  <2>2. CASE f # g
    <3>1. pc[t] \in Towards(f) => pc'[t] \in Towards(f)
      <4>1. \/ pc[t] = "markdown" /\ pc'[t] = "writing markdown"
            \/ pc[t] = "chunks" /\ pc'[t] = "writing chunks"
            \/ pc[t] = "corpus" /\ pc'[t] = "writing corpus"
        BY <1>1, <1>3, Stages
      <4> QED BY <4>1, TowardsIs
    <3>2. Owed(f) => Owed(f)'
      BY <1>3, <3>1 DEF Owed
    <3>3. files'[f] = files[f]
      BY <1>4, <2>2, FileNames DEF Files
    <3> QED BY <3>2, <3>3 DEF Agreed
  <2> QED BY <2>1, <2>2
<1>7. ~Quiet'
  BY <1>3 DEF Quiet
<1> QED BY <1>5, <1>6, <1>7 DEF Agreed

(* Nobody else has written anything but s into the file, so it holds s. *)
LEMMA WholeContents ==
  ASSUME ThreadsOK, NEW t \in Threads, pc[t] \in Writing, NEW s, group = {s}, Agreed(s)
  PROVE  Contents(t, docs[t]) = {Holds(s)}
<1>1. docs[t] = s
  BY SameDocs DEF Writing
<1>2. files[FileAt(t)] \in {Holds(<<>>), Holds(s)}
  BY DEF Agreed
<1>3. \A u \in Threads \ {t} : pc[u] # "idle" => docs[u] = docs[t]
  BY <1>1, SameDocs
<1> QED BY <1>1, <1>2, <1>3 DEF Contents

LEMMA FillAgrees ==
  ASSUME ThreadsOK, NEW t \in Threads, Write(t) \/ Finish(t), NEW s, group = {s}, Agreed(s)
  PROVE  Agreed(s)'
<1> DEFINE g == FileAt(t)
<1>1. pc[t] \in Writing /\ docs[t] = s
  BY SameDocs DEF Write, Finish, Writing
<1>2. g \in Files /\ files' = [files EXCEPT ![g] = Holds(s)]
  <2>1. Contents(t, s) = {Holds(s)}
    BY <1>1, WholeContents
  <2>2. Finish(t) => g = "corpus"
    BY DEF Finish, FileAt
  <2> QED BY <1>1, <2>1, <2>2, FileNames DEF Write, Finish
<1>3. files'[g] = Holds(s) /\ \A f \in Files \ {g} : files'[f] = files[f]
  BY <1>2 DEF ThreadsOK
<1>4. \A u \in Threads \ {t} : pc'[u] = pc[u] /\ docs'[u] = docs[u] /\ FileAt(u)' = FileAt(u)
  BY DEF Write, Finish, FileAt, ThreadsOK
<1>5. pc'[t] \in {"chunks", "corpus", "idle"}
      /\ (pc[t] = "writing markdown" => pc'[t] = "chunks")
      /\ (pc[t] = "writing chunks" => pc'[t] = "corpus")
  BY DEF Write, Finish, ThreadsOK
<1>6. ASSUME NEW u \in Threads, pc'[u] \in Writing
      PROVE  files'[FileAt(u)'] \in {Holds(<<>>), Holds(s)}
  <2>1. u # t
    BY <1>5, <1>6 DEF Writing
  <2> QED BY <1>3, <1>4, <1>6, <2>1, FileNames DEF Agreed
<1>7. ASSUME NEW f \in {Markdown(s), "chunks", "corpus"}
      PROVE  files'[f] = Holds(s) \/ Owed(f)'
  <2>1. CASE f = g
    BY <1>3, <2>1
  <2>2. CASE f # g
    <3>1. pc[t] \in Towards(f) => pc'[t] \in Towards(f)
      <4>1. \/ pc[t] = "writing markdown" /\ pc'[t] = "chunks" /\ g = Markdown(s)
            \/ pc[t] = "writing chunks" /\ pc'[t] = "corpus" /\ g = "chunks"
            \/ pc[t] = "writing corpus" /\ g = "corpus"
        BY <1>1, <1>5, Where DEF Writing
      <4>2. f # g
        BY <2>2
      <4> HIDE DEF g
      <4> QED BY <4>1, <4>2, TowardsIs
    <3>2. Owed(f) => Owed(f)'
      BY <1>4, <3>1 DEF Owed
    <3>3. files'[f] = files[f]
      BY <1>3, <2>2, FileNames DEF Files
    <3> QED BY <3>2, <3>3 DEF Agreed
  <2> QED BY <2>1, <2>2
<1>8. ASSUME Quiet'
      PROVE  saved' = Markdown(s)
  <2>1. Finish(t)
    BY <1>8 DEF Quiet, Write, ThreadsOK
  <2> QED BY <1>1, <2>1 DEF Finish
<1> QED BY <1>6, <1>7, <1>8 DEF Agreed

LEMMA AgreeStep == AgreeInv /\ [Next]_vars => AgreeInv'
<1> SUFFICES ASSUME AgreeInv, [Next]_vars PROVE AgreeInv'
  OBVIOUS
<1>1. ThreadsOK /\ ThreadsOK'
  BY ThreadsStep DEF AgreeInv
<1> SUFFICES ASSUME NEW s \in group', group' = {s} PROVE Agreed(s)'
  BY <1>1 DEF AgreeInv
<1>2. group = {s} => Agreed(s)
  BY DEF AgreeInv
<1>3. ASSUME UNCHANGED <<pc, docs, files, saved, group>>
      PROVE  Agreed(s)'
  BY <1>2, <1>3 DEF Agreed, Owed, Quiet, FileAt
<1>4. CASE UNCHANGED vars \/ \E longer \in Lists : Commit(longer)
  BY <1>3, <1>4 DEF vars, Commit
<1>5. ASSUME NEW t \in Threads, Read(t)
      PROVE  Agreed(s)'
  BY <1>1, <1>5, ReadAgrees
<1>6. ASSUME NEW t \in Threads, Open(t)
      PROVE  Agreed(s)'
  <2>1. group = {s}
    BY <1>6 DEF Open
  <2> QED BY <1>1, <1>2, <1>6, <2>1, OpenAgrees
<1>7. ASSUME NEW t \in Threads, Write(t) \/ Finish(t)
      PROVE  Agreed(s)'
  <2>1. group = {s}
    BY <1>7 DEF Write, Finish
  <2> QED BY <1>1, <1>2, <1>7, <2>1, FillAgrees
<1> QED BY <1>4, <1>5, <1>6, <1>7 DEF Next

(* Exports that overlap each other but read the same documents leave whole  *)
(* files of these documents behind, in every order of their steps and       *)
(* whatever the parser commits meanwhile.                                   *)
THEOREM OverlapsAgree == Spec => []FilesAgree
<1>1. AgreeInv => FilesAgree
  <2> SUFFICES ASSUME AgreeInv, Quiet, Cardinality(group) = 1, NEW s \in group,
                      NEW f \in {saved, "chunks", "corpus"}
               PROVE  files[f] = Holds(s)
    BY DEF FilesAgree
  <2>1. group = {s}
    BY FS_Singleton DEF AgreeInv, ThreadsOK
  <2>2. Agreed(s)
    BY <2>1 DEF AgreeInv
  <2>3. saved = Markdown(s) /\ ~Owed(f)
    BY <2>2 DEF Agreed, Quiet, Owed, Towards
  <2> QED BY <2>2, <2>3 DEF Agreed
<1> QED BY <1>1, InitThreads, AgreeStep, PTL DEF Spec

-----------------------------------------------------------------------------
(* Numbers and sequences *)

LEMMA Division ==
  ASSUME NEW a \in Nat, NEW b \in Nat \ {0}
  PROVE  a \div b \in Nat /\ (a \div b) * b <= a /\ a < (a \div b) * b + b
OBVIOUS

LEMMA DivisionUp ==
  ASSUME NEW a \in Nat, NEW c \in Nat, a <= c, NEW b \in Nat \ {0}
  PROVE  a \div b <= c \div b
BY Division

LEMMA TwoMax ==
  ASSUME NEW a \in Int, NEW b \in Int
  PROVE  Max({a, b}) = IF a >= b THEN a ELSE b
BY DEF Max

LEMMA TwoMin ==
  ASSUME NEW a \in Int, NEW b \in Int
  PROVE  Min({a, b}) = IF a >= b THEN b ELSE a
BY DEF Min

LEMMA ToSetConcat ==
  ASSUME NEW S, NEW a \in Seq(S), NEW b \in Seq(S)
  PROVE  ToSet(a \o b) = ToSet(a) \cup ToSet(b)
<1>1. /\ a \o b \in Seq(S) /\ Len(a \o b) = Len(a) + Len(b)
      /\ \A i \in 1 .. Len(a) : (a \o b)[i] = a[i]
      /\ \A i \in 1 .. Len(b) : (a \o b)[Len(a) + i] = b[i]
  OBVIOUS
<1>2. ToSet(a \o b) \subseteq ToSet(a) \cup ToSet(b)
  <2> SUFFICES ASSUME NEW i \in 1 .. Len(a) + Len(b)
               PROVE  (a \o b)[i] \in ToSet(a) \cup ToSet(b)
    BY <1>1 DEF ToSet
  <2>1. i \in 1 .. Len(a) \/ (i - Len(a) \in 1 .. Len(b) /\ Len(a) + (i - Len(a)) = i)
    OBVIOUS
  <2> QED BY <1>1, <2>1 DEF ToSet
<1>3. ASSUME NEW i \in 1 .. Len(a)
      PROVE  a[i] \in ToSet(a \o b)
  BY <1>1 DEF ToSet
<1>4. ASSUME NEW i \in 1 .. Len(b)
      PROVE  b[i] \in ToSet(a \o b)
  <2> DEFINE c == a \o b
  <2>1. Len(a) + i \in DOMAIN c /\ c[Len(a) + i] = b[i]
    BY <1>1
  <2> HIDE DEF c
  <2>2. b[i] \in ToSet(c)
    BY <2>1 DEF ToSet
  <2> QED BY <2>2 DEF c
<1>5. ToSet(a) \subseteq ToSet(a \o b)
  BY <1>3 DEF ToSet
<1>6. ToSet(b) \subseteq ToSet(a \o b)
  <2> DEFINE all == ToSet(a \o b)
  <2>1. \A i \in DOMAIN b : b[i] \in all
    BY <1>4
  <2> HIDE DEF all
  <2>2. ToSet(b) \subseteq all
    BY <2>1 DEF ToSet
  <2> QED BY <2>2 DEF all
<1> QED BY <1>2, <1>5, <1>6

LEMMA ToSetAppend ==
  ASSUME NEW S, NEW a \in Seq(S), NEW x \in S
  PROVE  ToSet(Append(a, x)) = ToSet(a) \cup {x}
<1>1. Append(a, x) = a \o <<x>>
  OBVIOUS
<1>2. <<x>> \in Seq(S) /\ ToSet(<<x>>) = {x}
  BY DEF ToSet
<1>3. ToSet(a \o <<x>>) = ToSet(a) \cup ToSet(<<x>>)
  BY <1>2, ToSetConcat
<1> QED BY <1>1, <1>2, <1>3, Zenon

LEMMA ToSetEmpty == ToSet(<<>>) = {}
BY DEF ToSet

-----------------------------------------------------------------------------
(* Documents, and the fold over their lines *)

(* A document whose lines are a sequence; and one without comments that     *)
(* look like headings.                                                      *)
Document(d) ==
  /\ d.lines \in Seq(ToSet(d.lines))
  /\ \A i \in LinesFrom(d) :
       d.lines[i].kind \in {"heading", "text", "comment"} /\ d.lines[i].words \in Nat
Commentless(d) == Document(d) /\ \A i \in LinesFrom(d) : d.lines[i].kind # "comment"

Words == Nat \X Nat
Names(d) == {d.title} \cup {d.lines[i].name : i \in LinesFrom(d)}
Pieces(d) == [section : Names(d), words : Seq(Words)]
Scans(d) == [done : Seq(Pieces(d)), heading : Names(d), words : Seq(Words)]
Start(d) == [done |-> <<>>, heading |-> d.title, words |-> <<>>]

LEMMA LinesAre ==
  ASSUME NEW d, Document(d)
  PROVE  Len(d.lines) \in Nat /\ LinesFrom(d) = 1 .. Len(d.lines)
BY DEF Document, LinesFrom

LEMMA WordsAre ==
  ASSUME NEW d, Document(d), NEW i \in LinesFrom(d)
  PROVE  /\ WordsOf(d, i) \in Seq(Words)
         /\ \A w \in ToSet(WordsOf(d, i)) : w[1] = i
<1>1. d.lines[i].words \in Nat /\ i \in Nat
  BY LinesAre DEF Document
<1>2. WordsOf(d, i) \in Seq(Words)
  BY <1>1 DEF WordsOf, Words
<1>3. \A k \in DOMAIN WordsOf(d, i) : WordsOf(d, i)[k][1] = i
  BY <1>1 DEF WordsOf
<1> QED BY <1>2, <1>3 DEF ToSet

(* Ending a section adds it if it has words. *)
LEMMA ClosedIs ==
  ASSUME NEW d, NEW acc \in Scans(d)
  PROVE  /\ Closed(acc) \in Seq(Pieces(d))
         /\ acc.words = <<>> => ToSet(Closed(acc)) = ToSet(acc.done)
         /\ acc.words # <<>> => ToSet(Closed(acc)) =
              ToSet(acc.done) \cup {[section |-> acc.heading, words |-> acc.words]}
<1> DEFINE last == [section |-> acc.heading, words |-> acc.words]
<1>1. acc.done \in Seq(Pieces(d)) /\ last \in Pieces(d)
  BY DEF Scans, Pieces
<1>2. Closed(acc) = IF acc.words = <<>> THEN acc.done ELSE Append(acc.done, last)
  BY DEF Closed
<1> HIDE DEF last
<1>3. ToSet(Append(acc.done, last)) = ToSet(acc.done) \cup {last}
  BY <1>1, ToSetAppend
<1>4. CASE acc.words = <<>>
  BY <1>1, <1>2, <1>4
<1>5. CASE acc.words # <<>>
  <2>1. Closed(acc) = Append(acc.done, last)
    BY <1>2, <1>5
  <2>2. Closed(acc) \in Seq(Pieces(d))
    BY <1>1, <2>1
  <2>3. ToSet(Closed(acc)) = ToSet(acc.done) \cup {last}
    BY <1>3, <2>1
  <2> QED BY <1>5, <2>2, <2>3 DEF last
<1> QED BY <1>4, <1>5

LEMMA ScanIs ==
  ASSUME NEW d, Document(d), NEW acc \in Scans(d), NEW i \in LinesFrom(d)
  PROVE  Scan(d, acc, i) \in Scans(d)
<1>1. CASE IsHeading(d.lines[i])
  <2>1. Closed(acc) \in Seq(Pieces(d))
    BY ClosedIs
  <2>2. d.lines[i].name \in Names(d)
    BY DEF Names
  <2>3. <<>> \in Seq(Words)
    OBVIOUS
  <2> QED BY <1>1, <2>1, <2>2, <2>3 DEF Scan, Scans
<1>2. CASE ~IsHeading(d.lines[i])
  <2>1. WordsOf(d, i) \in Seq(Words)
    BY WordsAre
  <2>2. acc.words \o WordsOf(d, i) \in Seq(Words)
    BY <2>1 DEF Scans
  <2>3. Scan(d, acc, i) = [acc EXCEPT !.words = acc.words \o WordsOf(d, i)]
    BY <1>2 DEF Scan
  <2> QED BY <2>2, <2>3 DEF Scans
<1> QED BY <1>1, <1>2

(* Sections goes through the lines one by one. *)
LEMMA ScanFold ==
  ASSUME NEW d, Document(d)
  PROVE  \E f \in [0 .. Len(d.lines) -> Scans(d)] :
           /\ f[0] = Start(d) /\ Sections(d) = Closed(f[Len(d.lines)])
           /\ \A n \in 0 .. Len(d.lines) - 1 : f[n + 1] = Scan(d, f[n], n + 1)
<1> DEFINE N == Len(d.lines)
           S == Scans(d)
           base == Start(d)
           p == [i \in LinesFrom(d) |-> i]
           Q(s, it) == IF s = {} THEN base ELSE Scan(d, it[s \ {Max(s)}], p[Max(s)])
           step == [x \in S \X (1 .. N) |-> Scan(d, x[1], x[2])]
           iter == CHOOSE it : it = [s \in SUBSET (1 .. N) |-> Q(s, it)]
<1>0. N \in Nat /\ LinesFrom(d) = 1 .. N
  BY LinesAre
<1>1. Sections(d) = Closed(iter[1 .. N])
  <2>1. DOMAIN p = 1 .. N
    BY <1>0
  <2> QED BY <2>1 DEF Sections, FoldLeft, MapThenFoldSet, Start
<1>2. base \in S /\ StepOn(S, N, step)
  <2>1. ASSUME NEW o \in S, NEW i \in 1 .. N
        PROVE  Scan(d, o, i) \in S
    BY <1>0, ScanIs
  <2>2. step \in [S \X (1 .. N) -> S]
    BY <2>1
  <2>3. base \in S
    BY DEF Start, Scans, Names
  <2> HIDE DEF step
  <2> QED BY <2>2, <2>3 DEF StepOn
<1>3. \E g : Iterates(g, S, base, N, step)
  <2> HIDE DEF S, base, N, step
  <2> QED BY <1>0, <1>2, Iteration
<1> PICK g : Iterates(g, S, base, N, step)
  BY <1>3
<1> HIDE DEF step, base
<1>4. ASSUME NEW it, NEW s \in SUBSET (1 .. N), s # {}, it[s \ {Max(s)}] \in S
      PROVE  Q(s, it) = step[<<it[s \ {Max(s)}], Max(s)>>]
  <2>1. Max(s) \in 1 .. N
    BY <1>0, <1>4, MaxOf
  <2>2. p[Max(s)] = Max(s)
    BY <1>0, <2>1
  <2>3. <<it[s \ {Max(s)}], Max(s)>> \in S \X (1 .. N)
    BY <1>4, <2>1
  <2>4. step[<<it[s \ {Max(s)}], Max(s)>>] = Scan(d, it[s \ {Max(s)}], Max(s))
    BY <2>3 DEF step
  <2> HIDE DEF p, S, N
  <2> QED BY <1>4, <2>2, <2>4
<1>5. g = [s \in SUBSET (1 .. N) |-> Q(s, g)]
  <2>1. ASSUME NEW s \in SUBSET (1 .. N)
        PROVE  g[s] = Q(s, g)
    <3>1. CASE s = {}
      BY <3>1 DEF Iterates
    <3>2. CASE s # {}
      <4>1. s \ {Max(s)} \in SUBSET (1 .. N)
        OBVIOUS
      <4>2. g[s \ {Max(s)}] \in S /\ g[s] = step[<<g[s \ {Max(s)}], Max(s)>>]
        <5> HIDE DEF S, N
        <5> QED BY <3>2, <4>1 DEF Iterates
      <4>3. Q(s, g) = step[<<g[s \ {Max(s)}], Max(s)>>]
        <5> HIDE DEF S, N, Q
        <5> QED BY <1>4, <3>2, <4>2
      <4> HIDE DEF Q
      <4> QED BY <4>2, <4>3
    <3> QED BY <3>1, <3>2
  <2> HIDE DEF Q
  <2> QED BY <2>1, Zenon DEF Iterates
<1>6. iter = [s \in SUBSET (1 .. N) |-> Q(s, iter)]
  <2> HIDE DEF Q
  <2> QED BY <1>5
<1> HIDE DEF iter
<1>7. Follows(iter, S, base, N, step)
  <2>1. iter[{}] = base
    BY <1>6
  <2>2. ASSUME NEW s \in SUBSET (1 .. N), s # {}, iter[s \ {Max(s)}] \in S
        PROVE  iter[s] = step[<<iter[s \ {Max(s)}], Max(s)>>]
    <3>1. iter[s] = Q(s, iter)
      BY <1>6
    <3> HIDE DEF Q
    <3> QED BY <1>4, <2>2, <3>1
  <2> HIDE DEF Q
  <2> QED BY <2>1, <2>2 DEF Follows
<1>8. PICK f : Stepwise(f, S, base, N, step) /\ f[N] = iter[1 .. N]
  <2> HIDE DEF S, N
  <2> QED BY <1>0, <1>2, <1>7, StepByStep
<1>9. ASSUME NEW n \in 0 .. N - 1
      PROVE  f[n + 1] = Scan(d, f[n], n + 1)
  <2>1. f[n] \in S /\ n + 1 \in 1 .. N
    <3> HIDE DEF S, N
    <3> QED BY <1>0, <1>8 DEF Stepwise
  <2>2. f[n + 1] = step[<<f[n], n + 1>>]
    BY <1>8 DEF Stepwise
  <2> QED BY <2>1, <2>2 DEF step
<1>10. f \in [0 .. N -> S] /\ f[0] = base
  BY <1>8 DEF Stepwise
<1>11. f[0] = Start(d) /\ Sections(d) = Closed(f[N])
  <2>1. f[N] = iter[1 .. N]
    BY <1>8
  <2> HIDE DEF N, iter
  <2> QED BY <1>1, <1>10, <2>1 DEF base
<1>12. /\ f \in [0 .. N -> S] /\ f[0] = Start(d) /\ Sections(d) = Closed(f[N])
       /\ \A n \in 0 .. N - 1 : f[n + 1] = Scan(d, f[n], n + 1)
  <2> HIDE DEF S, N, iter
  <2> QED BY <1>9, <1>10, <1>11
<1> QED BY <1>12, Zenon

-----------------------------------------------------------------------------
(* Sections *)

(* The last line above i that begins with "#", heading or not. *)
HashAbove(d, i) ==
  LET above == {j \in LinesFrom(d) : j < i /\ IsHeading(d.lines[j])}
  IN IF above = {} THEN d.title ELSE d.lines[Max(above)].name

LEMMA HeadingIsHash ==
  ASSUME NEW d, Commentless(d), NEW i
  PROVE  HeadingAbove(d, i) = HashAbove(d, i)
<1>1. \A j \in LinesFrom(d) : IsHeading(d.lines[j]) <=> d.lines[j].kind = "heading"
  BY DEF Commentless, IsHeading
<1>2. {j \in LinesFrom(d) : j < i /\ d.lines[j].kind = "heading"} =
      {j \in LinesFrom(d) : j < i /\ IsHeading(d.lines[j])}
  BY <1>1
<1> QED BY <1>2 DEF HeadingAbove, HashAbove

LEMMA HashAboveIs ==
  ASSUME NEW d, Document(d), NEW n \in 0 .. Len(d.lines) - 1
  PROVE  /\ HashAbove(d, 1) = d.title
         /\ IsHeading(d.lines[n + 1]) => HashAbove(d, n + 2) = d.lines[n + 1].name
         /\ ~IsHeading(d.lines[n + 1]) => HashAbove(d, n + 2) = HashAbove(d, n + 1)
<1> DEFINE above(k) == {j \in LinesFrom(d) : j < k /\ IsHeading(d.lines[j])}
<1>1. \A k : HashAbove(d, k) = IF above(k) = {} THEN d.title ELSE d.lines[Max(above(k))].name
  BY DEF HashAbove
<1>2. LinesFrom(d) = 1 .. Len(d.lines) /\ Len(d.lines) \in Nat /\ n + 1 \in LinesFrom(d)
  BY LinesAre
<1>3. above(1) = {}
  BY <1>2
<1>4. ASSUME IsHeading(d.lines[n + 1])
      PROVE  above(n + 2) # {} /\ Max(above(n + 2)) = n + 1
  <2> DEFINE a == above(n + 2)
  <2>1. n + 1 \in a /\ a \in SUBSET (1 .. Len(d.lines)) /\ \A x \in a : x <= n + 1
    BY <1>2, <1>4
  <2> HIDE DEF a
  <2>2. Max(a) \in a /\ \A y \in a : y <= Max(a)
    BY <1>2, <2>1, MaxOf
  <2> DEFINE m == Max(a)
  <2>3. m \in 1 .. Len(d.lines) /\ m <= n + 1 /\ n + 1 <= m
    BY <2>1, <2>2
  <2> HIDE DEF m
  <2>4. m = n + 1
    BY <1>2, <2>3
  <2> QED BY <2>1, <2>4 DEF a, m
<1>5. ASSUME ~IsHeading(d.lines[n + 1])
      PROVE  above(n + 2) = above(n + 1)
  <2>1. \A j \in LinesFrom(d) : j < n + 2 <=> j < n + 1 \/ j = n + 1
    BY <1>2
  <2> QED BY <1>5, <2>1
<1> HIDE DEF above
<1>6. CASE IsHeading(d.lines[n + 1])
  BY <1>1, <1>3, <1>4, <1>6
<1>7. CASE ~IsHeading(d.lines[n + 1])
  BY <1>1, <1>3, <1>5, <1>7
<1> QED BY <1>6, <1>7

(* The words of a section stand under its heading. *)
Under(d, heading, words) == \A w \in ToSet(words) : heading = HashAbove(d, w[1])
Among(d, i, pieces) == ToSet(WordsOf(d, i)) \subseteq UNION {ToSet(sec.words) : sec \in pieces}

(* After n lines: the sections are right, and no text was lost. *)
Scanned(d, n, acc) ==
  /\ acc.heading = HashAbove(d, n + 1)
  /\ Under(d, acc.heading, acc.words)
  /\ \A sec \in ToSet(acc.done) : Under(d, sec.section, sec.words) /\ sec.words # <<>>
  /\ \A i \in 1 .. n : d.lines[i].kind = "text" =>
       ToSet(WordsOf(d, i)) \subseteq
         ToSet(acc.words) \cup UNION {ToSet(sec.words) : sec \in ToSet(acc.done)}

(* No words get lost when a section ends. *)
LEMMA Gathered ==
  ASSUME NEW done, NEW all, NEW end,
         end.words = <<>> => all = done, end.words # <<>> => all = done \cup {end}
  PROVE  ToSet(end.words) \cup UNION {ToSet(sec.words) : sec \in done}
           \subseteq UNION {ToSet(sec.words) : sec \in all}
<1> SUFFICES ASSUME NEW w \in ToSet(end.words) \cup UNION {ToSet(sec.words) : sec \in done}
             PROVE  \E sec \in all : w \in ToSet(sec.words)
  OBVIOUS
<1>1. CASE \E sec \in done : w \in ToSet(sec.words)
  <2>1. done \subseteq all
    OBVIOUS
  <2> QED BY <1>1, <2>1
<1>2. CASE w \in ToSet(end.words)
  <2>1. end.words # <<>>
    BY <1>2, ToSetEmpty
  <2> QED BY <1>2, <2>1
<1> QED BY <1>1, <1>2

LEMMA HeadingScanned ==
  ASSUME NEW d, Document(d), NEW n \in 0 .. Len(d.lines) - 1, NEW acc \in Scans(d),
         Scanned(d, n, acc), IsHeading(d.lines[n + 1])
  PROVE  Scanned(d, n + 1, Scan(d, acc, n + 1))
<1> DEFINE new == Scan(d, acc, n + 1)
           end == [section |-> acc.heading, words |-> acc.words]
<1>1. new = [done |-> Closed(acc), heading |-> d.lines[n + 1].name, words |-> <<>>]
  BY DEF Scan
<1>2. new.heading = HashAbove(d, n + 2) /\ new.words = <<>> /\ new.done = Closed(acc)
  BY <1>1, HashAboveIs
<1> HIDE DEF new
<1>3. /\ acc.words = <<>> => ToSet(new.done) = ToSet(acc.done)
      /\ acc.words # <<>> => ToSet(new.done) = ToSet(acc.done) \cup {end}
  BY <1>2, ClosedIs
<1>4. Under(d, new.heading, new.words) /\ ToSet(new.words) = {}
  BY <1>2, ToSetEmpty DEF Under
<1>5. \A sec \in ToSet(new.done) : Under(d, sec.section, sec.words) /\ sec.words # <<>>
  BY <1>3 DEF Scanned
<1>6. ToSet(acc.words) \cup UNION {ToSet(sec.words) : sec \in ToSet(acc.done)}
        \subseteq UNION {ToSet(sec.words) : sec \in ToSet(new.done)}
  <2> DEFINE done == ToSet(acc.done)
             sections == ToSet(new.done)
  <2>1. /\ end.words = <<>> => sections = done
        /\ end.words # <<>> => sections = done \cup {end}
    BY <1>3
  <2>2. end.words = acc.words
    OBVIOUS
  <2> HIDE DEF end, done, sections
  <2>3. ToSet(end.words) \cup UNION {ToSet(sec.words) : sec \in done}
           \subseteq UNION {ToSet(sec.words) : sec \in sections}
    BY <2>1, Gathered
  <2> QED BY <2>2, <2>3 DEF done, sections
<1>7. ASSUME NEW i \in 1 .. n + 1, d.lines[i].kind = "text"
      PROVE  ToSet(WordsOf(d, i)) \subseteq
               ToSet(new.words) \cup UNION {ToSet(sec.words) : sec \in ToSet(new.done)}
  <2>1. i \in 1 .. n
    BY <1>7 DEF IsHeading
  <2>2. ToSet(WordsOf(d, i)) \subseteq
          ToSet(acc.words) \cup UNION {ToSet(sec.words) : sec \in ToSet(acc.done)}
    BY <1>7, <2>1 DEF Scanned
  <2> QED BY <1>6, <2>2
<1>8. n + 1 + 1 = n + 2
  OBVIOUS
<1> QED BY <1>2, <1>4, <1>5, <1>7, <1>8 DEF Scanned, new

LEMMA TextScanned ==
  ASSUME NEW d, Document(d), NEW n \in 0 .. Len(d.lines) - 1, NEW acc \in Scans(d),
         Scanned(d, n, acc), ~IsHeading(d.lines[n + 1])
  PROVE  Scanned(d, n + 1, Scan(d, acc, n + 1))
<1> DEFINE new == Scan(d, acc, n + 1)
<1>0. n + 1 \in LinesFrom(d) /\ d.lines[n + 1].kind = "text" /\ n + 1 + 1 = n + 2
  BY LinesAre DEF Document, IsHeading
<1>1. new = [acc EXCEPT !.words = acc.words \o WordsOf(d, n + 1)]
  BY DEF Scan
<1>2. new.heading = acc.heading /\ new.done = acc.done /\ new.words = acc.words \o WordsOf(d, n + 1)
  BY <1>1 DEF Scans
<1> HIDE DEF new
<1>3. new.heading = HashAbove(d, n + 2) /\ new.heading = HashAbove(d, n + 1)
  BY <1>2, HashAboveIs DEF Scanned
<1>4. ToSet(new.words) = ToSet(acc.words) \cup ToSet(WordsOf(d, n + 1))
  <2>1. acc.words \in Seq(Words) /\ WordsOf(d, n + 1) \in Seq(Words)
    BY <1>0, WordsAre DEF Scans
  <2>2. ToSet(acc.words \o WordsOf(d, n + 1)) = ToSet(acc.words) \cup ToSet(WordsOf(d, n + 1))
    BY <2>1, ToSetConcat
  <2> QED BY <1>2, <2>2
<1>5. \A w \in ToSet(WordsOf(d, n + 1)) : w[1] = n + 1
  BY <1>0, WordsAre
<1>6. Under(d, new.heading, new.words)
  BY <1>2, <1>3, <1>4, <1>5 DEF Under, Scanned
<1>7. ASSUME NEW i \in 1 .. n + 1, d.lines[i].kind = "text"
      PROVE  ToSet(WordsOf(d, i)) \subseteq
               ToSet(new.words) \cup UNION {ToSet(sec.words) : sec \in ToSet(new.done)}
  <2>1. CASE i = n + 1
    BY <1>4, <2>1
  <2>2. CASE i \in 1 .. n
    <3>1. ToSet(WordsOf(d, i)) \subseteq
            ToSet(acc.words) \cup UNION {ToSet(sec.words) : sec \in ToSet(acc.done)}
      BY <1>7, <2>2 DEF Scanned
    <3> QED BY <1>2, <1>4, <3>1
  <2> QED BY <2>1, <2>2
<1> QED BY <1>0, <1>2, <1>3, <1>6, <1>7 DEF Scanned, new

LEMMA SectionsFaithful ==
  ASSUME NEW d, Document(d)
  PROVE  /\ Sections(d) \in Seq(Pieces(d))
         /\ \A sec \in ToSet(Sections(d)) : Under(d, sec.section, sec.words) /\ sec.words # <<>>
         /\ \A i \in LinesFrom(d) : d.lines[i].kind = "text" => Among(d, i, ToSet(Sections(d)))
<1> DEFINE N == Len(d.lines)
<1>0. N \in Nat /\ LinesFrom(d) = 1 .. N
  BY LinesAre
<1>1. PICK f \in [0 .. N -> Scans(d)] :
        /\ f[0] = Start(d) /\ Sections(d) = Closed(f[N])
        /\ \A n \in 0 .. N - 1 : f[n + 1] = Scan(d, f[n], n + 1)
  BY ScanFold
<1> DEFINE Good == {n \in 0 .. N : Scanned(d, n, f[n])}
<1>2. 0 \in Good
  <2>1. HashAbove(d, 1) = d.title
    <3> DEFINE above == {j \in LinesFrom(d) : j < 1 /\ IsHeading(d.lines[j])}
    <3>1. above = {}
      BY <1>0
    <3> QED BY <3>1 DEF HashAbove
  <2>2. Scanned(d, 0, Start(d))
    BY <2>1, ToSetEmpty DEF Scanned, Start, Under
  <2> QED BY <1>0, <1>1, <2>2
<1>3. ASSUME NEW n \in 0 .. N - 1, n \in Good
      PROVE  n + 1 \in Good
  <2>1. f[n] \in Scans(d) /\ Scanned(d, n, f[n]) /\ f[n + 1] = Scan(d, f[n], n + 1)
    BY <1>1, <1>3
  <2>2. Scanned(d, n + 1, f[n + 1])
    BY <2>1, HeadingScanned, TextScanned
  <2> QED BY <2>2
<1> HIDE DEF Good
<1>4. N \in Good
  BY <1>0, <1>2, <1>3, InductionUpTo
<1>5. Scanned(d, N, f[N]) /\ f[N] \in Scans(d)
  BY <1>0, <1>4 DEF Good
<1> DEFINE acc == f[N]
           all == ToSet(Sections(d))
           end == [section |-> acc.heading, words |-> acc.words]
<1>6. /\ Sections(d) \in Seq(Pieces(d))
      /\ acc.words = <<>> => all = ToSet(acc.done)
      /\ acc.words # <<>> => all = ToSet(acc.done) \cup {end}
  BY <1>1, <1>5, ClosedIs
<1> HIDE DEF acc, all
<1>7. \A sec \in all : Under(d, sec.section, sec.words) /\ sec.words # <<>>
  BY <1>5, <1>6 DEF Scanned, acc
<1>8. ToSet(acc.words) \cup UNION {ToSet(sec.words) : sec \in ToSet(acc.done)}
        \subseteq UNION {ToSet(sec.words) : sec \in all}
  <2> DEFINE done == ToSet(acc.done)
             sections == all
  <2>1. /\ end.words = <<>> => sections = done
        /\ end.words # <<>> => sections = done \cup {end}
    BY <1>6
  <2>2. end.words = acc.words
    OBVIOUS
  <2> HIDE DEF end, done, sections
  <2>3. ToSet(end.words) \cup UNION {ToSet(sec.words) : sec \in done}
           \subseteq UNION {ToSet(sec.words) : sec \in sections}
    BY <2>1, Gathered
  <2> QED BY <2>2, <2>3 DEF done, sections
<1>9. ASSUME NEW i \in LinesFrom(d), d.lines[i].kind = "text"
      PROVE  Among(d, i, all)
  <2>1. ToSet(WordsOf(d, i)) \subseteq
          ToSet(acc.words) \cup UNION {ToSet(sec.words) : sec \in ToSet(acc.done)}
    BY <1>0, <1>5, <1>9 DEF Scanned, acc
  <2> QED BY <1>8, <2>1 DEF Among
<1> QED BY <1>6, <1>7, <1>9 DEF all

-----------------------------------------------------------------------------
(* Windows *)

LEMMA StrideIs ==
  /\ Stride(MaxTokens, OverlapTokens) \in 1 .. MaxTokens
  /\ MaxTokens \in Nat
<1>1. /\ MinStep \in Int /\ MaxTokens - OverlapTokens \in Int /\ MaxTokens \in Nat
      /\ 1 <= MinStep /\ MinStep <= MaxTokens /\ MaxTokens - OverlapTokens <= MaxTokens
  BY ExportAssumption
<1> DEFINE a == MinStep
           b == MaxTokens - OverlapTokens
<1>2. Max({a, b}) = IF a >= b THEN a ELSE b
  <2>1. a \in Int /\ b \in Int
    BY <1>1
  <2> HIDE DEF a, b
  <2> QED BY <2>1, TwoMax
<1>3. Stride(MaxTokens, OverlapTokens) = Max({a, b})
  BY DEF Stride
<1> QED BY <1>1, <1>2, <1>3

(* The windows of a section hold its words, all of them, and no more than   *)
(* MaxTokens each.                                                          *)
LEMMA WindowsFaithful ==
  ASSUME NEW d, NEW sec \in Pieces(d), sec.words # <<>>
  PROVE  /\ Windows(sec) \in Seq(Pieces(d))
         /\ \A c \in ToSet(Windows(sec)) :
              /\ c.section = sec.section /\ Len(c.words) <= MaxTokens
              /\ ToSet(c.words) \subseteq ToSet(sec.words)
         /\ ToSet(sec.words) \subseteq UNION {ToSet(c.words) : c \in ToSet(Windows(sec))}
<1> DEFINE words == sec.words
           n == Len(words)
           step == Stride(MaxTokens, OverlapTokens)
           last == (n - 1) \div step
           End(i) == Min({n, (i - 1) * step + MaxTokens})
           Window(i) == [section |-> sec.section,
                         words |-> SubSeq(words, (i - 1) * step + 1, End(i))]
<1>1. /\ words \in Seq(Words) /\ n \in Nat \ {0} /\ sec.section \in Names(d)
      /\ step \in 1 .. MaxTokens /\ MaxTokens \in Nat
  BY StrideIs DEF Pieces
<1>2. Windows(sec) = [i \in 1 .. last + 1 |-> Window(i)]
  BY DEF Windows
<1> HIDE DEF step, words
<1>3. last \in Nat
  BY <1>1, Division
<1> HIDE DEF last
<1>4. ASSUME NEW i \in 1 .. last + 1
      PROVE  /\ (i - 1) * step \in Nat
             /\ End(i) = IF n >= (i - 1) * step + MaxTokens THEN (i - 1) * step + MaxTokens ELSE n
  <2>1. i - 1 \in Nat /\ step \in Nat
    BY <1>1, <1>3
  <2>2. (i - 1) * step \in Nat
    BY <2>1
  <2> DEFINE e == (i - 1) * step + MaxTokens
  <2>3. e \in Int /\ n \in Int
    BY <1>1, <2>2
  <2> HIDE DEF e, n
  <2>4. Min({n, e}) = IF n >= e THEN e ELSE n
    BY <2>3, TwoMin
  <2> QED BY <2>2, <2>4 DEF e
<1>5. ASSUME NEW i \in 1 .. last + 1
      PROVE  /\ Window(i) \in Pieces(d) /\ Len(Window(i).words) <= MaxTokens
             /\ ToSet(Window(i).words) \subseteq ToSet(words)
             /\ \A k \in 1 .. n : (i - 1) * step < k /\ k <= (i - 1) * step + MaxTokens =>
                  words[k] \in ToSet(Window(i).words)
  <2> DEFINE a == (i - 1) * step
             e == End(i)
             sub == SubSeq(words, a + 1, e)
  <2>1. a \in Nat /\ e \in Int /\ e <= n /\ e <= a + MaxTokens
        /\ \A k \in 1 .. n : k <= a + MaxTokens => k <= e
    BY <1>1, <1>4
  <2> HIDE DEF a, e, End
  <2>2. /\ sub \in Seq(Words) /\ Len(sub) <= MaxTokens
        /\ DOMAIN sub = 1 .. (e - a) /\ \A k \in 1 .. (e - a) : sub[k] = words[a + k]
    <3>1. CASE a + 1 <= e
      BY <1>1, <2>1, <3>1
    <3>2. CASE ~(a + 1 <= e)
      BY <1>1, <2>1, <3>2
    <3> QED BY <3>1, <3>2
  <2>3. Window(i) = [section |-> sec.section, words |-> sub]
    BY DEF a, e
  <2> HIDE DEF sub, Window
  <2>4. ToSet(sub) \subseteq ToSet(words)
    <3>1. \A k \in DOMAIN sub : sub[k] \in ToSet(words)
      <4>1. \A k \in 1 .. (e - a) : a + k \in 1 .. n
        BY <2>1, <1>1
      <4>2. DOMAIN words = 1 .. n
        BY <1>1
      <4> HIDE DEF n
      <4> QED BY <2>2, <4>1, <4>2 DEF ToSet
    <3> QED BY <3>1 DEF ToSet
  <2>5. ASSUME NEW k \in 1 .. n, a < k, k <= a + MaxTokens
        PROVE  words[k] \in ToSet(sub)
    <3>1. k - a \in 1 .. (e - a) /\ a + (k - a) = k
      BY <1>1, <2>1, <2>5
    <3>2. sub[k - a] = words[k] /\ k - a \in DOMAIN sub
      BY <2>2, <3>1
    <3> QED BY <3>2 DEF ToSet
  <2>6. Window(i).words = sub /\ Window(i) \in Pieces(d)
    BY <1>1, <2>2, <2>3 DEF Pieces
  <2> HIDE DEF n
  <2> QED BY <2>2, <2>4, <2>5, <2>6 DEF a
<1>6. Windows(sec) \in Seq(Pieces(d)) /\ DOMAIN Windows(sec) = 1 .. last + 1
      /\ \A i \in 1 .. last + 1 : Windows(sec)[i] = Window(i)
  <2>1. \A i \in 1 .. last + 1 : Window(i) \in Pieces(d)
    BY <1>5
  <2> HIDE DEF Window
  <2> QED BY <1>2, <1>3, <2>1
<1>7. \A i \in 1 .. last + 1 : Window(i).section = sec.section
  OBVIOUS
<1> HIDE DEF Window
<1>8. \A c \in ToSet(Windows(sec)) :
        /\ c.section = sec.section /\ Len(c.words) <= MaxTokens
        /\ ToSet(c.words) \subseteq ToSet(words)
  <2>1. \A c \in ToSet(Windows(sec)) : \E i \in 1 .. last + 1 : c = Window(i)
    BY <1>6 DEF ToSet
  <2> QED BY <1>5, <1>7, <2>1
<1>9. ASSUME NEW k \in 1 .. n
      PROVE  \E c \in ToSet(Windows(sec)) : words[k] \in ToSet(c.words)
  <2> DEFINE q == (k - 1) \div step
  <2>1. q \in Nat /\ q * step <= k - 1 /\ k - 1 < q * step + step
    BY <1>1, Division
  <2>2. q <= last
    <3>1. k - 1 \in Nat /\ n - 1 \in Nat /\ k - 1 <= n - 1 /\ step \in Nat \ {0}
      BY <1>1
    <3> HIDE DEF n
    <3> QED BY <3>1, DivisionUp DEF last
  <2> HIDE DEF q
  <2>3. q + 1 \in 1 .. last + 1 /\ (q + 1) - 1 = q
    BY <1>3, <2>1, <2>2
  <2>4. q * step < k /\ k <= q * step + MaxTokens
    <3> DEFINE m == q * step
    <3>1. m \in Nat
      BY <1>1, <2>1
    <3>2. m <= k - 1 /\ k - 1 < m + step
      BY <2>1
    <3> HIDE DEF m
    <3>3. m < k /\ k <= m + MaxTokens
      BY <1>1, <3>1, <3>2
    <3> QED BY <3>3 DEF m
  <2>5. words[k] \in ToSet(Window(q + 1).words)
    BY <1>5, <2>3, <2>4
  <2>6. Window(q + 1) \in ToSet(Windows(sec))
    BY <1>6, <2>3 DEF ToSet
  <2> QED BY <2>5, <2>6
<1>10. ToSet(words) \subseteq UNION {ToSet(c.words) : c \in ToSet(Windows(sec))}
  <2>1. DOMAIN words = 1 .. n
    BY <1>1
  <2>2. \A w \in ToSet(words) : \E k \in 1 .. n : w = words[k]
    BY <2>1 DEF ToSet
  <2> QED BY <1>9, <2>2
<1> QED BY <1>6, <1>8, <1>10 DEF words

-----------------------------------------------------------------------------
(* Chunks *)

Full(d) == {sec \in Pieces(d) : sec.words # <<>>}

LEMMA FullSections ==
  ASSUME NEW d, Document(d)
  PROVE  Sections(d) \in Seq(Full(d))
<1> DEFINE p == Sections(d)
<1>1. p \in Seq(Pieces(d)) /\ \A sec \in ToSet(p) : sec.words # <<>>
  BY SectionsFaithful
<1> HIDE DEF p
<1>2. \A i \in 1 .. Len(p) : p[i] \in Full(d)
  <2>1. DOMAIN p = 1 .. Len(p)
    BY <1>1
  <2>2. \A i \in DOMAIN p : p[i] \in ToSet(p)
    BY DEF ToSet
  <2>3. \A i \in 1 .. Len(p) : p[i] \in Pieces(d)
    BY <1>1
  <2> QED BY <1>1, <2>1, <2>2, <2>3 DEF Full
<1>3. p \in Seq(Full(d))
  BY <1>1, <1>2
<1> QED BY <1>3 DEF p

(* chunk_markdown cuts the sections one by one. *)
LEMMA CutFold ==
  ASSUME NEW d, NEW p \in Seq(Full(d))
  PROVE  \E f \in [0 .. Len(p) -> Seq(Pieces(d))] :
           /\ f[0] = <<>> /\ FoldLeft(Cut, <<>>, p) = f[Len(p)]
           /\ \A n \in 0 .. Len(p) - 1 : f[n + 1] = Cut(f[n], p[n + 1])
<1> DEFINE N == Len(p)
           S == Seq(Pieces(d))
           base == <<>>
           Q(s, it) == IF s = {} THEN <<>> ELSE Cut(it[s \ {Max(s)}], p[Max(s)])
           step == [x \in S \X (1 .. N) |-> Cut(x[1], p[x[2]])]
           iter == CHOOSE it : it = [s \in SUBSET (1 .. N) |-> Q(s, it)]
<1>1. FoldLeft(Cut, <<>>, p) = iter[1 .. N]
  <2>1. DOMAIN p = 1 .. N
    OBVIOUS
  <2> QED BY <2>1 DEF FoldLeft, MapThenFoldSet
<1>2. N \in Nat /\ base \in S /\ StepOn(S, N, step)
  <2>1. ASSUME NEW o \in S, NEW i \in 1 .. N
        PROVE  Cut(o, p[i]) \in S
    <3>1. p[i] \in Pieces(d) /\ p[i].words # <<>>
      BY DEF Full
    <3>2. Windows(p[i]) \in S
      BY <3>1, WindowsFaithful
    <3> QED BY <3>2 DEF Cut
  <2>2. step \in [S \X (1 .. N) -> S]
    BY <2>1
  <2> HIDE DEF step
  <2> QED BY <2>2 DEF StepOn
<1>3. \E g : Iterates(g, S, base, N, step)
  <2> HIDE DEF S, base, N, step
  <2> QED BY <1>2, Iteration
<1> PICK g : Iterates(g, S, base, N, step)
  BY <1>3
<1> HIDE DEF step
<1>4. ASSUME NEW it, NEW s \in SUBSET (1 .. N), s # {}, it[s \ {Max(s)}] \in S
      PROVE  Q(s, it) = step[<<it[s \ {Max(s)}], Max(s)>>]
  <2>1. <<it[s \ {Max(s)}], Max(s)>> \in S \X (1 .. N)
    BY <1>2, <1>4, MaxOf
  <2> QED BY <1>4, <2>1 DEF step
<1>5. g = [s \in SUBSET (1 .. N) |-> Q(s, g)]
  <2>1. ASSUME NEW s \in SUBSET (1 .. N)
        PROVE  g[s] = Q(s, g)
    BY <1>4 DEF Iterates
  <2> QED BY <2>1, Zenon DEF Iterates
<1>6. iter = [s \in SUBSET (1 .. N) |-> Q(s, iter)]
  <2> HIDE DEF Q
  <2> QED BY <1>5
<1> HIDE DEF iter
<1>7. Follows(iter, S, base, N, step)
  <2>1. iter[{}] = base
    BY <1>6
  <2>2. ASSUME NEW s \in SUBSET (1 .. N), s # {}, iter[s \ {Max(s)}] \in S
        PROVE  iter[s] = step[<<iter[s \ {Max(s)}], Max(s)>>]
    <3>1. iter[s] = Q(s, iter)
      BY <1>6
    <3> QED BY <1>4, <2>2, <3>1
  <2> QED BY <2>1, <2>2 DEF Follows
<1>8. PICK f : Stepwise(f, S, base, N, step) /\ f[N] = iter[1 .. N]
  <2> HIDE DEF S, base, N
  <2> QED BY <1>2, <1>7, StepByStep
<1>9. ASSUME NEW n \in 0 .. N - 1
      PROVE  f[n + 1] = Cut(f[n], p[n + 1])
  <2>1. f[n] \in S /\ n + 1 \in 1 .. N
    <3> HIDE DEF S, N
    <3> QED BY <1>2, <1>8 DEF Stepwise
  <2> QED BY <1>8, <2>1 DEF step, Stepwise
<1> QED BY <1>1, <1>8, <1>9 DEF Stepwise

(* The chunks are the windows of the sections. *)
LEMMA ChunksAre ==
  ASSUME NEW d, Document(d)
  PROVE  Chunks(d) = UNION {ToSet(Windows(sec)) : sec \in ToSet(Sections(d))}
<1> DEFINE p == Sections(d)
           N == Len(p)
<1>0. p \in Seq(Full(d))
  BY FullSections
<1>c. Chunks(d) = ToSet(FoldLeft(Cut, <<>>, p))
  BY DEF Chunks, chunk_markdown
<1> HIDE DEF p
<1>1. PICK f \in [0 .. N -> Seq(Pieces(d))] :
        /\ f[0] = <<>> /\ FoldLeft(Cut, <<>>, p) = f[N]
        /\ \A n \in 0 .. N - 1 : f[n + 1] = Cut(f[n], p[n + 1])
  BY <1>0, CutFold
<1>2. N \in Nat /\ DOMAIN p = 1 .. N
  BY <1>0
<1> DEFINE upto(n) == UNION {ToSet(Windows(p[i])) : i \in 1 .. n}
           Good == {n \in 0 .. N : ToSet(f[n]) = upto(n)}
<1>3. 0 \in Good
  <2>1. upto(0) = {}
    OBVIOUS
  <2>2. ToSet(f[0]) = {}
    BY <1>1, ToSetEmpty
  <2> HIDE DEF N
  <2> QED BY <1>2, <2>1, <2>2
<1>4. ASSUME NEW n \in 0 .. N - 1, n \in Good
      PROVE  n + 1 \in Good
  <2>0. n \in 0 .. N /\ n + 1 \in 1 .. N /\ n + 1 \in 0 .. N
    <3> HIDE DEF N
    <3> QED BY <1>2
  <2>1. f[n] \in Seq(Pieces(d)) /\ f[n + 1] = f[n] \o Windows(p[n + 1]) /\ n + 1 \in 1 .. N
    <3> HIDE DEF N
    <3> QED BY <1>1, <2>0 DEF Cut
  <2>2. Windows(p[n + 1]) \in Seq(Pieces(d))
    BY <1>0, <2>1, WindowsFaithful DEF Full
  <2>3. ToSet(f[n] \o Windows(p[n + 1])) = ToSet(f[n]) \cup ToSet(Windows(p[n + 1]))
    BY <2>1, <2>2, ToSetConcat
  <2>4. upto(n + 1) = upto(n) \cup ToSet(Windows(p[n + 1]))
    <3>1. 1 .. n + 1 = (1 .. n) \cup {n + 1}
      OBVIOUS
    <3> HIDE DEF N
    <3> QED BY <3>1
  <2>5. ToSet(f[n + 1]) = upto(n + 1)
    BY <1>4, <2>1, <2>3, <2>4
  <2> HIDE DEF N, upto
  <2> QED BY <2>0, <2>5
<1> HIDE DEF Good
<1>5. N \in Good
  <2> HIDE DEF N
  <2>1. 0 .. N \subseteq Good
    BY <1>2, <1>3, <1>4, InductionUpTo
  <2> QED BY <1>2, <2>1
<1>6. ToSet(f[N]) = upto(N)
  BY <1>5 DEF Good
<1>7. upto(N) = UNION {ToSet(Windows(sec)) : sec \in ToSet(p)}
  <2>1. ToSet(p) = {p[i] : i \in 1 .. N}
    BY <1>2 DEF ToSet
  <2> HIDE DEF N
  <2> QED BY <2>1
<1> HIDE DEF upto, N
<1> QED BY <1>c, <1>1, <1>6, <1>7 DEF p

(* What is said of a document by ChunksFaithful. *)
LEMMA ChunkingFaithful ==
  ASSUME NEW d, Document(d)
  PROVE  /\ \A i \in LinesFrom(d) : d.lines[i].kind = "text" =>
              ToSet(WordsOf(d, i)) \subseteq UNION {ToSet(c.words) : c \in Chunks(d)}
         /\ \A c \in Chunks(d) :
              /\ Len(c.words) <= MaxTokens
              /\ \A w \in ToSet(c.words) : c.section = HashAbove(d, w[1])
<1> DEFINE secs == ToSet(Sections(d))
<1>1. \A sec \in secs : sec \in Pieces(d) /\ sec.words # <<>> /\ Under(d, sec.section, sec.words)
  <2>1. \A i \in DOMAIN Sections(d) : Sections(d)[i] \in Pieces(d)
    BY SectionsFaithful
  <2>2. secs \subseteq Pieces(d)
    BY <2>1 DEF ToSet
  <2> QED BY <2>2, SectionsFaithful
<1>2. \A i \in LinesFrom(d) : d.lines[i].kind = "text" => Among(d, i, secs)
  BY SectionsFaithful
<1>3. Chunks(d) = UNION {ToSet(Windows(sec)) : sec \in secs}
  BY ChunksAre
<1> HIDE DEF secs
<1>4. ASSUME NEW i \in LinesFrom(d), d.lines[i].kind = "text", NEW w \in ToSet(WordsOf(d, i))
      PROVE  \E c \in Chunks(d) : w \in ToSet(c.words)
  <2>1. PICK sec \in secs : w \in ToSet(sec.words)
    BY <1>2, <1>4 DEF Among
  <2>2. ToSet(sec.words) \subseteq UNION {ToSet(c.words) : c \in ToSet(Windows(sec))}
    BY <1>1, WindowsFaithful
  <2>3. PICK c \in ToSet(Windows(sec)) : w \in ToSet(c.words)
    BY <2>1, <2>2
  <2> QED BY <1>3, <2>3
<1>5. ASSUME NEW c \in Chunks(d)
      PROVE  /\ Len(c.words) <= MaxTokens
             /\ \A w \in ToSet(c.words) : c.section = HashAbove(d, w[1])
  <2>1. PICK sec \in secs : c \in ToSet(Windows(sec))
    BY <1>3
  <2>2. /\ c.section = sec.section /\ Len(c.words) <= MaxTokens
        /\ ToSet(c.words) \subseteq ToSet(sec.words)
    BY <1>1, <2>1, WindowsFaithful
  <2> QED BY <1>1, <2>2 DEF Under
<1> QED BY <1>4, <1>5

-----------------------------------------------------------------------------
(* Lists of documents in the order of the document list *)

(* The language filter goes through the documents one by one. *)
LEMMA KeepFold ==
  ASSUME NEW D, NEW p \in Seq(D)
  PROVE  \E f \in [0 .. Len(p) -> Seq(D)] :
           /\ f[0] = <<>> /\ FilteredStrictly(p) = f[Len(p)]
           /\ \A n \in 0 .. Len(p) - 1 : f[n + 1] = Keep(f[n], p[n + 1])
<1> DEFINE N == Len(p)
           S == Seq(D)
           base == <<>>
           Q(s, it) == IF s = {} THEN <<>> ELSE Keep(it[s \ {Max(s)}], p[Max(s)])
           step == [x \in S \X (1 .. N) |-> Keep(x[1], p[x[2]])]
           iter == CHOOSE it : it = [s \in SUBSET (1 .. N) |-> Q(s, it)]
<1>1. FilteredStrictly(p) = iter[1 .. N]
  <2>1. DOMAIN p = 1 .. N
    OBVIOUS
  <2> QED BY <2>1 DEF FilteredStrictly, FoldLeft, MapThenFoldSet
<1>2. N \in Nat /\ base \in S /\ StepOn(S, N, step)
  <2>1. ASSUME NEW o \in S, NEW i \in 1 .. N
        PROVE  Keep(o, p[i]) \in S
    BY DEF Keep
  <2>2. step \in [S \X (1 .. N) -> S]
    BY <2>1
  <2> HIDE DEF step
  <2> QED BY <2>2 DEF StepOn
<1>3. \E g : Iterates(g, S, base, N, step)
  <2> HIDE DEF S, base, N, step
  <2> QED BY <1>2, Iteration
<1> PICK g : Iterates(g, S, base, N, step)
  BY <1>3
<1> HIDE DEF step
<1>4. ASSUME NEW it, NEW s \in SUBSET (1 .. N), s # {}, it[s \ {Max(s)}] \in S
      PROVE  Q(s, it) = step[<<it[s \ {Max(s)}], Max(s)>>]
  <2>1. <<it[s \ {Max(s)}], Max(s)>> \in S \X (1 .. N)
    BY <1>2, <1>4, MaxOf
  <2> QED BY <1>4, <2>1 DEF step
<1>5. g = [s \in SUBSET (1 .. N) |-> Q(s, g)]
  <2>1. ASSUME NEW s \in SUBSET (1 .. N)
        PROVE  g[s] = Q(s, g)
    BY <1>4 DEF Iterates
  <2> QED BY <2>1, Zenon DEF Iterates
<1>6. iter = [s \in SUBSET (1 .. N) |-> Q(s, iter)]
  <2> HIDE DEF Q
  <2> QED BY <1>5
<1> HIDE DEF iter
<1>7. Follows(iter, S, base, N, step)
  <2>1. iter[{}] = base
    BY <1>6
  <2>2. ASSUME NEW s \in SUBSET (1 .. N), s # {}, iter[s \ {Max(s)}] \in S
        PROVE  iter[s] = step[<<iter[s \ {Max(s)}], Max(s)>>]
    <3>1. iter[s] = Q(s, iter)
      BY <1>6
    <3> QED BY <1>4, <2>2, <3>1
  <2> QED BY <2>1, <2>2 DEF Follows
<1>8. PICK f : Stepwise(f, S, base, N, step) /\ f[N] = iter[1 .. N]
  <2> HIDE DEF S, base, N
  <2> QED BY <1>2, <1>7, StepByStep
<1>9. ASSUME NEW n \in 0 .. N - 1
      PROVE  f[n + 1] = Keep(f[n], p[n + 1])
  <2>1. f[n] \in S /\ n + 1 \in 1 .. N
    <3> HIDE DEF S, N
    <3> QED BY <1>2, <1>8 DEF Stepwise
  <2> QED BY <1>8, <2>1 DEF step, Stepwise
<1> QED BY <1>1, <1>8, <1>9 DEF Stepwise

(* s is part of the first n documents of l, in their order. *)
Embeds(s, l, n) ==
  \E at \in [DOMAIN s -> 1 .. n] :
    \A i, j \in DOMAIN s : s[i] = l[at[i]] /\ (i < j => at[i] < at[j])

LEMMA KeptInOrder ==
  ASSUME NEW D, NEW l \in Seq(D)
  PROVE  FilteredStrictly(l) \in Seq(D) /\ Embeds(FilteredStrictly(l), l, Len(l))
<1> DEFINE N == Len(l)
<1>1. PICK f \in [0 .. N -> Seq(D)] :
        /\ f[0] = <<>> /\ FilteredStrictly(l) = f[N]
        /\ \A n \in 0 .. N - 1 : f[n + 1] = Keep(f[n], l[n + 1])
  BY KeepFold
<1>2. N \in Nat /\ \A n \in 1 .. N : l[n] \in D
  OBVIOUS
<1> HIDE DEF N
<1> DEFINE Good == {n \in 0 .. N : Embeds(f[n], l, n)}
<1>3. 0 \in Good
  <2>1. DOMAIN f[0] = {}
    BY <1>1
  <2>2. [i \in {} |-> 0] \in [DOMAIN f[0] -> 1 .. 0]
    BY <2>1
  <2>3. Embeds(f[0], l, 0)
    BY <2>1, <2>2 DEF Embeds
  <2> QED BY <1>2, <2>3
<1>4. ASSUME NEW n \in 0 .. N - 1, n \in Good
      PROVE  n + 1 \in Good
  <2> DEFINE s == f[n]
             x == l[n + 1]
  <2>1. /\ n \in Nat /\ n + 1 \in 0 .. N /\ s \in Seq(D) /\ x \in D
        /\ f[n + 1] = Keep(s, x) /\ Embeds(s, l, n)
    BY <1>1, <1>2, <1>4
  <2>2. PICK at \in [DOMAIN s -> 1 .. n] :
          \A i, j \in DOMAIN s : s[i] = l[at[i]] /\ (i < j => at[i] < at[j])
    BY <2>1 DEF Embeds
  <2> HIDE DEF s
  <2>3. CASE f[n + 1] = s
    <3>1. at \in [DOMAIN s -> 1 .. n + 1]
      BY <2>1
    <3>2. Embeds(s, l, n + 1)
      BY <2>2, <3>1 DEF Embeds
    <3> QED BY <2>1, <2>3, <3>2
  <2>4. CASE f[n + 1] = Append(s, x)
    <3> DEFINE r == Append(s, x)
               new == [i \in DOMAIN r |-> IF i \in DOMAIN s THEN at[i] ELSE n + 1]
    <3>1. /\ DOMAIN s = 1 .. Len(s) /\ DOMAIN r = 1 .. Len(s) + 1 /\ Len(s) \in Nat
          /\ r[Len(s) + 1] = x /\ \A i \in 1 .. Len(s) : r[i] = s[i]
      BY <2>1
    <3>2. new \in [DOMAIN r -> 1 .. n + 1]
      BY <2>1, <2>2, <3>1
    <3>3. ASSUME NEW i \in DOMAIN r, NEW j \in DOMAIN r
          PROVE  r[i] = l[new[i]] /\ (i < j => new[i] < new[j])
      <4>1. CASE i \in DOMAIN s /\ j \in DOMAIN s
        <5>1. new[i] = at[i] /\ new[j] = at[j] /\ r[i] = s[i]
          BY <3>1, <4>1
        <5> HIDE DEF new, r
        <5> QED BY <2>2, <4>1, <5>1
      <4>2. CASE i \in DOMAIN s /\ j \notin DOMAIN s
        <5>1. new[i] = at[i] /\ new[j] = n + 1 /\ r[i] = s[i] /\ at[i] \in 1 .. n
          BY <3>1, <4>2
        <5> HIDE DEF new, r
        <5> QED BY <2>1, <2>2, <4>2, <5>1
      <4>3. CASE i \notin DOMAIN s
        <5>1. new[i] = n + 1 /\ r[i] = x /\ ~(i < j)
          BY <3>1, <4>3
        <5> HIDE DEF new, r
        <5> QED BY <5>1
      <4> QED BY <4>1, <4>2, <4>3
    <3> HIDE DEF new, r
    <3>4. Embeds(r, l, n + 1)
      BY <3>2, <3>3 DEF Embeds
    <3> QED BY <2>1, <2>4, <3>4 DEF r
  <2> QED BY <2>1, <2>3, <2>4 DEF Keep
<1> HIDE DEF Good
<1>5. 0 .. N \subseteq Good
  BY <1>2, <1>3, <1>4, InductionUpTo
<1>6. N \in Good /\ f[N] \in Seq(D)
  BY <1>1, <1>2, <1>5
<1>7. Embeds(f[N], l, N)
  BY <1>6 DEF Good
<1> QED BY <1>1, <1>6, <1>7 DEF N

(* What an export works on: documents of the list, in its order, and never  *)
(* none.                                                                    *)
LEMMA FilteredIs ==
  ASSUME NEW D, NEW l \in Seq(D), l # <<>>
  PROVE  Filtered(l) \in Seq(D) /\ Filtered(l) # <<>> /\ Embeds(Filtered(l), l, Len(l))
<1> DEFINE kept == FilteredStrictly(l)
<1>1. kept \in Seq(D) /\ Embeds(kept, l, Len(l))
  BY KeptInOrder
<1>2. Embeds(l, l, Len(l))
  <2>1. [i \in DOMAIN l |-> i] \in [DOMAIN l -> 1 .. Len(l)]
    OBVIOUS
  <2> QED BY <2>1 DEF Embeds
<1>3. Filtered(l) = IF Languages = {} \/ kept = <<>> THEN l ELSE kept
  BY DEF Filtered
<1> HIDE DEF kept
<1> QED BY <1>1, <1>2, <1>3

(* The lists of documents are sequences. *)
TypedLists == \A l \in Lists : l \in Seq(ToSet(l))

ListInv ==
  /\ ThreadsOK
  /\ list = <<>> \/ list \in Lists
  /\ \A t \in Threads : InListOrder(docs[t]) /\ (pc[t] # "idle" => docs[t] # <<>>)
  /\ \A f \in Files : files[f] \in {Absent, Torn} \/ \E s : files[f] = Holds(s) /\ InListOrder(s)

LEMMA ListIs ==
  ASSUME TypedLists, list = <<>> \/ list \in Lists
  PROVE  list \in Seq(ToSet(list)) /\ Len(list) \in Nat /\ DOMAIN list = 1 .. Len(list)
<1>1. <<>> \in Seq(ToSet(<<>>))
  BY ToSetEmpty
<1>2. list \in Seq(ToSet(list))
  BY <1>1 DEF TypedLists
<1> QED BY <1>2

LEMMA NothingInOrder == InListOrder(<<>>)
<1>1. DOMAIN <<>> = {}
  OBVIOUS
<1>2. [i \in {} |-> 0] \in [DOMAIN <<>> -> DOMAIN list]
  BY <1>1
<1> QED BY <1>1, <1>2 DEF InListOrder

(* A new document stands before those that are there. *)
LEMMA CommitKeepsOrder ==
  ASSUME TypedLists, list = <<>> \/ list \in Lists, NEW longer \in Lists, Commit(longer),
         NEW s, InListOrder(s)
  PROVE  InListOrder(s)'
<1>1. list' = longer /\ Tail(longer) = list /\ longer \in Seq(ToSet(longer)) /\ longer # <<>>
  BY ExportAssumption DEF Commit, TypedLists
<1>2. /\ DOMAIN list' = 1 .. Len(list) + 1 /\ DOMAIN list = 1 .. Len(list) /\ Len(list) \in Nat
      /\ \A i \in 1 .. Len(list) : list'[i + 1] = list[i]
  BY <1>1
<1>3. PICK at \in [DOMAIN s -> DOMAIN list] :
        \A i, j \in DOMAIN s : s[i] = list[at[i]] /\ (i < j => at[i] < at[j])
  BY DEF InListOrder
<1> DEFINE new == [i \in DOMAIN s |-> at[i] + 1]
<1>4. new \in [DOMAIN s -> DOMAIN list'] /\ \A i \in DOMAIN s : at[i] \in 1 .. Len(list)
  BY <1>2, <1>3
<1>5. \A i, j \in DOMAIN s : s[i] = list'[new[i]] /\ (i < j => new[i] < new[j])
  BY <1>2, <1>3, <1>4
<1> HIDE DEF new
<1>6. \E g \in [DOMAIN s -> DOMAIN list'] :
        \A i, j \in DOMAIN s : s[i] = list'[g[i]] /\ (i < j => g[i] < g[j])
  BY <1>4, <1>5
<1> QED BY <1>6 DEF InListOrder

LEMMA ListStep ==
  ASSUME TypedLists, ListInv, [Next]_vars
  PROVE  ListInv'
<1>0. ThreadsOK /\ ThreadsOK'
  BY ThreadsStep DEF ListInv
<1> DEFINE Ordered(s) == InListOrder(s)
<1>1. ASSUME UNCHANGED list, NEW s, InListOrder(s)
      PROVE  InListOrder(s)'
  BY <1>1 DEF InListOrder
<1>2. CASE UNCHANGED vars
  <2>1. UNCHANGED <<list, pc, docs, files>>
    BY <1>2 DEF vars
  <2> QED BY <1>0, <1>1, <2>1 DEF ListInv
<1>3. ASSUME NEW longer \in Lists, Commit(longer)
      PROVE  ListInv'
  <2>1. \A s : InListOrder(s) => InListOrder(s)'
    BY <1>3, CommitKeepsOrder DEF ListInv
  <2>2. list' \in Lists /\ UNCHANGED <<pc, docs, files>>
    BY <1>3 DEF Commit
  <2> QED BY <1>0, <2>1, <2>2 DEF ListInv
<1>4. ASSUME NEW t \in Threads, Read(t)
      PROVE  ListInv'
  <2> DEFINE new == Filtered(list)
  <2>1. /\ UNCHANGED <<list, files>> /\ list # <<>> /\ pc[t] = "idle"
        /\ docs' = [docs EXCEPT ![t] = new] /\ pc' = [pc EXCEPT ![t] = "markdown"]
    BY <1>4 DEF Read
  <2>2. new # <<>> /\ Embeds(new, list, Len(list)) /\ DOMAIN list = 1 .. Len(list)
    BY <2>1, ListIs, FilteredIs DEF ListInv
  <2> HIDE DEF new
  <2>3. InListOrder(new)
    BY <2>2 DEF Embeds, InListOrder
  <2>4. \A u \in Threads : docs'[u] = IF u = t THEN new ELSE docs[u]
    BY <2>1 DEF ListInv, ThreadsOK
  <2>5. \A u \in Threads \ {t} : pc'[u] = pc[u]
    BY <2>1 DEF ListInv, ThreadsOK
  <2>6. \A s : InListOrder(s) => InListOrder(s)'
    BY <1>1, <2>1
  <2> QED BY <1>0, <2>1, <2>2, <2>3, <2>4, <2>5, <2>6 DEF ListInv
<1>5. ASSUME NEW t \in Threads, Open(t) \/ Write(t) \/ Finish(t)
      PROVE  ListInv'
  <2>1. UNCHANGED list
    BY <1>5 DEF Open, Write, Finish
  <2>2. \A s : InListOrder(s) => InListOrder(s)'
    BY <1>1, <2>1
  <2>3. \E f \in Files : \E c \in {Holds(<<>>), Torn, Holds(docs[t])} :
          files' = [files EXCEPT ![f] = c]
    <3>1. "corpus" \in Files /\ FileAt(t) \in Files
      BY FileNames DEF Files
    <3>2. Contents(t, docs[t]) \subseteq {Holds(docs[t]), Torn}
      BY DEF Contents
    <3> QED BY <1>5, <3>1, <3>2 DEF Open, Write, Finish
  <2>4. PICK f \in Files : \E c \in {Holds(<<>>), Torn, Holds(docs[t])} :
          files' = [files EXCEPT ![f] = c]
    BY <2>3
  <2>5. files'[f] \in {Holds(<<>>), Torn, Holds(docs[t])}
        /\ \A g \in Files \ {f} : files'[g] = files[g]
    BY <2>4 DEF ThreadsOK, ListInv
  <2>6. \A g \in Files :
          files'[g] \in {Absent, Torn} \/ \E s : files'[g] = Holds(s) /\ InListOrder(s)
    BY <2>5, NothingInOrder DEF ListInv
  <2>7. /\ \A u \in Threads \ {t} : pc'[u] = pc[u] /\ docs'[u] = docs[u]
        /\ docs'[t] = docs[t] \/ (docs'[t] = <<>> /\ pc'[t] = "idle")
        /\ pc[t] # "idle"
    BY <1>0, <1>5, Stages DEF Open, Write, Finish, ThreadsOK
  <2>8. \A u \in Threads : InListOrder(docs'[u]) /\ (pc'[u] # "idle" => docs'[u] # <<>>)
    BY <2>7, NothingInOrder DEF ListInv
  <2> QED BY <1>0, <2>1, <2>2, <2>6, <2>8 DEF ListInv
<1> QED BY <1>2, <1>3, <1>4, <1>5 DEF Next

LEMMA ListInvariant ==
  ASSUME TypedLists
  PROVE  Spec => []ListInv
<1>1. Init => ListInv
  <2>1. Init => ThreadsOK
    BY FS_EmptySet DEF Init, ThreadsOK
  <2> QED BY <2>1, NothingInOrder DEF Init, ListInv
<1>2. ListInv /\ [Next]_vars => ListInv'
  BY ListStep
<1> QED BY <1>1, <1>2, PTL DEF Spec

(* An export never works on nothing, and what it leaves are documents of    *)
(* the list in its order, whatever the parser appends meanwhile.            *)
THEOREM ExportsTyped ==
  ASSUME TypedLists
  PROVE  Spec => []TypeOK
<1>1. ListInv => TypeOK
  <2> SUFFICES ASSUME ListInv PROVE TypeOK
    OBVIOUS
  <2>1. pc \in [Threads -> {"idle", "markdown", "writing markdown", "chunks", "writing chunks",
                            "corpus", "writing corpus"}]
    BY Stages DEF ListInv, ThreadsOK, Writing
  <2>2. ASSUME NEW s, InListOrder(s)
        PROVE  ToSet(s) \subseteq ToSet(list)
    BY <2>2 DEF InListOrder, ToSet
  <2>3. \A s : Holds(s).docs = s
    BY DEF Holds
  <2> QED BY <2>1, <2>2, <2>3 DEF ListInv, TypeOK
<1> QED BY <1>1, ListInvariant, PTL

(* Lists of documents, and of such without comments that look like headings.*)
DocumentLists == \A l \in Lists : l \in Seq(ToSet(l)) /\ \A i \in DOMAIN l : Document(l[i])
CommentlessLists == DocumentLists /\ \A l \in Lists : \A i \in DOMAIN l : Commentless(l[i])

(* What has been chunked comes from the list. *)
LEMMA ChunkedFrom ==
  ASSUME ListInv, NEW d \in Chunked
  PROVE  \E l \in Lists : d \in ToSet(l)
<1>1. PICK s : files["chunks"] = Holds(s) /\ InListOrder(s)
  BY DEF Chunked, ListInv, Files
<1>2. d \in ToSet(s)
  BY <1>1 DEF Chunked, Holds
<1>3. PICK i \in DOMAIN list : d = list[i]
  BY <1>1, <1>2 DEF InListOrder, ToSet
<1>4. list \in Lists
  <2>1. DOMAIN <<>> = {}
    OBVIOUS
  <2> QED BY <1>3, <2>1 DEF ListInv
<1> QED BY <1>3, <1>4 DEF ToSet

(* No word of the text of an exported document falls between two windows or *)
(* two sections, whatever lines look like headings.                         *)
THEOREM NoWordLost ==
  ASSUME DocumentLists
  PROVE  Spec => []WordsKept
<1>1. TypedLists
  BY DEF DocumentLists, TypedLists
<1>2. ListInv => WordsKept
  <2> SUFFICES ASSUME ListInv, NEW d \in Chunked
               PROVE  \A i \in LinesFrom(d) : d.lines[i].kind = "text" =>
                        ToSet(WordsOf(d, i)) \subseteq UNION {ToSet(c.words) : c \in Chunks(d)}
    BY DEF WordsKept
  <2>1. Document(d)
    BY ChunkedFrom DEF DocumentLists, ToSet
  <2> QED BY <2>1, ChunkingFaithful
<1> QED BY <1>1, <1>2, ListInvariant, PTL

(* Every word of the text of an exported document is in one of its chunks,  *)
(* under its own heading, for documents, sections and windows of all sizes. *)
THEOREM WordsStayUnderHeadings ==
  ASSUME CommentlessLists
  PROVE  Spec => []ChunksFaithful
<1>1. TypedLists /\ DocumentLists
  BY DEF CommentlessLists, DocumentLists, TypedLists
<1>2. ListInv => SectionKept
  <2> SUFFICES ASSUME ListInv, NEW d \in Chunked, NEW c \in Chunks(d)
               PROVE  /\ Len(c.words) <= MaxTokens
                      /\ \A w \in ToSet(c.words) : c.section = HeadingAbove(d, w[1])
    BY DEF SectionKept
  <2>1. Commentless(d)
    BY ChunkedFrom DEF CommentlessLists, ToSet
  <2>2. Document(d)
    BY <2>1 DEF Commentless
  <2>3. \A i : HeadingAbove(d, i) = HashAbove(d, i)
    BY <2>1, HeadingIsHash
  <2> QED BY <2>2, <2>3, ChunkingFaithful
<1>3. Spec => []WordsKept
  BY <1>1, NoWordLost
<1> QED BY <1>1, <1>2, <1>3, ListInvariant, PTL DEF ChunksFaithful

=============================================================================
