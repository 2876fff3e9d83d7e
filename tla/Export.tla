------------------------------- MODULE Export -------------------------------
(***************************************************************************)
(* The export of the terminal UI: auto_save_documents reads the document    *)
(* list, filters it by language, cuts every document into chunks and writes *)
(* three files one after the other.  The render thread calls it when the    *)
(* page limit is reached, the key listener on [E]; nothing keeps them       *)
(* apart, and the parser goes on appending documents.                       *)
(*                                                                         *)
(* A document has a URL, the language its page declares, the language its   *)
(* script suggests, a title and the lines of its Markdown.  A line has a    *)
(* kind ("heading", "text", or "comment": a line of a code block that       *)
(* begins with "#"), a name and a number of words; <<i, k>> is word k of    *)
(* line i.  A file is the sequence of documents it was made from, Absent    *)
(* before the first export and Torn when two writers overlapped in it.      *)
(* Left out: files that cannot be written, the front matter, and what cuts  *)
(* the list from the other side (MAX_PARSED_DOCS, a flush).                 *)
(***************************************************************************)
EXTENDS Integers, Sequences, FiniteSets, SequencesExt, FiniteSetsExt

CONSTANTS
  Lists,        \* what queue:parsed_docs may hold, newest document first (a bound)
  Languages,    \* --lang, {} when it is not given
  MaxTokens, OverlapTokens, MinStep,   \* 400, 50 and 20 in the code, scaled down
  MaxExports    \* bound on the number of exports

Threads == {"render", "key"}
Files == {"page", "combined", "chunks", "corpus"}
Absent == [state |-> "absent"]
Torn == [state |-> "torn"]
Holds(s) == [state |-> "whole", docs |-> s]

ASSUME ExportAssumption ==
  /\ MaxTokens \in Nat \ {0} /\ OverlapTokens \in Nat /\ MinStep \in 1 .. MaxTokens
  /\ MaxExports \in Nat /\ <<>> \notin Lists

(***************************************************************************)
(* chunk_markdown.                                                          *)
(***************************************************************************)
LinesFrom(d) == DOMAIN d.lines
IsHeading(line) == line.kind \in {"heading", "comment"}   \* startswith("#")
WordsOf(d, i) == [k \in 1 .. d.lines[i].words |-> <<i, k>>]

(* Closing the section under way when the next heading comes, or at the end;*)
(* a section without words is not kept.                                     *)
Closed(acc) ==
  IF acc.words = <<>> THEN acc.done
  ELSE Append(acc.done, [section |-> acc.heading, words |-> acc.words])

Scan(d, acc, i) ==
  IF IsHeading(d.lines[i])
  THEN [done |-> Closed(acc), heading |-> d.lines[i].name, words |-> <<>>]
  ELSE [acc EXCEPT !.words = @ \o WordsOf(d, i)]
Sections(d) ==
  LET start == [done |-> <<>>, heading |-> d.title, words |-> <<>>]
  IN Closed(FoldLeft(LAMBDA acc, i : Scan(d, acc, i), start, [i \in LinesFrom(d) |-> i]))

(* A window every step words; the step leaves an overlap, but never falls   *)
(* below its minimum.                                                       *)
StrideOver(max, overlap) == Max({MinStep, max + overlap})
Stride(max, overlap) == Max({MinStep, max - overlap})
Windows(sec) ==
  LET n == Len(sec.words)
      step == Stride(MaxTokens, OverlapTokens)
      last == (n - 1) \div step
      End(i) == Min({n, (i - 1) * step + MaxTokens})
  IN [i \in 1 .. last + 1 |->
        [section |-> sec.section, words |-> SubSeq(sec.words, (i - 1) * step + 1, End(i))]]

Cut(chunks, sec) == chunks \o Windows(sec)
chunk_markdown(d) == FoldLeft(Cut, <<>>, Sections(d))

(***************************************************************************)
(* The language filter.  The list holds ParsedDocument records, which have  *)
(* no language: the text decides, whatever the page declared.               *)
(***************************************************************************)
detect_language(d) == d.script
Keep(kept, d) == IF detect_language(d) \in Languages THEN Append(kept, d) ELSE kept
FilteredStrictly(all) == FoldLeft(Keep, <<>>, all)
Filtered(all) ==
  LET kept == FilteredStrictly(all) IN IF Languages = {} \/ kept = <<>> THEN all ELSE kept

(***************************************************************************)
(* The threads.                                                             *)
(***************************************************************************)
VARIABLES
  list,     \* queue:parsed_docs, newest first
  pc,       \* where each thread is in auto_save_documents
  docs,     \* the documents it works on
  files,    \* output/<slug>/*
  saved,    \* saved_md_path
  group,    \* history: what the exports since the last quiet moment read
  exports   \* number of exports, for the bound
vars == <<list, pc, docs, files, saved, group, exports>>

Init ==
  /\ list = <<>> /\ files = [f \in Files |-> Absent] /\ saved = "page"
  /\ pc = [t \in Threads |-> "idle"] /\ docs = [t \in Threads |-> <<>>]
  /\ group = {} /\ exports = 0

Quiet == \A t \in Threads : pc[t] = "idle"

(* PROCESS_PAGE_LUA: a document enters the list.                            *)
Commit(longer) ==
  /\ Tail(longer) = list
  /\ list' = longer
  /\ UNCHANGED <<pc, docs, files, saved, group, exports>>

(* LRANGE, the filter and the directory.                                    *)
Read(t) ==
  /\ pc[t] = "idle" /\ list # <<>> /\ exports < MaxExports
  /\ docs' = [docs EXCEPT ![t] = Filtered(list)]
  /\ pc' = [pc EXCEPT ![t] = "markdown"]
  /\ group' = (IF Quiet THEN {} ELSE group) \cup {Filtered(list)}
  /\ exports' = exports + 1
  /\ UNCHANGED <<list, files, saved>>

(* One document gets a page of its own, several are bundled.                *)
Markdown(s) == IF Len(s) = 1 THEN "page" ELSE "combined"
FileAt(t) == IF pc[t] \in {"markdown", "writing markdown"} THEN Markdown(docs[t])
             ELSE IF pc[t] \in {"chunks", "writing chunks"} THEN "chunks" ELSE "corpus"
Opened == [markdown |-> "writing markdown", chunks |-> "writing chunks",
           corpus |-> "writing corpus"]

(* open(path, "w") truncates the file.                                      *)
Open(t) ==
  /\ pc[t] \in DOMAIN Opened
  /\ files' = [files EXCEPT ![FileAt(t)] = Holds(<<>>)]
  /\ pc' = [pc EXCEPT ![t] = Opened[pc[t]]]
  /\ UNCHANGED <<list, docs, saved, group, exports>>

(* What is in a file that a thread has filled with s and closes: its own    *)
(* text, or a mixture if the other one has it open or has written           *)
(* something else into it since it was truncated.                           *)
Contents(t, s) ==
  LET f == FileAt(t)
      shared == \E u \in Threads \ {t} :
                  pc[u] \notin DOMAIN Opened \cup {"idle"} /\ FileAt(u) = f /\ docs[u] # docs[t]
      written == files[f] \notin {Holds(<<>>), Holds(s)}
  IN IF shared \/ written THEN {Holds(s), Torn} ELSE {Holds(s)}

Write(t) ==
  /\ pc[t] \in {"writing markdown", "writing chunks"}
  /\ \E c \in Contents(t, docs[t]) : files' = [files EXCEPT ![FileAt(t)] = c]
  /\ pc' = [pc EXCEPT ![t] = IF @ = "writing markdown" THEN "chunks" ELSE "corpus"]
  /\ UNCHANGED <<list, docs, saved, group, exports>>

(* The corpus is the last file; then the path of the Markdown is kept.      *)
RewriteFromList(t) ==
  /\ pc[t] = "writing corpus"
  /\ files' = [files EXCEPT !["corpus"] = Holds(Filtered(list))]
  /\ pc' = [pc EXCEPT ![t] = "idle"] /\ docs' = [docs EXCEPT ![t] = <<>>]
  /\ saved' = Markdown(docs[t])
  /\ UNCHANGED <<list, group, exports>>
Finish(t) ==
  /\ pc[t] = "writing corpus"
  /\ \E c \in Contents(t, docs[t]) : files' = [files EXCEPT !["corpus"] = c]
  /\ pc' = [pc EXCEPT ![t] = "idle"] /\ docs' = [docs EXCEPT ![t] = <<>>]
  /\ saved' = Markdown(docs[t])
  /\ UNCHANGED <<list, group, exports>>

Next ==
  \/ \E longer \in Lists : Commit(longer)
  \/ \E t \in Threads : Read(t) \/ Open(t) \/ Write(t) \/ Finish(t)

Spec == Init /\ [][Next]_vars

-----------------------------------------------------------------------------
(* TypeOK: an export never works on nothing, and a whole file holds         *)
(* documents of the list, in its order (auto_save_documents returns early   *)
(* on an empty list and falls back to all documents when none passes the    *)
(* filter).                                                                 *)
InListOrder(s) ==
  \E at \in [DOMAIN s -> DOMAIN list] :
    \A i, j \in DOMAIN s : s[i] = list[at[i]] /\ (i < j => at[i] < at[j])
TypeOK ==
  /\ pc \in [Threads -> {"idle", "markdown", "writing markdown", "chunks", "writing chunks",
                         "corpus", "writing corpus"}]
  /\ \A t \in Threads : pc[t] # "idle" => docs[t] # <<>> /\ ToSet(docs[t]) \subseteq ToSet(list)
  /\ \A f \in Files : files[f] \notin {Absent, Torn} => InListOrder(files[f].docs)

(* FilesAgree: exports that overlap each other but saw the same documents   *)
(* leave one consistent set of files behind: the Markdown that saved_md_path*)
(* names, the chunks and the corpus are whole and of the same documents,    *)
(* whatever the parser appended meanwhile.                                  *)
FilesAgree ==
  Quiet /\ Cardinality(group) = 1 =>
    \A s \in group : \A f \in {saved, "chunks", "corpus"} : files[f] = Holds(s)

(* The documents of the last chunk file.                                    *)
Chunked == IF files["chunks"] \in {Absent, Torn} THEN {} ELSE ToSet(files["chunks"].docs)
Chunks(d) == ToSet(chunk_markdown(d))

(* No word falls between two windows. *)
WordsKept ==
  \A d \in Chunked : \A i \in LinesFrom(d) :
    d.lines[i].kind = "text" =>
      ToSet(WordsOf(d, i)) \subseteq UNION {ToSet(c.words) : c \in Chunks(d)}

(* The section of a chunk is the one its words stand in. *)
HeadingAbove(d, i) ==
  LET above == {j \in LinesFrom(d) : j < i /\ d.lines[j].kind = "heading"}
  IN IF above = {} THEN d.title ELSE d.lines[Max(above)].name
SectionKept ==
  \A d \in Chunked : \A c \in Chunks(d) :
    Len(c.words) <= MaxTokens /\ \A w \in ToSet(c.words) : c.section = HeadingAbove(d, w[1])

(* ChunksFaithful: every word of the text of an exported document is in one *)
(* of its chunks, however the lines are cut into sections and windows, and  *)
(* a chunk retains its parent section heading: the last heading of the      *)
(* document above its words, the title before the first.                    *)
ChunksFaithful == WordsKept /\ SectionKept

(* OnlyAskedLanguages: when some document is in a language --lang asks for, *)
(* the corpus holds no document of another one.                             *)
OnlyAskedLanguages ==
  \A f \in Files : files[f] \notin {Absent, Torn} =>
    \/ Languages = {}
    \/ \A i \in DOMAIN files[f].docs : files[f].docs[i].declared \in Languages
    \/ \A i \in DOMAIN list : list[i].declared \notin Languages

(* ExportsKept: an export goes into a file of its own, so it leaves the     *)
(* corpus an earlier one has finished as it is.                             *)
ExportsKept == [][files["corpus"] # Absent /\ files["corpus"] # Holds(<<>>)
                    => files'["corpus"] = files["corpus"]]_vars

=============================================================================
