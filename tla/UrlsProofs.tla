---------------------------- MODULE UrlsProofs -----------------------------
(***************************************************************************)
(* What TLAPS proves of scope and of canonical URLs: for all sets of seeds, *)
(* links and redirects and any number of targets, a crawl that stays in its *)
(* domain does so over chains of links and redirects of every length; the   *)
(* rules in Python and Go, which strip hosts differently, decide alike on   *)
(* host names; whatever is enqueued is in canonical form; and the gateway,  *)
(* the parser and a browser give paths of any length and any mixture of     *)
(* dots one name, so that no page is crawled twice.                         *)
(***************************************************************************)
EXTENDS Urls, FoldProofs, SequenceTheorems, TLAPS

-----------------------------------------------------------------------------
(* Labels are strings; the provers have to be told that these are.          *)
Ascii == {"com", "xn--tda", "ss", "xn--zca"}
Umlauts == {Umlaut, SharpS}
Escapes == {EscapedUmlaut, EscapedSharpS}
Labels == STRING \cup Ascii \cup Umlauts \cup Escapes

(* Hosts that are names: labels are not empty, but for a last one after the *)
(* root's dot, and there is no IPv6 literal, whose brackets urllib and Go   *)
(* drop and the gateway keeps, so that the rules disagree on it.            *)
Name(host) ==
  /\ host \in Seq(Labels) /\ Len(host) > 0 /\ host[1] # Empty
  /\ \A i \in 1 .. Len(host) - 1 : host[i] # Empty
  /\ \A i \in 1 .. Len(host) : host[i] # IPv6

(* All hosts that seeds, links and redirects bring are names.               *)
NamedHosts ==
  \A w \in Webs : /\ \A u \in w.seeds \cup w.redirects : "host" \in DOMAIN u /\ Name(u.host)
                  /\ \A r \in w.hrefs : "host" \in DOMAIN r /\ (r.host = <<>> \/ Name(r.host))

(* A host in the form IDNA gives it. *)
Plain(host) == Name(host) /\ \A i \in 1 .. Len(host) : host[i] \notin {"COM"} \cup Umlauts

-----------------------------------------------------------------------------
(* Suffixes *)

LEMMA SuffixIs ==
  ASSUME NEW s \in Seq(Labels), NEW t \in Seq(Labels)
  PROVE  IsSuffix(s, t) <=> /\ Len(s) <= Len(t)
                            /\ \A i \in 1..Len(s) : s[i] = t[Len(t) - Len(s) + i]
<1> DEFINE r == Reverse(s)
           q == Reverse(t)
           n == Len(s)
<1>1. /\ r \in Seq(Labels) /\ Len(r) = n /\ n \in Nat
      /\ \A i \in 1..n : r[i] = s[n - i + 1]
  BY DEF Reverse
<1>2. /\ q \in Seq(Labels) /\ Len(q) = Len(t) /\ Len(t) \in Nat
      /\ \A i \in 1..Len(t) : q[i] = t[Len(t) - i + 1]
  BY DEF Reverse
<1>n. n \in Nat /\ Len(t) \in Nat
  OBVIOUS
<1> HIDE DEF r, q
<1>3. SUFFICES ASSUME n <= Len(t)
               PROVE  SubSeq(r, 1, n) = SubSeq(q, 1, n)
                      <=> \A i \in 1..n : s[i] = t[Len(t) - n + i]
  BY <1>1, <1>2 DEF IsSuffix, IsPrefix, r, q
<1>4. SubSeq(r, 1, n) = SubSeq(q, 1, n) <=> \A i \in 1..n : r[i] = q[i]
  <2>1. /\ SubSeq(r, 1, n) \in Seq(Labels) /\ Len(SubSeq(r, 1, n)) = n
        /\ \A i \in 1..n : SubSeq(r, 1, n)[i] = r[i]
    BY <1>1
  <2>2. /\ SubSeq(q, 1, n) \in Seq(Labels) /\ Len(SubSeq(q, 1, n)) = n
        /\ \A i \in 1..n : SubSeq(q, 1, n)[i] = q[i]
    BY <1>1, <1>2, <1>3
  <2> QED BY <2>1, <2>2, SeqEqual
<1>5. ASSUME \A i \in 1..n : r[i] = q[i], NEW i \in 1..n
      PROVE  s[i] = t[Len(t) - n + i]
  <2>1. /\ n - i + 1 \in 1..n /\ n - (n - i + 1) + 1 = i
        /\ Len(t) - (n - i + 1) + 1 = Len(t) - n + i
    BY <1>n
  <2>2. r[n - i + 1] = s[i]
    BY <1>1, <2>1
  <2>3. q[n - i + 1] = t[Len(t) - n + i]
    BY <1>1, <1>2, <1>3, <2>1
  <2> QED BY <1>5, <2>1, <2>2, <2>3
<1>6. ASSUME \A i \in 1..n : s[i] = t[Len(t) - n + i], NEW i \in 1..n
      PROVE  r[i] = q[i]
  <2>1. n - i + 1 \in 1..n /\ Len(t) - n + (n - i + 1) = Len(t) - i + 1 /\ i \in 1..Len(t)
    BY <1>n, <1>3
  <2> QED BY <1>1, <1>2, <1>6, <2>1
<1> QED BY <1>4, <1>5, <1>6

LEMMA SuffixTransitive ==
  ASSUME NEW r \in Seq(Labels), NEW s \in Seq(Labels), NEW t \in Seq(Labels),
         IsSuffix(r, s), IsSuffix(s, t)
  PROVE  IsSuffix(r, t)
<1>1. /\ Len(r) <= Len(s) /\ Len(s) <= Len(t)
      /\ Len(r) \in Nat /\ Len(s) \in Nat /\ Len(t) \in Nat
  BY SuffixIs
<1>2. ASSUME NEW i \in 1..Len(r)
      PROVE  r[i] = t[Len(t) - Len(r) + i]
  <2>1. r[i] = s[Len(s) - Len(r) + i] /\ Len(s) - Len(r) + i \in 1..Len(s)
    BY <1>1, SuffixIs
  <2>2. s[Len(s) - Len(r) + i] = t[Len(t) - Len(s) + (Len(s) - Len(r) + i)]
    BY <2>1, SuffixIs
  <2>3. Len(t) - Len(s) + (Len(s) - Len(r) + i) = Len(t) - Len(r) + i
    BY <1>1
  <2> QED BY <2>1, <2>2, <2>3
<1> QED BY <1>1, <1>2, SuffixIs

LEMMA SuffixReflexive ==
  ASSUME NEW s \in Seq(Labels)
  PROVE  IsSuffix(s, s)
BY SuffixIs

-----------------------------------------------------------------------------
(* Labels *)

LEMMA LabelTables ==
  /\ DOMAIN LowerCase = {"COM"} /\ LowerCase["COM"] = "com"
  /\ DOMAIN Idna2003 = {"COM"} \cup Umlauts
  /\ Idna2003["COM"] = "com" /\ Idna2003[Umlaut] = "xn--tda" /\ Idna2003[SharpS] = "ss"
  /\ DOMAIN Uts46 = {"COM"} \cup Umlauts \cup Escapes
  /\ Uts46["COM"] = "com" /\ Uts46[Umlaut] = "xn--tda" /\ Uts46[SharpS] = "xn--zca"
  /\ Uts46[EscapedUmlaut] = "xn--tda" /\ Uts46[EscapedSharpS] = "xn--zca"
BY DEF LowerCase, Idna2003, Uts46, Umlaut, SharpS, EscapedUmlaut, EscapedSharpS, Umlauts, Escapes

LEMMA EscapeTables ==
  /\ DOMAIN HostEscapes = Umlauts /\ DOMAIN Unescaped = Escapes
  /\ HostEscapes[Umlaut] = EscapedUmlaut /\ HostEscapes[SharpS] = EscapedSharpS
  /\ Unescaped[EscapedUmlaut] = Umlaut /\ Unescaped[EscapedSharpS] = SharpS
BY DEF HostEscapes, Unescaped, Umlaut, SharpS, EscapedUmlaut, EscapedSharpS, Umlauts, Escapes

LEMMA LabelsDiffer ==
  /\ Empty \notin {"COM", IPv6} \cup Ascii \cup Umlauts \cup Escapes
  /\ "COM" \notin Ascii \cup Umlauts \cup Escapes
  /\ IPv6 \notin Ascii \cup Umlauts \cup Escapes
  /\ "www" \notin Umlauts \cup Escapes
  /\ Ascii \cap Umlauts = {} /\ Ascii \cap Escapes = {} /\ Umlauts \cap Escapes = {}
BY Zenon DEF Empty, Umlaut, SharpS, EscapedUmlaut, EscapedSharpS, IPv6, Ascii, Umlauts, Escapes

Tables == {LowerCase, Idna2003, Uts46}

LEMMA TableValues ==
  ASSUME NEW table \in Tables \cup {HostEscapes, Unescaped}
  PROVE  /\ DOMAIN table \subseteq {"COM"} \cup Umlauts \cup Escapes
         /\ \A l \in DOMAIN table : table[l] \in Ascii \cup Umlauts \cup Escapes
         /\ table \in Tables => "COM" \in DOMAIN table /\ \A l \in DOMAIN table : table[l] \in Ascii
<1>1. CASE table = LowerCase
  BY <1>1, LabelTables, EscapeTables, LabelsDiffer DEF Ascii
<1>2. CASE table = Idna2003
  BY <1>2, LabelTables DEF Ascii, Umlauts
<1>3. CASE table = Uts46
  BY <1>3, LabelTables DEF Ascii, Umlauts, Escapes
<1>4. CASE table = HostEscapes
  BY <1>4, LabelTables, EscapeTables, LabelsDiffer DEF Umlauts, Escapes, Tables
<1>5. CASE table = Unescaped
  BY <1>5, LabelTables, EscapeTables, LabelsDiffer DEF Umlauts, Escapes, Tables
<1> QED BY <1>1, <1>2, <1>3, <1>4, <1>5 DEF Tables

LEMMA TranslatedName ==
  ASSUME NEW table \in Tables \cup {HostEscapes, Unescaped},
         NEW host \in Seq(Labels), Name(host)
  PROVE  /\ Name(Translated(table, host))
         /\ Translated(table, host) \in Seq(Labels)
         /\ Len(Translated(table, host)) = Len(host)
         /\ \A i \in 1 .. Len(host) :
              Translated(table, host)[i] = IF host[i] \in DOMAIN table THEN table[host[i]] ELSE host[i]
         /\ table \in Tables => \A i \in 1 .. Len(host) : Translated(table, host)[i] # "COM"
<1> DEFINE T == Translated(table, host)
           D == DOMAIN table
<1>1. /\ Empty \notin D /\ IPv6 \notin D
      /\ \A l \in D : table[l] \in Labels \ {Empty, "COM", IPv6}
      /\ table \in Tables => "COM" \in D
  <2>1. Ascii \cup Umlauts \cup Escapes \subseteq Labels \ {Empty, "COM", IPv6}
    BY LabelsDiffer DEF Labels
  <2>2. Empty \notin {"COM"} \cup Umlauts \cup Escapes /\ IPv6 \notin {"COM"} \cup Umlauts \cup Escapes
    <3>1. IPv6 # "COM"
      BY Zenon DEF IPv6
    <3> QED BY <3>1, LabelsDiffer
  <2> QED BY <2>1, <2>2, TableValues
<1>2. /\ T \in Seq(Labels) /\ Len(T) = Len(host) /\ Len(host) \in Nat
      /\ \A i \in 1 .. Len(host) : T[i] = IF host[i] \in D THEN table[host[i]] ELSE host[i]
  BY <1>1 DEF Translated, Name
<1> HIDE DEF T, D
<1>3. \A i \in 1 .. Len(host) : /\ table \in Tables => T[i] # "COM"
                                /\ T[i] = Empty => host[i] = Empty
                                /\ T[i] = IPv6 => host[i] = IPv6
  BY <1>1, <1>2
<1>4. Name(T)
  BY <1>2, <1>3 DEF Name
<1> QED BY <1>2, <1>3, <1>4 DEF T, D

LEMMA LowerPlain ==
  ASSUME NEW host \in Seq(Labels), Plain(host)
  PROVE  Translated(LowerCase, host) = host
BY LabelTables DEF Translated, Plain, Name

(* Escaping forgets an unescaping before it, and both leave letters alone.  *)
LEMMA EscapeForgets ==
  ASSUME NEW host \in Seq(Labels)
  PROVE  Translated(HostEscapes, Translated(Unescaped, host)) = Translated(HostEscapes, host)
<1> DEFINE D == Translated(Unescaped, host)
<1>1. /\ DOMAIN D = DOMAIN host
      /\ \A i \in DOMAIN host : D[i] = IF host[i] \in Escapes THEN Unescaped[host[i]] ELSE host[i]
  BY EscapeTables DEF Translated
<1> HIDE DEF D
<1>2. ASSUME NEW i \in DOMAIN host
      PROVE  (IF D[i] \in DOMAIN HostEscapes THEN HostEscapes[D[i]] ELSE D[i])
             = (IF host[i] \in DOMAIN HostEscapes THEN HostEscapes[host[i]] ELSE host[i])
  <2>1. CASE host[i] \in Escapes
    <3>1. host[i] \notin Umlauts
      BY <2>1, LabelsDiffer
    <3>2. D[i] \in Umlauts /\ HostEscapes[D[i]] = host[i]
      BY <1>1, <2>1, EscapeTables DEF Escapes, Umlauts
    <3> QED BY <3>1, <3>2, EscapeTables
  <2>2. CASE host[i] \notin Escapes
    BY <1>1, <2>2
  <2> QED BY <2>1, <2>2
<1> QED BY <1>1, <1>2 DEF Translated, D

LEMMA EscapeLower ==
  ASSUME NEW table \in {HostEscapes, Unescaped}, NEW host \in Seq(Labels)
  PROVE  Translated(LowerCase, Translated(table, host))
         = Translated(table, Translated(LowerCase, host))
<1> DEFINE T == Translated(table, host)
           L == Translated(LowerCase, host)
<1>1. /\ DOMAIN table \subseteq Umlauts \cup Escapes
      /\ \A l \in DOMAIN table : table[l] \in Umlauts \cup Escapes
  BY EscapeTables DEF Umlauts, Escapes
<1>2. "COM" \notin DOMAIN table /\ "com" \notin DOMAIN table /\ \A l \in DOMAIN table : table[l] # "COM"
  BY <1>1, LabelsDiffer DEF Ascii
<1>3. /\ DOMAIN T = DOMAIN host /\ DOMAIN L = DOMAIN host
      /\ \A i \in DOMAIN host : /\ T[i] = IF host[i] \in DOMAIN table THEN table[host[i]] ELSE host[i]
                                /\ L[i] = IF host[i] = "COM" THEN "com" ELSE host[i]
  BY LabelTables DEF Translated
<1> HIDE DEF T, L
<1>4. ASSUME NEW i \in DOMAIN host
      PROVE  (IF T[i] \in DOMAIN LowerCase THEN LowerCase[T[i]] ELSE T[i])
             = (IF L[i] \in DOMAIN table THEN table[L[i]] ELSE L[i])
  BY <1>2, <1>3, LabelTables
<1> QED BY <1>3, <1>4 DEF Translated, T, L

LEMMA EscapePlain ==
  ASSUME NEW host \in Seq(Labels), \A i \in 1 .. Len(host) : host[i] \notin Umlauts
  PROVE  Translated(HostEscapes, host) = host
BY EscapeTables DEF Translated

LEMMA UnescapePlain ==
  ASSUME NEW host \in Seq(Labels), \A i \in 1 .. Len(host) : host[i] \notin Escapes
  PROVE  Translated(Unescaped, host) = host
BY EscapeTables DEF Translated

LEMMA TranslatedType ==
  ASSUME NEW table \in {HostEscapes, Unescaped}, NEW host \in Seq(Labels)
  PROVE  Translated(table, host) \in Seq(Labels)
<1>1. \A l \in DOMAIN table : table[l] \in Labels
  BY TableValues DEF Labels
<1> QED BY <1>1 DEF Translated

LEMMA SuffixTranslated ==
  ASSUME NEW table \in {HostEscapes, Unescaped},
         NEW s \in Seq(Labels), NEW t \in Seq(Labels), IsSuffix(s, t)
  PROVE  IsSuffix(Translated(table, s), Translated(table, t))
<1> DEFINE S == Translated(table, s)
           T == Translated(table, t)
<1>1. \A l \in DOMAIN table : table[l] \in Labels
  BY TableValues DEF Labels
<1>2. /\ S \in Seq(Labels) /\ Len(S) = Len(s) /\ T \in Seq(Labels) /\ Len(T) = Len(t)
      /\ \A i \in 1 .. Len(s) : S[i] = IF s[i] \in DOMAIN table THEN table[s[i]] ELSE s[i]
      /\ \A i \in 1 .. Len(t) : T[i] = IF t[i] \in DOMAIN table THEN table[t[i]] ELSE t[i]
  <2>1. ASSUME NEW q \in Seq(Labels)
        PROVE  /\ Translated(table, q) \in Seq(Labels) /\ Len(Translated(table, q)) = Len(q)
               /\ \A i \in 1 .. Len(q) : Translated(table, q)[i]
                                          = IF q[i] \in DOMAIN table THEN table[q[i]] ELSE q[i]
    BY <1>1 DEF Translated
  <2> QED BY <2>1
<1>3. /\ Len(s) <= Len(t) /\ Len(s) \in Nat /\ Len(t) \in Nat
      /\ \A i \in 1..Len(s) : s[i] = t[Len(t) - Len(s) + i]
  BY SuffixIs
<1> HIDE DEF S, T
<1>4. ASSUME NEW i \in 1 .. Len(S) PROVE S[i] = T[Len(T) - Len(S) + i]
  <2>1. i \in 1 .. Len(s) /\ Len(t) - Len(s) + i \in 1 .. Len(t)
    BY <1>2, <1>3
  <2> QED BY <1>2, <1>3, <2>1
<1>5. IsSuffix(S, T)
  BY <1>2, <1>3, <1>4, SuffixIs
<1> QED BY <1>5 DEF S, T

-----------------------------------------------------------------------------
(* The two scope rules agree on names *)

Bare(host) == IF Last(host) = Empty THEN Front(host) ELSE host

LEMMA BareType ==
  ASSUME NEW host \in Seq(Labels), Name(host)
  PROVE  /\ Bare(host) \in Seq(Labels) /\ Bare(host) # <<>>
         /\ Named(host) = WithoutWWW(Bare(host))
         /\ Named(host) \in Seq(Labels) /\ Named(host) # <<>>
<1>1. /\ host \in Seq(Labels) /\ Len(host) \in Nat \ {0}
      /\ Last(host) = Empty => Len(host) > 1
  BY DEF Name, Last
<1>2. Bare(host) \in Seq(Labels) /\ Len(Bare(host)) > 0
  <2>1. Last(host) = Empty => Front(host) \in Seq(Labels) /\ Len(Front(host)) = Len(host) - 1
    BY <1>1 DEF Front
  <2> QED BY <1>1, <2>1 DEF Bare
<1>3. Named(host) = WithoutWWW(Bare(host))
  BY DEF Named, Bare
<1> DEFINE B == Bare(host)
<1> HIDE DEF B
<1>4. WithoutWWW(B) \in Seq(Labels) /\ Len(WithoutWWW(B)) > 0
  <2>1. B \in Seq(Labels) /\ Len(B) > 0
    BY <1>2 DEF B
  <2>2. Len(B) > 1 => Tail(B) \in Seq(Labels) /\ Len(Tail(B)) = Len(B) - 1
    BY <2>1
  <2>3. WithoutWWW(B) = B \/ (Len(B) > 1 /\ WithoutWWW(B) = Tail(B))
    BY DEF WithoutWWW
  <2> QED BY <2>1, <2>2, <2>3
<1> QED BY <1>2, <1>3, <1>4 DEF B

(* What is behind "www." and before the root's dot, escaped or not.         *)
LEMMA NamedTranslated ==
  ASSUME NEW table \in {HostEscapes, Unescaped}, NEW host \in Seq(Labels), Name(host)
  PROVE  Named(Translated(table, host)) = Translated(table, Named(host))
<1> DEFINE T == Translated(table, host)
           B == Bare(host)
           C == Translated(table, B)
<1>1. /\ Empty \notin DOMAIN table /\ "www" \notin DOMAIN table
      /\ \A l \in DOMAIN table : table[l] \in Labels \ {Empty, "www"}
  <2>1. /\ DOMAIN table \subseteq Umlauts \cup Escapes
        /\ \A l \in DOMAIN table : table[l] \in Umlauts \cup Escapes
    BY EscapeTables DEF Umlauts, Escapes
  <2> QED BY <2>1, LabelsDiffer DEF Labels
<1>2. /\ T \in Seq(Labels) /\ Len(T) = Len(host) /\ Len(host) \in Nat \ {0}
      /\ \A i \in 1 .. Len(host) : T[i] = IF host[i] \in DOMAIN table THEN table[host[i]] ELSE host[i]
  <2>1. Len(host) \in Nat \ {0}
    BY DEF Name
  <2>2. table \in Tables \cup {HostEscapes, Unescaped}
    OBVIOUS
  <2> QED BY <2>1, <2>2, TranslatedName
<1>3. Last(T) = Empty <=> Last(host) = Empty
  BY <1>1, <1>2 DEF Last
<1>4. Bare(T) = C
  <2>1. Translated(table, Front(host)) = Front(T)
    BY <1>1 DEF Translated, Front, Name
  <2> QED BY <1>3, <2>1 DEF Bare
<1>5. B \in Seq(Labels) /\ Len(B) \in Nat
  BY BareType
<1>6. Named(host) = WithoutWWW(B) /\ Named(T) = WithoutWWW(C)
  BY <1>4 DEF Named, Bare
<1> HIDE DEF T, B
<1>7. WithoutWWW(C) = Translated(table, WithoutWWW(B))
  <2>1. /\ Len(C) = Len(B)
        /\ \A i \in 1 .. Len(B) : C[i] = IF B[i] \in DOMAIN table THEN table[B[i]] ELSE B[i]
    BY <1>1, <1>5 DEF Translated
  <2>2. Len(B) > 1 => (C[1] = "www" <=> B[1] = "www")
    BY <1>1, <1>5, <2>1
  <2>3. Len(B) > 1 => Tail(C) = Translated(table, Tail(B))
    BY <1>1, <1>5 DEF Translated
  <2> HIDE DEF C
  <2> QED BY <2>1, <2>2, <2>3 DEF WithoutWWW, C
<1> QED BY <1>6, <1>7 DEF T

LEMMA StripsAgree ==
  ASSUME NEW host \in Seq(Labels), Name(host)
  PROVE  /\ stripWWW(host) = Named(Translated(LowerCase, host))
         /\ _strip_www(host) = Named(Translated(LowerCase, host))
<1> DEFINE T == Translated(LowerCase, host)
<1>1. /\ T \in Seq(Labels) /\ Len(T) = Len(host) /\ Len(host) \in Nat \ {0}
      /\ \A i \in 1 .. Len(host) : T[i] = IF host[i] = "COM" THEN "com" ELSE host[i]
  <2>1. Len(host) \in Nat \ {0}
    BY DEF Name
  <2>2. LowerCase \in Tables \cup {HostEscapes, Unescaped}
    BY DEF Tables
  <2> QED BY <2>1, <2>2, LabelTables, TranslatedName
<1>2. Last(T) = Empty <=> Last(host) = Empty
  <2>1. "com" # Empty
    BY LabelsDiffer DEF Ascii
  <2> QED BY <1>1, <2>1, LabelsDiffer DEF Last
<1>3. Translated(LowerCase, Front(host)) = Front(T)
  BY <1>1, LabelTables DEF Translated, Front, Name
<1>4. Translated(LowerCase, Bare(host)) = Bare(T)
  BY <1>2, <1>3 DEF Bare
<1> DEFINE I == {i \in 1 .. Len(host) : host[i] # Empty}
           n == IF Last(host) = Empty THEN Len(host) - 1 ELSE Len(host)
<1>5. SubSeq(host, 1, IF I # {} THEN Max(I) ELSE 0) = Bare(host)
  <2>1. n \in I /\ \A i \in I : n >= i
    BY <1>1 DEF Name, Last
  <2>2. Max(I) = n
    BY <1>1, <2>1 DEF Max
  <2>3. SubSeq(host, 1, Len(host)) = host
    BY <1>1
  <2> QED BY <2>1, <2>2, <2>3 DEF Bare, Front
<1>6. Named(T) = WithoutWWW(Bare(T))
  BY DEF Named, Bare
<1> QED BY <1>4, <1>5, <1>6 DEF stripWWW, _strip_www, SelectLastInSeq, Bare

-----------------------------------------------------------------------------
(* Hosts of targets *)

LEMMA SeedHost ==
  ASSUME NEW raw, canonicalizeUrl(raw) # Null
  PROVE  canonicalizeUrl(raw).host = Translated(Uts46, raw.host)
         /\ "host" \in DOMAIN canonicalizeUrl(raw)
BY DEF canonicalizeUrl

LEMMA LinkHost ==
  ASSUME NEW raw, canonicalize(raw) # Null
  PROVE  /\ raw.host # <<>>
         /\ canonicalize(raw).host = Translated(Idna2003, Hostname(raw.host))
         /\ "host" \in DOMAIN canonicalize(raw)
BY DEF canonicalize

LEMMA JoinedHost ==
  ASSUME NEW base, NEW ref, "host" \in DOMAIN ref
  PROVE  urljoin(base, ref).host \in {base.host, ref.host}
<1>1. [ref EXCEPT !.scheme = base.scheme].host = ref.host
  OBVIOUS
<1> QED BY <1>1 DEF urljoin

LEMMA EffectiveHost ==
  ASSUME NEW u, "host" \in DOMAIN u
  PROVE  Effective(u).host = Translated(HostEscapes, u.host)
BY DEF Effective

LEMMA NameHostname ==
  ASSUME NEW host \in Seq(Labels), Name(host)
  PROVE  Hostname(host) = host /\ ParsedHostname(host) = Translated(Unescaped, host)
BY DEF Hostname, ParsedHostname, Name

-----------------------------------------------------------------------------
(* Scope.  The seed's host is a suffix of every target's host; between two  *)
(* targets lie a redirect, which the crawler compares with the host it      *)
(* asked, and a link, which the parser compares with the host that answered,*)
(* which one of them reads with its umlauts and the other with its escapes. *)

Placed(t) ==
  /\ "host" \in DOMAIN t.url /\ Plain(t.url.host) /\ Plain(t.site)
  /\ \A i \in 1 .. Len(t.site) : t.site[i] \notin Escapes
  /\ t.scope \in {<<>>, t.site}
  /\ t.stay => IsSuffix(Named(t.site), Named(t.url.host))

ScopeInv == web \in Webs /\ \A t \in targets : Placed(t)

LEMMA PlainType ==
  ASSUME NEW host, Plain(host)
  PROVE  /\ host \in Seq(Labels) /\ Name(host) /\ host # <<>>
         /\ Named(host) \in Seq(Labels)
         /\ stripWWW(host) = Named(host) /\ _strip_www(host) = Named(host)
<1>1. host \in Seq(Labels) /\ Name(host) /\ host # <<>>
  BY DEF Plain, Name
<1> QED BY <1>1, BareType, StripsAgree, LowerPlain

LEMMA PlainTranslated ==
  ASSUME NEW table \in {Idna2003, Uts46}, NEW host \in Seq(Labels), Name(host)
  PROVE  /\ Plain(Translated(table, host))
         /\ table = Uts46 => \A i \in 1 .. Len(host) : Translated(table, host)[i] \notin Escapes
         /\ Len(Translated(table, host)) = Len(host)
<1> DEFINE T == Translated(table, host)
<1>1. /\ Name(T) /\ Len(T) = Len(host)
      /\ \A i \in 1 .. Len(host) : /\ T[i] # "COM"
                                    /\ T[i] = IF host[i] \in DOMAIN table THEN table[host[i]] ELSE host[i]
  BY TranslatedName DEF Tables
<1>2. Umlauts \subseteq DOMAIN table /\ \A l \in DOMAIN table : table[l] \in Ascii
  BY TableValues, LabelTables DEF Tables
<1>3. table = Uts46 => Escapes \subseteq DOMAIN table
  BY LabelTables
<1> HIDE DEF T
<1>4. \A i \in 1 .. Len(host) : T[i] \notin Umlauts /\ (table = Uts46 => T[i] \notin Escapes)
  BY <1>1, <1>2, <1>3, LabelsDiffer
<1> QED BY <1>1, <1>4 DEF Plain, T

LEMMA SubmitScope ==
  ASSUME ScopeInv, NamedHosts, NEW raw \in web.seeds, NEW stay, NEW scoped,
         Submit(raw, stay, scoped), web' = web
  PROVE  ScopeInv'
<1> DEFINE c == canonicalizeUrl(raw)
           new == [url |-> c, page |-> c, stay |-> stay, site |-> c.host,
                   scope |-> IF scoped THEN c.host ELSE <<>>]
<1>1. targets' = targets \cup {new} /\ c # Null
  BY DEF Submit, Enqueue
<1>2. Name(raw.host) /\ raw.host \in Seq(Labels)
  BY DEF ScopeInv, NamedHosts, Name
<1>3. /\ "host" \in DOMAIN c /\ Plain(c.host)
      /\ \A i \in 1 .. Len(c.host) : c.host[i] \notin Escapes
  BY <1>1, <1>2, SeedHost, PlainTranslated
<1>4. IsSuffix(Named(c.host), Named(c.host))
  BY <1>3, PlainType, SuffixReflexive
<1> HIDE DEF c
<1>5. Placed(new)
  BY <1>3, <1>4 DEF Placed
<1> HIDE DEF new
<1> QED BY <1>1, <1>5 DEF ScopeInv

LEMMA FollowScope ==
  ASSUME ScopeInv, NamedHosts, NEW t \in targets, NEW ref \in web.hrefs,
         NEW final \in web.redirects \cup {t.url}, Follow(t, final, ref), web' = web
  PROVE  ScopeInv'
<1> DEFINE base == Effective(final)
           joined == urljoin(base, ref)
           link == canonicalize_url(base, ref, t.stay, t.scope)
           new == [url |-> link, page |-> canonicalizeUrl(Resolve(base, ref)), stay |-> t.stay,
                   site |-> t.site, scope |-> t.scope]
<1>1. /\ targets' = targets \cup {new} /\ link # Null
      /\ t.stay => redirectInScope(final, t.scope, ParsedHostname(t.url.host))
  BY DEF Follow, Enqueue
<1>2. Placed(t)
  BY DEF ScopeInv
<1>3. "host" \in DOMAIN final /\ Name(final.host) /\ final.host \in Seq(Labels)
  BY <1>2 DEF ScopeInv, NamedHosts, Placed, Plain, Name
<1>4. "host" \in DOMAIN ref /\ (ref.host = <<>> \/ Name(ref.host))
  BY DEF ScopeInv, NamedHosts
<1>5. /\ base.host = Translated(HostEscapes, final.host)
      /\ Name(base.host) /\ base.host \in Seq(Labels)
  BY <1>3, EffectiveHost, TranslatedName
<1> HIDE DEF base
<1>6. /\ link = canonicalize(joined) /\ canonicalize(joined) # Null
      /\ t.stay => in_scope(link.host, IF t.scope = <<>> THEN Hostname(base.host) ELSE t.scope)
  BY <1>1 DEF canonicalize_url
<1>7. joined.host \in {base.host, ref.host} /\ joined.host # <<>>
  BY <1>4, <1>5, <1>6, JoinedHost, LinkHost
<1>8. Name(joined.host) /\ joined.host \in Seq(Labels)
  BY <1>4, <1>5, <1>7 DEF Name
<1>9. "host" \in DOMAIN link /\ Plain(link.host)
  BY <1>6, <1>8, LinkHost, NameHostname, PlainTranslated
<1> HIDE DEF link
<1>10. ASSUME t.stay
       PROVE  IsSuffix(Named(t.site), Named(link.host))
  <2> DEFINE X == Translated(LowerCase, final.host)
             L == Named(link.host)
             U == Named(t.url.host)
             S == Named(t.site)
             E(labels) == Translated(HostEscapes, labels)
             D(labels) == Translated(Unescaped, labels)
  <2>1. /\ L \in Seq(Labels) /\ L = _strip_www(link.host)
        /\ U \in Seq(Labels) /\ S \in Seq(Labels) /\ S = _strip_www(t.site) /\ t.site # <<>>
    BY <1>2, <1>9, PlainType DEF Placed
  <2>2. IsSuffix(S, U)
    BY <1>2, <1>10 DEF Placed
  <2>3. CASE t.scope = <<>>
    <3>1. /\ t.url.host \in Seq(Labels) /\ Name(t.url.host)
          /\ Translated(LowerCase, t.url.host) = t.url.host /\ E(t.url.host) = t.url.host
      BY <1>2, PlainType, LowerPlain, EscapePlain DEF Placed, Plain
    <3>2. Name(X) /\ X \in Seq(Labels)
      BY <1>3, TranslatedName DEF Tables
    <3>3. stripWWW(ParsedHostname(t.url.host)) = D(U)
      <4>1. Name(D(t.url.host)) /\ D(t.url.host) \in Seq(Labels)
        BY <3>1, TranslatedName
      <4>2. stripWWW(D(t.url.host)) = Named(D(t.url.host))
        BY <3>1, <4>1, StripsAgree, EscapeLower
      <4> QED BY <3>1, <4>2, NameHostname, NamedTranslated
    <3>4. stripWWW(ParsedHostname(final.host)) = D(Named(X))
      <4>1. Name(D(final.host)) /\ D(final.host) \in Seq(Labels)
        BY <1>3, TranslatedName
      <4>2. stripWWW(D(final.host)) = Named(D(X))
        BY <1>3, <4>1, StripsAgree, EscapeLower
      <4> QED BY <1>3, <3>2, <4>2, NameHostname, NamedTranslated
    <3>5. _strip_www(Hostname(base.host)) = E(Named(X))
      <4>1. _strip_www(base.host) = Named(E(X))
        BY <1>3, <1>5, StripsAgree, EscapeLower
      <4> QED BY <1>5, <3>2, <4>1, NameHostname, NamedTranslated
    <3>6. IsSuffix(D(U), D(Named(X)))
      BY <1>1, <1>10, <2>3, <3>3, <3>4 DEF redirectInScope, InScope
    <3>7. IsSuffix(E(Named(X)), L)
      BY <1>6, <1>10, <2>1, <2>3, <3>5 DEF in_scope
    <3>8. /\ Named(X) \in Seq(Labels) /\ D(U) \in Seq(Labels)
          /\ D(Named(X)) \in Seq(Labels) /\ E(Named(X)) \in Seq(Labels)
      <4>1. Named(X) \in Seq(Labels)
        BY <3>2, BareType
      <4> QED BY <2>1, <4>1, TranslatedType
    <3>9. E(D(U)) = U /\ E(D(Named(X))) = E(Named(X))
      <4>1. E(U) = U
        BY <3>1, NamedTranslated
      <4> QED BY <2>1, <3>8, <4>1, EscapeForgets
    <3> HIDE DEF L, U, S, X
    <3>10. IsSuffix(U, E(Named(X)))
      <4>1. IsSuffix(E(D(U)), E(D(Named(X))))
        BY <3>6, <3>8, SuffixTranslated
      <4> QED BY <3>9, <4>1
    <3>11. IsSuffix(U, L)
      BY <2>1, <3>7, <3>8, <3>10, SuffixTransitive
    <3>12. IsSuffix(S, L)
      BY <2>1, <2>2, <3>11, SuffixTransitive
    <3> QED BY <3>12 DEF S, L
  <2>4. CASE t.scope = t.site
    <3>1. in_scope(link.host, t.site)
      BY <1>6, <1>10, <2>1, <2>4
    <3> QED BY <2>1, <3>1 DEF in_scope
  <2> QED BY <1>2, <2>3, <2>4 DEF Placed
<1>11. Placed(new)
  BY <1>2, <1>9, <1>10 DEF Placed
<1> HIDE DEF new
<1> QED BY <1>1, <1>11 DEF ScopeInv

LEMMA ScopeStep == NamedHosts /\ ScopeInv /\ [Next]_vars => ScopeInv'
<1> SUFFICES ASSUME NamedHosts, ScopeInv, [Next]_vars PROVE ScopeInv'
  OBVIOUS
<1>1. CASE UNCHANGED vars
  BY <1>1 DEF vars, ScopeInv
<1>2. CASE Next
  BY <1>2, SubmitScope, FollowScope DEF Next
<1> QED BY <1>1, <1>2

LEMMA ScopeInvariant ==
  ASSUME NamedHosts
  PROVE  Spec => []ScopeInv
<1>1. Init => ScopeInv
  BY DEF Init, ScopeInv
<1>2. ScopeInv /\ [Next]_vars => ScopeInv'
  BY ScopeStep
<1> QED BY <1>1, <1>2, PTL DEF Spec

-----------------------------------------------------------------------------
(* The theorems on scope *)

(* However many links and redirects lie between, a job that stays in its    *)
(* domain never leaves the seed's host and what is below it, whether its    *)
(* targets carry scope_host or are from before it existed (in_scope in the  *)
(* parser, redirectInScope in the crawler).                                 *)
THEOREM NeverLeavesSite ==
  ASSUME NamedHosts
  PROVE  Spec => []StaysOnSite
<1>1. ScopeInv => StaysOnSite
  BY DEF ScopeInv, Placed, StaysOnSite
<1> QED BY <1>1, ScopeInvariant, PTL

(* What the gateway or the parser let in is in scope for the crawler: the   *)
(* copy of the rule in Go decides like the one in Python.                   *)
THEOREM CrawlerAdmits ==
  ASSUME NamedHosts
  PROVE  Spec => []AdmittedByCrawler
<1>1. ScopeInv => AdmittedByCrawler
  <2> SUFFICES ASSUME ScopeInv, NEW t \in targets, t.stay
               PROVE  redirectInScope(t.url, t.scope, ParsedHostname(t.url.host))
    BY DEF AdmittedByCrawler
  <2> DEFINE h == ParsedHostname(t.url.host)
             U == Named(t.url.host)
             S == Named(t.site)
  <2>1. Placed(t)
    BY DEF ScopeInv
  <2>2. /\ t.url.host \in Seq(Labels) /\ Name(t.url.host)
        /\ Translated(LowerCase, t.url.host) = t.url.host
        /\ t.site \in Seq(Labels) /\ Name(t.site) /\ t.site # <<>> /\ stripWWW(t.site) = S
        /\ U \in Seq(Labels) /\ S \in Seq(Labels)
    BY <2>1, PlainType, LowerPlain DEF Placed
  <2>3. h = Translated(Unescaped, t.url.host) /\ Name(h) /\ h \in Seq(Labels)
    <3>1. h = Translated(Unescaped, t.url.host)
      BY <2>2, NameHostname
    <3>2. /\ Name(Translated(Unescaped, t.url.host))
          /\ Translated(Unescaped, t.url.host) \in Seq(Labels)
      BY <2>2, TranslatedName
    <3> HIDE DEF h
    <3> QED BY <3>1, <3>2
  <2>4. stripWWW(h) = Translated(Unescaped, U) /\ Translated(Unescaped, U) \in Seq(Labels)
    <3>1. stripWWW(h) = Named(h)
      BY <2>2, <2>3, StripsAgree, EscapeLower
    <3> QED BY <2>2, <2>3, <3>1, NamedTranslated, TranslatedType
  <2>5. IsSuffix(S, Translated(Unescaped, U))
    <3>1. Translated(Unescaped, S) = S
      <4>1. Translated(Unescaped, t.site) = t.site
        BY <2>1, <2>2, UnescapePlain DEF Placed
      <4> QED BY <2>2, <4>1, NamedTranslated
    <3>2. IsSuffix(S, U)
      BY <2>1 DEF Placed
    <3> HIDE DEF S, U
    <3>3. IsSuffix(Translated(Unescaped, S), Translated(Unescaped, U))
      BY <2>2, <3>2, SuffixTranslated
    <3> QED BY <3>1, <3>3
  <2>6. h # <<>>
    BY <2>3 DEF Name
  <2> HIDE DEF h
  <2>7. CASE t.scope = <<>>
    <3>1. IsSuffix(stripWWW(h), stripWWW(h))
      BY <2>4, SuffixReflexive
    <3> QED BY <2>6, <2>7, <3>1 DEF redirectInScope, InScope, h
  <2>8. CASE t.scope = t.site
    BY <2>2, <2>4, <2>5, <2>6, <2>8 DEF redirectInScope, InScope, h
  <2> QED BY <2>1, <2>7, <2>8 DEF Placed
<1> QED BY <1>1, ScopeInvariant, PTL

-----------------------------------------------------------------------------
(* The folds of the model, step by step *)

LEMMA WalkFold ==
  ASSUME NEW Segs, NEW p \in Seq(Segs)
  PROVE  \E f \in [0 .. Len(p) -> Seq(Segs)] :
           /\ f[0] = <<>> /\ FoldLeft(Walk, <<>>, p) = f[Len(p)]
           /\ \A n \in 0 .. Len(p) - 1 : f[n + 1] = Walk(f[n], p[n + 1])
<1> DEFINE N == Len(p)
           S == Seq(Segs)
           base == <<>>
           Q(s, it) == IF s = {} THEN <<>> ELSE Walk(it[s \ {Max(s)}], p[Max(s)])
           step == [x \in S \X (1 .. N) |-> Walk(x[1], p[x[2]])]
           iter == CHOOSE it : it = [s \in SUBSET (1 .. N) |-> Q(s, it)]
<1>1. FoldLeft(Walk, <<>>, p) = iter[1 .. N]
  <2>1. DOMAIN p = 1 .. N
    OBVIOUS
  <2> QED BY <2>1 DEF FoldLeft, MapThenFoldSet
<1>2. N \in Nat /\ base \in S /\ StepOn(S, N, step)
  <2>1. ASSUME NEW o \in S, NEW i \in 1 .. N
        PROVE  Walk(o, p[i]) \in S
    BY DEF Walk, Front
  <2>2. step \in [S \X (1 .. N) -> S]
    BY <2>1
  <2> HIDE DEF step
  <2> QED BY <2>2 DEF StepOn
<1>3. \E g : Iterates(g, S, base, N, step)
  <2> HIDE DEF S, base, N, step
  <2> QED BY <1>2, Iteration
<1> PICK g : Iterates(g, S, base, N, step)
  BY <1>3
<1> HIDE DEF step
<1>4. ASSUME NEW it, NEW s \in SUBSET (1 .. N), s # {}, it[s \ {Max(s)}] \in S
      PROVE  Q(s, it) = step[<<it[s \ {Max(s)}], Max(s)>>]
  <2>1. <<it[s \ {Max(s)}], Max(s)>> \in S \X (1 .. N)
    BY <1>2, <1>4, MaxOf
  <2> QED BY <1>4, <2>1 DEF step
<1>5. g = [s \in SUBSET (1 .. N) |-> Q(s, g)]
  <2>1. ASSUME NEW s \in SUBSET (1 .. N)
        PROVE  g[s] = Q(s, g)
    BY <1>4 DEF Iterates
  <2> QED BY <2>1, Zenon DEF Iterates
<1>6. iter = [s \in SUBSET (1 .. N) |-> Q(s, iter)]
  <2> HIDE DEF Q
  <2> QED BY <1>5
<1> HIDE DEF iter
<1>7. Follows(iter, S, base, N, step)
  <2>1. iter[{}] = base
    BY <1>6
  <2>2. ASSUME NEW s \in SUBSET (1 .. N), s # {}, iter[s \ {Max(s)}] \in S
        PROVE  iter[s] = step[<<iter[s \ {Max(s)}], Max(s)>>]
    <3>1. iter[s] = Q(s, iter)
      BY <1>6
    <3> QED BY <1>4, <2>2, <3>1
  <2> QED BY <2>1, <2>2 DEF Follows
<1>8. PICK f : Stepwise(f, S, base, N, step) /\ f[N] = iter[1 .. N]
  <2> HIDE DEF S, base, N
  <2> QED BY <1>2, <1>7, StepByStep
<1>9. ASSUME NEW n \in 0 .. N - 1
      PROVE  f[n + 1] = Walk(f[n], p[n + 1])
  <2>1. f[n] \in S /\ n + 1 \in 1 .. N
    <3> HIDE DEF S, N
    <3> QED BY <1>2, <1>8 DEF Stepwise
  <2> QED BY <1>8, <2>1 DEF step, Stepwise
<1> QED BY <1>1, <1>8, <1>9 DEF Stepwise

LEMMA SkipFold ==
  ASSUME NEW Segs, NEW p \in Seq(Segs)
  PROVE  \E f \in [0 .. Len(p) -> Seq(Segs)] :
           /\ f[0] = <<>> /\ NonEmpty(p) = f[Len(p)]
           /\ \A n \in 0 .. Len(p) - 1 : f[n + 1] = Skip(f[n], p[n + 1])
<1> DEFINE N == Len(p)
           S == Seq(Segs)
           base == <<>>
           Q(s, it) == IF s = {} THEN <<>> ELSE Skip(it[s \ {Max(s)}], p[Max(s)])
           step == [x \in S \X (1 .. N) |-> Skip(x[1], p[x[2]])]
           iter == CHOOSE it : it = [s \in SUBSET (1 .. N) |-> Q(s, it)]
<1>1. NonEmpty(p) = iter[1 .. N]
  <2>1. DOMAIN p = 1 .. N
    OBVIOUS
  <2> QED BY <2>1 DEF NonEmpty, FoldLeft, MapThenFoldSet
<1>2. N \in Nat /\ base \in S /\ StepOn(S, N, step)
  <2>1. ASSUME NEW o \in S, NEW i \in 1 .. N
        PROVE  Skip(o, p[i]) \in S
    BY DEF Skip
  <2>2. step \in [S \X (1 .. N) -> S]
    BY <2>1
  <2> HIDE DEF step
  <2> QED BY <2>2 DEF StepOn
<1>3. \E g : Iterates(g, S, base, N, step)
  <2> HIDE DEF S, base, N, step
  <2> QED BY <1>2, Iteration
<1> PICK g : Iterates(g, S, base, N, step)
  BY <1>3
<1> HIDE DEF step
<1>4. ASSUME NEW it, NEW s \in SUBSET (1 .. N), s # {}, it[s \ {Max(s)}] \in S
      PROVE  Q(s, it) = step[<<it[s \ {Max(s)}], Max(s)>>]
  <2>1. <<it[s \ {Max(s)}], Max(s)>> \in S \X (1 .. N)
    BY <1>2, <1>4, MaxOf
  <2> QED BY <1>4, <2>1 DEF step
<1>5. g = [s \in SUBSET (1 .. N) |-> Q(s, g)]
  <2>1. ASSUME NEW s \in SUBSET (1 .. N)
        PROVE  g[s] = Q(s, g)
    BY <1>4 DEF Iterates
  <2> QED BY <2>1, Zenon DEF Iterates
<1>6. iter = [s \in SUBSET (1 .. N) |-> Q(s, iter)]
  <2> HIDE DEF Q
  <2> QED BY <1>5
<1> HIDE DEF iter
<1>7. Follows(iter, S, base, N, step)
  <2>1. iter[{}] = base
    BY <1>6
  <2>2. ASSUME NEW s \in SUBSET (1 .. N), s # {}, iter[s \ {Max(s)}] \in S
        PROVE  iter[s] = step[<<iter[s \ {Max(s)}], Max(s)>>]
    <3>1. iter[s] = Q(s, iter)
      BY <1>6
    <3> QED BY <1>4, <2>2, <3>1
  <2> QED BY <2>1, <2>2 DEF Follows
<1>8. PICK f : Stepwise(f, S, base, N, step) /\ f[N] = iter[1 .. N]
  <2> HIDE DEF S, base, N
  <2> QED BY <1>2, <1>7, StepByStep
<1>9. ASSUME NEW n \in 0 .. N - 1
      PROVE  f[n + 1] = Skip(f[n], p[n + 1])
  <2>1. f[n] \in S /\ n + 1 \in 1 .. N
    <3> HIDE DEF S, N
    <3> QED BY <1>2, <1>8 DEF Stepwise
  <2> QED BY <1>8, <2>1 DEF step, Stepwise
<1> QED BY <1>1, <1>8, <1>9 DEF Stepwise

LEMMA WhatwgFold ==
  ASSUME NEW Segs, Empty \in Segs, NEW p \in Seq(Segs)
  PROVE  \E f \in [0 .. Len(p) -> Seq(Segs)] :
           /\ f[0] = <<>> /\ WhatwgPath(p) = Rooted(f[Len(p)])
           /\ \A n \in 0 .. Len(p) - 1 : f[n + 1] = WhatwgStep(p, f[n], n + 1)
<1> DEFINE N == Len(p)
           S == Seq(Segs)
           base == <<>>
           id == [i \in DOMAIN p |-> i]
           Q(s, it) == IF s = {} THEN <<>> ELSE WhatwgStep(p, it[s \ {Max(s)}], id[Max(s)])
           step == [x \in S \X (1 .. N) |-> WhatwgStep(p, x[1], x[2])]
           iter == CHOOSE it : it = [s \in SUBSET (1 .. N) |-> Q(s, it)]
<1>1. FoldLeft(LAMBDA out, i : WhatwgStep(p, out, i), <<>>, [i \in DOMAIN p |-> i]) = iter[1 .. N]
  <2>1. DOMAIN [i \in DOMAIN p |-> i] = 1 .. N
    OBVIOUS
  <2> QED BY <2>1 DEF FoldLeft, MapThenFoldSet
<1>2. N \in Nat /\ base \in S /\ StepOn(S, N, step)
  <2>1. ASSUME NEW o \in S, NEW i \in 1 .. N
        PROVE  WhatwgStep(p, o, i) \in S
    BY DEF WhatwgStep, Front
  <2>2. step \in [S \X (1 .. N) -> S]
    BY <2>1
  <2> HIDE DEF step
  <2> QED BY <2>2 DEF StepOn
<1>3. \E g : Iterates(g, S, base, N, step)
  <2> HIDE DEF S, base, N, step
  <2> QED BY <1>2, Iteration
<1> PICK g : Iterates(g, S, base, N, step)
  BY <1>3
<1> HIDE DEF step
<1>i. \A i \in 1 .. N : id[i] = i
  OBVIOUS
<1> HIDE DEF id
<1>4. ASSUME NEW it, NEW s \in SUBSET (1 .. N), s # {}, it[s \ {Max(s)}] \in S
      PROVE  Q(s, it) = step[<<it[s \ {Max(s)}], Max(s)>>]
  <2>1. <<it[s \ {Max(s)}], Max(s)>> \in S \X (1 .. N) /\ id[Max(s)] = Max(s)
    BY <1>2, <1>4, MaxOf, <1>i
  <2> QED BY <1>4, <2>1 DEF step
<1>5. g = [s \in SUBSET (1 .. N) |-> Q(s, g)]
  <2>1. ASSUME NEW s \in SUBSET (1 .. N)
        PROVE  g[s] = Q(s, g)
    BY <1>4 DEF Iterates
  <2> QED BY <2>1, Zenon DEF Iterates
<1>6. iter = [s \in SUBSET (1 .. N) |-> Q(s, iter)]
  <2> HIDE DEF Q
  <2> QED BY <1>5
<1> HIDE DEF iter
<1>7. Follows(iter, S, base, N, step)
  <2>1. iter[{}] = base
    BY <1>6
  <2>2. ASSUME NEW s \in SUBSET (1 .. N), s # {}, iter[s \ {Max(s)}] \in S
        PROVE  iter[s] = step[<<iter[s \ {Max(s)}], Max(s)>>]
    <3>1. iter[s] = Q(s, iter)
      BY <1>6
    <3> QED BY <1>4, <2>2, <3>1
  <2> QED BY <2>1, <2>2 DEF Follows
<1>8. PICK f : Stepwise(f, S, base, N, step) /\ f[N] = iter[1 .. N]
  <2> HIDE DEF S, base, N
  <2> QED BY <1>2, <1>7, StepByStep
<1>9. ASSUME NEW n \in 0 .. N - 1
      PROVE  f[n + 1] = WhatwgStep(p, f[n], n + 1)
  <2>1. f[n] \in S /\ n + 1 \in 1 .. N
    <3> HIDE DEF S, N
    <3> QED BY <1>2, <1>8 DEF Stepwise
  <2> QED BY <1>8, <2>1 DEF step, Stepwise
<1> QED BY <1>1, <1>8, <1>9 DEF Stepwise, WhatwgPath, id

-----------------------------------------------------------------------------
(* Removing dots: what the gateway and the parser return *)

Encoded == "%C3%A9"
Segments == STRING \cup {Empty, Encoded}
Undotted == Segments \ {".", ".."}
Plainest == Segments \ (Single \cup Double)

LEMMA SegmentsDiffer ==
  /\ Empty \in Plainest /\ Empty \in Undotted /\ Encoded \in Plainest /\ Encoded # Accented
  /\ Plainest \subseteq Undotted /\ Empty # Accented /\ Empty # Encoded
<1>1. /\ Empty \notin Single \cup Double /\ Encoded \notin Single \cup Double
      /\ Empty # "." /\ Empty # ".." /\ Empty # Accented /\ Encoded # Accented /\ Empty # Encoded
  BY Zenon DEF Empty, Encoded, Single, Double, Accented
<1>2. {".", ".."} \subseteq Single \cup Double
  BY DEF Single, Double
<1> HIDE DEF Single, Double
<1> QED BY <1>1, <1>2 DEF Plainest, Undotted, Segments

LEMMA WalkUndotted ==
  ASSUME NEW p \in Seq(Segments)
  PROVE  FoldLeft(Walk, <<>>, p) \in Seq(Undotted)
<1>1. PICK f \in [0 .. Len(p) -> Seq(Segments)] :
        /\ f[0] = <<>> /\ FoldLeft(Walk, <<>>, p) = f[Len(p)]
        /\ \A n \in 0 .. Len(p) - 1 : f[n + 1] = Walk(f[n], p[n + 1])
  BY WalkFold
<1> DEFINE T == {n \in 0 .. Len(p) : f[n] \in Seq(Undotted)}
<1>2. 0 \in T
  BY <1>1
<1>3. ASSUME NEW n \in 0 .. Len(p) - 1, n \in T
      PROVE  n + 1 \in T
  <2>1. f[n] \in Seq(Undotted) /\ p[n + 1] \in Segments /\ n + 1 \in 0 .. Len(p)
    BY <1>3
  <2>2. Walk(f[n], p[n + 1]) \in Seq(Undotted)
    BY <2>1 DEF Walk, Front, Undotted
  <2> QED BY <1>1, <2>1, <2>2
<1> HIDE DEF T
<1>n. Len(p) \in Nat
  OBVIOUS
<1>4. 0 .. Len(p) \subseteq T
  BY <1>n, <1>2, <1>3, InductionUpTo
<1> QED BY <1>n, <1>1, <1>4 DEF T

LEMMA RootedType ==
  ASSUME NEW S, Empty \in S, NEW p \in Seq(S)
  PROVE  Rooted(p) \in Seq(S) /\ Len(Rooted(p)) > 0
BY DEF Rooted

LEMMA ParserUndots ==
  ASSUME NEW p \in Seq(Segments)
  PROVE  _remove_dot_segments(p) \in Seq(Undotted) /\ Len(_remove_dot_segments(p)) > 0
<1> DEFINE out == FoldLeft(Walk, <<>>, p)
           done == IF Last(p) \in {".", ".."} THEN Append(out, Empty) ELSE out
<1>1. out \in Seq(Undotted)
  BY WalkUndotted
<1> HIDE DEF out
<1>2. done \in Seq(Undotted)
  BY <1>1, SegmentsDiffer
<1>3. _remove_dot_segments(p) = Rooted(done)
  BY DEF _remove_dot_segments, out
<1> HIDE DEF done
<1> QED BY <1>2, <1>3, SegmentsDiffer, RootedType

LEMMA BrowserUndots ==
  ASSUME NEW p \in Seq(Segments)
  PROVE  WhatwgPath(p) \in Seq(Plainest) /\ Len(WhatwgPath(p)) > 0
<1>0. Empty \in Segments
  BY DEF Segments
<1>1. PICK f \in [0 .. Len(p) -> Seq(Segments)] :
        /\ f[0] = <<>> /\ WhatwgPath(p) = Rooted(f[Len(p)])
        /\ \A n \in 0 .. Len(p) - 1 : f[n + 1] = WhatwgStep(p, f[n], n + 1)
  BY <1>0, WhatwgFold
<1> DEFINE T == {n \in 0 .. Len(p) : f[n] \in Seq(Plainest)}
<1>2. 0 \in T
  BY <1>1
<1>3. ASSUME NEW n \in 0 .. Len(p) - 1, n \in T
      PROVE  n + 1 \in T
  <2>1. f[n] \in Seq(Plainest) /\ p[n + 1] \in Segments /\ n + 1 \in 0 .. Len(p)
    BY <1>3
  <2>2. f[n] # <<>> => Front(f[n]) \in Seq(Plainest)
    BY <2>1 DEF Front
  <2>3. WhatwgStep(p, f[n], n + 1) \in Seq(Plainest)
    BY <2>1, <2>2, SegmentsDiffer DEF WhatwgStep, Plainest
  <2> QED BY <1>1, <2>1, <2>3
<1> HIDE DEF T
<1>n. Len(p) \in Nat
  OBVIOUS
<1>4. 0 .. Len(p) \subseteq T
  BY <1>n, <1>2, <1>3, InductionUpTo
<1>5. f[Len(p)] \in Seq(Plainest)
  BY <1>n, <1>4 DEF T
<1> QED BY <1>1, <1>5, SegmentsDiffer, RootedType

LEMMA Encodes ==
  ASSUME NEW p \in Seq(Segments)
  PROVE  /\ Encode(p) \in Seq(Segments \ {Accented}) /\ Len(Encode(p)) = Len(p)
         /\ \A i \in 1 .. Len(p) : Encode(p)[i] = IF p[i] = Accented THEN Encoded ELSE p[i]
         /\ (\A i \in 1 .. Len(p) : p[i] # Accented) => Encode(p) = p
<1> DEFINE e(s) == IF s = Accented THEN Encoded ELSE s
<1>1. Encode(p) = [i \in 1 .. Len(p) |-> e(p[i])]
  <2>1. DOMAIN p = 1 .. Len(p)
    OBVIOUS
  <2> QED BY <2>1 DEF Encode, Translated, Encoded
<1>2. \A i \in 1 .. Len(p) : e(p[i]) \in Segments \ {Accented}
  BY SegmentsDiffer DEF Plainest
<1> QED BY <1>1, <1>2

LEMMA JoinedType ==
  ASSUME NEW base, NEW ref, base.path \in Seq(Segments), ref.path \in Seq(Segments),
         ref.rooted \/ ref.path # <<>>
  PROVE  JoinedPath(base, ref) \in Seq(Segments)
<1> DEFINE up == <<Empty>> \o base.path
           dir == IF Last(up) = Empty THEN up ELSE Front(up)
           all == dir \o ref.path
           inner == NonEmpty(SubSeq(all, 2, Len(all) - 1))
           segments == IF ref.rooted THEN <<Empty>> \o ref.path
                       ELSE <<all[1]>> \o inner \o <<Last(all)>>
           resolved == FoldLeft(Walk, <<>>, segments)
           done == IF Last(segments) \in {".", ".."} THEN Append(resolved, Empty) ELSE resolved
<1>e. Empty \in Segments
  BY DEF Segments
<1>1. up \in Seq(Segments) /\ Len(up) > 0
  BY <1>e
<1>2. dir \in Seq(Segments)
  BY <1>1 DEF Front
<1> HIDE DEF dir
<1>3. all \in Seq(Segments) /\ (~ref.rooted => Len(all) > 0)
  BY <1>2
<1> HIDE DEF all
<1>4. SubSeq(all, 2, Len(all) - 1) \in Seq(Segments)
  BY <1>3
<1>5. inner \in Seq(Segments)
  <2> DEFINE sub == SubSeq(all, 2, Len(all) - 1)
  <2>1. sub \in Seq(Segments)
    BY <1>4
  <2> HIDE DEF sub
  <2>2. \E f \in [0 .. Len(sub) -> Seq(Segments)] : NonEmpty(sub) = f[Len(sub)]
    BY <2>1, SkipFold
  <2>3. Len(sub) \in 0 .. Len(sub)
    BY <2>1
  <2>4. NonEmpty(sub) \in Seq(Segments)
    BY <2>2, <2>3
  <2> QED BY <2>4 DEF sub
<1> HIDE DEF inner
<1>6. segments \in Seq(Segments)
  <2>1. CASE ref.rooted
    BY <1>e, <2>1
  <2>2. CASE ~ref.rooted
    BY <1>3, <1>5, <2>2 DEF Last
  <2> QED BY <2>1, <2>2
<1>7. JoinedPath(base, ref) = IF done \in {<<>>, <<Empty>>} THEN <<Empty>>
                              ELSE IF done[1] = Empty THEN Tail(done) ELSE done
  BY DEF JoinedPath, JoinedSegments, Collapsed, dir, all, inner
<1> HIDE DEF segments
<1>8. resolved \in Seq(Segments)
  BY <1>6, WalkUndotted DEF Undotted
<1> HIDE DEF resolved
<1>9. done \in Seq(Segments)
  BY <1>8, <1>e
<1> HIDE DEF done
<1> QED BY <1>e, <1>7, <1>9

-----------------------------------------------------------------------------
(* The canonical form *)

(* The paths of seeds, redirects and links are sequences of segments. *)
TypedPaths ==
  \A w \in Webs : \A u \in w.seeds \cup w.redirects \cup w.hrefs :
    "path" \in DOMAIN u /\ u.path \in Seq(Segments)

InForm(u) == Canonical(u) /\ "path" \in DOMAIN u /\ u.path \in Seq(Segments)

TypeInv ==
  web \in Webs /\ seen = {t.url : t \in targets} /\ \A t \in targets : InForm(t.url)

LEMMA Ports ==
  ASSUME NEW u, u.scheme \in Crawlable
  PROVE  /\ WhatwgPort(u) \notin {EmptyPort, DEFAULT_PORTS[u.scheme]}
         /\ Port(u) = WhatwgPort(u)
<1>1. DEFAULT_PORTS[u.scheme] \in {80, 443}
  BY DEF Crawlable, DEFAULT_PORTS
<1> QED BY <1>1 DEF WhatwgPort, Port, NoPort, EmptyPort

LEMMA NoBareQuery == None # Empty
BY Zenon DEF None, Empty

LEMMA GatewayForm ==
  ASSUME NEW raw, raw.path \in Seq(Segments), canonicalizeUrl(raw) # Null
  PROVE  InForm(canonicalizeUrl(raw))
<1> DEFINE q == WhatwgPath(raw.path)
           c == [scheme |-> raw.scheme, user |-> FALSE, host |-> Translated(Uts46, raw.host),
                 port |-> WhatwgPort(raw), path |-> Encode(q),
                 query |-> IF raw.query = Empty THEN None ELSE raw.query, frag |-> FALSE]
<1>1. raw.scheme \in Crawlable /\ canonicalizeUrl(raw) = c
  BY DEF canonicalizeUrl
<1>2. q \in Seq(Plainest) /\ Len(q) > 0
  BY BrowserUndots
<1> HIDE DEF q
<1>3. Encode(q) \in Seq(Segments) /\ Len(Encode(q)) > 0
      /\ \A i \in 1 .. Len(Encode(q)) : Encode(q)[i] \in Undotted
  <2>1. q \in Seq(Segments)
    BY <1>2 DEF Plainest
  <2>2. \A i \in 1 .. Len(q) : q[i] \in Undotted
    BY <1>2, SegmentsDiffer
  <2> QED BY <1>2, <2>1, <2>2, Encodes, SegmentsDiffer
<1>4. WhatwgPort(raw) \notin {EmptyPort, DEFAULT_PORTS[raw.scheme]}
  BY <1>1, Ports
<1> DEFINE e == Encode(q)
           r == WhatwgPort(raw)
<1> HIDE DEF e, r
<1>5. Canonical(c)
  <2>1. c.path = e /\ c.scheme = raw.scheme /\ c.port = r /\ ~c.user /\ ~c.frag /\ c.query # Empty
    BY NoBareQuery DEF e, r
  <2>2. e # <<>> /\ \A i \in DOMAIN e : e[i] \notin {".", ".."}
    BY <1>3 DEF Undotted, e
  <2> QED BY <1>1, <1>4, <2>1, <2>2 DEF Canonical, r
<1> QED BY <1>1, <1>3, <1>5 DEF InForm, e

LEMMA ParserForm ==
  ASSUME NEW raw, raw.path \in Seq(Segments), canonicalize(raw) # Null
  PROVE  InForm(canonicalize(raw))
<1> DEFINE q == IF raw.path = <<>> THEN <<Empty>> ELSE _remove_dot_segments(raw.path)
           c == [scheme |-> raw.scheme, user |-> FALSE,
                 host |-> Translated(Idna2003, Hostname(raw.host)), port |-> Port(raw), path |-> q,
                 query |-> IF raw.query = Empty THEN None ELSE raw.query, frag |-> FALSE]
<1>1. raw.scheme \in Crawlable /\ canonicalize(raw) = c
  BY DEF canonicalize
<1>2. q \in Seq(Undotted) /\ Len(q) > 0
  BY ParserUndots, SegmentsDiffer
<1> HIDE DEF q
<1>3. Port(raw) \notin {EmptyPort, DEFAULT_PORTS[raw.scheme]}
  BY <1>1, Ports
<1> DEFINE r == Port(raw)
<1> HIDE DEF r
<1>4. Canonical(c)
  <2>1. c.path = q /\ c.scheme = raw.scheme /\ c.port = r /\ ~c.user /\ ~c.frag /\ c.query # Empty
    BY NoBareQuery DEF r
  <2>2. q # <<>> /\ \A i \in DOMAIN q : q[i] \notin {".", ".."}
    BY <1>2 DEF Undotted
  <2> QED BY <1>1, <1>3, <2>1, <2>2 DEF Canonical, r
<1>5. q \in Seq(Segments)
  BY <1>2 DEF Undotted
<1> QED BY <1>1, <1>4, <1>5 DEF InForm

LEMMA JoinedUrlPath ==
  ASSUME NEW base, NEW ref, base.path \in Seq(Segments), ref.path \in Seq(Segments),
         "path" \in DOMAIN ref
  PROVE  urljoin(base, ref).path \in Seq(Segments)
<1>1. CASE ref.scheme # None
  BY <1>1 DEF urljoin
<1>2. CASE ref.scheme = None /\ ref.host # <<>>
  <2>1. [ref EXCEPT !.scheme = base.scheme].path = ref.path
    OBVIOUS
  <2> QED BY <1>2, <2>1 DEF urljoin
<1>3. CASE ref.scheme = None /\ ref.host = <<>>
  <2>1. CASE ref.rooted \/ ref.path # <<>>
    <3> DEFINE j == JoinedPath(base, ref)
    <3>1. j \in Seq(Segments)
      BY <2>1, JoinedType
    <3> HIDE DEF j
    <3>2. urljoin(base, ref).path = j
      BY <1>3, <2>1 DEF urljoin, j
    <3> QED BY <3>1, <3>2
  <2>2. CASE ~(ref.rooted \/ ref.path # <<>>)
    BY <1>3, <2>2 DEF urljoin
  <2> QED BY <2>1, <2>2
<1> QED BY <1>1, <1>2, <1>3

LEMMA SubmitType ==
  ASSUME TypeInv, TypedPaths, NEW raw \in web.seeds, NEW stay, NEW scoped,
         Submit(raw, stay, scoped), web' = web
  PROVE  TypeInv'
<1> DEFINE c == canonicalizeUrl(raw)
           new == [url |-> c, page |-> c, stay |-> stay, site |-> c.host,
                   scope |-> IF scoped THEN c.host ELSE <<>>]
<1>1. targets' = targets \cup {new} /\ seen' = seen \cup {c} /\ c # Null
  BY DEF Submit, Enqueue
<1>2. raw.path \in Seq(Segments)
  BY DEF TypeInv, TypedPaths
<1>3. InForm(c)
  BY <1>1, <1>2, GatewayForm
<1> HIDE DEF c
<1>4. new.url = c
  OBVIOUS
<1> HIDE DEF new
<1> QED BY <1>1, <1>3, <1>4 DEF TypeInv

LEMMA FollowType ==
  ASSUME TypeInv, TypedPaths, NEW t \in targets, NEW ref \in web.hrefs,
         NEW final \in web.redirects \cup {t.url}, Follow(t, final, ref), web' = web
  PROVE  TypeInv'
<1> DEFINE base == Effective(final)
           joined == urljoin(base, ref)
           link == canonicalize_url(base, ref, t.stay, t.scope)
           new == [url |-> link, page |-> canonicalizeUrl(Resolve(base, ref)), stay |-> t.stay,
                   site |-> t.site, scope |-> t.scope]
<1>1. targets' = targets \cup {new} /\ seen' = seen \cup {link} /\ link # Null
  BY DEF Follow, Enqueue
<1>2. "path" \in DOMAIN final /\ final.path \in Seq(Segments)
  BY DEF TypeInv, TypedPaths, InForm
<1>3. "path" \in DOMAIN ref /\ ref.path \in Seq(Segments)
  BY DEF TypeInv, TypedPaths
<1>4. base.path \in Seq(Segments)
  <2>1. base.path = Encode(final.path)
    BY <1>2 DEF Effective
  <2> QED BY <1>2, <2>1, Encodes
<1> HIDE DEF base
<1>5. link = canonicalize(joined)
  BY <1>1 DEF canonicalize_url
<1>6. joined.path \in Seq(Segments)
  BY <1>3, <1>4, JoinedUrlPath
<1> HIDE DEF joined
<1>7. InForm(link)
  BY <1>1, <1>5, <1>6, ParserForm
<1> HIDE DEF link
<1>8. new.url = link
  OBVIOUS
<1> HIDE DEF new
<1> QED BY <1>1, <1>7, <1>8 DEF TypeInv

LEMMA TypeInvariant ==
  ASSUME TypedPaths
  PROVE  Spec => []TypeInv
<1>1. Init => TypeInv
  BY DEF Init, TypeInv
<1>2. TypeInv /\ [Next]_vars => TypeInv'
  <2> SUFFICES ASSUME TypeInv, [Next]_vars PROVE TypeInv'
    OBVIOUS
  <2>1. CASE UNCHANGED vars
    BY <2>1 DEF vars, TypeInv
  <2>2. CASE Next
    BY <2>2, SubmitType, FollowType DEF Next
  <2> QED BY <2>1, <2>2
<1> QED BY <1>1, <1>2, PTL DEF Spec

(* Whatever dots, accents, ports and queries clients and pages write, only  *)
(* URLs in canonical form enter the seen filter and the frontier            *)
(* (canonicalizeUrl in the gateway, canonicalize in the parser).            *)
THEOREM FrontierCanonical ==
  ASSUME TypedPaths
  PROVE  Spec => []TypeOK
<1>1. TypeInv => TypeOK
  BY DEF TypeInv, TypeOK, InForm
<1> QED BY <1>1, TypeInvariant, PTL

-----------------------------------------------------------------------------
(* Removing dots: that they return the same *)

(* Paths in which a browser and the parser see the same dots. *)
Spelled == Segments \ {"%2e", "%2e%2e"}
Tidy(p) == \A i \in 1 .. Len(p) - 1 : p[i] # Empty

LEMMA DotsSpelled ==
  /\ Spelled \cap Single = {"."} \cap Spelled /\ Spelled \cap Double = {".."} \cap Spelled
  /\ Plainest \subseteq Spelled /\ Empty \in Spelled /\ "." # ".."
<1>1. "." # ".." /\ "." # "%2e" /\ "." # "%2e%2e" /\ ".." # "%2e" /\ ".." # "%2e%2e"
  BY Zenon
<1>2. Empty \in Plainest
  BY SegmentsDiffer
<1> QED BY <1>1, <1>2 DEF Spelled, Plainest, Single, Double

(* A path without dots stays as it is. *)
LEMMA BrowserIdentity ==
  ASSUME NEW p \in Seq(Plainest), Len(p) > 0
  PROVE  WhatwgPath(p) = p
<1>0. Empty \in Plainest /\ Len(p) \in Nat
  BY SegmentsDiffer
<1>1. PICK f \in [0 .. Len(p) -> Seq(Plainest)] :
        /\ f[0] = <<>> /\ WhatwgPath(p) = Rooted(f[Len(p)])
        /\ \A n \in 0 .. Len(p) - 1 : f[n + 1] = WhatwgStep(p, f[n], n + 1)
  BY <1>0, WhatwgFold
<1> DEFINE T == {n \in 0 .. Len(p) : Len(f[n]) = n /\ \A i \in 1 .. n : f[n][i] = p[i]}
<1>2. 0 \in T
  BY <1>0, <1>1
<1>3. ASSUME NEW n \in 0 .. Len(p) - 1, n \in T
      PROVE  n + 1 \in T
  <2>1. f[n] \in Seq(Plainest) /\ p[n + 1] \in Plainest /\ n + 1 \in 0 .. Len(p)
    BY <1>0, <1>3
  <2>2. f[n + 1] = Append(f[n], p[n + 1])
    BY <1>1, <2>1 DEF WhatwgStep, Plainest
  <2> DEFINE o == f[n]
             s == p[n + 1]
             e == f[n + 1]
  <2>3. o \in Seq(Plainest) /\ Len(o) = n /\ \A i \in 1 .. n : o[i] = p[i]
    BY <1>3, <2>1
  <2>4. e = Append(o, s) /\ s = p[n + 1] /\ s \in Plainest
    BY <2>1, <2>2
  <2> HIDE DEF o, s, e
  <2>5. Len(e) = n + 1 /\ \A i \in 1 .. n + 1 : e[i] = p[i]
    BY <2>3, <2>4
  <2> QED BY <2>1, <2>5 DEF e
<1>4. 0 .. Len(p) \subseteq T
  <2> HIDE DEF T
  <2> QED BY <1>0, <1>2, <1>3, InductionUpTo
<1>5. f[Len(p)] \in Seq(Plainest) /\ Len(f[Len(p)]) = Len(p)
      /\ \A i \in 1 .. Len(p) : f[Len(p)][i] = p[i]
  <2>1. Len(p) \in T
    BY <1>0, <1>4
  <2> QED BY <2>1
<1>6. f[Len(p)] = p
  BY <1>5, SeqEqual
<1> QED BY <1>1, <1>6 DEF Rooted

(* Where no dot is percent-encoded, the parser's _remove_dot_segments does  *)
(* to a path of any length what new URL does to it in the gateway and in a  *)
(* browser.                                                                 *)
THEOREM ParserAgrees ==
  ASSUME NEW p \in Seq(Spelled), Len(p) > 0
  PROVE  _remove_dot_segments(p) = WhatwgPath(p)
<1>0. Empty \in Spelled /\ Len(p) \in Nat
  BY DotsSpelled
<1>1. PICK f \in [0 .. Len(p) -> Seq(Spelled)] :
        /\ f[0] = <<>> /\ WhatwgPath(p) = Rooted(f[Len(p)])
        /\ \A n \in 0 .. Len(p) - 1 : f[n + 1] = WhatwgStep(p, f[n], n + 1)
  BY <1>0, WhatwgFold
<1>2. PICK g \in [0 .. Len(p) -> Seq(Spelled)] :
        /\ g[0] = <<>> /\ FoldLeft(Walk, <<>>, p) = g[Len(p)]
        /\ \A n \in 0 .. Len(p) - 1 : g[n + 1] = Walk(g[n], p[n + 1])
  BY WalkFold
<1> DEFINE T == {n \in 0 .. Len(p) - 1 : f[n] = g[n]}
<1>s. \A n \in 1 .. Len(p) : /\ p[n] \in Single <=> p[n] = "."
                             /\ p[n] \in Double <=> p[n] = ".."
  BY DotsSpelled
<1>3. 0 \in T
  BY <1>0, <1>1, <1>2
<1>4. ASSUME NEW n \in 0 .. Len(p) - 2, n \in T
      PROVE  n + 1 \in T
  <2>1. n + 1 \in 1 .. Len(p) - 1 /\ n \in 0 .. Len(p) - 1 /\ n + 1 # Len(p)
    BY <1>0
  <2>2. WhatwgStep(p, f[n], n + 1) = Walk(f[n], p[n + 1])
    BY <1>s, <2>1, DotsSpelled DEF WhatwgStep, Walk
  <2> QED BY <1>1, <1>2, <1>4, <2>1, <2>2
<1>5. 0 .. Len(p) - 1 \subseteq T
  <2> HIDE DEF T
  <2>1. Len(p) - 1 \in Nat /\ Len(p) - 1 - 1 = Len(p) - 2
    BY <1>0
  <2> QED BY <1>3, <1>4, <2>1, InductionUpTo
<1> DEFINE m == Len(p) - 1
<1>6. f[m] = g[m] /\ m \in 0 .. Len(p) - 1 /\ m + 1 = Len(p) /\ Last(p) = p[Len(p)]
  BY <1>0, <1>5 DEF Last
<1>7. f[Len(p)] = WhatwgStep(p, g[m], Len(p)) /\ g[Len(p)] = Walk(g[m], p[Len(p)])
  BY <1>1, <1>2, <1>6
<1>8. f[Len(p)] = IF Last(p) \in {".", ".."} THEN Append(g[Len(p)], Empty) ELSE g[Len(p)]
  BY <1>s, <1>0, <1>6, <1>7, DotsSpelled DEF WhatwgStep, Walk
<1> QED BY <1>1, <1>2, <1>8 DEF _remove_dot_segments

LEMMA TidyStays ==
  ASSUME NEW p \in Seq(Segments), Tidy(p)
  PROVE  Tidy(WhatwgPath(p))
<1>0. Empty \in Segments /\ Len(p) \in Nat
  BY DEF Segments
<1>1. PICK f \in [0 .. Len(p) -> Seq(Segments)] :
        /\ f[0] = <<>> /\ WhatwgPath(p) = Rooted(f[Len(p)])
        /\ \A n \in 0 .. Len(p) - 1 : f[n + 1] = WhatwgStep(p, f[n], n + 1)
  BY <1>0, WhatwgFold
<1> DEFINE T == {n \in 0 .. Len(p) : /\ n < Len(p) => \A i \in 1 .. Len(f[n]) : f[n][i] # Empty
                                     /\ Tidy(f[n])}
<1>2. 0 \in T
  BY <1>0, <1>1 DEF Tidy
<1>3. ASSUME NEW n \in 0 .. Len(p) - 1, n \in T
      PROVE  n + 1 \in T
  <2>1. /\ f[n] \in Seq(Segments) /\ p[n + 1] \in Segments /\ n + 1 \in 0 .. Len(p)
        /\ \A i \in 1 .. Len(f[n]) : f[n][i] # Empty
    BY <1>0, <1>3
  <2>2. n + 1 < Len(p) => p[n + 1] # Empty
    BY <1>0 DEF Tidy
  <2> DEFINE up == IF p[n + 1] \in Double /\ f[n] # <<>> THEN Front(f[n]) ELSE f[n]
  <2>3. up \in Seq(Segments) /\ \A i \in 1 .. Len(up) : up[i] # Empty
    BY <2>1 DEF Front
  <2>4. f[n + 1] = IF p[n + 1] \notin Single \cup Double THEN Append(f[n], p[n + 1])
                   ELSE IF n + 1 = Len(p) THEN Append(up, Empty) ELSE up
    BY <1>1 DEF WhatwgStep
  <2> DEFINE o == f[n]
             s == p[n + 1]
             e == f[n + 1]
             Free(q) == q \in Seq(Segments) /\ \A i \in 1 .. Len(q) : q[i] # Empty
  <2>5. /\ Free(o) /\ Free(up) /\ s \in Segments /\ e \in {Append(o, s), Append(up, Empty), up}
        /\ n + 1 < Len(p) => s # Empty /\ e # Append(up, Empty)
    <3>1. CASE s \notin Single \cup Double
      BY <2>1, <2>2, <2>3, <2>4, <3>1
    <3>2. CASE s \in Single \cup Double /\ n + 1 = Len(p)
      BY <2>1, <2>2, <2>3, <2>4, <3>2
    <3>3. CASE s \in Single \cup Double /\ n + 1 # Len(p)
      BY <2>1, <2>2, <2>3, <2>4, <3>3
    <3> QED BY <3>1, <3>2, <3>3
  <2> HIDE DEF up, o, s, e
  <2>6. ASSUME NEW q \in {o, up}, NEW l \in Segments
        PROVE  Tidy(Append(q, l)) /\ Tidy(q) /\ (l # Empty => Free(Append(q, l)))
    BY <2>5 DEF Tidy
  <2>7. Tidy(e) /\ (n + 1 < Len(p) => \A i \in 1 .. Len(e) : e[i] # Empty)
    BY <1>0, <2>5, <2>6
  <2> QED BY <2>1, <2>7 DEF e
<1>4. 0 .. Len(p) \subseteq T
  <2> HIDE DEF T
  <2> QED BY <1>0, <1>2, <1>3, InductionUpTo
<1>5. Tidy(f[Len(p)])
  <2>1. Len(p) \in T
    BY <1>0, <1>4
  <2> QED BY <2>1
<1>6. Tidy(<<Empty>>)
  BY DEF Tidy
<1> QED BY <1>1, <1>5, <1>6 DEF Rooted

(* The segment before the first slash only ever absorbs a "..", so urljoin  *)
(* resolves a rooted path as a browser does.                                *)
LEMMA CollapsedIs ==
  ASSUME NEW q \in Seq(Spelled), Len(q) > 0, Tidy(q)
  PROVE  Collapsed(<<Empty>> \o q) = WhatwgPath(q)
<1> DEFINE r == <<Empty>> \o q
           N == Len(q)
<1>0. /\ Empty \in Spelled /\ N \in Nat /\ r \in Seq(Spelled) /\ Len(r) = N + 1
      /\ r[1] = Empty /\ \A i \in 1 .. N : r[i + 1] = q[i]
  BY DotsSpelled
<1>e. Empty # "." /\ Empty # ".."
  BY SegmentsDiffer DEF Undotted
<1> HIDE DEF r
<1>1. PICK f \in [0 .. Len(q) -> Seq(Spelled)] :
        /\ f[0] = <<>> /\ FoldLeft(Walk, <<>>, q) = f[Len(q)]
        /\ \A n \in 0 .. Len(q) - 1 : f[n + 1] = Walk(f[n], q[n + 1])
  BY WalkFold
<1>2. PICK g \in [0 .. Len(r) -> Seq(Spelled)] :
        /\ g[0] = <<>> /\ FoldLeft(Walk, <<>>, r) = g[Len(r)]
        /\ \A n \in 0 .. Len(r) - 1 : g[n + 1] = Walk(g[n], r[n + 1])
  BY <1>0, WalkFold
<1> DEFINE Free(o) == \A i \in 1 .. Len(o) : o[i] # Empty
           T == {n \in 0 .. N :
                   /\ g[n + 1] = f[n] \/ g[n + 1] = <<Empty>> \o f[n]
                   /\ \/ Free(f[n])
                      \/ /\ n = N /\ q[N] \notin {".", ".."}
                         /\ \E o \in Seq(Spelled) : Free(o) /\ f[n] = Append(o, Empty)}
<1>3. 0 \in T
  <2>1. g[1] = Walk(<<>>, Empty)
    BY <1>0, <1>2
  <2>2. g[1] = <<Empty>> \o <<>>
    BY <1>e, <2>1 DEF Walk
  <2>3. Free(f[0]) /\ g[0 + 1] = <<Empty>> \o f[0] /\ 0 \in 0 .. N
    BY <1>0, <1>1, <2>2
  <2> HIDE DEF Free
  <2> QED BY <2>3
<1>4. ASSUME NEW n \in 0 .. N - 1, n \in T
      PROVE  n + 1 \in T
  <2> DEFINE o == f[n]
             s == q[n + 1]
             e == f[n + 1]
             d == g[n + 1]
             h == g[n + 2]
  <2>1. /\ o \in Seq(Spelled) /\ Free(o) /\ s \in Spelled /\ e = Walk(o, s) /\ h = Walk(d, s)
        /\ d = o \/ d = <<Empty>> \o o
        /\ n + 1 < N => s # Empty
        /\ n + 1 \in 0 .. N
    <3>1. n + 2 = (n + 1) + 1 /\ n + 1 \in 0 .. Len(r) - 1 /\ r[(n + 1) + 1] = q[n + 1]
      BY <1>0
    <3>2. g[(n + 1) + 1] = Walk(g[n + 1], r[(n + 1) + 1])
      BY <1>2, <3>1
    <3>3. n \in 0 .. Len(q) - 1 /\ n \in 0 .. Len(q) /\ n + 1 \in 1 .. Len(q) /\ n + 1 \in 0 .. N
      BY <1>0
    <3>4. f[n] \in Seq(Spelled) /\ f[n + 1] = Walk(f[n], q[n + 1]) /\ q[n + 1] \in Spelled
      BY <1>1, <3>3
    <3>5. n + 1 < N => q[n + 1] # Empty
      BY <3>3 DEF Tidy
    <3>6. Free(o) /\ (d = o \/ d = <<Empty>> \o o)
      BY <1>4, <1>0
    <3> HIDE DEF Free
    <3> QED BY <3>1, <3>2, <3>3, <3>4, <3>5, <3>6
  <2> HIDE DEF o, s, e, d, h
  <2>2. CASE s = ".."
    <3>1. CASE o = <<>>
      <4>1. e = <<>>
        BY <2>1, <2>2, <3>1 DEF Walk
      <4>2. d = <<>> \/ (Len(d) = 1 /\ d \in Seq(Spelled))
        <5>1. <<Empty>> \o <<>> \in Seq(Spelled) /\ Len(<<Empty>> \o <<>>) = 1
          BY <1>0
        <5> QED BY <2>1, <3>1, <5>1
      <4>3. h = <<>>
        <5>1. CASE d = <<>>
          BY <2>1, <2>2, <5>1 DEF Walk
        <5>2. CASE Len(d) = 1 /\ d \in Seq(Spelled)
          BY <2>1, <2>2, <5>2 DEF Walk, Front
        <5> QED BY <4>2, <5>1, <5>2
      <4> QED BY <4>1, <4>3, <2>1 DEF e, h
    <3>2. CASE o # <<>>
      <4>1. e = Front(o) /\ e \in Seq(Spelled) /\ Free(e)
        BY <2>1, <2>2, <3>2 DEF Walk, Front
      <4>2. h = e \/ h = <<Empty>> \o e
        <5>1. CASE d = o
          BY <2>1, <5>1
        <5>2. CASE d = <<Empty>> \o o
          <6>1. h = Front(<<Empty>> \o o)
            BY <1>0, <2>1, <2>2, <5>2 DEF Walk
          <6>2. Front(<<Empty>> \o o) = <<Empty>> \o Front(o)
            BY <1>0, <2>1, <3>2 DEF Front
          <6> QED BY <4>1, <6>1, <6>2
        <5> QED BY <2>1, <5>1, <5>2
      <4> QED BY <2>1, <4>1, <4>2 DEF e, h
    <3> QED BY <3>1, <3>2
  <2>3. CASE s = "."
    <3>1. e = o /\ h = d
      BY <2>1, <2>3, DotsSpelled DEF Walk
    <3> QED BY <2>1, <3>1 DEF e, h
  <2>4. CASE s \notin {".", ".."}
    <3>1. e = Append(o, s) /\ h = Append(d, s)
      BY <2>1, <2>4 DEF Walk
    <3>2. h = e \/ h = <<Empty>> \o e
      BY <1>0, <2>1, <3>1
    <3>3. s # Empty => Free(e)
      BY <2>1, <3>1
    <3>4. s = Empty => n + 1 = N /\ q[N] \notin {".", ".."} /\ e = Append(o, Empty)
      <4>1. s = Empty => n + 1 = N
        BY <1>0, <2>1
      <4>2. n + 1 = N => q[N] = s
        BY DEF s
      <4> QED BY <2>4, <3>1, <4>1, <4>2
    <3> HIDE DEF Free
    <3> QED BY <2>1, <3>2, <3>3, <3>4 DEF e, h
  <2> QED BY <2>2, <2>3, <2>4
<1>5. N \in T
  <2> HIDE DEF T
  <2>1. 0 .. N \subseteq T
    BY <1>0, <1>3, <1>4, InductionUpTo
  <2> QED BY <1>0, <2>1
<1> DEFINE z == f[N]
           w == g[N + 1]
           l == q[N]
           y == IF l \in {".", ".."} THEN Append(z, Empty) ELSE z
           done == IF l \in {".", ".."} THEN Append(w, Empty) ELSE w
<1>6. /\ z \in Seq(Spelled) /\ w \in {z, <<Empty>> \o z}
      /\ Free(z) \/ (l \notin {".", ".."} /\ \E o \in Seq(Spelled) : Free(o) /\ z = Append(o, Empty))
  BY <1>0, <1>1, <1>5
<1>7. Last(r) = l /\ Last(q) = l /\ FoldLeft(Walk, <<>>, q) = z /\ FoldLeft(Walk, <<>>, r) = w
  BY <1>0, <1>1, <1>2 DEF Last
<1> HIDE DEF z, w, l, T
<1>8. WhatwgPath(q) = Rooted(y)
  BY <1>7, ParserAgrees DEF _remove_dot_segments
<1>9. Collapsed(r) = IF done \in {<<>>, <<Empty>>} THEN <<Empty>>
                     ELSE IF done[1] = Empty THEN Tail(done) ELSE done
  BY <1>7 DEF Collapsed
<1>10. PICK o \in Seq(Spelled) : Free(o) /\ y \in {o, Append(o, Empty)}
  BY <1>6
<1>11. y \in Seq(Spelled) /\ done \in {y, <<Empty>> \o y}
  <2>1. CASE l \in {".", ".."}
    <3>1. Append(<<Empty>> \o z, Empty) = <<Empty>> \o Append(z, Empty)
      BY <1>0, <1>6
    <3> QED BY <1>0, <1>6, <2>1, <3>1
  <2>2. CASE l \notin {".", ".."}
    BY <1>6, <2>2
  <2> QED BY <2>1, <2>2
<1> HIDE DEF y, done
<1>12. y = <<>> \/ y = <<Empty>> \/ (Len(y) > 0 /\ y[1] # Empty)
  <2>1. CASE o = <<>>
    <3>1. Append(<<>>, Empty) = <<Empty>>
      OBVIOUS
    <3> QED BY <1>10, <2>1, <3>1
  <2>2. CASE o # <<>>
    <3>1. Len(o) > 0 /\ o[1] # Empty
      BY <1>10, <2>2
    <3>2. Len(Append(o, Empty)) > 0 /\ Append(o, Empty)[1] = o[1]
      BY <1>0, <3>1
    <3> QED BY <1>10, <3>1, <3>2
  <2> QED BY <2>1, <2>2
<1>13. CASE done = y
  <2>1. CASE y \in {<<>>, <<Empty>>}
    BY <1>8, <1>9, <1>13, <2>1 DEF Rooted, r
  <2>2. CASE y \notin {<<>>, <<Empty>>}
    BY <1>8, <1>9, <1>12, <1>13, <2>2 DEF Rooted, r
  <2> QED BY <2>1, <2>2
<1>14. CASE done = <<Empty>> \o y
  <2>1. CASE y = <<>>
    <3>1. done = <<Empty>>
      BY <1>14, <2>1
    <3> QED BY <1>8, <1>9, <2>1, <3>1 DEF Rooted, r
  <2>2. CASE y # <<>>
    <3>1. Len(done) > 1 /\ done[1] = Empty /\ Tail(done) = y
      BY <1>0, <1>11, <1>14, <2>2
    <3>2. done \notin {<<>>, <<Empty>>}
      BY <3>1
    <3> QED BY <1>8, <1>9, <2>2, <3>1, <3>2 DEF Rooted, r
  <2> QED BY <2>1, <2>2
<1> QED BY <1>11, <1>13, <1>14

-----------------------------------------------------------------------------
(* urljoin and a browser on relative references *)

(* NonEmpty drops what lies between a directory and its closing slash. *)
NoGaps(p) == \A i \in 1 .. Len(p) : p[i] # Empty

LEMMA NothingToSkip ==
  ASSUME NEW c \in Seq(Segments), NoGaps(c)
  PROVE  NonEmpty(c) = c
<1>0. Len(c) \in Nat
  OBVIOUS
<1>1. PICK f \in [0 .. Len(c) -> Seq(Segments)] :
        /\ f[0] = <<>> /\ NonEmpty(c) = f[Len(c)]
        /\ \A n \in 0 .. Len(c) - 1 : f[n + 1] = Skip(f[n], c[n + 1])
  BY SkipFold
<1> DEFINE T == {n \in 0 .. Len(c) : Len(f[n]) = n /\ \A i \in 1 .. n : f[n][i] = c[i]}
<1>2. 0 \in T
  BY <1>0, <1>1
<1>3. ASSUME NEW n \in 0 .. Len(c) - 1, n \in T
      PROVE  n + 1 \in T
  <2> DEFINE o == f[n]
             s == c[n + 1]
             e == f[n + 1]
  <2>1. /\ n + 1 \in 0 .. Len(c) /\ s \in Segments /\ s # Empty
        /\ o \in Seq(Segments) /\ Len(o) = n /\ \A i \in 1 .. n : o[i] = c[i]
    BY <1>0, <1>3 DEF NoGaps
  <2>2. e = Append(o, s)
    BY <1>1, <2>1 DEF Skip
  <2>3. s = c[n + 1]
    OBVIOUS
  <2> HIDE DEF o, s, e
  <2>4. Len(e) = n + 1 /\ \A i \in 1 .. n + 1 : e[i] = c[i]
    BY <2>1, <2>2, <2>3
  <2> QED BY <2>1, <2>4 DEF e
<1>4. Len(c) \in T
  <2> HIDE DEF T
  <2>1. 0 .. Len(c) \subseteq T
    BY <1>0, <1>2, <1>3, InductionUpTo
  <2> QED BY <1>0, <2>1
<1>5. f[Len(c)] \in Seq(Segments) /\ Len(f[Len(c)]) = Len(c)
      /\ \A i \in 1 .. Len(c) : f[Len(c)][i] = c[i]
  BY <1>4
<1>6. f[Len(c)] = c
  BY <1>5, SeqEqual
<1> QED BY <1>1, <1>6

LEMMA OneSkipped ==
  ASSUME NEW a \in Seq(Segments), NoGaps(a), NEW b \in Seq(Segments), NoGaps(b)
  PROVE  NonEmpty(a \o <<Empty>> \o b) = a \o b
<1> DEFINE c == a \o <<Empty>> \o b
           d == a \o b
           A == Len(a)
           N == Len(c)
<1>e. Empty \in Segments
  BY DEF Segments
<1>0. /\ A \in Nat /\ N \in Nat /\ A + 1 <= N /\ c \in Seq(Segments) /\ d \in Seq(Segments)
      /\ Len(d) = N - 1 /\ c[A + 1] = Empty
      /\ \A i \in 1 .. A : c[i] = d[i] /\ d[i] = a[i]
      /\ \A i \in A + 1 .. N - 1 : c[i + 1] = d[i] /\ d[i] = b[i - A]
  BY <1>e
<1>g. NoGaps(d)
  <2>1. \A i \in A + 1 .. N - 1 : i - A \in 1 .. Len(b)
    BY <1>0
  <2> QED BY <1>0, <2>1 DEF NoGaps
<1> HIDE DEF c, d, A
<1>1. PICK f \in [0 .. Len(c) -> Seq(Segments)] :
        /\ f[0] = <<>> /\ NonEmpty(c) = f[Len(c)]
        /\ \A n \in 0 .. Len(c) - 1 : f[n + 1] = Skip(f[n], c[n + 1])
  <2>1. c \in Seq(Segments)
    BY <1>0
  <2> QED BY <2>1, SkipFold
<1> DEFINE m(n) == IF n <= A THEN n ELSE n - 1
           T == {n \in 0 .. N : Len(f[n]) = m(n) /\ \A i \in 1 .. m(n) : f[n][i] = d[i]}
<1>2. 0 \in T
  BY <1>0, <1>1
<1>3. ASSUME NEW n \in 0 .. N - 1, n \in T
      PROVE  n + 1 \in T
  <2> DEFINE o == f[n]
             s == c[n + 1]
             e == f[n + 1]
  <2>1. /\ n + 1 \in 0 .. N /\ s \in Segments /\ n \in 0 .. N
        /\ o \in Seq(Segments) /\ Len(o) = m(n) /\ \A i \in 1 .. m(n) : o[i] = d[i]
    BY <1>0, <1>3
  <2>2. e = Skip(o, s)
    BY <1>1, <2>1
  <2> HIDE DEF o, e
  <2>3. CASE n = A
    <3>1. e = o /\ m(n + 1) = m(n)
      BY <1>0, <2>2, <2>3 DEF Skip
    <3> QED BY <2>1, <3>1 DEF e
  <2>4. CASE n # A
    <3>1. m(n + 1) = m(n) + 1 /\ m(n) + 1 \in 1 .. N - 1 /\ s = d[m(n) + 1]
      BY <1>0, <2>1, <2>4
    <3>2. s # Empty
      BY <1>0, <1>g, <3>1 DEF NoGaps
    <3> HIDE DEF s
    <3>3. e = Append(o, s)
      BY <2>2, <3>2 DEF Skip
    <3> DEFINE k == m(n)
    <3>4. k \in Nat /\ Len(o) = k /\ (\A i \in 1 .. k : o[i] = d[i]) /\ s = d[k + 1]
      BY <2>1, <3>1
    <3> HIDE DEF k
    <3>5. Len(e) = k + 1 /\ \A i \in 1 .. k + 1 : e[i] = d[i]
      BY <2>1, <3>3, <3>4
    <3>6. m(n + 1) = k + 1
      BY <3>1 DEF k
    <3> HIDE DEF m
    <3> QED BY <2>1, <3>5, <3>6 DEF e
  <2> QED BY <2>3, <2>4
<1>4. N \in T
  <2> HIDE DEF T
  <2>1. 0 .. N \subseteq T
    BY <1>0, <1>2, <1>3, InductionUpTo
  <2> QED BY <1>0, <2>1
<1>5. f[N] \in Seq(Segments) /\ Len(f[N]) = Len(d) /\ \A i \in 1 .. Len(d) : f[N][i] = d[i]
  BY <1>0, <1>4
<1>6. f[N] = d
  BY <1>0, <1>5, SeqEqual
<1> QED BY <1>1, <1>6 DEF c, d

(* A sequence with a first and a last element around h. *)
Framed(s, x, h, l) == s = <<x>> \o h \o <<l>>

LEMMA Middle ==
  ASSUME NEW x \in Segments, NEW h \in Seq(Segments), NEW l \in Segments, NEW s,
         Framed(s, x, h, l)
  PROVE  s[1] = x /\ Last(s) = l /\ SubSeq(s, 2, Len(s) - 1) = h
<1>1. /\ s \in Seq(Segments) /\ Len(s) = Len(h) + 2 /\ Len(h) \in Nat /\ s[1] = x
      /\ s[Len(h) + 2] = l /\ \A i \in 1 .. Len(h) : s[i + 1] = h[i]
  BY DEF Framed
<1> DEFINE t == SubSeq(s, 2, Len(h) + 1)
<1>2. t \in Seq(Segments) /\ Len(t) = Len(h) /\ \A i \in 1 .. Len(h) : t[i] = s[i + 1]
  BY <1>1
<1> HIDE DEF t
<1>3. t = h
  BY <1>1, <1>2, SeqEqual
<1> QED BY <1>1, <1>3 DEF Last, t

(* The directory of a page, and what urljoin makes of it. *)
Directory(base) == IF base.path = <<>> THEN <<>> ELSE Front(base.path)

LEMMA JoinedSegmentsAre ==
  ASSUME NEW base, NEW ref, base.path \in Seq(Segments), Tidy(base.path),
         ref.path \in Seq(Segments), Tidy(ref.path), ref.path # <<>>, ~ref.rooted
  PROVE  JoinedSegments(base, ref) = <<Empty>> \o (Directory(base) \o ref.path)
<1> DEFINE bp == base.path
           rp == ref.path
           up == <<Empty>> \o bp
           dir == IF Last(up) = Empty THEN up ELSE Front(up)
           all == dir \o rp
           sub == SubSeq(all, 2, Len(all) - 1)
           D == Directory(base)
           F == Front(rp)
           l == Last(rp)
<1>e. Empty \in Segments
  BY DEF Segments
<1>1. JoinedSegments(base, ref) = <<all[1]>> \o NonEmpty(sub) \o <<Last(all)>>
  BY DEF JoinedSegments
<1>2. /\ D \in Seq(Segments) /\ NoGaps(D) /\ bp \in Seq(Segments)
      /\ bp = <<>> => D = <<>>
      /\ bp # <<>> => bp = D \o <<Last(bp)>> /\ Last(bp) \in Segments
  BY DEF Directory, Front, Last, Tidy, NoGaps
<1>3. /\ F \in Seq(Segments) /\ NoGaps(F) /\ l \in Segments /\ rp = F \o <<l>>
  BY DEF Front, Last, Tidy, NoGaps
<1> HIDE DEF bp, rp, D, F, l
<1>4. dir = <<Empty>> \o D \/ dir = <<Empty>> \o D \o <<Empty>>
  <2>1. CASE bp = <<>>
    <3>1. Last(up) = Empty /\ up = <<Empty>> \o D
      BY <1>e, <1>2, <2>1 DEF Last
    <3> QED BY <3>1
  <2>2. CASE bp # <<>>
    <3>1. up = <<Empty>> \o D \o <<Last(bp)>>
      BY <1>e, <1>2, <2>2
    <3>2. Last(up) = Last(bp) /\ Front(up) = <<Empty>> \o D
      <4> DEFINE x == Last(bp)
      <4>1. x \in Segments
        BY <1>2, <2>2
      <4> HIDE DEF x
      <4>2. Last(<<Empty>> \o D \o <<x>>) = x
        BY <1>e, <1>2, <4>1 DEF Last
      <4>3. Front(<<Empty>> \o D \o <<x>>) = <<Empty>> \o D
        BY <1>e, <1>2, <4>1 DEF Front
      <4> HIDE DEF up
      <4> QED BY <3>1, <4>2, <4>3 DEF x
    <3> HIDE DEF up
    <3> QED BY <3>1, <3>2
  <2> QED BY <2>1, <2>2
<1> HIDE DEF dir
<1>5. CASE dir = <<Empty>> \o D
  <2>1. /\ all[1] = Empty /\ Last(all) = l /\ sub = D \o F
    <3> DEFINE x == Empty
    <3>1. x \in Segments
      BY <1>e
    <3> HIDE DEF x
    <3>2. (<<x>> \o D) \o (F \o <<l>>) = <<x>> \o (D \o F) \o <<l>> /\ D \o F \in Seq(Segments)
      BY <1>2, <1>3, <3>1
    <3>3. all = <<x>> \o (D \o F) \o <<l>>
      BY <1>3, <1>5, <3>2 DEF x
    <3> HIDE DEF all
    <3> DEFINE h == D \o F
    <3>4. h \in Seq(Segments) /\ Framed(all, x, h, l) /\ l \in Segments
      BY <1>3, <3>2, <3>3 DEF Framed
    <3> HIDE DEF h
    <3>5. all[1] = x /\ Last(all) = l /\ SubSeq(all, 2, Len(all) - 1) = h
      BY <3>1, <3>4, Middle
    <3> QED BY <3>5 DEF x, h
  <2>2. D \o F \in Seq(Segments) /\ NoGaps(D \o F)
    BY <1>2, <1>3 DEF NoGaps
  <2>3. NonEmpty(sub) = D \o F
    BY <2>1, <2>2, NothingToSkip
  <2> HIDE DEF all, sub
  <2>4. <<Empty>> \o (D \o F) \o <<l>> = <<Empty>> \o (D \o rp)
    BY <1>e, <1>2, <1>3
  <2> QED BY <1>1, <2>1, <2>3, <2>4 DEF D, rp
<1>6. CASE dir = <<Empty>> \o D \o <<Empty>>
  <2>1. /\ all[1] = Empty /\ Last(all) = l /\ sub = D \o <<Empty>> \o F
    <3> DEFINE x == Empty
    <3>1. x \in Segments
      BY <1>e
    <3> HIDE DEF x
    <3>2. /\ (<<x>> \o D \o <<x>>) \o (F \o <<l>>) = <<x>> \o (D \o <<x>> \o F) \o <<l>>
          /\ D \o <<x>> \o F \in Seq(Segments)
      BY <1>2, <1>3, <3>1
    <3>3. all = <<x>> \o (D \o <<x>> \o F) \o <<l>>
      BY <1>3, <1>6, <3>2 DEF x
    <3> HIDE DEF all
    <3> DEFINE h == D \o <<x>> \o F
    <3>4. h \in Seq(Segments) /\ Framed(all, x, h, l) /\ l \in Segments
      BY <1>3, <3>2, <3>3 DEF Framed
    <3> HIDE DEF h
    <3>5. all[1] = x /\ Last(all) = l /\ SubSeq(all, 2, Len(all) - 1) = h
      BY <3>1, <3>4, Middle
    <3> QED BY <3>5 DEF x, h
  <2>2. NonEmpty(sub) = D \o F
    BY <1>2, <1>3, <2>1, OneSkipped
  <2> HIDE DEF all, sub
  <2>3. <<Empty>> \o (D \o F) \o <<l>> = <<Empty>> \o (D \o rp)
    BY <1>e, <1>2, <1>3
  <2> QED BY <1>1, <2>1, <2>2, <2>3 DEF D, rp
<1> QED BY <1>4, <1>5, <1>6

-----------------------------------------------------------------------------
(* Whole URLs *)

(* Hosts on which IDNA 2003 and UTS #46 agree, and Python with both. *)
Common(host) ==
  Name(host) /\ \A i \in 1 .. Len(host) : host[i] \notin {SharpS, BareIPv6} \cup Escapes

(* Hosts that Go prints as they are. *)
Printed(host) == \A i \in 1 .. Len(host) : host[i] \notin Umlauts
Fine(p) == p \in Seq(Spelled \ {Accented}) /\ Tidy(p)

LEMMA Uts46Once ==
  ASSUME NEW host \in Seq(Labels), Name(host), \A i \in 1 .. Len(host) : host[i] # BareIPv6
  PROVE  /\ Common(Translated(Uts46, host)) /\ Printed(Translated(Uts46, host))
         /\ Translated(Uts46, Translated(Uts46, host)) = Translated(Uts46, host)
         /\ Translated(Uts46, host) \notin {<<>>, <<BareIPv6>>}
<1> DEFINE T == Translated(Uts46, host)
           Odd == {"COM"} \cup Umlauts \cup Escapes
<1>1. /\ Name(T) /\ Len(T) = Len(host) /\ T \in Seq(Labels) /\ Len(host) > 0 /\ Len(host) \in Nat
      /\ \A i \in 1 .. Len(host) : T[i] = IF host[i] \in Odd THEN Uts46[host[i]] ELSE host[i]
  BY TranslatedName, LabelTables DEF Name, Tables
<1>2. \A l \in Odd : Uts46[l] \in Ascii
  BY TableValues, LabelTables DEF Tables
<1>3. Ascii \cap (Odd \cup {BareIPv6}) = {}
  <2>1. BareIPv6 \notin Ascii
    BY Zenon DEF BareIPv6, Ascii
  <2> QED BY <2>1, LabelsDiffer
<1>4. DOMAIN Uts46 = Odd /\ SharpS \in Odd
  BY LabelTables DEF Umlauts
<1> HIDE DEF T, Odd
<1>5. \A i \in 1 .. Len(host) : T[i] \notin Odd \cup {BareIPv6}
  BY <1>1, <1>2, <1>3
<1>6. Translated(Uts46, T) = T
  BY <1>1, <1>4, <1>5 DEF Translated
<1>7. T # <<>> /\ T # <<BareIPv6>>
  BY <1>1, <1>5
<1>8. Common(T) /\ Printed(T)
  BY <1>1, <1>4, <1>5 DEF Common, Printed, Odd
<1> QED BY <1>6, <1>7, <1>8 DEF T

LEMMA TablesAgree ==
  ASSUME NEW host, Common(host)
  PROVE  /\ Translated(Idna2003, Hostname(host)) = Translated(Uts46, host)
         /\ host \notin {<<>>, <<BareIPv6>>}
<1>1. host \in Seq(Labels) /\ Name(host) /\ Len(host) > 0 /\ host[1] # BareIPv6
  BY DEF Common, Name
<1>2. Hostname(host) = host
  BY <1>1, NameHostname
<1>3. \A i \in DOMAIN host :
        (IF host[i] \in DOMAIN Idna2003 THEN Idna2003[host[i]] ELSE host[i])
        = (IF host[i] \in DOMAIN Uts46 THEN Uts46[host[i]] ELSE host[i])
  <2>1. \A i \in DOMAIN host : host[i] # SharpS /\ host[i] \notin Escapes
    BY <1>1 DEF Common
  <2> QED BY <2>1, LabelTables DEF Umlauts
<1>4. Translated(Idna2003, host) = Translated(Uts46, host)
  BY <1>3 DEF Translated
<1> QED BY <1>1, <1>2, <1>4

LEMMA BrowserType ==
  ASSUME NEW S, Empty \in S, NEW p \in Seq(S)
  PROVE  WhatwgPath(p) \in Seq(S) /\ (p = <<>> => WhatwgPath(p) = <<Empty>>)
<1>0. Len(p) \in Nat
  OBVIOUS
<1>1. PICK f \in [0 .. Len(p) -> Seq(S)] :
        f[0] = <<>> /\ WhatwgPath(p) = Rooted(f[Len(p)])
  BY WhatwgFold
<1>2. f[Len(p)] \in Seq(S)
  BY <1>0
<1>3. p = <<>> => Len(p) = 0
  OBVIOUS
<1> QED BY <1>1, <1>2, <1>3, RootedType DEF Rooted

LEMMA EncodeFine ==
  ASSUME NEW p \in Seq(Spelled), Tidy(p)
  PROVE  Fine(Encode(p))
<1>1. p \in Seq(Segments)
  BY DEF Spelled
<1> DEFINE e == Encode(p)
<1>2. /\ e \in Seq(Segments) /\ Len(e) = Len(p) /\ Len(p) \in Nat
      /\ \A i \in 1 .. Len(p) : e[i] = IF p[i] = Accented THEN Encoded ELSE p[i]
  BY <1>1, Encodes
<1> HIDE DEF e
<1>3. \A i \in 1 .. Len(p) : e[i] \in Spelled \ {Accented} /\ (p[i] # Empty => e[i] # Empty)
  BY <1>2, SegmentsDiffer, DotsSpelled
<1> QED BY <1>2, <1>3 DEF Fine, Tidy, e

LEMMA FineUncoded ==
  ASSUME NEW p, Fine(p)
  PROVE  /\ p \in Seq(Spelled) /\ p \in Seq(Segments) /\ Tidy(p) /\ Encode(p) = p
         /\ Fine(WhatwgPath(p)) /\ WhatwgPath(p) \in Seq(Plainest) /\ Len(WhatwgPath(p)) > 0
         /\ WhatwgPath(WhatwgPath(p)) = WhatwgPath(p)
         /\ (p = <<>> => WhatwgPath(p) = <<Empty>>)
<1>1. p \in Seq(Spelled) /\ p \in Seq(Segments) /\ Tidy(p) /\ p \in Seq(Spelled \ {Accented})
  BY DEF Fine, Spelled
<1>2. Encode(p) = p
  BY <1>1, Encodes
<1>3. Empty \in Spelled \ {Accented}
  BY DotsSpelled, SegmentsDiffer
<1>4. Fine(WhatwgPath(p)) /\ (p = <<>> => WhatwgPath(p) = <<Empty>>)
  BY <1>1, <1>3, BrowserType, TidyStays DEF Fine
<1>5. WhatwgPath(p) \in Seq(Plainest) /\ Len(WhatwgPath(p)) > 0
  BY <1>1, BrowserUndots
<1> QED BY <1>1, <1>2, <1>4, <1>5, BrowserIdentity

(* The two canonical forms agree on such URLs. *)
LEMMA FormsAgree ==
  ASSUME NEW u, Fine(u.path), Common(u.host)
  PROVE  canonicalize(u) = canonicalizeUrl(u)
<1> DEFINE p == u.path
<1>1. Encode(WhatwgPath(p)) = IF p = <<>> THEN <<Empty>> ELSE _remove_dot_segments(p)
  <2>1. Encode(WhatwgPath(p)) = WhatwgPath(p)
    BY FineUncoded
  <2>2. p # <<>> => _remove_dot_segments(p) = WhatwgPath(p)
    <3>1. p # <<>> => Len(p) > 0 /\ p \in Seq(Spelled)
      BY FineUncoded
    <3> QED BY <3>1, ParserAgrees
  <2> QED BY <2>1, <2>2, FineUncoded
<1>2. u.scheme \in Crawlable => Port(u) = WhatwgPort(u)
  BY Ports
<1>3. /\ Translated(Idna2003, Hostname(u.host)) = Translated(Uts46, u.host)
      /\ u.host \notin {<<>>, <<BareIPv6>>}
  BY TablesAgree
<1>4. CASE u.scheme \notin Crawlable \/ ~ValidPort(u)
  BY <1>4 DEF canonicalize, canonicalizeUrl
<1>5. CASE u.scheme \in Crawlable /\ ValidPort(u)
  BY <1>1, <1>2, <1>3, <1>5 DEF canonicalize, canonicalizeUrl
<1> QED BY <1>4, <1>5

LEMMA SamePlace ==
  ASSUME NEW j, NEW r, j.scheme = r.scheme, j.host = r.host, j.port = r.port, j.query = r.query,
         WhatwgPath(j.path) = WhatwgPath(r.path)
  PROVE  canonicalizeUrl(j) = canonicalizeUrl(r)
<1>1. ValidPort(j) <=> ValidPort(r)
  BY DEF ValidPort
<1>2. WhatwgPort(j) = WhatwgPort(r)
  BY DEF WhatwgPort
<1> QED BY <1>1, <1>2 DEF canonicalizeUrl

(* What is known of the URL of a target. *)
Page(u) ==
  /\ {"host", "path"} \subseteq DOMAIN u
  /\ canonicalizeUrl(u) = u /\ Common(u.host) /\ Printed(u.host) /\ Fine(u.path)

LEMMA GatewayPage ==
  ASSUME NEW raw, raw.path \in Seq(Segments), Tidy(WhatwgPath(raw.path)),
         Name(raw.host), \A i \in 1 .. Len(raw.host) : raw.host[i] # BareIPv6,
         canonicalizeUrl(raw) # Null
  PROVE  Page(canonicalizeUrl(raw))
<1> DEFINE q == WhatwgPath(raw.path)
           h == Translated(Uts46, raw.host)
           o == WhatwgPort(raw)
           e == Encode(q)
           s == raw.scheme
           y == IF raw.query = Empty THEN None ELSE raw.query
           c == [scheme |-> s, user |-> FALSE, host |-> h, port |-> o, path |-> e,
                 query |-> y, frag |-> FALSE]
<1>1. s \in Crawlable /\ ValidPort(raw) /\ canonicalizeUrl(raw) = c
  BY DEF canonicalizeUrl
<1>2. Common(h) /\ Printed(h) /\ Translated(Uts46, h) = h /\ h \notin {<<>>, <<BareIPv6>>}
  <2>1. raw.host \in Seq(Labels)
    BY DEF Name
  <2> QED BY <2>1, Uts46Once
<1>3. q \in Seq(Plainest) /\ Len(q) > 0 /\ q \in Seq(Segments) /\ q \in Seq(Spelled)
  BY BrowserUndots, DotsSpelled DEF Plainest
<1>4. Fine(e)
  BY <1>3, EncodeFine
<1> HIDE DEF q
<1>5. e \in Seq(Plainest) /\ Len(e) > 0
  BY <1>3, Encodes, SegmentsDiffer
<1>6. WhatwgPath(e) = e /\ Encode(e) = e
  BY <1>4, <1>5, BrowserIdentity, FineUncoded
<1>7. o \notin {EmptyPort, DEFAULT_PORTS[s]} /\ o <= 65535
  BY <1>1, Ports DEF WhatwgPort, ValidPort, NoPort
<1>8. y # Empty
  BY NoBareQuery
<1> HIDE DEF h, o, e, s, y
<1>9. WhatwgPort(c) = o /\ ValidPort(c)
  BY <1>7 DEF WhatwgPort, ValidPort
<1>10. canonicalizeUrl(c) = c
  <2> DEFINE d == c
  <2>1. /\ d.scheme = s /\ d.host = h /\ d.port = o /\ d.path = e /\ d.query = y
    OBVIOUS
  <2>2. WhatwgPort(d) = o /\ ValidPort(d)
    BY <1>9
  <2> HIDE DEF d
  <2>3. canonicalizeUrl(d) = c
    BY <1>1, <1>2, <1>6, <1>8, <2>1, <2>2 DEF canonicalizeUrl
  <2> QED BY <2>3 DEF d
<1>11. c.host = h /\ c.path = e /\ {"host", "path"} \subseteq DOMAIN c
  OBVIOUS
<1> HIDE DEF c
<1> QED BY <1>1, <1>2, <1>4, <1>10, <1>11 DEF Page

(* References on which a browser and urljoin agree: no percent-encoded dots,*)
(* no empty segments but the last, an accent only where it is encoded, no   *)
(* "?" on its own.                                                          *)
PlainRef(ref) ==
  /\ {"host", "path"} \subseteq DOMAIN ref
  /\ ref.host = <<>> \/ Common(ref.host)
  /\ Fine(ref.path)
  /\ ref.scheme = None /\ ref.host = <<>> /\ ref.path = <<>> => ref.query # Empty /\ ~ref.rooted

LEMMA SameUrl ==
  ASSUME NEW base, NEW ref, PlainRef(ref), Fine(base.path),
         ~(ref.scheme = None /\ ref.host = <<>> /\ ref.path = <<>> /\ ref.query = None)
  PROVE  LET j == urljoin(base, ref)
             r == Resolve(base, ref)
         IN /\ j.scheme = r.scheme /\ j.host = r.host /\ j.port = r.port /\ j.query = r.query
            /\ j.path \in {r.path, WhatwgPath(r.path)}
            /\ Fine(r.path) /\ r.host \in {base.host, ref.host}
<1> DEFINE j == urljoin(base, ref)
           r == Resolve(base, ref)
           jo == [scheme |-> base.scheme, user |-> base.user, host |-> base.host,
                  port |-> base.port, path |-> base.path, query |-> ref.query, frag |-> ref.frag]
           ro == [scheme |-> base.scheme, user |-> base.user, host |-> base.host,
                  port |-> base.port, path |-> ref.path, query |-> ref.query, frag |-> ref.frag]
<1>1. CASE ref.scheme # None
  <2>1. j = ref /\ r = ref
    BY <1>1 DEF urljoin, Resolve
  <2> QED BY <2>1 DEF PlainRef
<1>2. CASE ref.scheme = None /\ ref.host # <<>>
  <2> DEFINE x == [ref EXCEPT !.scheme = base.scheme]
  <2>1. j = x /\ r = x
    BY <1>2 DEF urljoin, Resolve
  <2>2. x.path = ref.path /\ x.host = ref.host
    BY DEF PlainRef
  <2> QED BY <2>1, <2>2 DEF PlainRef
<1>3. CASE ref.scheme = None /\ ref.host = <<>> /\ ref.path # <<>>
  <2> DEFINE jp == JoinedPath(base, ref)
             rp == IF ref.rooted THEN ref.path ELSE Directory(base) \o ref.path
  <2>1. Fine(ref.path) /\ ref.path \in Seq(Segments) /\ ref.path \in Seq(Spelled) /\ Len(ref.path) > 0
    <3>1. ref.path \in Seq(Segments) /\ ref.path \in Seq(Spelled) /\ Fine(ref.path)
      BY FineUncoded DEF PlainRef
    <3> QED BY <1>3, <3>1
  <2>2. base.path \in Seq(Spelled \ {Accented}) /\ base.path \in Seq(Segments) /\ Tidy(base.path)
    BY FineUncoded DEF Fine
  <2>3. /\ Directory(base) \in Seq(Spelled \ {Accented})
        /\ \A i \in 1 .. Len(Directory(base)) : Directory(base)[i] # Empty
    BY <2>2 DEF Directory, Front, Tidy
  <2>4. Fine(rp) /\ Len(rp) > 0
    <3> DEFINE d == Directory(base)
               p == ref.path
    <3>1. p \in Seq(Spelled \ {Accented}) /\ Tidy(p) /\ Len(p) > 0
      BY <2>1 DEF Fine
    <3>2. d \in Seq(Spelled \ {Accented}) /\ \A i \in 1 .. Len(d) : d[i] # Empty
      BY <2>3
    <3> HIDE DEF d, p
    <3>3. Fine(d \o p) /\ Len(d \o p) > 0
      BY <3>1, <3>2 DEF Fine, Tidy
    <3> QED BY <2>1, <3>3 DEF d, p
  <2>5. JoinedSegments(base, ref) = <<Empty>> \o rp
    <3>1. CASE ref.rooted
      BY <3>1 DEF JoinedSegments
    <3>2. CASE ~ref.rooted
      BY <1>3, <2>1, <2>2, <3>2, JoinedSegmentsAre DEF Fine
    <3> QED BY <3>1, <3>2
  <2> HIDE DEF rp
  <2>6. jp = WhatwgPath(rp)
    <3>1. rp \in Seq(Spelled) /\ Tidy(rp)
      BY <2>4, FineUncoded
    <3> QED BY <2>4, <2>5, <3>1, CollapsedIs DEF JoinedPath
  <2> HIDE DEF jp
  <2>7. j = [jo EXCEPT !.path = jp]
    BY <1>3 DEF urljoin, jp
  <2>8. r = [ro EXCEPT !.path = rp]
    <3>1. CASE ref.rooted
      <4>1. r = ro /\ rp = ref.path
        BY <1>3, <3>1 DEF Resolve, rp
      <4> HIDE DEF r, rp
      <4> QED BY <4>1
    <3>2. CASE ~ref.rooted
      BY <1>3, <3>2 DEF Resolve, rp, Directory
    <3> QED BY <3>1, <3>2
  <2> QED BY <2>4, <2>6, <2>7, <2>8
<1>4. CASE ref.scheme = None /\ ref.host = <<>> /\ ref.path = <<>>
  <2>1. ref.query \notin {None, Empty} /\ ~ref.rooted
    BY <1>4 DEF PlainRef
  <2>2. j = [jo EXCEPT !.query = ref.query]
    BY <1>4, <2>1 DEF urljoin
  <2>3. r = [ro EXCEPT !.path = base.path, !.query = ref.query]
    BY <1>4, <2>1 DEF Resolve
  <2> QED BY <2>2, <2>3
<1> QED BY <1>1, <1>2, <1>3, <1>4

LEMMA LinkIsPage ==
  ASSUME NEW base, NEW ref, NEW stay, NEW scope, PlainRef(ref), Fine(base.path), Common(base.host),
         canonicalize_url(base, ref, stay, scope) # Null
  PROVE  /\ canonicalize_url(base, ref, stay, scope) = canonicalizeUrl(Resolve(base, ref))
         /\ Page(canonicalizeUrl(Resolve(base, ref)))
<1> DEFINE j == urljoin(base, ref)
           r == Resolve(base, ref)
<1>1. /\ canonicalize_url(base, ref, stay, scope) = canonicalize(j) /\ canonicalize(j) # Null
      /\ ~(ref.scheme = None /\ ref.host = <<>> /\ ref.path = <<>> /\ ~ref.rooted /\ ref.query = None)
  BY DEF canonicalize_url
<1>2. /\ j.scheme = r.scheme /\ j.host = r.host /\ j.port = r.port /\ j.query = r.query
      /\ j.path \in {r.path, WhatwgPath(r.path)}
      /\ Fine(r.path) /\ r.host \in {base.host, ref.host}
  <2>1. ~(ref.scheme = None /\ ref.host = <<>> /\ ref.path = <<>> /\ ref.query = None)
    BY <1>1 DEF PlainRef
  <2> QED BY <2>1, SameUrl
<1> HIDE DEF j, r
<1>3. Common(r.host) /\ Common(j.host)
  <2>1. j.host # <<>>
    BY <1>1, LinkHost
  <2> QED BY <1>2, <2>1 DEF PlainRef
<1>4. Fine(j.path) /\ WhatwgPath(j.path) = WhatwgPath(r.path)
  BY <1>2, FineUncoded
<1>5. canonicalize(j) = canonicalizeUrl(j)
  BY <1>3, <1>4, FormsAgree
<1>6. canonicalizeUrl(j) = canonicalizeUrl(r)
  BY <1>2, <1>4, SamePlace
<1>7. Page(canonicalizeUrl(r))
  <2>1. /\ r.path \in Seq(Segments) /\ Tidy(WhatwgPath(r.path))
        /\ Name(r.host) /\ \A i \in 1 .. Len(r.host) : r.host[i] # BareIPv6
    BY <1>2, <1>3, FineUncoded DEF Common, Fine
  <2> QED BY <1>1, <1>5, <1>6, <2>1, GatewayPage
<1> QED BY <1>1, <1>5, <1>6, <1>7 DEF r

-----------------------------------------------------------------------------
(* One name for every page *)

(* Webs on which all that is true: names for hosts, whose labels the two    *)
(* versions of IDNA treat alike where links and redirects use them, which   *)
(* redirects give in ASCII, and paths without percent-encoded dots or gaps. *)
(* Seeds may be odder, since the gateway is the first to see them.          *)
PlainWebs ==
  \A w \in Webs :
    /\ \A u \in w.seeds :
         /\ "host" \in DOMAIN u /\ Name(u.host) /\ \A i \in 1 .. Len(u.host) : u.host[i] # BareIPv6
         /\ "path" \in DOMAIN u /\ u.path \in Seq(Segments) /\ Tidy(WhatwgPath(u.path))
    /\ \A u \in w.redirects :
         /\ {"host", "path"} \subseteq DOMAIN u
         /\ Common(u.host) /\ Printed(u.host) /\ u.path \in Seq(Spelled) /\ Tidy(u.path)
    /\ \A ref \in w.hrefs : PlainRef(ref)

(* Every target goes by the name of its page, which the gateway would keep. *)
NameInv ==
  /\ web \in Webs /\ seen = {t.url : t \in targets}
  /\ \A t \in targets : t.page = t.url /\ Page(t.url)
  /\ \A s, t \in targets : s.url = t.url => s = t

LEMMA EnqueueName ==
  ASSUME NameInv, NEW t, Enqueue(t), t.page = t.url, Page(t.url), web' = web
  PROVE  NameInv'
<1>1. /\ targets' = targets \cup {t} /\ seen' = seen \cup {t.url}
      /\ \A s \in targets : s.url # t.url
  BY DEF Enqueue, NameInv
<1>2. \A s, u \in targets' : s.url = u.url => s = u
  BY <1>1 DEF NameInv
<1>3. \A s \in targets' : s.page = s.url /\ Page(s.url)
  BY <1>1 DEF NameInv
<1>4. seen' = {s.url : s \in targets'}
  BY <1>1 DEF NameInv
<1> QED BY <1>2, <1>3, <1>4 DEF NameInv

LEMMA SubmitName ==
  ASSUME NameInv, PlainWebs, NEW raw \in web.seeds, NEW stay, NEW scoped,
         Submit(raw, stay, scoped), web' = web
  PROVE  NameInv'
<1> DEFINE c == canonicalizeUrl(raw)
           new == [url |-> c, page |-> c, stay |-> stay, site |-> c.host,
                   scope |-> IF scoped THEN c.host ELSE <<>>]
<1>1. Enqueue(new) /\ c # Null
  BY DEF Submit
<1>2. Page(c)
  BY <1>1, GatewayPage DEF NameInv, PlainWebs
<1>3. new.page = new.url /\ new.url = c
  OBVIOUS
<1> HIDE DEF c, new
<1> QED BY <1>1, <1>2, <1>3, EnqueueName

LEMMA FollowName ==
  ASSUME NameInv, PlainWebs, NEW t \in targets, NEW ref \in web.hrefs,
         NEW final \in web.redirects \cup {t.url}, Follow(t, final, ref), web' = web
  PROVE  NameInv'
<1> DEFINE base == Effective(final)
           link == canonicalize_url(base, ref, t.stay, t.scope)
           page == canonicalizeUrl(Resolve(base, ref))
           new == [url |-> link, page |-> page, stay |-> t.stay,
                   site |-> t.site, scope |-> t.scope]
<1>1. Enqueue(new) /\ link # Null
  BY DEF Follow
<1>2. /\ {"host", "path"} \subseteq DOMAIN final
      /\ Common(final.host) /\ Printed(final.host)
      /\ final.path \in Seq(Spelled) /\ Tidy(final.path)
  <2>1. CASE final \in web.redirects
    BY <2>1 DEF NameInv, PlainWebs
  <2>2. CASE final = t.url
    <3>1. Page(final)
      BY <2>2 DEF NameInv
    <3> QED BY <3>1, FineUncoded DEF Page
  <2> QED BY <2>1, <2>2
<1>3. Fine(base.path) /\ Common(base.host)
  <2>1. base.path = Encode(final.path) /\ base.host = Translated(HostEscapes, final.host)
    BY <1>2 DEF Effective
  <2>2. Translated(HostEscapes, final.host) = final.host
    BY <1>2, EscapePlain DEF Common, Name, Printed
  <2> HIDE DEF base
  <2> QED BY <1>2, <2>1, <2>2, EncodeFine
<1>4. PlainRef(ref)
  BY DEF NameInv, PlainWebs
<1> HIDE DEF base
<1>5. link = page /\ Page(page)
  BY <1>1, <1>3, <1>4, LinkIsPage
<1>6. new.page = page /\ new.url = link
  OBVIOUS
<1> HIDE DEF link, page, new
<1> QED BY <1>1, <1>5, <1>6, EnqueueName

LEMMA NameInvariant ==
  ASSUME PlainWebs
  PROVE  Spec => []NameInv
<1>1. Init => NameInv
  BY DEF Init, NameInv
<1>2. NameInv /\ [Next]_vars => NameInv'
  <2> SUFFICES ASSUME NameInv, [Next]_vars PROVE NameInv'
    OBVIOUS
  <2>1. CASE UNCHANGED vars
    BY <2>1 DEF vars, NameInv
  <2>2. CASE Next
    BY <2>2, SubmitName, FollowName DEF Next
  <2> QED BY <2>1, <2>2
<1> QED BY <1>1, <1>2, PTL DEF Spec

(* On plain webs, what the parser enqueues for a link is the page a browser *)
(* would open for it (urljoin and canonicalize against the WHATWG rules).   *)
THEOREM LinksLeadToTheirPages ==
  ASSUME PlainWebs
  PROVE  Spec => []LinkKept
<1>1. NameInv => LinkKept
  BY DEF NameInv, LinkKept, Page
<1> QED BY <1>1, NameInvariant, PTL

(* On plain webs no page is enqueued twice, however it is written and       *)
(* whoever finds it: the gateway and the parser give it the same key.       *)
THEOREM PagesCrawledOnce ==
  ASSUME PlainWebs
  PROVE  Spec => []CrawledOnce
<1>1. NameInv => CrawledOnce
  BY DEF NameInv, CrawledOnce
<1> QED BY <1>1, NameInvariant, PTL

=============================================================================
