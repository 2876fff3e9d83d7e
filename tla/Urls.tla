-------------------------------- MODULE Urls --------------------------------
(***************************************************************************)
(* How URLs become keys.  The gateway canonicalises a submitted seed, the   *)
(* parser resolves and canonicalises the links of a page, and both put the  *)
(* result into one seen filter; the crawler and the parser decide on scope. *)
(*                                                                         *)
(* A URL is a record of its parts.  A host is the sequence of its labels    *)
(* (the last one is "" after a trailing dot; an IPv6 literal is one label); *)
(* a path is the sequence of the segments behind its slashes, so <<>> is    *)
(* the empty path and <<"">> is "/".  The tables below hold the few labels  *)
(* and segments on which the services do something.  A reference is a URL   *)
(* whose scheme or host may be missing; "rooted" tells "/a" from "a".       *)
(*                                                                         *)
(* The gateway relies on the URL class of its platform (the WHATWG          *)
(* standard), the parser on urllib: both are modelled from their            *)
(* documented behaviour on the URLs of these tables.                        *)
(***************************************************************************)
EXTENDS Integers, FiniteSets, Sequences, SequencesExt

CONSTANTS
  Webs,        \* [seeds: URLs clients submit, hrefs: references found in pages,
               \*  redirects: URLs a server may redirect to,
               \*  legacy: are there targets from before scope_host existed?]
  MaxTargets   \* bound on the number of targets

None == "none"
NoPort == -1
EmptyPort == -2
Null == [scheme |-> None]

DEFAULT_PORTS == [http |-> 80, https |-> 443]
Crawlable == DOMAIN DEFAULT_PORTS
Assets == {"i.png"}

ASSUME UrlsAssumption ==
  /\ MaxTargets \in Nat
  /\ \A web \in Webs :
       /\ web.legacy \in BOOLEAN
       /\ \A u \in web.seeds \cup web.redirects : u.scheme # None /\ u.host # <<>>

(* Stand-ins for a label with an umlaut, one with a sharp s, and a path     *)
(* segment with an accent; the two labels percent-escaped (in one case of   *)
(* letters, since all who read a host disregard it).                        *)
Umlaut == "u-umlaut"
SharpS == "sharp-s"
EscapedUmlaut == "%c3%bc"
EscapedSharpS == "%c3%9f"
Accented == "e-acute"
IPv6 == "[::1]"
BareIPv6 == "::1"

(* The label behind the dot that ends an absolute host name, the segment    *)
(* behind a slash that ends a path, the query of a bare "?".                *)
Empty == ""

(* What a label looks like in ASCII, by IDNA 2003 (Python's codec, to which *)
(* an escaped label is ASCII) and by UTS #46 (WHATWG, which unescapes it).  *)
LowerCase == [l \in {"COM"} |-> "com"]
Idna2003 == [l \in {"COM", Umlaut, SharpS} |->
               IF l = Umlaut THEN "xn--tda" ELSE IF l = SharpS THEN "ss" ELSE "com"]
Uts46 == [l \in {"COM", Umlaut, SharpS, EscapedUmlaut, EscapedSharpS} |->
            IF l = "COM" THEN "com" ELSE IF l \in {Umlaut, EscapedUmlaut} THEN "xn--tda"
            ELSE "xn--zca"]
Translated(table, s) == [i \in DOMAIN s |-> IF s[i] \in DOMAIN table THEN table[s[i]] ELSE s[i]]

(* How Go prints a label that is not ASCII, and what it reads for it.       *)
HostEscapes == [l \in {Umlaut, SharpS} |->
                  IF l = Umlaut THEN EscapedUmlaut ELSE EscapedSharpS]
Unescaped == [l \in {EscapedUmlaut, EscapedSharpS} |->
                IF l = EscapedUmlaut THEN Umlaut ELSE SharpS]

(* Percent-encoding of a path segment that is not ASCII.                    *)
Encode(path) == Translated([s \in {Accented} |-> "%C3%A9"], path)

ValidPort(u) == u.port <= 65535

(* A leading "www." does not count for the scope.                           *)
WithoutWWW(labels) == IF Len(labels) > 1 /\ labels[1] = "www" THEN Tail(labels) ELSE labels

(* One step of RFC 3986 section 5.2.4: ".." leaves a segment, "." does      *)
(* nothing.                                                                 *)
Walk(out, s) ==
  IF s = ".." THEN (IF out = <<>> THEN out ELSE Front(out))
  ELSE IF s = "." THEN out ELSE Append(out, s)
Rooted(path) == IF path = <<>> THEN <<Empty>> ELSE path

(* What a plausible slip would make of the parser's and the crawler's       *)
(* helpers: compared with the real ones to see that the properties notice.  *)
SingleDotsOnly(path) == Rooted(SelectSeq(path, LAMBDA s : s # "."))
NoDirectory(path) == Rooted(FoldLeft(Walk, <<>>, path))
NoEmptySegments(path) == NoDirectory(SelectSeq(path, LAMBDA s : s # ""))
AnyPort(u) == IF u.port = EmptyPort THEN NoPort ELSE u.port
KeepsDot(host) == WithoutWWW(Translated(LowerCase, host))
AnyRedirect(final, scopeHost, requestedHost) == final.host # <<>>

(***************************************************************************)
(* The gateway: new URL(...) and canonicalizeUrl.                           *)
(***************************************************************************)

Single == {".", "%2e"}
Double == {"..", "%2e%2e"}
WhatwgStep(path, out, i) ==
  LET up == IF path[i] \in Double /\ out # <<>> THEN Front(out) ELSE out
  IN IF path[i] \notin Single \cup Double THEN Append(out, path[i])
     ELSE IF i = Len(path) THEN Append(up, Empty) ELSE up
WhatwgPath(path) ==
  Rooted(FoldLeft(LAMBDA out, i : WhatwgStep(path, out, i), <<>>, [i \in DOMAIN path |-> i]))

WhatwgPort(u) == IF u.port \in {EmptyPort, DEFAULT_PORTS[u.scheme]} THEN NoPort ELSE u.port

canonicalizeUrl(raw) ==
  IF raw.scheme \notin Crawlable \/ raw.host \in {<<>>, <<BareIPv6>>} \/ ~ValidPort(raw) THEN Null
  ELSE [scheme |-> raw.scheme, user |-> FALSE, host |-> Translated(Uts46, raw.host),
        port |-> WhatwgPort(raw), path |-> Encode(WhatwgPath(raw.path)),
        query |-> IF raw.query = Empty THEN None ELSE raw.query, frag |-> FALSE]

(* The URL a browser opens for a reference on a page.                       *)
Resolve(base, ref) ==
  LET of == [scheme |-> base.scheme, user |-> base.user, host |-> base.host,
             port |-> base.port, path |-> ref.path, query |-> ref.query, frag |-> ref.frag]
      dir == IF base.path = <<>> THEN <<>> ELSE Front(base.path)
  IN IF ref.scheme # None THEN ref
     ELSE IF ref.host # <<>> THEN [ref EXCEPT !.scheme = base.scheme]
     ELSE IF ref.rooted THEN of
     ELSE IF ref.path # <<>> THEN [of EXCEPT !.path = dir \o ref.path]
     ELSE [of EXCEPT !.path = base.path,
                     !.query = IF ref.query = None THEN base.query ELSE ref.query]

(***************************************************************************)
(* The parser: urllib's urljoin, canonicalize and canonicalize_url.         *)
(***************************************************************************)

(* RFC 3986 section 5.2.4, as the parser applies it to every path.          *)
_remove_dot_segments(path) ==
  LET output == FoldLeft(Walk, <<>>, path)
  IN Rooted(IF Last(path) \in {".", ".."} THEN Append(output, Empty) ELSE output)

Port(u) ==
  IF u.port \in {NoPort, EmptyPort, DEFAULT_PORTS[u.scheme]} THEN NoPort ELSE u.port

Hostname(host) == IF host = <<IPv6>> THEN <<BareIPv6>> ELSE host

canonicalize(raw) ==
  IF raw.scheme \notin Crawlable \/ raw.host = <<>> \/ ~ValidPort(raw) THEN Null
  ELSE [scheme |-> raw.scheme, user |-> FALSE, host |-> Translated(Idna2003, Hostname(raw.host)),
        port |-> Port(raw),
        path |-> IF raw.path = <<>> THEN <<Empty>> ELSE _remove_dot_segments(raw.path),
        query |-> IF raw.query = Empty THEN None ELSE raw.query, frag |-> FALSE]

(* urljoin splits a path at its slashes, so here a leading Empty stands for *)
(* the first one.  Empty segments inside a relative join are dropped.       *)
Skip(out, s) == IF s = Empty THEN out ELSE Append(out, s)
NonEmpty(path) == FoldLeft(Skip, <<>>, path)
JoinedSegments(base, ref) ==
  LET up == <<Empty>> \o base.path
      dir == IF Last(up) = Empty THEN up ELSE Front(up)
      all == dir \o ref.path
  IN IF ref.rooted THEN <<Empty>> \o ref.path
     ELSE <<all[1]>> \o NonEmpty(SubSeq(all, 2, Len(all) - 1)) \o <<Last(all)>>
Collapsed(segments) ==
  LET resolved == FoldLeft(Walk, <<>>, segments)
      done == IF Last(segments) \in {".", ".."} THEN Append(resolved, Empty) ELSE resolved
  IN IF done \in {<<>>, <<Empty>>} THEN <<Empty>>
     ELSE IF done[1] = Empty THEN Tail(done) ELSE done
JoinedPath(base, ref) == Collapsed(JoinedSegments(base, ref))

urljoin(base, ref) ==
  LET of == [scheme |-> base.scheme, user |-> base.user, host |-> base.host,
             port |-> base.port, path |-> base.path, query |-> ref.query, frag |-> ref.frag]
  IN IF ref.scheme # None THEN ref
     ELSE IF ref.host # <<>> THEN [ref EXCEPT !.scheme = base.scheme]
     ELSE IF ref.rooted \/ ref.path # <<>> THEN [of EXCEPT !.path = JoinedPath(base, ref)]
     ELSE [of EXCEPT !.query = IF ref.query \in {None, Empty} THEN base.query ELSE ref.query]

_strip_www(host) ==
  LET named == SelectLastInSeq(host, LAMBDA l : l # Empty)
  IN WithoutWWW(Translated(LowerCase, SubSeq(host, 1, named)))

in_scope(host, scope_host) ==
  LET h == _strip_www(host)
      s == _strip_www(scope_host)
  IN h # <<>> /\ s # <<>> /\ IsSuffix(s, h)

canonicalize_url(base, ref, stay, scope_host) ==
  LET c == canonicalize(urljoin(base, ref))
      boundary == IF scope_host = <<>> THEN Hostname(base.host) ELSE scope_host
      onlyFragment == ref.scheme = None /\ ref.host = <<>> /\ ref.path = <<>> /\ ~ref.rooted
                      /\ ref.query = None
  IN IF \/ onlyFragment \/ c = Null
        \/ Last(c.path) \in Assets
        \/ stay /\ ~in_scope(c.host, boundary)
     THEN Null ELSE c

(***************************************************************************)
(* The crawler: its own copy of the scope rule, on the final URL.           *)
(***************************************************************************)

stripWWW(host) ==
  WithoutWWW(Translated(LowerCase, IF Last(host) = Empty THEN Front(host) ELSE host))

InScope(host, scopeHost) ==
  /\ host # <<>> /\ scopeHost # <<>>
  /\ IsSuffix(stripWWW(scopeHost), stripWWW(host))

(* u.Hostname() of a URL that url.Parse read.                               *)
ParsedHostname(host) == Translated(Unescaped, Hostname(host))

redirectInScope(final, scopeHost, requestedHost) ==
  InScope(ParsedHostname(final.host), IF scopeHost = <<>> THEN requestedHost ELSE scopeHost)

(* The URL of the response as Go prints it: it escapes the path, and a host *)
(* that a redirect gave with its umlauts.                                   *)
Effective(u) == [u EXCEPT !.host = Translated(HostEscapes, @), !.path = Encode(@)]

(***************************************************************************)
(* Seeds, pages and links.  A target remembers the page it was meant for    *)
(* (what a browser opens, in the gateway's form) and the site of its job.   *)
(***************************************************************************)

VARIABLES
  web,      \* what clients, pages and servers may come up with
  seen,     \* the seen filter (exact)
  targets   \* everything that was enqueued
vars == <<web, seen, targets>>

Init == web \in Webs /\ seen = {} /\ targets = {}

Enqueue(t) ==
  /\ t.url \notin seen
  /\ seen' = seen \cup {t.url}
  /\ targets' = targets \cup {t}

(* POST /api/jobs: a seed in canonical form, with its host as the scope.    *)
Submit(raw, stay, scoped) ==
  LET c == canonicalizeUrl(raw) IN
  /\ c # Null
  /\ Enqueue([url |-> c, page |-> c, stay |-> stay, site |-> c.host,
              scope |-> IF scoped THEN c.host ELSE <<>>])

(* The crawler fetches t, the response comes from `final`, and the parser   *)
(* enqueues one link of that page.                                          *)
Follow(t, final, ref) ==
  LET base == Effective(final)
      link == canonicalize_url(base, ref, t.stay, t.scope)
  IN /\ canonicalizeUrl(t.url) # Null
     /\ t.stay => redirectInScope(final, t.scope, ParsedHostname(t.url.host))
     /\ link # Null /\ link # canonicalize(base)
     /\ Enqueue([url |-> link, page |-> canonicalizeUrl(Resolve(base, ref)), stay |-> t.stay,
                 site |-> t.site, scope |-> t.scope])

Next ==
  /\ Cardinality(targets) < MaxTargets
  /\ UNCHANGED web
  /\ \/ \E raw \in web.seeds, stay \in BOOLEAN, scoped \in {TRUE, ~web.legacy} :
          Submit(raw, stay, scoped)
     \/ \E t \in targets, ref \in web.hrefs : \E final \in web.redirects \cup {t.url} :
          Follow(t, final, ref)

Spec == Init /\ [][Next]_vars

-----------------------------------------------------------------------------
(* TypeOK: whatever enters the frontier has the canonical form of the       *)
(* contract: crawlable, no credentials, no fragment, no default port, no    *)
(* bare "?", a path without dot segments (url_canonicalization.json).  Its  *)
(* host is not spoken of here, but in CrawledOnce and LinkKept.             *)
Canonical(u) ==
  /\ u.scheme \in Crawlable /\ ~u.user /\ ~u.frag /\ u.query # Empty
  /\ u.port \notin {EmptyPort, DEFAULT_PORTS[u.scheme]}
  /\ u.path # <<>> /\ \A i \in DOMAIN u.path : u.path[i] \notin {".", ".."}
TypeOK == seen = {t.url : t \in targets} /\ \A u \in seen : Canonical(u)

(* CrawledOnce: no page is enqueued twice, whoever finds it first, the      *)
(* gateway as a seed or the parser as a link, and however it is written     *)
(* (the seen filter is shared by two implementations of one rule).          *)
CrawledOnce == \A s, t \in targets : s.page = t.page => s = t

(* LinkKept: what is enqueued for a link is the page the link leads to.     *)
LinkKept == \A t \in targets : canonicalizeUrl(t.url) = t.page

(* StaysOnSite: however many links and redirects lie between, a target of a *)
(* job that stays in its domain is on the seed's host or below it, "www."   *)
(* aside (canonicalize_url, redirectInScope).                               *)
Named(host) == WithoutWWW(IF Last(host) = Empty THEN Front(host) ELSE host)
StaysOnSite == \A t \in targets : t.stay => IsSuffix(Named(t.site), Named(t.url.host))

(* AdmittedByCrawler: the crawler does not discard as out of scope the very *)
(* page that was asked for: a target the gateway or the parser let in is    *)
(* in scope for pool.go as well when nothing redirects it.                  *)
AdmittedByCrawler ==
  \A t \in targets : t.stay => redirectInScope(t.url, t.scope, ParsedHostname(t.url.host))

=============================================================================
