------------------------------- MODULE MCUrls -------------------------------
(* Small sets of seeds, references and redirects for TLC.                   *)
EXTENDS Urls, TLC

Url(scheme, host, port, path, query, frag) ==
  [scheme |-> scheme, user |-> frag, host |-> host, port |-> port,
   path |-> path, rooted |-> TRUE, query |-> query, frag |-> frag]
Relative(path, rooted, query) ==
  [Url(None, <<>>, NoPort, path, query, query # None) EXCEPT !.rooted = rooted]

Site == <<"a", "com">>
Longer(inner, paths) == {<<s>> \o p : s \in inner, p \in paths}
Ends == {<<s>> : s \in {"a", ".", "..", "", "i.png"}}
Paths2 == Ends \cup Longer({"a", ".", ".."}, Ends)
Paths3 == Paths2 \cup Longer({"b", "..", "."}, Longer({"a", ".."}, Ends))

(* One host, every short path in every way it is written.                   *)
PathSeeds == {Url("http", Site, NoPort, p, q, q = "q") :
                p \in Paths3 \cup {<<>>, <<"a", "", "..", "b">>}, q \in {None, "q"}}
PathHrefs == {Relative(p, r, None) : p \in Paths3 \ {<<"">>}, r \in BOOLEAN}
             \cup {Relative(<<"">>, TRUE, None)} \cup {Relative(p, FALSE, q) : p \in {<<>>, <<"a">>}, q \in {None, "q"}}
             \cup {Url("http", Site, NoPort, p, "", TRUE) : p \in Paths2}

(* Hosts, ports and schemes, redirects and two kinds of targets.            *)
Hosts == {Site, <<"www", "a", "COM">>, <<"x", "a", "com">>, <<"x", "a", "com", "">>,
          <<"b", "com">>, <<Umlaut, "com">>}
HostSeeds == {Url("http", h, p, <<>>, None, FALSE) : h \in Hosts, p \in {EmptyPort, 80, 99999}}
             \cup {Url("ftp", Site, NoPort, <<>>, None, FALSE)}
HostHrefs == {Url(s, h, p, <<>>, None, FALSE) : s \in {None, "http"}, h \in Hosts, p \in {80, 8080}}
             \cup {Url("https", Site, 443, <<"">>, "", TRUE)}
             \cup {Relative(<<"a">>, FALSE, None)}
(* Redirects name a host in ASCII. *)
Root(h) == Url("http", h, 80, <<"">>, None, FALSE)
Punycode == {<<"xn--tda", "com">>, <<"xn--tda", "a", "com">>}
HostRedirects == {Root(h) : h \in (Hosts \ {<<Umlaut, "com">>}) \cup Punycode}

(* A redirect that names a host with its umlaut. *)
RawHrefs == {Relative(<<"a">>, FALSE, None), Url("http", <<Umlaut, "com">>, NoPort, <<"a">>, None, FALSE)}

(* What the two canonical forms disagree on.                                *)
OddSeeds == {Url("http", h, NoPort, p, None, FALSE) :
               h \in {Site, <<SharpS, "com">>}, p \in {<<"a">>, <<"%2e%2e", "a">>, <<Accented>>}}
OddHrefs == {Url("http", h, NoPort, p, None, FALSE) :
               h \in {Site, <<SharpS, "com">>}, p \in {<<"a">>, <<"%2e%2e", "a">>, <<Accented>>}}
LiteralSeeds == {Url("http", h, NoPort, <<>>, None, FALSE) : h \in {Site, <<IPv6>>}}
LiteralHrefs == {Relative(<<"a">>, TRUE, None), Url("http", <<IPv6>>, NoPort, <<"a">>, None, FALSE)}
SlashHrefs == {Relative(<<"a", "", "b">>, r, None) : r \in BOOLEAN}

Web(seeds, hrefs, redirects, legacy) ==
  [seeds |-> seeds, hrefs |-> hrefs, redirects |-> redirects, legacy |-> legacy]
PathsAndHosts == {Web(PathSeeds, PathHrefs, {}, FALSE),
                  Web(HostSeeds, HostHrefs, HostRedirects, TRUE)}
RawHosts == {Web({Root(Site)}, RawHrefs, {Root(<<Umlaut, "com">>)}, FALSE)}
Odd == {Web(OddSeeds, OddHrefs, {}, FALSE)}
Literals == {Web(LiteralSeeds, LiteralHrefs, {}, FALSE)}
Slashes == {Web(PathSeeds, SlashHrefs, {}, FALSE)}

=============================================================================
