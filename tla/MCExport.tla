------------------------------ MODULE MCExport ------------------------------
(* Small documents for TLC.                                                 *)
EXTENDS Export

Line(kind, name, words) == [kind |-> kind, name |-> name, words |-> words]
Doc(url, declared, script, lines) ==
  [url |-> url, declared |-> declared, script |-> script, title |-> "Title", lines |-> lines]
Text(n) == Line("text", "", n)
Plain == {Line("heading", "H1", 0), Line("heading", "H2", 0), Text(0), Text(1), Text(4)}

(* Every document of up to four lines.                                      *)
Shapes == UNION {[1 .. n -> Plain] : n \in 1 .. 4}
ShapeDocs == {Doc("u", "en", "en", s) : s \in Shapes}

(* Three documents in two languages, and a Spanish page in Latin script.    *)
Three == {Doc("u", "en", "en", <<Text(1)>>), Doc("v", "fa", "fa", <<Text(1)>>),
          Doc("w", "en", "en", <<Text(2)>>)}
Spanish == {Doc("u", "en", "en", <<Text(1)>>), Doc("v", "es", "en", <<Text(1)>>)}
Commented == {Doc("u", "en", "en",
                <<Line("heading", "H1", 0), Text(1), Line("comment", "c", 0), Text(1)>>)}
Orders(D) == {s \in UNION {[1 .. n -> D] : n \in 1 .. Cardinality(D)} :
                \A i, k \in DOMAIN s : s[i] = s[k] => i = k}
Both == Orders(Three) \cup {<<d>> : d \in ShapeDocs}
English == {"en"}
AnyLanguage == {}

=============================================================================
