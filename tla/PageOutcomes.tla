---------------------------- MODULE PageOutcomes ----------------------------
(***************************************************************************)
(* What the parser promises about fetched pages, without lists, leases,     *)
(* workers or files.  A page that arrived waits until it gets exactly one   *)
(* outcome: its document is recorded, or its body is found to be one that   *)
(* is recorded already, or it is dead-lettered.  A dead letter may be       *)
(* replayed, or dropped in the attempt.                                     *)
(***************************************************************************)
CONSTANTS Pages, BodyOf, NoText

VARIABLES waiting, recorded, duplicate, dead, dropped

vars == <<waiting, recorded, duplicate, dead, dropped>>

Arrived == waiting \cup recorded \cup duplicate \cup dead \cup dropped

Known(p) == BodyOf[p] # NoText /\ \E q \in recorded : BodyOf[q] = BodyOf[p]

Init == waiting = {} /\ recorded = {} /\ duplicate = {} /\ dead = {} /\ dropped = {}

Arrive(p) ==
  /\ p \in Pages \ Arrived
  /\ waiting' = waiting \cup {p}
  /\ UNCHANGED <<recorded, duplicate, dead, dropped>>

Record(p) ==
  /\ p \in waiting /\ ~Known(p)
  /\ waiting' = waiting \ {p}
  /\ recorded' = recorded \cup {p}
  /\ UNCHANGED <<duplicate, dead, dropped>>

Repeat(p) ==
  /\ p \in waiting /\ Known(p)
  /\ waiting' = waiting \ {p}
  /\ duplicate' = duplicate \cup {p}
  /\ UNCHANGED <<recorded, dead, dropped>>

Bury(S) ==
  /\ S # {} /\ S \subseteq waiting
  /\ waiting' = waiting \ S
  /\ dead' = dead \cup S
  /\ UNCHANGED <<recorded, duplicate, dropped>>

Replay(back, lost) ==
  /\ back \cup lost # {} /\ back \cup lost \subseteq dead /\ back \cap lost = {}
  /\ dead' = dead \ (back \cup lost)
  /\ waiting' = waiting \cup back
  /\ dropped' = dropped \cup lost
  /\ UNCHANGED <<recorded, duplicate>>

Next ==
  \/ \E p \in Pages : Arrive(p) \/ Record(p) \/ Repeat(p)
  \/ \E S \in SUBSET waiting : Bury(S)
  \/ \E back, lost \in SUBSET dead : Replay(back, lost)

Spec == Init /\ [][Next]_vars

=============================================================================
