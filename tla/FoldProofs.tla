----------------------------- MODULE FoldProofs -----------------------------
(***************************************************************************)
(* Induction for the folds of the community modules: what FoldLeft computes *)
(* is reached step by step.  The library's induction theorems take an       *)
(* operator as a parameter, which the provers cannot instantiate; here the  *)
(* induction is on a set, and the step of a fold is a function.             *)
(***************************************************************************)
EXTENDS SequencesExt, WellFoundedInduction, TLAPS

-----------------------------------------------------------------------------
(* Natural numbers *)

LEMMA Induction ==
  ASSUME NEW S, 0 \in S, \A n \in Nat : n \in S => n + 1 \in S
  PROVE  Nat \subseteq S
<1> SUFFICES ASSUME Nat \ S # {} PROVE FALSE
  OBVIOUS
<1> DEFINE R == OpToRel(<, Nat)
           T == Nat \ S
<1>1. \E x \in T : \A y \in T : ~ (<<y, x>> \in R)
  <2> HIDE DEF R
  <2>1. IsWellFoundedOn(R, Nat)
    BY NatLessThanWellFounded DEF R
  <2>2. T \subseteq Nat /\ T # {}
    OBVIOUS
  <2> HIDE DEF T
  <2> QED BY <2>1, <2>2, WFMin
<1>2. PICK x \in T : \A y \in T : ~ (<<y, x>> \in R)
  BY <1>1
<1>3. x # 0 /\ x - 1 \in Nat /\ x - 1 < x /\ x - 1 + 1 = x
  OBVIOUS
<1>4. <<x - 1, x>> \in R
  BY <1>3 DEF OpToRel
<1> QED BY <1>2, <1>3, <1>4

LEMMA InductionUpTo ==
  ASSUME NEW N \in Nat, NEW S, 0 \in S, \A n \in 0 .. N - 1 : n \in S => n + 1 \in S
  PROVE  0 .. N \subseteq S
<1> DEFINE T == {n \in Nat : n <= N => n \in S}
<1>1. 0 \in T /\ \A n \in Nat : n \in T => n + 1 \in T
  OBVIOUS
<1> HIDE DEF T
<1>2. Nat \subseteq T
  BY <1>1, Induction
<1> QED BY <1>2 DEF T

LEMMA MaxOf ==
  ASSUME NEW N \in Nat, NEW s \in SUBSET (1 .. N), s # {}
  PROVE  Max(s) \in s /\ \A y \in s : y <= Max(s)
<1> DEFINE Good == {n \in Nat : \A r \in SUBSET (1 .. n) : r # {} => \E x \in r : \A y \in r : y <= x}
<1>1. 0 \in Good
  <2>1. 1 .. 0 = {}
    OBVIOUS
  <2> QED BY <2>1
<1>2. ASSUME NEW n \in Nat, n \in Good
      PROVE  n + 1 \in Good
  <2> SUFFICES ASSUME NEW r \in SUBSET (1 .. n + 1), r # {}
               PROVE  \E x \in r : \A y \in r : y <= x
    OBVIOUS
  <2>1. CASE n + 1 \in r
    BY <2>1
  <2>2. CASE n + 1 \notin r
    <3>1. r \in SUBSET (1 .. n)
      BY <2>2
    <3> QED BY <1>2, <3>1
  <2> QED BY <2>1, <2>2
<1> HIDE DEF Good
<1>3. N \in Good
  BY <1>1, <1>2, Induction
<1>4. \E x \in s : \A y \in s : y <= x
  BY <1>3 DEF Good
<1> QED BY <1>4 DEF Max

-----------------------------------------------------------------------------
(* Folds *)

(* Iterating step over 1 .. N, as the folds do it: over the subsets of the  *)
(* domain, taking the largest element last.                                 *)
StepOn(S, N, step) == step \in [S \X (1 .. N) -> S]
Iterates(g, S, base, N, step) ==
  /\ g \in [SUBSET (1 .. N) -> S]
  /\ \A s \in SUBSET (1 .. N) :
       g[s] = IF s = {} THEN base ELSE step[<<g[s \ {Max(s)}], Max(s)>>]

LEMMA Iteration ==
  ASSUME NEW S, NEW base \in S, NEW N \in Nat, NEW step, StepOn(S, N, step)
  PROVE  \E g : Iterates(g, S, base, N, step)
<1> DEFINE Is(g, n) == /\ g \in [SUBSET (1 .. n) -> S]
                       /\ \A s \in SUBSET (1 .. n) :
                            g[s] = IF s = {} THEN base ELSE step[<<g[s \ {Max(s)}], Max(s)>>]
           Some(n) == \E g : Is(g, n)
           Good == {n \in Nat : n <= N => Some(n)}
<1>1. Some(0)
  <2>1. Is([s \in SUBSET (1 .. 0) |-> base], 0)
    OBVIOUS
  <2> QED BY <2>1
<1>2. ASSUME NEW n \in Nat, n + 1 <= N, Some(n)
      PROVE  Some(n + 1)
  <2>1. PICK g : Is(g, n)
    BY <1>2
  <2> DEFINE h == [s \in SUBSET (1 .. n + 1) |->
                     IF n + 1 \in s THEN step[<<g[s \ {n + 1}], n + 1>>] ELSE g[s]]
  <2>2. ASSUME NEW s \in SUBSET (1 .. n + 1)
        PROVE  h[s] \in S
    <3>1. CASE n + 1 \in s
      <4>1. s \ {n + 1} \in SUBSET (1 .. n) /\ n + 1 \in 1 .. N
        BY <1>2
      <4>2. <<g[s \ {n + 1}], n + 1>> \in S \X (1 .. N)
        BY <2>1, <4>1
      <4> QED BY <3>1, <4>2 DEF StepOn
    <3>2. CASE n + 1 \notin s
      <4>1. s \in SUBSET (1 .. n)
        BY <3>2
      <4> QED BY <2>1, <3>2, <4>1
    <3> QED BY <3>1, <3>2
  <2>3. ASSUME NEW s \in SUBSET (1 .. n + 1)
        PROVE  h[s] = IF s = {} THEN base ELSE step[<<h[s \ {Max(s)}], Max(s)>>]
    <3>1. CASE n + 1 \in s
      <4>1. Max(s) = n + 1
        <5>1. n + 1 \in Nat /\ s # {}
          BY <3>1
        <5>2. Max(s) \in s /\ n + 1 <= Max(s)
          BY <3>1, <5>1, MaxOf
        <5>3. Max(s) \in 1 .. n + 1
          BY <5>2
        <5> HIDE DEF h
        <5> QED BY <5>1, <5>2, <5>3
      <4>2. s \ {n + 1} \in SUBSET (1 .. n + 1) /\ n + 1 \notin s \ {n + 1}
        OBVIOUS
      <4>3. h[s \ {n + 1}] = g[s \ {n + 1}]
        BY <4>2
      <4> QED BY <3>1, <4>1, <4>3
    <3>2. CASE n + 1 \notin s
      <4>1. s \in SUBSET (1 .. n) /\ h[s] = g[s]
        BY <3>2
      <4>2. /\ s \ {Max(s)} \in SUBSET (1 .. n + 1) /\ n + 1 \notin s \ {Max(s)}
        BY <3>2
      <4>3. h[s \ {Max(s)}] = g[s \ {Max(s)}]
        BY <4>2
      <4> HIDE DEF h
      <4> QED BY <2>1, <4>1, <4>3
    <3> QED BY <3>1, <3>2
  <2>4. h \in [SUBSET (1 .. n + 1) -> S]
    BY <2>2
  <2> HIDE DEF h
  <2>5. Is(h, n + 1)
    BY <2>3, <2>4
  <2> QED BY <2>5
<1> HIDE DEF Some
<1>3. 0 \in Good /\ \A n \in Nat : n \in Good => n + 1 \in Good
  BY <1>1, <1>2
<1> HIDE DEF Good
<1>4. N \in Good
  BY <1>3, Induction
<1>5. Some(N)
  BY <1>4 DEF Good
<1> QED BY <1>5 DEF Some, Iterates

(* A fold over 1 .. n + 1 takes n + 1 last, and before it 1 .. n.           *)
LEMMA UpTo ==
  ASSUME NEW N \in Nat, NEW n \in 0 .. N - 1
  PROVE  /\ 1 .. n \in SUBSET (1 .. N) /\ 1 .. n + 1 \in SUBSET (1 .. N) /\ 1 .. n + 1 # {}
         /\ Max(1 .. n + 1) = n + 1 /\ (1 .. n + 1) \ {n + 1} = 1 .. n
<1>1. /\ 1 .. n \in SUBSET (1 .. N) /\ 1 .. n + 1 \in SUBSET (1 .. N)
      /\ 1 .. n + 1 # {} /\ n + 1 \in 1 .. n + 1
  OBVIOUS
<1>2. Max(1 .. n + 1) = n + 1
  <2> DEFINE s == 1 .. n + 1
  <2>1. Max(s) \in s /\ n + 1 <= Max(s)
    BY <1>1, MaxOf
  <2> QED BY <2>1
<1>3. (1 .. n + 1) \ {n + 1} = 1 .. n
  OBVIOUS
<1> QED BY <1>1, <1>2, <1>3, Zenon

(* A function over the subsets that takes such steps, which is what a fold  *)
(* chooses, and the values it goes through.                                 *)
Follows(iter, S, base, N, step) ==
  /\ iter[{}] = base
  /\ \A s \in SUBSET (1 .. N) : s # {} /\ iter[s \ {Max(s)}] \in S =>
       iter[s] = step[<<iter[s \ {Max(s)}], Max(s)>>]

Stepwise(f, S, base, N, step) ==
  /\ f \in [0 .. N -> S] /\ f[0] = base
  /\ \A n \in 0 .. N - 1 : f[n + 1] = step[<<f[n], n + 1>>]

LEMMA StepByStep ==
  ASSUME NEW S, NEW base \in S, NEW N \in Nat, NEW step, StepOn(S, N, step),
         NEW iter, Follows(iter, S, base, N, step)
  PROVE  \E f : Stepwise(f, S, base, N, step) /\ f[N] = iter[1 .. N]
<1> DEFINE f == [n \in 0 .. N |-> iter[1 .. n]]
           Typed == {n \in 0 .. N : f[n] \in S}
<1>1. f[0] = base
  <2>1. 1 .. 0 = {} /\ 0 \in 0 .. N
    OBVIOUS
  <2> QED BY <2>1 DEF Follows
<1>2. ASSUME NEW n \in 0 .. N - 1, f[n] \in S
      PROVE  f[n + 1] = step[<<f[n], n + 1>>] /\ f[n + 1] \in S
  <2>1. f[n + 1] = iter[1 .. n + 1] /\ f[n] = iter[1 .. n] /\ n + 1 \in 1 .. N
    OBVIOUS
  <2>2. /\ 1 .. n + 1 \in SUBSET (1 .. N) /\ 1 .. n + 1 # {}
        /\ Max(1 .. n + 1) = n + 1 /\ (1 .. n + 1) \ {n + 1} = 1 .. n
    BY UpTo
  <2> DEFINE s == 1 .. n + 1
  <2>3. iter[s \ {Max(s)}] \in S /\ s # {} /\ s \in SUBSET (1 .. N)
    BY <1>2, <2>1, <2>2
  <2>4. iter[s] = step[<<iter[s \ {Max(s)}], Max(s)>>]
    BY <2>3 DEF Follows
  <2>5. f[n + 1] = step[<<f[n], n + 1>>]
    BY <2>1, <2>2, <2>4
  <2>6. step[<<f[n], n + 1>>] \in S
    BY <1>2, <2>1 DEF StepOn
  <2> QED BY <2>5, <2>6
<1> HIDE DEF f
<1>3. 0 .. N \subseteq Typed
  <2>1. 0 \in Typed
    BY <1>1
  <2>2. ASSUME NEW n \in 0 .. N - 1, n \in Typed
        PROVE  n + 1 \in Typed
    <3>1. f[n] \in S /\ n + 1 \in 0 .. N
      BY <2>2
    <3>2. f[n + 1] \in S
      BY <1>2, <3>1
    <3> QED BY <3>1, <3>2
  <2> HIDE DEF Typed
  <2> QED BY <2>1, <2>2, InductionUpTo
<1>4. \A n \in 0 .. N : f[n] \in S
  BY <1>3
<1>5. \A n \in 0 .. N - 1 : f[n + 1] = step[<<f[n], n + 1>>]
  <2>1. \A n \in 0 .. N - 1 : n \in 0 .. N
    OBVIOUS
  <2> QED BY <1>2, <1>4, <2>1
<1>6. f \in [0 .. N -> S] /\ f[N] = iter[1 .. N]
  <2>1. f = [n \in 0 .. N |-> f[n]] /\ f[N] = iter[1 .. N]
    BY DEF f
  <2> QED BY <1>4, <2>1
<1> QED BY <1>1, <1>5, <1>6 DEF Stepwise

=============================================================================
