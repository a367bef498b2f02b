------------------------- MODULE TradingCoreFold -------------------------
(***************************************************************************)
(* What the fold of TradingCore does, for every log: lemmas on Folds,      *)
(* ApplyAll and Replay, used by the proofs of TradingCoreProofs.           *)
(*                                                                         *)
(* Folds is a recursive function on 0..Len(s), so every lemma about all of *)
(* its values is an induction up to a bound.  The induction is done on     *)
(* sets (lemma Climb), by a least counterexample.                          *)
(***************************************************************************)
EXTENDS TradingCore, NaturalsInduction, WellFoundedInduction,
        SequenceTheorems, TLAPS

\* A non-empty set of natural numbers has a least element.
LEMMA Least ==
    ASSUME NEW T \in SUBSET Nat, T # {}
    PROVE  \E x \in T : \A y \in T : x <= y
<1>1. IsWellFoundedOn(OpToRel(<, Nat), Nat)
    BY NatLessThanWellFounded
<1>2. PICK x \in T : \A y \in T : << y, x >> \notin OpToRel(<, Nat)
    BY <1>1, WFMin
<1>3. \A y \in T : ~(y < x)
    BY <1>2 DEF OpToRel
<1> QED BY <1>3

\* Induction from 0 up to a bound: a set that holds 0 and, with every number
\* below L, the next one, holds every number up to L.
LEMMA Climb ==
    ASSUME NEW S, NEW L \in Nat, 0 \in S,
           \A n \in 0..L : n \in S /\ n # L => n + 1 \in S
    PROVE  \A n \in 0..L : n \in S
<1> DEFINE Missing == {n \in 0..L : n \notin S}
<1> SUFFICES ASSUME Missing # {} PROVE FALSE
    OBVIOUS
<1>0. Missing \in SUBSET Nat
    OBVIOUS
<1> HIDE DEF Missing
<1>1. PICK n \in Missing : \A m \in Missing : n <= m
    BY <1>0, Least
<1> USE DEF Missing
<1>2. n # 0 /\ n - 1 \in 0..L /\ n - 1 \notin Missing
    BY <1>1
<1> QED BY <1>1, <1>2

\* The graph of Folds up to the event k.
FoldsTo(f, p, s, k) ==
    f = [n \in 0..k |-> IF n = 0 THEN p ELSE Apply(f[n-1], s[n])]

\* The recursion of Folds has a solution up to every event.
LEMMA FoldsToExists ==
    ASSUME NEW p, NEW s, NEW L \in Nat
    PROVE  \E f : FoldsTo(f, p, s, L)
<1> DEFINE Solved == {n \in 0..L : \E f : FoldsTo(f, p, s, n)}
<1>1. 0 \in Solved
    <2> DEFINE g == [m \in 0..0 |-> p]
    <2>1. FoldsTo(g, p, s, 0)
        BY DEF FoldsTo
    <2> QED BY <2>1
<1>2. ASSUME NEW n \in 0..L, n \in Solved, n # L
      PROVE  n + 1 \in Solved
    <2>1. PICK f : FoldsTo(f, p, s, n)
        BY <1>2
    <2> DEFINE g == [m \in 0..n+1 |-> IF m = n + 1 THEN Apply(f[n], s[n+1]) ELSE f[m]]
    <2>2. f = [m \in 0..n |-> IF m = 0 THEN p ELSE Apply(f[m-1], s[m])]
        BY <2>1 DEF FoldsTo
    <2>3. \A m \in 0..n+1 : g[m] = IF m = 0 THEN p ELSE Apply(g[m-1], s[m])
        BY <2>2
    <2>4. FoldsTo(g, p, s, n + 1)
        BY <2>3 DEF FoldsTo
    <2>5. n + 1 \in 0..L
        BY <1>2
    <2> HIDE DEF g
    <2> QED BY <2>4, <2>5
<1> HIDE DEF Solved
<1>3. L \in Solved
    BY <1>1, <1>2, Climb
<1> QED BY <1>3 DEF Solved

\* Folds starts at p and applies one event at a time.
LEMMA FoldsRun ==
    ASSUME NEW p, NEW s, Len(s) \in Nat
    PROVE  /\ Folds(p, s)[0] = p
           /\ \A n \in 1..Len(s) : Folds(p, s)[n] = Apply(Folds(p, s)[n-1], s[n])
<1>1. PICK f : FoldsTo(f, p, s, Len(s))
    BY FoldsToExists
<1>2. FoldsTo(Folds(p, s), p, s, Len(s))
    BY <1>1 DEF Folds, FoldsTo
<1> DEFINE g == Folds(p, s)
<1>3. g = [n \in 0..Len(s) |-> IF n = 0 THEN p ELSE Apply(g[n-1], s[n])]
    BY <1>2 DEF FoldsTo
<1> HIDE DEF g
<1>4. g[0] = p /\ \A n \in 1..Len(s) : g[n] = Apply(g[n-1], s[n])
    BY <1>3
<1> QED BY <1>4 DEF g

\* Nothing applied changes nothing.
LEMMA ApplyAllEmpty ==
    ASSUME NEW p, NEW s, Len(s) = 0
    PROVE  ApplyAll(p, s) = p
BY FoldsRun DEF ApplyAll

\* Applying two batches is applying the one, then the other.
LEMMA ApplyAllConcat ==
    ASSUME NEW S, NEW p, NEW s \in Seq(S), NEW t \in Seq(S)
    PROVE  ApplyAll(p, s \o t) = ApplyAll(ApplyAll(p, s), t)
<1> DEFINE st == s \o t
           f == Folds(p, st)
           g == Folds(p, s)
           h == Folds(ApplyAll(p, s), t)
           Same == {n \in 0..Len(s) : f[n] = g[n]}
           Shifted == {n \in 0..Len(t) : f[Len(s) + n] = h[n]}
<1>1. /\ Len(s) \in Nat /\ Len(t) \in Nat /\ Len(st) = Len(s) + Len(t)
      /\ \A i \in 1..Len(s) : st[i] = s[i]
      /\ \A i \in 1..Len(t) : st[Len(s) + i] = t[i]
    BY ConcatProperties, LenProperties
<1>2. /\ f[0] = p /\ \A n \in 1..Len(st) : f[n] = Apply(f[n-1], st[n])
      /\ g[0] = p /\ \A n \in 1..Len(s) : g[n] = Apply(g[n-1], s[n])
      /\ h[0] = ApplyAll(p, s) /\ \A n \in 1..Len(t) : h[n] = Apply(h[n-1], t[n])
    <2> HIDE DEF st
    <2>1. Len(st) \in Nat
        BY <1>1
    <2>2. f[0] = p /\ \A n \in 1..Len(st) : f[n] = Apply(f[n-1], st[n])
        BY <2>1, FoldsRun
    <2>3. g[0] = p /\ \A n \in 1..Len(s) : g[n] = Apply(g[n-1], s[n])
        BY <1>1, FoldsRun
    <2>4. h[0] = ApplyAll(p, s) /\ \A n \in 1..Len(t) : h[n] = Apply(h[n-1], t[n])
        BY <1>1, FoldsRun
    <2> QED BY <2>2, <2>3, <2>4
<1>3. g[Len(s)] = ApplyAll(p, s) /\ h[Len(t)] = ApplyAll(ApplyAll(p, s), t)
      /\ f[Len(s) + Len(t)] = ApplyAll(p, st)
    BY <1>1 DEF ApplyAll
<1> HIDE DEF st, f, g, h
<1>4. Len(s) \in Same
    <2>1. 0 \in Same
        BY <1>1, <1>2
    <2>2. ASSUME NEW n \in 0..Len(s), n \in Same, n # Len(s)
          PROVE  n + 1 \in Same
        <3>1. f[n+1] = Apply(f[n], st[n+1]) /\ g[n+1] = Apply(g[n], s[n+1])
            BY <1>1, <1>2, <2>2
        <3> QED BY <1>1, <2>2, <3>1
    <2> HIDE DEF Same
    <2>3. \A n \in 0..Len(s) : n \in Same
        BY <1>1, <2>1, <2>2, Climb
    <2> QED BY <1>1, <2>3
<1>5. Len(t) \in Shifted
    <2>1. 0 \in Shifted
        BY <1>1, <1>2, <1>3, <1>4
    <2>2. ASSUME NEW n \in 0..Len(t), n \in Shifted, n # Len(t)
          PROVE  n + 1 \in Shifted
        <3>1. f[Len(s)+n+1] = Apply(f[Len(s)+n], st[Len(s)+n+1])
            BY <1>1, <1>2, <2>2
        <3>2. h[n+1] = Apply(h[n], t[n+1]) /\ st[Len(s)+n+1] = t[n+1]
            BY <1>1, <1>2, <2>2
        <3> QED BY <1>1, <2>2, <3>1, <3>2
    <2> HIDE DEF Shifted
    <2>3. \A n \in 0..Len(t) : n \in Shifted
        BY <1>1, <2>1, <2>2, Climb
    <2> QED BY <1>1, <2>3
<1> QED BY <1>3, <1>5 DEF st
=============================================================================
