-------------------------- MODULE Standings_proofs --------------------------
(***************************************************************************)
(* Proofs about the statistics, for every roster, every set of months and  *)
(* every result: what the scoring of a month promises, what a result, a    *)
(* midnight or a what-if does to it, and that the streaks, the board, the  *)
(* bot's answers, the season, the records and the awards, each worked out  *)
(* by a rule of its own, tell one story.                                   *)
(***************************************************************************)
EXTENDS Records, FiniteSetTheorems, NaturalsInduction, WellFoundedInduction, TLAPS

-----------------------------------------------------------------------------
(* What the proofs about figures need: induction over the natural numbers, *)
(* what the library's fold makes of a sum over a finite set, the least and *)
(* the most of one, and what a sorted sequence of its elements has.        *)
(* A fold is a recursive function, which TLA+ defines by a CHOOSE: that    *)
(* there is one, and only one, is proved here for the sums of numbers.     *)

\* A set of numbers that has 0, and the successor of each of its members, has every
\* number: its complement has no least member.
LEMMA EveryNumber ==
  ASSUME NEW G \in SUBSET Nat, 0 \in G, \A n \in G : n + 1 \in G
  PROVE  G = Nat
<1> DEFINE R == OpToRel(<, Nat)
<1>1. IsWellFoundedOn(R, Nat)
  BY NatLessThanWellFounded
<1>2. \A x, y \in Nat : y < x => <<y, x>> \in R
  BY DEF OpToRel
<1> HIDE DEF R
<1>3. SUFFICES ASSUME Nat \ G # {} PROVE FALSE
  OBVIOUS
<1>4. PICK n \in Nat \ G : \A m \in Nat \ G : ~ (<<m, n>> \in R)
  BY <1>1, <1>3, WFMin
<1>5. n # 0 /\ n - 1 \in Nat /\ n - 1 < n
  BY <1>4
<1>6. n - 1 \in G
  BY <1>2, <1>4, <1>5
<1> QED BY <1>4, <1>5, <1>6

-----------------------------------------------------------------------------
(* Sums.                                                                   *)

SumOver(f, S) == FoldFunctionOnSet(LAMBDA n, total : n + total, 0, f, S)

\* g is the sum of f over each subset of S, as the fold computes it.
Picked(s) == CHOOSE x \in s : TRUE
Partial(f, s, g) == IF s = {} THEN 0 ELSE f[Picked(s)] + g[s \ {Picked(s)}]
SumsUp(f, S, g) == g = [s \in SUBSET S |-> Partial(f, s, g)]

\* What is left when the element that is picked is taken out.
LEMMA PickedOut ==
  ASSUME NEW S, IsFiniteSet(S), S # {}
  PROVE  /\ Picked(S) \in S /\ IsFiniteSet(S \ {Picked(S)})
         /\ Cardinality(S) \in Nat /\ Cardinality(S \ {Picked(S)}) = Cardinality(S) - 1
<1>1. Picked(S) \in S
  BY DEF Picked
<1> QED BY <1>1, FS_RemoveElement, FS_CardinalityType

\* There are such sums: those of the smaller subsets give those of the next larger.
LEMMA SumsExist ==
  ASSUME NEW f, NEW S, IsFiniteSet(S)
  PROVE  \E g : SumsUp(f, S, g)
<1> DEFINE Small(n) == {s \in SUBSET S : Cardinality(s) <= n}
           Summed(n) == \E g : g = [s \in Small(n) |-> Partial(f, s, g)]
           G == {n \in Nat : Summed(n)}
<1>1. \A s \in SUBSET S : IsFiniteSet(s) /\ Cardinality(s) \in Nat /\ Cardinality(s) <= Cardinality(S)
  BY FS_Subset, FS_CardinalityType
<1>2. 0 \in G
  <2>1. \A s \in Small(0) : s = {}
    BY <1>1, FS_EmptySet
  <2> DEFINE g == [s \in Small(0) |-> 0]
  <2>2. g = [s \in Small(0) |-> Partial(f, s, g)]
    BY <2>1 DEF Partial
  <2> QED BY <2>2
<1>3. ASSUME NEW n \in G PROVE n + 1 \in G
  <2>1. PICK g : g = [s \in Small(n) |-> Partial(f, s, g)]
    BY <1>3
  <2> DEFINE h == [s \in Small(n + 1) |-> Partial(f, s, g)]
  <2>2. ASSUME NEW s \in Small(n + 1) PROVE Partial(f, s, g) = Partial(f, s, h)
    <3>1. CASE s = {}
      BY <3>1 DEF Partial
    <3>2. CASE s # {}
      <4> DEFINE t == s \ {Picked(s)}
      <4>1. t \in Small(n) /\ t \in Small(n + 1)
        BY <1>1, <3>2, PickedOut
      <4>2. h[t] = Partial(f, t, g) /\ g[t] = Partial(f, t, g)
        BY <4>1, <2>1
      <4> HIDE DEF h
      <4> QED BY <3>2, <4>2 DEF Partial
    <3> QED BY <3>1, <3>2
  <2>3. h = [s \in Small(n + 1) |-> Partial(f, s, h)]
    BY <2>2
  <2>4. Summed(n + 1)
    BY <2>3
  <2> HIDE DEF Summed
  <2>5. n + 1 \in Nat
    OBVIOUS
  <2> QED BY <2>4, <2>5
<1>4. Summed(Cardinality(S))
  <2> HIDE DEF G
  <2>1. G = Nat
    BY <1>2, <1>3, EveryNumber DEF G
  <2> QED BY <1>1, <2>1 DEF G
<1>5. Small(Cardinality(S)) = SUBSET S
  BY <1>1
<1> QED BY <1>4, <1>5 DEF SumsUp

\* And they are the same, whatever larger set they are taken in.
LEMMA SumsUnique ==
  ASSUME NEW f, NEW e, NEW S, NEW T, NEW g, NEW h, SumsUp(f, S, g), SumsUp(e, T, h),
         IsFiniteSet(S), S \subseteq T, \A x \in S : f[x] = e[x]
  PROVE  g[S] = h[S]
<1> DEFINE G == {n \in Nat : \A s \in SUBSET S : Cardinality(s) = n => g[s] = h[s]}
<1>1. \A s \in SUBSET S : /\ IsFiniteSet(s) /\ Cardinality(s) \in Nat
                          /\ g[s] = Partial(f, s, g) /\ h[s] = Partial(e, s, h)
  BY FS_Subset, FS_CardinalityType DEF SumsUp
<1>2. 0 \in G
  <2>1. \A s \in SUBSET S : Cardinality(s) = 0 => s = {}
    BY <1>1, FS_EmptySet
  <2> QED BY <1>1, <2>1 DEF Partial
<1>3. ASSUME NEW n \in G PROVE n + 1 \in G
  <2> SUFFICES ASSUME NEW s \in SUBSET S, Cardinality(s) = n + 1 PROVE g[s] = h[s]
    OBVIOUS
  <2>1. s # {}
    BY FS_EmptySet
  <2> DEFINE t == s \ {Picked(s)}
  <2>2. t \in SUBSET S /\ Cardinality(t) = n /\ Picked(s) \in S
    BY <1>1, <2>1, PickedOut
  <2>3. g[t] = h[t]
    BY <2>2
  <2> QED BY <1>1, <2>1, <2>2, <2>3 DEF Partial
<1> HIDE DEF G
<1>4. G = Nat
  BY <1>2, <1>3, EveryNumber DEF G
<1> QED BY <1>1, <1>4 DEF G

\* The fold is such a sum.
LEMMA SumOverSumsUp ==
  ASSUME NEW f, NEW S, IsFiniteSet(S)
  PROVE  \E g : SumsUp(f, S, g) /\ SumOver(f, S) = g[S]
<1> DEFINE g == CHOOSE h : SumsUp(f, S, h)
<1>1. SumsUp(f, S, g)
  BY SumsExist
<1>2. SumOver(f, S) = g[S]
  BY DEF SumOver, FoldFunctionOnSet, MapThenFoldSet, SumsUp, Partial, Picked
<1> QED BY <1>1, <1>2

\* The sum over no element, and the sum as the fold computes it.
LEMMA SumSteps ==
  ASSUME NEW f, NEW S, IsFiniteSet(S)
  PROVE  /\ S = {} => SumOver(f, S) = 0
         /\ S # {} => SumOver(f, S) = f[Picked(S)] + SumOver(f, S \ {Picked(S)})
<1> DEFINE t == S \ {Picked(S)}
<1>1. PICK g : SumsUp(f, S, g) /\ SumOver(f, S) = g[S]
  BY SumOverSumsUp
<1>2. SumOver(f, S) = Partial(f, S, g)
  BY <1>1 DEF SumsUp
<1>3. IsFiniteSet(t)
  BY FS_RemoveElement
<1>4. PICK h : SumsUp(f, t, h) /\ SumOver(f, t) = h[t]
  BY <1>3, SumOverSumsUp
<1>5. h[t] = g[t]
  BY <1>1, <1>3, <1>4, SumsUnique
<1> QED BY <1>2, <1>4, <1>5 DEF Partial

\* Only the elements that are summed matter.
LEMMA SumSame ==
  ASSUME NEW S, IsFiniteSet(S), NEW f, NEW e, \A x \in S : f[x] = e[x]
  PROVE  SumOver(f, S) = SumOver(e, S)
<1>1. PICK g : SumsUp(f, S, g) /\ SumOver(f, S) = g[S]
  BY SumOverSumsUp
<1>2. PICK h : SumsUp(e, S, h) /\ SumOver(e, S) = h[S]
  BY SumOverSumsUp
<1> QED BY <1>1, <1>2, SumsUnique

\* A sum of natural numbers is one.
LEMMA SumIsNat ==
  ASSUME NEW f, NEW S, IsFiniteSet(S), \A x \in S : f[x] \in Nat
  PROVE  SumOver(f, S) \in Nat
<1> DEFINE G == {n \in Nat : \A s \in SUBSET S : Cardinality(s) = n => SumOver(f, s) \in Nat}
<1>1. \A s \in SUBSET S : IsFiniteSet(s) /\ Cardinality(s) \in Nat
  BY FS_Subset, FS_CardinalityType
<1>2. 0 \in G
  BY <1>1, FS_EmptySet, SumSteps
<1>3. ASSUME NEW n \in G PROVE n + 1 \in G
  <2> SUFFICES ASSUME NEW s \in SUBSET S, Cardinality(s) = n + 1 PROVE SumOver(f, s) \in Nat
    OBVIOUS
  <2>1. s # {} /\ IsFiniteSet(s)
    BY <1>1, FS_EmptySet
  <2> DEFINE t == s \ {Picked(s)}
  <2>2. Picked(s) \in S /\ t \in SUBSET S /\ Cardinality(t) = n
    BY <2>1, PickedOut
  <2>3. SumOver(f, s) = f[Picked(s)] + SumOver(f, t)
    BY <2>1, SumSteps
  <2>4. SumOver(f, t) \in Nat
    BY <2>2
  <2> QED BY <2>2, <2>3, <2>4
<1> HIDE DEF G
<1>4. G = Nat
  BY <1>2, <1>3, EveryNumber DEF G
<1> QED BY <1>1, <1>4 DEF G

\* Any element may be taken out first.
LEMMA SumTakesOut ==
  ASSUME NEW f, NEW S, IsFiniteSet(S), \A x \in S : f[x] \in Nat
  PROVE  \A x \in S : SumOver(f, S) = f[x] + SumOver(f, S \ {x})
<1> DEFINE Right(s) == \A x \in s : SumOver(f, s) = f[x] + SumOver(f, s \ {x})
           G == {n \in Nat : \A s \in SUBSET S : Cardinality(s) = n => Right(s)}
<1>1. \A s \in SUBSET S : IsFiniteSet(s) /\ Cardinality(s) \in Nat /\ SumOver(f, s) \in Nat
  BY FS_Subset, FS_CardinalityType, SumIsNat
<1>2. 0 \in G
  BY <1>1, FS_EmptySet
<1>3. ASSUME NEW n \in G PROVE n + 1 \in G
  <2> SUFFICES ASSUME NEW s \in SUBSET S, Cardinality(s) = n + 1, NEW x \in s
               PROVE  SumOver(f, s) = f[x] + SumOver(f, s \ {x})
    OBVIOUS
  <2> DEFINE p == Picked(s)
             t == s \ {p}
             u == s \ {x}
             v == t \ {x}
  <2>1. s # {} /\ IsFiniteSet(s)
    BY <1>1
  <2>2. p \in s /\ Cardinality(t) = n
    BY <2>1, PickedOut
  <2>7. Cardinality(u) = Cardinality(s) - 1
    BY <2>1, FS_RemoveElement
  <2>3. SumOver(f, s) = f[p] + SumOver(f, t)
    BY <2>1, SumSteps
  <2>4. f[p] \in Nat /\ f[x] \in Nat /\ SumOver(f, v) \in Nat
    BY <1>1, <2>2
  <2>5. CASE x = p
    BY <2>3, <2>5
  <2>6. CASE x # p
    <3>1. x \in t /\ p \in u /\ v = u \ {p}
      BY <2>2, <2>6
    <3>2. Right(t) /\ Right(u)
      BY <2>2, <2>7
    <3>3. SumOver(f, t) = f[x] + SumOver(f, v) /\ SumOver(f, u) = f[p] + SumOver(f, v)
      BY <3>1, <3>2
    <3>4. SumOver(f, s) = f[x] + SumOver(f, u)
      <4> HIDE DEF p, t, u, v
      <4> QED BY <2>3, <2>4, <3>3
    <3> QED BY <3>4
  <2> QED BY <2>5, <2>6
<1> HIDE DEF G
<1>4. G = Nat
  BY <1>2, <1>3, EveryNumber DEF G
<1> QED BY <1>1, <1>4 DEF G

\* The sum over two sets that share nothing.
LEMMA SumOfBoth ==
  ASSUME NEW f, NEW S, NEW T, IsFiniteSet(S), IsFiniteSet(T), S \cap T = {},
         \A x \in S \cup T : f[x] \in Nat
  PROVE  SumOver(f, S \cup T) = SumOver(f, S) + SumOver(f, T)
<1> DEFINE Right(t) == SumOver(f, S \cup t) = SumOver(f, S) + SumOver(f, t)
           G == {n \in Nat : \A t \in SUBSET T : Cardinality(t) = n => Right(t)}
<1>1. \A t \in SUBSET T : /\ IsFiniteSet(t) /\ Cardinality(t) \in Nat /\ SumOver(f, t) \in Nat
                          /\ IsFiniteSet(S \cup t) /\ SumOver(f, S \cup t) \in Nat
  BY FS_Subset, FS_CardinalityType, SumIsNat, FS_Union
<1>2. SumOver(f, S) \in Nat
  BY SumIsNat
<1>3. 0 \in G
  <2>1. Right({})
    <3>1. SumOver(f, {}) = 0
      BY FS_EmptySet, SumSteps
    <3>2. S \cup {} = S
      OBVIOUS
    <3> QED BY <1>2, <3>1, <3>2
  <2> QED BY <1>1, <2>1, FS_EmptySet
<1>4. ASSUME NEW n \in G PROVE n + 1 \in G
  <2> SUFFICES ASSUME NEW t \in SUBSET T, Cardinality(t) = n + 1 PROVE Right(t)
    OBVIOUS
  <2>1. PICK x \in t : TRUE
    BY FS_EmptySet
  <2> DEFINE u == t \ {x}
             w == S \cup t
  <2>2. IsFiniteSet(t) /\ IsFiniteSet(w) /\ x \in w /\ w \ {x} = S \cup u
    BY <1>1
  <2>3. Cardinality(u) = Cardinality(t) - 1
    BY <2>2, FS_RemoveElement
  <2>4. Right(u)
    BY <2>3
  <2>5. SumOver(f, t) = f[x] + SumOver(f, u)
    BY <2>2, SumTakesOut
  <2>6. SumOver(f, w) = f[x] + SumOver(f, w \ {x})
    <3>1. \A y \in w : f[y] \in Nat
      OBVIOUS
    <3> HIDE DEF w
    <3> QED BY <2>2, <3>1, SumTakesOut
  <2>7. f[x] \in Nat /\ SumOver(f, u) \in Nat
    BY <1>1
  <2>8. SumOver(f, w) = f[x] + (SumOver(f, S) + SumOver(f, u))
    BY <2>2, <2>4, <2>6
  <2> HIDE DEF u
  <2> QED BY <1>2, <2>5, <2>7, <2>8
<1> HIDE DEF G
<1>5. G = Nat
  BY <1>3, <1>4, EveryNumber DEF G
<1> QED BY <1>1, <1>5 DEF G

\* The sum of two sums.
LEMMA SumPlus ==
  ASSUME NEW f, NEW e, NEW h, NEW S, IsFiniteSet(S),
         \A x \in S : f[x] \in Nat /\ e[x] \in Nat /\ h[x] = f[x] + e[x]
  PROVE  SumOver(h, S) = SumOver(f, S) + SumOver(e, S)
<1> DEFINE G == {n \in Nat : \A s \in SUBSET S : Cardinality(s) = n =>
                   SumOver(h, s) = SumOver(f, s) + SumOver(e, s)}
<1>1. \A s \in SUBSET S : IsFiniteSet(s) /\ Cardinality(s) \in Nat
                          /\ SumOver(f, s) \in Nat /\ SumOver(e, s) \in Nat
  BY FS_Subset, FS_CardinalityType, SumIsNat
<1>2. 0 \in G
  <2>1. \A s \in SUBSET S : Cardinality(s) = 0 => s = {}
    BY <1>1, FS_EmptySet
  <2>2. \A s \in SUBSET S : Cardinality(s) = 0 => SumOver(f, s) = 0 /\ SumOver(e, s) = 0 /\ SumOver(h, s) = 0
    BY <1>1, <2>1, SumSteps
  <2> QED BY <2>2
<1>3. ASSUME NEW n \in G PROVE n + 1 \in G
  <2> SUFFICES ASSUME NEW s \in SUBSET S, Cardinality(s) = n + 1
               PROVE  SumOver(h, s) = SumOver(f, s) + SumOver(e, s)
    OBVIOUS
  <2>1. s # {} /\ IsFiniteSet(s)
    BY <1>1, FS_EmptySet
  <2> DEFINE t == s \ {Picked(s)}
  <2>2. Picked(s) \in S /\ t \in SUBSET S /\ Cardinality(t) = n
    <3>1. Picked(s) \in s /\ Cardinality(t) = Cardinality(s) - 1
      BY <2>1, PickedOut
    <3> QED BY <3>1
  <2>3. /\ SumOver(f, s) = f[Picked(s)] + SumOver(f, t)
        /\ SumOver(e, s) = e[Picked(s)] + SumOver(e, t)
        /\ SumOver(h, s) = h[Picked(s)] + SumOver(h, t)
    BY <2>1, SumSteps
  <2>4. SumOver(h, t) = SumOver(f, t) + SumOver(e, t)
    BY <2>2
  <2>5. SumOver(f, t) \in Nat /\ SumOver(e, t) \in Nat
    BY <1>1, <2>2
  <2>6. f[Picked(s)] \in Nat /\ e[Picked(s)] \in Nat /\ h[Picked(s)] = f[Picked(s)] + e[Picked(s)]
    BY <2>2
  <2> HIDE DEF t
  <2> QED BY <2>3, <2>4, <2>5, <2>6
<1> HIDE DEF G
<1>4. G = Nat
  BY <1>2, <1>3, EveryNumber DEF G
<1> QED BY <1>1, <1>4 DEF G

\* The sum of nothing but zeros.
LEMMA SumOfZeros ==
  ASSUME NEW f, NEW S, IsFiniteSet(S), \A x \in S : f[x] = 0
  PROVE  SumOver(f, S) = 0
<1> DEFINE G == {n \in Nat : \A s \in SUBSET S : Cardinality(s) = n => SumOver(f, s) = 0}
<1>1. \A s \in SUBSET S : IsFiniteSet(s) /\ Cardinality(s) \in Nat
  BY FS_Subset, FS_CardinalityType
<1>2. 0 \in G
  BY <1>1, FS_EmptySet, SumSteps
<1>3. ASSUME NEW n \in G PROVE n + 1 \in G
  <2> SUFFICES ASSUME NEW s \in SUBSET S, Cardinality(s) = n + 1 PROVE SumOver(f, s) = 0
    OBVIOUS
  <2>1. s # {} /\ IsFiniteSet(s)
    BY <1>1, FS_EmptySet
  <2> DEFINE t == s \ {Picked(s)}
  <2>2. Picked(s) \in S /\ t \in SUBSET S /\ Cardinality(t) = n
    BY <2>1, PickedOut
  <2>3. SumOver(f, s) = f[Picked(s)] + SumOver(f, t)
    BY <2>1, SumSteps
  <2>4. SumOver(f, t) = 0
    BY <2>2
  <2> QED BY <2>2, <2>3, <2>4
<1> HIDE DEF G
<1>4. G = Nat
  BY <1>2, <1>3, EveryNumber DEF G
<1> QED BY <1>1, <1>4 DEF G

\* A sum of numbers that are not above a bound is not above so many times the bound.
LEMMA SumBound ==
  ASSUME NEW f, NEW S, IsFiniteSet(S), NEW k \in Nat, \A x \in S : f[x] \in 0..k
  PROVE  SumOver(f, S) <= k * Cardinality(S)
<1> DEFINE G == {n \in Nat : \A s \in SUBSET S : Cardinality(s) = n => SumOver(f, s) <= k * n}
<1>1. \A s \in SUBSET S : IsFiniteSet(s) /\ Cardinality(s) \in Nat /\ SumOver(f, s) \in Nat
  BY FS_Subset, FS_CardinalityType, SumIsNat
<1>2. 0 \in G
  <2>1. k * 0 = 0 /\ 0 <= 0
    OBVIOUS
  <2>2. \A s \in SUBSET S : Cardinality(s) = 0 => s = {}
    BY <1>1, FS_EmptySet
  <2>3. \A s \in SUBSET S : Cardinality(s) = 0 => SumOver(f, s) = 0
    BY <1>1, <2>2, SumSteps
  <2>4. \A s \in SUBSET S : Cardinality(s) = 0 => SumOver(f, s) <= k * 0
    BY <2>1, <2>3
  <2> QED BY <2>4
<1>3. ASSUME NEW n \in G PROVE n + 1 \in G
  <2> SUFFICES ASSUME NEW s \in SUBSET S, Cardinality(s) = n + 1 PROVE SumOver(f, s) <= k * (n + 1)
    OBVIOUS
  <2>1. s # {} /\ IsFiniteSet(s)
    BY <1>1, FS_EmptySet
  <2> DEFINE t == s \ {Picked(s)}
  <2>2. Picked(s) \in S /\ t \in SUBSET S /\ Cardinality(t) = n
    BY <2>1, PickedOut
  <2>3. SumOver(f, s) = f[Picked(s)] + SumOver(f, t)
    BY <2>1, SumSteps
  <2>4. SumOver(f, t) <= k * n /\ SumOver(f, t) \in Nat /\ f[Picked(s)] \in 0..k
    BY <1>1, <2>2
  <2>5. k * (n + 1) = k * n + k /\ k * n \in Nat
    OBVIOUS
  <2> HIDE DEF t
  <2> QED BY <2>3, <2>4, <2>5
<1> HIDE DEF G
<1>4. G = Nat
  BY <1>2, <1>3, EveryNumber DEF G
<1> QED BY <1>1, <1>4 DEF G

\* The sum of one number so many times over.
LEMMA SumOfSame ==
  ASSUME NEW f, NEW S, IsFiniteSet(S), NEW k \in Nat, \A x \in S : f[x] = k
  PROVE  SumOver(f, S) = k * Cardinality(S)
<1> DEFINE G == {n \in Nat : \A s \in SUBSET S : Cardinality(s) = n => SumOver(f, s) = k * n}
<1>1. \A s \in SUBSET S : IsFiniteSet(s) /\ Cardinality(s) \in Nat
  BY FS_Subset, FS_CardinalityType
<1>2. 0 \in G
  <2>1. \A s \in SUBSET S : Cardinality(s) = 0 => SumOver(f, s) = 0
    BY <1>1, FS_EmptySet, SumSteps
  <2>2. k * 0 = 0
    OBVIOUS
  <2> QED BY <2>1, <2>2
<1>3. ASSUME NEW n \in G PROVE n + 1 \in G
  <2> SUFFICES ASSUME NEW s \in SUBSET S, Cardinality(s) = n + 1 PROVE SumOver(f, s) = k * (n + 1)
    OBVIOUS
  <2>1. s # {} /\ IsFiniteSet(s)
    BY <1>1, FS_EmptySet
  <2> DEFINE t == s \ {Picked(s)}
  <2>2. Picked(s) \in S /\ t \in SUBSET S /\ Cardinality(t) = n
    <3>1. Picked(s) \in s /\ Cardinality(t) = Cardinality(s) - 1
      BY <2>1, PickedOut
    <3> QED BY <3>1
  <2>3. SumOver(f, s) = f[Picked(s)] + SumOver(f, t)
    BY <2>1, SumSteps
  <2>4. SumOver(f, t) = k * n /\ f[Picked(s)] = k
    BY <2>2
  <2>5. k * (n + 1) = k * n + k /\ k * n \in Nat
    OBVIOUS
  <2> HIDE DEF t
  <2> QED BY <2>3, <2>4, <2>5
<1> HIDE DEF G
<1>4. G = Nat
  BY <1>2, <1>3, EveryNumber DEF G
<1> QED BY <1>1, <1>4 DEF G

\* The sum of so many ones.
LEMMA SumOfOnes ==
  ASSUME NEW f, NEW S, IsFiniteSet(S), \A x \in S : f[x] = 1
  PROVE  SumOver(f, S) = Cardinality(S)
<1> DEFINE k == 1
           n == Cardinality(S)
<1>1. k \in Nat /\ \A x \in S : f[x] = k
  OBVIOUS
<1>2. n \in Nat
  BY FS_CardinalityType
<1> HIDE DEF k
<1>3. SumOver(f, S) = k * n
  BY <1>1, SumOfSame
<1> HIDE DEF n
<1> QED BY <1>2, <1>3 DEF k, n

\* A sum of numbers none of which is below a bound, and one of which is above it.
LEMMA SumAbove ==
  ASSUME NEW f, NEW S, IsFiniteSet(S), NEW k \in Nat, \A x \in S : f[x] \in Nat /\ k <= f[x],
         NEW y \in S, k < f[y]
  PROVE  k * Cardinality(S) < SumOver(f, S) /\ k * Cardinality(S) \in Nat
<1> DEFINE same == [x \in S |-> k]
           more == [x \in S |-> f[x] - k]
<1>1. \A x \in S : same[x] \in Nat /\ more[x] \in Nat /\ f[x] = same[x] + more[x] /\ same[x] = k
  OBVIOUS
<1>2. more[y] \in Nat \ {0}
  OBVIOUS
<1> HIDE DEF same, more
<1>3. SumOver(f, S) = SumOver(same, S) + SumOver(more, S)
  BY <1>1, SumPlus
<1>4. SumOver(same, S) = k * Cardinality(S)
  BY <1>1, SumOfSame
<1>5. SumOver(more, S) = more[y] + SumOver(more, S \ {y})
  BY <1>1, SumTakesOut
<1>6. SumOver(more, S \ {y}) \in Nat
  <2>1. IsFiniteSet(S \ {y}) /\ \A x \in S \ {y} : more[x] \in Nat
    BY <1>1, FS_RemoveElement
  <2> HIDE DEF same
  <2> QED BY <2>1, SumIsNat
<1>7. SumOver(same, S) \in Nat
  BY <1>1, SumIsNat
<1> QED BY <1>2, <1>3, <1>4, <1>5, <1>6, <1>7

\* The sum over what the elements of a set are renamed to, no two alike.
LEMMA SumAlong ==
  ASSUME NEW S, IsFiniteSet(S), NEW T, NEW h \in [S -> T], \A t \in T : \E x \in S : h[x] = t,
         \A x, y \in S : h[x] = h[y] => x = y,
         NEW f, NEW e, \A x \in S : f[x] \in Nat /\ e[h[x]] = f[x]
  PROVE  IsFiniteSet(T) /\ Cardinality(T) = Cardinality(S) /\ SumOver(e, T) = SumOver(f, S)
<1> DEFINE Image(s) == {h[x] : x \in s}
           Right(s) == /\ IsFiniteSet(Image(s)) /\ Cardinality(Image(s)) = Cardinality(s)
                       /\ SumOver(e, Image(s)) = SumOver(f, s)
           G == {n \in Nat : \A s \in SUBSET S : Cardinality(s) = n => Right(s)}
<1>1. \A s \in SUBSET S : IsFiniteSet(s) /\ Cardinality(s) \in Nat
  BY FS_Subset, FS_CardinalityType
<1>2. 0 \in G
  <2>1. Right({})
    <3>1. Image({}) = {}
      OBVIOUS
    <3> HIDE DEF Image
    <3> QED BY <3>1, FS_EmptySet, SumSteps
  <2>2. \A s \in SUBSET S : Cardinality(s) = 0 => s = {}
    BY <1>1, FS_EmptySet
  <2> HIDE DEF Right
  <2> QED BY <2>1, <2>2
<1>3. ASSUME NEW n \in G PROVE n + 1 \in G
  <2> SUFFICES ASSUME NEW s \in SUBSET S, Cardinality(s) = n + 1 PROVE Right(s)
    OBVIOUS
  <2>1. PICK x \in s : TRUE
    <3>1. n + 1 # 0
      BY <1>3
    <3>2. s # {}
      BY <3>1, FS_EmptySet
    <3> QED BY <3>2
  <2> DEFINE u == s \ {x}
             w == Image(s)
             v == Image(u)
  <2>2. IsFiniteSet(s) /\ IsFiniteSet(u) /\ Cardinality(u) = n /\ u \in SUBSET S
    <3>1. IsFiniteSet(s)
      BY <1>1
    <3>2. IsFiniteSet(u) /\ Cardinality(u) = Cardinality(s) - 1
      BY <3>1, FS_RemoveElement
    <3> QED BY <3>1, <3>2
  <2>3. Right(u)
    <3> HIDE DEF Right
    <3> QED BY <2>2
  <2>4. h[x] \in w /\ w \ {h[x]} = v /\ h[x] \notin v /\ w = v \cup {h[x]}
    OBVIOUS
  <2>5. IsFiniteSet(v) /\ Cardinality(v) = n /\ SumOver(e, v) = SumOver(f, u)
    BY <2>2, <2>3
  <2>6. \A y \in w : e[y] \in Nat
    OBVIOUS
  <2>7. f[x] \in Nat /\ e[h[x]] = f[x]
    OBVIOUS
  <2>8. \A y \in s : f[y] \in Nat
    OBVIOUS
  <2> HIDE DEF w, v, u
  <2>9. IsFiniteSet(w) /\ Cardinality(w) = Cardinality(v) + 1
    <3> DEFINE y == h[x]
    <3>1. y \notin v /\ w = v \cup {y}
      BY <2>4
    <3> HIDE DEF y
    <3>2. IsFiniteSet(v \cup {y}) /\ Cardinality(v \cup {y}) = Cardinality(v) + 1
      BY <2>5, <3>1, FS_AddElement
    <3> QED BY <3>1, <3>2
  <2>10. SumOver(e, w) = e[h[x]] + SumOver(e, w \ {h[x]})
    BY <2>4, <2>6, <2>9, SumTakesOut
  <2>11. SumOver(f, s) = f[x] + SumOver(f, s \ {x})
    BY <2>2, <2>8, SumTakesOut
  <2>12. SumOver(e, w) = SumOver(f, s)
    BY <2>4, <2>5, <2>7, <2>10, <2>11 DEF u
  <2> QED BY <2>5, <2>9, <2>12 DEF w
<1> HIDE DEF G
<1>4. G = Nat
  BY <1>2, <1>3, EveryNumber DEF G
<1>5. Right(S)
  <2> HIDE DEF Right
  <2> QED BY <1>1, <1>4 DEF G
<1>6. Image(S) = T
  OBVIOUS
<1> QED BY <1>5, <1>6

\* What the library's sum of a mapped set comes to, when what is mapped is a function's.
LEMMA MapSumIs ==
  ASSUME NEW f, NEW S, IsFiniteSet(S)
  PROVE  MapThenSumSet(LAMBDA x : f[x], S) = SumOver(f, S)
<1> DEFINE g == CHOOSE h : SumsUp(f, S, h)
<1>1. MapThenSumSet(LAMBDA x : f[x], S) = g[S]
  BY DEF MapThenSumSet, MapThenFoldSet, SumsUp, Partial, Picked
<1>2. \E h : SumsUp(f, S, h)
  BY SumsExist
<1>3. SumsUp(f, S, g)
  BY <1>2
<1>4. PICK h : SumsUp(f, S, h) /\ SumOver(f, S) = h[S]
  BY SumOverSumsUp
<1> HIDE DEF g
<1>5. g[S] = h[S]
  BY <1>3, <1>4, SumsUnique
<1> QED BY <1>1, <1>4, <1>5

\* The number of elements of two sets that share nothing.
LEMMA CountOfBoth ==
  ASSUME NEW S, NEW T, IsFiniteSet(S), IsFiniteSet(T), S \cap T = {}
  PROVE  Cardinality(S \cup T) = Cardinality(S) + Cardinality(T)
<1>1. Cardinality(S \cup T) = Cardinality(S) + Cardinality(T) - Cardinality(S \cap T)
  BY FS_Union
<1>2. Cardinality({}) = 0
  BY FS_EmptySet
<1>3. Cardinality(S \cap T) = 0
  BY <1>2
<1>4. Cardinality(S) \in Nat /\ Cardinality(T) \in Nat
  BY FS_CardinalityType
<1> QED BY <1>1, <1>3, <1>4

-----------------------------------------------------------------------------
(* Sorting.                                                                *)

\* What a total order of a finite set sorts: the place of an element is the number of
\* those before it, and no two have the same.
LEMMA SortedExists ==
  ASSUME NEW S, IsFiniteSet(S), NEW R,
         \A x \in S : <<x, x>> \notin R,
         \A x, y \in S : x # y => <<x, y>> \in R \/ <<y, x>> \in R,
         \A x, y, z \in S : <<x, y>> \in R /\ <<y, z>> \in R => <<x, z>> \in R
  PROVE  \E s \in [1..Cardinality(S) -> S] :
           \A i, j \in 1..Cardinality(S) : i < j => <<s[i], s[j]>> \in R
<1> DEFINE n == Cardinality(S)
           Before(x) == {y \in S : <<y, x>> \in R}
           rank == [x \in S |-> Cardinality(Before(x)) + 1]
<1>1. n \in Nat /\ IsFiniteSet(1..n) /\ Cardinality(1..n) = n
  <2>1. n \in Nat
    BY FS_CardinalityType
  <2> QED BY <2>1, FS_Interval
<1>2. ASSUME NEW x \in S PROVE IsFiniteSet(Before(x)) /\ Cardinality(Before(x)) \in Nat
  BY FS_Subset, FS_CardinalityType
<1>3. rank \in [S -> 1..n]
  <2> SUFFICES ASSUME NEW x \in S PROVE Cardinality(Before(x)) + 1 \in 1..n
    OBVIOUS
  <2>1. IsFiniteSet(S \ {x}) /\ Cardinality(S \ {x}) = n - 1
    BY FS_RemoveElement
  <2>2. Before(x) \in SUBSET (S \ {x})
    OBVIOUS
  <2>3. Cardinality(Before(x)) <= Cardinality(S \ {x})
    <3> HIDE DEF Before
    <3> QED BY <2>1, <2>2, FS_Subset
  <2>4. Cardinality(Before(x)) \in Nat
    BY <1>2
  <2> HIDE DEF Before
  <2> QED BY <1>1, <2>1, <2>3, <2>4
<1>4. ASSUME NEW x \in S, NEW y \in S, <<x, y>> \in R PROVE rank[x] < rank[y]
  <2>1. Before(x) \cup {x} \in SUBSET Before(y) /\ x \notin Before(x)
    BY <1>4
  <2>2. Cardinality(Before(x) \cup {x}) = Cardinality(Before(x)) + 1
    BY <1>2, <2>1, FS_AddElement
  <2>3. Cardinality(Before(x) \cup {x}) <= Cardinality(Before(y))
    BY <1>2, <2>1, FS_Subset
  <2> QED BY <1>2, <2>2, <2>3
<1> HIDE DEF rank
<1>5. \A x, y \in S : rank[x] = rank[y] => x = y
  <2> SUFFICES ASSUME NEW x \in S, NEW y \in S, x # y PROVE rank[x] # rank[y]
    OBVIOUS
  <2>1. rank[x] \in 1..n /\ rank[y] \in 1..n
    BY <1>3
  <2>2. rank[x] < rank[y] \/ rank[y] < rank[x]
    BY <1>4
  <2> QED BY <1>1, <2>1, <2>2
<1>6. rank \in Injection(S, 1..n)
  BY <1>3, <1>5 DEF Injection, IsInjective
<1>7. rank \in Surjection(S, 1..n)
  BY <1>1, <1>6, FS_Injection
<1>8. \A i \in 1..n : \E x \in S : rank[x] = i
  BY <1>7 DEF Surjection
<1> DEFINE s == [i \in 1..n |-> CHOOSE x \in S : rank[x] = i]
<1>9. \A i \in 1..n : s[i] \in S /\ rank[s[i]] = i
  BY <1>8
<1>10. s \in [1..n -> S]
  BY <1>9
<1>11. ASSUME NEW i \in 1..n, NEW j \in 1..n, i < j PROVE <<s[i], s[j]>> \in R
  <2>1. s[i] \in S /\ s[j] \in S /\ s[i] # s[j] /\ ~ (rank[s[j]] < rank[s[i]])
    BY <1>1, <1>9, <1>11
  <2> QED BY <1>4, <2>1
<1> QED BY <1>10, <1>11

-----------------------------------------------------------------------------
(* The least of a finite set, in a weak order: one that no other is before. *)

LEMMA LeastExists ==
  ASSUME NEW S, IsFiniteSet(S), S # {}, NEW R,
         \A x \in S : <<x, x>> \notin R,
         \A x, y \in S : <<x, y>> \in R => <<y, x>> \notin R,
         \A x, y, z \in S : <<y, x>> \notin R /\ <<z, y>> \notin R => <<z, x>> \notin R
  PROVE  \E a \in S : \A b \in S : <<b, a>> \notin R
<1> DEFINE Least(s) == \E a \in s : \A b \in s : <<b, a>> \notin R
           G == {n \in Nat : \A s \in SUBSET S : Cardinality(s) = n => s = {} \/ Least(s)}
<1>1. \A s \in SUBSET S : IsFiniteSet(s) /\ Cardinality(s) \in Nat
  BY FS_Subset, FS_CardinalityType
<1>2. 0 \in G
  BY <1>1, FS_EmptySet
<1>3. ASSUME NEW n \in G PROVE n + 1 \in G
  <2> SUFFICES ASSUME NEW s \in SUBSET S, Cardinality(s) = n + 1, s # {} PROVE Least(s)
    OBVIOUS
  <2>1. PICK x \in s : TRUE
    OBVIOUS
  <2> DEFINE t == s \ {x}
  <2>2. t \in SUBSET S /\ Cardinality(t) = n
    <3>1. IsFiniteSet(s) /\ Cardinality(s \ {x}) = Cardinality(s) - 1
      BY <1>1, <2>1, FS_RemoveElement
    <3> QED BY <3>1
  <2>3. CASE t = {}
    BY <2>1, <2>3
  <2>4. CASE t # {}
    <3>1. PICK a \in t : \A b \in t : <<b, a>> \notin R
      BY <2>2, <2>4
    <3>2. CASE <<x, a>> \in R
      <4>1. \A b \in s : <<b, a>> \notin R \/ b = x
        BY <3>1
      <4>2. \A b \in s : <<b, x>> \notin R
        BY <2>1, <3>1, <3>2, <4>1
      <4> QED BY <2>1, <4>2
    <3>3. CASE <<x, a>> \notin R
      BY <3>1, <3>3
    <3> QED BY <3>2, <3>3
  <2> QED BY <2>3, <2>4
<1> HIDE DEF G
<1>4. G = Nat
  BY <1>2, <1>3, EveryNumber DEF G
<1> QED BY <1>1, <1>4 DEF G

LEMMA MaxIs ==
  ASSUME NEW S, IsFiniteSet(S), S # {}, S \subseteq Int
  PROVE  Max(S) \in S /\ \A x \in S : x <= Max(S)
<1> DEFINE R == {xy \in S \X S : xy[1] > xy[2]}
<1>1. \A x, y \in S : <<x, y>> \in R <=> x > y
  OBVIOUS
<1>2. \A x \in S : x \in Int
  OBVIOUS
<1> HIDE DEF R
<1>3. /\ \A x \in S : <<x, x>> \notin R
      /\ \A x, y \in S : <<x, y>> \in R => <<y, x>> \notin R
      /\ \A x, y, z \in S : <<y, x>> \notin R /\ <<z, y>> \notin R => <<z, x>> \notin R
  <2>1. \A x, y, z \in Int : /\ ~ (x > x) /\ (x > y => ~ (y > x))
                             /\ ~ (y > x) /\ ~ (z > y) => ~ (z > x)
    OBVIOUS
  <2> QED BY <1>1, <1>2, <2>1
<1>4. PICK a \in S : \A b \in S : <<b, a>> \notin R
  BY <1>3, LeastExists
<1>5. \A b \in S : a >= b
  <2>1. \A x, y \in Int : ~ (y > x) => x >= y
    OBVIOUS
  <2> QED BY <1>1, <1>2, <1>4, <2>1
<1>6. Max(S) \in S /\ \A x \in S : Max(S) >= x
  BY <1>4, <1>5 DEF Max
<1>7. \A x, y \in Int : x >= y => y <= x
  OBVIOUS
<1> QED BY <1>2, <1>6, <1>7

LEMMA MinIs ==
  ASSUME NEW S, IsFiniteSet(S), S # {}, S \subseteq Int
  PROVE  Min(S) \in S /\ \A x \in S : Min(S) <= x
<1> DEFINE R == {xy \in S \X S : xy[1] < xy[2]}
<1>1. \A x, y \in S : <<x, y>> \in R <=> x < y
  OBVIOUS
<1>2. \A x \in S : x \in Int
  OBVIOUS
<1> HIDE DEF R
<1>3. /\ \A x \in S : <<x, x>> \notin R
      /\ \A x, y \in S : <<x, y>> \in R => <<y, x>> \notin R
      /\ \A x, y, z \in S : <<y, x>> \notin R /\ <<z, y>> \notin R => <<z, x>> \notin R
  <2>1. \A x, y, z \in Int : /\ ~ (x < x) /\ (x < y => ~ (y < x))
                             /\ ~ (y < x) /\ ~ (z < y) => ~ (z < x)
    OBVIOUS
  <2> QED BY <1>1, <1>2, <2>1
<1>4. PICK a \in S : \A b \in S : <<b, a>> \notin R
  BY <1>3, LeastExists
<1>5. \A b \in S : a =< b
  <2>1. \A x, y \in Int : ~ (y < x) => x =< y
    OBVIOUS
  <2> QED BY <1>1, <1>2, <1>4, <2>1
<1> QED BY <1>4, <1>5 DEF Min

\* What has for each number one as large has a maximum as large.
LEMMA MaxGrows ==
  ASSUME NEW S, IsFiniteSet(S), S # {}, S \subseteq Int,
         NEW T, IsFiniteSet(T), T \subseteq Int,
         \A x \in S : \E y \in T : x <= y
  PROVE  Max(S) <= Max(T)
<1>1. Max(S) \in S
  BY MaxIs
<1>2. PICK y \in T : Max(S) <= y
  BY <1>1
<1>3. T # {}
  BY <1>2
<1>4. Max(T) \in T /\ y <= Max(T)
  BY <1>3, MaxIs
<1>5. Max(S) \in Int /\ y \in Int /\ Max(T) \in Int
  BY <1>1, <1>4
<1> QED BY <1>2, <1>4, <1>5

-----------------------------------------------------------------------------
(* Lists: what they hold. *)

\* What two lists hold one after the other is what the one holds and the other.
LEMMA RangeOfBoth ==
  ASSUME NEW S, NEW s \in Seq(S), NEW t \in Seq(S)
  PROVE  s \o t \in Seq(S) /\ Range(s \o t) = Range(s) \cup Range(t)
<1> DEFINE n == Len(s)
           k == Len(t)
           both == s \o t
<1>1. /\ n \in Nat /\ DOMAIN s = 1..n /\ k \in Nat /\ DOMAIN t = 1..k
      /\ both \in Seq(S) /\ DOMAIN both = 1..(n + k)
  OBVIOUS
<1>2. \A i \in 1..(n + k) : both[i] = IF i <= n THEN s[i] ELSE t[i - n]
  OBVIOUS
<1> HIDE DEF n, k, both
<1>3. ASSUME NEW x \in Range(both) PROVE x \in Range(s) \cup Range(t)
  <2>1. PICK i \in 1..(n + k) : x = both[i]
    BY <1>1 DEF Range
  <2>2. CASE i <= n
    <3>1. x = s[i]
      BY <1>2, <2>1, <2>2
    <3>2. i \in 1..n
      BY <1>1, <2>1, <2>2
    <3> QED BY <1>1, <3>1, <3>2 DEF Range
  <2>3. CASE ~(i <= n)
    <3>1. i - n \in 1..k /\ x = t[i - n]
      BY <1>1, <1>2, <2>1, <2>3
    <3> QED BY <1>1, <3>1 DEF Range
  <2> QED BY <2>2, <2>3
<1>4. ASSUME NEW x \in Range(s) PROVE x \in Range(both)
  <2>1. PICK i \in 1..n : x = s[i]
    BY <1>1 DEF Range
  <2>2. i \in 1..(n + k) /\ i <= n
    BY <1>1
  <2> QED BY <1>1, <1>2, <2>1, <2>2 DEF Range
<1>5. ASSUME NEW x \in Range(t) PROVE x \in Range(both)
  <2>1. PICK i \in 1..k : x = t[i]
    BY <1>1 DEF Range
  <2> DEFINE j == n + i
  <2>2. j \in 1..(n + k) /\ ~(j <= n) /\ j - n = i
    BY <1>1
  <2> HIDE DEF j
  <2>3. both[j] = t[i]
    BY <1>2, <2>2
  <2> QED BY <1>1, <2>1, <2>2, <2>3 DEF Range
<1> QED BY <1>1, <1>3, <1>4, <1>5 DEF both

\* The beginning of a list holds nothing else.
LEMMA RangeOfFront ==
  ASSUME NEW S, NEW s \in Seq(S), NEW n \in Nat, n <= Len(s)
  PROVE  Range(SubSeq(s, 1, n)) \subseteq Range(s)
<1> DEFINE f == SubSeq(s, 1, n)
<1>1. DOMAIN f = 1..n /\ \A i \in 1..n : f[i] = s[i]
  OBVIOUS
<1>2. DOMAIN s = 1..Len(s) /\ Len(s) \in Nat
  OBVIOUS
<1>3. 1..n \subseteq DOMAIN s
  BY <1>2
<1> HIDE DEF f
<1> QED BY <1>1, <1>3 DEF Range, f

\* A list of at most one.
LEMMA RangeOfOne ==
  ASSUME NEW x
  PROVE  Range(<<x>>) = {x} /\ Range(<<>>) = {} /\ <<x>> \in Seq({x}) /\ <<>> \in Seq({x})
<1>1. DOMAIN <<x>> = {1} /\ <<x>>[1] = x
  OBVIOUS
<1>2. DOMAIN <<>> = {}
  OBVIOUS
<1> QED BY <1>1, <1>2 DEF Range

\* A list in a strict order has every element of its set once.
LEMMA OrderedHasAll ==
  ASSUME NEW S, IsFiniteSet(S), NEW R, \A x \in S : <<x, x>> \notin R,
         NEW f \in [1..Cardinality(S) -> S],
         \A i, j \in 1..Cardinality(S) : i < j => <<f[i], f[j]>> \in R
  PROVE  Range(f) = S /\ \A i, j \in 1..Cardinality(S) : f[i] = f[j] => i = j
<1> DEFINE n == Cardinality(S)
<1>1. n \in Nat
  BY FS_CardinalityType
<1>2. \A i, j \in 1..n : i # j => f[i] # f[j]
  <2> SUFFICES ASSUME NEW i \in 1..n, NEW j \in 1..n, i # j, f[i] = f[j] PROVE FALSE
    OBVIOUS
  <2>1. f[i] \in S
    OBVIOUS
  <2> HIDE DEF n
  <2>2. i < j \/ j < i
    BY <1>1
  <2>3. <<f[i], f[j]>> \in R \/ <<f[j], f[i]>> \in R
    BY <2>2 DEF n
  <2> QED BY <2>1, <2>3
<1>3. f \in Injection(1..n, S)
  BY <1>2 DEF Injection, IsInjective
<1>4. IsFiniteSet(1..n) /\ Cardinality(1..n) = n
  <2> HIDE DEF n
  <2> QED BY <1>1, FS_Interval
<1>5. f \in Surjection(1..n, S)
  BY <1>3, <1>4, FS_Injection
<1>6. Range(f) = S
  BY <1>5 DEF Range, Surjection
<1> QED BY <1>2, <1>6

-----------------------------------------------------------------------------
(* The types.                                                              *)

LEMMA InitType == Init => TypeOK
<1> SUFFICES ASSUME Init PROVE TypeOK
    OBVIOUS
<1>1. \A p \in Players : DOMAIN history[p] = {}
      BY DEF Init
<1>2. opts \in Options
      BY TogglesAreOptions DEF Init
<1> QED BY <1>1, <1>2, LastDayIsADay DEF Init, TypeOK

LEMMA NextType == TypeOK /\ [Next]_vars => TypeOK'
<1> SUFFICES ASSUME TypeOK, [Next]_vars PROVE TypeOK'
    OBVIOUS
<1> USE LastDayIsADay
<1>1. ASSUME NEW slot \in Slots, NEW r \in Posted, File(slot[1], slot[2], r) PROVE TypeOK'
  <2> DEFINE p == slot[1]
             z == slot[2]
  <2>1. p \in Players /\ z \in Nat \ {0} /\ slot = <<p, z>>
        BY SlotsArePlayerDays
  <2>2. r \in Result
        BY PostedAreResults
  <2>3. /\ DOMAIN history'[p] = DOMAIN history[p] \cup {z}
        /\ \A y \in DOMAIN history'[p] : history'[p][y] = IF y = z THEN r ELSE history[p][y]
        BY <1>1, <2>1 DEF File, TypeOK, With
  <2>4. \A q \in Players \ {p} : history'[q] = history[q]
        BY <1>1 DEF File, TypeOK
  <2>5. DOMAIN history' = Players /\ UNCHANGED <<now, opts>> /\ WithinWindow(z)
        BY <1>1 DEF File, TypeOK
  <2> QED BY <2>1, <2>2, <2>3, <2>4, <2>5 DEF TypeOK, WithinWindow
<1>2. ASSUME NEW slot \in Slots, Delete(slot[1], slot[2]) PROVE TypeOK'
  <2>1. \A q \in Players : /\ DOMAIN history'[q] \subseteq DOMAIN history[q]
                           /\ \A y \in DOMAIN history'[q] : history'[q][y] = history[q][y]
        BY <1>2 DEF Delete, Restrict, TypeOK
  <2>2. DOMAIN history' = Players /\ UNCHANGED <<now, opts>>
        BY <1>2 DEF Delete, TypeOK
  <2> QED BY <2>1, <2>2 DEF TypeOK, WithinWindow
<1>3. CASE Midnight
  <2>1. \A q \in Players : \A y \in DOMAIN history[q] : y \in Nat /\ y <= now + 1
        BY SlotsArePlayerDays DEF TypeOK, WithinWindow
  <2>2. \A q \in Players : \A y \in DOMAIN history[q] : y <= now' + 1
        BY <1>3, <2>1 DEF Midnight, TypeOK
  <2> QED BY <1>3, <2>2 DEF Midnight, TypeOK, WithinWindow
<1>4. CASE UNCHANGED vars
      BY <1>4 DEF vars, TypeOK, WithinWindow
<1> QED BY <1>1, <1>2, <1>3, <1>4 DEF Next

\* Of every run: the results stored are of puzzles up to tomorrow's, and are
\* results as posted - a failure is never stored as the seven it counts for.
THEOREM TypeCorrect == Spec => []TypeOK
<1> QED BY InitType, NextType, PTL DEF Spec

-----------------------------------------------------------------------------
\* Two tables of the same rows are one when every line of them is, and when as
\* many days are over or under way.
LEMMA SameTable ==
  ASSUME NEW first, NEW end, NEW rows, NEW today, NEW later,
         \A p \in Players : DOMAIN rows[p] # {} =>
           MonthPlayer(p, rows[p], Concluded(first, end, today)) =
             MonthPlayer(p, rows[p], Concluded(first, end, later)),
         ScoreSpan(first, end, rows, today).days = ScoreSpan(first, end, rows, later).days
  PROVE  ScoreSpan(first, end, rows, today) = ScoreSpan(first, end, rows, later)
<1> DEFINE present   == {p \in Players : DOMAIN rows[p] # {}}
           scored(d) == {MonthPlayer(p, rows[p], Concluded(first, end, d)) : p \in present}
<1>1. scored(today) = scored(later)
      OBVIOUS
<1>2. ASSUME NEW d
      PROVE  LET ranked == Table({a \in scored(d) : a.count > 0})
             IN  ScoreSpan(first, end, rows, d) =
                   [days    |-> ScoreSpan(first, end, rows, d).days,
                    ranked  |-> ranked,
                    places  |-> Places(ranked),
                    thin    |-> {a.player : a \in {b \in scored(d) : b.count = 0}},
                    winners |-> {a.player : a \in {b \in Range(ranked) : Level(b, ranked[1])}}]
      BY DEF ScoreSpan
<1> QED BY <1>1, <1>2

\* On the last evening of a month, with everybody in, the days that are over and
\* were missed are those that will have been missed.
LEMMA LastEvening ==
  ASSUME NEW first \in Nat, NEW end \in Nat, first < end, NEW days, end - 1 \in days
  PROVE  Concluded(first, end, end - 1) \ days = Concluded(first, end, end) \ days
BY DEF Concluded, Later, Earlier

LEMMA EarlyIsFinalState == TypeOK => EarlyIsFinal
<1> SUFFICES ASSUME TypeOK, NEW m \in Months,
                    now = m.end - 1, \E p \in Players : now \in DOMAIN Counted(p),
                    \A p \in Players : DOMAIN Rows(m.first, m.end)[p] # {} => now \in DOMAIN Counted(p)
             PROVE  Month(m) = MonthAsOf(m, m.end)
    BY DEF EarlyIsFinal
<1> DEFINE first == m.first
           end   == m.end
           rows  == Rows(first, end)
<1>1. first \in Nat /\ end \in Nat /\ first < end /\ now \in Nat
      BY MonthsAreSpans, LastDayIsADay DEF TypeOK
<1>2. \A p \in Players : DOMAIN rows[p] = {z \in DOMAIN Counted(p) : first <= z /\ z < end}
      BY DEF Rows, RestrictDomain, Restrict
<1>3. ASSUME NEW p \in Players, DOMAIN rows[p] # {}
      PROVE  MonthPlayer(p, rows[p], Concluded(first, end, now)) =
               MonthPlayer(p, rows[p], Concluded(first, end, end))
  <2>1. end - 1 \in DOMAIN rows[p]
        BY <1>1, <1>2, <1>3
  <2> HIDE DEF first, end, rows
  <2>2. Concluded(first, end, end - 1) \ DOMAIN rows[p] = Concluded(first, end, end) \ DOMAIN rows[p]
        BY <1>1, <2>1, LastEvening
  <2>3. now = end - 1
        BY DEF end
  <2> QED BY <2>2, <2>3 DEF MonthPlayer
<1>4. ScoreSpan(first, end, rows, now).days = ScoreSpan(first, end, rows, end).days
  <2>1. now \in first..(end - 1) /\ \E p \in {q \in Players : DOMAIN rows[q] # {}} : now \in DOMAIN rows[p]
        BY <1>1, <1>2
  <2>2. end \notin first..(end - 1)
        BY <1>1
  <2>3. /\ Cardinality(Concluded(first, end, now)) = now - first
        /\ Cardinality(Concluded(first, end, end)) = end - first
    <3>1. /\ Concluded(first, end, now) = first..(end - 2)
          /\ Concluded(first, end, end) = first..(end - 1)
          BY <1>1 DEF Concluded, Later, Earlier
    <3>2. now = end - 1 /\ first \in Int /\ end - 2 \in Int /\ end - 1 \in Int
          BY <1>1
    <3> HIDE DEF first, end
    <3>3. /\ Cardinality(first..(end - 2)) = IF first > end - 2 THEN 0 ELSE end - 2 - first + 1
          /\ Cardinality(first..(end - 1)) = IF first > end - 1 THEN 0 ELSE end - 1 - first + 1
          BY <3>2, FS_Interval, Zenon
    <3> QED BY <1>1, <3>1, <3>2, <3>3
  <2> HIDE DEF rows
  <2>4. ScoreSpan(first, end, rows, now).days = Cardinality(Concluded(first, end, now)) + 1
        BY <2>1 DEF ScoreSpan
  <2>5. ScoreSpan(first, end, rows, end).days = Cardinality(Concluded(first, end, end)) + 0
        BY <2>2 DEF ScoreSpan
  <2> QED BY <1>1, <2>3, <2>4, <2>5
<1> HIDE DEF rows
<1>5. ScoreSpan(first, end, rows, now) = ScoreSpan(first, end, rows, end)
      BY <1>3, <1>4, SameTable
<1> QED BY <1>5 DEF Month, MonthAsOf, rows

\* Of every run: a month announced on its last evening, with everybody in, is the
\* month the pages show then and the one that stands when it is over.
THEOREM EarlyIsFinalHolds == Spec => []EarlyIsFinal
<1> QED BY TypeCorrect, EarlyIsFinalState, PTL

-----------------------------------------------------------------------------
\* A finished month is scored alike on every later day.
LEMMA FinishedAlike ==
  ASSUME NEW m \in Months, NEW today \in Int, NEW later \in Int, m.end <= today, m.end <= later
  PROVE  /\ Concluded(m.first, m.end, today) = Concluded(m.first, m.end, later)
         /\ today \notin m.first..(m.end - 1) /\ later \notin m.first..(m.end - 1)
BY MonthsAreSpans DEF Concluded, Later, Earlier

LEMMA LeadersEndState == TypeOK => LeadersEndWithWinners
<1> SUFFICES ASSUME TypeOK, NEW m \in Months, Complete(m)
             PROVE  /\ Month(m).days = m.end - m.first
                    /\ DayLeaders(m)[Month(m).days] = Month(m).winners
    BY DEF LeadersEndWithWinners
<1> DEFINE first == m.first
           end   == m.end
           rows  == Rows(first, end)
<1>1. first \in Nat /\ end \in Nat /\ first < end /\ now \in Int /\ end <= now
      BY MonthsAreSpans, LastDayIsADay DEF TypeOK, Complete
<1>2. /\ Concluded(first, end, now) = Concluded(first, end, end)
      /\ now \notin first..(end - 1) /\ end \notin first..(end - 1)
      BY <1>1, FinishedAlike
<1> HIDE DEF first, end, rows
<1>3. ASSUME NEW d \in {now, end} PROVE ScoreSpan(first, end, rows, d).days = end - first
  <2>1. Concluded(first, end, d) = first..(end - 1)
        BY <1>1, <1>2 DEF Concluded, Later, Earlier
  <2>2. Cardinality(first..(end - 1)) = IF first > end - 1 THEN 0 ELSE end - 1 - first + 1
    <3>1. first \in Int /\ end - 1 \in Int
          BY <1>1
    <3> QED BY <3>1, FS_Interval, Zenon
  <2>3. ScoreSpan(first, end, rows, d).days = Cardinality(Concluded(first, end, d)) + 0
        BY <1>2 DEF ScoreSpan
  <2> QED BY <1>1, <2>1, <2>2, <2>3
<1>4. ScoreSpan(first, end, rows, now) = ScoreSpan(first, end, rows, end)
      BY <1>2, <1>3, SameTable
<1>5. Month(m) = ScoreSpan(first, end, rows, now)
      BY DEF Month, MonthAsOf, first, end, rows
<1>6. Month(m).days = end - first /\ end - first \in 1..(end - first) /\ first + (end - first) = end
      BY <1>1, <1>3, <1>5
<1>7. Earlier(end, now) = end
      BY <1>1 DEF Earlier
<1>8. DayLeaders(m)[end - first] =
        ScoreSpan(first, first + (end - first), Rows(first, first + (end - first)),
                  Earlier(first + (end - first), now)).winners
      BY <1>6 DEF DayLeaders, first
<1>9. DayLeaders(m)[end - first] = Month(m).winners
      BY <1>4, <1>5, <1>6, <1>7, <1>8 DEF rows
<1> QED BY <1>6, <1>9 DEF first, end

\* Of every run: the last of a finished month's day leaders are its winners.
THEOREM LeadersEndWithWinnersHolds == Spec => []LeadersEndWithWinners
<1> QED BY TypeCorrect, LeadersEndState, PTL

\* A step that leaves the toggles and a finished month's rows alone leaves the
\* table of the month alone.
LEMMA FinishedStep ==
  ASSUME NEW m \in Months, TypeOK, TypeOK', opts' = opts,
         Complete(m), Complete(m)', Rows(m.first, m.end)' = Rows(m.first, m.end)
  PROVE  Month(m)' = Month(m)
<1> DEFINE first == m.first
           end   == m.end
           rows  == Rows(first, end)
<1>1. /\ Concluded(first, end, now) = Concluded(first, end, now')
      /\ now \notin first..(end - 1) /\ now' \notin first..(end - 1)
      BY FinishedAlike, LastDayIsADay DEF TypeOK, Complete
<1>2. ASSUME NEW p, NEW results, NEW days
      PROVE  MonthPlayer(p, results, days)' = MonthPlayer(p, results, days)
      BY DEF MonthPlayer, Counts, Solved
<1> QED BY <1>1, <1>2 DEF Month, MonthAsOf, ScoreSpan

LEMMA TitlesStandStep == TypeOK /\ TypeOK' /\ [Next]_vars =>
  \A m \in Months :
    (/\ Complete(m)' = Complete(m)
     /\ Complete(m) => Rows(m.first, m.end)' = Rows(m.first, m.end))
      => Titles(m)' = Titles(m)
<1> SUFFICES ASSUME TypeOK, TypeOK', [Next]_vars, NEW m \in Months,
                    Complete(m)' = Complete(m),
                    Complete(m) => Rows(m.first, m.end)' = Rows(m.first, m.end)
             PROVE  Titles(m)' = Titles(m)
    OBVIOUS
<1>1. opts' = opts
      BY DEF Next, File, Delete, Midnight, vars
<1>2. CASE Complete(m)
      BY <1>1, <1>2, FinishedStep DEF Titles
<1>3. CASE ~Complete(m)
      BY <1>3 DEF Titles
<1> QED BY <1>2, <1>3

\* Of every run: a title changes hands only when its month ends or one of the
\* results of the finished month is touched.
THEOREM TitlesStandHolds == Spec => TitlesStand
<1>1. TypeOK /\ TypeOK' /\ [Next]_vars => [\A m \in Months :
       (/\ Complete(m)' = Complete(m)
        /\ Complete(m) => Rows(m.first, m.end)' = Rows(m.first, m.end))
         => Titles(m)' = Titles(m)]_vars
      BY TitlesStandStep
<1> QED BY <1>1, TypeCorrect, PTL DEF Spec, TitlesStand

-----------------------------------------------------------------------------
(* The order of a table.  An average is a quotient and is compared by the  *)
(* products, so that its transitivity is one of multiplication.            *)

\* Products grow with their factors.
LEMMA Times ==
  ASSUME NEW a \in Nat, NEW b \in Nat, NEW c \in Nat \ {0}
  PROVE  /\ a <= b <=> a * c <= b * c
         /\ a < b <=> a * c < b * c
         /\ a * c \in Nat /\ b * c \in Nat
OBVIOUS

\* Of three quotients, the first is not above the last when neither is above the one
\* between them, and is below it when one of the two steps goes up.
LEMMA Quotients ==
  ASSUME NEW p \in Nat, NEW q \in Nat, NEW r \in Nat,
         NEW x \in Nat \ {0}, NEW y \in Nat \ {0}, NEW z \in Nat \ {0},
         p * y <= q * x, q * z <= r * y
  PROVE  /\ p * z <= r * x
         /\ (p * y < q * x \/ q * z < r * y) => p * z < r * x
<1>1. (p * y) * z = (p * z) * y /\ (q * x) * z = (q * z) * x /\ (r * y) * x = (r * x) * y
  OBVIOUS
<1>2. /\ p * y \in Nat /\ q * x \in Nat /\ q * z \in Nat /\ r * y \in Nat /\ p * z \in Nat /\ r * x \in Nat
      /\ (p * y) * z \in Nat /\ (q * x) * z \in Nat /\ (r * y) * x \in Nat
  OBVIOUS
<1>3. (p * y) * z <= (q * x) * z /\ (p * y < q * x => (p * y) * z < (q * x) * z)
  BY <1>2, Times
<1>4. (q * z) * x <= (r * y) * x /\ (q * z < r * y => (q * z) * x < (r * y) * x)
  BY <1>2, Times
<1>5. (p * z) * y <= (r * x) * y /\ ((p * y < q * x \/ q * z < r * y) => (p * z) * y < (r * x) * y)
  BY <1>1, <1>2, <1>3, <1>4
<1> QED BY <1>2, <1>5, Times

\* A line that has a place in a table.
Lines == [player : Int, games : Nat, missed : Nat, sum : Nat, count : Nat \ {0}]

\* By average, the lines are in a weak order.
LEMMA LowerOrders ==
  ASSUME NEW a \in Lines, NEW b \in Lines, NEW c \in Lines
  PROVE  /\ ~ Lower(a, a)
         /\ Lower(a, b) => ~ Lower(b, a)
         /\ ~ Lower(b, a) /\ ~ Lower(c, b) => ~ Lower(c, a)
         /\ Lower(a, b) /\ ~ Lower(c, b) => Lower(a, c)
         /\ ~ Lower(b, a) /\ Lower(b, c) => Lower(a, c)
<1>1. /\ a.sum \in Nat /\ b.sum \in Nat /\ c.sum \in Nat
      /\ a.count \in Nat \ {0} /\ b.count \in Nat \ {0} /\ c.count \in Nat \ {0}
  BY DEF Lines
<1>2. \A s, t \in {a, b, c} : /\ s.sum * t.count \in Nat
                              /\ Lower(s, t) <=> s.sum * t.count < t.sum * s.count
                              /\ ~ Lower(t, s) <=> s.sum * t.count <= t.sum * s.count
  BY <1>1 DEF Lower
<1>3. ~ Lower(a, a) /\ (Lower(a, b) => ~ Lower(b, a))
  BY <1>2
<1>4. CASE ~ Lower(b, a) /\ ~ Lower(c, b)
  <2>1. a.sum * b.count <= b.sum * a.count /\ b.sum * c.count <= c.sum * b.count
    BY <1>2, <1>4
  <2>2. a.sum * c.count <= c.sum * a.count
        /\ ((a.sum * b.count < b.sum * a.count \/ b.sum * c.count < c.sum * b.count)
              => a.sum * c.count < c.sum * a.count)
    BY <1>1, <2>1, Quotients
  <2> QED BY <1>2, <1>3, <2>2
<1> QED BY <1>3, <1>4, <1>2

\* The order of a table is total: level lines differ in games or in player.
AboveOf(lines) == {ab \in lines \X lines : Above(ab[1], ab[2])}

LEMMA AboveOrders ==
  ASSUME NEW lines \in SUBSET Lines, \A a, b \in lines : a.player = b.player => a = b
  PROVE  LET R == AboveOf(lines)
         IN  /\ \A a, b \in lines : <<a, b>> \in R <=> Above(a, b)
             /\ \A a \in lines : <<a, a>> \notin R
             /\ \A a, b \in lines : a # b => <<a, b>> \in R \/ <<b, a>> \in R
             /\ \A a, b, c \in lines : <<a, b>> \in R /\ <<b, c>> \in R => <<a, c>> \in R
<1>1. \A a, b \in lines : <<a, b>> \in AboveOf(lines) <=> Above(a, b)
  BY DEF AboveOf
<1>2. \A a \in lines : a.player \in Int /\ a.games \in Nat
  BY DEF Lines
<1>3. \A a \in lines : ~ Above(a, a)
  BY <1>2, LowerOrders DEF Above, Level
<1>4. ASSUME NEW a \in lines, NEW b \in lines, a # b PROVE Above(a, b) \/ Above(b, a)
  <2>1. a.player # b.player
    BY <1>4
  <2> QED BY <1>2, <2>1 DEF Above, Level
<1>5. ASSUME NEW a \in lines, NEW b \in lines, NEW c \in lines, Above(a, b), Above(b, c)
      PROVE  Above(a, c)
  <2>1. ~ Lower(b, a) /\ ~ Lower(c, b)
    BY <1>5, LowerOrders DEF Above, Level
  <2>2. CASE Lower(a, b) \/ Lower(b, c)
    BY <2>1, <2>2, LowerOrders DEF Above
  <2>3. CASE Level(a, b) /\ Level(b, c)
    <3>1. Level(a, c)
      BY <2>3, LowerOrders DEF Level
    <3>2. ~ Lower(a, b) /\ ~ Lower(b, c)
      BY <2>3 DEF Level
    <3> QED BY <1>2, <1>5, <3>1, <3>2 DEF Above
  <2> QED BY <1>5, <2>2, <2>3 DEF Above
<1> QED BY <1>1, <1>3, <1>4, <1>5

\* So a table can be sorted: each line is in it once, above those after it.
LEMMA TableSorts ==
  ASSUME NEW lines \in SUBSET Lines, IsFiniteSet(lines),
         \A a, b \in lines : a.player = b.player => a = b
  PROVE  /\ Table(lines) \in [1..Cardinality(lines) -> lines]
         /\ \A i, j \in 1..Cardinality(lines) : i < j => Above(Table(lines)[i], Table(lines)[j])
<1> DEFINE n == Cardinality(lines)
<1>1. PICK s \in [1..n -> lines] : \A i, j \in 1..n : i < j => <<s[i], s[j]>> \in AboveOf(lines)
  <2> HIDE DEF n
  <2> DEFINE R == AboveOf(lines)
  <2>1. /\ \A a \in lines : <<a, a>> \notin R
        /\ \A a, b \in lines : a # b => <<a, b>> \in R \/ <<b, a>> \in R
        /\ \A a, b, c \in lines : <<a, b>> \in R /\ <<b, c>> \in R => <<a, c>> \in R
    BY AboveOrders
  <2> HIDE DEF R
  <2>2. \E s \in [1..Cardinality(lines) -> lines] :
           \A i, j \in 1..Cardinality(lines) : i < j => <<s[i], s[j]>> \in R
    BY <2>1, SortedExists
  <2> QED BY <2>2 DEF n, R
<1>2. DOMAIN s = 1..n /\ \A i, j \in DOMAIN s : i < j => Above(s[i], s[j])
  BY <1>1, AboveOrders
<1> DEFINE t == CHOOSE t \in [1..n -> lines] : \A i, j \in DOMAIN t : i < j => Above(t[i], t[j])
<1>3. t \in [1..n -> lines] /\ \A i, j \in DOMAIN t : i < j => Above(t[i], t[j])
  BY <1>2
<1>4. Table(lines) = t
  BY DEF Table, InOrder
<1> QED BY <1>3, <1>4

-----------------------------------------------------------------------------
(* Places.                                                                 *)

\* The lines of a sorted table that are strictly better than one of them.
Better(ranked, i) == {j \in DOMAIN ranked : Lower(ranked[j], ranked[i])}

Sorted(ranked, n) ==
  /\ n \in Nat /\ ranked \in [1..n -> Lines]
  /\ \A i, j \in 1..n : i < j => Above(ranked[i], ranked[j])

\* In a sorted table, a line level with the one before it has the same better lines, and
\* any other has all before it.
LEMMA BetterLines ==
  ASSUME NEW ranked, NEW n, Sorted(ranked, n), NEW i \in 1..n
  PROVE  /\ i > 1 /\ Level(ranked[i], ranked[i - 1]) => Better(ranked, i) = Better(ranked, i - 1)
         /\ ~(i > 1 /\ Level(ranked[i], ranked[i - 1])) => Better(ranked, i) = 1..(i - 1)
<1>1. n \in Nat /\ DOMAIN ranked = 1..n /\ \A j \in 1..n : ranked[j] \in Lines
  BY DEF Sorted
<1>2. \A j, k \in 1..n : j < k => ~ Lower(ranked[k], ranked[j])
  <2> SUFFICES ASSUME NEW j \in 1..n, NEW k \in 1..n, j < k PROVE ~ Lower(ranked[k], ranked[j])
    OBVIOUS
  <2>1. Above(ranked[j], ranked[k]) /\ ranked[j] \in Lines /\ ranked[k] \in Lines
    BY <1>1 DEF Sorted
  <2> QED BY <2>1, LowerOrders DEF Above, Level
<1>3. CASE i > 1 /\ Level(ranked[i], ranked[i - 1])
  <2>1. i - 1 \in 1..n
    BY <1>1, <1>3
  <2>2. ASSUME NEW j \in 1..n PROVE Lower(ranked[j], ranked[i]) <=> Lower(ranked[j], ranked[i - 1])
    <3>1. ranked[j] \in Lines /\ ranked[i] \in Lines /\ ranked[i - 1] \in Lines
      BY <1>1, <2>1
    <3> QED BY <1>3, <3>1, LowerOrders DEF Level
  <2> QED BY <1>1, <1>3, <2>2 DEF Better
<1>4. CASE ~(i > 1 /\ Level(ranked[i], ranked[i - 1]))
  <2>1. ASSUME NEW j \in 1..n, j < i PROVE Lower(ranked[j], ranked[i])
    <3>1. i > 1 /\ i - 1 \in 1..n /\ (j = i - 1 \/ j < i - 1)
      BY <1>1, <2>1
    <3>2. ranked[j] \in Lines /\ ranked[i] \in Lines /\ ranked[i - 1] \in Lines
      BY <1>1, <3>1
    <3>3. Lower(ranked[i - 1], ranked[i])
      BY <1>2, <1>4, <3>1 DEF Level
    <3>4. j < i - 1 => ~ Lower(ranked[i - 1], ranked[j])
      BY <1>2, <3>1
    <3> QED BY <3>1, <3>2, <3>3, <3>4, LowerOrders
  <2>2. ASSUME NEW j \in 1..n, ~(j < i) PROVE ~ Lower(ranked[j], ranked[i])
    <3>1. CASE j = i
      BY <1>1, <3>1, LowerOrders
    <3>2. CASE j # i
      BY <1>2, <2>2, <3>2
    <3> QED BY <3>1, <3>2
  <2>3. \A j \in 1..n : j \in Better(ranked, i) <=> j < i
    BY <1>1, <2>1, <2>2 DEF Better
  <2>4. Better(ranked, i) \subseteq 1..n
    BY <1>1 DEF Better
  <2>5. ASSUME NEW j \in Better(ranked, i) PROVE j \in 1..(i - 1)
    BY <1>1, <2>3, <2>4
  <2>6. ASSUME NEW j \in 1..(i - 1) PROVE j \in Better(ranked, i)
    BY <1>1, <2>3
  <2> QED BY <1>4, <2>5, <2>6
<1> QED BY <1>3, <1>4

\* The pass over a sorted table gives each line one more than the number of better lines,
\* and so does the pass over what is level where the lines are.
LEMMA PlacesOfLevels ==
  ASSUME NEW ranked, NEW n, Sorted(ranked, n), NEW averages, DOMAIN averages = 1..n,
         \A i, j \in 1..n : Level(averages[i], averages[j]) <=> Level(ranked[i], ranked[j])
  PROVE  /\ DOMAIN Places(averages) = 1..n
         /\ \A i \in 1..n : Places(averages)[i] = 1 + Cardinality(Better(ranked, i))
<1> DEFINE Next1(i, place) ==
             IF i > 1 /\ Level(averages[i], averages[i - 1]) THEN place[i - 1] ELSE i
           Passes(place) == place = [i \in DOMAIN averages |-> Next1(i, place)]
           f == [i \in 1..n |-> 1 + Cardinality(Better(ranked, i))]
           g == CHOOSE place : Passes(place)
<1>1. n \in Nat /\ DOMAIN ranked = 1..n
  BY DEF Sorted
<1>2. ASSUME NEW i \in 1..n PROVE f[i] = Next1(i, f)
  <2> i - 1 \in 1..n \/ ~ (i > 1)
    BY <1>1
  <2>1. CASE i > 1 /\ Level(averages[i], averages[i - 1])
    <3>1. i - 1 \in 1..n /\ Better(ranked, i) = Better(ranked, i - 1)
      BY <1>1, <2>1, BetterLines
    <3> QED BY <2>1, <3>1
  <2>2. CASE ~(i > 1 /\ Level(averages[i], averages[i - 1]))
    <3>1. Better(ranked, i) = 1..(i - 1)
      BY <2>2, BetterLines
    <3>2. Cardinality(1..(i - 1)) = i - 1
      <4>1. i - 1 \in Nat
        BY <1>1
      <4> QED BY <4>1, FS_Interval
    <3>3. f[i] = i
      BY <1>1, <3>1, <3>2
    <3> HIDE DEF f
    <3> QED BY <2>2, <3>3
  <2> QED BY <2>1, <2>2
<1>3. Passes(f)
  BY <1>1, <1>2
<1>4. Passes(g)
  <2> HIDE DEF Passes, f
  <2> QED BY <1>3
<1>5. Places(averages) = g
  BY DEF Places
<1>11. DOMAIN g = 1..n
  BY <1>4
<1> HIDE DEF f, g
<1>6. \A i \in 1..n : g[i] = Next1(i, g) /\ f[i] = Next1(i, f)
  BY <1>1, <1>2, <1>4
<1> DEFINE G == {k \in Nat : k + 1 \in 1..n => g[k + 1] = f[k + 1]}
<1>7. 0 \in G
  BY <1>6
<1>8. ASSUME NEW k \in G PROVE k + 1 \in G
  <2> SUFFICES ASSUME k + 1 + 1 \in 1..n PROVE g[k + 1 + 1] = f[k + 1 + 1]
    OBVIOUS
  <2>1. k + 1 \in 1..n /\ (k + 1 + 1) - 1 = k + 1
    BY <1>1
  <2>2. g[k + 1] = f[k + 1]
    BY <2>1
  <2> QED BY <1>6, <2>1, <2>2
<1> HIDE DEF G
<1>9. G = Nat
  BY <1>7, <1>8, EveryNumber DEF G
<1>10. ASSUME NEW i \in 1..n PROVE g[i] = f[i]
  <2>1. i - 1 \in Nat /\ (i - 1) + 1 = i
    BY <1>1
  <2> QED BY <1>9, <2>1 DEF G
<1> QED BY <1>5, <1>10, <1>11 DEF f

LEMMA PlacesAreEarned ==
  ASSUME NEW ranked, NEW n, Sorted(ranked, n)
  PROVE  \A i \in 1..n : Places(ranked)[i] = 1 + Cardinality(Better(ranked, i))
<1>1. DOMAIN ranked = 1..n
  BY DEF Sorted
<1> QED BY <1>1, PlacesOfLevels

\* The first place goes to those level with the first line.
LEMMA FirstPlace ==
  ASSUME NEW ranked, NEW n, Sorted(ranked, n)
  PROVE  \A i \in 1..n : Level(ranked[i], ranked[1]) <=> Places(ranked)[i] = 1
<1>1. n \in Nat /\ DOMAIN ranked = 1..n /\ \A j \in 1..n : ranked[j] \in Lines
  BY DEF Sorted
<1>2. ASSUME NEW i \in 1..n PROVE Level(ranked[i], ranked[1]) <=> Places(ranked)[i] = 1
  <2>1. IsFiniteSet(Better(ranked, i))
    BY <1>1, FS_Interval, FS_Subset DEF Better
  <2>2. Places(ranked)[i] = 1 <=> Better(ranked, i) = {}
    BY <2>1, PlacesAreEarned, FS_EmptySet, FS_CardinalityType
  <2>3. 1 \in 1..n /\ ranked[1] \in Lines /\ ranked[i] \in Lines
    BY <1>1
  <2>4. ~ Lower(ranked[i], ranked[1])
    <3>1. CASE i = 1
      BY <2>3, <3>1, LowerOrders
    <3>2. CASE i # 1
      BY <1>1, <2>3, <3>2, LowerOrders DEF Sorted, Above, Level
    <3> QED BY <3>1, <3>2
  <2>5. ASSUME NEW j \in 1..n, Lower(ranked[j], ranked[i]) PROVE Lower(ranked[1], ranked[i])
    <3>1. CASE j = 1
      BY <2>5, <3>1
    <3>2. CASE j # 1
      <4>1. Above(ranked[1], ranked[j]) /\ ranked[j] \in Lines
        BY <1>1, <2>3, <3>2 DEF Sorted
      <4> QED BY <2>3, <2>5, <4>1, LowerOrders DEF Above, Level
    <3> QED BY <3>1, <3>2
  <2> QED BY <1>1, <2>2, <2>3, <2>4, <2>5 DEF Level, Better
<1> QED BY <1>2

LEMMA FirstPlaces ==
  ASSUME NEW ranked, NEW n, Sorted(ranked, n)
  PROVE  {b \in Range(ranked) : Level(b, ranked[1])} =
           {ranked[i] : i \in {j \in 1..n : Places(ranked)[j] = 1}}
<1>1. DOMAIN ranked = 1..n
  BY DEF Sorted
<1> QED BY <1>1, FirstPlace DEF Range

-----------------------------------------------------------------------------
(* The lines of a month have their types.                                  *)

\* The total of a span is a sum of natural numbers.
LEMMA TotalIsSum ==
  ASSUME NEW results, NEW days, IsFiniteSet(days)
  PROVE  Total(results, days) = SumOver([z \in days |-> Value(results[z])], days)
<1> DEFINE f == [z \in days |-> Value(results[z])]
           Folds(g) == g = [s \in SUBSET days |->
                              IF s = {} THEN 0
                              ELSE Value(results[CHOOSE x \in s : TRUE]) + g[s \ {CHOOSE x \in s : TRUE}]]
           g == CHOOSE h : Folds(h)
<1>1. Total(results, days) = g[days]
  BY DEF Total, MapThenSumSet, MapThenFoldSet
<1>2. ASSUME NEW h PROVE SumsUp(f, days, h) <=> Folds(h)
  <2>1. ASSUME NEW s \in SUBSET days
        PROVE  Partial(f, s, h) = IF s = {} THEN 0
                 ELSE Value(results[CHOOSE x \in s : TRUE]) + h[s \ {CHOOSE x \in s : TRUE}]
    <3>1. CASE s = {}
      BY <3>1 DEF Partial
    <3>2. CASE s # {}
      <4>1. (CHOOSE x \in s : TRUE) \in s
        BY <3>2
      <4>2. f[CHOOSE x \in s : TRUE] = Value(results[CHOOSE x \in s : TRUE])
        BY <4>1
      <4> HIDE DEF f
      <4> QED BY <3>2, <4>2 DEF Partial, Picked
    <3> QED BY <3>1, <3>2
  <2> HIDE DEF f
  <2> QED BY <2>1 DEF SumsUp
<1>3. \E h : SumsUp(f, days, h)
  <2> HIDE DEF f
  <2> QED BY SumsExist
<1>4. \E h : Folds(h)
  <2> HIDE DEF Folds, f
  <2> QED BY <1>2, <1>3
<1>5. Folds(g)
  <2> HIDE DEF Folds
  <2> QED BY <1>4
<1>6. SumsUp(f, days, g)
  <2> HIDE DEF Folds, f, g
  <2> QED BY <1>2, <1>5
<1>7. PICK h : SumsUp(f, days, h) /\ SumOver(f, days) = h[days]
  <2> HIDE DEF f
  <2> QED BY SumOverSumsUp
<1>8. g[days] = h[days]
  <2> HIDE DEF f, g
  <2> QED BY <1>6, <1>7, SumsUnique
<1> QED BY <1>1, <1>7, <1>8

\* Only so many days of a player have a result.
LEMMA FewResults ==
  ASSUME TypeOK, NEW p \in Players
  PROVE  /\ DOMAIN history[p] \subseteq 1..(now + 1) /\ IsFiniteSet(DOMAIN history[p])
         /\ DOMAIN Counted(p) \subseteq DOMAIN history[p]
         /\ \A z \in DOMAIN Counted(p) : Counted(p)[z] \in Result
<1>1. now \in Nat
  BY LastDayIsADay DEF TypeOK
<1>2. ASSUME NEW z \in DOMAIN history[p] PROVE z \in 1..(now + 1)
  <2>1. <<p, z>> \in Slots /\ z <= now + 1
    BY DEF TypeOK, WithinWindow
  <2>2. z \in Nat \ {0}
    BY <2>1, SlotsArePlayerDays
  <2> QED BY <1>1, <2>1, <2>2
<1>3. IsFiniteSet(1..(now + 1))
  BY <1>1, FS_Interval
<1>4. IsFiniteSet(DOMAIN history[p])
  BY <1>2, <1>3, FS_Subset
<1>5. DOMAIN Counted(p) \subseteq DOMAIN history[p] /\ \A z \in DOMAIN Counted(p) : Counted(p)[z] \in Result
  BY DEF Counted, FilterHardMode, RestrictValues, Restrict, TypeOK
<1> QED BY <1>2, <1>4, <1>5

\* The line of a player with results.
LEMMA MonthPlayerLine ==
  ASSUME NEW p \in Int, NEW results, IsFiniteSet(DOMAIN results),
         \A z \in DOMAIN results : results[z] \in Result,
         NEW concluded, IsFiniteSet(concluded)
  PROVE  LET a == MonthPlayer(p, results, concluded)
         IN  /\ a.player = p /\ a.games \in Nat /\ a.missed \in Nat /\ a.sum \in Nat /\ a.count \in Nat
             /\ a.count > 0 => a \in Lines
<1> DEFINE counted == {z \in DOMAIN results : Counts(results[z])}
           missed  == Cardinality(concluded \ DOMAIN results)
<1>1. IsFiniteSet(counted) /\ Cardinality(counted) \in Nat /\ Cardinality(DOMAIN results) \in Nat
  BY FS_Subset, FS_CardinalityType
<1>2. missed \in Nat
  <2>1. IsFiniteSet(concluded \ DOMAIN results)
    BY FS_Subset
  <2> QED BY <2>1, FS_CardinalityType
<1>3. Total(results, counted) \in Nat
  <2> DEFINE f == [z \in counted |-> Value(results[z])]
  <2>1. \A z \in counted : f[z] \in Nat
    BY DEF Value, FailedAsSeven, Result
  <2>2. Total(results, counted) = SumOver(f, counted)
    <3> HIDE DEF counted
    <3> QED BY <1>1, TotalIsSum
  <2> HIDE DEF f, counted
  <2> QED BY <1>1, <2>1, <2>2, SumIsNat
<1> HIDE DEF counted, missed
<1>4. MonthPlayer(p, results, concluded) =
        [player |-> p, games |-> Cardinality(DOMAIN results), missed |-> missed,
         sum |-> Total(results, counted) + FailedAsSeven * missed,
         count |-> Cardinality(counted) + missed]
  BY DEF MonthPlayer, counted, missed
<1>5. FailedAsSeven * missed \in Nat
  BY <1>2 DEF FailedAsSeven
<1> QED BY <1>1, <1>2, <1>3, <1>4, <1>5 DEF Lines

-----------------------------------------------------------------------------
\* The days of a span that are over are so many.
LEMMA ConcludedFinite ==
  ASSUME NEW first \in Nat, NEW end \in Nat, NEW today \in Nat
  PROVE  IsFiniteSet(Concluded(first, end, today))
<1>1. Concluded(first, end, today) \subseteq 0..(first + end + today)
  BY DEF Concluded, Later, Earlier
<1>2. IsFiniteSet(0..(first + end + today))
  BY FS_Interval
<1> QED BY <1>1, <1>2, FS_Subset

\* The places and winners of any span of results.
LEMMA SpanIsEarned ==
  ASSUME NEW first, NEW end, NEW today, NEW rows, IsFiniteSet(Concluded(first, end, today)),
         \A p \in Players : /\ IsFiniteSet(DOMAIN rows[p])
                            /\ \A z \in DOMAIN rows[p] : rows[p][z] \in Result
  PROVE  LET span   == ScoreSpan(first, end, rows, today)
             ranked == span.ranked
         IN  /\ \A i \in DOMAIN ranked : span.places[i] =
                  1 + Cardinality({j \in DOMAIN ranked : Lower(ranked[j], ranked[i])})
             /\ span.winners = {ranked[i].player : i \in {j \in DOMAIN ranked : span.places[j] = 1}}
<1> DEFINE concluded == Concluded(first, end, today)
           present   == {p \in Players : DOMAIN rows[p] # {}}
           line(p)   == MonthPlayer(p, rows[p], concluded)
           scored    == {line(p) : p \in present}
           lines     == {a \in scored : a.count > 0}
           ranked    == Table(lines)
           n         == Cardinality(lines)
           span      == ScoreSpan(first, end, rows, today)
<1>1. \A p \in present : line(p).player = p /\ (line(p).count > 0 => line(p) \in Lines)
  BY MonthPlayerLine, PlayersAreNumbered
<1>2. lines \in SUBSET Lines /\ \A a, b \in lines : a.player = b.player => a = b
  BY <1>1
<1>3. IsFiniteSet(lines) /\ n \in Nat
  <2>1. IsFiniteSet(present)
    BY PlayersAreNumbered, FS_Subset
  <2> DEFINE f == [p \in present |-> line(p)]
  <2>2. f \in Surjection(present, scored)
    BY DEF Surjection
  <2>3. IsFiniteSet(scored)
    <3> HIDE DEF f, present, scored
    <3> QED BY <2>1, <2>2, FS_Surjection
  <2>4. lines \in SUBSET scored
    OBVIOUS
  <2> HIDE DEF lines, scored
  <2> QED BY <2>3, <2>4, FS_Subset, FS_CardinalityType
<1>4. Sorted(ranked, n)
  <2> HIDE DEF lines
  <2>1. /\ ranked \in [1..n -> lines]
        /\ \A i, j \in 1..n : i < j => Above(ranked[i], ranked[j])
    BY <1>2, <1>3, TableSorts
  <2> QED BY <1>2, <1>3, <2>1 DEF Sorted
<1>5. span.ranked = ranked /\ span.places = Places(ranked)
      /\ span.winners = {a.player : a \in {b \in Range(ranked) : Level(b, ranked[1])}}
  BY DEF ScoreSpan
<1> HIDE DEF ranked, n, span
<1>6. DOMAIN ranked = 1..n
  BY <1>4 DEF Sorted
<1>7. \A i \in DOMAIN ranked : Places(ranked)[i] =
        1 + Cardinality({j \in DOMAIN ranked : Lower(ranked[j], ranked[i])})
  BY <1>4, <1>6, PlacesAreEarned DEF Better
<1>8. {a.player : a \in {b \in Range(ranked) : Level(b, ranked[1])}} =
        {ranked[i].player : i \in {j \in DOMAIN ranked : Places(ranked)[j] = 1}}
  <2> DEFINE firsts == {j \in DOMAIN ranked : Places(ranked)[j] = 1}
             level  == {b \in Range(ranked) : Level(b, ranked[1])}
  <2>1. level = {ranked[i] : i \in firsts}
    BY <1>4, <1>6, FirstPlaces
  <2> HIDE DEF firsts, level
  <2>2. {a.player : a \in level} = {ranked[i].player : i \in firsts}
    BY <2>1
  <2> QED BY <2>2 DEF firsts, level
<1> QED BY <1>5, <1>7, <1>8 DEF span

\* A month's rows are some of what counts of its players.
LEMMA RowsAreResults ==
  ASSUME TypeOK, NEW first, NEW end, NEW p \in Players
  PROVE  /\ DOMAIN Rows(first, end)[p] = {z \in DOMAIN Counted(p) : first <= z /\ z < end}
         /\ \A z \in DOMAIN Rows(first, end)[p] : Rows(first, end)[p][z] = Counted(p)[z]
         /\ IsFiniteSet(DOMAIN Rows(first, end)[p])
         /\ \A z \in DOMAIN Rows(first, end)[p] : Rows(first, end)[p][z] \in Result
<1>1. /\ DOMAIN Rows(first, end)[p] = {z \in DOMAIN Counted(p) : first <= z /\ z < end}
      /\ \A z \in DOMAIN Rows(first, end)[p] : Rows(first, end)[p][z] = Counted(p)[z]
  BY DEF Rows, RestrictDomain, Restrict
<1>2. IsFiniteSet(DOMAIN Rows(first, end)[p])
  BY <1>1, FewResults, FS_Subset
<1> QED BY <1>1, <1>2, FewResults

LEMMA RanksAreEarnedState == TypeOK => RanksAreEarned
<1> SUFFICES ASSUME TypeOK, NEW m \in Months
             PROVE  LET month  == Month(m)
                        ranked == month.ranked
                    IN  /\ \A i \in DOMAIN ranked : month.places[i] =
                             1 + Cardinality({j \in DOMAIN ranked : Lower(ranked[j], ranked[i])})
                        /\ month.winners =
                             {ranked[i].player : i \in {j \in DOMAIN ranked : month.places[j] = 1}}
  BY DEF RanksAreEarned
<1>1. m.first \in Nat /\ m.end \in Nat /\ now \in Nat
  BY MonthsAreSpans, LastDayIsADay DEF TypeOK
<1>2. IsFiniteSet(Concluded(m.first, m.end, now))
  BY <1>1, ConcludedFinite
<1> DEFINE rows == Rows(m.first, m.end)
<1>3. \A p \in Players : /\ IsFiniteSet(DOMAIN rows[p])
                         /\ \A z \in DOMAIN rows[p] : rows[p][z] \in Result
  BY RowsAreResults
<1>4. Month(m) = ScoreSpan(m.first, m.end, rows, now)
  BY DEF Month, MonthAsOf
<1> DEFINE first == m.first
           end   == m.end
<1>5. LET span   == ScoreSpan(first, end, rows, now)
          ranked == span.ranked
      IN  /\ \A i \in DOMAIN ranked : span.places[i] =
               1 + Cardinality({j \in DOMAIN ranked : Lower(ranked[j], ranked[i])})
          /\ span.winners = {ranked[i].player : i \in {j \in DOMAIN ranked : span.places[j] = 1}}
  <2> HIDE DEF rows, first, end
  <2>1. IsFiniteSet(Concluded(first, end, now))
    BY <1>2 DEF first, end
  <2> QED BY <1>3, <2>1, SpanIsEarned
<1> HIDE DEF rows
<1> QED BY <1>4, <1>5

\* Of every month, whoever filed what: a place is one more than the number of players with a
\* strictly better average, and the winners are those in the first place (months.go).
THEOREM RanksAreEarnedHolds == Spec => []RanksAreEarned
<1> QED BY TypeCorrect, RanksAreEarnedState, PTL

-----------------------------------------------------------------------------
(* Turning up.                                                             *)

\* No average is above a seven.
LEMMA TotalBound ==
  ASSUME NEW results, NEW days, IsFiniteSet(days), \A z \in days : results[z] \in Result
  PROVE  Total(results, days) \in Nat /\ Total(results, days) <= 7 * Cardinality(days)
<1> DEFINE f == [z \in days |-> Value(results[z])]
<1>1. \A z \in days : f[z] \in 0..7
  BY DEF Value, FailedAsSeven, Result
<1>2. Total(results, days) = SumOver(f, days)
  BY TotalIsSum
<1> HIDE DEF f
<1>3. \A z \in days : f[z] \in Nat
  BY <1>1
<1> QED BY <1>1, <1>2, <1>3, SumIsNat, SumBound

\* One more result is its value more.
LEMMA TotalTakesIn ==
  ASSUME NEW results, NEW more, NEW days, IsFiniteSet(days), NEW z, z \notin days,
         \A y \in days \cup {z} : more[y] \in Result, \A y \in days : more[y] = results[y]
  PROVE  Total(more, days \cup {z}) = Total(results, days) + Value(more[z])
<1> DEFINE f == [y \in days |-> Value(results[y])]
           g == [y \in days \cup {z} |-> Value(more[y])]
<1>1. IsFiniteSet(days \cup {z}) /\ (days \cup {z}) \ {z} = days
  BY FS_AddElement
<1>2. \A y \in days \cup {z} : g[y] \in Nat /\ (y \in days => f[y] = g[y] /\ f[y] \in Nat)
  BY DEF Value, FailedAsSeven, Result
<1>3. g[z] = Value(more[z])
  OBVIOUS
<1>4. Total(results, days) = SumOver(f, days)
  BY TotalIsSum
<1>5. Total(more, days \cup {z}) = SumOver(g, days \cup {z})
  BY <1>1, TotalIsSum
<1> HIDE DEF f, g
<1>6. SumOver(g, days \cup {z}) = g[z] + SumOver(g, (days \cup {z}) \ {z})
  BY <1>1, <1>2, SumTakesOut
<1>7. SumOver(g, days) = SumOver(f, days)
  BY <1>2, SumSame
<1>8. SumOver(f, days) \in Nat /\ g[z] \in Nat
  BY <1>2, SumIsNat
<1>9. SumOver(g, days \cup {z}) = g[z] + SumOver(f, days)
  BY <1>1, <1>6, <1>7
<1>10. \A a, b \in Nat : a + b = b + a
  OBVIOUS
<1> QED BY <1>3, <1>4, <1>5, <1>8, <1>9, <1>10

\* A result in the place of a missed day, whether it counts or not.
LEMMA PlayingHelps ==
  ASSUME NEW p, NEW results, NEW more, NEW concluded, NEW z,
         IsFiniteSet(DOMAIN results), IsFiniteSet(concluded), z \in concluded, z \notin DOMAIN results,
         DOMAIN more = DOMAIN results \cup {z}, \A y \in DOMAIN results : more[y] = results[y],
         \A y \in DOMAIN more : more[y] \in Result
  PROVE  ~ Lower(MonthPlayer(p, results, concluded), MonthPlayer(p, more, concluded))
<1> DEFINE counted(r) == {y \in DOMAIN r : Counts(r[y])}
           missed(r)  == Cardinality(concluded \ DOMAIN r)
           sum(r)     == Total(r, counted(r)) + FailedAsSeven * missed(r)
           count(r)   == Cardinality(counted(r)) + missed(r)
<1>1. /\ MonthPlayer(p, results, concluded).sum = sum(results)
      /\ MonthPlayer(p, results, concluded).count = count(results)
      /\ MonthPlayer(p, more, concluded).sum = sum(more)
      /\ MonthPlayer(p, more, concluded).count = count(more)
  BY DEF MonthPlayer
<1>2. /\ IsFiniteSet(counted(results)) /\ Cardinality(counted(results)) \in Nat
      /\ z \notin counted(results)
  BY FS_Subset, FS_CardinalityType
<1>3. missed(results) \in Nat /\ missed(more) = missed(results) - 1 /\ missed(more) \in Nat
  <2> DEFINE gaps == concluded \ DOMAIN results
  <2>1. IsFiniteSet(gaps) /\ z \in gaps /\ concluded \ DOMAIN more = gaps \ {z}
    BY FS_Subset
  <2> HIDE DEF gaps
  <2>2. IsFiniteSet(gaps \ {z}) /\ Cardinality(gaps \ {z}) = Cardinality(gaps) - 1
    BY <2>1, FS_RemoveElement
  <2>3. Cardinality(gaps) \in Nat /\ Cardinality(gaps \ {z}) \in Nat
    BY <2>1, <2>2, FS_CardinalityType
  <2> QED BY <2>1, <2>2, <2>3 DEF gaps
<1>4. /\ Total(results, counted(results)) \in Nat
      /\ Total(results, counted(results)) <= 7 * Cardinality(counted(results))
  <2>1. \A y \in counted(results) : results[y] \in Result
    OBVIOUS
  <2> HIDE DEF counted
  <2> QED BY <1>2, <2>1, TotalBound
<1> DEFINE T == Total(results, counted(results))
           C == Cardinality(counted(results))
           M == missed(results)
<1>5. CASE Counts(more[z])
  <2>1. counted(more) = counted(results) \cup {z}
    BY <1>5
  <2>2. Cardinality(counted(more)) = C + 1
    <3> HIDE DEF counted
    <3> QED BY <1>2, <2>1, FS_AddElement
  <2>3. Total(more, counted(more)) = T + Value(more[z])
    <3>1. \A y \in counted(results) \cup {z} : more[y] \in Result
      OBVIOUS
    <3>2. \A y \in counted(results) : more[y] = results[y]
      OBVIOUS
    <3> HIDE DEF counted
    <3> QED BY <1>2, <2>1, <3>1, <3>2, TotalTakesIn
  <2>4. Value(more[z]) \in 0..7
    BY DEF Value, FailedAsSeven, Result
  <2>5. sum(results) = T + 7 * M /\ count(results) = C + M
        /\ sum(more) = T + Value(more[z]) + 7 * (M - 1) /\ count(more) = C + 1 + (M - 1)
    BY <1>3, <2>2, <2>3 DEF FailedAsSeven
  <2> HIDE DEF T, C, M, sum, count, counted, missed
  <2>6. T \in Nat /\ C \in Nat /\ M \in Nat
    BY <1>2, <1>3, <1>4 DEF T, C, M
  <2>7. sum(more) <= sum(results) /\ count(more) = count(results)
        /\ sum(more) \in Int /\ sum(results) \in Int /\ count(results) \in Nat
    BY <2>4, <2>5, <2>6
  <2>8. ~ (sum(results) * count(more) < sum(more) * count(results))
    <3>1. \A a, b \in Int, c \in Nat : b <= a => ~ (a * c < b * c)
      OBVIOUS
    <3> QED BY <2>7, <3>1
  <2> QED BY <1>1, <2>8 DEF Lower
<1>6. CASE ~Counts(more[z])
  <2>1. counted(more) = counted(results)
    BY <1>6
  <2>2. Total(more, counted(more)) = T
    <3> DEFINE f == [y \in counted(results) |-> Value(results[y])]
    <3>1. f = [y \in counted(results) |-> Value(more[y])]
      OBVIOUS
    <3>2. T = SumOver(f, counted(results)) /\ Total(more, counted(results)) = SumOver(f, counted(results))
      <4> HIDE DEF counted
      <4> QED BY <1>2, <3>1, TotalIsSum
    <3> QED BY <2>1, <3>2
  <2>3. sum(results) = T + 7 * M /\ count(results) = C + M
        /\ sum(more) = T + 7 * (M - 1) /\ count(more) = C + (M - 1)
    BY <1>3, <2>1, <2>2 DEF FailedAsSeven
  <2> HIDE DEF T, C, M, sum, count, counted, missed
  <2>4. T \in Nat /\ C \in Nat /\ M \in Nat /\ M - 1 \in Nat /\ T <= 7 * C
    BY <1>2, <1>3, <1>4 DEF T, C, M
  <2>5. \A t, c, n \in Nat : t <= 7 * c => ~ ((t + 7 * n) * (c + (n - 1)) < (t + 7 * (n - 1)) * (c + n))
    OBVIOUS
  <2> QED BY <1>1, <2>3, <2>4, <2>5 DEF Lower
<1> QED BY <1>5, <1>6

\* A day that had no result and has one now has been filed: nothing else has changed.
LEMMA NewlyFiled ==
  ASSUME TypeOK, [Next]_vars, NEW p \in Players, NEW z, z \notin DOMAIN history[p], z \in DOMAIN history'[p]
  PROVE  /\ now' = now /\ opts' = opts
         /\ DOMAIN history'[p] = DOMAIN history[p] \cup {z}
         /\ \A y \in DOMAIN history[p] : history'[p][y] = history[p][y]
         /\ \A q \in Players \ {p} : history'[q] = history[q]
<1>1. ASSUME NEW s \in Slots, NEW r \in Posted, File(s[1], s[2], r)
      PROVE  /\ DOMAIN history'[p] = DOMAIN history[p] \cup {z}
             /\ \A y \in DOMAIN history[p] : history'[p][y] = history[p][y]
             /\ \A q \in Players \ {p} : history'[q] = history[q]
  <2>1. s[1] = p
    BY <1>1 DEF File, TypeOK
  <2>2. history'[p] = With(history[p], s[2], r)
    BY <1>1, <2>1 DEF File, TypeOK
  <2>3. s[2] = z
    BY <2>2 DEF With
  <2>4. \A q \in Players \ {p} : history'[q] = history[q]
    BY <1>1, <2>1 DEF File, TypeOK
  <2> QED BY <2>2, <2>3, <2>4 DEF With
<1>2. ASSUME NEW s \in Slots, Delete(s[1], s[2]) PROVE FALSE
  <2>1. DOMAIN history'[p] \subseteq DOMAIN history[p]
    BY <1>2 DEF Delete, Restrict, TypeOK
  <2> QED BY <2>1
<1>3. \E s \in Slots, r \in Posted : File(s[1], s[2], r)
  BY <1>2 DEF Next, Midnight, vars
<1> QED BY <1>1, <1>3 DEF File

LEMMA PlayingNeverHurtsStep == TypeOK /\ TypeOK' /\ [Next]_vars =>
  \A slot \in Slots, m \in Months :
    LET p == slot[1]
        z == slot[2]
        line == MonthPlayer(p, Rows(m.first, m.end)[p], Concluded(m.first, m.end, now))
    IN  (/\ z \notin DOMAIN history[p] /\ z \in DOMAIN history'[p]
         /\ m.first <= z /\ z < now)
          => ~Lower(line, line')
<1> SUFFICES ASSUME TypeOK, TypeOK', [Next]_vars, NEW slot \in Slots, NEW m \in Months,
                    slot[2] \notin DOMAIN history[slot[1]], slot[2] \in DOMAIN history'[slot[1]],
                    m.first <= slot[2], slot[2] < now
             PROVE  LET p == slot[1]
                        line == MonthPlayer(p, Rows(m.first, m.end)[p], Concluded(m.first, m.end, now))
                    IN  ~Lower(line, line')
    OBVIOUS
<1> DEFINE p         == slot[1]
           z         == slot[2]
           first     == m.first
           end       == m.end
           rows      == Rows(first, end)[p]
           more      == Rows(first, end)'[p]
           concluded == Concluded(first, end, now)
<1>1. p \in Players /\ z \in Nat \ {0} /\ first \in Nat \ {0} /\ end \in Nat /\ now \in Nat /\ first < end
  BY SlotsArePlayerDays, MonthsAreSpans, LastDayIsADay DEF TypeOK
<1>2. /\ now' = now /\ opts' = opts /\ DOMAIN history'[p] = DOMAIN history[p] \cup {z}
      /\ \A y \in DOMAIN history[p] : history'[p][y] = history[p][y]
  BY <1>1, NewlyFiled
<1>3. \A y \in DOMAIN history'[p] : history'[p][y] \in Result
  BY <1>1 DEF TypeOK
<1>4. /\ DOMAIN rows = {y \in DOMAIN Counted(p) : first <= y /\ y < end}
      /\ \A y \in DOMAIN rows : rows[y] = Counted(p)[y]
      /\ DOMAIN more = {y \in DOMAIN Counted(p)' : first <= y /\ y < end}
      /\ \A y \in DOMAIN more : more[y] = Counted(p)'[y]
  BY <1>1 DEF Rows, RestrictDomain, Restrict
<1>5. /\ DOMAIN Counted(p) = {y \in DOMAIN history[p] : opts.hardModeOnly => history[p][y].hard}
      /\ \A y \in DOMAIN Counted(p) : Counted(p)[y] = history[p][y]
      /\ DOMAIN Counted(p)' = {y \in DOMAIN history'[p] : opts.hardModeOnly => history'[p][y].hard}
      /\ \A y \in DOMAIN Counted(p)' : Counted(p)'[y] = history'[p][y]
  BY <1>2 DEF Counted, FilterHardMode, RestrictValues, Restrict
<1>6. IsFiniteSet(DOMAIN rows) /\ IsFiniteSet(concluded)
  BY <1>1, RowsAreResults, ConcludedFinite
<1>7. MonthPlayer(p, Rows(first, end)[p], Concluded(first, end, now))' = MonthPlayer(p, more, concluded)
  BY <1>2 DEF MonthPlayer, Counts, Solved
<1>8. CASE z < end /\ (opts.hardModeOnly => history'[p][z].hard)
  <2>1. z \in concluded
    BY <1>1, <1>8 DEF Concluded, Later, Earlier
  <2>2. z \notin DOMAIN rows /\ DOMAIN more = DOMAIN rows \cup {z}
    BY <1>1, <1>2, <1>4, <1>5, <1>8
  <2>3. \A y \in DOMAIN rows : more[y] = rows[y]
    BY <1>2, <1>4, <1>5, <2>2
  <2>4. \A y \in DOMAIN more : more[y] \in Result
    BY <1>3, <1>4, <1>5
  <2> HIDE DEF p, z, rows, more, concluded
  <2>5. ~Lower(MonthPlayer(p, rows, concluded), MonthPlayer(p, more, concluded))
    BY <1>6, <2>1, <2>2, <2>3, <2>4, PlayingHelps
  <2> QED BY <1>7, <2>5 DEF p, rows, concluded
<1>9. CASE ~(z < end /\ (opts.hardModeOnly => history'[p][z].hard))
  <2>1. DOMAIN more = DOMAIN rows /\ \A y \in DOMAIN rows : more[y] = rows[y]
    BY <1>1, <1>2, <1>4, <1>5, <1>9
  <2>2. MonthPlayer(p, more, concluded) = MonthPlayer(p, rows, concluded)
    <3>1. rows = [y \in DOMAIN rows |-> rows[y]]
      BY <1>1 DEF Rows, RestrictDomain, Restrict
    <3>2. more = [y \in DOMAIN more |-> more[y]]
      BY <1>1 DEF Rows, RestrictDomain, Restrict
    <3> HIDE DEF rows, more
    <3>3. more = rows
      BY <2>1, <3>1, <3>2
    <3> QED BY <3>3
  <2>3. ~Lower(MonthPlayer(p, rows, concluded), MonthPlayer(p, rows, concluded))
    <3>1. p \in Int /\ \A y \in DOMAIN rows : rows[y] \in Result
      BY <1>1, RowsAreResults, PlayersAreNumbered
    <3> HIDE DEF p, rows, concluded
    <3>2. \A a \in Nat : ~ (a < a)
      OBVIOUS
    <3>3. MonthPlayer(p, rows, concluded).sum \in Nat /\ MonthPlayer(p, rows, concluded).count \in Nat
      BY <1>6, <3>1, MonthPlayerLine
    <3>4. MonthPlayer(p, rows, concluded).sum * MonthPlayer(p, rows, concluded).count \in Nat
      BY <3>3
    <3> QED BY <3>2, <3>4 DEF Lower
  <2> QED BY <1>7, <2>2, <2>3
<1> QED BY <1>8, <1>9

\* Of every run, whatever the toggles and whatever the result: one filed for a day
\* that is over never raises the player's average of the month (months.go).
THEOREM PlayingNeverHurtsHolds == Spec => PlayingNeverHurts
<1>1. TypeOK /\ TypeOK' /\ [Next]_vars =>
  [\A slot \in Slots, m \in Months :
    LET p == slot[1]
        z == slot[2]
        line == MonthPlayer(p, Rows(m.first, m.end)[p], Concluded(m.first, m.end, now))
    IN  (/\ z \notin DOMAIN history[p] /\ z \in DOMAIN history'[p]
         /\ m.first <= z /\ z < now)
          => ~Lower(line, line')]_vars
  BY PlayingNeverHurtsStep
<1> QED BY <1>1, TypeCorrect, PTL DEF Spec, PlayingNeverHurts

-----------------------------------------------------------------------------
(* Streaks.  The walk over the days is a recursive function: there is one  *)
(* walk of every length, and two of different lengths agree on the days    *)
(* both have walked.                                                       *)

Walk(good, n, run) == run = [z \in 0..n |-> IF z \notin good THEN 0 ELSE run[z - 1] + 1]

LEMMA WalkExists ==
  ASSUME NEW good, 0 \notin good, NEW n \in Nat
  PROVE  \E run : Walk(good, n, run)
<1> DEFINE G == {k \in Nat : \E run : Walk(good, k, run)}
<1>1. 0 \in G
  <2> DEFINE run == [z \in 0..0 |-> 0]
  <2>1. Walk(good, 0, run)
    BY DEF Walk
  <2> QED BY <2>1
<1>2. ASSUME NEW k \in G PROVE k + 1 \in G
  <2>1. PICK run : Walk(good, k, run)
    OBVIOUS
  <2> DEFINE more == [z \in 0..(k + 1) |->
                        IF z \in 0..k THEN run[z]
                        ELSE IF z \notin good THEN 0 ELSE run[k] + 1]
  <2>2. k \in Nat /\ k + 1 \notin 0..k /\ (k + 1) - 1 = k /\ k \in 0..k
    OBVIOUS
  <2>3. \A z \in 0..k : run[z] = IF z \notin good THEN 0 ELSE run[z - 1] + 1
    BY <2>1 DEF Walk
  <2>4. \A z \in 0..k : z \in good => z - 1 \in 0..k
    OBVIOUS
  <2>5. \A z \in 0..(k + 1) : more[z] = IF z \notin good THEN 0 ELSE more[z - 1] + 1
    BY <2>2, <2>3, <2>4
  <2>6. Walk(good, k + 1, more)
    BY <2>5 DEF Walk
  <2> QED BY <2>6
<1> HIDE DEF G
<1>3. G = Nat
  BY <1>1, <1>2, EveryNumber DEF G
<1> QED BY <1>3 DEF G

LEMMA WalksAgree ==
  ASSUME NEW good, 0 \notin good, NEW n \in Nat, NEW m \in Nat, NEW f, NEW g,
         Walk(good, n, f), Walk(good, m, g)
  PROVE  \A z \in 0..n : z <= m => f[z] = g[z]
<1> DEFINE G == {k \in Nat : k <= n /\ k <= m => f[k] = g[k]}
<1>1. /\ \A z \in 0..n : f[z] = IF z \notin good THEN 0 ELSE f[z - 1] + 1
      /\ \A z \in 0..m : g[z] = IF z \notin good THEN 0 ELSE g[z - 1] + 1
  BY DEF Walk
<1>2. 0 \in G
  BY <1>1
<1>3. ASSUME NEW k \in G PROVE k + 1 \in G
  <2>1. k \in Nat /\ (k + 1) - 1 = k
    OBVIOUS
  <2>2. SUFFICES ASSUME k + 1 <= n, k + 1 <= m PROVE f[k + 1] = g[k + 1]
    BY <2>1
  <2>3. f[k] = g[k] /\ k + 1 \in 0..n /\ k + 1 \in 0..m
    BY <2>1, <2>2
  <2> QED BY <1>1, <2>1, <2>3
<1> HIDE DEF G
<1>4. G = Nat
  BY <1>2, <1>3, EveryNumber DEF G
<1> QED BY <1>4 DEF G

LEMMA RunWalks ==
  ASSUME TypeOK, NEW p \in Players, NEW solving \in BOOLEAN
  PROVE  /\ 0 \notin Good(history[p], solving)
         /\ Walk(Good(history[p], solving), now, RunAt(history[p], solving))
<1>1. 0 \notin Good(history[p], solving)
  BY SlotsArePlayerDays DEF TypeOK, Good
<1>2. \E run : Walk(Good(history[p], solving), now, run)
  BY <1>1, LastDayIsADay, WalkExists DEF TypeOK
<1> QED BY <1>1, <1>2 DEF Walk, RunAt

LEMMA MidnightSettlesTheDayStep == TypeOK /\ TypeOK' /\ [Next]_vars =>
  \A p \in Players, solving \in BOOLEAN :
    (now' = now + 1 /\ now' \notin DOMAIN history[p])
      => CurrentStreak(history[p], solving)' =
           IF now \in Good(history[p], solving) THEN CurrentStreak(history[p], solving) ELSE 0
<1> SUFFICES ASSUME TypeOK, TypeOK', [Next]_vars, NEW p \in Players, NEW solving \in BOOLEAN,
                    now' = now + 1, now' \notin DOMAIN history[p]
             PROVE  CurrentStreak(history[p], solving)' =
                      IF now \in Good(history[p], solving) THEN CurrentStreak(history[p], solving) ELSE 0
    OBVIOUS
<1> DEFINE good == Good(history[p], solving)
           f    == RunAt(history[p], solving)
           g    == RunAt(history[p], solving)'
<1>1. now \in Nat /\ now' \in Nat /\ (now + 1) - 1 = now
  BY LastDayIsADay DEF TypeOK
<1>2. history' = history
  <2>1. now' # now
    BY <1>1
  <2> QED BY <2>1 DEF Next, File, Delete, Midnight, vars
<1>3. 0 \notin good /\ Walk(good, now, f)
  BY RunWalks
<1>4. Good(history[p], solving)' = good
  <2>1. \A z \in DOMAIN history[p] : z \in Nat
    BY SlotsArePlayerDays DEF TypeOK
  <2>2. \A a, b \in Nat : a # b + 1 => (a <= b + 1 <=> a <= b)
    OBVIOUS
  <2>3. \A z \in DOMAIN history[p] : z <= now' <=> z <= now
    BY <1>1, <2>1, <2>2
  <2> QED BY <1>2, <2>3 DEF Good, Solved
<1>5. Walk(good, now', g)
  <2>1. \E run : Walk(good, now', run)
    BY <1>1, <1>3, WalkExists
  <2>2. g = CHOOSE run : run = [z \in 0..now' |->
              IF z \notin Good(history[p], solving)' THEN 0 ELSE run[z - 1] + 1]
    BY DEF RunAt
  <2>3. g = CHOOSE run : Walk(good, now', run)
    BY <1>4, <2>2 DEF Walk
  <2> HIDE DEF g, good
  <2> QED BY <2>1, <2>3
<1>6. g[now] = f[now] /\ (now \notin good => g[now] = 0)
  <2>1. now \in 0..now /\ now <= now' /\ now \in 0..now'
    BY <1>1
  <2>2. now \notin good => g[now] = 0
    BY <1>5, <2>1 DEF Walk
  <2> HIDE DEF good, f, g
  <2> QED BY <1>1, <1>3, <1>5, <2>1, <2>2, WalksAgree
<1>7. CurrentStreak(history[p], solving)' = g[now]
  BY <1>1, <1>2 DEF CurrentStreak
<1>8. now \in good => CurrentStreak(history[p], solving) = f[now]
  BY DEF CurrentStreak, Good
<1> QED BY <1>6, <1>7, <1>8

\* Of every run: a midnight settles the day it ends and only that one, of the streak of
\* playing and of the streak of solving (stats.go, computeStreaks).
THEOREM MidnightSettlesTheDayHolds == Spec => MidnightSettlesTheDay
<1>1. TypeOK /\ TypeOK' /\ [Next]_vars =>
  [\A p \in Players, solving \in BOOLEAN :
    (now' = now + 1 /\ now' \notin DOMAIN history[p])
      => CurrentStreak(history[p], solving)' =
           IF now \in Good(history[p], solving) THEN CurrentStreak(history[p], solving) ELSE 0]_vars
  BY MidnightSettlesTheDayStep
<1> QED BY <1>1, TypeCorrect, PTL DEF Spec, MidnightSettlesTheDay

-----------------------------------------------------------------------------
(* A month's table as the set of its lines, and what a result of today     *)
(* does to it.                                                             *)

\* Each line has its row in the table.
LEMMA TableHasAll ==
  ASSUME NEW lines \in SUBSET Lines, IsFiniteSet(lines),
         \A a, b \in lines : a.player = b.player => a = b
  PROVE  Range(Table(lines)) = lines
<1> DEFINE n == Cardinality(lines)
           s == Table(lines)
<1>1. s \in [1..n -> lines] /\ \A i, j \in 1..n : i < j => Above(s[i], s[j])
  BY TableSorts
<1>2. n \in Nat /\ IsFiniteSet(1..n) /\ Cardinality(1..n) = n
  BY FS_CardinalityType, FS_Interval
<1> HIDE DEF s, n
<1>3. \A i, j \in 1..n : i # j => s[i] # s[j]
  <2>1. \A a \in lines : ~ Above(a, a)
    <3>1. \A a \in lines : a \in Lines /\ a.player \in Int /\ a.games \in Nat
      BY DEF Lines
    <3> QED BY <3>1, LowerOrders DEF Above, Level
  <2>2. ASSUME NEW i \in 1..n, NEW j \in 1..n, i < j PROVE s[i] # s[j]
    BY <1>1, <2>1, <2>2
  <2> QED BY <1>2, <2>2
<1>4. s \in Injection(1..n, lines)
  BY <1>1, <1>3 DEF Injection, IsInjective
<1>5. s \in Surjection(1..n, lines)
  BY <1>2, <1>4, FS_Injection DEF n
<1> QED BY <1>1, <1>5 DEF Range, Surjection, s

MonthLine(m, p) == MonthPlayer(p, Rows(m.first, m.end)[p], Concluded(m.first, m.end, now))

\* Who has a line: whoever has results in the month, and something that counts.
InTable(m) ==
  {p \in Players : DOMAIN Rows(m.first, m.end)[p] # {} /\ MonthLine(m, p).count > 0}

\* The table of a month has the lines of those who are in it, and its winners are
\* those whom nobody's average is below.
MonthsAreTables ==
  \A m \in Months :
    /\ Range(Month(m).ranked) = {MonthLine(m, p) : p \in InTable(m)}
    /\ \A p \in InTable(m) : MonthLine(m, p) \in Lines /\ MonthLine(m, p).player = p
    /\ Month(m).winners =
         {p \in InTable(m) : \A q \in InTable(m) : ~ Lower(MonthLine(m, q), MonthLine(m, p))}
    /\ InTable(m) # {} => \E p \in Month(m).winners : Month(m).ranked[1] = MonthLine(m, p)
    /\ \E n \in Nat : Sorted(Month(m).ranked, n)

LEMMA MonthTables == TypeOK => MonthsAreTables
<1> SUFFICES ASSUME TypeOK, NEW m \in Months
             PROVE  /\ Range(Month(m).ranked) = {MonthLine(m, p) : p \in InTable(m)}
                    /\ \A p \in InTable(m) : MonthLine(m, p) \in Lines /\ MonthLine(m, p).player = p
                    /\ Month(m).winners =
                         {p \in InTable(m) : \A q \in InTable(m) : ~ Lower(MonthLine(m, q), MonthLine(m, p))}
                    /\ InTable(m) # {} => \E p \in Month(m).winners : Month(m).ranked[1] = MonthLine(m, p)
                    /\ \E n \in Nat : Sorted(Month(m).ranked, n)
  BY DEF MonthsAreTables
<1> DEFINE first     == m.first
           end       == m.end
           rows      == Rows(first, end)
           concluded == Concluded(first, end, now)
           line(p)   == MonthLine(m, p)
           in        == InTable(m)
           lines     == {line(p) : p \in in}
           ranked    == Table(lines)
           n         == Cardinality(lines)
<1>1. first \in Nat /\ end \in Nat /\ now \in Nat
  BY MonthsAreSpans, LastDayIsADay DEF TypeOK
<1>2. IsFiniteSet(concluded)
  BY <1>1, ConcludedFinite
<1>3. ASSUME NEW p \in in PROVE line(p).player = p /\ line(p) \in Lines
  <2>1. p \in Int /\ p \in Players
    BY PlayersAreNumbered DEF InTable
  <2>2. IsFiniteSet(DOMAIN rows[p]) /\ \A z \in DOMAIN rows[p] : rows[p][z] \in Result
    BY <2>1, RowsAreResults
  <2> HIDE DEF rows, concluded
  <2>3. /\ MonthPlayer(p, rows[p], concluded).player = p
        /\ MonthPlayer(p, rows[p], concluded).count > 0 => MonthPlayer(p, rows[p], concluded) \in Lines
    BY <1>2, <2>1, <2>2, MonthPlayerLine
  <2> QED BY <2>3 DEF rows, concluded, MonthLine, InTable
<1>4. lines \in SUBSET Lines /\ \A a, b \in lines : a.player = b.player => a = b
  BY <1>3
<1>5. IsFiniteSet(lines) /\ n \in Nat
  <2>1. IsFiniteSet(in)
    BY PlayersAreNumbered, FS_Subset DEF InTable
  <2> DEFINE f == [p \in in |-> line(p)]
  <2>2. f \in Surjection(in, lines)
    BY DEF Surjection
  <2> HIDE DEF f, in, lines
  <2>3. IsFiniteSet(lines)
    BY <2>1, <2>2, FS_Surjection
  <2> QED BY <2>3, FS_CardinalityType
<1>6. Month(m).ranked = ranked /\ Month(m).winners = {a.player : a \in {b \in Range(ranked) : Level(b, ranked[1])}}
  <2> DEFINE scored == {MonthPlayer(p, rows[p], concluded) : p \in {q \in Players : DOMAIN rows[q] # {}}}
  <2>1. {a \in scored : a.count > 0} = lines
    BY DEF InTable, MonthLine
  <2>2. Month(m).ranked = Table({a \in scored : a.count > 0})
    BY DEF Month, MonthAsOf, ScoreSpan
  <2>3. Month(m).winners = {a.player : a \in {b \in Range(Month(m).ranked) : Level(b, Month(m).ranked[1])}}
    BY DEF Month, MonthAsOf, ScoreSpan
  <2> HIDE DEF scored, lines
  <2>4. Month(m).ranked = ranked
    BY <2>1, <2>2
  <2> HIDE DEF ranked
  <2> QED BY <2>3, <2>4
<1>7. Range(ranked) = lines
  <2> HIDE DEF lines
  <2> QED BY <1>4, <1>5, TableHasAll
<1>8. ranked \in [1..n -> lines] /\ \A i, j \in 1..n : i < j => Above(ranked[i], ranked[j])
  <2> HIDE DEF lines
  <2> QED BY <1>4, <1>5, TableSorts
<1>9. ASSUME NEW a \in lines PROVE Level(a, ranked[1]) <=> \A b \in lines : ~ Lower(b, a)
  <2> HIDE DEF lines, ranked
  <2>1. PICK i \in 1..n : a = ranked[i]
    BY <1>7, <1>8, <1>9 DEF Range
  <2>2. 1 \in 1..n /\ ranked[1] \in lines
    BY <1>5, <1>8, <2>1
  <2>3. \A b \in lines : ~ Lower(b, ranked[1])
    <3>1. ASSUME NEW j \in 1..n PROVE ~ Lower(ranked[j], ranked[1])
      <4>1. CASE j = 1
        BY <1>4, <1>8, <4>1, LowerOrders
      <4>2. CASE j # 1
        <5>1. Above(ranked[1], ranked[j]) /\ ranked[1] \in Lines /\ ranked[j] \in Lines
          BY <1>4, <1>5, <1>8, <2>2, <4>2
        <5> QED BY <5>1, LowerOrders DEF Above, Level
      <4> QED BY <4>1, <4>2
    <3> QED BY <1>7, <1>8, <3>1 DEF Range
  <2>4. a \in Lines /\ ranked[1] \in Lines /\ ~ Lower(a, ranked[1])
    BY <1>4, <1>9, <2>2, <2>3
  <2>5. ASSUME Level(a, ranked[1]), NEW b \in lines PROVE ~ Lower(b, a)
    <3>1. b \in Lines /\ ~ Lower(b, ranked[1]) /\ ~ Lower(ranked[1], a)
      BY <1>4, <2>3, <2>5 DEF Level
    <3> QED BY <2>4, <3>1, LowerOrders
  <2> QED BY <2>2, <2>3, <2>4, <2>5, <1>9 DEF Level
<1> HIDE DEF ranked
<1>10. Month(m).winners = {p \in in : \A q \in in : ~ Lower(line(q), line(p))}
  <2>1. Month(m).winners = {a.player : a \in {b \in lines : \A c \in lines : ~ Lower(c, b)}}
    BY <1>6, <1>7, <1>9
  <2> QED BY <1>3, <2>1
<1>11. ASSUME in # {} PROVE \E p \in Month(m).winners : Month(m).ranked[1] = line(p)
  <2>1. lines # {}
    BY <1>11
  <2> HIDE DEF lines
  <2>2. n # 0
    BY <1>5, <2>1, FS_EmptySet
  <2>3. ranked[1] \in lines
    BY <1>5, <1>8, <2>2
  <2>4. ranked[1] \in Lines
    BY <1>4, <2>3
  <2>5. Level(ranked[1], ranked[1])
    BY <2>4, LowerOrders DEF Level
  <2>6. \A b \in lines : ~ Lower(b, ranked[1])
    BY <1>9, <2>3, <2>5
  <2>7. PICK p \in in : ranked[1] = line(p)
    BY <2>3 DEF lines
  <2>8. \A q \in in : ~ Lower(line(q), line(p))
    BY <2>6, <2>7 DEF lines
  <2>9. p \in Month(m).winners
    BY <1>10, <2>8
  <2> QED BY <1>6, <2>7, <2>9
<1>12. Sorted(Month(m).ranked, n)
  <2>1. ranked \in [1..n -> Lines]
    BY <1>4, <1>8
  <2> HIDE DEF n
  <2> QED BY <1>5, <1>6, <1>8, <2>1 DEF Sorted
<1> HIDE DEF n
<1> QED BY <1>3, <1>5, <1>6, <1>7, <1>10, <1>11, <1>12

-----------------------------------------------------------------------------
(* What the bot predicts.                                                  *)

\* A player's line, once the result of the day being played is in: so much more for one
\* day more.  Everybody else's is what it was.
LEMMA FiledToday ==
  ASSUME TypeOK, TypeOK', [Next]_vars, NEW p \in Players, NEW m \in Months,
         now \notin DOMAIN history[p], now \in DOMAIN history'[p],
         opts = DefaultOptions, Running(m), DOMAIN history[p] \cap ((now + 1)..(m.end - 1)) = {}
  PROVE  /\ MonthLine(m, p).sum \in Nat /\ MonthLine(m, p).count = now - m.first
         /\ now - m.first \in Nat /\ Value(history'[p][now]) \in 1..7
         /\ MonthLine(m, p)'.sum = MonthLine(m, p).sum + Value(history'[p][now])
         /\ MonthLine(m, p)'.count = (now - m.first) + 1
         /\ DOMAIN Rows(m.first, m.end)[p] = {} => MonthLine(m, p).sum = 7 * (now - m.first)
         /\ DOMAIN Rows(m.first, m.end)[p] # {} => now - m.first > 0
         /\ DOMAIN Rows(m.first, m.end)'[p] # {}
<1> DEFINE first     == m.first
           end       == m.end
           rows      == Rows(first, end)[p]
           more      == Rows(first, end)'[p]
           concluded == Concluded(first, end, now)
           S         == now - first
           g         == Value(history'[p][now])
<1>1. /\ first \in Nat \ {0} /\ end \in Nat /\ now \in Nat /\ first < end /\ first <= now /\ now < end
      /\ S \in Nat
  BY MonthsAreSpans, LastDayIsADay DEF TypeOK, Running
<1>2. /\ now' = now /\ opts' = opts /\ DOMAIN history'[p] = DOMAIN history[p] \cup {now}
      /\ \A y \in DOMAIN history[p] : history'[p][y] = history[p][y]
  BY NewlyFiled
<1>3. ~ opts.hardModeOnly /\ opts.countXAsSeven /\ \A r : Counts(r)
  BY DEF DefaultOptions, Counts
<1>4. /\ DOMAIN rows = {y \in DOMAIN history[p] : first <= y /\ y < end}
      /\ \A y \in DOMAIN rows : rows[y] = history[p][y]
      /\ DOMAIN more = {y \in DOMAIN history'[p] : first <= y /\ y < end}
      /\ \A y \in DOMAIN more : more[y] = history'[p][y]
  BY <1>2, <1>3 DEF Rows, RestrictDomain, Restrict, Counted
<1>5. /\ now \notin DOMAIN rows /\ DOMAIN more = DOMAIN rows \cup {now}
      /\ \A y \in DOMAIN rows : more[y] = rows[y]
      /\ more[now] = history'[p][now]
  BY <1>1, <1>2, <1>4
<1>6. \A y \in DOMAIN more : more[y] \in Result
  BY <1>4 DEF TypeOK
<1>7. concluded = first..(now - 1) /\ IsFiniteSet(concluded) /\ Cardinality(concluded) = S
  <2>1. concluded = first..(now - 1)
    BY <1>1 DEF Concluded, Later, Earlier
  <2>2. first \in Int /\ now - 1 \in Int
    BY <1>1
  <2> HIDE DEF first
  <2>3. IsFiniteSet(first..(now - 1)) /\ Cardinality(first..(now - 1)) = IF first > now - 1 THEN 0 ELSE (now - 1) - first + 1
    BY <2>2, FS_Interval
  <2> QED BY <1>1, <2>1, <2>3
<1>8. DOMAIN rows \subseteq concluded /\ concluded \ DOMAIN more = concluded \ DOMAIN rows
  <2>1. ASSUME NEW y \in DOMAIN rows PROVE y \in first..(now - 1)
    <3>1. y \in Int /\ first <= y /\ y < end /\ y # now /\ y \in DOMAIN history[p]
      <4>1. y \in DOMAIN history[p] /\ first <= y /\ y < end /\ y # now
        BY <1>4, <1>5
      <4> QED BY <1>1, <4>1, FewResults
    <3>2. y \notin (now + 1)..(end - 1)
      BY <3>1
    <3> QED BY <1>1, <3>1, <3>2
  <2>2. now \notin concluded
    BY <1>1, <1>7
  <2> QED BY <1>5, <1>7, <2>1, <2>2
<1> DEFINE gaps == concluded \ DOMAIN rows
<1>9. /\ IsFiniteSet(DOMAIN rows) /\ IsFiniteSet(gaps)
      /\ Cardinality(DOMAIN rows) \in Nat /\ Cardinality(gaps) \in Nat
      /\ Cardinality(DOMAIN rows) + Cardinality(gaps) = S
  <2> HIDE DEF concluded, rows
  <2>1. IsFiniteSet(DOMAIN rows) /\ IsFiniteSet(gaps)
    BY <1>7, <1>8, FS_Subset
  <2>2. Cardinality(DOMAIN rows \cup gaps) = Cardinality(DOMAIN rows) + Cardinality(gaps) - Cardinality(DOMAIN rows \cap gaps)
    BY <2>1, FS_Union
  <2>3. DOMAIN rows \cup gaps = concluded /\ DOMAIN rows \cap gaps = {}
    BY <1>8
  <2>4. Cardinality(DOMAIN rows) \in Nat /\ Cardinality(gaps) \in Nat
    BY <2>1, FS_CardinalityType
  <2> HIDE DEF gaps
  <2> DEFINE both == DOMAIN rows \cap gaps
  <2>5. both = {}
    BY <2>3
  <2> HIDE DEF both
  <2>6. IsFiniteSet({}) /\ Cardinality({}) = 0
    BY FS_EmptySet
  <2>7. Cardinality(both) = 0
    BY <2>5, <2>6
  <2>8. Cardinality(DOMAIN rows \cup gaps) = Cardinality(DOMAIN rows) + Cardinality(gaps) - Cardinality(both)
    BY <2>2 DEF both
  <2>9. Cardinality(DOMAIN rows \cup gaps) = S
    BY <1>7, <2>3
  <2> HIDE DEF S
  <2> QED BY <2>1, <2>4, <2>7, <2>8, <2>9
<1>10. /\ MonthLine(m, p).sum = Total(rows, DOMAIN rows) + 7 * Cardinality(gaps)
       /\ MonthLine(m, p).count = Cardinality(DOMAIN rows) + Cardinality(gaps)
  <2>1. {z \in DOMAIN rows : Counts(rows[z])} = DOMAIN rows
    BY <1>3
  <2> QED BY <2>1 DEF MonthLine, MonthPlayer, FailedAsSeven
<1>11. /\ MonthLine(m, p)'.sum = Total(more, DOMAIN more) + 7 * Cardinality(gaps)
       /\ MonthLine(m, p)'.count = Cardinality(DOMAIN more) + Cardinality(gaps)
  <2>1. {z \in DOMAIN more : Counts(more[z])} = DOMAIN more
    BY <1>3
  <2>2. MonthLine(m, p)' = MonthPlayer(p, more, concluded)
    BY <1>2 DEF MonthLine, MonthPlayer, Counts, Solved
  <2>3. /\ MonthPlayer(p, more, concluded).sum = Total(more, DOMAIN more) + 7 * Cardinality(concluded \ DOMAIN more)
        /\ MonthPlayer(p, more, concluded).count = Cardinality(DOMAIN more) + Cardinality(concluded \ DOMAIN more)
    BY <2>1 DEF MonthPlayer, FailedAsSeven
  <2> QED BY <1>8, <2>2, <2>3
<1>12. g \in 1..7
  <2>1. history'[p][now] \in Result
    BY <1>5, <1>6
  <2> QED BY <2>1 DEF Value, Solved, Result, FailedAsSeven
<1>13. /\ Total(rows, DOMAIN rows) \in Nat
       /\ Total(more, DOMAIN more) = Total(rows, DOMAIN rows) + g
       /\ Cardinality(DOMAIN more) = Cardinality(DOMAIN rows) + 1
  <2>1. \A y \in DOMAIN rows : rows[y] \in Result
    BY <1>5, <1>6
  <2>2. Value(more[now]) = g
    BY <1>5
  <2> HIDE DEF rows, more, g
  <2>3. Total(rows, DOMAIN rows) \in Nat
    BY <1>9, <2>1, TotalBound
  <2>4. Total(more, DOMAIN rows \cup {now}) = Total(rows, DOMAIN rows) + Value(more[now])
    BY <1>5, <1>6, <1>9, TotalTakesIn
  <2>5. Cardinality(DOMAIN rows \cup {now}) = Cardinality(DOMAIN rows) + 1
    BY <1>5, <1>9, FS_AddElement
  <2> QED BY <1>5, <2>2, <2>3, <2>4, <2>5
<1>14. DOMAIN rows = {} => Total(rows, DOMAIN rows) = 0 /\ Cardinality(gaps) = S
  <2> HIDE DEF rows, gaps
  <2>1. DOMAIN rows = {} => Cardinality(DOMAIN rows) = 0
    BY FS_EmptySet
  <2>2. \A y \in DOMAIN rows : rows[y] \in Result
    BY <1>5, <1>6
  <2>3. Total(rows, DOMAIN rows) <= 7 * Cardinality(DOMAIN rows)
    BY <1>9, <2>2, TotalBound
  <2>4. \A t, c \in Nat : t <= 7 * c /\ c = 0 => t = 0
    OBVIOUS
  <2>5. \A c, k \in Nat : c = 0 => c + k = k
    OBVIOUS
  <2>6. DOMAIN rows = {} => Total(rows, DOMAIN rows) = 0
    BY <1>9, <1>13, <2>1, <2>3, <2>4
  <2>7. DOMAIN rows = {} => Cardinality(gaps) = S
    BY <1>9, <2>1, <2>5
  <2> QED BY <2>6, <2>7
<1>15. DOMAIN rows # {} => S > 0
  <2> HIDE DEF rows, gaps
  <2> QED BY <1>1, <1>9, FS_EmptySet
<1>16. DOMAIN more # {}
  BY <1>5
<1> HIDE DEF gaps
<1> QED BY <1>1, <1>9, <1>10, <1>11, <1>12, <1>13, <1>14, <1>15, <1>16

\* A quotient is not above a larger one, nor is its whole part.
LEMMA WholeParts ==
  ASSUME NEW x \in Int, NEW y \in Int, NEW n \in Nat \ {0}, NEW k \in Nat \ {0}, x * k <= y * n
  PROVE  x \div n <= y \div k /\ x \div n \in Int /\ y \div k \in Int
<1> DEFINE q == x \div n
           r == y \div k
<1>1. q \in Int /\ r \in Int /\ n * q <= x /\ y < k * r + k
  BY Z3
<1> HIDE DEF q, r
<1>2. SUFFICES ASSUME r < q PROVE FALSE
  BY <1>1 DEF q, r
<1>3. PICK d \in Nat : q = r + 1 + d
  <2>1. q - r - 1 \in Nat /\ q = r + 1 + (q - r - 1)
    BY <1>1, <1>2
  <2> QED BY <2>1
<1>4. (n * q) * k <= x * k
  <2>1. \A a, b \in Int, c \in Nat : a <= b => a * c <= b * c
    OBVIOUS
  <2>2. n * q \in Int /\ x \in Int /\ k \in Nat
    BY <1>1
  <2> QED BY <1>1, <2>1, <2>2
<1>5. y * n < (k * r + k) * n
  <2>1. \A a, b \in Int, c \in Nat \ {0} : a < b => a * c < b * c
    OBVIOUS
  <2>2. y \in Int /\ k * r + k \in Int
    BY <1>1
  <2> QED BY <1>1, <2>1, <2>2
<1>6. (n * q) * k = (k * r + k) * n + (n * k) * d
  BY <1>1, <1>3
<1>7. (n * k) * d \in Nat
  OBVIOUS
<1> QED BY <1>1, <1>4, <1>5, <1>6, <1>7

\* An average not above another's is not shown above it.
LEMMA HundredthsGrow ==
  ASSUME NEW a, NEW b, a.sum \in Int, b.sum \in Int, a.count \in Nat \ {0}, b.count \in Nat \ {0},
         ~ Lower(b, a)
  PROVE  Hundredths(a) <= Hundredths(b) /\ Hundredths(a) \in Int /\ Hundredths(b) \in Int
<1> DEFINE x == 200 * a.sum + a.count
           y == 200 * b.sum + b.count
           n == 2 * a.count
           k == 2 * b.count
<1>1. a.sum * b.count <= b.sum * a.count
  BY DEF Lower
<1>2. x \in Int /\ y \in Int /\ n \in Nat \ {0} /\ k \in Nat \ {0}
  OBVIOUS
<1>3. x * k = 400 * (a.sum * b.count) + 2 * (a.count * b.count)
      /\ y * n = 400 * (b.sum * a.count) + 2 * (a.count * b.count)
  <2>1. ASSUME NEW s \in Int, NEW c \in Nat, NEW d \in Nat
        PROVE  (200 * s + c) * (2 * d) = 400 * (s * d) + 2 * (c * d)
    OBVIOUS
  <2>2. a.count * b.count = b.count * a.count
    OBVIOUS
  <2>3. x * k = 400 * (a.sum * b.count) + 2 * (a.count * b.count)
    <3>1. \A s \in Int, c \in Nat, d \in Nat : (200 * s + c) * (2 * d) = 400 * (s * d) + 2 * (c * d)
      BY <2>1
    <3> DEFINE u == a.sum
               v == a.count
               w == b.count
    <3>2. u \in Int /\ v \in Nat /\ w \in Nat
      OBVIOUS
    <3> HIDE DEF u, v, w
    <3>3. (200 * u + v) * (2 * w) = 400 * (u * w) + 2 * (v * w)
      BY <3>1, <3>2
    <3> QED BY <3>3 DEF u, v, w
  <2>4. y * n = 400 * (b.sum * a.count) + 2 * (b.count * a.count)
    BY <2>1
  <2> QED BY <2>2, <2>3, <2>4
<1>4. a.sum * b.count \in Int /\ b.sum * a.count \in Int /\ a.count * b.count \in Nat
  OBVIOUS
<1>5. x * k <= y * n
  BY <1>1, <1>3, <1>4
<1> HIDE DEF x, y, n, k
<1>6. x \div n <= y \div k /\ x \div n \in Int /\ y \div k \in Int
  BY <1>2, <1>5, WholeParts
<1> QED BY <1>6 DEF Hundredths, x, y, n, k

\* An average told as a multiple of another is the same average.
LEMMA Multiples ==
  ASSUME NEW a, NEW b, NEW c, NEW k \in Nat \ {0},
         a.sum \in Nat, b.sum \in Nat, a.count \in Nat \ {0}, b.count \in Nat \ {0},
         c.sum = k * a.sum, c.count = k * a.count
  PROVE  /\ Level(a, c) /\ c.sum \in Nat /\ c.count \in Nat \ {0}
         /\ Lower(b, c) <=> Lower(b, a)
         /\ Lower(c, b) <=> Lower(a, b)
<1> DEFINE s == a.sum
           n == a.count
           t == b.sum
           l == b.count
<1>1. s \in Nat /\ n \in Nat \ {0} /\ t \in Nat /\ l \in Nat \ {0} /\ k \in Nat \ {0}
  OBVIOUS
<1> HIDE DEF s, n, t, l
<1>2. k * s \in Nat /\ k * n \in Nat \ {0}
  BY <1>1
<1>3. s * (k * n) = (k * s) * n
  BY <1>1
<1>4. t * (k * n) = (t * n) * k /\ (k * s) * l = (s * l) * k
  BY <1>1
<1>5. t * n \in Nat /\ s * l \in Nat
  BY <1>1
<1>6. /\ t * (k * n) < (k * s) * l <=> t * n < s * l
      /\ (k * s) * l < t * (k * n) <=> s * l < t * n
  BY <1>1, <1>4, <1>5, Times
<1>7. /\ Lower(a, c) <=> s * (k * n) < (k * s) * n
      /\ Lower(c, a) <=> (k * s) * n < s * (k * n)
      /\ Lower(b, c) <=> t * (k * n) < (k * s) * l
      /\ Lower(c, b) <=> (k * s) * l < t * (k * n)
      /\ Lower(b, a) <=> t * n < s * l
      /\ Lower(a, b) <=> s * l < t * n
  BY DEF Lower, s, n, t, l
<1>8. s * (k * n) \in Nat
  BY <1>1, <1>2
<1>9. ~ (s * (k * n) < (k * s) * n) /\ ~ ((k * s) * n < s * (k * n))
  BY <1>3, <1>8
<1>10. c.sum = k * s /\ c.count = k * n
  BY DEF s, n
<1> QED BY <1>2, <1>6, <1>7, <1>9, <1>10 DEF Level

\* Nobody is shown below whoever nobody's average is below.
LEMMA BestIsShown ==
  ASSUME NEW D, NEW A, NEW w \in D,
         \A q \in D : A[q].sum \in Nat /\ A[q].count \in Nat \ {0},
         \A q \in D : ~ Lower(A[q], A[w])
  PROVE  Hundredths(A[w]) = Min({Hundredths(A[q]) : q \in D})
<1> DEFINE shown == {Hundredths(A[q]) : q \in D}
           h == Hundredths(A[w])
<1>1. ASSUME NEW q \in D PROVE h <= Hundredths(A[q]) /\ h \in Int /\ Hundredths(A[q]) \in Int
  <2> DEFINE a == A[w]
             b == A[q]
  <2>1. a.sum \in Nat /\ b.sum \in Nat /\ a.count \in Nat \ {0} /\ b.count \in Nat \ {0} /\ ~ Lower(b, a)
    OBVIOUS
  <2> HIDE DEF a, b
  <2>2. Hundredths(a) <= Hundredths(b) /\ Hundredths(a) \in Int /\ Hundredths(b) \in Int
    BY <2>1, HundredthsGrow
  <2> QED BY <2>2 DEF a, b
<1>2. h \in shown
  OBVIOUS
<1>3. \A x \in shown : h <= x /\ x \in Int
  BY <1>1
<1> HIDE DEF shown, h
<1>4. h \in Int
  BY <1>2, <1>3
<1>5. \A x \in shown : (\A y \in shown : x =< y) => x = h
  BY <1>2, <1>3, <1>4
<1>6. Min(shown) = h
  BY <1>2, <1>3, <1>5 DEF Min
<1> QED BY <1>6 DEF shown, h

\* The days a running month has had: those that are over, and today once somebody
\* has played it.
LEMMA DaysSoFar ==
  ASSUME TypeOK, NEW m \in Months, Running(m)
  PROVE  /\ m.first \in Nat /\ now \in Nat /\ m.first <= now /\ now < m.end
         /\ Month(m).days = (now - m.first) +
              (IF \E q \in Players : now \in DOMAIN Rows(m.first, m.end)[q] THEN 1 ELSE 0)
<1> DEFINE first == m.first
           end   == m.end
           rows  == Rows(first, end)
<1>1. first \in Nat /\ end \in Nat /\ now \in Nat /\ first <= now /\ now < end
  BY MonthsAreSpans, LastDayIsADay DEF TypeOK, Running
<1>2. Concluded(first, end, now) = first..(now - 1)
  BY <1>1 DEF Concluded, Later, Earlier
<1> HIDE DEF first, end, rows
<1>3. Cardinality(first..(now - 1)) = now - first
  <2>1. first \in Int /\ now - 1 \in Int
    BY <1>1
  <2>2. Cardinality(first..(now - 1)) = IF first > now - 1 THEN 0 ELSE (now - 1) - first + 1
    BY <2>1, FS_Interval
  <2> QED BY <1>1, <2>2
<1>4. (now \in first..(end - 1) /\ \E q \in {r \in Players : DOMAIN rows[r] # {}} : now \in DOMAIN rows[q])
        <=> \E q \in Players : now \in DOMAIN rows[q]
  BY <1>1
<1>5. ScoreSpan(first, end, rows, now).days = Cardinality(Concluded(first, end, now)) +
        (IF now \in first..(end - 1) /\ \E q \in {r \in Players : DOMAIN rows[r] # {}} : now \in DOMAIN rows[q]
         THEN 1 ELSE 0)
  BY DEF ScoreSpan
<1>6. Month(m).days = ScoreSpan(first, end, rows, now).days
  BY DEF Month, MonthAsOf, first, end, rows
<1>7. Month(m).days = (now - first) + (IF \E q \in Players : now \in DOMAIN rows[q] THEN 1 ELSE 0)
  BY <1>2, <1>3, <1>4, <1>5, <1>6
<1> QED BY <1>1, <1>7 DEF first, end, rows

\* A month has had a day once somebody who has not posted ahead is in it.
LEMMA PlayedIsADay ==
  ASSUME TypeOK, NEW m \in Months, Running(m), NEW p \in Players,
         DOMAIN Rows(m.first, m.end)[p] # {},
         DOMAIN history[p] \cap ((now + 1)..(m.end - 1)) = {}
  PROVE  Month(m).days > 0
<1>1. m.end \in Nat
  BY MonthsAreSpans
<1>2. PICK z \in DOMAIN Rows(m.first, m.end)[p] : TRUE
  OBVIOUS
<1>3. z \in DOMAIN history[p] /\ m.first <= z /\ z < m.end /\ z \in Nat
  BY <1>2, RowsAreResults, FewResults
<1>4. z <= now
  BY <1>1, <1>3, DaysSoFar
<1>5. CASE z = now
  <2>1. \E q \in Players : now \in DOMAIN Rows(m.first, m.end)[q]
    BY <1>2, <1>5
  <2> QED BY <2>1, DaysSoFar
<1>6. CASE z < now
  BY <1>3, <1>6, DaysSoFar
<1> QED BY <1>3, <1>4, <1>5, <1>6, DaysSoFar

\* Before a month has had a day the answer divides by zero.
LEMMA NothingPredicted ==
  ASSUME TypeOK, MonthsAreTables, NEW m \in Months, Running(m), NEW p \in Players,
         Month(m).winners # {}, Month(m).days = 0, now \notin DOMAIN history[p],
         DOMAIN history[p] \cap ((now + 1)..(m.end - 1)) = {}, NEW g
  PROVE  Predicted(p, m, g).count = 0
<1> DEFINE rows  == Rows(m.first, m.end)
           ahead == UNION {DOMAIN rows[q] : q \in Players}
           lines == {a \in Range(Month(m).ranked) : a.player = p}
<1>1. m.first = now /\ now \in Nat /\ \A q \in Players : now \notin DOMAIN rows[q]
  BY DaysSoFar
<1>2. DOMAIN rows[p] = {}
  BY PlayedIsADay
<1>3. \A z \in ahead : z = now + 1
  <2>1. ASSUME NEW q \in Players, NEW z \in DOMAIN rows[q] PROVE z = now + 1
    <3>1. z \in Nat /\ m.first <= z /\ z <= now + 1
      BY <1>1, RowsAreResults, FewResults
    <3> QED BY <1>1, <3>1
  <2> QED BY <2>1
<1>4. PICK w \in Players : DOMAIN rows[w] # {}
  BY DEF MonthsAreTables, InTable
<1>5. ahead = {now + 1}
  BY <1>3, <1>4
<1>6. Min({now + 1}) = now + 1
  BY <1>1 DEF Min
<1>7. FirstDay(m) = now + 1
  <2>1. Min(ahead) = now + 1
    BY <1>5, <1>6
  <2>2. FirstDay(m) = Min(ahead)
    BY DEF FirstDay
  <2> QED BY <2>1, <2>2
<1>8. Scored(p, m) = -1
  BY <1>1, <1>7 DEF Scored
<1>9. lines = {}
  BY <1>2 DEF MonthsAreTables, InTable
<1>10. Predicted(p, m, g).count = 1 * (Scored(p, m) + 1)
  BY <1>9 DEF Predicted
<1> QED BY <1>8, <1>10

\* What is asked about a player who has nothing of today yet is the line the answer
\* makes of it, told as a multiple.
LEMMA PredictedIsFiled ==
  ASSUME TypeOK, TypeOK', MonthsAreTables, [Next]_vars, NEW p \in Players, NEW m \in Months,
         now \notin DOMAIN history[p], now \in DOMAIN history'[p],
         opts = DefaultOptions, Running(m), DOMAIN history[p] \cap ((now + 1)..(m.end - 1)) = {},
         Month(m).days > 0, NEW g, g = Value(history'[p][now])
  PROVE  \E k \in Nat \ {0} : /\ Predicted(p, m, g).sum = k * MonthLine(m, p)'.sum
                              /\ Predicted(p, m, g).count = k * MonthLine(m, p)'.count
<1> DEFINE S == now - m.first
           line == MonthLine(m, p)
           lines == {a \in Range(Month(m).ranked) : a.player = p}
           filed == MonthLine(m, p)'
<1>1. /\ line.sum \in Nat /\ line.count = S /\ S \in Nat /\ g \in 1..7
      /\ filed.sum = line.sum + g /\ filed.count = S + 1
      /\ DOMAIN Rows(m.first, m.end)[p] = {} => line.sum = 7 * S
      /\ DOMAIN Rows(m.first, m.end)[p] # {} => S > 0
  BY FiledToday
<1>2. Range(Month(m).ranked) = {MonthLine(m, q) : q \in InTable(m)}
      /\ \A q \in InTable(m) : MonthLine(m, q).player = q
  BY DEF MonthsAreTables
<1>3. Scored(p, m) = S
  BY <1>1 DEF Scored, FirstDay
<1>4. CASE p \in InTable(m)
  <2>1. lines = {line}
    BY <1>2, <1>4
  <2>2. Predicted(p, m, g) = [sum |-> line.sum * S + g * line.count, count |-> line.count * (S + 1)]
    <3>1. (CHOOSE x \in lines : TRUE) = line /\ lines # {}
      BY <2>1
    <3> HIDE DEF line
    <3> QED BY <1>3, <3>1 DEF Predicted
  <2>3. S \in Nat \ {0}
    BY <1>1, <1>4 DEF InTable
  <2> DEFINE t == line.sum
  <2>4. t * S + g * S = S * (t + g)
    <3> HIDE DEF S, t
    <3>0. t \in Nat
      BY <1>1 DEF t
    <3> QED BY <1>1, <3>0
  <2> HIDE DEF line, S
  <2>5. Predicted(p, m, g).sum = S * filed.sum /\ Predicted(p, m, g).count = S * filed.count
    BY <1>1, <2>2, <2>4
  <2> QED BY <2>3, <2>5
<1>5. CASE p \notin InTable(m)
  <2>1. lines = {}
    BY <1>2, <1>5
  <2>2. Predicted(p, m, g) = [sum |-> 7 * S + g * 1, count |-> 1 * (S + 1)]
    <3> HIDE DEF line
    <3> QED BY <1>3, <2>1 DEF Predicted, FailedAsSeven
  <2>3. line.sum = 7 * S
    BY <1>1, <1>5 DEF InTable
  <2> HIDE DEF line, S
  <2>4. Predicted(p, m, g).sum = 1 * filed.sum /\ Predicted(p, m, g).count = 1 * filed.count
    BY <1>1, <2>2, <2>3
  <2> QED BY <2>4
<1> QED BY <1>4, <1>5

\* The lines of the others stay as they are.
LEMMA OthersKeepTheirs ==
  ASSUME TypeOK, [Next]_vars, NEW p \in Players, NEW m \in Months,
         now \notin DOMAIN history[p], now \in DOMAIN history'[p]
  PROVE  \A q \in Players \ {p} : /\ MonthLine(m, q)' = MonthLine(m, q)
                                  /\ q \in InTable(m)' <=> q \in InTable(m)
<1>1. now' = now /\ opts' = opts /\ \A q \in Players \ {p} : history'[q] = history[q]
  BY NewlyFiled
<1> SUFFICES ASSUME NEW q \in Players \ {p}
             PROVE  MonthLine(m, q)' = MonthLine(m, q) /\ (q \in InTable(m)' <=> q \in InTable(m))
  OBVIOUS
<1>2. Rows(m.first, m.end)'[q] = Rows(m.first, m.end)[q]
  <2>1. history'[q] = history[q] /\ opts' = opts
    BY <1>1
  <2> QED BY <2>1 DEF Rows, RestrictDomain, Restrict, Counted
<1>3. MonthLine(m, q)' = MonthLine(m, q)
  BY <1>1, <1>2 DEF MonthLine, MonthPlayer, Counts, Solved
<1>4. InTable(m)' = {r \in Players : DOMAIN Rows(m.first, m.end)'[r] # {} /\ MonthLine(m, r)'.count > 0}
  BY DEF InTable
<1> QED BY <1>2, <1>3, <1>4 DEF InTable

LEMMA WhatIfComesTrueStep == TypeOK /\ TypeOK' /\ MonthsAreTables /\ MonthsAreTables' /\ [Next]_vars =>
  \A p \in Players, m \in Months :
    (/\ now \notin DOMAIN history[p] /\ now \in DOMAIN history'[p]
     /\ opts = DefaultOptions /\ Running(m) /\ Month(m).winners # {}
     /\ DOMAIN history[p] \cap ((now + 1)..(m.end - 1)) = {})
      => LET g    == Value(history'[p][now])
             told == WhatIf(p, m, g)
         IN  IF Month(m).days = 0 THEN Predicted(p, m, g).count = 0
             ELSE /\ \E a \in Range(Month(m).ranked)' : a.player = p /\ Level(a, told.average)
                  /\ Month(m).winners' \subseteq told.top
<1> SUFFICES ASSUME TypeOK, TypeOK', MonthsAreTables, MonthsAreTables', [Next]_vars,
                    NEW p \in Players, NEW m \in Months,
                    now \notin DOMAIN history[p], now \in DOMAIN history'[p],
                    opts = DefaultOptions, Running(m), Month(m).winners # {},
                    DOMAIN history[p] \cap ((now + 1)..(m.end - 1)) = {},
                    NEW g, g = Value(history'[p][now])
             PROVE  IF Month(m).days = 0 THEN Predicted(p, m, g).count = 0
                    ELSE /\ \E a \in Range(Month(m).ranked)' : a.player = p /\ Level(a, WhatIf(p, m, g).average)
                         /\ Month(m).winners' \subseteq WhatIf(p, m, g).top
  OBVIOUS
<1>a. Month(m).days = 0 => Predicted(p, m, g).count = 0
  BY NothingPredicted
<1>b. SUFFICES ASSUME Month(m).days # 0
               PROVE  /\ \E a \in Range(Month(m).ranked)' : a.player = p /\ Level(a, WhatIf(p, m, g).average)
                      /\ Month(m).winners' \subseteq WhatIf(p, m, g).top
  BY <1>a
<1>c. Month(m).days > 0
  BY <1>b, DaysSoFar
<1> DEFINE in      == InTable(m)
           later   == InTable(m)'
           line    == [q \in Players |-> MonthLine(m, q)]
           filed   == [q \in Players |-> MonthLine(m, q)']
           others  == {a \in Range(Month(m).ranked) : a.player # p}
           average == [q \in {p} \cup {a.player : a \in others} |->
                         IF q = p THEN Predicted(p, m, g) ELSE CHOOSE a \in others : a.player = q]
<1>1. /\ Range(Month(m).ranked) = {line[q] : q \in in} /\ in \subseteq Players
      /\ \A q \in in : line[q] \in Lines /\ line[q].player = q
  <2>1. in \subseteq Players
    BY DEF InTable
  <2>2. \A q \in in : line[q] = MonthLine(m, q)
    BY <2>1
  <2>3. /\ Range(Month(m).ranked) = {MonthLine(m, q) : q \in in}
        /\ \A q \in in : MonthLine(m, q) \in Lines /\ MonthLine(m, q).player = q
    BY DEF MonthsAreTables
  <2> HIDE DEF in, line
  <2> QED BY <2>1, <2>2, <2>3
<1>2. /\ Range(Month(m).ranked)' = {filed[q] : q \in later} /\ later \subseteq Players
      /\ \A q \in later : filed[q] \in Lines /\ filed[q].player = q
      /\ Month(m).winners' = {w \in later : \A q \in later : ~ Lower(filed[q], filed[w])}
  <2>1. later \subseteq Players
    BY DEF InTable
  <2>2. \A q \in later : filed[q] = MonthLine(m, q)'
    BY <2>1
  <2>3. /\ Range(Month(m).ranked)' = {MonthLine(m, q)' : q \in later}
        /\ \A q \in later : MonthLine(m, q)' \in Lines /\ MonthLine(m, q)'.player = q
        /\ Month(m).winners' = {w \in later : \A q \in later : ~ Lower(MonthLine(m, q), MonthLine(m, w))'}
    BY DEF MonthsAreTables
  <2>4. \A q, w \in later : Lower(MonthLine(m, q), MonthLine(m, w))' <=> Lower(filed[q], filed[w])
    BY <2>2 DEF Lower
  <2> HIDE DEF later, filed
  <2> QED BY <2>1, <2>2, <2>3, <2>4
<1>3. \A q \in Players \ {p} : filed[q] = line[q] /\ (q \in later <=> q \in in)
  BY OthersKeepTheirs
<1>4. p \in later
  <2>1. DOMAIN Rows(m.first, m.end)'[p] # {} /\ MonthLine(m, p)'.count = (now - m.first) + 1 /\ now - m.first \in Nat
    BY FiledToday
  <2>2. MonthLine(m, p)'.count > 0
    BY <2>1
  <2>3. InTable(m)' = {r \in Players : DOMAIN Rows(m.first, m.end)'[r] # {} /\ MonthLine(m, r)'.count > 0}
    BY DEF InTable
  <2> QED BY <2>1, <2>2, <2>3
<1>5. PICK k \in Nat \ {0} : /\ Predicted(p, m, g).sum = k * filed[p].sum
                             /\ Predicted(p, m, g).count = k * filed[p].count
  BY <1>c, PredictedIsFiled
<1>6. later = {p} \cup (in \ {p})
  BY <1>1, <1>2, <1>3, <1>4
<1>7. WhatIf(p, m, g).average = average[p]
      /\ WhatIf(p, m, g).top = {q \in DOMAIN average : Hundredths(average[q]) = Min({Hundredths(average[r]) : r \in DOMAIN average})}
  BY DEF WhatIf
<1> HIDE DEF in, later, line, filed
<1>8. /\ DOMAIN average = later /\ average[p] = Predicted(p, m, g)
      /\ \A q \in later \ {p} : average[q] = filed[q]
  <2>1. others = {line[q] : q \in in \ {p}}
    BY <1>1
  <2>2. {a.player : a \in others} = in \ {p}
    BY <1>1, <2>1
  <2>3. \A q \in in \ {p} : (CHOOSE a \in others : a.player = q) = line[q]
    BY <1>1, <2>1
  <2> HIDE DEF others
  <2> QED BY <1>1, <1>3, <1>6, <2>2, <2>3
<1> HIDE DEF average
<1>9. \A q \in later : filed[q].sum \in Nat /\ filed[q].count \in Nat \ {0}
  BY <1>2 DEF Lines
<1>10. Level(filed[p], average[p]) /\ average[p].sum \in Nat /\ average[p].count \in Nat \ {0}
  BY <1>4, <1>5, <1>8, <1>9, Multiples
<1>11. ASSUME NEW q \in later, NEW w \in later, ~ Lower(filed[q], filed[w]) PROVE ~ Lower(average[q], average[w])
  <2>1. CASE q = p /\ w = p
    BY <1>10, <2>1 DEF Lower
  <2>2. CASE q # p /\ w = p
    <3>1. Lower(filed[q], average[p]) <=> Lower(filed[q], filed[p])
      <4> DEFINE a == filed[p]
                 b == filed[q]
                 c == average[p]
      <4>1. /\ a.sum \in Nat /\ b.sum \in Nat /\ a.count \in Nat \ {0} /\ b.count \in Nat \ {0}
            /\ c.sum = k * a.sum /\ c.count = k * a.count
        BY <1>4, <1>5, <1>8, <1>9
      <4> HIDE DEF a, b, c
      <4>2. Lower(b, c) <=> Lower(b, a)
        BY <4>1, Multiples
      <4> QED BY <4>2 DEF a, b, c
    <3> QED BY <1>8, <1>11, <2>2, <3>1
  <2>3. CASE q = p /\ w # p
    <3>1. Lower(average[p], filed[w]) <=> Lower(filed[p], filed[w])
      BY <1>4, <1>5, <1>8, <1>9, Multiples
    <3> QED BY <1>8, <1>11, <2>3, <3>1
  <2>4. CASE q # p /\ w # p
    BY <1>8, <1>11, <2>4
  <2> QED BY <2>1, <2>2, <2>3, <2>4
<1>12. filed[p] \in Range(Month(m).ranked)' /\ filed[p].player = p /\ Level(filed[p], WhatIf(p, m, g).average)
  BY <1>2, <1>4, <1>7, <1>10
<1>13. ASSUME NEW w \in Month(m).winners' PROVE w \in WhatIf(p, m, g).top
  <2>1. w \in later /\ \A q \in later : ~ Lower(filed[q], filed[w])
    BY <1>2
  <2>2. \A q \in later : average[q].sum \in Nat /\ average[q].count \in Nat \ {0}
    BY <1>8, <1>9, <1>10
  <2>3. \A q \in later : ~ Lower(average[q], average[w])
    BY <1>11, <2>1
  <2>4. Hundredths(average[w]) = Min({Hundredths(average[q]) : q \in later})
    BY <2>1, <2>2, <2>3, BestIsShown
  <2> QED BY <1>7, <1>8, <2>1, <2>4
<1> QED BY <1>12, <1>13

\* Of every run: when the result a what-if was about is filed, the average is the one
\* predicted and whoever leads was named (reply/whatif.go).
THEOREM WhatIfComesTrueHolds == Spec => WhatIfComesTrue
<1>1. TypeOK /\ TypeOK' /\ MonthsAreTables /\ MonthsAreTables' /\ [Next]_vars =>
  [\A p \in Players, m \in Months :
    (/\ now \notin DOMAIN history[p] /\ now \in DOMAIN history'[p]
     /\ opts = DefaultOptions /\ Running(m) /\ Month(m).winners # {}
     /\ DOMAIN history[p] \cap ((now + 1)..(m.end - 1)) = {})
      => LET g    == Value(history'[p][now])
             told == WhatIf(p, m, g)
         IN  IF Month(m).days = 0 THEN Predicted(p, m, g).count = 0
             ELSE /\ \E a \in Range(Month(m).ranked)' : a.player = p /\ Level(a, told.average)
                  /\ Month(m).winners' \subseteq told.top]_vars
  BY WhatIfComesTrueStep
<1> QED BY <1>1, TypeCorrect, MonthTables, PTL DEF Spec, WhatIfComesTrue

-----------------------------------------------------------------------------
(* Records: what results that are only added do to them.                   *)

Added ==
  \A p \in Players : \A z \in DOMAIN history[p] :
    z \in DOMAIN history'[p] /\ history'[p][z] = history[p][z]

LEMMA ClockMoves ==
  ASSUME TypeOK, TypeOK', [Next]_vars
  PROVE  opts' = opts /\ now \in Nat /\ now' \in Nat /\ now <= now'
<1>1. now \in Nat /\ now' \in Nat
  BY LastDayIsADay DEF TypeOK
<1>2. opts' = opts /\ (now' = now \/ now' = now + 1)
  BY DEF Next, File, Delete, Midnight, vars
<1> QED BY <1>1, <1>2

LEMMA ImagesFinite ==
  ASSUME NEW S, IsFiniteSet(S), NEW f
  PROVE  IsFiniteSet({f[x] : x \in S})
<1> DEFINE g == [x \in S |-> f[x]]
           T == {f[x] : x \in S}
<1>1. g \in Surjection(S, T)
  BY DEF Surjection
<1> HIDE DEF g, T
<1>2. IsFiniteSet(T)
  BY <1>1, FS_Surjection
<1> QED BY <1>2 DEF T

\* A record of everybody's figures, when none of them falls.
LEMMA RecordGrows ==
  ASSUME NEW old, NEW new, \A p \in Players : old[p] \in Nat /\ new[p] \in Nat /\ old[p] <= new[p]
  PROVE  Max({old[p] : p \in Players} \cup {0}) <= Max({new[p] : p \in Players} \cup {0})
<1> DEFINE S == {old[p] : p \in Players} \cup {0}
           T == {new[p] : p \in Players} \cup {0}
<1>1. IsFiniteSet({old[p] : p \in Players}) /\ IsFiniteSet({new[p] : p \in Players})
  BY PlayersAreNumbered, ImagesFinite
<1>2. IsFiniteSet(S) /\ IsFiniteSet(T)
  BY <1>1, FS_AddElement
<1>3. S # {} /\ S \subseteq Int /\ T \subseteq Int /\ \A x \in S : \E y \in T : x <= y
  OBVIOUS
<1> HIDE DEF S, T
<1>4. Max(S) <= Max(T)
  BY <1>2, <1>3, MaxGrows
<1> QED BY <1>4 DEF S, T

\* A walk over more good days is nowhere shorter.
LEMMA WalkGrows ==
  ASSUME NEW good, NEW more, good \subseteq more, 0 \notin more,
         NEW n \in Nat, NEW k \in Nat, n <= k, NEW f, NEW g, Walk(good, n, f), Walk(more, k, g)
  PROVE  \A z \in 0..k : g[z] \in Nat /\ (z <= n => f[z] \in Nat /\ f[z] <= g[z])
<1> DEFINE Right(z) == z <= k => g[z] \in Nat /\ (z <= n => f[z] \in Nat /\ f[z] <= g[z])
           G == {z \in Nat : Right(z)}
<1>1. /\ \A z \in 0..n : f[z] = IF z \notin good THEN 0 ELSE f[z - 1] + 1
      /\ \A z \in 0..k : g[z] = IF z \notin more THEN 0 ELSE g[z - 1] + 1
  BY DEF Walk
<1>2. 0 \in G
  BY <1>1
<1>3. ASSUME NEW z \in G PROVE z + 1 \in G
  <2> DEFINE y == z + 1
  <2>1. z \in Nat /\ y \in Nat /\ y - 1 = z /\ (y <= k => z <= k) /\ (y <= n => z <= n)
    OBVIOUS
  <2>2. Right(z)
    OBVIOUS
  <2> HIDE DEF y
  <2>3. SUFFICES ASSUME y <= k PROVE g[y] \in Nat /\ (y <= n => f[y] \in Nat /\ f[y] <= g[y])
    BY <2>1 DEF y
  <2>4. y \in 0..k /\ g[y] = (IF y \notin more THEN 0 ELSE g[z] + 1) /\ g[z] \in Nat
    BY <1>1, <2>1, <2>2, <2>3
  <2>5. g[y] \in Nat
    BY <2>4
  <2>6. ASSUME y <= n PROVE f[y] \in Nat /\ f[y] <= g[y]
    <3>1. y \in 0..n /\ f[y] = (IF y \notin good THEN 0 ELSE f[z] + 1) /\ f[z] \in Nat /\ f[z] <= g[z]
      BY <1>1, <2>1, <2>2, <2>3, <2>6
    <3>2. CASE y \in good
      BY <2>4, <3>1, <3>2
    <3>3. CASE y \notin good
      BY <2>5, <3>1, <3>3
    <3> QED BY <3>2, <3>3
  <2> QED BY <2>5, <2>6
<1> HIDE DEF G
<1>4. G = Nat
  BY <1>2, <1>3, EveryNumber DEF G
<1> QED BY <1>4 DEF G

\* What is known of a run and of the number of results, to be said of the next state.
RunsAreWalks ==
  \A p \in Players, solving \in BOOLEAN :
    0 \notin Good(history[p], solving) /\ Walk(Good(history[p], solving), now, RunAt(history[p], solving))

LEMMA RunsWalk == TypeOK => RunsAreWalks
BY RunWalks DEF RunsAreWalks

HistoriesAreFinite == \A p \in Players : IsFiniteSet(DOMAIN history[p])

LEMMA ResultsAreFew == TypeOK => HistoriesAreFinite
BY FewResults DEF HistoriesAreFinite

LEMMA StreakGrows ==
  ASSUME TypeOK, TypeOK', [Next]_vars, Added, NEW p \in Players
  PROVE  /\ LongestStreak(history[p], TRUE) \in Nat /\ LongestStreak(history[p], TRUE)' \in Nat
         /\ LongestStreak(history[p], TRUE) <= LongestStreak(history[p], TRUE)'
<1> DEFINE good == Good(history[p], TRUE)
           more == Good(history[p], TRUE)'
           f    == RunAt(history[p], TRUE)
           g    == RunAt(history[p], TRUE)'
           days == 0..now
           then == 0..now'
           S    == {f[z] : z \in days}
           T    == {g[z] : z \in then}
<1>1. now \in Nat /\ now' \in Nat /\ now <= now'
  BY ClockMoves
<1>2. \A q \in Players, solving \in BOOLEAN :
        0 \notin Good(history[q], solving) /\ Walk(Good(history[q], solving), now, RunAt(history[q], solving))
  BY RunWalks
<1>3. 0 \notin good /\ Walk(good, now, f)
  BY <1>2
<1>4. 0 \notin more /\ Walk(more, now', g)
  <2>1. RunsAreWalks'
    BY RunsWalk, PTL
  <2> QED BY <2>1 DEF RunsAreWalks, Walk
<1>5. good \subseteq more
  <2>1. ASSUME NEW z \in good PROVE z \in more
    <3>1. z \in DOMAIN history[p] /\ z <= now /\ Solved(history[p][z])
      BY DEF Good
    <3>2. z \in DOMAIN history'[p] /\ history'[p][z] = history[p][z]
      BY <3>1 DEF Added
    <3>3. z \in Nat
      BY <3>1, SlotsArePlayerDays DEF TypeOK
    <3>4. z <= now'
      BY <1>1, <3>1, <3>3
    <3> QED BY <3>1, <3>2, <3>4 DEF Good, Solved
  <2> QED BY <2>1
<1> HIDE DEF good, more, f, g
<1>6. \A z \in 0..now' : g[z] \in Nat /\ (z <= now => f[z] \in Nat /\ f[z] <= g[z])
  BY <1>1, <1>3, <1>4, <1>5, WalkGrows
<1>7. \A z \in days : z \in then /\ z <= now
  BY <1>1
<1>8. IsFiniteSet(days) /\ IsFiniteSet(then) /\ 0 \in days
  <2>1. \A k \in Nat : IsFiniteSet(0..k) /\ 0 \in 0..k
    BY FS_Interval
  <2> QED BY <1>1, <2>1
<1>9. LongestStreak(history[p], TRUE) = Max(S) /\ LongestStreak(history[p], TRUE)' = Max(T)
  BY DEF LongestStreak, f, g
<1> HIDE DEF days, then
<1>10. IsFiniteSet(S) /\ IsFiniteSet(T)
  BY <1>8, ImagesFinite
<1>11. S # {} /\ S \subseteq Nat /\ T \subseteq Nat /\ \A x \in S : \E y \in T : x <= y
  BY <1>6, <1>7, <1>8 DEF then
<1> HIDE DEF S, T
<1>12. T # {} /\ S \subseteq Int /\ T \subseteq Int
  <2>1. PICK x \in S : TRUE
    BY <1>11
  <2>2. T # {}
    BY <1>11, <2>1
  <2> QED BY <1>11, <2>2
<1>13. Max(S) \in Nat /\ Max(T) \in Nat /\ Max(S) <= Max(T)
  BY <1>10, <1>11, <1>12, MaxIs, MaxGrows
<1> QED BY <1>9, <1>13

\* Under the rules the bot goes by, nobody's count of a result falls either.
LEMMA CountGrows ==
  ASSUME TypeOK, TypeOK', [Next]_vars, Added, opts = DefaultOptions, NEW p \in Players, NEW g
  PROVE  /\ HowMany(Counted(p), g) \in Nat /\ HowMany(Counted(p), g)' \in Nat
         /\ HowMany(Counted(p), g) <= HowMany(Counted(p), g)'
<1> DEFINE such == {z \in DOMAIN history[p] : Value(history[p][z]) = g}
           then == {z \in DOMAIN history'[p] : Value(history'[p][z]) = g}
<1>1. opts' = opts /\ ~ opts.hardModeOnly
  BY ClockMoves DEF DefaultOptions
<1>2. Counted(p) = history[p] /\ Counted(p)' = history'[p]
  BY <1>1 DEF Counted
<1>3. HowMany(Counted(p), g) = Cardinality(such) /\ HowMany(Counted(p), g)' = Cardinality(then)
  BY <1>2 DEF HowMany, Value, Solved
<1>4. such \subseteq then
  BY DEF Added
<1>5. IsFiniteSet(DOMAIN history[p])
  BY FewResults
<1>6. IsFiniteSet(DOMAIN history'[p])
  <2>1. HistoriesAreFinite'
    BY ResultsAreFew, PTL
  <2> QED BY <2>1 DEF HistoriesAreFinite
<1>7. such \subseteq DOMAIN history[p] /\ then \subseteq DOMAIN history'[p]
  OBVIOUS
<1> HIDE DEF such, then
<1>8. IsFiniteSet(such) /\ IsFiniteSet(then)
  BY <1>5, <1>6, <1>7, FS_Subset
<1>9. Cardinality(such) <= Cardinality(then)
  BY <1>4, <1>8, FS_Subset
<1> QED BY <1>3, <1>8, <1>9, FS_CardinalityType

\* By those rules, whoever has a result in a month has a line in its table.
PresentAreIn ==
  opts = DefaultOptions =>
    \A m \in Months, p \in Players : DOMAIN Rows(m.first, m.end)[p] # {} => p \in InTable(m)

LEMMA ResultsCount == TypeOK => PresentAreIn
<1> SUFFICES ASSUME TypeOK, opts = DefaultOptions, NEW m \in Months, NEW p \in Players,
                    DOMAIN Rows(m.first, m.end)[p] # {}
             PROVE  MonthLine(m, p).count > 0
  BY DEF PresentAreIn, InTable
<1> DEFINE rows == Rows(m.first, m.end)[p]
           days == DOMAIN rows
           over == Concluded(m.first, m.end, now)
           gaps == over \ days
<1>1. {z \in days : Counts(rows[z])} = days
  BY DEF DefaultOptions, Counts
<1>2. MonthLine(m, p).count = Cardinality(days) + Cardinality(gaps)
  BY <1>1 DEF MonthLine, MonthPlayer
<1>3. IsFiniteSet(days)
  BY RowsAreResults
<1>4. IsFiniteSet(over)
  <2>1. m.first \in Nat /\ m.end \in Nat /\ now \in Nat
    BY MonthsAreSpans, LastDayIsADay DEF TypeOK
  <2> QED BY <2>1, ConcludedFinite
<1> HIDE DEF over, days
<1>5. IsFiniteSet(gaps)
  BY <1>4, FS_Subset
<1> HIDE DEF gaps
<1>6. Cardinality(days) \in Nat /\ Cardinality(gaps) \in Nat
  BY <1>3, <1>5, FS_CardinalityType
<1>7. days # {}
  BY DEF days
<1>8. Cardinality(days) # 0
  BY <1>3, <1>7, FS_EmptySet
<1> QED BY <1>2, <1>6, <1>8

\* In a month that is over, a line stays and its average does not rise.
LEMMA LineStands ==
  ASSUME TypeOK, TypeOK', PresentAreIn', MonthsAreTables, [Next]_vars, Added, opts = DefaultOptions,
         NEW m \in Months, Complete(m), NEW p \in InTable(m)
  PROVE  p \in InTable(m)' /\ ~ Lower(MonthLine(m, p), MonthLine(m, p)')
<1> DEFINE first == m.first
           end   == m.end
           rows  == Rows(first, end)[p]
           more  == Rows(first, end)'[p]
<1>1. /\ p \in Players /\ DOMAIN rows # {}
      /\ first \in Nat /\ end \in Nat /\ now \in Nat /\ now' \in Nat /\ now <= now' /\ opts' = opts
      /\ end <= now
  BY ClockMoves, MonthsAreSpans DEF InTable, Complete
<1>2. Counted(p) = history[p] /\ Counted(p)' = history'[p]
  BY <1>1 DEF Counted, DefaultOptions
<1>3. /\ DOMAIN rows = {z \in DOMAIN history[p] : first <= z /\ z < end}
      /\ \A z \in DOMAIN rows : rows[z] = history[p][z]
  BY <1>1, <1>2 DEF Rows, RestrictDomain, Restrict
<1>4. /\ DOMAIN more = {z \in DOMAIN history'[p] : first <= z /\ z < end}
      /\ \A z \in DOMAIN more : more[z] = history'[p][z]
  BY <1>1, <1>2 DEF Rows, RestrictDomain, Restrict
<1>5. DOMAIN rows \subseteq DOMAIN more /\ \A z \in DOMAIN rows : more[z] = rows[z]
  BY <1>1, <1>3, <1>4 DEF Added
<1>6. p \in InTable(m)'
  <2>1. (opts = DefaultOptions)'
    BY <1>1
  <2>2. DOMAIN Rows(m.first, m.end)'[p] # {}
    BY <1>1, <1>5
  <2> QED BY <1>1, <2>1, <2>2 DEF PresentAreIn
<1>7. CASE DOMAIN more = DOMAIN rows
  <2>1. rows = [z \in DOMAIN rows |-> rows[z]] /\ more = [z \in DOMAIN more |-> more[z]]
    BY <1>1 DEF Rows, RestrictDomain, Restrict
  <2>2. more = rows
    <3> HIDE DEF more, rows
    <3> QED BY <1>5, <1>7, <2>1
  <2>3. Concluded(first, end, now) = Concluded(first, end, now')
    BY <1>1, FinishedAlike DEF Complete
  <2>4. MonthLine(m, p)' = MonthPlayer(p, more, Concluded(first, end, now'))
    BY <1>1 DEF MonthLine, MonthPlayer, Counts, Solved
  <2>5. MonthLine(m, p) = MonthPlayer(p, rows, Concluded(first, end, now))
    BY DEF MonthLine
  <2> HIDE DEF more, rows
  <2>6. MonthLine(m, p)' = MonthLine(m, p)
    BY <2>2, <2>3, <2>4, <2>5
  <2>7. MonthLine(m, p) \in Lines
    BY DEF MonthsAreTables
  <2>8. ~ Lower(MonthLine(m, p), MonthLine(m, p))
    BY <2>7, LowerOrders
  <2> QED BY <1>6, <2>6, <2>8
<1>8. CASE DOMAIN more # DOMAIN rows
  <2>1. PICK z \in DOMAIN more : z \notin DOMAIN rows
    BY <1>5, <1>8
  <2>2. z \in DOMAIN history'[p] /\ first <= z /\ z < end /\ z \notin DOMAIN history[p]
    BY <1>3, <1>4, <2>1
  <2> DEFINE slot == <<p, z>>
  <2>3. slot \in Slots /\ z \in Nat
    BY <1>1, <2>2, SlotsArePlayerDays DEF TypeOK
  <2>4. z < now
    BY <1>1, <2>2, <2>3
  <2>5. slot[1] = p /\ slot[2] = z
    OBVIOUS
  <2> HIDE DEF slot
  <2>6. ~ Lower(MonthPlayer(p, Rows(m.first, m.end)[p], Concluded(m.first, m.end, now)),
                MonthPlayer(p, Rows(m.first, m.end)[p], Concluded(m.first, m.end, now))')
    BY <2>2, <2>3, <2>4, <2>5, PlayingNeverHurtsStep
  <2> QED BY <1>6, <2>6 DEF MonthLine
<1> QED BY <1>7, <1>8

\* The record month is the lowest average of any line of the months that are over.
Over == {m \in Months : Complete(m) /\ InTable(m) # {}}

RecordIsLowest ==
  /\ Over = {} => RecordMonth(Tables) = None
  /\ Over # {} => \E m \in Over : \E p \in InTable(m) :
                    /\ RecordMonth(Tables).sum = MonthLine(m, p).sum
                    /\ RecordMonth(Tables).count = MonthLine(m, p).count
  /\ \A m \in Over : \A p \in InTable(m) : ~ Lower(MonthLine(m, p), RecordMonth(Tables))

\* Only so many months are over.
LEMMA OverIsFinite == IsFiniteSet(Over)
BY MonthsAreFew, FS_Subset DEF Over

LEMMA RecordMonthIs == TypeOK => RecordIsLowest
<1> SUFFICES ASSUME TypeOK PROVE RecordIsLowest
  OBVIOUS
<1> DEFINE top(m) == Month(m).ranked[1]
           Won(m) == [sum |-> top(m).sum, count |-> top(m).count]
           won    == {Won(m) : m \in Over}
           R      == {mk \in Over \X Over : Lower(top(mk[1]), top(mk[2]))}
<1>1. MonthsAreTables
  BY MonthTables
<1>2. ASSUME NEW m \in Over
      PROVE  /\ top(m) \in Lines
             /\ \E p \in InTable(m) : top(m) = MonthLine(m, p)
             /\ \A p \in InTable(m) : MonthLine(m, p) \in Lines /\ ~ Lower(MonthLine(m, p), top(m))
  <2>1. m \in Months /\ InTable(m) # {}
    BY DEF Over
  <2>2. /\ \A p \in InTable(m) : MonthLine(m, p) \in Lines
        /\ Month(m).winners =
             {p \in InTable(m) : \A q \in InTable(m) : ~ Lower(MonthLine(m, q), MonthLine(m, p))}
        /\ \E p \in Month(m).winners : top(m) = MonthLine(m, p)
    BY <1>1, <2>1 DEF MonthsAreTables
  <2> QED BY <2>2
<1>3. RecordMonth(Tables) = LowestOf(won)
  <2>1. {m \in Months : Complete(m) /\ Month(m).winners # {}} = Over
    <3>1. \A m \in Months : Month(m).winners # {} <=> InTable(m) # {}
      BY <1>1 DEF MonthsAreTables
    <3> QED BY <3>1 DEF Over
  <2>2. DOMAIN Tables = Months /\ \A m \in Months : Tables[m] = Month(m)
    BY DEF Tables
  <2>3. {m \in DOMAIN Tables : Complete(m) /\ Tables[m].winners # {}} = Over
    BY <2>1, <2>2
  <2>4. \A m \in Over : Tables[m] = Month(m)
    BY <2>2 DEF Over
  <2>5. {[sum |-> Tables[m].ranked[1].sum, count |-> Tables[m].ranked[1].count] :
           m \in {k \in DOMAIN Tables : Complete(k) /\ Tables[k].winners # {}}} = won
    BY <2>3, <2>4
  <2> HIDE DEF won
  <2> QED BY <2>5 DEF RecordMonth
<1>4. CASE Over = {}
  <2>1. won = {}
    BY <1>4
  <2> HIDE DEF won
  <2> QED BY <1>3, <1>4, <2>1 DEF LowestOf, RecordIsLowest
<1>5. CASE Over # {}
  <2>1. \A m, k \in Over : <<m, k>> \in R <=> Lower(top(m), top(k))
    OBVIOUS
  <2>2. IsFiniteSet(Over)
    BY OverIsFinite
  <2> HIDE DEF R, top
  <2>3. \A x \in Over : <<x, x>> \notin R
    BY <1>2, <2>1, LowerOrders
  <2>4. \A x, y \in Over : <<x, y>> \in R => <<y, x>> \notin R
    BY <1>2, <2>1, LowerOrders
  <2>5. \A x, y, z \in Over : <<y, x>> \notin R /\ <<z, y>> \notin R => <<z, x>> \notin R
    <3> SUFFICES ASSUME NEW x \in Over, NEW y \in Over, NEW z \in Over, <<y, x>> \notin R, <<z, y>> \notin R
                 PROVE  <<z, x>> \notin R
      OBVIOUS
    <3>1. top(x) \in Lines /\ top(y) \in Lines /\ top(z) \in Lines
      BY <1>2
    <3>2. ~ Lower(top(y), top(x)) /\ ~ Lower(top(z), top(y))
      BY <2>1
    <3>3. ~ Lower(top(z), top(x))
      BY <3>1, <3>2, LowerOrders
    <3> QED BY <2>1, <3>3
  <2>6. PICK least \in Over : \A m \in Over : <<m, least>> \notin R
    BY <1>5, <2>2, <2>3, <2>4, <2>5, LeastExists
  <2>7. \A m \in Over : ~ Lower(top(m), top(least))
    BY <2>1, <2>6
  <2>8. Won(least) \in won /\ \A b \in won : ~ Lower(b, Won(least))
    BY <2>7 DEF Lower
  <2>9. LowestOf(won) \in won /\ \A b \in won : ~ Lower(b, LowestOf(won))
    <3> HIDE DEF won, Won
    <3> QED BY <2>8 DEF LowestOf
  <2>10. PICK m \in Over : RecordMonth(Tables) = Won(m)
    BY <1>3, <2>9
  <2>11. \A k \in Over : ~ Lower(top(k), top(m))
    <3>1. \A k \in Over : Won(k) \in won
      OBVIOUS
    <3>2. \A k \in Over : ~ Lower(Won(k), Won(m))
      <4> HIDE DEF won, Won
      <4> QED BY <1>3, <2>9, <2>10, <3>1
    <3> QED BY <3>2 DEF Lower
  <2>12. \E p \in InTable(m) : /\ RecordMonth(Tables).sum = MonthLine(m, p).sum
                               /\ RecordMonth(Tables).count = MonthLine(m, p).count
    BY <1>2, <2>10
  <2>13. ASSUME NEW k \in Over, NEW p \in InTable(k) PROVE ~ Lower(MonthLine(k, p), RecordMonth(Tables))
    <3>1. /\ MonthLine(k, p) \in Lines /\ top(k) \in Lines /\ top(m) \in Lines
          /\ ~ Lower(MonthLine(k, p), top(k)) /\ ~ Lower(top(k), top(m))
      BY <1>2, <2>11
    <3>2. ~ Lower(MonthLine(k, p), top(m))
      BY <3>1, LowerOrders
    <3> QED BY <2>10, <3>2 DEF Lower
  <2> QED BY <1>5, <2>12, <2>13 DEF RecordIsLowest
<1> QED BY <1>4, <1>5

LEMMA RecordMonthStands ==
  ASSUME TypeOK, TypeOK', PresentAreIn', MonthsAreTables, MonthsAreTables', RecordIsLowest, RecordIsLowest',
         [Next]_vars, Added, opts = DefaultOptions, Has(RecordMonth(Tables))
  PROVE  Has(RecordMonth(Tables))' /\ ~ Lower(RecordMonth(Tables), RecordMonth(Tables)')
<1> DEFINE old == RecordMonth(Tables)
           new == RecordMonth(Tables)'
<1>1. now \in Nat /\ now' \in Nat /\ now <= now'
  BY ClockMoves
<1>2. Over # {}
  <2>1. old # None
    BY DEF Has, None
  <2> QED BY <2>1 DEF RecordIsLowest
<1>3. PICK m \in Over : \E p \in InTable(m) : old.sum = MonthLine(m, p).sum /\ old.count = MonthLine(m, p).count
  BY <1>2 DEF RecordIsLowest
<1>4. PICK p \in InTable(m) : old.sum = MonthLine(m, p).sum /\ old.count = MonthLine(m, p).count
  BY <1>3
<1>5. m \in Months /\ Complete(m)
  BY DEF Over
<1>6. p \in InTable(m)' /\ ~ Lower(MonthLine(m, p), MonthLine(m, p)')
  BY <1>5, LineStands
<1>7. m \in Over'
  <2>1. m.end <= now /\ m.end \in Nat
    BY <1>5, MonthsAreSpans DEF Complete
  <2>2. m.end <= now'
    BY <1>1, <2>1
  <2> QED BY <1>5, <1>6, <2>2 DEF Over, Complete
<1>8. /\ \E k \in Over' : \E q \in InTable(k)' : new.sum = MonthLine(k, q)'.sum /\ new.count = MonthLine(k, q)'.count
      /\ ~ Lower(MonthLine(m, p)', new)
  <2>1. ~ Lower(MonthLine(m, p), RecordMonth(Tables))'
    BY <1>6, <1>7 DEF RecordIsLowest
  <2>2. Over' # {}
    BY <1>7
  <2>3. \E k \in Over' : \E q \in InTable(k)' : new.sum = MonthLine(k, q)'.sum /\ new.count = MonthLine(k, q)'.count
    BY <2>2 DEF RecordIsLowest
  <2> QED BY <2>1, <2>3 DEF Lower
<1>9. PICK k \in Over' : \E q \in InTable(k)' : new.sum = MonthLine(k, q)'.sum /\ new.count = MonthLine(k, q)'.count
  BY <1>8
<1>10. PICK q \in InTable(k)' : new.sum = MonthLine(k, q)'.sum /\ new.count = MonthLine(k, q)'.count
  BY <1>9
<1>11. MonthLine(m, p) \in Lines
  BY <1>5 DEF MonthsAreTables
<1>12. MonthLine(m, p)' \in Lines
  BY <1>5, <1>6 DEF MonthsAreTables
<1>13. MonthLine(k, q)' \in Lines
  <2>1. k \in Months
    BY DEF Over
  <2> QED BY <2>1, <1>10 DEF MonthsAreTables
<1> DEFINE a == MonthLine(m, p)
           b == MonthLine(m, p)'
           c == MonthLine(k, q)'
<1>14. ~ Lower(b, c)
  BY <1>8, <1>10 DEF Lower
<1> HIDE DEF a, b, c, old, new
<1>15. ~ Lower(a, c)
  BY <1>6, <1>11, <1>12, <1>13, <1>14, LowerOrders DEF a, b, c
<1>16. ~ Lower(old, new)
  BY <1>4, <1>10, <1>15 DEF Lower, a, c
<1>17. new.count > 0
  BY <1>10, <1>13 DEF Lines
<1> QED BY <1>16, <1>17 DEF Has, old, new

\* The records of a state, and of the next one.
AllRecordsAre ==
  \A old \in AllRecords :
    /\ old.month = RecordMonth(Tables)
    /\ old.streak = Max({LongestStreak(history[p], TRUE) : p \in Players} \cup {0})
    /\ \A g \in 1..FailedAsSeven : old.counts[g] = Max({HowMany(Counted(p), g) : p \in Players} \cup {0})

LEMMA RecordsOfRows == AllRecordsAre
<1> SUFFICES ASSUME NEW old \in AllRecords
             PROVE  /\ old.month = RecordMonth(Tables)
                    /\ old.streak = Max({LongestStreak(history[p], TRUE) : p \in Players} \cup {0})
                    /\ \A g \in 1..FailedAsSeven : old.counts[g] = Max({HowMany(Counted(p), g) : p \in Players} \cup {0})
  BY DEF AllRecordsAre
<1> DEFINE rows == {Row(p) : p \in Players}
<1>1. old = [month  |-> RecordMonth(Tables), streak |-> RecordStreak(rows),
             counts |-> [g \in 1..FailedAsSeven |-> RecordCount(rows, g)]]
  BY DEF AllRecords
<1>2. \A p \in Players : Row(p).longest = LongestStreak(history[p], TRUE)
  BY DEF Row
<1>3. \A p \in Players : Row(p).dist = [g \in 1..FailedAsSeven |-> HowMany(Counted(p), g)]
  BY DEF Row
<1>4. {row.longest : row \in rows} = {LongestStreak(history[p], TRUE) : p \in Players}
  BY <1>2
<1>5. \A g \in 1..FailedAsSeven : {row.dist[g] : row \in rows} = {HowMany(Counted(p), g) : p \in Players}
  <2> SUFFICES ASSUME NEW g \in 1..FailedAsSeven
               PROVE  {row.dist[g] : row \in rows} = {HowMany(Counted(p), g) : p \in Players}
    OBVIOUS
  <2>1. \A p \in Players : Row(p).dist[g] = HowMany(Counted(p), g)
    BY <1>3
  <2> QED BY <2>1
<1> HIDE DEF rows
<1> QED BY <1>1, <1>4, <1>5 DEF RecordStreak, RecordCount

LEMMA RecordsStandStep ==
  TypeOK /\ TypeOK' /\ PresentAreIn' /\ MonthsAreTables /\ MonthsAreTables' /\ RecordIsLowest
    /\ RecordIsLowest' /\ AllRecordsAre /\ AllRecordsAre' /\ [Next]_vars =>
  ((/\ opts = DefaultOptions
    /\ \A p \in Players : \A z \in DOMAIN history[p] :
         z \in DOMAIN history'[p] /\ history'[p][z] = history[p][z])
     => \A old \in AllRecords, new \in AllRecords' :
          /\ Has(old.month) => Has(new.month) /\ ~Lower(old.month, new.month)
          /\ old.streak <= new.streak
          /\ \A g \in 1..FailedAsSeven : old.counts[g] <= new.counts[g])
<1> SUFFICES ASSUME TypeOK, TypeOK', PresentAreIn', MonthsAreTables, MonthsAreTables', RecordIsLowest,
                    RecordIsLowest', AllRecordsAre, AllRecordsAre', [Next]_vars,
                    opts = DefaultOptions, Added, NEW old \in AllRecords, NEW new \in AllRecords'
             PROVE  /\ Has(old.month) => Has(new.month) /\ ~Lower(old.month, new.month)
                    /\ old.streak <= new.streak
                    /\ \A g \in 1..FailedAsSeven : old.counts[g] <= new.counts[g]
  BY DEF Added
<1>1. Has(old.month) => Has(new.month) /\ ~ Lower(old.month, new.month)
  <2>1. old.month = RecordMonth(Tables) /\ new.month = RecordMonth(Tables)'
    BY DEF AllRecordsAre
  <2>2. Has(RecordMonth(Tables)) => Has(RecordMonth(Tables))' /\ ~ Lower(RecordMonth(Tables), RecordMonth(Tables)')
    BY RecordMonthStands
  <2> QED BY <2>1, <2>2 DEF Has
<1>2. old.streak <= new.streak
  <2> DEFINE f == [p \in Players |-> LongestStreak(history[p], TRUE)]
             g == [p \in Players |-> LongestStreak(history[p], TRUE)']
  <2>1. \A p \in Players : f[p] \in Nat /\ g[p] \in Nat /\ f[p] <= g[p]
    BY StreakGrows
  <2>2. old.streak = Max({LongestStreak(history[p], TRUE) : p \in Players} \cup {0})
        /\ new.streak = Max({LongestStreak(history[p], TRUE)' : p \in Players} \cup {0})
    BY DEF AllRecordsAre, Max
  <2>3. old.streak = Max({f[p] : p \in Players} \cup {0}) /\ new.streak = Max({g[p] : p \in Players} \cup {0})
    BY <2>2
  <2> HIDE DEF f, g
  <2> QED BY <2>1, <2>3, RecordGrows
<1>3. ASSUME NEW g \in 1..FailedAsSeven PROVE old.counts[g] <= new.counts[g]
  <2> DEFINE f == [p \in Players |-> HowMany(Counted(p), g)]
             h == [p \in Players |-> HowMany(Counted(p), g)']
  <2>1. \A p \in Players : f[p] \in Nat /\ h[p] \in Nat /\ f[p] <= h[p]
    BY CountGrows
  <2>2. old.counts[g] = Max({HowMany(Counted(p), g) : p \in Players} \cup {0})
        /\ new.counts[g] = Max({HowMany(Counted(p), g)' : p \in Players} \cup {0})
    BY DEF AllRecordsAre, Max
  <2>3. old.counts[g] = Max({f[p] : p \in Players} \cup {0}) /\ new.counts[g] = Max({h[p] : p \in Players} \cup {0})
    BY <2>2
  <2> HIDE DEF f, h
  <2> QED BY <2>1, <2>3, RecordGrows
<1> QED BY <1>1, <1>2, <1>3

\* Of every run: results that are only added lose nobody a record (reply/profile.go).
THEOREM RecordsStandHolds == Spec => RecordsStand
<1>1. TypeOK /\ TypeOK' /\ PresentAreIn' /\ MonthsAreTables /\ MonthsAreTables' /\ RecordIsLowest
        /\ RecordIsLowest' /\ AllRecordsAre /\ AllRecordsAre' /\ [Next]_vars =>
  [(/\ opts = DefaultOptions
    /\ \A p \in Players : \A z \in DOMAIN history[p] :
         z \in DOMAIN history'[p] /\ history'[p][z] = history[p][z])
     => \A old \in AllRecords, new \in AllRecords' :
          /\ Has(old.month) => Has(new.month) /\ ~Lower(old.month, new.month)
          /\ old.streak <= new.streak
          /\ \A g \in 1..FailedAsSeven : old.counts[g] <= new.counts[g]]_vars
  BY RecordsStandStep
<1> QED BY <1>1, TypeCorrect, ResultsCount, MonthTables, RecordMonthIs, RecordsOfRows, PTL
    DEF Spec, RecordsStand

-----------------------------------------------------------------------------
(* A day: its results, the best of them, and who has it.                   *)

Filers(z) == {p \in Players : z \in DOMAIN history[p]}
BestOn(z) == Min(Range(OnDay(z)))

LEMMA DayIs ==
  ASSUME TypeOK, NEW z
  PROVE  /\ IsFiniteSet(Filers(z)) /\ Cardinality(Filers(z)) \in Nat
         /\ DOMAIN OnDay(z) = Filers(z)
         /\ \A p \in Filers(z) : OnDay(z)[p] = Value(history[p][z]) /\ OnDay(z)[p] \in 1..7
         /\ Filers(z) # {} =>
              /\ BestOn(z) \in 1..7
              /\ \E p \in Filers(z) : OnDay(z)[p] = BestOn(z)
              /\ \A p \in Filers(z) : BestOn(z) <= OnDay(z)[p]
<1>1. IsFiniteSet(Filers(z)) /\ Cardinality(Filers(z)) \in Nat
  BY PlayersAreNumbered, FS_Subset, FS_CardinalityType DEF Filers
<1>2. DOMAIN OnDay(z) = Filers(z)
  BY DEF OnDay, Filers
<1>3. \A p \in Filers(z) : OnDay(z)[p] = Value(history[p][z])
  BY DEF OnDay, Filers
<1>4. \A p \in Filers(z) : Value(history[p][z]) \in 1..7
  <2>1. \A p \in Filers(z) : history[p][z] \in Result
    BY DEF Filers, TypeOK
  <2> QED BY <2>1 DEF Value, Solved, FailedAsSeven, Result
<1>5. ASSUME Filers(z) # {}
      PROVE  /\ BestOn(z) \in 1..7
             /\ \E p \in Filers(z) : OnDay(z)[p] = BestOn(z)
             /\ \A p \in Filers(z) : BestOn(z) <= OnDay(z)[p]
  <2> DEFINE T == {OnDay(z)[p] : p \in Filers(z)}
  <2>1. Range(OnDay(z)) = T
    BY <1>2 DEF Range
  <2>2. IsFiniteSet(T)
    BY <1>1, ImagesFinite
  <2>3. T # {} /\ T \subseteq 1..7
    BY <1>3, <1>4, <1>5
  <2>4. \A p \in Filers(z) : OnDay(z)[p] \in T
    OBVIOUS
  <2>5. \A x \in T : \E p \in Filers(z) : OnDay(z)[p] = x
    OBVIOUS
  <2> HIDE DEF T
  <2>6. T \subseteq Int
    BY <2>3
  <2>7. Min(T) \in T /\ \A x \in T : Min(T) <= x
    BY <2>2, <2>3, <2>6, MinIs
  <2> QED BY <2>1, <2>3, <2>4, <2>5, <2>7 DEF BestOn
<1> QED BY <1>1, <1>2, <1>3, <1>4, <1>5

\* The results of a day can be sorted, and are.
LEMMA FiledSorts ==
  ASSUME TypeOK, NEW z
  PROVE  LET n == Cardinality(Filers(z))
         IN  /\ FiledOn(z) \in [1..n -> Filers(z)] /\ Range(FiledOn(z)) = Filers(z)
             /\ \A i, j \in 1..n : i < j => OnDay(z)[FiledOn(z)[i]] <= OnDay(z)[FiledOn(z)[j]]
<1> DEFINE S == Filers(z)
           n == Cardinality(S)
           Before(p, q) == IF Value(history[p][z]) # Value(history[q][z])
                           THEN Value(history[p][z]) < Value(history[q][z])
                           ELSE IF history[p][z].hard # history[q][z].hard THEN history[p][z].hard
                           ELSE p < q
           R == {pq \in S \X S : Before(pq[1], pq[2])}
           f == FiledOn(z)
<1>1. IsFiniteSet(S) /\ n \in Nat
  BY DayIs
<1>2. \A p \in S : Value(history[p][z]) \in Int /\ history[p][z].hard \in BOOLEAN /\ p \in Int
  <2>1. \A p \in S : history[p][z] \in Result
    BY DEF Filers, TypeOK
  <2>2. \A p \in S : history[p][z].hard \in BOOLEAN
    BY <2>1 DEF Result
  <2>3. \A p \in S : Value(history[p][z]) \in Int
    BY DayIs
  <2>4. \A p \in S : p \in Int
    BY PlayersAreNumbered DEF Filers
  <2> QED BY <2>2, <2>3, <2>4
<1>3. \A p, q \in S : <<p, q>> \in R <=> Before(p, q)
  OBVIOUS
<1>4. f = CHOOSE s \in [1..n -> S] : \A i, j \in DOMAIN s : i < j => Before(s[i], s[j])
  BY DEF FiledOn, InOrder, Filers
<1> HIDE DEF S, R, f
<1>5. \A p \in S : <<p, p>> \notin R
  BY <1>2, <1>3
<1>6. \A p, q \in S : p # q => <<p, q>> \in R \/ <<q, p>> \in R
  BY <1>2, <1>3
<1>7. \A p, q, r \in S : <<p, q>> \in R /\ <<q, r>> \in R => <<p, r>> \in R
  BY <1>2, <1>3
<1>8. \E s \in [1..Cardinality(S) -> S] :
         \A i, j \in 1..Cardinality(S) : i < j => <<s[i], s[j]>> \in R
  BY <1>1, <1>5, <1>6, <1>7, SortedExists
<1>9. PICK s \in [1..n -> S] : \A i, j \in 1..n : i < j => Before(s[i], s[j])
  BY <1>3, <1>8
<1>10. DOMAIN s = 1..n /\ \A i, j \in DOMAIN s : i < j => Before(s[i], s[j])
  BY <1>9
<1> HIDE DEF n, Before
<1>11. f \in [1..n -> S] /\ \A i, j \in DOMAIN f : i < j => Before(f[i], f[j])
  BY <1>4, <1>9, <1>10
<1>12. \A i, j \in 1..n : i < j => f[i] # f[j] /\ Value(history[f[i]][z]) <= Value(history[f[j]][z])
  <2>1. ASSUME NEW i \in 1..n, NEW j \in 1..n, i < j
        PROVE  f[i] # f[j] /\ Value(history[f[i]][z]) <= Value(history[f[j]][z])
    <3>1. f[i] \in S /\ f[j] \in S /\ Before(f[i], f[j])
      BY <1>11, <2>1
    <3>2. ~ Before(f[j], f[j])
      BY <1>3, <1>5, <3>1
    <3>3. f[i] # f[j]
      BY <3>1, <3>2
    <3>4. Value(history[f[i]][z]) \in Int /\ Value(history[f[j]][z]) \in Int
      BY <1>2, <3>1
    <3> QED BY <3>1, <3>3, <3>4 DEF Before
  <2> QED BY <2>1
<1>13. \A i, j \in 1..n : i # j => f[i] # f[j]
  BY <1>1, <1>12
<1>14. f \in Injection(1..n, S)
  BY <1>11, <1>13 DEF Injection, IsInjective
<1>15. IsFiniteSet(1..n) /\ Cardinality(1..n) = n
  BY <1>1, FS_Interval
<1>16. f \in Surjection(1..n, S)
  BY <1>1, <1>14, <1>15, FS_Injection DEF n
<1>17. Range(f) = S
  BY <1>11, <1>16 DEF Range, Surjection
<1>18. \A i \in 1..n : OnDay(z)[f[i]] = Value(history[f[i]][z])
  BY <1>11, DayIs DEF S
<1> QED BY <1>11, <1>12, <1>17, <1>18 DEF f, S, n

LEMMA BestOverIs ==
  ASSUME TypeOK, NEW z
  PROVE  BestOver(z) = {p \in Filers(z) : OnDay(z)[p] = BestOn(z)}
BY DayIs DEF BestOver, BestOn

\* The head of the sorted day has the best of its results, and so has everybody who is
\* told to.
LEMMA TodayIs ==
  ASSUME TypeOK, NEW z
  PROVE  /\ Filers(z) = {} => Today(z).best = {}
         /\ Filers(z) # {} /\ BestOn(z) < 7 => Today(z).best = BestOver(z) /\ BestOver(z) # {}
         /\ Filers(z) # {} /\ ~ (BestOn(z) < 7) => /\ Today(z).best = {}
                                                   /\ \A p \in BestOver(z) : ~ Solved(history[p][z])
         /\ Range(Today(z).filed) = Filers(z)
         /\ Today(z).filed \in [1..Cardinality(Filers(z)) -> Filers(z)]
<1> DEFINE S == Filers(z)
           n == Cardinality(S)
           f == FiledOn(z)
           best == BestOn(z)
           guesses(p) == history[p][z].guesses
<1>1. /\ f \in [1..n -> S] /\ Range(f) = S
      /\ \A i, j \in 1..n : i < j => OnDay(z)[f[i]] <= OnDay(z)[f[j]]
  BY FiledSorts
<1>2. /\ IsFiniteSet(S) /\ n \in Nat
      /\ \A p \in S : OnDay(z)[p] = Value(history[p][z]) /\ OnDay(z)[p] \in 1..7
  BY DayIs
<1>3. /\ Today(z).filed = f
      /\ Today(z).best = IF f = <<>> \/ ~ Solved(history[f[1]][z]) THEN {}
                         ELSE {p \in S : guesses(p) = guesses(f[1])}
  BY <1>1 DEF Today
<1>4. BestOver(z) = {p \in S : OnDay(z)[p] = best}
  BY BestOverIs
<1>5. \A p \in S : guesses(p) \in 0..6 /\ (Solved(history[p][z]) <=> guesses(p) # 0)
  <2>1. \A p \in S : history[p][z] \in Result
    BY DEF Filers, TypeOK
  <2> QED BY <2>1 DEF Result, Solved
<1>6. \A p \in S : OnDay(z)[p] = IF guesses(p) # 0 THEN guesses(p) ELSE 7
  BY <1>2, <1>5 DEF Value, FailedAsSeven
<1> HIDE DEF S, f, best, guesses
<1>7. CASE S = {}
  <2>1. Today(z).best = {}
    BY <1>3, <1>7
  <2> QED BY <1>1, <1>3, <1>7, <2>1 DEF S, f
<1>8. CASE S # {}
  <2>1. n # 0 /\ 1 \in 1..n
    <3>1. n # 0
      BY <1>2, <1>8, FS_EmptySet
    <3> QED BY <1>2, <3>1
  <2>2. f # <<>> /\ f[1] \in S
    <3>1. DOMAIN f = 1..n /\ f[1] \in S
      BY <1>1, <2>1
    <3>2. DOMAIN <<>> = {}
      OBVIOUS
    <3>3. f # <<>>
      BY <2>1, <3>1, <3>2
    <3> QED BY <3>1, <3>3
  <2>3. \A p \in S : OnDay(z)[f[1]] <= OnDay(z)[p]
    <3>1. ASSUME NEW p \in S PROVE OnDay(z)[f[1]] <= OnDay(z)[p]
      <4>1. PICK i \in 1..n : f[i] = p
        BY <1>1 DEF Range
      <4>2. CASE i = 1
        BY <1>2, <4>1, <4>2
      <4>3. CASE i # 1
        BY <1>1, <1>2, <2>1, <4>1, <4>3
      <4> QED BY <4>2, <4>3
    <3> QED BY <3>1
  <2>4. best \in 1..7 /\ (\E p \in S : OnDay(z)[p] = best) /\ \A p \in S : best <= OnDay(z)[p]
    BY <1>8, DayIs DEF S, best
  <2>5. OnDay(z)[f[1]] = best
    <3>1. PICK p \in S : OnDay(z)[p] = best
      BY <2>4
    <3>2. OnDay(z)[f[1]] <= best /\ best <= OnDay(z)[f[1]] /\ OnDay(z)[f[1]] \in 1..7
      BY <1>2, <2>2, <2>3, <2>4, <3>1
    <3> QED BY <2>4, <3>2
  <2>6. f[1] \in BestOver(z)
    BY <1>4, <2>2, <2>5
  <2>7. CASE best < 7
    <3>1. guesses(f[1]) = best /\ guesses(f[1]) # 0
      BY <1>5, <1>6, <2>2, <2>4, <2>5, <2>7
    <3>2. \A p \in S : guesses(p) = best <=> OnDay(z)[p] = best
      BY <1>5, <1>6, <2>4, <2>7
    <3>3. Today(z).best = {p \in S : guesses(p) = best}
      BY <1>3, <1>5, <2>2, <3>1
    <3>4. Today(z).best = BestOver(z)
      BY <1>4, <3>2, <3>3
    <3> QED BY <1>1, <1>3, <1>8, <2>6, <2>7, <3>4 DEF S, f, best
  <2>8. CASE ~ (best < 7)
    <3>1. best = 7
      BY <2>4, <2>8
    <3>2. \A p \in S : OnDay(z)[p] = 7 => guesses(p) = 0
      BY <1>5, <1>6
    <3>3. Today(z).best = {}
      BY <1>3, <1>5, <2>2, <2>5, <3>1, <3>2
    <3>4. \A p \in BestOver(z) : ~ Solved(history[p][z])
      BY <1>4, <1>5, <3>1, <3>2
    <3> QED BY <1>1, <1>3, <1>8, <2>8, <3>3, <3>4 DEF S, f, best
  <2> QED BY <2>7, <2>8
<1> QED BY <1>7, <1>8

LEMMA ContestedIs ==
  ASSUME TypeOK, NEW days
  PROVE  Contested(days) = {z \in days : Cardinality(Filers(z)) >= 2 /\ BestOn(z) < 7}
BY DayIs DEF Contested, BestOn, FailedAsSeven

LEMMA DaysAgreeState == TypeOK => DaysAgree
<1> SUFFICES ASSUME TypeOK, NEW z \in 1..now
             PROVE  LET today == Today(z)
                    IN  /\ IF today.best = {} THEN \A p \in BestOver(z) : ~Solved(history[p][z])
                                              ELSE today.best = BestOver(z)
                        /\ \A p \in Players :
                             DayWins(p, {z}) = (IF p \in today.best /\ Len(today.filed) > 1 THEN 1 ELSE 0)
                        /\ today.missing \cup Range(today.filed) = Active \cup Range(today.filed)
  BY DEF DaysAgree
<1> DEFINE n == Cardinality(Filers(z))
           today == Today(z)
<1>1. n \in Nat /\ DOMAIN OnDay(z) = Filers(z) /\ (Filers(z) = {} => n = 0)
  BY DayIs, FS_EmptySet
<1>2. /\ Filers(z) = {} => today.best = {}
      /\ Filers(z) # {} /\ BestOn(z) < 7 => today.best = BestOver(z) /\ BestOver(z) # {}
      /\ Filers(z) # {} /\ ~ (BestOn(z) < 7) => today.best = {} /\ \A p \in BestOver(z) : ~ Solved(history[p][z])
      /\ Range(today.filed) = Filers(z) /\ today.filed \in [1..n -> Filers(z)]
  BY TodayIs
<1>3. BestOver(z) = {p \in Filers(z) : OnDay(z)[p] = BestOn(z)}
  BY BestOverIs
<1>4. Len(today.filed) = n
  BY <1>1, <1>2
<1>5. today.missing \cup Range(today.filed) = Active \cup Range(today.filed)
  <2>1. today.missing = Active \ Range(today.filed)
    BY DEF Today
  <2> QED BY <2>1
<1>6. ASSUME NEW p \in Players
      PROVE  DayWins(p, {z}) = (IF p \in today.best /\ Len(today.filed) > 1 THEN 1 ELSE 0)
  <2> DEFINE won == {y \in Contested({z}) : p \in DOMAIN OnDay(y) /\ OnDay(y)[p] = Min(Range(OnDay(y)))}
  <2>1. DayWins(p, {z}) = Cardinality(won)
    BY DEF DayWins
  <2>2. won = {y \in {z} : /\ Cardinality(Filers(y)) >= 2 /\ BestOn(y) < 7
                           /\ p \in DOMAIN OnDay(y) /\ OnDay(y)[p] = BestOn(y)}
    BY ContestedIs DEF BestOn
  <2>3. won = IF n >= 2 /\ BestOn(z) < 7 /\ p \in BestOver(z) THEN {z} ELSE {}
    BY <1>1, <1>3, <2>2
  <2>4. (n >= 2 /\ BestOn(z) < 7 /\ p \in BestOver(z)) <=> (p \in today.best /\ n > 1)
    <3>1. n >= 2 <=> n > 1
      BY <1>1
    <3>2. n > 1 => Filers(z) # {}
      BY <1>1
    <3> HIDE DEF n, today
    <3> QED BY <1>2, <3>1, <3>2
  <2>5. Cardinality({z}) = 1 /\ Cardinality({}) = 0
    BY FS_Singleton, FS_EmptySet
  <2> HIDE DEF won, n, today
  <2> QED BY <1>4, <2>1, <2>3, <2>4, <2>5
<1> HIDE DEF today
<1>7. IF today.best = {} THEN \A p \in BestOver(z) : ~Solved(history[p][z]) ELSE today.best = BestOver(z)
  BY <1>2, <1>3
<1> QED BY <1>5, <1>6, <1>7 DEF today

-----------------------------------------------------------------------------
(* A duel: the days two players share.                                     *)

Shared(p, q, days)   == {z \in days : {p, q} \subseteq DOMAIN OnDay(z)}
WinsOver(p, q, days) == {z \in Shared(p, q, days) : OnDay(z)[p] < OnDay(z)[q]}
Drawn(p, q, days)    == {z \in Contested(days) : {p, q} \subseteq BestOver(z)}

\* What is shared is of the days both have a result for, which are few.
LEMMA SharedIsFinite ==
  ASSUME TypeOK, NEW p \in Players, NEW q \in Players, NEW days
  PROVE  /\ IsFiniteSet(Shared(p, q, days)) /\ IsFiniteSet(WinsOver(p, q, days))
         /\ Cardinality(Shared(p, q, days)) \in Nat
         /\ Cardinality(WinsOver(p, q, days)) \in Nat
         /\ Cardinality(WinsOver(p, q, days)) <= Cardinality(Shared(p, q, days))
<1>1. \A z \in Shared(p, q, days) : z \in DOMAIN history[p]
  BY DayIs DEF Shared, Filers
<1>2. IsFiniteSet(DOMAIN history[p])
  BY FewResults
<1>3. Shared(p, q, days) \in SUBSET DOMAIN history[p]
  BY <1>1
<1>4. WinsOver(p, q, days) \in SUBSET Shared(p, q, days)
  BY DEF WinsOver
<1>5. IsFiniteSet(Shared(p, q, days))
  BY <1>2, <1>3, FS_Subset
<1>6. /\ IsFiniteSet(WinsOver(p, q, days))
      /\ Cardinality(WinsOver(p, q, days)) <= Cardinality(Shared(p, q, days))
  BY <1>4, <1>5, FS_Subset
<1> QED BY <1>5, <1>6, FS_CardinalityType

\* When nobody else is in it, the days that could be won are those that are shared and
\* were not failed by both, and the lower of the two results wins.
LEMMA DuelDay ==
  ASSUME TypeOK, NEW p \in Players, NEW q \in Players, p # q,
         \A r \in Players \ {p, q} : history[r] = <<>>, NEW z
  PROVE  /\ Cardinality(Filers(z)) >= 2 <=> {p, q} \subseteq Filers(z)
         /\ {p, q} \subseteq Filers(z) =>
              /\ OnDay(z)[p] \in 1..7 /\ OnDay(z)[q] \in 1..7
              /\ BestOn(z) = IF OnDay(z)[p] < OnDay(z)[q] THEN OnDay(z)[p] ELSE OnDay(z)[q]
<1>1. Filers(z) \subseteq {p, q}
  <2>1. DOMAIN <<>> = {}
    OBVIOUS
  <2> QED BY <2>1 DEF Filers
<1>2. Cardinality({p}) = 1 /\ Cardinality({q}) = 1 /\ IsFiniteSet({p}) /\ IsFiniteSet({q})
  BY FS_Singleton
<1>3. Cardinality({p, q}) = 2
  <2>1. {p, q} = {p} \cup {q} /\ q \notin {p}
    OBVIOUS
  <2>2. Cardinality({p} \cup {q}) = Cardinality({p}) + 1
    BY <1>2, <2>1, FS_AddElement
  <2>3. Cardinality({p, q}) = Cardinality({p}) + 1
    BY <2>1, <2>2
  <2> QED BY <1>2, <2>3
<1>4. Cardinality(Filers(z)) \in Nat
  BY DayIs
<1>5. CASE {p, q} \subseteq Filers(z)
  <2>1. Filers(z) = {p, q}
    BY <1>1, <1>5
  <2>2. Filers(z) # {}
    BY <2>1
  <2>3. OnDay(z)[p] \in 1..7 /\ OnDay(z)[q] \in 1..7
    BY <2>1, DayIs
  <2>4. /\ \E r \in {p, q} : OnDay(z)[r] = BestOn(z)
        /\ \A r \in {p, q} : BestOn(z) <= OnDay(z)[r]
        /\ BestOn(z) \in 1..7
    BY <2>1, <2>2, DayIs
  <2>5. /\ OnDay(z)[p] = BestOn(z) \/ OnDay(z)[q] = BestOn(z)
        /\ BestOn(z) <= OnDay(z)[p] /\ BestOn(z) <= OnDay(z)[q]
    BY <2>4
  <2>6. BestOn(z) = IF OnDay(z)[p] < OnDay(z)[q] THEN OnDay(z)[p] ELSE OnDay(z)[q]
    BY <2>3, <2>4, <2>5
  <2> QED BY <1>3, <2>1, <2>3, <2>6
<1>6. CASE ~ ({p, q} \subseteq Filers(z))
  <2>1. Filers(z) \in SUBSET {p} \/ Filers(z) \in SUBSET {q}
    BY <1>1, <1>6
  <2>2. Cardinality(Filers(z)) <= 1
    BY <1>2, <2>1, FS_Subset
  <2> QED BY <1>4, <1>6, <2>2
<1> QED BY <1>5, <1>6

LEMMA WinsAndDraws ==
  ASSUME TypeOK, NEW p \in Players, NEW q \in Players, p # q,
         \A r \in Players \ {p, q} : history[r] = <<>>, NEW days
  PROVE  DayWins(p, days) = Cardinality(WinsOver(p, q, days)) + Cardinality(Drawn(p, q, days))
<1> DEFINE won == {z \in Contested(days) : p \in DOMAIN OnDay(z) /\ OnDay(z)[p] = Min(Range(OnDay(z)))}
           W == WinsOver(p, q, days)
           D == Drawn(p, q, days)
<1>1. DayWins(p, days) = Cardinality(won)
  BY DEF DayWins
<1>2. won = {z \in days : /\ {p, q} \subseteq Filers(z) /\ BestOn(z) < 7 /\ OnDay(z)[p] = BestOn(z)}
  <2>1. won = {z \in days : /\ Cardinality(Filers(z)) >= 2 /\ BestOn(z) < 7
                            /\ p \in Filers(z) /\ OnDay(z)[p] = BestOn(z)}
    BY ContestedIs, DayIs DEF BestOn
  <2>2. \A z \in days : Cardinality(Filers(z)) >= 2 <=> {p, q} \subseteq Filers(z)
    BY DuelDay
  <2> QED BY <2>1, <2>2
<1>3. W = {z \in days : {p, q} \subseteq Filers(z) /\ OnDay(z)[p] < OnDay(z)[q]}
  BY DayIs DEF WinsOver, Shared
<1>4. D = {z \in days : /\ {p, q} \subseteq Filers(z) /\ BestOn(z) < 7
                        /\ OnDay(z)[p] = BestOn(z) /\ OnDay(z)[q] = BestOn(z)}
  <2>1. D = {z \in days : /\ Cardinality(Filers(z)) >= 2 /\ BestOn(z) < 7 /\ {p, q} \subseteq Filers(z)
                          /\ OnDay(z)[p] = BestOn(z) /\ OnDay(z)[q] = BestOn(z)}
    BY ContestedIs, BestOverIs DEF Drawn
  <2>2. \A z \in days : Cardinality(Filers(z)) >= 2 <=> {p, q} \subseteq Filers(z)
    BY DuelDay
  <2> QED BY <2>1, <2>2
<1>5. \A z \in days : {p, q} \subseteq Filers(z) =>
        /\ OnDay(z)[p] \in 1..7 /\ OnDay(z)[q] \in 1..7
        /\ BestOn(z) = IF OnDay(z)[p] < OnDay(z)[q] THEN OnDay(z)[p] ELSE OnDay(z)[q]
  BY DuelDay
<1> HIDE DEF won, W, D
<1>6. won = W \cup D
  <2>1. ASSUME NEW z \in won PROVE z \in W \cup D
    BY <1>2, <1>3, <1>4, <1>5, <2>1
  <2>2. ASSUME NEW z \in W PROVE z \in won
    BY <1>2, <1>3, <1>5, <2>2
  <2>3. ASSUME NEW z \in D PROVE z \in won
    BY <1>2, <1>4, <2>3
  <2> QED BY <2>1, <2>2, <2>3
<1>7. W \cap D = {}
  BY <1>3, <1>4, <1>5
<1>8. IsFiniteSet(W) /\ IsFiniteSet(D)
  <2>1. IsFiniteSet(W) /\ IsFiniteSet(Shared(p, q, days))
    BY SharedIsFinite DEF W
  <2>2. D \in SUBSET Shared(p, q, days)
    BY <1>4, DayIs DEF Shared
  <2>3. IsFiniteSet(D)
    BY <2>1, <2>2, FS_Subset
  <2> QED BY <2>1, <2>3
<1>9. Cardinality(W \cup D) = Cardinality(W) + Cardinality(D)
  BY <1>7, <1>8, CountOfBoth
<1> QED BY <1>1, <1>6, <1>9 DEF W, D

LEMMA DuelsAreDaysState == TypeOK => DuelsAreDays
<1> SUFFICES ASSUME TypeOK, NEW p \in Players, NEW q \in Players, NEW days \in Spans,
                    p < q, \A r \in Players \ {p, q} : history[r] = <<>>
             PROVE  LET duel == Duel(p, q, days)
                        even == {z \in Contested(days) : {p, q} \subseteq BestOver(z)}
                    IN  /\ DayWins(p, days) = duel.wins + Cardinality(even)
                        /\ DayWins(q, days) = duel.losses + Cardinality(even)
                        /\ duel.says = "first" => duel.wins > duel.losses
  BY DEF DuelsAreDays
<1> DEFINE S == Shared(p, q, days)
           w == Cardinality(WinsOver(p, q, days))
           l == Cardinality(WinsOver(q, p, days))
           n == Cardinality(S)
<1>1. p # q /\ {q, p} = {p, q}
  BY PlayersAreNumbered
<1>2. Shared(q, p, days) = S /\ Drawn(q, p, days) = Drawn(p, q, days)
  BY DEF Shared, Drawn
<1>3. DayWins(p, days) = w + Cardinality(Drawn(p, q, days))
  BY <1>1, WinsAndDraws
<1>4. DayWins(q, days) = l + Cardinality(Drawn(p, q, days))
  BY <1>1, <1>2, WinsAndDraws
<1>5. Duel(p, q, days).wins = w /\ Duel(p, q, days).losses = l
  <2>1. S = {z \in days : {p, q} \subseteq DOMAIN OnDay(z)}
    BY DEF Shared
  <2>2. WinsOver(q, p, days) = {z \in S : OnDay(z)[q] < OnDay(z)[p]}
    BY <1>2 DEF WinsOver
  <2> QED BY <2>1, <2>2 DEF Duel, WinsOver
<1>6. Duel(p, q, days).says = "first" => S # {} /\ 3 * w >= 2 * n
  BY DEF Duel, WinsOver, Shared
<1>7. S # {} => w + l <= n /\ n > 0
  <2> DEFINE W == WinsOver(p, q, days)
             L == WinsOver(q, p, days)
  <2>1. \A z \in S : OnDay(z)[p] \in Int /\ OnDay(z)[q] \in Int
    BY DayIs DEF Shared
  <2>2. W \cap L = {} /\ W \cup L \in SUBSET S
    BY <1>2, <2>1 DEF WinsOver
  <2>3. IsFiniteSet(W) /\ IsFiniteSet(L) /\ IsFiniteSet(S) /\ n \in Nat
    BY <1>2, SharedIsFinite
  <2> HIDE DEF W, L, S
  <2>4. Cardinality(W \cup L) = Cardinality(W) + Cardinality(L)
    BY <2>2, <2>3, CountOfBoth
  <2>5. Cardinality(W \cup L) <= Cardinality(S)
    BY <2>2, <2>3, FS_Subset
  <2>6. S # {} => Cardinality(S) # 0
    BY <2>3, FS_EmptySet
  <2> QED BY <2>3, <2>4, <2>5, <2>6 DEF W, L
<1>8. w \in Nat /\ l \in Nat /\ n \in Nat
  BY SharedIsFinite
<1> HIDE DEF w, l, n, S
<1>9. Duel(p, q, days).says = "first" => w > l
  BY <1>6, <1>7, <1>8
<1> QED BY <1>3, <1>4, <1>5, <1>9 DEF Drawn

-----------------------------------------------------------------------------
(* The bottom of a month, and the gaps above it.                           *)

\* Nobody further down a table is better than who is further up.
LEMMA SortedLines ==
  ASSUME NEW ranked, NEW n, Sorted(ranked, n), NEW i \in 1..n, NEW j \in 1..n, i <= j
  PROVE  ~ Lower(ranked[j], ranked[i]) /\ ranked[i] \in Lines /\ ranked[j] \in Lines
<1>1. ranked[i] \in Lines /\ ranked[j] \in Lines
  BY DEF Sorted
<1>2. CASE i = j
  BY <1>1, <1>2, LowerOrders
<1>3. CASE i # j
  <2>1. Above(ranked[i], ranked[j])
    BY <1>3 DEF Sorted
  <2>2. Lower(ranked[i], ranked[j]) => ~ Lower(ranked[j], ranked[i])
    BY <1>1, LowerOrders
  <2> QED BY <1>1, <2>1, <2>2 DEF Above, Level
<1> QED BY <1>2, <1>3

\* The regulars of a month are sorted as its table is.
LEMMA RegularsAreSorted ==
  ASSUME MonthsAreTables, NEW m \in Months
  PROVE  /\ Range(Regulars(Month(m))) \in SUBSET Range(Month(m).ranked)
         /\ \E k \in Nat : Sorted(Regulars(Month(m)), k) /\ Len(Regulars(Month(m))) = k
<1> DEFINE ranked == Month(m).ranked
           lines  == {a \in Range(ranked) : 7 * a.games >= 5 * Month(m).days}
           k      == Cardinality(lines)
<1>1. PICK n \in Nat : Sorted(ranked, n)
  BY DEF MonthsAreTables
<1>2. /\ Range(ranked) \in SUBSET Lines /\ \A a, b \in Range(ranked) : a.player = b.player => a = b
  BY DEF MonthsAreTables
<1>3. IsFiniteSet(Range(ranked))
  <2> DEFINE T == {ranked[i] : i \in 1..n}
  <2>1. IsFiniteSet(1..n)
    BY <1>1, FS_Interval
  <2>2. IsFiniteSet(T)
    BY <2>1, ImagesFinite
  <2>3. Range(ranked) = T
    BY <1>1 DEF Range, Sorted
  <2> QED BY <2>2, <2>3
<1>4. lines \in SUBSET Range(ranked)
  OBVIOUS
<1>5. Regulars(Month(m)) = Table(lines)
  BY DEF Regulars
<1> HIDE DEF lines
<1>6. IsFiniteSet(lines) /\ lines \in SUBSET Lines /\ \A a, b \in lines : a.player = b.player => a = b
  <2>1. IsFiniteSet(lines)
    BY <1>3, <1>4, FS_Subset
  <2> QED BY <1>2, <1>4, <2>1
<1>7. k \in Nat
  BY <1>6, FS_CardinalityType
<1>8. /\ Table(lines) \in [1..k -> lines]
      /\ \A i, j \in 1..k : i < j => Above(Table(lines)[i], Table(lines)[j])
  BY <1>6, TableSorts
<1>9. Range(Table(lines)) = lines
  BY <1>6, TableHasAll
<1> HIDE DEF k
<1>10. Sorted(Table(lines), k) /\ Len(Table(lines)) = k
  <2>1. Table(lines) \in [1..k -> Lines]
    BY <1>6, <1>8
  <2>2. Sorted(Table(lines), k)
    BY <1>7, <1>8, <2>1 DEF Sorted
  <2>3. Table(lines) \in Seq(Lines) /\ DOMAIN Table(lines) = 1..k
    BY <1>7, <2>1
  <2>4. Len(Table(lines)) = k
    BY <1>7, <2>3
  <2> QED BY <2>2, <2>4
<1> QED BY <1>4, <1>5, <1>7, <1>9, <1>10

\* When a winner is last, all who could be named are level.
LEMMA LastIsFirst ==
  ASSUME MonthsAreTables, NEW m \in Months, Bottom(Month(m)) \cap Month(m).winners # {}
  PROVE  {a.player : a \in Range(Regulars(Month(m)))} \subseteq Bottom(Month(m))
<1> DEFINE regulars == Regulars(Month(m))
           k == Len(regulars)
<1>1. /\ Range(regulars) \in SUBSET Range(Month(m).ranked)
      /\ k \in Nat /\ Sorted(regulars, k)
  BY RegularsAreSorted
<1>2. /\ Bottom(Month(m)) = IF k < 2 THEN {} ELSE {a.player : a \in {b \in Range(regulars) : Level(b, regulars[k])}}
  BY DEF Bottom
<1>3. k >= 2
  BY <1>1, <1>2
<1>4. Range(Month(m).ranked) = {MonthLine(m, p) : p \in InTable(m)}
  BY DEF MonthsAreTables
<1>5. PICK b \in Range(regulars) : Level(b, regulars[k]) /\ b.player \in Month(m).winners
  BY <1>2, <1>3
<1>6. PICK p \in InTable(m) : b = MonthLine(m, p)
  BY <1>1, <1>4, <1>5
<1>7. \A c \in Range(regulars) : ~ Lower(c, b)
  <2>1. MonthLine(m, p).player = p
    BY DEF MonthsAreTables
  <2>2. \A q \in InTable(m) : ~ Lower(MonthLine(m, q), MonthLine(m, p))
    BY <1>5, <1>6, <2>1 DEF MonthsAreTables
  <2> QED BY <1>1, <1>4, <1>6, <2>2
<1> HIDE DEF regulars, k
<1>8. DOMAIN regulars = 1..k
  BY <1>1 DEF Sorted
<1>9. ASSUME NEW c \in Range(regulars) PROVE Level(c, regulars[k])
  <2>1. PICK i \in 1..k : c = regulars[i]
    BY <1>8 DEF Range
  <2>2. ~ Lower(regulars[k], c) /\ c \in Lines /\ regulars[k] \in Lines
    BY <1>1, <1>3, <2>1, SortedLines
  <2>3. b \in Lines
    BY <1>6 DEF MonthsAreTables
  <2>4. ~ Lower(c, regulars[k])
    BY <1>5, <1>7, <2>2, <2>3, LowerOrders DEF Level
  <2> QED BY <2>2, <2>4 DEF Level
<1>10. Bottom(Month(m)) = {a.player : a \in Range(regulars)}
  <2>1. {a \in Range(regulars) : Level(a, regulars[k])} = Range(regulars)
    BY <1>9
  <2>2. ~ (k < 2)
    BY <1>1, <1>3
  <2> QED BY <1>2, <2>1, <2>2
<1> QED BY <1>10 DEF regulars

\* Who is not a winner has the next better average above, and a place after the first.
LEMMA BehindSomebody ==
  ASSUME TypeOK, MonthsAreTables, RanksAreEarned, NEW m \in Months, NEW i \in DOMAIN Month(m).ranked,
         Gap(Month(m), i).says = "behind"
  PROVE  Gap(Month(m), i).who # {} /\ Month(m).places[i] > 1
<1> DEFINE ranked == Month(m).ranked
           mine   == ranked[i]
           above  == {a \in Range(ranked) : Lower(a, mine)}
           next   == {a \in above : \A b \in above : ~ Lower(a, b)}
           R      == {ab \in above \X above : Lower(ab[2], ab[1])}
<1>1. PICK n \in Nat : Sorted(ranked, n)
  BY DEF MonthsAreTables
<1>2. DOMAIN ranked = 1..n /\ Range(ranked) = {ranked[j] : j \in 1..n} /\ Range(ranked) \subseteq Lines
  BY <1>1 DEF Sorted, Range
<1>3. Gap(Month(m), i).says = IF mine.player \in Month(m).winners
                              THEN IF Month(m).winners # {mine.player} THEN "level"
                                   ELSE IF RunnersUp(Month(m)) = {} THEN "nothing" ELSE "clear"
                              ELSE "behind"
  BY DEF Gap
<1>4. mine.player \notin Month(m).winners
  BY <1>3
<1>5. Gap(Month(m), i).who = {a.player : a \in next}
  BY <1>4 DEF Gap
<1>6. mine \in Range(ranked)
  BY DEF Range
<1>7. above # {}
  <2>1. PICK p \in InTable(m) : mine = MonthLine(m, p)
    BY <1>6 DEF MonthsAreTables
  <2>2. mine.player = p
    BY <2>1 DEF MonthsAreTables
  <2>3. PICK q \in InTable(m) : Lower(MonthLine(m, q), MonthLine(m, p))
    BY <1>4, <2>2 DEF MonthsAreTables
  <2>4. MonthLine(m, q) \in Range(ranked)
    BY DEF MonthsAreTables
  <2> QED BY <2>1, <2>3, <2>4
<1>8. IsFiniteSet(above)
  <2> DEFINE T == {ranked[j] : j \in 1..n}
  <2>1. IsFiniteSet(1..n)
    BY FS_Interval
  <2>2. IsFiniteSet(T)
    BY <2>1, ImagesFinite
  <2>3. above \in SUBSET T
    BY <1>2
  <2> HIDE DEF T, above
  <2> QED BY <2>2, <2>3, FS_Subset
<1>9. \A a, b \in above : <<a, b>> \in R <=> Lower(b, a)
  OBVIOUS
<1>10. above \subseteq Lines
  BY <1>2
<1>11. above = {a \in Range(ranked) : Lower(a, mine)} /\ next = {a \in above : \A b \in above : ~ Lower(a, b)}
  OBVIOUS
<1> HIDE DEF above, R, next
<1>12. \E a \in above : \A b \in above : <<b, a>> \notin R
  <2>1. \A x \in above : <<x, x>> \notin R
    BY <1>9, <1>10, LowerOrders
  <2>2. \A x, y \in above : <<x, y>> \in R => <<y, x>> \notin R
    BY <1>9, <1>10, LowerOrders
  <2>3. \A x, y, z \in above : <<y, x>> \notin R /\ <<z, y>> \notin R => <<z, x>> \notin R
    BY <1>9, <1>10, LowerOrders
  <2> QED BY <1>7, <1>8, <2>1, <2>2, <2>3, LeastExists
<1>13. next # {}
  BY <1>9, <1>11, <1>12
<1>14. Month(m).places[i] > 1
  <2> DEFINE J == {j \in DOMAIN ranked : Lower(ranked[j], ranked[i])}
  <2>1. Month(m).places[i] = 1 + Cardinality(J)
    BY DEF RanksAreEarned
  <2>2. J # {}
    BY <1>2, <1>7, <1>11
  <2>3. IsFiniteSet(J)
    BY <1>2, FS_Interval, FS_Subset
  <2> HIDE DEF J
  <2>4. Cardinality(J) # 0 /\ Cardinality(J) \in Nat
    BY <2>2, <2>3, FS_EmptySet, FS_CardinalityType
  <2> QED BY <2>1, <2>4
<1> QED BY <1>5, <1>13, <1>14

\* A month of one line has a leader alone, and no other has.
LEMMA AloneIsOne ==
  ASSUME MonthsAreTables, NEW m \in Months
  PROVE  Leader(Month(m)).says = "alone" <=> Len(Month(m).ranked) = 1
<1> DEFINE ranked  == Month(m).ranked
           winners == Month(m).winners
           next    == RunnersUp(Month(m))
           w       == Cardinality(winners)
<1>1. PICK n \in Nat : Sorted(ranked, n)
  BY DEF MonthsAreTables
<1>2. DOMAIN ranked = 1..n /\ Range(ranked) = {ranked[j] : j \in 1..n} /\ Range(ranked) \subseteq Lines
  BY <1>1 DEF Sorted, Range
<1>3. Len(ranked) = n
  BY <1>1 DEF Sorted
<1>4. next = IF w + 1 > n THEN {}
             ELSE {a.player : a \in {b \in Range(ranked) : Level(b, ranked[w + 1])}}
  BY <1>3 DEF RunnersUp
<1>5. Leader(Month(m)).says = IF winners = {} THEN "none"
                              ELSE IF w > 1 THEN "tie"
                              ELSE IF next = {} THEN "alone" ELSE "margin"
  BY DEF Leader
<1>6. winners \in SUBSET {a.player : a \in Range(ranked)}
  BY DEF MonthsAreTables
<1>7. n # 0 => winners # {}
  <2>1. n # 0 => 1 \in 1..n
    BY <1>1
  <2>2. n # 0 => Range(ranked) # {}
    BY <1>2, <2>1
  <2>3. Range(ranked) = {MonthLine(m, p) : p \in InTable(m)}
    BY DEF MonthsAreTables
  <2>4. n # 0 => InTable(m) # {}
    BY <2>2, <2>3
  <2> QED BY <2>4 DEF MonthsAreTables
<1>8. winners # {} => n # 0
  BY <1>2, <1>6
<1>9. IsFiniteSet(winners)
  <2> DEFINE f == [j \in 1..n |-> ranked[j].player]
             T == {f[j] : j \in 1..n}
  <2>1. IsFiniteSet(1..n)
    BY FS_Interval
  <2>2. IsFiniteSet(T)
    BY <2>1, ImagesFinite
  <2>3. winners \in SUBSET T
    BY <1>2, <1>6
  <2> HIDE DEF T, winners
  <2> QED BY <2>2, <2>3, FS_Subset
<1>10. w \in Nat /\ (winners # {} => w # 0)
  BY <1>9, FS_EmptySet, FS_CardinalityType
<1>11. n = 1 => w <= 1
  <2> SUFFICES ASSUME n = 1 PROVE w <= 1
    OBVIOUS
  <2>1. \A j \in 1..n : j = 1
    OBVIOUS
  <2>2. winners \in SUBSET {ranked[1].player}
    BY <1>2, <1>6, <2>1
  <2>3. IsFiniteSet({ranked[1].player}) /\ Cardinality({ranked[1].player}) = 1
    BY FS_Singleton
  <2> HIDE DEF winners
  <2> QED BY <2>2, <2>3, FS_Subset
<1>12. ~ (w + 1 > n) => next # {}
  <2> SUFFICES ASSUME ~ (w + 1 > n) PROVE next # {}
    OBVIOUS
  <2>1. w + 1 \in 1..n
    BY <1>10
  <2>2. ranked[w + 1] \in Range(ranked) /\ ranked[w + 1] \in Lines
    BY <1>2, <2>1
  <2>3. Level(ranked[w + 1], ranked[w + 1])
    BY <2>2, LowerOrders DEF Level
  <2> QED BY <1>4, <2>2, <2>3
<1> HIDE DEF next, w, winners, ranked
<1> QED BY <1>3, <1>4, <1>5, <1>7, <1>8, <1>10, <1>11, <1>12 DEF ranked

LEMMA LastIsNotFirstState == TypeOK => LastIsNotFirst
<1> SUFFICES ASSUME TypeOK, NEW m \in Months
             PROVE  LET month == Month(m)
                    IN  /\ Bottom(month) \cap month.winners # {} =>
                             {a.player : a \in Range(Regulars(month))} \subseteq Bottom(month)
                        /\ \A i \in DOMAIN month.ranked :
                             LET gap == Gap(month, i)
                             IN  /\ gap.says = "behind" => gap.who # {} /\ month.places[i] > 1
                                 /\ gap.says = "clear"  => gap.who = RunnersUp(month)
                        /\ Leader(month).says = "alone" <=> Len(month.ranked) = 1
  BY DEF LastIsNotFirst
<1>1. MonthsAreTables /\ RanksAreEarned
  BY MonthTables, RanksAreEarnedState
<1>2. \A i \in DOMAIN Month(m).ranked :
        /\ Gap(Month(m), i).says = "behind" => Gap(Month(m), i).who # {} /\ Month(m).places[i] > 1
        /\ Gap(Month(m), i).says = "clear"  => Gap(Month(m), i).who = RunnersUp(Month(m))
  <2>1. ASSUME NEW i \in DOMAIN Month(m).ranked, Gap(Month(m), i).says = "clear"
        PROVE  Gap(Month(m), i).who = RunnersUp(Month(m))
    BY <2>1 DEF Gap
  <2> QED BY <1>1, <2>1, BehindSomebody
<1> QED BY <1>1, <1>2, LastIsFirst, AloneIsOne

-----------------------------------------------------------------------------
(* The race of a running month.                                            *)

\* What some results come to, and some others.
LEMMA TotalOfBoth ==
  ASSUME NEW results, NEW S, NEW T, IsFiniteSet(S), IsFiniteSet(T), S \cap T = {},
         \A z \in S \cup T : results[z] \in Result
  PROVE  Total(results, S \cup T) = Total(results, S) + Total(results, T)
<1> DEFINE f == [z \in S |-> Value(results[z])]
           g == [z \in T |-> Value(results[z])]
           h == [z \in S \cup T |-> Value(results[z])]
<1>1. IsFiniteSet(S \cup T)
  BY FS_Union
<1>2. \A z \in S \cup T : h[z] \in Nat /\ (z \in S => h[z] = f[z]) /\ (z \in T => h[z] = g[z])
  BY DEF Value, FailedAsSeven, Result
<1>3. /\ Total(results, S) = SumOver(f, S) /\ Total(results, T) = SumOver(g, T)
      /\ Total(results, S \cup T) = SumOver(h, S \cup T)
  BY <1>1, TotalIsSum
<1> HIDE DEF f, g, h
<1>4. SumOver(h, S) = SumOver(f, S)
  BY <1>2, SumSame
<1>5. SumOver(h, T) = SumOver(g, T)
  BY <1>2, SumSame
<1>6. SumOver(h, S \cup T) = SumOver(h, S) + SumOver(h, T)
  BY <1>2, SumOfBoth
<1> QED BY <1>3, <1>4, <1>5, <1>6

\* Results that are the same come to the same.
LEMMA TotalSame ==
  ASSUME NEW results, NEW other, NEW S, IsFiniteSet(S), \A z \in S : results[z] = other[z]
  PROVE  Total(results, S) = Total(other, S)
<1> DEFINE f == [z \in S |-> Value(results[z])]
           g == [z \in S |-> Value(other[z])]
<1>1. Total(results, S) = SumOver(f, S) /\ Total(other, S) = SumOver(g, S)
  BY TotalIsSum
<1>2. \A z \in S : f[z] = g[z]
  OBVIOUS
<1> HIDE DEF f, g
<1> QED BY <1>1, <1>2, SumSame

\* So many results of one guess.
LEMMA TotalOfOnes ==
  ASSUME NEW results, NEW S, IsFiniteSet(S), \A z \in S : results[z].guesses = 1
  PROVE  Total(results, S) = Cardinality(S)
<1> DEFINE f == [z \in S |-> Value(results[z])]
<1>1. Total(results, S) = SumOver(f, S)
  BY TotalIsSum
<1>2. \A z \in S : f[z] = 1
  BY DEF Value, Solved
<1> HIDE DEF f
<1> QED BY <1>1, <1>2, SumOfOnes

\* The days of a running month that are in a player's average, those that are left, and
\* where a one on each of these would leave the player.
LEMMA RaceIs ==
  ASSUME TypeOK, NEW p \in Players, NEW m \in Months, opts = DefaultOptions, Running(m),
         DOMAIN history[p] \cap ((now + 1)..(m.end - 1)) = {}, FirstDay(m) = m.first
  PROVE  /\ Scored(p, m) \in Nat /\ Left(p, m) \in Nat /\ m.end - m.first \in Nat \ {0}
         /\ Scored(p, m) + Left(p, m) = m.end - m.first
         /\ MonthLine(m, p).sum \in Nat /\ MonthLine(m, p).count = Scored(p, m)
         /\ BestFinish(p, m).sum = MonthLine(m, p).sum + Left(p, m)
         /\ BestFinish(p, m).count = m.end - m.first
<1> DEFINE first == m.first
           end   == m.end
           mine  == Rows(first, end)[p]
           D     == DOMAIN mine
           over  == Concluded(first, end, now)
           gaps  == over \ D
           open  == {z \in now..(end - 1) : z \notin DOMAIN history[p]}
           in    == IF now \in DOMAIN history[p] THEN 1 ELSE 0
           one   == [guesses |-> 1, hard |-> FALSE]
           fin   == [z \in D \cup open |-> IF z \in open THEN one ELSE mine[z]]
<1>1. /\ first \in Nat \ {0} /\ end \in Nat /\ now \in Nat /\ first <= now /\ now < end
  BY MonthsAreSpans, LastDayIsADay DEF TypeOK, Running
<1>2. ~ opts.hardModeOnly /\ \A r : Counts(r)
  BY DEF DefaultOptions, Counts
<1>3. /\ D = {y \in DOMAIN history[p] : first <= y /\ y < end}
      /\ IsFiniteSet(D) /\ \A y \in D : mine[y] \in Result
  BY <1>2, RowsAreResults DEF Counted
<1>4. \A y \in DOMAIN history[p] : y \in Nat /\ y \notin (now + 1)..(end - 1)
  <2>1. \A y \in DOMAIN history[p] : y \in Nat
    BY <1>1, FewResults
  <2> QED BY <2>1
<1>5. over = first..(now - 1) /\ Concluded(first, end, end) = first..(end - 1)
  BY <1>1 DEF Concluded, Later, Earlier
<1>6. Scored(p, m) = (now - first) + in /\ Left(p, m) = (end - now) - in /\ in \in {0, 1}
      /\ (in = 1 <=> now \in DOMAIN history[p])
  BY <1>1 DEF Scored, Left
<1> HIDE DEF in
<1>7. D \cup gaps = first..(now - 1 + in) /\ D \cap gaps = {}
  <2>1. ASSUME NEW y \in D PROVE y \in first..(now - 1 + in)
    <3>1. y \in Nat /\ first <= y /\ y < end /\ y \in DOMAIN history[p] /\ y \notin (now + 1)..(end - 1)
      BY <1>3, <1>4
    <3>2. CASE y = now
      BY <1>1, <1>6, <3>1, <3>2
    <3>3. CASE y # now
      BY <1>1, <1>6, <3>1, <3>3
    <3> QED BY <3>2, <3>3
  <2>2. ASSUME NEW y \in gaps PROVE y \in first..(now - 1 + in)
    BY <1>1, <1>5, <1>6
  <2>3. ASSUME NEW y \in first..(now - 1 + in) PROVE y \in D \cup gaps
    <3>1. CASE y = now
      BY <1>1, <1>3, <1>6, <3>1
    <3>2. CASE y # now
      BY <1>1, <1>5, <1>6, <3>2
    <3> QED BY <3>1, <3>2
  <2> QED BY <2>1, <2>2, <2>3
<1>8. open = (now + in)..(end - 1)
  <2>1. ASSUME NEW y \in open PROVE y \in (now + in)..(end - 1)
    BY <1>1, <1>6
  <2>2. ASSUME NEW y \in (now + in)..(end - 1) PROVE y \in open
    BY <1>1, <1>4, <1>6
  <2> QED BY <2>1, <2>2
<1>9. (first..(end - 1)) \ (D \cup open) = gaps /\ D \cap open = {}
  <2>1. D \cap open = {}
    BY <1>3
  <2>2. ASSUME NEW y \in gaps PROVE y \in (first..(end - 1)) \ (D \cup open)
    BY <1>1, <1>5, <1>6, <1>8
  <2>3. ASSUME NEW y \in (first..(end - 1)) \ (D \cup open) PROVE y \in gaps
    <3>1. y \in first..(now - 1 + in) \/ y \in open
      BY <1>1, <1>6, <1>8
    <3> QED BY <1>7, <3>1
  <2> QED BY <2>1, <2>2, <2>3
<1>10. IsFiniteSet(D) /\ IsFiniteSet(gaps) /\ IsFiniteSet(open)
  <2>1. IsFiniteSet(over)
    BY <1>1, ConcludedFinite
  <2> HIDE DEF over, D
  <2>2. IsFiniteSet(gaps)
    BY <2>1, FS_Subset
  <2>3. IsFiniteSet(open)
    <3> HIDE DEF open
    <3> QED BY <1>1, <1>6, <1>8, FS_Interval
  <2> QED BY <1>3, <2>2, <2>3
<1> DEFINE d == Cardinality(D)
           k == Cardinality(gaps)
           l == Cardinality(open)
<1>11. d \in Nat /\ k \in Nat /\ l \in Nat
  BY <1>10, FS_CardinalityType
<1>12. d + k = (now - first) + in
  <2> HIDE DEF gaps, D
  <2>1. Cardinality(D \cup gaps) = d + k
    BY <1>7, <1>10, CountOfBoth
  <2>2. first \in Int /\ now - 1 + in \in Int
    BY <1>1, <1>6
  <2> DEFINE top == now - 1 + in
  <2> HIDE DEF first, top
  <2>3. Cardinality(first..top) = IF first > top THEN 0 ELSE top - first + 1
    BY <2>2, FS_Interval DEF top
  <2>4. Cardinality(first..top) = d + k
    BY <1>7, <2>1 DEF top
  <2>5. top = now - 1 + in
    BY DEF top
  <2> HIDE DEF d, k
  <2> QED BY <1>1, <1>6, <2>3, <2>4, <2>5
<1>13. l = (end - now) - in
  <2>1. now + in \in Int /\ end - 1 \in Int
    BY <1>1, <1>6
  <2> DEFINE a == now + in
             b == end - 1
  <2>2. l = Cardinality(a..b)
    BY <1>8
  <2> HIDE DEF a, b, l
  <2>3. Cardinality(a..b) = IF a > b THEN 0 ELSE b - a + 1
    BY <2>1, FS_Interval DEF a, b
  <2> QED BY <1>1, <1>6, <2>2, <2>3 DEF a, b
<1>14. MonthLine(m, p).sum = Total(mine, D) + 7 * k /\ MonthLine(m, p).count = d + k
  <2>1. {z \in DOMAIN mine : Counts(mine[z])} = D
    BY <1>2
  <2> QED BY <2>1 DEF MonthLine, MonthPlayer, FailedAsSeven
<1>15. /\ BestFinish(p, m).sum = Total(fin, D \cup open) + 7 * k
       /\ BestFinish(p, m).count = Cardinality(D \cup open) + k
  <2>1. DOMAIN fin = D \cup open /\ {z \in DOMAIN fin : Counts(fin[z])} = D \cup open
    BY <1>2
  <2>2. BestFinish(p, m) = MonthPlayer(p, fin, first..(end - 1))
    BY <1>5 DEF BestFinish
  <2> HIDE DEF fin, gaps, open, mine, D, first, end
  <2>3. /\ MonthPlayer(p, fin, first..(end - 1)).sum =
             Total(fin, D \cup open) + 7 * Cardinality((first..(end - 1)) \ (D \cup open))
        /\ MonthPlayer(p, fin, first..(end - 1)).count =
             Cardinality(D \cup open) + Cardinality((first..(end - 1)) \ (D \cup open))
    BY <2>1 DEF MonthPlayer, FailedAsSeven
  <2> QED BY <1>9, <2>2, <2>3
<1>16. /\ Total(mine, D) \in Nat
       /\ Total(fin, D \cup open) = Total(mine, D) + l
       /\ Cardinality(D \cup open) = d + l
  <2>1. one \in Result /\ one.guesses = 1
    BY DEF Result
  <2>2. \A z \in D : fin[z] = mine[z]
    BY <1>9
  <2>3. \A z \in open : fin[z] = one
    OBVIOUS
  <2> HIDE DEF fin, gaps, open, mine, D, one
  <2>4. \A z \in D \cup open : fin[z] \in Result
    BY <1>3, <2>1, <2>2, <2>3
  <2>5. Total(fin, D \cup open) = Total(fin, D) + Total(fin, open)
    BY <1>9, <1>10, <2>4, TotalOfBoth
  <2>6. Total(fin, D) = Total(mine, D)
    BY <1>10, <2>2, TotalSame
  <2>7. \A z \in open : fin[z].guesses = 1
    BY <2>1, <2>3
  <2>8. Total(fin, open) = l
    BY <1>10, <2>7, TotalOfOnes
  <2>9. Cardinality(D \cup open) = d + l
    BY <1>9, <1>10, CountOfBoth
  <2>10. Total(mine, D) \in Nat
    BY <1>3, TotalBound
  <2> QED BY <2>5, <2>6, <2>8, <2>9, <2>10
<1> DEFINE t == Total(mine, D)
<1>17. t \in Nat
  BY <1>16
<1>18. /\ MonthLine(m, p).sum = t + 7 * k /\ MonthLine(m, p).count = d + k
       /\ BestFinish(p, m).sum = (t + l) + 7 * k /\ BestFinish(p, m).count = (d + l) + k
  BY <1>14, <1>15, <1>16
<1> HIDE DEF t, d, k, l, D, gaps, open, mine, fin, over
<1>19. /\ Scored(p, m) \in Nat /\ Left(p, m) \in Nat /\ end - first \in Nat \ {0}
       /\ Scored(p, m) + Left(p, m) = end - first
       /\ d + k = Scored(p, m) /\ l = Left(p, m)
  <2> HIDE DEF first, end
  <2> QED BY <1>1, <1>6, <1>12, <1>13
<1> QED BY <1>11, <1>17, <1>18, <1>19

\* The arithmetic of the race: n days, s of them scored at x, l left, and a leader at ls by lc.
LEMMA RaceArithmetic ==
  ASSUME NEW n \in Nat \ {0}, NEW s \in Nat \ {0}, NEW l \in Nat, s + l = n,
         NEW x \in Nat, NEW ls \in Nat, NEW lc \in Nat \ {0}
  PROVE  (n * ls * s - s * x * lc) * 1 < 1 * (l * lc * s) <=> ls * n < (x + l) * lc
<1> DEFINE A == ls * n
           B == x * lc
           C == l * lc
<1>1. A \in Nat /\ B \in Nat /\ C \in Nat
  OBVIOUS
<1>2. n * ls * s = A * s /\ s * x * lc = B * s /\ l * lc * s = C * s /\ (x + l) * lc = B + C
  OBVIOUS
<1> HIDE DEF A, B, C
<1>3. A < B + C <=> A * s < (B + C) * s
  <2>1. B + C \in Nat
    BY <1>1
  <2> QED BY <1>1, <2>1, Times
<1>4. (B + C) * s = B * s + C * s
  BY <1>1
<1>5. A * s \in Nat /\ B * s \in Nat /\ C * s \in Nat
  BY <1>1
<1>6. \A a, b, c \in Nat : (a - b) * 1 < 1 * c <=> a < b + c
  OBVIOUS
<1> QED BY <1>2, <1>3, <1>4, <1>5, <1>6 DEF A

LEMMA RaceIsTheMonthsState == TypeOK /\ opts = DefaultOptions => RaceIsTheMonths
<1> SUFFICES ASSUME TypeOK, opts = DefaultOptions, NEW m \in Months, Running(m),
                    NEW i \in DOMAIN Month(m).ranked, Month(m).ranked[i].player \notin Month(m).winners,
                    DOMAIN history[Month(m).ranked[i].player] \cap ((now + 1)..(m.end - 1)) = {}
             PROVE  Catchup(Month(m).ranked[i], m) \in {"impossible", "over"}
                      <=> Lower(Month(m).ranked[1], BestFinish(Month(m).ranked[i].player, m))
  BY DEF RaceIsTheMonths
<1> DEFINE mine   == Month(m).ranked[i]
           leader == Month(m).ranked[1]
           p      == mine.player
           s      == Scored(p, m)
           l      == Left(p, m)
           n      == m.end - m.first
           best   == BestFinish(p, m)
<1>1. MonthsAreTables
  BY MonthTables
<1>2. mine \in Range(Month(m).ranked)
  BY DEF Range
<1>3. p \in InTable(m) /\ mine = MonthLine(m, p) /\ mine \in Lines
  BY <1>1, <1>2 DEF MonthsAreTables
<1>4. p \in Players
  BY <1>3 DEF InTable
<1>5. PICK w \in Month(m).winners : leader = MonthLine(m, w)
  BY <1>1, <1>3 DEF MonthsAreTables
<1>6. w \in InTable(m) /\ leader \in Lines /\ \A q \in InTable(m) : ~ Lower(MonthLine(m, q), leader)
  BY <1>1, <1>5 DEF MonthsAreTables
<1>7. Lower(leader, mine)
  <2>1. PICK q \in InTable(m) : Lower(MonthLine(m, q), mine)
    BY <1>1, <1>3 DEF MonthsAreTables
  <2>2. MonthLine(m, q) \in Lines /\ ~ Lower(MonthLine(m, q), leader)
    BY <1>1, <1>6 DEF MonthsAreTables
  <2> HIDE DEF mine, leader
  <2> QED BY <1>3, <1>6, <2>1, <2>2, LowerOrders
<1>a. FirstDay(m) = m.first
  <2>1. Month(m).days > 0
    BY <1>3, <1>4, PlayedIsADay DEF InTable
  <2> QED BY <2>1 DEF FirstDay
<1>8. /\ s \in Nat /\ l \in Nat /\ n \in Nat \ {0} /\ s + l = n
      /\ mine.sum \in Nat /\ mine.count = s /\ best.sum = mine.sum + l /\ best.count = n
  BY <1>3, <1>4, <1>a, RaceIs
<1>9. leader.sum \in Nat /\ leader.count \in Nat \ {0} /\ mine.count \in Nat \ {0}
  BY <1>3, <1>6 DEF Lines
<1>10. Need(mine, m).sum = n * leader.sum * mine.count - s * mine.sum * leader.count
       /\ Need(mine, m).count = l * leader.count * mine.count
  BY <1>a DEF Need
<1>11. Catchup(mine, m) = IF p \in Month(m).winners THEN "leads"
                          ELSE IF l = 0 THEN "over"
                          ELSE IF Lower(Need(mine, m), One) THEN "impossible"
                          ELSE IF Lower(Need(mine, m), Two) THEN "hard" ELSE "possible"
  BY DEF Catchup
<1>12. Catchup(mine, m) \in {"impossible", "over"} <=> l = 0 \/ Lower(Need(mine, m), One)
  BY <1>11
<1> DEFINE x  == mine.sum
           ls == leader.sum
           lc == leader.count
<1>13. Lower(leader, best) <=> ls * n < (x + l) * lc
  BY <1>8 DEF Lower
<1>14. Lower(Need(mine, m), One) <=> (n * ls * s - s * x * lc) * 1 < 1 * (l * lc * s)
  BY <1>8, <1>10 DEF Lower, One
<1>15. x \in Nat /\ ls \in Nat /\ lc \in Nat \ {0} /\ s \in Nat \ {0}
  BY <1>8, <1>9
<1>16. Lower(leader, mine) <=> ls * s < x * lc
  BY <1>8 DEF Lower
<1> HIDE DEF x, ls, lc, s, l, n, best
<1>17. Lower(Need(mine, m), One) <=> Lower(leader, best)
  BY <1>8, <1>13, <1>14, <1>15, RaceArithmetic
<1>18. l = 0 => Lower(leader, best)
  <2>1. l = 0 => s = n /\ x + l = x
    BY <1>8, <1>15
  <2> QED BY <1>7, <1>13, <1>16, <2>1
<1>19. l = 0 \/ Lower(Need(mine, m), One) <=> Lower(leader, best)
  BY <1>17, <1>18
<1> QED BY <1>12, <1>19 DEF best

-----------------------------------------------------------------------------
(* The puzzles of a span, and the usual one.                               *)

\* Quotients are compared as the averages of a table are.
LEMMA AveragesOrder ==
  ASSUME NEW a, NEW b, NEW c, a.sum \in Nat, b.sum \in Nat, c.sum \in Nat,
         a.count \in Nat \ {0}, b.count \in Nat \ {0}, c.count \in Nat \ {0}
  PROVE  /\ ~ Lower(a, a)
         /\ Lower(a, b) => ~ Lower(b, a)
         /\ ~ Lower(b, a) /\ ~ Lower(c, b) => ~ Lower(c, a)
         /\ Lower(a, b) /\ ~ Lower(c, b) => Lower(a, c)
         /\ ~ Lower(b, a) /\ Lower(b, c) => Lower(a, c)
<1> DEFINE Line(x) == [player |-> 0, games |-> 0, missed |-> 0, sum |-> x.sum, count |-> x.count]
           A == Line(a)
           B == Line(b)
           C == Line(c)
<1>1. A \in Lines /\ B \in Lines /\ C \in Lines
  BY DEF Lines
<1>2. /\ A.sum = a.sum /\ A.count = a.count /\ B.sum = b.sum /\ B.count = b.count
      /\ C.sum = c.sum /\ C.count = c.count
  OBVIOUS
<1> HIDE DEF A, B, C
<1>3. /\ Lower(A, A) <=> Lower(a, a)
      /\ Lower(A, B) <=> Lower(a, b)
      /\ Lower(B, A) <=> Lower(b, a)
      /\ Lower(C, B) <=> Lower(c, b)
      /\ Lower(C, A) <=> Lower(c, a)
      /\ Lower(A, C) <=> Lower(a, c)
      /\ Lower(B, C) <=> Lower(b, c)
  BY <1>2 DEF Lower
<1> QED BY <1>1, <1>3, LowerOrders

\* The mean of a day: the sum of its results, and how many there are.
LEMMA MeanIs ==
  ASSUME TypeOK, NEW z
  PROVE  /\ MeanOf(OnDay(z)).count = Cardinality(Filers(z))
         /\ MeanOf(OnDay(z)).sum = SumOver(OnDay(z), Filers(z))
         /\ MeanOf(OnDay(z)).sum \in Nat /\ MeanOf(OnDay(z)).count \in Nat
<1> DEFINE v == OnDay(z)
           S == Filers(z)
<1>1. IsFiniteSet(S) /\ Cardinality(S) \in Nat /\ DOMAIN v = S /\ \A p \in S : v[p] \in Nat
  <2>1. \A p \in S : v[p] \in 1..7
    BY DayIs
  <2> QED BY <2>1, DayIs
<1> HIDE DEF v, S
<1>2. MapThenSumSet(LAMBDA p : v[p], S) = SumOver(v, S)
  BY <1>1, MapSumIs
<1>3. MeanOf(v).sum = MapThenSumSet(LAMBDA p : v[p], S) /\ MeanOf(v).count = Cardinality(S)
  BY <1>1 DEF MeanOf
<1>4. SumOver(v, S) \in Nat
  BY <1>1, SumIsNat
<1> QED BY <1>1, <1>2, <1>3, <1>4 DEF v, S

\* The days of a span that are over and were played enough.
PlayedIn(days) == {z \in days : z < now /\ Cardinality(DOMAIN OnDay(z)) >= DayMinFiled}

\* A day that was played is one of the few with results, and has a mean.
LEMMA PlayedIs ==
  ASSUME TypeOK, NEW days
  PROVE  /\ IsFiniteSet(PlayedIn(days)) /\ PlayedIn(days) \subseteq 1..(now - 1)
         /\ \A z \in PlayedIn(days) : MeanOf(OnDay(z)).sum \in Nat /\ MeanOf(OnDay(z)).count \in Nat \ {0}
<1>1. now \in Nat
  BY LastDayIsADay DEF TypeOK
<1>2. ASSUME NEW z \in PlayedIn(days)
      PROVE  z \in 1..(now - 1) /\ MeanOf(OnDay(z)).sum \in Nat /\ MeanOf(OnDay(z)).count \in Nat \ {0}
  <2>1. z < now /\ Cardinality(Filers(z)) >= DayMinFiled
    BY DayIs DEF PlayedIn
  <2>2. Cardinality(Filers(z)) \in Nat /\ Cardinality(Filers(z)) # 0
    BY <2>1, DayMinFiledIsPositive, DayIs
  <2>3. Filers(z) # {}
    BY <2>2, FS_EmptySet
  <2>4. PICK p \in Players : z \in DOMAIN history[p]
    BY <2>3 DEF Filers
  <2>5. z \in 1..(now + 1)
    BY <2>4, FewResults
  <2> QED BY <1>1, <2>1, <2>2, <2>5, MeanIs
<1>3. IsFiniteSet(1..(now - 1))
  BY <1>1, FS_Interval
<1>4. PlayedIn(days) \in SUBSET (1..(now - 1))
  BY <1>2
<1>5. IsFiniteSet(PlayedIn(days))
  BY <1>3, <1>4, FS_Subset
<1> QED BY <1>2, <1>4, <1>5

\* The hardest puzzle is one that was played, and none that was has a higher mean; the
\* easiest, none a lower.
LEMMA PuzzleIs ==
  ASSUME TypeOK, NEW days
  PROVE  /\ PlayedIn(days) = {} => Puzzle(days, FALSE) = 0 /\ Puzzle(days, TRUE) = 0
         /\ PlayedIn(days) # {} =>
              /\ Puzzle(days, FALSE) \in PlayedIn(days)
              /\ \A y \in PlayedIn(days) : ~ Lower(MeanOf(OnDay(Puzzle(days, FALSE))), MeanOf(OnDay(y)))
              /\ Puzzle(days, TRUE) \in PlayedIn(days)
              /\ \A y \in PlayedIn(days) : ~ Lower(MeanOf(OnDay(y)), MeanOf(OnDay(Puzzle(days, TRUE))))
<1> DEFINE S == PlayedIn(days)
           M(z) == MeanOf(OnDay(z))
           hard == {z \in S : \A y \in S : ~ Lower(M(z), M(y))}
           easy == {z \in S : \A y \in S : ~ Lower(M(y), M(z))}
           HR == {zy \in S \X S : Lower(M(zy[2]), M(zy[1]))}
           ER == {zy \in S \X S : Lower(M(zy[1]), M(zy[2]))}
<1>1. IsFiniteSet(S) /\ S \subseteq Int
  BY PlayedIs
<1>2. \A z \in S : M(z).sum \in Nat /\ M(z).count \in Nat \ {0}
  BY PlayedIs
<1>3. Puzzle(days, FALSE) = IF S = {} THEN 0 ELSE Max(hard)
  BY DEF Puzzle, PlayedIn
<1>4. Puzzle(days, TRUE) = IF S = {} THEN 0 ELSE Max(easy)
  BY DEF Puzzle, PlayedIn
<1>5. \A x, y \in S : (<<x, y>> \in HR <=> Lower(M(y), M(x))) /\ (<<x, y>> \in ER <=> Lower(M(x), M(y)))
  OBVIOUS
<1>6. hard \in SUBSET S /\ easy \in SUBSET S
  OBVIOUS
<1>7. \A z : /\ z \in hard <=> z \in S /\ \A y \in S : ~ Lower(M(z), M(y))
             /\ z \in easy <=> z \in S /\ \A y \in S : ~ Lower(M(y), M(z))
  OBVIOUS
<1>8. \A x, y, z \in S : /\ ~ Lower(M(x), M(x))
                         /\ Lower(M(x), M(y)) => ~ Lower(M(y), M(x))
                         /\ ~ Lower(M(y), M(x)) /\ ~ Lower(M(z), M(y)) => ~ Lower(M(z), M(x))
  <2> HIDE DEF S, M
  <2> QED BY <1>2, AveragesOrder
<1> HIDE DEF S, M, hard, easy, HR, ER
<1>9. ASSUME S # {} PROVE hard # {} /\ easy # {}
  <2>1. \E a \in S : \A b \in S : <<b, a>> \notin HR
    <3>1. \A x \in S : <<x, x>> \notin HR
      BY <1>5, <1>8
    <3>2. \A x, y \in S : <<x, y>> \in HR => <<y, x>> \notin HR
      BY <1>5, <1>8
    <3>3. \A x, y, z \in S : <<y, x>> \notin HR /\ <<z, y>> \notin HR => <<z, x>> \notin HR
      BY <1>5, <1>8
    <3> QED BY <1>1, <1>9, <3>1, <3>2, <3>3, LeastExists
  <2>2. \E a \in S : \A b \in S : <<b, a>> \notin ER
    <3>1. \A x \in S : <<x, x>> \notin ER
      BY <1>5, <1>8
    <3>2. \A x, y \in S : <<x, y>> \in ER => <<y, x>> \notin ER
      BY <1>5, <1>8
    <3>3. \A x, y, z \in S : <<y, x>> \notin ER /\ <<z, y>> \notin ER => <<z, x>> \notin ER
      BY <1>5, <1>8
    <3> QED BY <1>1, <1>9, <3>1, <3>2, <3>3, LeastExists
  <2>3. hard # {}
    <3>1. PICK a \in S : \A b \in S : <<b, a>> \notin HR
      BY <2>1
    <3>2. \A b \in S : ~ Lower(M(a), M(b))
      BY <1>5, <3>1
    <3> QED BY <1>7, <3>2
  <2>4. easy # {}
    <3>1. PICK a \in S : \A b \in S : <<b, a>> \notin ER
      BY <2>2
    <3>2. \A b \in S : ~ Lower(M(b), M(a))
      BY <1>5, <3>1
    <3> QED BY <1>7, <3>2
  <2> QED BY <2>3, <2>4
<1>10. ASSUME S # {} PROVE Max(hard) \in hard /\ Max(easy) \in easy
  <2>1. IsFiniteSet(hard) /\ IsFiniteSet(easy)
    BY <1>1, <1>6, FS_Subset
  <2>2. hard \subseteq Int /\ easy \subseteq Int
    BY <1>1, <1>6
  <2> QED BY <1>9, <1>10, <2>1, <2>2, MaxIs
<1> QED BY <1>3, <1>4, <1>7, <1>10 DEF S, M

\* The results before a day, and what they come to.
FiledBy(n)   == {s \in Players \X (1..n) : s[2] \in DOMAIN history[s[1]]}
WorthOf(n)   == [s \in FiledBy(n) |-> Value(history[s[1]][s[2]])]
UsualSum(n)  == MapThenSumSet(LAMBDA s : Value(history[s[1]][s[2]]), FiledBy(n))

\* What they come to is a sum.
LEMMA UsualIsSum ==
  ASSUME NEW n, IsFiniteSet(FiledBy(n))
  PROVE  UsualSum(n) = SumOver(WorthOf(n), FiledBy(n))
<1> DEFINE S == FiledBy(n)
           f == WorthOf(n)
           worth(s) == Value(history[s[1]][s[2]])
           Folds(g) == g = [s \in SUBSET S |->
                              IF s = {} THEN 0
                              ELSE worth(CHOOSE x \in s : TRUE) + g[s \ {CHOOSE x \in s : TRUE}]]
           g == CHOOSE h : Folds(h)
<1>1. UsualSum(n) = g[S]
  BY DEF UsualSum, MapThenSumSet, MapThenFoldSet
<1>2. \A s \in S : f[s] = worth(s)
  BY DEF WorthOf
<1> HIDE DEF S, f, worth
<1>3. ASSUME NEW h PROVE SumsUp(f, S, h) <=> Folds(h)
  <2>1. ASSUME NEW s \in SUBSET S
        PROVE  Partial(f, s, h) = IF s = {} THEN 0
                 ELSE worth(CHOOSE x \in s : TRUE) + h[s \ {CHOOSE x \in s : TRUE}]
    <3>1. CASE s = {}
      BY <3>1 DEF Partial
    <3>2. CASE s # {}
      <4>1. (CHOOSE x \in s : TRUE) \in s
        BY <3>2
      <4>2. f[CHOOSE x \in s : TRUE] = worth(CHOOSE x \in s : TRUE)
        BY <1>2, <4>1
      <4> QED BY <3>2, <4>2 DEF Partial, Picked
    <3> QED BY <3>1, <3>2
  <2> QED BY <2>1 DEF SumsUp
<1>4. \E h : SumsUp(f, S, h)
  BY SumsExist DEF S
<1> HIDE DEF Folds
<1>5. \E h : Folds(h)
  BY <1>3, <1>4
<1>6. Folds(g)
  BY <1>5
<1> HIDE DEF g
<1>7. SumsUp(f, S, g)
  BY <1>3, <1>6
<1>8. PICK h : SumsUp(f, S, h) /\ SumOver(f, S) = h[S]
  BY SumOverSumsUp DEF S
<1>9. g[S] = h[S]
  BY <1>7, <1>8, SumsUnique DEF S
<1> QED BY <1>1, <1>8, <1>9 DEF S, f

\* A day more has its own results more.
LEMMA OneDayMore ==
  ASSUME TypeOK, NEW n \in Nat
  PROVE  /\ IsFiniteSet(FiledBy(n)) => IsFiniteSet(FiledBy(n + 1))
         /\ IsFiniteSet(FiledBy(n)) =>
              /\ Cardinality(FiledBy(n + 1)) = Cardinality(FiledBy(n)) + MeanOf(OnDay(n + 1)).count
              /\ UsualSum(n + 1) = UsualSum(n) + MeanOf(OnDay(n + 1)).sum
              /\ UsualSum(n) \in Nat /\ Cardinality(FiledBy(n)) \in Nat
<1> SUFFICES ASSUME IsFiniteSet(FiledBy(n))
             PROVE  /\ IsFiniteSet(FiledBy(n + 1))
                    /\ Cardinality(FiledBy(n + 1)) = Cardinality(FiledBy(n)) + MeanOf(OnDay(n + 1)).count
                    /\ UsualSum(n + 1) = UsualSum(n) + MeanOf(OnDay(n + 1)).sum
                    /\ UsualSum(n) \in Nat /\ Cardinality(FiledBy(n)) \in Nat
  OBVIOUS
<1> DEFINE P == Filers(n + 1)
           h == [p \in P |-> <<p, n + 1>>]
           T == {h[p] : p \in P}
           v == OnDay(n + 1)
           S == FiledBy(n)
           U == FiledBy(n + 1)
           e == WorthOf(n + 1)
           f == WorthOf(n)
<1>1. IsFiniteSet(P) /\ \A p \in P : v[p] = Value(history[p][n + 1]) /\ v[p] \in Nat
  <2>1. \A p \in P : v[p] \in 1..7
    BY DayIs
  <2> QED BY <2>1, DayIs
<1>2. U = S \cup T /\ S \cap T = {}
  <2>1. ASSUME NEW s \in U PROVE s \in S \cup T
    <3>1. s \in Players \X (1..(n + 1)) /\ s[2] \in DOMAIN history[s[1]]
      BY DEF FiledBy
    <3>2. s = <<s[1], s[2]>> /\ s[1] \in Players /\ s[2] \in 1..(n + 1)
      BY <3>1
    <3>3. CASE s[2] = n + 1
      <4>1. s[1] \in P
        BY <3>1, <3>2, <3>3 DEF Filers
      <4>2. s = h[s[1]]
        BY <3>2, <3>3, <4>1
      <4> QED BY <4>1, <4>2
    <3>4. CASE s[2] # n + 1
      <4>1. s[2] \in 1..n
        BY <3>2, <3>4
      <4>2. s \in Players \X (1..n)
        BY <3>2, <4>1
      <4> QED BY <3>1, <4>2 DEF FiledBy
    <3> QED BY <3>3, <3>4
  <2>2. ASSUME NEW s \in S PROVE s \in U /\ s \notin T
    <3>1. s \in Players \X (1..n) /\ s[2] \in DOMAIN history[s[1]]
      BY DEF FiledBy
    <3>2. s[1] \in Players /\ s[2] \in 1..n /\ s[2] # n + 1 /\ s[2] \in 1..(n + 1) /\ s = <<s[1], s[2]>>
      BY <3>1
    <3>3. s \in Players \X (1..(n + 1))
      BY <3>2
    <3>4. \A p \in P : h[p][2] = n + 1
      OBVIOUS
    <3> QED BY <3>1, <3>2, <3>3, <3>4 DEF FiledBy
  <2>3. ASSUME NEW p \in P PROVE h[p] \in U
    <3>1. p \in Players /\ n + 1 \in DOMAIN history[p] /\ n + 1 \in 1..(n + 1)
      BY DEF Filers
    <3> QED BY <3>1 DEF FiledBy
  <2> QED BY <2>1, <2>2, <2>3
<1>3. \A p, q \in P : h[p] = h[q] => p = q
  OBVIOUS
<1>4. \A p \in P : v[p] \in Nat /\ e[h[p]] = v[p]
  <2>1. ASSUME NEW p \in P PROVE e[h[p]] = v[p]
    <3>1. h[p] \in U /\ h[p] = <<p, n + 1>>
      BY <1>2
    <3>2. e[h[p]] = Value(history[p][n + 1])
      BY <3>1 DEF WorthOf
    <3> QED BY <1>1, <3>2
  <2> QED BY <1>1, <2>1
<1>5. \A s \in S : e[s] = f[s] /\ e[s] \in Nat
  <2>1. ASSUME NEW s \in S PROVE e[s] = f[s] /\ e[s] \in Nat
    <3>1. s \in U /\ s[1] \in Players /\ s[2] \in DOMAIN history[s[1]]
      BY <1>2 DEF FiledBy
    <3>2. e[s] = Value(history[s[1]][s[2]]) /\ f[s] = Value(history[s[1]][s[2]])
      BY <3>1 DEF WorthOf
    <3>3. history[s[1]][s[2]] \in Result
      BY <3>1 DEF TypeOK
    <3>4. Value(history[s[1]][s[2]]) \in Nat
      BY <3>3 DEF Value, Result, FailedAsSeven
    <3> QED BY <3>2, <3>4
  <2> QED BY <2>1
<1> DEFINE k == n + 1
<1>6. MeanOf(OnDay(k)).count = Cardinality(P) /\ MeanOf(OnDay(k)).sum = SumOver(v, P)
  BY MeanIs
<1> HIDE DEF h
<1>7. IsFiniteSet(T) /\ Cardinality(T) = Cardinality(P) /\ SumOver(e, T) = SumOver(v, P)
  <2> HIDE DEF P, v, e
  <2>1. IsFiniteSet(P)
    BY <1>1
  <2>2. \A p \in P : v[p] \in Nat /\ e[h[p]] = v[p]
    BY <1>4
  <2>3. \A p, q \in P : h[p] = h[q] => p = q
    BY <1>3
  <2>4. h \in [P -> T] /\ \A t \in T : \E p \in P : h[p] = t
    BY DEF h
  <2> HIDE DEF T
  <2> QED BY <2>1, <2>2, <2>3, <2>4, SumAlong
<1>8. \A s \in T : e[s] \in Nat
  BY <1>4
<1> HIDE DEF T, P, v, e, f
<1>9. IsFiniteSet(U) /\ Cardinality(U) = Cardinality(S) + Cardinality(T)
  <2> HIDE DEF S, U
  <2>1. IsFiniteSet(S)
    BY DEF S
  <2> QED BY <1>2, <1>7, <2>1, CountOfBoth, FS_Union
<1>10. SumOver(e, U) = SumOver(e, S) + SumOver(e, T)
  <2>1. \A s \in S \cup T : e[s] \in Nat
    BY <1>5, <1>8
  <2> HIDE DEF S, U
  <2>2. IsFiniteSet(S)
    BY DEF S
  <2> QED BY <1>2, <1>7, <2>1, <2>2, SumOfBoth
<1>11. SumOver(e, S) = SumOver(f, S)
  <2> HIDE DEF S
  <2>1. IsFiniteSet(S)
    BY DEF S
  <2> QED BY <1>5, <2>1, SumSame
<1>12. UsualSum(n) = SumOver(f, S)
  BY UsualIsSum DEF f
<1>13. UsualSum(k) = SumOver(e, U)
  <2>1. U = FiledBy(k) /\ e = WorthOf(k)
    BY DEF e
  <2> HIDE DEF k, U
  <2> QED BY <1>9, <2>1, UsualIsSum
<1>14. SumOver(f, S) \in Nat
  <2>1. \A s \in S : f[s] \in Nat
    BY <1>5
  <2> HIDE DEF S
  <2>2. IsFiniteSet(S)
    BY DEF S
  <2> QED BY <2>1, <2>2, SumIsNat
<1>15. Cardinality(S) \in Nat
  BY FS_CardinalityType
<1> HIDE DEF S, U
<1> QED BY <1>6, <1>7, <1>9, <1>10, <1>11, <1>12, <1>13, <1>14, <1>15 DEF S, U, k

\* When no day's mean is above a quotient, what is usual over the days is not either.
LEMMA UsualBound ==
  ASSUME TypeOK, NEW x \in Nat, NEW c \in Nat, NEW top \in Nat,
         \A z \in 1..top : MeanOf(OnDay(z)).sum * c <= x * MeanOf(OnDay(z)).count
  PROVE  /\ IsFiniteSet(FiledBy(top)) /\ UsualSum(top) \in Nat /\ Cardinality(FiledBy(top)) \in Nat
         /\ UsualSum(top) * c <= x * Cardinality(FiledBy(top))
<1> DEFINE Right(n) == /\ IsFiniteSet(FiledBy(n)) /\ UsualSum(n) \in Nat /\ Cardinality(FiledBy(n)) \in Nat
                       /\ UsualSum(n) * c <= x * Cardinality(FiledBy(n))
           G == {n \in Nat : n <= top => Right(n)}
<1>1. 0 \in G
  <2>1. FiledBy(0) = {}
    BY DEF FiledBy
  <2>2. IsFiniteSet(FiledBy(0)) /\ Cardinality(FiledBy(0)) = 0
    BY <2>1, FS_EmptySet
  <2>3. UsualSum(0) = 0
    <3> DEFINE f == WorthOf(0)
               S == FiledBy(0)
    <3>1. UsualSum(0) = SumOver(f, S)
      BY <2>2, UsualIsSum
    <3> HIDE DEF f, S
    <3>2. SumOver(f, S) = 0
      BY <2>1, <2>2, SumSteps DEF S
    <3> QED BY <3>1, <3>2
  <2>4. 0 * c <= x * 0
    OBVIOUS
  <2> QED BY <2>2, <2>3, <2>4
<1>2. ASSUME NEW n \in G PROVE n + 1 \in G
  <2> SUFFICES ASSUME n + 1 <= top PROVE Right(n + 1)
    OBVIOUS
  <2>1. Right(n) /\ n \in Nat
    OBVIOUS
  <2> DEFINE M == MeanOf(OnDay(n + 1))
  <2>2. M.sum * c <= x * M.count
    OBVIOUS
  <2>3. M.sum \in Nat /\ M.count \in Nat
    BY MeanIs
  <2>4. /\ IsFiniteSet(FiledBy(n + 1))
        /\ Cardinality(FiledBy(n + 1)) = Cardinality(FiledBy(n)) + M.count
        /\ UsualSum(n + 1) = UsualSum(n) + M.sum
    BY <2>1, OneDayMore
  <2> DEFINE a == UsualSum(n)
             b == Cardinality(FiledBy(n))
             s == M.sum
             k == M.count
  <2>5. a \in Nat /\ b \in Nat /\ s \in Nat /\ k \in Nat /\ a * c <= x * b /\ s * c <= x * k
    BY <2>1, <2>2, <2>3
  <2> HIDE DEF a, b, s, k
  <2>6. (a + s) * c = a * c + s * c /\ x * (b + k) = x * b + x * k
    BY <2>5
  <2>7. a * c \in Nat /\ s * c \in Nat /\ x * b \in Nat /\ x * k \in Nat
    BY <2>5
  <2>8. (a + s) * c <= x * (b + k)
    BY <2>5, <2>6, <2>7
  <2>9. a + s \in Nat /\ b + k \in Nat
    BY <2>5
  <2> QED BY <2>4, <2>8, <2>9 DEF a, b, s, k
<1> HIDE DEF G
<1>3. G = Nat
  <2>1. G \in SUBSET Nat
    BY DEF G
  <2> QED BY <1>1, <1>2, <2>1, EveryNumber
<1>4. top \in G
  BY <1>3
<1> QED BY <1>4 DEF G

LEMMA PuzzlesAgreeState == TypeOK => PuzzlesAgree
<1> SUFFICES ASSUME TypeOK PROVE PuzzlesAgree
  OBVIOUS
<1>1. ASSUME NEW days, Puzzle(days, FALSE) # 0
      PROVE  ~ Lower(MeanOf(OnDay(Puzzle(days, FALSE))), MeanOf(OnDay(Puzzle(days, TRUE))))
  BY <1>1, PuzzleIs
<1>2. ASSUME Puzzle(1..now, FALSE) # 0, DayCall(Puzzle(1..now, FALSE)) = "easy",
             ~ \E z \in 1..(Puzzle(1..now, FALSE) - 1) : Cardinality(DOMAIN OnDay(z)) \in 1..(DayMinFiled - 1)
      PROVE  FALSE
  <2> DEFINE hard  == Puzzle(1..now, FALSE)
             top   == hard - 1
             mean  == MeanOf(OnDay(hard))
             us    == UsualSum(top)
             uc    == Cardinality(FiledBy(top))
  <2>1. now \in Nat
    BY LastDayIsADay DEF TypeOK
  <2>2. hard \in PlayedIn(1..now) /\ \A y \in PlayedIn(1..now) : ~ Lower(mean, MeanOf(OnDay(y)))
    BY <1>2, PuzzleIs
  <2>3. hard \in 1..(now - 1) /\ mean.sum \in Nat /\ mean.count \in Nat \ {0} /\ top \in Nat
    <3> HIDE DEF hard
    <3>1. hard \in 1..(now - 1) /\ mean.sum \in Nat /\ mean.count \in Nat \ {0}
      BY <2>2, PlayedIs
    <3> QED BY <2>1, <3>1
  <2>4. ASSUME NEW z \in 1..top
        PROVE  MeanOf(OnDay(z)).sum * mean.count <= mean.sum * MeanOf(OnDay(z)).count
    <3>1. /\ MeanOf(OnDay(z)).count = Cardinality(Filers(z)) /\ DOMAIN OnDay(z) = Filers(z)
          /\ MeanOf(OnDay(z)).sum \in Nat /\ MeanOf(OnDay(z)).count \in Nat
      BY MeanIs, DayIs
    <3>2. Cardinality(DOMAIN OnDay(z)) \notin 1..(DayMinFiled - 1)
      BY <1>2, <2>4
    <3>3. CASE Cardinality(Filers(z)) = 0
      <4>1. Filers(z) = {}
        BY <3>3, DayIs, FS_EmptySet
      <4> DEFINE v == OnDay(z)
                 S == Filers(z)
      <4>2. MeanOf(OnDay(z)).sum = SumOver(v, S)
        BY MeanIs
      <4> HIDE DEF v, S
      <4>3. SumOver(v, S) = 0
        BY <4>1, FS_EmptySet, SumSteps DEF S
      <4>4. MeanOf(OnDay(z)).sum = 0 /\ MeanOf(OnDay(z)).count = 0
        BY <3>1, <3>3, <4>2, <4>3
      <4>5. \A a, b \in Nat : 0 * a <= b * 0
        OBVIOUS
      <4> HIDE DEF mean
      <4> QED BY <2>3, <4>4, <4>5
    <3>4. CASE Cardinality(Filers(z)) # 0
      <4>1. Cardinality(Filers(z)) >= DayMinFiled
        BY <3>1, <3>2, <3>4, DayMinFiledIsPositive
      <4>2. z \in 1..now /\ z < now
        <5> HIDE DEF hard
        <5> QED BY <2>1, <2>3, <2>4
      <4>3. z \in PlayedIn(1..now)
        BY <3>1, <4>1, <4>2 DEF PlayedIn
      <4>4. ~ Lower(mean, MeanOf(OnDay(z)))
        BY <2>2, <4>3
      <4> DEFINE a == MeanOf(OnDay(z)).sum
                 b == MeanOf(OnDay(z)).count
                 s == mean.sum
                 c == mean.count
      <4>5. ~ (s * b < a * c) /\ a \in Nat /\ b \in Nat /\ s \in Nat /\ c \in Nat
        BY <2>3, <3>1, <4>4 DEF Lower
      <4> HIDE DEF a, b, s, c
      <4>6. a * c <= s * b
        <5>1. a * c \in Nat /\ s * b \in Nat
          BY <4>5
        <5> QED BY <4>5, <5>1
      <4> QED BY <4>6 DEF a, b, s, c
    <3> QED BY <3>3, <3>4
  <2> DEFINE s == mean.sum
             c == mean.count
  <2>5. /\ us \in Nat /\ uc \in Nat /\ us * c <= s * uc
    <3>1. s \in Nat /\ c \in Nat /\ top \in Nat
      BY <2>3
    <3>2. \A z \in 1..top : MeanOf(OnDay(z)).sum * c <= s * MeanOf(OnDay(z)).count
      BY <2>4
    <3> HIDE DEF s, c, top
    <3> QED BY <3>1, <3>2, UsualBound
  <2>6. uc >= FormWindow /\ 4 * (us * c - s * uc) >= 3 * uc * c
    <3> DEFINE usual == [sum |-> us, count |-> uc]
               Harder(x, y) == 4 * (x.sum * y.count - y.sum * x.count) >= 3 * x.count * y.count
    <3>1. DayCall(hard) = IF mean.count = 0 THEN "nobody"
                          ELSE IF mean.count < DayMinFiled \/ usual.count < FormWindow THEN "mean"
                          ELSE IF Harder(mean, usual) THEN "hard"
                          ELSE IF Harder(usual, mean) THEN "easy"
                          ELSE "usual"
      BY DEF DayCall, UsualSum, FiledBy
    <3>2. DayCall(hard) = "easy"
      BY <1>2
    <3> HIDE DEF hard
    <3>3. ~ (usual.count < FormWindow) /\ Harder(usual, mean)
      BY <3>1, <3>2
    <3> QED BY <2>5, <3>3, FormWindowIsPositive
  <2>7. s \in Nat /\ c \in Nat \ {0}
    BY <2>3
  <2> HIDE DEF us, uc, s, c
  <2>8. uc > 0
    BY <2>5, <2>6, FormWindowIsPositive
  <2>9. us * c \in Nat /\ s * uc \in Nat /\ uc * c \in Nat /\ uc * c > 0 /\ 3 * uc * c = 3 * (uc * c)
    BY <2>5, <2>7, <2>8
  <2>10. \A i, j, k \in Nat : i <= j /\ k > 0 => ~ (4 * (i - j) >= 3 * k)
    OBVIOUS
  <2> QED BY <2>5, <2>6, <2>9, <2>10
<1> QED BY <1>1, <1>2 DEF PuzzlesAgree

-----------------------------------------------------------------------------
(* Two standings of the same days.                                         *)

\* The last days, when nobody has a result before a span's first and somebody has one on it,
\* are the span so far.
LEMMA RecentIsSpan ==
  ASSUME TypeOK, NEW first \in Int, NEW end \in Int, first <= now, now < end,
         NEW p \in Players, first \in DOMAIN Counted(p),
         \A q \in Players : DOMAIN Counted(q) \subseteq first..now,
         NEW days \in Int, now - first + 1 <= days
  PROVE  Recent(days) = ScoreSpan(first, end, Rows(first, end), now)
<1> DEFINE played == UNION {DOMAIN Counted(q) : q \in Players}
           next   == now + 1
<1>1. now \in Int /\ next \in Int
  BY LastDayIsADay DEF TypeOK
<1>2. first \in played /\ played \subseteq first..now
  OBVIOUS
<1>3. Min(played) = first
  <2> HIDE DEF played
  <2>1. played \subseteq Int /\ played # {}
    BY <1>2
  <2>2. IsFiniteSet(played)
    <3>1. IsFiniteSet(first..now)
      BY <1>1, FS_Interval
    <3> QED BY <1>2, <3>1, FS_Subset
  <2>3. Min(played) \in played /\ \A x \in played : Min(played) <= x
    BY <2>1, <2>2, MinIs
  <2> DEFINE least == Min(played)
  <2>4. least \in first..now /\ least <= first
    BY <1>2, <2>3
  <2> HIDE DEF least
  <2>5. least = first
    BY <1>1, <2>4
  <2> QED BY <2>5 DEF least
<1>4. Later(now - days + 1, Min(played)) = first
  BY <1>1, <1>3 DEF Later
<1>5. Recent(days) = ScoreSpan(first, next, Rows(first, next), now)
  BY <1>4 DEF Recent
<1>6. Rows(first, next) = Rows(first, end)
  <2>1. ASSUME NEW q \in Players PROVE Rows(first, next)[q] = Rows(first, end)[q]
    <3>1. {z \in DOMAIN Counted(q) : first <= z /\ z < next} = {z \in DOMAIN Counted(q) : first <= z /\ z < end}
      <4>1. \A z \in DOMAIN Counted(q) : z \in Int /\ first <= z /\ z <= now
        OBVIOUS
      <4> QED BY <1>1, <4>1
    <3> HIDE DEF next
    <3> QED BY <3>1 DEF Rows, RestrictDomain, Restrict
  <2> HIDE DEF next
  <2> QED BY <2>1 DEF Rows
<1>7. Concluded(first, next, now) = Concluded(first, end, now)
  BY <1>1 DEF Concluded, Later, Earlier
<1>8. now \in first..(next - 1) <=> now \in first..(end - 1)
  BY <1>1
<1> HIDE DEF next
<1>9. ScoreSpan(first, next, Rows(first, end), now) = ScoreSpan(first, end, Rows(first, end), now)
  BY <1>7, <1>8 DEF ScoreSpan
<1> QED BY <1>5, <1>6, <1>9

\* The week so far, by its own table and as the last days.
LEMMA WeekIsRecent ==
  ASSUME TypeOK, opts = DefaultOptions, NEW p \in Players, WeekOf(now) \in DOMAIN history[p],
         \A q \in Players : DOMAIN history[q] \subseteq WeekDays
  PROVE  Recent(Cardinality(WeekDays)) = Week(WeekOf(now))
<1> DEFINE monday == WeekOf(now)
           end    == monday + 7
           days   == Cardinality(WeekDays)
<1>1. now \in Nat
  BY LastDayIsADay DEF TypeOK
<1>2. monday \in Int /\ monday <= now /\ now < end /\ end \in Int
  <2>1. (now - 2) % 7 \in 0..6
    <3>1. now - 2 \in Int
      BY <1>1
    <3> QED BY <3>1
  <2> QED BY <1>1, <2>1 DEF WeekOf
<1>3. \A q \in Players : Counted(q) = history[q]
  BY DEF Counted, DefaultOptions
<1>4. WeekDays = monday..now
  BY DEF WeekDays
<1> HIDE DEF monday
<1>5. days = now - monday + 1
  BY <1>1, <1>2, <1>4, FS_Interval
<1>6. \A q \in Players : DOMAIN Counted(q) \subseteq monday..now
  BY <1>3, <1>4
<1>7. monday \in DOMAIN Counted(p)
  BY <1>3 DEF monday
<1>8. days \in Int /\ now - monday + 1 <= days
  BY <1>1, <1>2, <1>5
<1> HIDE DEF days, end
<1>9. Recent(days) = ScoreSpan(monday, end, Rows(monday, end), now)
  BY <1>2, <1>6, <1>7, <1>8, RecentIsSpan
<1> QED BY <1>9 DEF days, monday, end, Week

\* The ranked of the board, and each as a line of a table.
RankedRows ==
  {a \in {Row(p) : p \in {q \in Players : opts.hardModeOnly => DOMAIN Counted(q) # {}}} : a.reason = "ranked"}

BoardLine(a) ==
  [player |-> a.player, games |-> a.games, missed |-> 0, sum |-> a.average.sum, count |-> a.average.count]

\* Whoever is ranked has played, and so has an average.
LEMMA RankedIs ==
  ASSUME TypeOK, opts = DefaultOptions, NEW a \in RankedRows
  PROVE  /\ BoardLine(a) \in Lines
         /\ \E p \in Players : a = Row(p) /\ a.player = p
<1>1. PICK p \in Players : a = Row(p)
  BY DEF RankedRows
<1> DEFINE results == history[p]
           D       == DOMAIN results
<1>2. Counted(p) = results /\ {z \in D : Counts(results[z])} = D
  BY DEF Counted, Counts, DefaultOptions
<1>3. /\ a.player = p /\ a.games = Cardinality(DOMAIN Counted(p)) /\ a.reason = Reason(p)
      /\ a.average = Average(Counted(p), IF opts.countMissed THEN MissedDays(Counted(p), results) ELSE {})
  BY <1>1 DEF Row
<1>4. a.average = Average(results, {}) /\ a.games = Cardinality(D)
  BY <1>2, <1>3 DEF DefaultOptions
<1>5. IsFiniteSet(D) /\ \A z \in D : results[z] \in Result
  BY <1>2, FewResults
<1> HIDE DEF D
<1>6. Cardinality(D) \in Nat /\ Cardinality(D) # 0
  <2>1. Reason(p) = "ranked"
    BY <1>3 DEF RankedRows
  <2>2. ~ (D = {})
    BY <2>1 DEF Reason, D
  <2> QED BY <1>5, <2>2, FS_EmptySet, FS_CardinalityType
<1>7. Total(results, D) \in Nat
  BY <1>5, TotalBound
<1>8. a.average.sum = Total(results, D) /\ a.average.count = Cardinality(D)
  <2>1. Cardinality({}) = 0
    BY FS_EmptySet
  <2>2. a.average.sum = Total(results, D) + 7 * Cardinality({}) /\ a.average.count = Cardinality(D) + Cardinality({})
    BY <1>2, <1>4 DEF Average, FailedAsSeven, D
  <2> QED BY <1>6, <1>7, <2>1, <2>2
<1>9. p \in Int
  BY PlayersAreNumbered
<1>10. BoardLine(a) \in Lines
  BY <1>3, <1>4, <1>6, <1>7, <1>8, <1>9 DEF BoardLine, Lines
<1> QED BY <1>1, <1>3, <1>10

\* The board's order of those who have an average is a table's.
LEMMA RankedAboveIsAbove ==
  ASSUME NEW a, NEW b, BoardLine(a) \in Lines, BoardLine(b) \in Lines
  PROVE  /\ RankedAbove(a, b) <=> Above(BoardLine(a), BoardLine(b))
         /\ Level(a.average, b.average) <=> Level(BoardLine(a), BoardLine(b))
         /\ Lower(a.average, b.average) <=> Lower(BoardLine(a), BoardLine(b))
<1>1. a.average.count > 0 /\ b.average.count > 0
  BY DEF BoardLine, Lines
<1>2. /\ Lower(a.average, b.average) <=> Lower(BoardLine(a), BoardLine(b))
      /\ Lower(b.average, a.average) <=> Lower(BoardLine(b), BoardLine(a))
  BY DEF Lower, BoardLine
<1>3. Level(a.average, b.average) <=> Level(BoardLine(a), BoardLine(b))
  BY <1>2 DEF Level
<1>4. /\ BoardLine(a).games = a.games /\ BoardLine(b).games = b.games
      /\ BoardLine(a).player = a.player /\ BoardLine(b).player = b.player
  BY DEF BoardLine
<1>5. RankedAbove(a, b) <=>
        \/ Lower(a.average, b.average)
        \/ /\ Level(a.average, b.average)
           /\ a.games > b.games \/ (a.games = b.games /\ a.player < b.player)
  BY <1>1 DEF RankedAbove, Has
<1>6. RankedAbove(a, b) <=> Above(BoardLine(a), BoardLine(b))
  BY <1>2, <1>3, <1>4, <1>5 DEF Above
<1> QED BY <1>2, <1>3, <1>6

\* So the board's table is sorted.
LEMMA BoardSorts ==
  ASSUME TypeOK, opts = DefaultOptions
  PROVE  \E n \in Nat : /\ Compute.ranked \in [1..n -> RankedRows]
                        /\ Sorted([i \in 1..n |-> BoardLine(Compute.ranked[i])], n)
<1> DEFINE S     == RankedRows
           n     == Cardinality(S)
           lines == {BoardLine(a) : a \in S}
           A     == AboveOf(lines)
           R     == {ab \in S \X S : RankedAbove(ab[1], ab[2])}
           t     == Compute.ranked
           L     == [i \in 1..n |-> BoardLine(t[i])]
<1>1. \A a \in S : BoardLine(a) \in Lines /\ BoardLine(a).player = a.player
  BY RankedIs DEF BoardLine
<1>2. \A a, b \in S : a.player = b.player => a = b
  BY RankedIs
<1>3. IsFiniteSet(S) /\ n \in Nat
  <2> DEFINE f == [p \in Players |-> Row(p)]
             T == {f[p] : p \in Players}
  <2>1. IsFiniteSet(T)
    <3> HIDE DEF f
    <3> QED BY PlayersAreNumbered, ImagesFinite
  <2>2. S \in SUBSET T
    BY DEF RankedRows
  <2> HIDE DEF T, S
  <2>3. IsFiniteSet(S)
    BY <2>1, <2>2, FS_Subset
  <2> QED BY <2>3, FS_CardinalityType
<1>4. lines \in SUBSET Lines /\ \A x, y \in lines : x.player = y.player => x = y
  BY <1>1, <1>2
<1>5. \A a, b \in S : RankedAbove(a, b) <=> Above(BoardLine(a), BoardLine(b))
  BY <1>1, RankedAboveIsAbove
<1>6. \A a \in S : BoardLine(a) \in lines
  OBVIOUS
<1>7. \A a, b \in S : <<a, b>> \in R <=> RankedAbove(a, b)
  OBVIOUS
<1>8. /\ \A x, y \in lines : <<x, y>> \in A <=> Above(x, y)
      /\ \A x \in lines : <<x, x>> \notin A
      /\ \A x, y \in lines : x # y => <<x, y>> \in A \/ <<y, x>> \in A
      /\ \A x, y, z \in lines : <<x, y>> \in A /\ <<y, z>> \in A => <<x, z>> \in A
  <2> HIDE DEF lines
  <2> QED BY <1>4, AboveOrders
<1> HIDE DEF lines, A, R
<1>9. \A a, b \in S : <<a, b>> \in R <=> <<BoardLine(a), BoardLine(b)>> \in A
  BY <1>5, <1>6, <1>7, <1>8
<1>10. t = CHOOSE s \in [1..n -> S] : \A i, j \in DOMAIN s : i < j => RankedAbove(s[i], s[j])
  BY DEF Compute, InOrder, RankedRows
<1>11. \E s \in [1..Cardinality(S) -> S] : \A i, j \in 1..Cardinality(S) : i < j => <<s[i], s[j]>> \in R
  <2>1. \A a \in S : <<a, a>> \notin R
    BY <1>6, <1>8, <1>9
  <2>2. \A a, b \in S : a # b => <<a, b>> \in R \/ <<b, a>> \in R
    <3>1. ASSUME NEW a \in S, NEW b \in S, a # b PROVE <<a, b>> \in R \/ <<b, a>> \in R
      <4>1. BoardLine(a) # BoardLine(b)
        BY <1>1, <1>2, <3>1
      <4> QED BY <1>6, <1>8, <1>9, <4>1
    <3> QED BY <3>1
  <2>3. \A a, b, c \in S : <<a, b>> \in R /\ <<b, c>> \in R => <<a, c>> \in R
    BY <1>6, <1>8, <1>9
  <2> HIDE DEF S
  <2> QED BY <1>3, <2>1, <2>2, <2>3, SortedExists
<1>12. PICK s \in [1..n -> S] : \A i, j \in 1..n : i < j => RankedAbove(s[i], s[j])
  BY <1>7, <1>11
<1>13. DOMAIN s = 1..n /\ \A i, j \in DOMAIN s : i < j => RankedAbove(s[i], s[j])
  BY <1>12
<1> HIDE DEF n, t
<1>14. t \in [1..n -> S] /\ \A i, j \in DOMAIN t : i < j => RankedAbove(t[i], t[j])
  BY <1>10, <1>12, <1>13
<1>15. L \in [1..n -> Lines] /\ \A i, j \in 1..n : i < j => Above(L[i], L[j])
  <2>1. \A i \in 1..n : t[i] \in S /\ L[i] = BoardLine(t[i])
    BY <1>14
  <2>2. DOMAIN t = 1..n
    BY <1>14
  <2> QED BY <1>1, <1>5, <1>14, <2>1, <2>2
<1>16. Sorted(L, n)
  <2> HIDE DEF L
  <2> QED BY <1>3, <1>15 DEF Sorted
<1> QED BY <1>3, <1>14, <1>16 DEF t

\* The leaders of the all-time standing are those in the board's first place, and nobody's
\* place by the order is better than the one by the average.
LEMMA BoardStands ==
  ASSUME TypeOK, opts = DefaultOptions, NEW ranked, ranked = Compute.ranked, NEW tied,
         tied = Places([i \in DOMAIN ranked |-> ranked[i].average])
  PROVE  /\ BoardAsStanding(Compute).winners = {ranked[i].player : i \in {j \in DOMAIN tied : tied[j] = 1}}
         /\ \A i \in DOMAIN tied : tied[i] <= BoardAsStanding(Compute).places[i]
<1>1. PICK n \in Nat : ranked \in [1..n -> RankedRows] /\ Sorted([i \in 1..n |-> BoardLine(ranked[i])], n)
  BY BoardSorts
<1> DEFINE L        == [i \in 1..n |-> BoardLine(ranked[i])]
           averages == [i \in DOMAIN ranked |-> ranked[i].average]
<1>2. DOMAIN ranked = 1..n /\ DOMAIN averages = 1..n /\ \A i \in 1..n : averages[i] = ranked[i].average
  BY <1>1
<1>3. \A i \in 1..n : ranked[i] \in RankedRows /\ L[i] = BoardLine(ranked[i]) /\ L[i] \in Lines
  BY <1>1, RankedIs
<1>4. \A i, j \in 1..n : /\ Level(averages[i], averages[j]) <=> Level(L[i], L[j])
                         /\ Lower(averages[i], averages[j]) <=> Lower(L[i], L[j])
  <2>1. ASSUME NEW i \in 1..n, NEW j \in 1..n
        PROVE  /\ Level(averages[i], averages[j]) <=> Level(L[i], L[j])
               /\ Lower(averages[i], averages[j]) <=> Lower(L[i], L[j])
    <3>1. BoardLine(ranked[i]) \in Lines /\ BoardLine(ranked[j]) \in Lines
      BY <1>3
    <3>2. /\ Level(ranked[i].average, ranked[j].average) <=> Level(BoardLine(ranked[i]), BoardLine(ranked[j]))
          /\ Lower(ranked[i].average, ranked[j].average) <=> Lower(BoardLine(ranked[i]), BoardLine(ranked[j]))
      BY <3>1, RankedAboveIsAbove
    <3>3. averages[i] = ranked[i].average /\ averages[j] = ranked[j].average
      BY <1>2
    <3> HIDE DEF averages
    <3> QED BY <1>3, <3>2, <3>3
  <2> QED BY <2>1
<1>5. Sorted(L, n)
  BY <1>1
<1> HIDE DEF L, averages
<1>6. /\ DOMAIN Places(averages) = 1..n
      /\ \A i \in 1..n : Places(averages)[i] = 1 + Cardinality(Better(L, i))
  BY <1>2, <1>4, <1>5, PlacesOfLevels
<1>7. tied = Places(averages)
  BY DEF averages
<1>8. \A i \in 1..n : Places(L)[i] = 1 + Cardinality(Better(L, i))
  BY <1>5, PlacesAreEarned
<1>9. \A i \in 1..n : Level(L[i], L[1]) <=> tied[i] = 1
  BY <1>5, <1>6, <1>7, <1>8, FirstPlace
<1>10. BoardAsStanding(Compute).winners =
         {a.player : a \in {b \in Range(ranked) : Level(b.average, ranked[1].average)}}
  BY DEF BoardAsStanding
<1>11. BoardAsStanding(Compute).winners = {ranked[i].player : i \in {j \in DOMAIN tied : tied[j] = 1}}
  <2>1. Range(ranked) = {ranked[i] : i \in 1..n}
    BY <1>2 DEF Range
  <2>2. \A i \in 1..n : Level(ranked[i].average, ranked[1].average) <=> tied[i] = 1
    <3>1. ASSUME NEW i \in 1..n PROVE Level(ranked[i].average, ranked[1].average) <=> tied[i] = 1
      <4>1. 1 \in 1..n
        OBVIOUS
      <4> QED BY <1>2, <1>4, <1>9, <4>1
    <3> QED BY <3>1
  <2>3. DOMAIN tied = 1..n
    BY <1>6, <1>7
  <2> DEFINE B == {b \in Range(ranked) : Level(b.average, ranked[1].average)}
             J == {j \in 1..n : tied[j] = 1}
  <2>4. B = {ranked[i] : i \in J}
    BY <2>1, <2>2
  <2>5. BoardAsStanding(Compute).winners = {a.player : a \in B} /\ J = {j \in DOMAIN tied : tied[j] = 1}
    BY <1>10, <2>3
  <2> HIDE DEF B, J
  <2>6. {a.player : a \in B} = {ranked[i].player : i \in J}
    BY <2>4
  <2> QED BY <2>5, <2>6
<1>12. ASSUME NEW i \in DOMAIN tied PROVE tied[i] <= BoardAsStanding(Compute).places[i]
  <2>1. i \in 1..n
    BY <1>6, <1>7
  <2>2. BoardAsStanding(Compute).places[i] = i
    BY <1>2, <2>1 DEF BoardAsStanding
  <2>3. Better(L, i) \in SUBSET (1..(i - 1))
    <3>1. ASSUME NEW j \in Better(L, i) PROVE j \in 1..(i - 1)
      <4>1. j \in 1..n /\ Lower(L[j], L[i])
        BY <1>5 DEF Better, Sorted
      <4>2. ~ (i <= j)
        BY <1>5, <2>1, <4>1, SortedLines
      <4> QED BY <2>1, <4>1, <4>2
    <3> QED BY <3>1
  <2>4. i - 1 \in Nat
    BY <2>1
  <2>5. IsFiniteSet(1..(i - 1)) /\ Cardinality(1..(i - 1)) = i - 1
    BY <2>4, FS_Interval
  <2>6. Cardinality(Better(L, i)) <= i - 1 /\ Cardinality(Better(L, i)) \in Nat
    BY <2>3, <2>5, FS_Subset, FS_CardinalityType
  <2> QED BY <1>6, <1>7, <2>1, <2>2, <2>6
<1> QED BY <1>11, <1>12

LEMMA StandingsAgreeState == TypeOK /\ opts = DefaultOptions => StandingsAgree
<1> SUFFICES ASSUME TypeOK, opts = DefaultOptions PROVE StandingsAgree
  OBVIOUS
<1>1. ASSUME NEW p \in Players, WeekOf(now) \in DOMAIN history[p],
             \A q \in Players : DOMAIN history[q] \subseteq WeekDays
      PROVE  Recent(Cardinality(WeekDays)) = Week(WeekOf(now))
  BY <1>1, WeekIsRecent
<1> DEFINE tied == Places([i \in DOMAIN Compute.ranked |-> Compute.ranked[i].average])
<1>2. /\ BoardAsStanding(Compute).winners = {Compute.ranked[i].player : i \in {j \in DOMAIN tied : tied[j] = 1}}
      /\ \A i \in DOMAIN tied : tied[i] <= BoardAsStanding(Compute).places[i]
  BY BoardStands
<1> QED BY <1>1, <1>2 DEF StandingsAgree

LEMMA AnswersAgreeState == TypeOK => AnswersAgree
BY DaysAgreeState, DuelsAreDaysState, PuzzlesAgreeState, StandingsAgreeState, RaceIsTheMonthsState,
   LastIsNotFirstState DEF AnswersAgree

\* What the bot says of a day, of a duel, of the puzzles, the standings, the race and the bottom of
\* the table is what the pages and the months say of them, whoever filed what (internal/reply).
THEOREM AnswersAgreeHolds == Spec => []AnswersAgree
<1> QED BY TypeCorrect, AnswersAgreeState, PTL


-----------------------------------------------------------------------------
(* What is told by two rules of the same days.                             *)

\* The last days and the month, when they are the same days, are one table.
LEMMA RecentIsTheMonthState == TypeOK => RecentIsTheMonth
<1> SUFFICES ASSUME TypeOK, NEW m \in Months, now \in m.first..(m.end - 1),
                    NEW p \in Players, m.first \in DOMAIN Counted(p),
                    \A q \in Players : DOMAIN Counted(q) \subseteq m.first..now,
                    NEW days \in (now - m.first + 1)..(now + 1)
             PROVE  Recent(days) = Month(m)
  BY DEF RecentIsTheMonth
<1> DEFINE first == m.first
           end   == m.end
<1>1. first \in Int /\ end \in Int /\ now \in Int
  BY MonthsAreSpans, LastDayIsADay DEF TypeOK
<1>2. first \in DOMAIN Counted(p) /\ \A q \in Players : DOMAIN Counted(q) \subseteq first..now
  OBVIOUS
<1>3. Month(m) = ScoreSpan(first, end, Rows(first, end), now)
  BY DEF Month, MonthAsOf
<1>4. now \in first..(end - 1) /\ days \in (now - first + 1)..(now + 1)
  OBVIOUS
<1> HIDE DEF first, end
<1>5. first <= now /\ now < end /\ days \in Int /\ now - first + 1 <= days
  BY <1>1, <1>4
<1>6. Recent(days) = ScoreSpan(first, end, Rows(first, end), now)
  BY <1>1, <1>2, <1>5, RecentIsSpan
<1> QED BY <1>3, <1>6

\* The last days and the running month are one table when they are the same days, though the
\* one clips its window by the group's first result and the other goes by the calendar
\* (internal/stats/months.go).
THEOREM RecentIsTheMonthHolds == Spec => []RecentIsTheMonth
<1> QED BY TypeCorrect, RecentIsTheMonthState, PTL

\* An average is of the results and of how many are missed.
LEMMA AverageSame ==
  ASSUME NEW f, NEW g, DOMAIN f = DOMAIN g, \A z \in DOMAIN f : f[z] = g[z],
         IsFiniteSet(DOMAIN f), \A z \in DOMAIN f : f[z] \in Result, NEW missed
  PROVE  Average(f, missed) = Average(g, missed)
<1> DEFINE valued == {z \in DOMAIN f : Counts(f[z])}
           alike  == {z \in DOMAIN g : Counts(g[z])}
<1>1. valued = alike
  OBVIOUS
<1>2. IsFiniteSet(valued) /\ \A z \in valued : f[z] = g[z] /\ f[z] \in Result
  BY FS_Subset
<1>3. Total(f, valued) = Total(g, valued)
  BY <1>2, TotalSame
<1>4. /\ Average(f, missed) = [sum   |-> Total(f, valued) + FailedAsSeven * Cardinality(missed),
                               count |-> Cardinality(valued) + Cardinality(missed)]
      /\ Average(g, missed) = [sum   |-> Total(g, alike) + FailedAsSeven * Cardinality(missed),
                               count |-> Cardinality(alike) + Cardinality(missed)]
  BY DEF Average
<1> QED BY <1>1, <1>3, <1>4


\* Every history is a function of the days it has.
HistoriesAreFunctions ==
  \A p \in Players : history[p] = [z \in DOMAIN history[p] |-> history[p][z]]

LEMMA HistoriesStayFunctions ==
  /\ Init => HistoriesAreFunctions
  /\ TypeOK /\ HistoriesAreFunctions /\ [Next]_vars => HistoriesAreFunctions'
<1>1. ASSUME Init PROVE HistoriesAreFunctions
  <2>1. <<>> = [z \in DOMAIN <<>> |-> <<>>[z]]
    OBVIOUS
  <2> QED BY <1>1, <2>1 DEF Init, HistoriesAreFunctions
<1>2. ASSUME TypeOK, HistoriesAreFunctions, [Next]_vars PROVE HistoriesAreFunctions'
  <2>1. ASSUME NEW slot \in Slots, NEW r \in Posted, File(slot[1], slot[2], r)
        PROVE  HistoriesAreFunctions'
    <3>1. ASSUME NEW p \in Players
          PROVE  history'[p] = [y \in DOMAIN history'[p] |-> history'[p][y]]
      <4>1. CASE p = slot[1]
        <5>1. history'[p] = With(history[p], slot[2], r)
          BY <1>2, <2>1, <4>1 DEF File, TypeOK
        <5> QED BY <5>1 DEF With
      <4>2. CASE p # slot[1]
        <5>1. history'[p] = history[p]
          BY <2>1, <4>2 DEF File, TypeOK
        <5> QED BY <1>2, <5>1 DEF HistoriesAreFunctions
      <4> QED BY <4>1, <4>2
    <3> QED BY <3>1 DEF HistoriesAreFunctions
  <2>2. ASSUME NEW slot \in Slots, Delete(slot[1], slot[2]) PROVE HistoriesAreFunctions'
    <3>1. ASSUME NEW p \in Players
          PROVE  history'[p] = [y \in DOMAIN history'[p] |-> history'[p][y]]
      <4>1. CASE p = slot[1]
        <5>1. history'[p] = Restrict(history[p], DOMAIN history[p] \ {slot[2]})
          BY <1>2, <2>2, <4>1 DEF Delete, TypeOK
        <5> QED BY <5>1 DEF Restrict
      <4>2. CASE p # slot[1]
        <5>1. history'[p] = history[p]
          BY <1>2, <2>2, <4>2 DEF Delete, TypeOK
        <5> QED BY <1>2, <5>1 DEF HistoriesAreFunctions
      <4> QED BY <4>1, <4>2
    <3> QED BY <3>1 DEF HistoriesAreFunctions
  <2>3. CASE Midnight
    BY <1>2, <2>3 DEF Midnight, HistoriesAreFunctions
  <2>4. CASE UNCHANGED vars
    BY <1>2, <2>4 DEF vars, HistoriesAreFunctions
  <2> QED BY <1>2, <2>1, <2>2, <2>3, <2>4 DEF Next
<1> QED BY <1>1, <1>2

\* Two things are two.
LEMMA PairCounts ==
  ASSUME NEW x, NEW y, x # y
  PROVE  Cardinality({x, y}) = 2
<1>1. IsFiniteSet({x}) /\ Cardinality({x}) = 1
  BY FS_Singleton
<1>2. y \notin {x}
  OBVIOUS
<1>3. Cardinality({x} \cup {y}) = Cardinality({x}) + 1
  BY <1>1, <1>2, FS_AddElement
<1>4. {x} \cup {y} = {x, y}
  OBVIOUS
<1>5. Cardinality({x, y}) = 1 + 1
  BY <1>1, <1>3, <1>4, Zenon
<1> QED BY <1>5

\* Form and its baseline, when the window holds a whole history up to yesterday or today:
\* they are of the same results and miss the same days.
LEMMA FormIsBaselineState == TypeOK /\ HistoriesAreFunctions => FormIsBaseline
<1> SUFFICES ASSUME TypeOK, HistoriesAreFunctions, NEW p \in Players,
                    history[p] # <<>>, ~opts.hardModeOnly,
                    DOMAIN history[p] \subseteq WindowStart..now,
                    Max(DOMAIN history[p]) >= now - 1
             PROVE  Form(p) = Baseline(p)
  BY DEF FormIsBaseline
<1> DEFINE h == history[p]
           D == DOMAIN h
<1>1. IsFiniteSet(D) /\ \A z \in D : h[z] \in Result
  BY FewResults DEF TypeOK
<1>2. D # {}
  <2> SUFFICES ASSUME D = {} PROVE FALSE
    OBVIOUS
  <2>1. h = [z \in D |-> h[z]]
    BY DEF HistoriesAreFunctions
  <2>2. h = <<>>
    BY <2>1
  <2> QED BY <2>2
<1>3. Counted(p) = h
  BY DEF Counted
<1>4. DOMAIN InWindow(p) = D /\ \A z \in D : InWindow(p)[z] = h[z]
  BY <1>3 DEF InWindow, RestrictDomain, Restrict
<1>5. now \in Int /\ WindowStart \in Int /\ D \subseteq Int
  <2>1. now \in Int
    BY LastDayIsADay DEF TypeOK
  <2> QED BY <2>1, FormWindowIsPositive DEF WindowStart
<1>6. Gaps(p) = (Later(WindowStart, Min(D))..(now - 1)) \ D
  BY DEF Gaps
<1>7. MissedDays(Counted(p), history[p]) = IF Cardinality(D) < 2 THEN {} ELSE (Min(D)..Max(D)) \ D
  BY <1>3 DEF MissedDays
<1>8. D \subseteq WindowStart..now /\ Max(D) >= now - 1
  OBVIOUS
<1>9. Form(p) = Average(InWindow(p), Gaps(p)) /\ Baseline(p) = Average(h, MissedDays(Counted(p), history[p]))
  BY <1>3 DEF Form, Baseline
<1> HIDE DEF h, D
<1>10. /\ Min(D) \in D /\ \A z \in D : Min(D) <= z
       /\ Max(D) \in D /\ \A z \in D : z <= Max(D)
  BY <1>1, <1>2, <1>5, MinIs, MaxIs
<1>11. Gaps(p) = MissedDays(Counted(p), history[p])
  <2> DEFINE low == Min(D)
             high == Max(D)
  <2>1. low \in Int /\ high \in Int /\ WindowStart <= low /\ high <= now /\ low <= high
    <3>1. low \in D /\ high \in D /\ low <= high
      BY <1>10
    <3> HIDE DEF low, high
    <3> QED BY <1>5, <1>8, <3>1
  <2>2. Later(WindowStart, low) = low
    BY <1>5, <2>1 DEF Later
  <2>3. high = now \/ high = now - 1
    BY <1>5, <1>8, <2>1
  <2>4. high \in D /\ low \in D
    BY <1>10
  <2>5. Gaps(p) = (low..(now - 1)) \ D
    BY <1>6, <2>2
  <2>6. MissedDays(Counted(p), history[p]) = IF Cardinality(D) < 2 THEN {} ELSE (low..high) \ D
    BY <1>7
  <2>7. CASE Cardinality(D) < 2
    <3>1. low = high
      <4> SUFFICES ASSUME low # high PROVE FALSE
        OBVIOUS
      <4>1. {low, high} \subseteq D /\ Cardinality({low, high}) = 2
        <5> HIDE DEF low, high
        <5>5. Cardinality({low, high}) = 2
          BY PairCounts
        <5>6. {low, high} \subseteq D
          BY <2>4
        <5> QED BY <5>5, <5>6
      <4>2. Cardinality({low, high}) <= Cardinality(D)
        BY <1>1, <4>1, FS_Subset
      <4>3. Cardinality(D) \in Nat
        BY <1>1, FS_CardinalityType
      <4> QED BY <2>7, <4>1, <4>2, <4>3
    <3> HIDE DEF low, high
    <3>2. (low..(now - 1)) \ D = {}
      BY <1>5, <2>1, <2>3, <2>4, <3>1
    <3> QED BY <2>5, <2>6, <2>7, <3>2
  <2>8. CASE ~(Cardinality(D) < 2)
    <3> HIDE DEF low, high
    <3>1. (low..(now - 1)) \ D = (low..high) \ D
      BY <1>5, <2>1, <2>3, <2>4
    <3> QED BY <2>5, <2>6, <2>8, <3>1
  <2> QED BY <2>7, <2>8
<1>12. Average(InWindow(p), Gaps(p)) = Average(h, Gaps(p))
  <2> DEFINE f == InWindow(p)
  <2>1. DOMAIN f = D /\ (\A z \in D : f[z] = h[z]) /\ D = DOMAIN h
    BY <1>4 DEF D
  <2> HIDE DEF f
  <2>2. Average(f, Gaps(p)) = Average(h, Gaps(p))
    BY <1>1, <2>1, AverageSame
  <2> QED BY <2>2 DEF f
<1> QED BY <1>9, <1>11, <1>12

\* A form and the baseline it is held against, two rules of internal/stats/form.go, are one
\* figure while the window holds the whole history and the last result is no older than
\* yesterday's.
THEOREM FormIsBaselineHolds == Spec => []FormIsBaseline
<1>1. Spec => []HistoriesAreFunctions
  BY HistoriesStayFunctions, TypeCorrect, PTL DEF Spec
<1> QED BY <1>1, TypeCorrect, FormIsBaselineState, PTL


\* The sorted days of a finite set of them.
LEMMA DaysSort ==
  ASSUME NEW D, D \subseteq Int, IsFiniteSet(D)
  PROVE  LET n == Cardinality(D)
             s == InOrder(D, <)
         IN  /\ n \in Nat /\ s \in [1..n -> D] /\ Range(s) = D
             /\ \A i, j \in 1..n : i < j => s[i] < s[j]
<1> DEFINE n == Cardinality(D)
           R == {yz \in D \X D : yz[1] < yz[2]}
           s == InOrder(D, <)
<1>1. n \in Nat
  BY FS_CardinalityType
<1>2. \A y, z \in D : <<y, z>> \in R <=> y < z
  OBVIOUS
<1>3. s = CHOOSE t \in [1..n -> D] : \A i, j \in DOMAIN t : i < j => t[i] < t[j]
  BY DEF InOrder
<1>4. \E t \in [1..Cardinality(D) -> D] :
         \A i, j \in 1..Cardinality(D) : i < j => <<t[i], t[j]>> \in R
  <2> HIDE DEF R
  <2>1. \A y \in D : <<y, y>> \notin R
    BY <1>2
  <2>2. \A y, z \in D : y # z => <<y, z>> \in R \/ <<z, y>> \in R
    BY <1>2
  <2>3. \A x, y, z \in D : <<x, y>> \in R /\ <<y, z>> \in R => <<x, z>> \in R
    BY <1>2
  <2> QED BY <2>1, <2>2, <2>3, SortedExists
<1> HIDE DEF R, s
<1>5. PICK t \in [1..n -> D] : \A i, j \in 1..n : i < j => t[i] < t[j]
  BY <1>2, <1>4
<1> HIDE DEF n
<1>6. s \in [1..n -> D] /\ \A i, j \in 1..n : i < j => s[i] < s[j]
  BY <1>3, <1>5
<1>7. \A i, j \in 1..n : i # j => s[i] # s[j]
  <2> SUFFICES ASSUME NEW i \in 1..n, NEW j \in 1..n, i # j PROVE s[i] # s[j]
    OBVIOUS
  <2>1. s[i] \in Int /\ s[j] \in Int
    BY <1>6
  <2>2. i < j \/ j < i
    BY <1>1
  <2> QED BY <1>6, <2>1, <2>2
<1>8. s \in Injection(1..n, D)
  BY <1>6, <1>7 DEF Injection, IsInjective
<1>9. IsFiniteSet(1..n) /\ Cardinality(1..n) = n
  BY <1>1, FS_Interval
<1>10. s \in Surjection(1..n, D)
  BY <1>8, <1>9, FS_Injection DEF n
<1>11. Range(s) = D
  BY <1>6, <1>10 DEF Range, Surjection
<1> QED BY <1>1, <1>6, <1>11 DEF n, s

\* On the days of the results, the pass over them keeps what the walk over all days does.
\* Between two results not of one day after the other lies a day without, and so a zero.
LEMMA BestRunIsLongestState == TypeOK => BestRunIsLongest
<1> SUFFICES ASSUME TypeOK, NEW p \in Players, DOMAIN history[p] \subseteq 1..now
             PROVE  BestRun(history[p]) = LongestStreak(history[p], TRUE)
  BY DEF BestRunIsLongest
<1> DEFINE h    == history[p]
           D    == DOMAIN h
           good == Good(h, TRUE)
           walk == RunAt(h, TRUE)
           days == InOrder(D, <)
           n    == Cardinality(D)
           Next1(run, i) == IF i = 0 \/ ~Solved(h[days[i]]) THEN 0
                            ELSE IF i > 1 /\ days[i - 1] = days[i] - 1 THEN run[i - 1] + 1 ELSE 1
           Pass(run) == run = [i \in 0..n |-> Next1(run, i)]
           pass == CHOOSE run : Pass(run)
<1>1. now \in Nat /\ IsFiniteSet(D) /\ D \subseteq 1..now /\ D \subseteq Int
  BY LastDayIsADay, FewResults DEF TypeOK
<1>2. /\ n \in Nat /\ days \in [1..n -> D] /\ Range(days) = D
      /\ \A i, j \in 1..n : i < j => days[i] < days[j]
  <2> HIDE DEF D
  <2> QED BY <1>1, DaysSort
<1>3. 0 \notin good /\ \A z \in 0..now : walk[z] = IF z \notin good THEN 0 ELSE walk[z - 1] + 1
  <2>1. 0 \notin good /\ Walk(good, now, walk)
    BY RunWalks
  <2> QED BY <2>1 DEF Walk
<1>4. \A z \in 0..now : z \in good <=> z \in D /\ Solved(h[z])
  BY <1>1 DEF Good
<1>5. LongestStreak(h, TRUE) = Max({walk[z] : z \in 0..now})
  BY DEF LongestStreak
<1>6. BestRun(h) = Max({pass[i] : i \in 0..n})
  <2>1. Len(days) = n
    <3> HIDE DEF days, n, D
    <3>1. days \in Seq(D)
      BY <1>2
    <3> QED BY <1>2, <3>1
  <2> HIDE DEF n
  <2> QED BY <2>1 DEF BestRun, n
<1> HIDE DEF h, good, walk, days, n, D
<1>7. ASSUME NEW i \in 1..n
      PROVE  walk[days[i]] = IF ~Solved(h[days[i]]) THEN 0
                             ELSE IF i > 1 /\ days[i - 1] = days[i] - 1 THEN walk[days[i - 1]] + 1 ELSE 1
  <2> DEFINE z == days[i]
             y == z - 1
  <2>1. z \in D /\ z \in 1..now
    BY <1>1, <1>2
  <2> HIDE DEF z
  <2>2. z \in Int /\ y \in 0..now /\ z \in 0..now
    BY <1>1, <2>1
  <2>3. z \in good <=> Solved(h[z])
    BY <1>4, <2>1, <2>2
  <2>4. walk[z] = IF z \notin good THEN 0 ELSE walk[y] + 1
    BY <1>3, <2>2
  <2>5. ASSUME ~(i > 1 /\ days[i - 1] = y) PROVE y \notin D
    <3> SUFFICES ASSUME y \in D PROVE FALSE
      OBVIOUS
    <3>1. PICK j \in 1..n : days[j] = y
      BY <1>2 DEF Range
    <3>2. j < i
      <4>1. ~(i < j)
        BY <1>2, <2>2, <3>1 DEF z
      <4>2. i # j
        BY <2>2, <3>1 DEF z
      <4> QED BY <1>2, <4>1, <4>2
    <3>3. i > 1 /\ i - 1 \in 1..n /\ i - 1 < i
      BY <1>2, <3>2
    <3>4. j # i - 1
      BY <2>5, <3>1, <3>3
    <3>5. j < i - 1
      BY <1>2, <3>2, <3>4
    <3>6. days[j] < days[i - 1] /\ days[i - 1] < z /\ days[i - 1] \in Int
      BY <1>1, <1>2, <3>3, <3>5 DEF z
    <3> HIDE DEF y
    <3>7. y < days[i - 1]
      BY <3>1, <3>6
    <3> QED BY <2>2, <3>6, <3>7 DEF y
  <2>6. ASSUME y \notin D PROVE walk[y] = 0
    BY <1>3, <1>4, <2>2, <2>6
  <2> QED BY <2>3, <2>4, <2>5, <2>6 DEF z
<1> DEFINE Told(i) == IF i = 0 THEN 0 ELSE walk[days[i]]
           told == [i \in 0..n |-> Told(i)]
<1>8. Pass(told)
  <2>1. ASSUME NEW i \in 0..n PROVE Told(i) = Next1(told, i)
    <3>1. CASE i = 0
      BY <3>1
    <3>2. CASE i # 0
      <4>1. i \in 1..n
        BY <1>2, <3>2
      <4>2. i > 1 => i - 1 \in 0..n /\ i - 1 # 0 /\ told[i - 1] = walk[days[i - 1]]
        BY <1>2, <4>1
      <4> QED BY <1>7, <3>2, <4>1, <4>2
    <3> QED BY <3>1, <3>2
  <2> QED BY <2>1
<1>9. Pass(pass)
  BY <1>8
<1> DEFINE G == {i \in Nat : i <= n => pass[i] = Told(i)}
<1>10. \A i \in 0..n : pass[i] = Next1(pass, i)
  BY <1>9
<1> HIDE DEF pass, told, Pass
<1>11. 0 \in G
  BY <1>2, <1>10
<1>12. ASSUME NEW k \in G PROVE k + 1 \in G
  <2> DEFINE i == k + 1
  <2>1. k \in Nat /\ i \in Nat /\ i - 1 = k /\ i # 0 /\ (i <= n => k <= n) /\ (i > 1 => k # 0)
    BY <1>2
  <2> HIDE DEF i
  <2>2. SUFFICES ASSUME i <= n PROVE pass[i] = walk[days[i]]
    BY <2>1 DEF i
  <2>3. i \in 1..n /\ i \in 0..n
    BY <1>2, <2>1, <2>2
  <2>4. i > 1 => pass[k] = walk[days[k]]
    BY <2>1, <2>2
  <2>5. pass[i] = IF ~Solved(h[days[i]]) THEN 0
                  ELSE IF i > 1 /\ days[k] = days[i] - 1 THEN pass[k] + 1 ELSE 1
    BY <1>10, <2>1, <2>3
  <2>6. walk[days[i]] = IF ~Solved(h[days[i]]) THEN 0
                        ELSE IF i > 1 /\ days[k] = days[i] - 1 THEN walk[days[k]] + 1 ELSE 1
    BY <1>7, <2>1, <2>3
  <2> QED BY <2>4, <2>5, <2>6
<1>13. \A i \in 0..n : pass[i] = Told(i)
  <2> HIDE DEF G
  <2>1. G = Nat
    BY <1>11, <1>12, EveryNumber DEF G
  <2> QED BY <1>2, <2>1 DEF G
<1>14. {pass[i] : i \in 0..n} = {walk[z] : z \in 0..now}
  <2>1. ASSUME NEW i \in 0..n PROVE \E z \in 0..now : pass[i] = walk[z]
    <3>1. CASE i = 0
      <4>1. walk[0] = 0 /\ 0 \in 0..now
        BY <1>1, <1>3
      <4> QED BY <1>13, <3>1, <4>1
    <3>2. CASE i # 0
      <4>1. i \in 1..n
        BY <1>2, <3>2
      <4>2. days[i] \in D
        BY <1>2, <4>1
      <4>3. \A z \in D : z \in 0..now
        BY <1>1
      <4>4. days[i] \in 0..now
        BY <4>2, <4>3
      <4> QED BY <1>13, <3>2, <4>4
    <3> QED BY <3>1, <3>2
  <2>2. ASSUME NEW z \in 0..now PROVE \E i \in 0..n : walk[z] = pass[i]
    <3>1. CASE z \in D
      <4>1. PICK i \in 1..n : days[i] = z
        BY <1>2, <3>1 DEF Range
      <4>2. i \in 0..n /\ i # 0
        BY <1>2
      <4> QED BY <1>13, <4>1, <4>2
    <3>2. CASE z \notin D
      <4>1. walk[z] = 0
        BY <1>3, <1>4, <3>2
      <4>2. 0 \in 0..n /\ pass[0] = 0
        BY <1>2, <1>13
      <4> QED BY <4>1, <4>2
    <3> QED BY <3>1, <3>2
  <2> QED BY <2>1, <2>2
<1> QED BY <1>5, <1>6, <1>14 DEF h

\* The longest run of a player, by the bot's pass over the results (internal/stats/months.go)
\* and by the board's walk over the days (stats.go), is one number while no result is of a day
\* to come.
THEOREM BestRunIsLongestHolds == Spec => []BestRunIsLongest
<1> QED BY TypeCorrect, BestRunIsLongestState, PTL


-----------------------------------------------------------------------------
(* The board, under any toggles: its rows, and their order.                *)

Averages == [sum : Nat, count : Nat]

LEMMA AverageIs ==
  ASSUME NEW results, IsFiniteSet(DOMAIN results), \A z \in DOMAIN results : results[z] \in Result,
         NEW missed, IsFiniteSet(missed)
  PROVE  Average(results, missed) \in Averages
<1> DEFINE valued == {z \in DOMAIN results : Counts(results[z])}
<1>1. IsFiniteSet(valued) /\ \A z \in valued : results[z] \in Result
  BY FS_Subset
<1> HIDE DEF valued
<1>2. Total(results, valued) \in Nat /\ Cardinality(valued) \in Nat /\ Cardinality(missed) \in Nat
  BY <1>1, TotalBound, FS_CardinalityType
<1>3. Average(results, missed) = [sum   |-> Total(results, valued) + 7 * Cardinality(missed),
                                  count |-> Cardinality(valued) + Cardinality(missed)]
  BY DEF Average, FailedAsSeven, valued
<1> QED BY <1>2, <1>3 DEF Averages

\* Who is on the board, and the rows of it.
OnBoard   == {p \in Players : opts.hardModeOnly => DOMAIN Counted(p) # {}}
BoardRows == {Row(p) : p \in OnBoard}

LEMMA RowIs ==
  ASSUME TypeOK, NEW p \in Players
  PROVE  /\ Row(p).player = p /\ p \in Int /\ Row(p).reason = Reason(p)
         /\ Row(p).games = Cardinality(DOMAIN Counted(p)) /\ Row(p).games \in Nat
         /\ Row(p).average \in Averages /\ Row(p).form \in Averages
         /\ HistoriesAreFunctions => Row(p).since \in Int
         /\ history[p] # <<>> => Row(p).since = now - Max(DOMAIN history[p])
<1> DEFINE D == DOMAIN Counted(p)
<1>1. /\ DOMAIN history[p] \subseteq 1..(now + 1) /\ IsFiniteSet(DOMAIN history[p])
      /\ D \subseteq DOMAIN history[p] /\ \A z \in D : Counted(p)[z] \in Result
  BY FewResults
<1>2. IsFiniteSet(D) /\ now \in Int /\ p \in Int
  BY <1>1, FS_Subset, LastDayIsADay, PlayersAreNumbered DEF TypeOK
<1>3. D \subseteq Int
  BY <1>1
<1>4. IsFiniteSet(MissedDays(Counted(p), history[p]))
  <2>1. CASE Cardinality(D) < 2
    BY <2>1, FS_EmptySet DEF MissedDays
  <2>2. CASE ~(Cardinality(D) < 2)
    <3>1. D # {}
      <4> SUFFICES ASSUME D = {} PROVE FALSE
        OBVIOUS
      <4>1. Cardinality({}) = 0
        BY FS_EmptySet
      <4> QED BY <2>2, <4>1
    <3> DEFINE low == Min(D)
               high == Max(D)
    <3>2. low \in D /\ high \in D
      <4> HIDE DEF D
      <4> QED BY <1>2, <1>3, <3>1, MinIs, MaxIs
    <3>3. MissedDays(Counted(p), history[p]) = (low..high) \ DOMAIN history[p]
      BY <2>2 DEF MissedDays
    <3> HIDE DEF low, high
    <3>4. IsFiniteSet(low..high)
      BY <1>3, <3>2, FS_Interval
    <3> QED BY <3>3, <3>4, FS_Difference
  <2> QED BY <2>1, <2>2
<1>5. /\ Row(p).player = p /\ Row(p).reason = Reason(p) /\ Row(p).games = Cardinality(D)
      /\ Row(p).average = Average(Counted(p), IF opts.countMissed THEN MissedDays(Counted(p), history[p]) ELSE {})
      /\ Row(p).form = (IF HasForm(p) THEN WindowForm(p) ELSE [sum |-> 0, count |-> 0])
      /\ Row(p).since = (IF history[p] = <<>> THEN 0 ELSE now - Max(DOMAIN history[p]))
  BY DEF Row
<1>6. Row(p).average \in Averages
  <2> DEFINE missed == IF opts.countMissed THEN MissedDays(Counted(p), history[p]) ELSE {}
  <2>1. IsFiniteSet(missed)
    BY <1>4, FS_EmptySet
  <2> HIDE DEF missed
  <2>2. Average(Counted(p), missed) \in Averages
    BY <1>1, <1>2, <2>1, AverageIs DEF D
  <2> QED BY <1>5, <2>2 DEF missed
<1>7. Row(p).form \in Averages
  <2> DEFINE f == InWindow(p)
  <2>1. DOMAIN f \subseteq D /\ \A z \in DOMAIN f : f[z] = Counted(p)[z]
    BY DEF InWindow, RestrictDomain, Restrict
  <2>2. IsFiniteSet(DOMAIN f) /\ \A z \in DOMAIN f : f[z] \in Result
    BY <1>1, <1>2, <2>1, FS_Subset
  <2> HIDE DEF f
  <2>3. Average(f, {}) \in Averages
    BY <2>2, AverageIs, FS_EmptySet
  <2>4. WindowForm(p) \in Averages
    BY <2>3 DEF WindowForm, f
  <2>5. [sum |-> 0, count |-> 0] \in Averages
    BY DEF Averages
  <2> QED BY <1>5, <2>4, <2>5
<1>8. Row(p).games \in Nat
  BY <1>2, <1>5, FS_CardinalityType
<1>9. ASSUME history[p] # <<>>, DOMAIN history[p] # {} PROVE Max(DOMAIN history[p]) \in Int
  <2> DEFINE E == DOMAIN history[p]
  <2>1. IsFiniteSet(E) /\ E # {} /\ E \subseteq Int
    BY <1>1, <1>2, <1>9
  <2> HIDE DEF E
  <2>2. Max(E) \in E
    BY <2>1, MaxIs
  <2> QED BY <2>1, <2>2 DEF E
<1>10. ASSUME HistoriesAreFunctions PROVE Row(p).since \in Int
  <2>1. history[p] = [z \in DOMAIN history[p] |-> history[p][z]]
    BY <1>10 DEF HistoriesAreFunctions
  <2>2. DOMAIN history[p] = {} => history[p] = <<>>
    BY <2>1
  <2>3. CASE history[p] = <<>>
    BY <1>5, <2>3
  <2>4. CASE history[p] # <<>>
    BY <1>2, <1>5, <1>9, <2>2, <2>4
  <2> QED BY <2>3, <2>4
<1> QED BY <1>2, <1>5, <1>6, <1>7, <1>8, <1>10


\* A row with an average is a line of a table.
LEMMA RowLines ==
  ASSUME NEW a, a.player \in Int, a.games \in Nat, a.average \in Averages, Has(a.average)
  PROVE  BoardLine(a) \in Lines
BY DEF BoardLine, Lines, Averages, Has

\* The order of the ranked is a strict one of any rows, whether they have an average or not.
LEMMA RankedAboveOrders ==
  ASSUME NEW S, \A a \in S : a.player \in Int /\ a.games \in Nat /\ a.average \in Averages,
         \A a, b \in S : a.player = b.player => a = b
  PROVE  /\ \A a \in S : ~ RankedAbove(a, a)
         /\ \A a, b \in S : a # b => RankedAbove(a, b) \/ RankedAbove(b, a)
         /\ \A a, b, c \in S : RankedAbove(a, b) /\ RankedAbove(b, c) => RankedAbove(a, c)
<1> DEFINE H == {a \in S : Has(a.average)}
           lines == {BoardLine(a) : a \in H}
           A == AboveOf(lines)
<1>1. \A a \in H : BoardLine(a) \in Lines /\ BoardLine(a).player = a.player /\ BoardLine(a) \in lines
  BY RowLines DEF BoardLine
<1>2. lines \in SUBSET Lines /\ \A x, y \in lines : x.player = y.player => x = y
  BY <1>1
<1>3. /\ \A x, y \in lines : <<x, y>> \in A <=> Above(x, y)
      /\ \A x \in lines : <<x, x>> \notin A
      /\ \A x, y \in lines : x # y => <<x, y>> \in A \/ <<y, x>> \in A
      /\ \A x, y, z \in lines : <<x, y>> \in A /\ <<y, z>> \in A => <<x, z>> \in A
  <2> HIDE DEF lines
  <2> QED BY <1>2, AboveOrders
<1>4. \A a, b \in H : RankedAbove(a, b) <=> Above(BoardLine(a), BoardLine(b))
  BY <1>1, RankedAboveIsAbove
<1>5. \A a, b \in S : ~(a \in H /\ b \in H) =>
         (RankedAbove(a, b) <=> IF Has(a.average) = Has(b.average) THEN a.player < b.player ELSE Has(a.average))
  BY DEF RankedAbove
<1>6. \A a \in S : a \in H <=> Has(a.average)
  OBVIOUS
<1>7. \A a \in S : Has(a.average) \in BOOLEAN
  BY DEF Has
<1> HIDE DEF H, lines, A
<1>8. \A a, b \in H : RankedAbove(a, b) <=> <<BoardLine(a), BoardLine(b)>> \in A
  BY <1>1, <1>3, <1>4
<1>9. ASSUME NEW a \in S PROVE ~ RankedAbove(a, a)
  <2>1. CASE a \in H
    BY <1>1, <1>3, <1>8, <2>1
  <2>2. CASE a \notin H
    BY <1>5, <2>2
  <2> QED BY <2>1, <2>2
<1>10. ASSUME NEW a \in S, NEW b \in S, a # b PROVE RankedAbove(a, b) \/ RankedAbove(b, a)
  <2>1. a.player # b.player
    BY <1>10
  <2>2. CASE a \in H /\ b \in H
    <3>1. BoardLine(a) # BoardLine(b)
      BY <1>1, <2>1, <2>2
    <3> QED BY <1>1, <1>3, <1>8, <2>2, <3>1
  <2>3. CASE ~(a \in H /\ b \in H)
    BY <1>5, <1>6, <1>7, <2>1, <2>3
  <2> QED BY <2>2, <2>3
<1>11. ASSUME NEW a \in S, NEW b \in S, NEW c \in S, RankedAbove(a, b), RankedAbove(b, c)
       PROVE  RankedAbove(a, c)
  <2>1. CASE a \in H /\ b \in H /\ c \in H
    BY <1>1, <1>3, <1>8, <1>11, <2>1
  <2>2. CASE ~(a \in H /\ b \in H /\ c \in H)
    <3>1. (b \in H => a \in H) /\ (c \in H => b \in H)
      BY <1>5, <1>6, <1>7, <1>11
    <3>2. c \notin H
      BY <2>2, <3>1
    <3> QED BY <1>5, <1>6, <1>7, <1>11, <3>1, <3>2
  <2> QED BY <2>1, <2>2
<1> QED BY <1>9, <1>10, <1>11

\* What the board has in its two parts is every row of those who are on it, each in the part
\* its reason says.
LEMMA BoardIs ==
  ASSUME TypeOK
  PROVE  /\ Range(Compute.ranked) = {a \in BoardRows : a.reason = "ranked"}
         /\ Range(Compute.unranked) = {a \in BoardRows : a.reason # "ranked"}
         /\ Compute.ranked \in Seq(BoardRows) /\ Compute.unranked \in Seq(BoardRows)
         /\ Range(Everyone(Compute)) = BoardRows
         /\ IsFiniteSet(BoardRows)
<1>1. \A p \in OnBoard : p \in Players
  BY DEF OnBoard
<1>2. \A a \in BoardRows : a.player \in Int /\ a.games \in Nat /\ a.average \in Averages
  BY <1>1, RowIs DEF BoardRows
<1>3. \A a, b \in BoardRows : a.player = b.player => a = b
  BY <1>1, RowIs DEF BoardRows
<1>4. IsFiniteSet(BoardRows)
  <2> DEFINE f == [p \in Players |-> Row(p)]
             T == {f[p] : p \in Players}
  <2>1. IsFiniteSet(T)
    <3> HIDE DEF f
    <3> QED BY PlayersAreNumbered, ImagesFinite
  <2>2. BoardRows \in SUBSET T
    BY <1>1 DEF BoardRows
  <2> HIDE DEF T
  <2> QED BY <2>1, <2>2, FS_Subset
<1> DEFINE S == {a \in BoardRows : a.reason = "ranked"}
           T == {a \in BoardRows : a.reason # "ranked"}
           first == Compute.ranked
           last  == Compute.unranked
<1>5. /\ first = CHOOSE s \in [1..Cardinality(S) -> S] : \A i, j \in DOMAIN s : i < j => RankedAbove(s[i], s[j])
      /\ last = CHOOSE s \in [1..Cardinality(T) -> T] : \A i, j \in DOMAIN s : i < j => UnrankedAbove(s[i], s[j])
  BY DEF Compute, InOrder, BoardRows, OnBoard
<1>6. IsFiniteSet(S) /\ IsFiniteSet(T) /\ S \subseteq BoardRows /\ T \subseteq BoardRows
  BY <1>4, FS_Subset
<1>7. BoardRows = S \cup T
  OBVIOUS
<1> HIDE DEF S, T, first, last
<1>8. first \in [1..Cardinality(S) -> S] /\ Range(first) = S
  <2> DEFINE n == Cardinality(S)
             R == {ab \in S \X S : RankedAbove(ab[1], ab[2])}
  <2>1. \A a, b \in S : <<a, b>> \in R <=> RankedAbove(a, b)
    OBVIOUS
  <2>2. /\ \A a \in S : ~ RankedAbove(a, a)
        /\ \A a, b \in S : a # b => RankedAbove(a, b) \/ RankedAbove(b, a)
        /\ \A a, b, c \in S : RankedAbove(a, b) /\ RankedAbove(b, c) => RankedAbove(a, c)
    <3>1. \A a \in S : a.player \in Int /\ a.games \in Nat /\ a.average \in Averages
      BY <1>2, <1>6
    <3>2. \A a, b \in S : a.player = b.player => a = b
      BY <1>3, <1>6
    <3> QED BY <3>1, <3>2, RankedAboveOrders
  <2>3. \E s \in [1..Cardinality(S) -> S] : \A i, j \in 1..Cardinality(S) : i < j => <<s[i], s[j]>> \in R
    <3> HIDE DEF R
    <3>1. \A a \in S : <<a, a>> \notin R
      BY <2>1, <2>2
    <3>2. \A a, b \in S : a # b => <<a, b>> \in R \/ <<b, a>> \in R
      BY <2>1, <2>2
    <3>3. \A a, b, c \in S : <<a, b>> \in R /\ <<b, c>> \in R => <<a, c>> \in R
      BY <2>1, <2>2
    <3> QED BY <1>6, <3>1, <3>2, <3>3, SortedExists
  <2> HIDE DEF R
  <2>4. PICK s \in [1..n -> S] : \A i, j \in 1..n : i < j => RankedAbove(s[i], s[j])
    BY <2>1, <2>3
  <2> HIDE DEF n
  <2>5. DOMAIN s = 1..n /\ \A i, j \in DOMAIN s : i < j => RankedAbove(s[i], s[j])
    BY <2>4
  <2>6. first \in [1..n -> S] /\ \A i, j \in DOMAIN first : i < j => RankedAbove(first[i], first[j])
    BY <1>5, <2>4, <2>5 DEF n
  <2>7. \A i, j \in 1..n : i < j => <<first[i], first[j]>> \in R
    BY <2>1, <2>6
  <2>8. \A a \in S : <<a, a>> \notin R
    BY <2>1, <2>2
  <2>9. Range(first) = S
    BY <1>6, <2>6, <2>7, <2>8, OrderedHasAll DEF n
  <2> QED BY <2>6, <2>9 DEF n
<1>9. last \in [1..Cardinality(T) -> T] /\ Range(last) = T
  <2> DEFINE n == Cardinality(T)
             R == {ab \in T \X T : UnrankedAbove(ab[1], ab[2])}
  <2>1. \A a, b \in T : <<a, b>> \in R <=> UnrankedAbove(a, b)
    OBVIOUS
  <2>2. /\ \A a \in T : a.player \in Int /\ a.games \in Nat
        /\ \A a, b \in T : a.player = b.player => a = b
    BY <1>2, <1>3, <1>6
  <2>3. /\ \A a \in T : <<a, a>> \notin R
        /\ \A a, b \in T : a # b => <<a, b>> \in R \/ <<b, a>> \in R
        /\ \A a, b, c \in T : <<a, b>> \in R /\ <<b, c>> \in R => <<a, c>> \in R
    <3> HIDE DEF R
    <3>1. \A a \in T : <<a, a>> \notin R
      BY <2>1, <2>2 DEF UnrankedAbove
    <3>2. \A a, b \in T : a # b => <<a, b>> \in R \/ <<b, a>> \in R
      BY <2>1, <2>2 DEF UnrankedAbove
    <3>3. \A a, b, c \in T : <<a, b>> \in R /\ <<b, c>> \in R => <<a, c>> \in R
      BY <2>1, <2>2 DEF UnrankedAbove
    <3> QED BY <3>1, <3>2, <3>3
  <2> HIDE DEF R
  <2>4. \E s \in [1..Cardinality(T) -> T] : \A i, j \in 1..Cardinality(T) : i < j => <<s[i], s[j]>> \in R
    BY <1>6, <2>3, SortedExists
  <2>5. PICK s \in [1..n -> T] : \A i, j \in 1..n : i < j => UnrankedAbove(s[i], s[j])
    BY <2>1, <2>4
  <2> HIDE DEF n
  <2>6. DOMAIN s = 1..n /\ \A i, j \in DOMAIN s : i < j => UnrankedAbove(s[i], s[j])
    BY <2>5
  <2>7. last \in [1..n -> T] /\ \A i, j \in DOMAIN last : i < j => UnrankedAbove(last[i], last[j])
    BY <1>5, <2>5, <2>6 DEF n
  <2>8. \A i, j \in 1..n : i < j => <<last[i], last[j]>> \in R
    BY <2>1, <2>7
  <2>9. Range(last) = T
    BY <1>6, <2>3, <2>7, <2>8, OrderedHasAll DEF n
  <2> QED BY <2>7, <2>9 DEF n
<1>10. first \in Seq(BoardRows) /\ last \in Seq(BoardRows)
  <2>1. Cardinality(S) \in Nat /\ Cardinality(T) \in Nat
    BY <1>6, FS_CardinalityType
  <2>2. first \in [1..Cardinality(S) -> BoardRows] /\ last \in [1..Cardinality(T) -> BoardRows]
    BY <1>6, <1>8, <1>9
  <2> QED BY <2>1, <2>2
<1>11. Range(Everyone(Compute)) = BoardRows
  <2>1. Everyone(Compute) = first \o last
    BY DEF Everyone, first, last
  <2> QED BY <1>7, <1>8, <1>9, <1>10, <2>1, RangeOfBoth
<1> QED BY <1>4, <1>8, <1>9, <1>10, <1>11 DEF S, T, first, last


-----------------------------------------------------------------------------
(* The board's stories.                                                    *)

\* A callout of a kind, or none.
AtMostOne(s, kind) == \E x : s \in {<<>>, <<[kind |-> kind, player |-> x]>>}

LEMMA CalloutsAre ==
  ASSUME NEW board, NEW c \in Range(Callouts(board))
  PROVE  /\ c.kind = "onForm" => c \in Range(OnForm(board))
         /\ c.kind = "offForm" => c \in Range(OffForm(board))
         /\ c.kind = "missing" => c \in Range(Missing(board))
<1>1. /\ AtMostOne(Unbroken(board), "unbroken")
      /\ AtMostOne(OnForm(board), "onForm")
      /\ AtMostOne(OffForm(board), "offForm")
      /\ AtMostOne(Missing(board), "missing")
  BY DEF AtMostOne, Call, Unbroken, OnForm, OffForm, Missing
<1>2. AtMostOne(OneAndDone(board), "oneAndDone")
  BY DEF AtMostOne, OneAndDone
<1>3. \E q, k, t, h : /\ RecentCallouts = q \o k \o t \o h
                      /\ AtMostOne(q, "quickSolves") /\ AtMostOne(k, "closeShaves")
                      /\ AtMostOne(t, "stumped") /\ AtMostOne(h, "hardMode")
  <2> DEFINE recent == {history[slot[1]][slot[2]] : slot \in
                          {s \in Players \X (WindowStart..now) : s[2] \in DOMAIN history[s[1]]}}
             Say(kind, such) == IF such = {} THEN <<>> ELSE <<[kind |-> kind, player |-> 0]>>
             q == Say("quickSolves", {r \in recent : r.guesses \in {2, 3}})
             k == Say("closeShaves", {r \in recent : r.guesses = 6})
             t == Say("stumped",     {r \in recent : ~Solved(r)})
             h == Say("hardMode",    {r \in recent : Solved(r) /\ r.hard})
  <2>1. RecentCallouts = q \o k \o t \o h
    BY DEF RecentCallouts
  <2>2. /\ AtMostOne(q, "quickSolves") /\ AtMostOne(k, "closeShaves")
        /\ AtMostOne(t, "stumped") /\ AtMostOne(h, "hardMode")
    <3> HIDE DEF recent
    <3> QED BY DEF AtMostOne
  <2> HIDE DEF q, k, t, h
  <2> QED BY <2>1, <2>2
<1> DEFINE s1 == Unbroken(board)
           s2 == OneAndDone(board)
           s3 == OnForm(board)
           s4 == OffForm(board)
           s5 == Missing(board)
<1>4. PICK s6, s7, s8, s9 : /\ RecentCallouts = s6 \o s7 \o s8 \o s9
                            /\ AtMostOne(s6, "quickSolves") /\ AtMostOne(s7, "closeShaves")
                            /\ AtMostOne(s8, "stumped") /\ AtMostOne(s9, "hardMode")
  BY <1>3
<1>5. PICK x1, x2, x3, x4, x5, x6, x7, x8, x9 :
        /\ s1 \in {<<>>, <<[kind |-> "unbroken", player |-> x1]>>}
        /\ s2 \in {<<>>, <<[kind |-> "oneAndDone", player |-> x2]>>}
        /\ s3 \in {<<>>, <<[kind |-> "onForm", player |-> x3]>>}
        /\ s4 \in {<<>>, <<[kind |-> "offForm", player |-> x4]>>}
        /\ s5 \in {<<>>, <<[kind |-> "missing", player |-> x5]>>}
        /\ s6 \in {<<>>, <<[kind |-> "quickSolves", player |-> x6]>>}
        /\ s7 \in {<<>>, <<[kind |-> "closeShaves", player |-> x7]>>}
        /\ s8 \in {<<>>, <<[kind |-> "stumped", player |-> x8]>>}
        /\ s9 \in {<<>>, <<[kind |-> "hardMode", player |-> x9]>>}
  <2> HIDE DEF s1, s2, s3, s4, s5
  <2> QED BY <1>1, <1>2, <1>4 DEF AtMostOne, s1, s2, s3, s4, s5
<1> DEFINE K1 == [kind |-> "unbroken", player |-> x1]
           K2 == [kind |-> "oneAndDone", player |-> x2]
           K3 == [kind |-> "onForm", player |-> x3]
           K4 == [kind |-> "offForm", player |-> x4]
           K5 == [kind |-> "missing", player |-> x5]
           K6 == [kind |-> "quickSolves", player |-> x6]
           K7 == [kind |-> "closeShaves", player |-> x7]
           K8 == [kind |-> "stumped", player |-> x8]
           K9 == [kind |-> "hardMode", player |-> x9]
           K == {K1, K2, K3, K4, K5, K6, K7, K8, K9}
           all == s1 \o s2 \o s3 \o s4 \o s5 \o RecentCallouts
           n == Earlier(Len(all), MaxCallouts)
<1>6. /\ K1.kind = "unbroken" /\ K2.kind = "oneAndDone" /\ K3.kind = "onForm" /\ K4.kind = "offForm"
      /\ K5.kind = "missing" /\ K6.kind = "quickSolves" /\ K7.kind = "closeShaves" /\ K8.kind = "stumped"
      /\ K9.kind = "hardMode"
  OBVIOUS
<1>7. Callouts(board) = SubSeq(all, 1, n)
  BY DEF Callouts
<1>8. /\ s1 \in {<<>>, <<K1>>} /\ s2 \in {<<>>, <<K2>>} /\ s3 \in {<<>>, <<K3>>}
      /\ s4 \in {<<>>, <<K4>>} /\ s5 \in {<<>>, <<K5>>} /\ s6 \in {<<>>, <<K6>>}
      /\ s7 \in {<<>>, <<K7>>} /\ s8 \in {<<>>, <<K8>>} /\ s9 \in {<<>>, <<K9>>}
  BY <1>5
<1> HIDE DEF s1, s2, s3, s4, s5, K1, K2, K3, K4, K5, K6, K7, K8, K9, all, n
<1>9. /\ s1 \in Seq(K) /\ s2 \in Seq(K) /\ s3 \in Seq(K) /\ s4 \in Seq(K) /\ s5 \in Seq(K)
      /\ s6 \in Seq(K) /\ s7 \in Seq(K) /\ s8 \in Seq(K) /\ s9 \in Seq(K)
  <2>1. \A k \in K : <<>> \in Seq(K) /\ <<k>> \in Seq(K)
    OBVIOUS
  <2> QED BY <1>8, <2>1
<1>10. /\ Range(s1) \subseteq {K1} /\ Range(s2) \subseteq {K2} /\ Range(s3) \subseteq {K3}
       /\ Range(s4) \subseteq {K4} /\ Range(s5) \subseteq {K5} /\ Range(s6) \subseteq {K6}
       /\ Range(s7) \subseteq {K7} /\ Range(s8) \subseteq {K8} /\ Range(s9) \subseteq {K9}
  BY <1>8, RangeOfOne
<1>11. /\ all \in Seq(K)
       /\ Range(all) = Range(s1) \cup Range(s2) \cup Range(s3) \cup Range(s4) \cup Range(s5)
                       \cup (Range(s6) \cup Range(s7) \cup Range(s8) \cup Range(s9))
  <2> HIDE DEF K
  <2> DEFINE a2 == s1 \o s2
             a3 == a2 \o s3
             a4 == a3 \o s4
             a5 == a4 \o s5
             b2 == s6 \o s7
             b3 == b2 \o s8
             b4 == b3 \o s9
  <2>1. all = a5 \o b4
    BY <1>4 DEF all
  <2>2. a2 \in Seq(K) /\ Range(a2) = Range(s1) \cup Range(s2)
    BY <1>9, RangeOfBoth
  <2>3. b2 \in Seq(K) /\ Range(b2) = Range(s6) \cup Range(s7)
    BY <1>9, RangeOfBoth
  <2> HIDE DEF a2, b2
  <2>4. a3 \in Seq(K) /\ Range(a3) = Range(a2) \cup Range(s3)
    BY <1>9, <2>2, RangeOfBoth
  <2>5. b3 \in Seq(K) /\ Range(b3) = Range(b2) \cup Range(s8)
    BY <1>9, <2>3, RangeOfBoth
  <2> HIDE DEF a3, b3
  <2>6. a4 \in Seq(K) /\ Range(a4) = Range(a3) \cup Range(s4)
    BY <1>9, <2>4, RangeOfBoth
  <2>7. b4 \in Seq(K) /\ Range(b4) = Range(b3) \cup Range(s9)
    BY <1>9, <2>5, RangeOfBoth
  <2> HIDE DEF a4, b4
  <2>8. a5 \in Seq(K) /\ Range(a5) = Range(a4) \cup Range(s5)
    BY <1>9, <2>6, RangeOfBoth
  <2> HIDE DEF a5
  <2>9. all \in Seq(K) /\ Range(all) = Range(a5) \cup Range(b4)
    BY <2>1, <2>7, <2>8, RangeOfBoth
  <2> QED BY <2>2, <2>3, <2>4, <2>5, <2>6, <2>7, <2>8, <2>9
<1>12. c \in Range(all)
  <2>1. Len(all) \in Nat
    BY <1>11
  <2>2. n \in Nat /\ n <= Len(all)
    BY <2>1 DEF n, Earlier, MaxCallouts
  <2>3. Range(SubSeq(all, 1, n)) \subseteq Range(all)
    BY <1>11, <2>2, RangeOfFront
  <2> QED BY <1>7, <2>3
<1>13. /\ c.kind = "onForm" => c \in Range(s3)
       /\ c.kind = "offForm" => c \in Range(s4)
       /\ c.kind = "missing" => c \in Range(s5)
  BY <1>6, <1>10, <1>11, <1>12
<1> QED BY <1>13 DEF s3, s4, s5


\* Quotients of any sign are in a weak order too.
LEMMA TimesAny ==
  ASSUME NEW a \in Int, NEW b \in Int, NEW c \in Nat \ {0}
  PROVE  (a <= b <=> a * c <= b * c) /\ a * c \in Int /\ b * c \in Int
OBVIOUS

LEMMA DeltasOrder ==
  ASSUME NEW a, NEW b, NEW c, a.sum \in Int, b.sum \in Int, c.sum \in Int,
         a.count \in Nat \ {0}, b.count \in Nat \ {0}, c.count \in Nat \ {0}
  PROVE  /\ ~ Lower(a, a)
         /\ Lower(a, b) => ~ Lower(b, a)
         /\ ~ Lower(b, a) /\ ~ Lower(c, b) => ~ Lower(c, a)
<1> DEFINE p == a.sum
           q == b.sum
           r == c.sum
           x == a.count
           y == b.count
           z == c.count
<1>1. /\ p \in Int /\ q \in Int /\ r \in Int /\ x \in Nat \ {0} /\ y \in Nat \ {0} /\ z \in Nat \ {0}
      /\ Lower(a, a) <=> p * x < p * x
      /\ Lower(a, b) <=> p * y < q * x
      /\ Lower(b, a) <=> q * x < p * y
      /\ Lower(c, b) <=> r * y < q * z
      /\ Lower(c, a) <=> r * x < p * z
  BY DEF Lower
<1> HIDE DEF p, q, r, x, y, z
<1>2. /\ p * x \in Int /\ p * y \in Int /\ q * x \in Int /\ q * z \in Int /\ r * y \in Int
      /\ p * z \in Int /\ r * x \in Int
  BY <1>1
<1>3. ASSUME p * y <= q * x, q * z <= r * y PROVE p * z <= r * x
  <2>1. (p * y) * z = (p * z) * y /\ (q * x) * z = (q * z) * x /\ (r * y) * x = (r * x) * y
    BY <1>1
  <2>2. (p * y) * z <= (q * x) * z
    BY <1>1, <1>2, <1>3, TimesAny
  <2>3. (q * z) * x <= (r * y) * x
    BY <1>1, <1>2, <1>3, TimesAny
  <2>4. (p * y) * z \in Int /\ (q * z) * x \in Int /\ (r * y) * x \in Int
    BY <1>1, <1>2
  <2>5. (p * z) * y <= (r * x) * y
    BY <2>1, <2>2, <2>3, <2>4
  <2> QED BY <1>1, <1>2, <2>5, TimesAny
<1> QED BY <1>1, <1>2, <1>3

\* Of some places in a list there is a first best one.
LEMMA FirstOfBest ==
  ASSUME NEW n \in Nat, NEW such \in SUBSET (1..n), such # {}, NEW R,
         \A i \in such : <<i, i>> \notin R,
         \A i, j \in such : <<i, j>> \in R => <<j, i>> \notin R,
         \A i, j, k \in such : <<j, i>> \notin R /\ <<k, j>> \notin R => <<k, i>> \notin R,
         NEW best, best = {i \in such : \A j \in such : <<j, i>> \notin R}
  PROVE  Min(best) \in such /\ \A j \in such : <<j, Min(best)>> \notin R
<1>1. IsFiniteSet(1..n)
  BY FS_Interval
<1>2. IsFiniteSet(such)
  BY <1>1, FS_Subset
<1>3. best # {}
  <2>1. \E i \in such : \A j \in such : <<j, i>> \notin R
    BY <1>2, LeastExists
  <2> QED BY <2>1
<1>4. IsFiniteSet(best) /\ best \subseteq Int
  <2>1. best \subseteq such
    OBVIOUS
  <2>2. IsFiniteSet(best)
    BY <1>2, <2>1, FS_Subset
  <2>3. \A i \in 1..n : i \in Int
    OBVIOUS
  <2> QED BY <2>1, <2>2, <2>3
<1>5. Min(best) \in best
  BY <1>3, <1>4, MinIs
<1> QED BY <1>5

\* What a form differs from its average by.
LEMMA DeltaIs ==
  ASSUME NEW a, a.average \in Averages, a.form \in Averages, HasDelta(a)
  PROVE  Delta(a).sum \in Int /\ Delta(a).count \in Nat \ {0}
<1>1. /\ a.average.sum \in Nat /\ a.average.count \in Nat \ {0}
      /\ a.form.sum \in Nat /\ a.form.count \in Nat \ {0}
  BY DEF Averages, HasDelta, Has
<1> DEFINE s == a.average.sum
           c == a.average.count
           t == a.form.sum
           d == a.form.count
<1>2. Delta(a).sum = t * c - s * d /\ Delta(a).count = d * c
  BY DEF Delta
<1> HIDE DEF s, c, t, d
<1>3. s \in Nat /\ c \in Nat \ {0} /\ t \in Nat /\ d \in Nat \ {0}
  BY <1>1 DEF s, c, t, d
<1>4. t * c \in Int /\ s * d \in Int
  BY <1>3
<1>5. d * c \in Nat \ {0}
  BY <1>3
<1> QED BY <1>2, <1>4, <1>5

\* The one called on form is a ranked player whose form is a quarter better than the average,
\* and nobody's is further below it; off form, the other way.
LEMMA OnFormIs ==
  ASSUME TypeOK, NEW c \in Range(OnForm(Compute))
  PROVE  \E a \in BoardRows : /\ c.player = a.player /\ a.reason = "ranked"
                              /\ HasDelta(a) /\ Rising(a)
                              /\ \A b \in BoardRows : b.reason = "ranked" /\ HasDelta(b) => ~ MoreImproved(b, a)
<1> DEFINE rows == Compute.ranked
           such == {i \in DOMAIN rows : HasDelta(rows[i])}
           best == {i \in such : \A j \in such : ~ MoreImproved(rows[j], rows[i])}
           n    == Len(rows)
           R    == {ij \in such \X such : MoreImproved(rows[ij[1]], rows[ij[2]])}
           at   == Min(best)
<1>1. such # {} /\ Rising(rows[at]) /\ c = [kind |-> "onForm", player |-> rows[at].player]
  <2>1. FirstBest(Compute.ranked, HasDelta, MoreImproved) = IF such = {} THEN <<>> ELSE <<rows[at]>>
    BY DEF FirstBest
  <2> HIDE DEF such, best, at, rows
  <2>2. CASE such = {}
    <3>1. OnForm(Compute) = <<>>
      BY <2>1, <2>2 DEF OnForm, Call
    <3> QED BY <3>1, RangeOfOne
  <2>3. CASE such # {}
    <3>1. FirstBest(Compute.ranked, HasDelta, MoreImproved) = <<rows[at]>>
      BY <2>1, <2>3
    <3>2. <<rows[at]>> # <<>> /\ <<rows[at]>>[1] = rows[at]
      OBVIOUS
    <3>3. OnForm(Compute) = IF Rising(rows[at]) THEN <<[kind |-> "onForm", player |-> rows[at].player]>> ELSE <<>>
      BY <3>1, <3>2 DEF OnForm, Call
    <3> QED BY <2>3, <3>3, RangeOfOne
  <2> QED BY <2>2, <2>3
<1>2. rows \in Seq(BoardRows) /\ Range(rows) = {a \in BoardRows : a.reason = "ranked"}
  BY BoardIs
<1>3. \A a \in BoardRows : a.average \in Averages /\ a.form \in Averages
  BY RowIs DEF BoardRows, OnBoard
<1> HIDE DEF rows
<1>4. n \in Nat /\ DOMAIN rows = 1..n
  BY <1>2
<1>5. \A i \in 1..n : rows[i] \in BoardRows /\ rows[i].reason = "ranked"
  BY <1>2, <1>4 DEF Range
<1>6. \A i \in such : i \in 1..n /\ HasDelta(rows[i]) /\ rows[i] \in BoardRows
  BY <1>4, <1>5
<1>7. \A i \in such : Delta(rows[i]).sum \in Int /\ Delta(rows[i]).count \in Nat \ {0}
  BY <1>3, <1>6, DeltaIs
<1>8. \A i, j \in such : /\ <<i, j>> \in R <=> MoreImproved(rows[i], rows[j])
                         /\ MoreImproved(rows[i], rows[j]) <=> Lower(Delta(rows[i]), Delta(rows[j]))
  BY DEF MoreImproved, Delta
<1>9. best = {i \in such : \A j \in such : <<j, i>> \notin R}
  BY <1>8
<1>10. such \in SUBSET (1..n)
  BY <1>4
<1> HIDE DEF such, R, best, n
<1>11. \A i, j \in such : <<i, j>> \in R <=> Lower(Delta(rows[i]), Delta(rows[j]))
  BY <1>8
<1>12. /\ \A i \in such : <<i, i>> \notin R
       /\ \A i, j \in such : <<i, j>> \in R => <<j, i>> \notin R
       /\ \A i, j, k \in such : <<j, i>> \notin R /\ <<k, j>> \notin R => <<k, i>> \notin R
  <2>1. ASSUME NEW i \in such, NEW j \in such, NEW k \in such
        PROVE  /\ ~ Lower(Delta(rows[i]), Delta(rows[i]))
               /\ Lower(Delta(rows[i]), Delta(rows[j])) => ~ Lower(Delta(rows[j]), Delta(rows[i]))
               /\ ~ Lower(Delta(rows[j]), Delta(rows[i])) /\ ~ Lower(Delta(rows[k]), Delta(rows[j]))
                    => ~ Lower(Delta(rows[k]), Delta(rows[i]))
    <3>1. /\ Delta(rows[i]).sum \in Int /\ Delta(rows[i]).count \in Nat \ {0}
          /\ Delta(rows[j]).sum \in Int /\ Delta(rows[j]).count \in Nat \ {0}
          /\ Delta(rows[k]).sum \in Int /\ Delta(rows[k]).count \in Nat \ {0}
      BY <1>7
    <3> QED BY <3>1, DeltasOrder
  <2> QED BY <1>11, <2>1
<1>13. at \in such /\ \A j \in such : <<j, at>> \notin R
  BY <1>1, <1>4, <1>9, <1>10, <1>12, FirstOfBest
<1> HIDE DEF at
<1>14. ASSUME NEW b \in BoardRows, b.reason = "ranked", HasDelta(b) PROVE ~ MoreImproved(b, rows[at])
  <2>1. b \in Range(rows)
    BY <1>2, <1>14
  <2>2. PICK j \in 1..n : b = rows[j]
    BY <1>4, <2>1 DEF Range
  <2>3. j \in such
    BY <1>4, <1>14, <2>2 DEF such
  <2> QED BY <1>8, <1>13, <2>2, <2>3
<1>15. rows[at] \in BoardRows /\ rows[at].reason = "ranked" /\ HasDelta(rows[at])
  BY <1>5, <1>6, <1>13
<1>16. c.player = rows[at].player
  BY <1>1
<1> QED BY <1>1, <1>14, <1>15, <1>16

LEMMA OffFormIs ==
  ASSUME TypeOK, NEW c \in Range(OffForm(Compute))
  PROVE  \E a \in BoardRows : c.player = a.player /\ HasDelta(a) /\ Falling(a)
<1> DEFINE rows == Compute.ranked
           such == {i \in DOMAIN rows : HasDelta(rows[i])}
           best == {i \in such : \A j \in such : ~ MoreImproved(rows[i], rows[j])}
           n    == Len(rows)
           R    == {ij \in such \X such : MoreImproved(rows[ij[2]], rows[ij[1]])}
           at   == Min(best)
<1>1. such # {} /\ Falling(rows[at]) /\ c = [kind |-> "offForm", player |-> rows[at].player]
  <2>1. FirstBest(Compute.ranked, HasDelta, LAMBDA a, b : MoreImproved(b, a))
          = IF such = {} THEN <<>> ELSE <<rows[at]>>
    BY DEF FirstBest
  <2> HIDE DEF such, best, at, rows
  <2>2. CASE such = {}
    <3>1. OffForm(Compute) = <<>>
      BY <2>1, <2>2 DEF OffForm, Call
    <3> QED BY <3>1, RangeOfOne
  <2>3. CASE such # {}
    <3>1. FirstBest(Compute.ranked, HasDelta, LAMBDA a, b : MoreImproved(b, a)) = <<rows[at]>>
      BY <2>1, <2>3
    <3>2. <<rows[at]>> # <<>> /\ <<rows[at]>>[1] = rows[at]
      OBVIOUS
    <3>3. OffForm(Compute) = IF Falling(rows[at]) THEN <<[kind |-> "offForm", player |-> rows[at].player]>> ELSE <<>>
      BY <3>1, <3>2 DEF OffForm, Call
    <3> QED BY <2>3, <3>3, RangeOfOne
  <2> QED BY <2>2, <2>3
<1>2. rows \in Seq(BoardRows)
  BY BoardIs
<1>3. \A a \in BoardRows : a.average \in Averages /\ a.form \in Averages
  BY RowIs DEF BoardRows, OnBoard
<1> HIDE DEF rows
<1>4. n \in Nat /\ DOMAIN rows = 1..n /\ \A i \in 1..n : rows[i] \in BoardRows
  BY <1>2
<1>5. \A i \in such : i \in 1..n /\ HasDelta(rows[i]) /\ rows[i] \in BoardRows
  BY <1>4
<1>6. \A i \in such : Delta(rows[i]).sum \in Int /\ Delta(rows[i]).count \in Nat \ {0}
  BY <1>3, <1>5, DeltaIs
<1>7. \A i, j \in such : /\ <<i, j>> \in R <=> MoreImproved(rows[j], rows[i])
                         /\ MoreImproved(rows[j], rows[i]) <=> Lower(Delta(rows[j]), Delta(rows[i]))
  BY DEF MoreImproved, Delta
<1>8. best = {i \in such : \A j \in such : <<j, i>> \notin R}
  BY <1>7
<1>9. such \in SUBSET (1..n)
  BY <1>4
<1> HIDE DEF such, R, best, n
<1>10. \A i, j \in such : <<i, j>> \in R <=> Lower(Delta(rows[j]), Delta(rows[i]))
  BY <1>7
<1>11. /\ \A i \in such : <<i, i>> \notin R
       /\ \A i, j \in such : <<i, j>> \in R => <<j, i>> \notin R
       /\ \A i, j, k \in such : <<j, i>> \notin R /\ <<k, j>> \notin R => <<k, i>> \notin R
  <2>1. ASSUME NEW i \in such, NEW j \in such, NEW k \in such
        PROVE  /\ ~ Lower(Delta(rows[i]), Delta(rows[i]))
               /\ Lower(Delta(rows[i]), Delta(rows[j])) => ~ Lower(Delta(rows[j]), Delta(rows[i]))
               /\ ~ Lower(Delta(rows[j]), Delta(rows[k])) /\ ~ Lower(Delta(rows[i]), Delta(rows[j]))
                    => ~ Lower(Delta(rows[i]), Delta(rows[k]))
    <3>1. /\ Delta(rows[i]).sum \in Int /\ Delta(rows[i]).count \in Nat \ {0}
          /\ Delta(rows[j]).sum \in Int /\ Delta(rows[j]).count \in Nat \ {0}
          /\ Delta(rows[k]).sum \in Int /\ Delta(rows[k]).count \in Nat \ {0}
      BY <1>6
    <3> QED BY <3>1, DeltasOrder
  <2> QED BY <1>10, <2>1
<1>12. at \in such
  BY <1>1, <1>4, <1>8, <1>9, <1>11, FirstOfBest
<1> HIDE DEF at
<1> QED BY <1>1, <1>5, <1>12


\* The one called missing is a player of the board who is not ranked, with a history long
\* enough to be missed.
LEMMA MissingIs ==
  ASSUME TypeOK, HistoriesAreFunctions, NEW c \in Range(Missing(Compute))
  PROVE  \E a \in BoardRows : c.player = a.player /\ a.reason # "ranked" /\ a.games > MinGames
<1> DEFINE rows == Compute.unranked
           Gone(a) == a.player \in Active /\ a.games > MinGames /\ a.since >= AbsentDays
           such == {i \in DOMAIN rows : Gone(rows[i])}
           best == {i \in such : \A j \in such : ~(rows[j].since > rows[i].since)}
           n    == Len(rows)
           R    == {ij \in such \X such : rows[ij[1]].since > rows[ij[2]].since}
           at   == Min(best)
<1>1. such # {} /\ c = [kind |-> "missing", player |-> rows[at].player]
  <2>1. FirstBest(Compute.unranked, Gone, LAMBDA a, b : a.since > b.since)
          = IF such = {} THEN <<>> ELSE <<rows[at]>>
    BY DEF FirstBest
  <2>2. Missing(Compute) =
          LET first == FirstBest(Compute.unranked, Gone, LAMBDA a, b : a.since > b.since)
          IN  IF first # <<>> /\ Gone(first[1])
              THEN <<[kind |-> "missing", player |-> first[1].player]>> ELSE <<>>
    BY DEF Missing, Call
  <2> DEFINE first == FirstBest(Compute.unranked, Gone, LAMBDA a, b : a.since > b.since)
  <2>3. Missing(Compute) = IF first # <<>> /\ Gone(first[1])
                           THEN <<[kind |-> "missing", player |-> first[1].player]>> ELSE <<>>
    BY <2>2
  <2>4. first = IF such = {} THEN <<>> ELSE <<rows[at]>>
    BY <2>1
  <2> HIDE DEF such, best, at, rows, Gone, first
  <2>5. CASE such = {}
    <3>1. Missing(Compute) = <<>>
      BY <2>3, <2>4, <2>5
    <3> QED BY <3>1, RangeOfOne
  <2>6. CASE such # {}
    <3>1. first = <<rows[at]>>
      BY <2>4, <2>6
    <3>2. first # <<>> /\ first[1] = rows[at]
      BY <3>1
    <3>3. Missing(Compute) = IF Gone(rows[at]) THEN <<[kind |-> "missing", player |-> rows[at].player]>> ELSE <<>>
      BY <2>3, <3>2
    <3> QED BY <2>6, <3>3, RangeOfOne
  <2> QED BY <2>5, <2>6
<1>2. rows \in Seq(BoardRows) /\ Range(rows) = {a \in BoardRows : a.reason # "ranked"}
  BY BoardIs
<1>3. \A a \in BoardRows : a.since \in Int
  BY RowIs DEF BoardRows, OnBoard
<1> HIDE DEF rows
<1>4. n \in Nat /\ DOMAIN rows = 1..n
  BY <1>2
<1>5. \A i \in 1..n : rows[i] \in BoardRows /\ rows[i].reason # "ranked"
  BY <1>2, <1>4 DEF Range
<1>6. \A i \in such : i \in 1..n /\ rows[i] \in BoardRows /\ rows[i].since \in Int
  BY <1>3, <1>4, <1>5
<1>7. \A i, j \in such : <<i, j>> \in R <=> rows[i].since > rows[j].since
  OBVIOUS
<1>8. best = {i \in such : \A j \in such : <<j, i>> \notin R}
  BY <1>7
<1>9. such \in SUBSET (1..n)
  BY <1>4
<1>10. \A i \in such : rows[i].games > MinGames
  OBVIOUS
<1> HIDE DEF such, R, best, n
<1>11. /\ \A i \in such : <<i, i>> \notin R
       /\ \A i, j \in such : <<i, j>> \in R => <<j, i>> \notin R
       /\ \A i, j, k \in such : <<j, i>> \notin R /\ <<k, j>> \notin R => <<k, i>> \notin R
  BY <1>6, <1>7
<1>12. at \in such
  BY <1>1, <1>4, <1>8, <1>9, <1>11, FirstOfBest
<1> HIDE DEF at
<1> QED BY <1>1, <1>5, <1>6, <1>10, <1>12

\* Nobody's form is a quarter better and a quarter worse than the same average.
LEMMA NotBoth ==
  ASSUME NEW a, a.average \in Averages, a.form \in Averages, HasDelta(a)
  PROVE  ~(Rising(a) /\ Falling(a))
<1> DEFINE s == a.average.sum
           c == a.average.count
           t == a.form.sum
           d == a.form.count
<1>1. s \in Nat /\ c \in Nat \ {0} /\ t \in Nat /\ d \in Nat \ {0}
  BY DEF Averages, HasDelta, Has
<1>2. /\ Rising(a) => 4 * (s * d - t * c) >= d * c
      /\ Falling(a) => 4 * (t * c - s * d) >= c * d
  BY DEF Rising, Falling, Significant
<1> HIDE DEF s, c, t, d
<1>3. d * c \in Nat \ {0} /\ c * d = d * c /\ s * d \in Int /\ t * c \in Int
  BY <1>1
<1> QED BY <1>2, <1>3

\* Whoever is not ranked with more games than a form needs has not played in the window.
LEMMA LapsedIs ==
  ASSUME TypeOK, HistoriesAreFunctions, NEW p \in Players,
         Row(p).reason # "ranked", Row(p).games > MinGames
  PROVE  Row(p).reason = "no recent games" /\ now - Max(DOMAIN history[p]) >= FormWindow
<1> DEFINE D == DOMAIN history[p]
           high == Max(D)
<1>1. D \subseteq 1..(now + 1) /\ IsFiniteSet(D) /\ DOMAIN Counted(p) \subseteq D
  BY FewResults
<1>2. Row(p).reason = Reason(p) /\ Row(p).games = Cardinality(DOMAIN Counted(p))
  BY RowIs
<1>3. Cardinality(DOMAIN Counted(p)) <= Cardinality(D) /\ Cardinality(D) \in Nat
      /\ IsFiniteSet(DOMAIN Counted(p))
  BY <1>1, FS_Subset, FS_CardinalityType
<1>4. Cardinality(DOMAIN Counted(p)) \in Nat /\ now \in Int
  BY <1>3, FS_CardinalityType, LastDayIsADay DEF TypeOK
<1>5. Cardinality(D) > MinGames
  BY <1>2, <1>3, <1>4, MinGamesIsPositive
<1>6. D # {}
  <2> SUFFICES ASSUME D = {} PROVE FALSE
    OBVIOUS
  <2>1. Cardinality({}) = 0
    BY FS_EmptySet
  <2>2. Cardinality(D) = 0
    BY <2>1
  <2> QED BY <1>5, <2>2, MinGamesIsPositive
<1>7. ~(Cardinality(D) < MinGames)
  BY <1>3, <1>5, MinGamesIsPositive
<1>8. Reason(p) = "no recent games" /\ \A z \in D : z < WindowStart
  BY <1>2, <1>6, <1>7 DEF Reason
<1>9. high \in D /\ D \subseteq Int
  <2>1. D \subseteq Int
    BY <1>1, <1>4
  <2> HIDE DEF D
  <2> QED BY <1>1, <1>6, <2>1, MaxIs
<1> HIDE DEF D
<1>10. high < WindowStart /\ high \in Int
  BY <1>8, <1>9
<1> HIDE DEF high
<1>11. now - high >= FormWindow
  BY <1>4, <1>10, FormWindowIsPositive DEF WindowStart
<1> QED BY <1>2, <1>8, <1>11 DEF high, D

\* What a board says of its players is one story.
LEMMA StoriesAgreeState == TypeOK /\ HistoriesAreFunctions => StoriesAgree
<1> SUFFICES ASSUME TypeOK, HistoriesAreFunctions PROVE StoriesAgree
  OBVIOUS
<1> DEFINE board == Compute
           Of(kind) == {c.player : c \in {d \in Range(Callouts(board)) : d.kind = kind}}
           Shown(p) == CHOOSE row \in Range(Everyone(board)) : row.player = p
           whole == ComputeGrid(board, TRUE, FormWindow)
<1>1. \A p \in OnBoard : p \in Players /\ Row(p) \in BoardRows /\ Row(p).player = p
  BY RowIs DEF OnBoard, BoardRows
<1>2. \A a \in BoardRows : \E p \in OnBoard : a = Row(p) /\ a.player = p
  BY <1>1 DEF BoardRows
<1>3. Range(Everyone(board)) = BoardRows
  BY BoardIs
<1>4. \A a \in BoardRows : Shown(a.player) = a
  <2>1. ASSUME NEW a \in BoardRows PROVE Shown(a.player) = a
    <3>1. \A b \in BoardRows : b.player = a.player => b = a
      BY <1>2
    <3> QED BY <1>3, <3>1
  <2> QED BY <2>1
<1>5. \A a \in BoardRows : a.average \in Averages /\ a.form \in Averages
  BY <1>1, <1>2, RowIs
<1>6. \A p \in Of("onForm") : \E a \in BoardRows : p = a.player /\ HasDelta(a) /\ Rising(a)
  <2>1. ASSUME NEW c \in Range(Callouts(board)), c.kind = "onForm"
        PROVE  \E a \in BoardRows : c.player = a.player /\ HasDelta(a) /\ Rising(a)
    <3>1. c \in Range(OnForm(Compute))
      BY <2>1, CalloutsAre
    <3> QED BY <3>1, OnFormIs
  <2> HIDE DEF board
  <2> QED BY <2>1
<1>7. \A p \in Of("offForm") : \E a \in BoardRows : p = a.player /\ HasDelta(a) /\ Falling(a)
  <2>1. ASSUME NEW c \in Range(Callouts(board)), c.kind = "offForm"
        PROVE  \E a \in BoardRows : c.player = a.player /\ HasDelta(a) /\ Falling(a)
    <3>1. c \in Range(OffForm(Compute))
      BY <2>1, CalloutsAre
    <3> QED BY <3>1, OffFormIs
  <2> HIDE DEF board
  <2> QED BY <2>1
<1>8. \A p \in Of("missing") : \E a \in BoardRows : p = a.player /\ a.reason # "ranked" /\ a.games > MinGames
  <2>1. ASSUME NEW c \in Range(Callouts(board)), c.kind = "missing"
        PROVE  \E a \in BoardRows : c.player = a.player /\ a.reason # "ranked" /\ a.games > MinGames
    <3>1. c \in Range(Missing(Compute))
      BY <2>1, CalloutsAre
    <3> QED BY <3>1, MissingIs
  <2> HIDE DEF board
  <2> QED BY <2>1
<1> HIDE DEF Of
<1>9. Of("onForm") \cap Of("offForm") = {}
  <2> SUFFICES ASSUME NEW p \in Of("onForm"), p \in Of("offForm") PROVE FALSE
    OBVIOUS
  <2>1. PICK a \in BoardRows : p = a.player /\ HasDelta(a) /\ Rising(a)
    BY <1>6
  <2>2. PICK b \in BoardRows : p = b.player /\ HasDelta(b) /\ Falling(b)
    BY <1>7
  <2>3. a = b
    BY <1>2, <2>1, <2>2
  <2> QED BY <1>5, <2>1, <2>2, <2>3, NotBoth
<1>10. \A p \in Of("onForm") : "climbing" \in Traits(Shown(p))
  <2> SUFFICES ASSUME NEW p \in Of("onForm") PROVE "climbing" \in Traits(Shown(p))
    OBVIOUS
  <2>1. PICK a \in BoardRows : p = a.player /\ Rising(a)
    BY <1>6
  <2>2. Shown(p) = a
    BY <1>4, <2>1
  <2> HIDE DEF Shown
  <2>3. Deserves(a, "climbing")
    BY <2>1 DEF Deserves
  <2>4. 3 \in DOMAIN TraitOrder /\ TraitOrder[3] = "climbing"
    BY DEF TraitOrder
  <2> QED BY <2>2, <2>3, <2>4 DEF Traits, Earned
<1>11. \A p \in Of("missing") \ {0} : /\ Trait(Shown(p)) = "no recent games"
                                      /\ now - Max(DOMAIN history[p]) >= FormWindow
  <2> SUFFICES ASSUME NEW p \in Of("missing")
               PROVE  /\ Trait(Shown(p)) = "no recent games"
                      /\ now - Max(DOMAIN history[p]) >= FormWindow
    OBVIOUS
  <2>1. PICK a \in BoardRows : p = a.player /\ a.reason # "ranked" /\ a.games > MinGames
    BY <1>8
  <2>2. Shown(p) = a /\ p \in Players /\ a = Row(p)
    BY <1>1, <1>2, <1>4, <2>1
  <2> HIDE DEF Shown
  <2>3. Row(p).reason = "no recent games" /\ now - Max(DOMAIN history[p]) >= FormWindow
    BY <2>1, <2>2, LapsedIs
  <2> QED BY <2>2, <2>3 DEF Trait
<1>12. whole.rows = GridDays(FormWindow)
  <2> DEFINE days == GridDays(FormWindow)
             on == {row.player : row \in Range(Everyone(board))}
             cells == [p \in on |-> RestrictDomain(Counted(p), LAMBDA z : z \in days)]
  <2>1. whole.rows = UNION {DOMAIN cells[p] : p \in on}
    BY DEF ComputeGrid
  <2>2. on = OnBoard
    BY <1>1, <1>2, <1>3
  <2>3. \A p \in on : DOMAIN cells[p] = DOMAIN Counted(p) \cap days
    BY DEF RestrictDomain, Restrict
  <2>4. days \subseteq UNION {DOMAIN Counted(p) : p \in Players}
    BY DEF GridDays
  <2>5. \A p \in Players : DOMAIN Counted(p) # {} => p \in OnBoard
    BY DEF OnBoard
  <2> HIDE DEF cells, on, days, whole
  <2>6. \A z \in days : \E p \in on : z \in DOMAIN cells[p]
    BY <2>2, <2>3, <2>4, <2>5
  <2> QED BY <2>1, <2>3, <2>6 DEF days
<1>13. board.excluded = Cardinality({p \in Players : opts.hardModeOnly /\ DOMAIN Counted(p) = {}})
  <2> DEFINE off == {p \in Players : opts.hardModeOnly /\ DOMAIN Counted(p) = {}}
             f == [p \in OnBoard |-> Row(p)]
  <2>1. board.excluded = Cardinality(Players) - Cardinality(BoardRows)
    BY DEF Compute, BoardRows, OnBoard
  <2>2. Players = OnBoard \cup off /\ OnBoard \cap off = {}
    BY DEF OnBoard
  <2>3. IsFiniteSet(OnBoard) /\ IsFiniteSet(off)
    BY <2>2, PlayersAreNumbered, FS_Subset
  <2>4. f \in Injection(OnBoard, BoardRows) /\ f \in Surjection(OnBoard, BoardRows)
    BY <1>1, <1>2 DEF Injection, IsInjective, Surjection
  <2>5. Cardinality(OnBoard) = Cardinality(BoardRows)
    <3>1. IsFiniteSet(BoardRows)
      BY BoardIs
    <3> HIDE DEF f
    <3> QED BY <2>4, <3>1, FS_Injection
  <2> HIDE DEF off
  <2>6. Cardinality(Players) = Cardinality(OnBoard) + Cardinality(off)
    BY <2>2, <2>3, CountOfBoth
  <2>7. Cardinality(OnBoard) \in Nat /\ Cardinality(off) \in Nat
    BY <2>3, FS_CardinalityType
  <2> QED BY <2>1, <2>5, <2>6, <2>7 DEF off
<1>14. StoriesAgree <=> /\ Of("onForm") \cap Of("offForm") = {}
                        /\ \A p \in Of("onForm") : "climbing" \in Traits(Shown(p))
                        /\ \A p \in Of("missing") \ {0} : /\ Trait(Shown(p)) = "no recent games"
                                                          /\ now - Max(DOMAIN history[p]) >= FormWindow
                        /\ whole.rows = GridDays(FormWindow)
                        /\ board.excluded = Cardinality({p \in Players : opts.hardModeOnly /\ DOMAIN Counted(p) = {}})
  BY DEF StoriesAgree, Of
<1> HIDE DEF Shown, whole, board
<1> QED BY <1>9, <1>10, <1>11, <1>12, <1>13, <1>14

\* The board tells one story of a player, under any toggles: whoever it calls on form is
\* climbing and not called off form too, whoever it calls missing is ranked nowhere and has been
\* gone for the whole window, and its grid and its count of the excluded are of the same players
\* (internal/stats: callouts.go, traits.go, grid.go).
THEOREM StoriesAgreeHolds == Spec => []StoriesAgree
<1>1. Spec => []HistoriesAreFunctions
  BY HistoriesStayFunctions, TypeCorrect, PTL DEF Spec
<1> QED BY <1>1, TypeCorrect, StoriesAgreeState, PTL

-----------------------------------------------------------------------------
(* What the bot tells of the past: the group's figures.                    *)

\* The sums the distribution is told by, as sums of functions.
LEMMA CountGroupIs ==
  ASSUME NEW board, NEW g, IsFiniteSet(Range(Everyone(board)))
  PROVE  CountGroup(board, g) = SumOver([x \in Range(Everyone(board)) |-> x.dist[g]], Range(Everyone(board)))
<1> DEFINE S == Range(Everyone(board))
           f == [x \in S |-> x.dist[g]]
           Folds(h) == h = [s \in SUBSET S |->
                              IF s = {} THEN 0
                              ELSE (CHOOSE x \in s : TRUE).dist[g] + h[s \ {CHOOSE x \in s : TRUE}]]
           g0 == CHOOSE h : Folds(h)
<1>1. CountGroup(board, g) = g0[S]
  BY DEF CountGroup, MapThenSumSet, MapThenFoldSet
<1>2. ASSUME NEW h PROVE SumsUp(f, S, h) <=> Folds(h)
  <2>1. ASSUME NEW s \in SUBSET S
        PROVE  Partial(f, s, h) = IF s = {} THEN 0
                 ELSE (CHOOSE x \in s : TRUE).dist[g] + h[s \ {CHOOSE x \in s : TRUE}]
    <3>1. CASE s = {}
      BY <3>1 DEF Partial
    <3>2. CASE s # {}
      <4>1. (CHOOSE x \in s : TRUE) \in s
        BY <3>2
      <4>2. f[CHOOSE x \in s : TRUE] = (CHOOSE x \in s : TRUE).dist[g]
        BY <4>1
      <4> HIDE DEF f
      <4> QED BY <3>2, <4>2 DEF Partial, Picked
    <3> QED BY <3>1, <3>2
  <2> HIDE DEF f
  <2> QED BY <2>1 DEF SumsUp
<1> HIDE DEF S, f, Folds, g0
<1>3. \E h : SumsUp(f, S, h)
  BY SumsExist DEF S
<1>4. Folds(g0)
  BY <1>2, <1>3 DEF g0
<1>5. PICK h : SumsUp(f, S, h) /\ SumOver(f, S) = h[S]
  BY SumOverSumsUp DEF S
<1>6. g0[S] = h[S]
  <2>1. SumsUp(f, S, g0) /\ IsFiniteSet(S)
    BY <1>2, <1>4 DEF S
  <2> QED BY <1>5, <2>1, SumsUnique
<1> QED BY <1>1, <1>5, <1>6 DEF f, S

\* The games of a group.
LEMMA GamesAre ==
  ASSUME NEW board, IsFiniteSet(Range(Everyone(board)))
  PROVE  Group(board).games = SumOver([x \in Range(Everyone(board)) |-> x.games], Range(Everyone(board)))
<1> DEFINE S == Range(Everyone(board))
           f == [x \in S |-> x.games]
           Folds(h) == h = [s \in SUBSET S |->
                              IF s = {} THEN 0
                              ELSE (CHOOSE x \in s : TRUE).games + h[s \ {CHOOSE x \in s : TRUE}]]
           g0 == CHOOSE h : Folds(h)
<1>1. Group(board).games = g0[S]
  BY DEF Group, MapThenSumSet, MapThenFoldSet
<1>2. ASSUME NEW h PROVE SumsUp(f, S, h) <=> Folds(h)
  <2>1. ASSUME NEW s \in SUBSET S
        PROVE  Partial(f, s, h) = IF s = {} THEN 0
                 ELSE (CHOOSE x \in s : TRUE).games + h[s \ {CHOOSE x \in s : TRUE}]
    <3>1. CASE s = {}
      BY <3>1 DEF Partial
    <3>2. CASE s # {}
      <4>1. (CHOOSE x \in s : TRUE) \in s
        BY <3>2
      <4>2. f[CHOOSE x \in s : TRUE] = (CHOOSE x \in s : TRUE).games
        BY <4>1
      <4> HIDE DEF f
      <4> QED BY <3>2, <4>2 DEF Partial, Picked
    <3> QED BY <3>1, <3>2
  <2> HIDE DEF f
  <2> QED BY <2>1 DEF SumsUp
<1> HIDE DEF S, f, Folds, g0
<1>3. \E h : SumsUp(f, S, h)
  BY SumsExist DEF S
<1>4. Folds(g0)
  BY <1>2, <1>3 DEF g0
<1>5. PICK h : SumsUp(f, S, h) /\ SumOver(f, S) = h[S]
  BY SumOverSumsUp DEF S
<1>6. g0[S] = h[S]
  <2>1. SumsUp(f, S, g0) /\ IsFiniteSet(S)
    BY <1>2, <1>4 DEF S
  <2> QED BY <1>5, <2>1, SumsUnique
<1> QED BY <1>1, <1>5, <1>6 DEF f, S

\* What all the counts of a group come to.
LEMMA GroupCountsAre ==
  ASSUME NEW board, IsFiniteSet(1..7)
  PROVE  MapThenSumSet(LAMBDA i : CountGroup(board, i), 1..7) = SumOver([x \in 1..7 |-> CountGroup(board, x)], 1..7)
<1> DEFINE S == 1..7
           f == [x \in S |-> CountGroup(board, x)]
           Folds(h) == h = [s \in SUBSET S |->
                              IF s = {} THEN 0
                              ELSE CountGroup(board, (CHOOSE x \in s : TRUE)) + h[s \ {CHOOSE x \in s : TRUE}]]
           g0 == CHOOSE h : Folds(h)
<1>1. MapThenSumSet(LAMBDA i : CountGroup(board, i), 1..7) = g0[S]
  BY DEF MapThenSumSet, MapThenFoldSet
<1>2. ASSUME NEW h PROVE SumsUp(f, S, h) <=> Folds(h)
  <2>1. ASSUME NEW s \in SUBSET S
        PROVE  Partial(f, s, h) = IF s = {} THEN 0
                 ELSE CountGroup(board, (CHOOSE x \in s : TRUE)) + h[s \ {CHOOSE x \in s : TRUE}]
    <3>1. CASE s = {}
      BY <3>1 DEF Partial
    <3>2. CASE s # {}
      <4>1. (CHOOSE x \in s : TRUE) \in s
        BY <3>2
      <4>2. f[CHOOSE x \in s : TRUE] = CountGroup(board, (CHOOSE x \in s : TRUE))
        BY <4>1
      <4> HIDE DEF f
      <4> QED BY <3>2, <4>2 DEF Partial, Picked
    <3> QED BY <3>1, <3>2
  <2> HIDE DEF f
  <2> QED BY <2>1 DEF SumsUp
<1> HIDE DEF S, f, Folds, g0
<1>3. \E h : SumsUp(f, S, h)
  BY SumsExist DEF S
<1>4. Folds(g0)
  BY <1>2, <1>3 DEF g0
<1>5. PICK h : SumsUp(f, S, h) /\ SumOver(f, S) = h[S]
  BY SumOverSumsUp DEF S
<1>6. g0[S] = h[S]
  <2>1. SumsUp(f, S, g0) /\ IsFiniteSet(S)
    BY <1>2, <1>4 DEF S
  <2> QED BY <1>5, <2>1, SumsUnique
<1> QED BY <1>1, <1>5, <1>6 DEF f, S

\* Of a player's results that count for n guesses and better, those for n + 1.
Upto(p, n) == {z \in DOMAIN Counted(p) : Value(Counted(p)[z]) <= n}

LEMMA UptoGrows ==
  ASSUME TypeOK, NEW p \in Players
  PROVE  /\ \A n \in Nat : IsFiniteSet(Upto(p, n)) /\ Cardinality(Upto(p, n)) \in Nat
         /\ \A n \in Nat : /\ HowMany(Counted(p), n + 1) \in Nat
                           /\ Cardinality(Upto(p, n + 1)) = Cardinality(Upto(p, n)) + HowMany(Counted(p), n + 1)
         /\ Cardinality(Upto(p, 0)) = 0
         /\ Upto(p, 7) = DOMAIN Counted(p)
<1>1. IsFiniteSet(DOMAIN Counted(p)) /\ \A z \in DOMAIN Counted(p) : Counted(p)[z] \in Result
  BY FewResults, FS_Subset
<1>2. \A z \in DOMAIN Counted(p) : Value(Counted(p)[z]) \in 1..7
  BY <1>1 DEF Value, Solved, FailedAsSeven, Result
<1>3. ASSUME NEW n \in Nat PROVE IsFiniteSet(Upto(p, n)) /\ Cardinality(Upto(p, n)) \in Nat
  <2>1. Upto(p, n) \in SUBSET DOMAIN Counted(p)
    BY DEF Upto
  <2> QED BY <1>1, <2>1, FS_Subset, FS_CardinalityType
<1>4. ASSUME NEW n \in Nat
      PROVE  /\ HowMany(Counted(p), n + 1) \in Nat
             /\ Cardinality(Upto(p, n + 1)) = Cardinality(Upto(p, n)) + HowMany(Counted(p), n + 1)
  <2> DEFINE T == {z \in DOMAIN Counted(p) : Value(Counted(p)[z]) = n + 1}
  <2>1. T \in SUBSET DOMAIN Counted(p)
    OBVIOUS
  <2>2. IsFiniteSet(T) /\ Cardinality(T) \in Nat
    BY <1>1, <2>1, FS_Subset, FS_CardinalityType
  <2>3. Upto(p, n + 1) = Upto(p, n) \cup T
    BY <1>2 DEF Upto
  <2>4. Upto(p, n) \cap T = {}
    BY <1>2 DEF Upto
  <2>5. HowMany(Counted(p), n + 1) = Cardinality(T)
    BY DEF HowMany
  <2> HIDE DEF T
  <2>6. Cardinality(Upto(p, n) \cup T) = Cardinality(Upto(p, n)) + Cardinality(T)
    BY <1>3, <2>2, <2>4, CountOfBoth
  <2> QED BY <2>2, <2>3, <2>5, <2>6
<1>5. Upto(p, 0) = {} /\ Upto(p, 7) = DOMAIN Counted(p)
  BY <1>2 DEF Upto
<1>6. Cardinality({}) = 0
  BY FS_EmptySet
<1> QED BY <1>3, <1>4, <1>5, <1>6

LEMMA DistributionState == TypeOK => DistributionIsOfAll(Compute)
<1> SUFFICES ASSUME TypeOK PROVE DistributionIsOfAll(Compute)
  OBVIOUS
<1> DEFINE board == Compute
           rows  == Range(Everyone(board))
           F     == [g \in 1..7 |-> CountGroup(board, g)]
           D(g)  == [x \in rows |-> x.dist[g]]
           U(n)  == [x \in rows |-> Cardinality(Upto(x.player, n))]
           games == [x \in rows |-> x.games]
           G     == {n \in Nat : n <= 7 => SumOver(F, 1..n) = SumOver(U(n), rows)}
<1>1. rows = BoardRows /\ IsFiniteSet(rows) /\ IsFiniteSet(1..7)
  <2>1. rows = BoardRows /\ IsFiniteSet(BoardRows)
    BY BoardIs
  <2>2. IsFiniteSet(1..7)
    <3> DEFINE a == 1
               b == 7
    <3>1. a \in Int /\ b \in Int
      OBVIOUS
    <3> HIDE DEF a, b
    <3>2. IsFiniteSet(a..b)
      BY <3>1, FS_Interval
    <3> QED BY <3>2 DEF a, b
  <2> HIDE DEF rows
  <2> QED BY <2>1, <2>2
<1>2. \A x \in rows : \E p \in Players : x = Row(p) /\ x.player = p
  BY <1>1, RowIs DEF BoardRows, OnBoard
<1>3. ASSUME NEW x \in rows
      PROVE  /\ \A n \in Nat : Cardinality(Upto(x.player, n)) \in Nat
             /\ \A n \in 0..6 : /\ x.dist[n + 1] \in Nat
                                /\ Cardinality(Upto(x.player, n + 1)) = Cardinality(Upto(x.player, n)) + x.dist[n + 1]
             /\ Cardinality(Upto(x.player, 0)) = 0
             /\ Cardinality(Upto(x.player, 7)) = x.games
  <2>1. PICK p \in Players : x = Row(p) /\ x.player = p
    BY <1>2
  <2>2. x.games = Cardinality(DOMAIN Counted(p))
    BY <2>1, RowIs
  <2>3. \A g \in 1..7 : x.dist[g] = HowMany(Counted(p), g)
    BY <2>1 DEF Row, FailedAsSeven
  <2>4. \A n \in 0..6 : n \in Nat /\ n + 1 \in 1..7
    OBVIOUS
  <2> QED BY <2>1, <2>2, <2>3, <2>4, UptoGrows
<1>4. \A g \in 1..7 : F[g] = SumOver(D(g), rows)
  BY <1>1, CountGroupIs
<1>5. SumOver(F, 1..7) = MapThenSumSet(LAMBDA i : CountGroup(board, i), 1..7)
  BY <1>1, GroupCountsAre
<1>6. Group(board).games = SumOver(games, rows)
  BY <1>1, GamesAre
<1>7. \A g \in 1..7 : F[g] \in Nat
  <2> SUFFICES ASSUME NEW g \in 1..7 PROVE F[g] \in Nat
    OBVIOUS
  <2>1. g - 1 \in 0..6 /\ (g - 1) + 1 = g
    OBVIOUS
  <2>2. \A x \in rows : x.dist[g] \in Nat
    BY <1>3, <2>1
  <2>3. \A x \in rows : D(g)[x] \in Nat
    BY <2>2
  <2> HIDE DEF D, rows
  <2>4. SumOver(D(g), rows) \in Nat
    BY <1>1, <2>3, SumIsNat
  <2> QED BY <1>4, <2>4
<1> HIDE DEF F
<1>8. 0 \in G
  <2>1. \A x \in rows : U(0)[x] = 0
    BY <1>3
  <2>2. 1..0 = {} /\ IsFiniteSet({})
    BY FS_EmptySet
  <2>3. SumOver(F, {}) = 0
    BY <2>2, SumSteps
  <2> HIDE DEF U, rows
  <2>4. SumOver(U(0), rows) = 0
    BY <1>1, <2>1, SumOfZeros
  <2> QED BY <2>2, <2>3, <2>4
<1>9. ASSUME NEW n \in G PROVE n + 1 \in G
  <2> SUFFICES ASSUME n + 1 <= 7 PROVE SumOver(F, 1..(n + 1)) = SumOver(U(n + 1), rows)
    OBVIOUS
  <2>1. n \in 0..6 /\ n \in Nat /\ n + 1 \in 1..7 /\ SumOver(F, 1..n) = SumOver(U(n), rows)
    OBVIOUS
  <2>2. SumOver(F, 1..(n + 1)) = F[n + 1] + SumOver(F, 1..n)
    <3> DEFINE A == 1..(n + 1)
               B == 1..n
    <3>1. n + 1 \in A /\ A \ {n + 1} = B
      BY <2>1
    <3>0. IsFiniteSet(A)
      <4>1. 1 \in Int /\ n + 1 \in Int
        BY <2>1
      <4> QED BY <4>1, FS_Interval
    <3>2. \A x \in A : F[x] \in Nat
      <4>1. A \subseteq 1..7
        BY <2>1
      <4> HIDE DEF A
      <4> QED BY <1>7, <4>1
    <3> HIDE DEF A, B
    <3>3. SumOver(F, A) = F[n + 1] + SumOver(F, A \ {n + 1})
      BY <3>0, <3>1, <3>2, SumTakesOut
    <3> QED BY <3>1, <3>3 DEF A, B
  <2>3. \A x \in rows : U(n)[x] \in Nat /\ D(n + 1)[x] \in Nat /\ U(n + 1)[x] = U(n)[x] + D(n + 1)[x]
    BY <1>3, <2>1
  <2>4. SumOver(U(n + 1), rows) = SumOver(U(n), rows) + SumOver(D(n + 1), rows)
    <3> DEFINE a == U(n)
               b == D(n + 1)
               c == U(n + 1)
    <3>1. \A x \in rows : a[x] \in Nat /\ b[x] \in Nat /\ c[x] = a[x] + b[x]
      BY <2>3
    <3> HIDE DEF a, b, c, rows
    <3>2. SumOver(c, rows) = SumOver(a, rows) + SumOver(b, rows)
      BY <1>1, <3>1, SumPlus
    <3> QED BY <3>2 DEF a, b, c
  <2>5. SumOver(U(n), rows) \in Nat
    <3> DEFINE a == U(n)
    <3>1. \A x \in rows : a[x] \in Nat
      BY <2>3
    <3> HIDE DEF a, rows
    <3> QED BY <1>1, <3>1, SumIsNat DEF a
  <2>6. F[n + 1] = SumOver(D(n + 1), rows) /\ F[n + 1] \in Nat
    BY <1>4, <1>7, <2>1
  <2> HIDE DEF U, D, rows
  <2> QED BY <2>1, <2>2, <2>4, <2>5, <2>6
<1>10. G = Nat
  <2> HIDE DEF G
  <2>1. G \in SUBSET Nat
    BY DEF G
  <2> QED BY <1>8, <1>9, <2>1, EveryNumber
<1>11. SumOver(F, 1..7) = SumOver(U(7), rows)
  <2>1. 7 \in G
    BY <1>10
  <2> QED BY <2>1
<1>12. SumOver(U(7), rows) = SumOver(games, rows)
  <2> DEFINE a == U(7)
  <2>1. \A x \in rows : a[x] = games[x]
    BY <1>3
  <2> HIDE DEF a, games, rows
  <2>2. SumOver(a, rows) = SumOver(games, rows)
    BY <1>1, <2>1, SumSame
  <2> QED BY <2>2 DEF a
<1> QED BY <1>5, <1>6, <1>11, <1>12 DEF DistributionIsOfAll, FailedAsSeven

\* The most of a figure is had by somebody, if anybody has any, and nobody has more.
LEMMA MostIs ==
  ASSUME NEW rows, IsFiniteSet(rows), NEW f, \A row \in rows : f[row] \in Nat,
         NEW most, most = Max({f[row] : row \in rows} \cup {0})
  PROVE  /\ most \in Nat /\ \A row \in rows : f[row] <= most
         /\ most # 0 => \E row \in rows : f[row] = most
<1> DEFINE T == {f[row] : row \in rows}
           S == T \cup {0}
<1>1. IsFiniteSet(S)
  <2>1. IsFiniteSet(T)
    BY ImagesFinite
  <2> HIDE DEF T
  <2> QED BY <2>1, FS_AddElement
<1>2. S # {} /\ S \subseteq Int
  OBVIOUS
<1>3. \A row \in rows : f[row] \in S
  OBVIOUS
<1>4. \A x \in S : x # 0 => \E row \in rows : f[row] = x
  OBVIOUS
<1>5. \A x \in S : x \in Nat
  OBVIOUS
<1> HIDE DEF S, T
<1>6. Max(S) \in S /\ \A x \in S : x <= Max(S)
  BY <1>1, <1>2, MaxIs
<1>7. most = Max(S)
  BY DEF S, T
<1> QED BY <1>3, <1>4, <1>5, <1>6, <1>7

\* Who has the fewest of a result and the most of it shows that all have as many.
LEMMA FewestState == TypeOK => FewestIsNotMost(Compute)
<1> SUFFICES ASSUME TypeOK, NEW g \in 1..7, CountFewest(Compute, g) \cap CountMost(Compute, g, FALSE) # {},
                    NEW a \in Range(Compute.ranked), NEW b \in Range(Compute.ranked)
             PROVE  a.dist[g] = b.dist[g]
  BY DEF FewestIsNotMost, FailedAsSeven
<1> DEFINE rows   == Range(Everyone(Compute))
           ranked == Range(Compute.ranked)
           f      == [row \in rows |-> row.dist[g]]
           most   == Max({f[row] : row \in rows} \cup {0})
<1>1. rows = BoardRows /\ IsFiniteSet(BoardRows) /\ ranked = {r \in BoardRows : r.reason = "ranked"}
  BY BoardIs
<1>2. \A r \in BoardRows : \E p \in Players : r = Row(p) /\ r.player = p
  BY RowIs DEF BoardRows, OnBoard
<1>3. \A r \in BoardRows : r.dist[g] \in Nat
  <2> SUFFICES ASSUME NEW p \in Players PROVE Row(p).dist[g] \in Nat
    BY <1>2
  <2>1. Row(p).dist[g] = HowMany(Counted(p), g)
    BY DEF Row, FailedAsSeven
  <2>2. g - 1 \in Nat /\ (g - 1) + 1 = g
    OBVIOUS
  <2> QED BY <2>1, <2>2, UptoGrows
<1>4. PICK p : p \in CountFewest(Compute, g) /\ p \in CountMost(Compute, g, FALSE)
  OBVIOUS
<1>5. PICK low \in ranked : low.player = p /\ \A c \in ranked : low.dist[g] <= c.dist[g]
  BY <1>4 DEF CountFewest
<1>6. \A row \in rows : CountOf(row, g, FALSE) = f[row]
  BY DEF CountOf
<1>7. most # 0 /\ \E high \in rows : high.player = p /\ high.dist[g] = most
  <2>1. {CountOf(row, g, FALSE) : row \in rows} = {f[row] : row \in rows}
    BY <1>6
  <2>2. CountMost(Compute, g, FALSE) =
          LET m == Max({CountOf(row, g, FALSE) : row \in rows} \cup {0})
          IN  IF m = 0 THEN {} ELSE {row.player : row \in {r \in rows : CountOf(r, g, FALSE) = m}}
    BY DEF CountMost, Holders
  <2>3. CountMost(Compute, g, FALSE) =
          IF most = 0 THEN {} ELSE {row.player : row \in {r \in rows : CountOf(r, g, FALSE) = most}}
    BY <2>1, <2>2
  <2> HIDE DEF rows, most
  <2>4. most # 0 /\ p \in {row.player : row \in {r \in rows : CountOf(r, g, FALSE) = most}}
    BY <1>4, <2>3
  <2> QED BY <1>6, <2>4
<1>8. PICK high \in rows : high.player = p /\ high.dist[g] = most
  BY <1>7
<1>9. high = low
  BY <1>1, <1>2, <1>5, <1>8
<1>10. \A row \in rows : f[row] \in Nat
  BY <1>1, <1>3
<1>11. \A row \in rows : f[row] <= most
  <2> HIDE DEF f, rows
  <2> QED BY <1>1, <1>10, MostIs
<1>12. \A c \in ranked : c.dist[g] \in Nat /\ low.dist[g] <= c.dist[g] /\ c.dist[g] <= low.dist[g]
  <2> SUFFICES ASSUME NEW c \in ranked PROVE c.dist[g] \in Nat /\ low.dist[g] <= c.dist[g] /\ c.dist[g] <= low.dist[g]
    OBVIOUS
  <2>1. c \in rows /\ f[c] = c.dist[g]
    BY <1>1
  <2> HIDE DEF most, f, rows
  <2> QED BY <1>1, <1>3, <1>5, <1>8, <1>9, <1>11, <2>1
<1> QED BY <1>12, <1>1, <1>3, <1>5

\* Whoever the board calls on form is named by the bot as rising: nobody's form is further
\* below the average, and so nobody's is shown further below it.
LEMMA CalledIsNamed ==
  ASSUME TypeOK, NEW c \in Range(OnForm(Compute))
  PROVE  c.player \in RisingNow(Compute)
<1> DEFINE rows    == {a \in Range(Compute.ranked) : HasDelta(a)}
           Of(p)   == CHOOSE a \in rows : a.player = p
           moved   == [p \in {a.player : a \in rows} |-> Hundredths(Delta(Of(p)))]
<1>1. PICK a \in BoardRows : /\ c.player = a.player /\ a.reason = "ranked"
                             /\ HasDelta(a) /\ Rising(a)
                             /\ \A b \in BoardRows : b.reason = "ranked" /\ HasDelta(b) => ~ MoreImproved(b, a)
  BY OnFormIs
<1>2. Range(Compute.ranked) = {b \in BoardRows : b.reason = "ranked"}
  BY BoardIs
<1>3. a \in rows /\ \A b \in rows : b \in BoardRows /\ HasDelta(b) /\ ~ MoreImproved(b, a)
  BY <1>1, <1>2
<1>4. \A b \in BoardRows : \E p \in Players : b = Row(p) /\ b.player = p /\ b.average \in Averages /\ b.form \in Averages
  BY RowIs DEF BoardRows, OnBoard
<1>5. \A b \in rows : Delta(b).sum \in Int /\ Delta(b).count \in Nat \ {0}
  BY <1>3, <1>4, DeltaIs
<1>6. \A b \in rows : Of(b.player) = b
  <2> SUFFICES ASSUME NEW b \in rows PROVE Of(b.player) = b
    OBVIOUS
  <2>1. \A d \in rows : d.player = b.player => d = b
    BY <1>3, <1>4
  <2> HIDE DEF rows
  <2> QED BY <2>1
<1>7. \A b \in rows : Hundredths(Delta(a)) <= Hundredths(Delta(b))
  <2> SUFFICES ASSUME NEW b \in rows PROVE Hundredths(Delta(a)) <= Hundredths(Delta(b))
    OBVIOUS
  <2>1. ~ Lower(Delta(b), Delta(a))
    BY <1>3 DEF MoreImproved, Delta
  <2> DEFINE x == Delta(a)
             y == Delta(b)
  <2>2. x.sum \in Int /\ x.count \in Nat \ {0} /\ y.sum \in Int /\ y.count \in Nat \ {0} /\ ~ Lower(y, x)
    BY <1>3, <1>5, <2>1
  <2> HIDE DEF x, y
  <2>3. Hundredths(x) <= Hundredths(y)
    BY <2>2, HundredthsGrow
  <2> QED BY <2>3 DEF x, y
<1>8. a.player \in LeastOf(moved)
  <2>1. DOMAIN moved = {b.player : b \in rows} /\ \A b \in rows : moved[b.player] = Hundredths(Delta(b))
    BY <1>6
  <2> HIDE DEF moved, rows, Of
  <2> QED BY <1>3, <1>7, <2>1 DEF LeastOf
<1>9. RisingNow(Compute) = IF \E b \in rows : Rising(b) /\ b.player \in LeastOf(moved) THEN LeastOf(moved) ELSE {}
  BY DEF RisingNow
<1> HIDE DEF rows, moved, Of
<1> QED BY <1>1, <1>3, <1>8, <1>9

LEMMA OnFormState == TypeOK => OnFormIsRising(Compute)
<1> SUFFICES ASSUME TypeOK, NEW row \in Range(Everyone(Compute))
             PROVE  FormOf(row) = "up" <=> "climbing" \in Traits(row)
  BY CalledIsNamed DEF OnFormIsRising
<1>1. FormOf(row) = "up" <=> Rising(row)
  BY DEF FormOf, Rising
<1>2. Deserves(row, "climbing") <=> Rising(row)
  BY DEF Deserves
<1>3. 3 \in DOMAIN TraitOrder /\ TraitOrder[3] = "climbing"
  BY DEF TraitOrder
<1>4. "climbing" \in Traits(row) <=> Deserves(row, "climbing")
  BY <1>3 DEF Traits, Earned
<1> QED BY <1>1, <1>2, <1>4

-----------------------------------------------------------------------------
(* The profiles.                                                           *)

\* Of some numbers there is one that has so many of them below it.
LEMMA HasBefore ==
  ASSUME NEW S, S \subseteq Int, IsFiniteSet(S), NEW k \in 0..(Cardinality(S) - 1)
  PROVE  \E i \in S : Cardinality({j \in S : j < i}) = k
<1> DEFINE n == Cardinality(S)
           s == InOrder(S, <)
<1>1. n \in Nat /\ s \in [1..n -> S] /\ Range(s) = S /\ \A i, j \in 1..n : i < j => s[i] < s[j]
  BY DaysSort
<1> HIDE DEF n, s
<1>2. k + 1 \in 1..n /\ k \in Nat
  BY <1>1 DEF n
<1> DEFINE i == s[k + 1]
           T == {j \in S : j < i}
<1>3. i \in S
  BY <1>1, <1>2
<1>4. \A x \in 1..k : x \in 1..n /\ s[x] \in T
  <2> SUFFICES ASSUME NEW x \in 1..k PROVE x \in 1..n /\ s[x] \in T
    OBVIOUS
  <2>1. x \in 1..n /\ x < k + 1
    BY <1>1, <1>2
  <2> QED BY <1>1, <1>2, <2>1
<1>5. \A j \in T : \E x \in 1..k : s[x] = j
  <2> SUFFICES ASSUME NEW j \in T PROVE \E x \in 1..k : s[x] = j
    OBVIOUS
  <2>1. PICK x \in 1..n : s[x] = j
    BY <1>1 DEF Range
  <2>0. s[x] < s[k + 1] /\ s[x] \in Int /\ s[k + 1] \in Int
    BY <1>1, <1>2, <2>1
  <2>2. ~(k + 1 < x) /\ x # k + 1
    <3>1. k + 1 < x => s[k + 1] < s[x]
      BY <1>1, <1>2, <2>1
    <3> QED BY <2>0, <3>1
  <2> QED BY <1>1, <1>2, <2>1, <2>2
<1>6. \A x, y \in 1..k : s[x] = s[y] => x = y
  <2>1. \A x \in 1..k : x \in 1..n /\ x \in Int /\ s[x] \in Int
    <3> SUFFICES ASSUME NEW x \in 1..k PROVE x \in 1..n /\ x \in Int /\ s[x] \in Int
      OBVIOUS
    <3>1. x \in 1..n
      BY <1>4
    <3>2. s[x] \in S
      BY <1>1, <3>1
    <3>3. s[x] \in Int
      BY <3>2
    <3>4. x \in Int
      OBVIOUS
    <3> QED BY <3>1, <3>3, <3>4
  <2>2. \A x, y \in 1..k : x < y => s[x] < s[y]
    BY <1>1, <2>1
  <2> QED BY <2>1, <2>2
<1> HIDE DEF T
<1> DEFINE h == [x \in 1..k |-> s[x]]
<1>7. h \in [1..k -> T]
  BY <1>4
<1>8. h \in Bijection(1..k, T)
  <2>1. \A x \in 1..k : h[x] = s[x]
    OBVIOUS
  <2> HIDE DEF h
  <2> QED BY <1>5, <1>6, <1>7, <2>1 DEF Bijection, Injection, IsInjective, Surjection
<1> HIDE DEF h
<1>9. IsFiniteSet(1..k) /\ Cardinality(1..k) = k
  BY <1>2, FS_Interval
<1>10. Cardinality(T) = k
  BY <1>8, <1>9, FS_Bijection DEF ExistsBijection
<1> QED BY <1>3, <1>10 DEF T

\* What a ranked player is shown with is a trait or none, never a reason not to be ranked.
LEMMA RankedTrait ==
  ASSUME NEW row, row.reason = "ranked", row.player \in Int, now \in Int
  PROVE  Trait(row) \notin {"inactive", "no recent games", "low data"}
<1> DEFINE E    == Earned(row)
           turn == (now + row.player) % Cardinality(E)
<1>1. Trait(row) = IF E = {} THEN "none"
                   ELSE TraitOrder[CHOOSE i \in E : Cardinality({j \in E : j < i}) = turn]
  BY DEF Trait
<1>2. E \subseteq 1..16
  BY DEF Earned, TraitOrder
<1>3. \A i \in 1..16 : TraitOrder[i] \notin {"inactive", "no recent games", "low data"}
  <2> SUFFICES ASSUME NEW i \in 1..16
               PROVE  TraitOrder[i] \notin {"inactive", "no recent games", "low data"}
    OBVIOUS
  <2>1. /\ TraitOrder[1] = "purist" /\ TraitOrder[2] = "switcher" /\ TraitOrder[3] = "climbing"
        /\ TraitOrder[4] = "slipping" /\ TraitOrder[5] = "ironman" /\ TraitOrder[6] = "streaker"
        /\ TraitOrder[7] = "sniper" /\ TraitOrder[8] = "closer" /\ TraitOrder[9] = "veteran"
        /\ TraitOrder[10] = "flawless" /\ TraitOrder[11] = "speedster" /\ TraitOrder[12] = "threepeat"
        /\ TraitOrder[13] = "fourish" /\ TraitOrder[14] = "escape" /\ TraitOrder[15] = "hot-hand"
        /\ TraitOrder[16] = "clean-run"
    BY DEF TraitOrder
  <2>2. i \in {1, 2, 3, 4, 5, 6, 7, 8, 9, 10, 11, 12, 13, 14, 15, 16}
    OBVIOUS
  <2> QED BY <2>1, <2>2
<1>4. CASE E = {}
  BY <1>1, <1>4
<1>5. CASE E # {}
  <2> HIDE DEF E
  <2>1. IsFiniteSet(E) /\ E \subseteq Int
    <3> DEFINE low == 1
               high == 16
               D == low..high
    <3>1. low \in Int /\ high \in Int /\ E \subseteq D /\ D \subseteq Int
      BY <1>2
    <3> HIDE DEF low, high
    <3>2. IsFiniteSet(D)
      BY <3>1, FS_Interval
    <3> HIDE DEF D
    <3> QED BY <3>1, <3>2, FS_Subset
  <2>2. Cardinality(E) \in Nat \ {0}
    BY <1>5, <2>1, FS_CardinalityType, FS_EmptySet
  <2> DEFINE c == Cardinality(E)
             t == now + row.player
  <2>3. t % c \in 0..(c - 1)
    <3>1. t \in Int /\ c \in Nat \ {0}
      BY <2>2
    <3> HIDE DEF t, c
    <3> QED BY <3>1
  <2>4. turn \in 0..(Cardinality(E) - 1)
    BY <2>3
  <2> HIDE DEF turn, c, t
  <2>5. \E i \in E : Cardinality({j \in E : j < i}) = turn
    BY <2>1, <2>4, HasBefore
  <2> DEFINE i == CHOOSE i \in E : Cardinality({j \in E : j < i}) = turn
  <2>6. i \in E
    BY <2>5
  <2>7. Trait(row) = TraitOrder[i]
    BY <1>1, <1>5
  <2> HIDE DEF i
  <2> QED BY <1>2, <1>3, <2>6, <2>7
<1> QED BY <1>4, <1>5

LEMMA ProfilesState == TypeOK => ProfilesAgree(Compute, Tables)
<1> SUFFICES ASSUME TypeOK, NEW row \in Range(Everyone(Compute))
             PROVE  LET told == Profile(row.player, Compute, Tables)
                    IN  told.place = 0 <=> told.trait \in {"inactive", "no recent games", "low data"}
  BY DEF ProfilesAgree
<1> DEFINE p  == row.player
           at == {i \in DOMAIN Compute.ranked : Compute.ranked[i].player = p}
           Shown == CHOOSE r \in Range(Everyone(Compute)) : r.player = p
           why == {"inactive", "no recent games", "low data"}
<1>1. /\ Range(Everyone(Compute)) = BoardRows
      /\ Range(Compute.ranked) = {r \in BoardRows : r.reason = "ranked"}
      /\ Compute.ranked \in Seq(BoardRows)
  BY BoardIs
<1>2. \A r \in BoardRows : \E q \in Players : r = Row(q) /\ r.player = q /\ q \in Int /\ r.reason = Reason(q)
  BY RowIs DEF BoardRows, OnBoard
<1>3. Shown = row
  <2>1. \A r \in BoardRows : r.player = p => r = row
    BY <1>1, <1>2
  <2>2. row \in BoardRows
    BY <1>1
  <2>3. Shown = CHOOSE r \in BoardRows : r.player = p
    BY <1>1
  <2> QED BY <2>1, <2>2, <2>3
<1>4. /\ Profile(p, Compute, Tables).trait = Trait(Shown)
      /\ Profile(p, Compute, Tables).place = IF at = {} THEN 0 ELSE Min(at)
  BY DEF Profile
<1>5. now \in Int /\ row.player \in Int
  BY <1>1, <1>2, LastDayIsADay DEF TypeOK
<1>6. row.reason \in {"inactive", "no recent games", "low data", "ranked"}
  BY <1>1, <1>2 DEF Reason
<1>7. at # {} <=> row.reason = "ranked"
  <2>1. at # {} <=> \E r \in Range(Compute.ranked) : r.player = p
    BY DEF Range
  <2> HIDE DEF at
  <2> QED BY <1>1, <1>2, <2>1
<1>8. at # {} => Min(at) # 0
  <2>1. DOMAIN Compute.ranked = 1..Len(Compute.ranked) /\ Len(Compute.ranked) \in Nat
    BY <1>1
  <2>2. at \in SUBSET (1..Len(Compute.ranked))
    BY <2>1
  <2>3. IsFiniteSet(1..Len(Compute.ranked))
    BY <2>1, FS_Interval
  <2> HIDE DEF at
  <2>4. IsFiniteSet(at) /\ at \subseteq Int
    <3>1. \A x \in 1..Len(Compute.ranked) : x \in Int
      OBVIOUS
    <3> QED BY <2>2, <2>3, <3>1, FS_Subset
  <2>5. at # {} => Min(at) \in at
    BY <2>4, MinIs
  <2> QED BY <2>1, <2>2, <2>5
<1>9. row.reason = "ranked" => Trait(row) \notin why
  BY <1>5, RankedTrait
<1>10. row.reason # "ranked" => Trait(row) = row.reason
  BY DEF Trait
<1> HIDE DEF at, Shown
<1>11. (IF at = {} THEN 0 ELSE Min(at)) = 0 <=> row.reason # "ranked"
  BY <1>7, <1>8
<1>12. Trait(Shown) \in why <=> row.reason # "ranked"
  BY <1>3, <1>6, <1>9, <1>10
<1> QED BY <1>4, <1>11, <1>12

-----------------------------------------------------------------------------
(* The season.                                                             *)

\* The lowest of some averages is one of them, and none is below it.
LEMMA LowestIs ==
  ASSUME NEW S, IsFiniteSet(S), S # {}, \A a \in S : a.sum \in Nat /\ a.count \in Nat \ {0}
  PROVE  LowestOf(S) \in S /\ \A b \in S : ~ Lower(b, LowestOf(S))
<1> DEFINE R == {ab \in S \X S : Lower(ab[1], ab[2])}
<1>1. \A a, b \in S : <<a, b>> \in R <=> Lower(a, b)
  OBVIOUS
<1> HIDE DEF R
<1>2. \A a \in S : <<a, a>> \notin R
  BY <1>1, AveragesOrder
<1>3. \A a, b \in S : <<a, b>> \in R => <<b, a>> \notin R
  BY <1>1, AveragesOrder
<1>4. \A a, b, c \in S : <<b, a>> \notin R /\ <<c, b>> \notin R => <<c, a>> \notin R
  <2> SUFFICES ASSUME NEW a \in S, NEW b \in S, NEW c \in S, <<b, a>> \notin R, <<c, b>> \notin R
               PROVE  <<c, a>> \notin R
    OBVIOUS
  <2>1. ~ Lower(b, a) /\ ~ Lower(c, b)
    BY <1>1
  <2>2. ~ Lower(c, a)
    BY <2>1, AveragesOrder
  <2> QED BY <1>1, <2>2
<1>5. \E a \in S : \A b \in S : <<b, a>> \notin R
  BY <1>2, <1>3, <1>4, LeastExists
<1>6. \E a \in S : \A b \in S : ~ Lower(b, a)
  BY <1>1, <1>5
<1> QED BY <1>6 DEF LowestOf

\* Who has a place in a month is who has a line in its table, and that line is theirs.
LEMMA PlaceIs ==
  ASSUME TypeOK, NEW m \in Months, NEW p
  PROVE  /\ PlaceOf(Tables[m], p) \in Nat
         /\ PlaceOf(Tables[m], p) > 0 <=> p \in InTable(m)
         /\ p \in InTable(m) => /\ LineOf(Tables[m], p) = MonthLine(m, p)
                                /\ AverageOf(Tables[m], p).sum = MonthLine(m, p).sum
                                /\ AverageOf(Tables[m], p).count = MonthLine(m, p).count
                                /\ AverageOf(Tables[m], p) \in Averages
                                /\ AverageOf(Tables[m], p).count \in Nat \ {0}
<1> DEFINE ranked == Month(m).ranked
           at     == {i \in DOMAIN ranked : ranked[i].player = p}
<1>1. MonthsAreTables
  BY MonthTables
<1>2. /\ Range(ranked) = {MonthLine(m, q) : q \in InTable(m)}
      /\ \A q \in InTable(m) : MonthLine(m, q) \in Lines /\ MonthLine(m, q).player = q
  BY <1>1 DEF MonthsAreTables
<1>3. PICK n \in Nat : Sorted(ranked, n)
  BY <1>1 DEF MonthsAreTables
<1>4. Tables[m] = Month(m) /\ Month(m).places = Places(ranked)
  BY DEF Tables, Month, MonthAsOf, ScoreSpan
<1>5. PlaceOf(Tables[m], p) = IF at = {} THEN 0 ELSE Places(ranked)[Min(at)]
  BY <1>4 DEF PlaceOf
<1>6. LineOf(Tables[m], p) = CHOOSE a \in Range(ranked) : a.player = p
  BY <1>4 DEF LineOf
<1> HIDE DEF ranked
<1>7. DOMAIN ranked = 1..n
  BY <1>3 DEF Sorted
<1>8. at # {} <=> p \in InTable(m)
  <2>1. at # {} <=> \E a \in Range(ranked) : a.player = p
    BY DEF Range
  <2> HIDE DEF at
  <2> QED BY <1>2, <2>1
<1>9. ASSUME at # {} PROVE Places(ranked)[Min(at)] \in Nat \ {0}
  <2>1. at \in SUBSET (1..n) /\ \A x \in 1..n : x \in Int
    BY <1>7
  <2>2. IsFiniteSet(1..n)
    BY FS_Interval
  <2> HIDE DEF at
  <2>3. IsFiniteSet(at) /\ at \subseteq Int
    BY <2>1, <2>2, FS_Subset
  <2>4. Min(at) \in 1..n
    BY <1>9, <2>1, <2>3, MinIs
  <2> DEFINE i == Min(at)
  <2>5. Places(ranked)[i] = 1 + Cardinality(Better(ranked, i))
    <3> HIDE DEF i
    <3> QED BY <1>3, <2>4, PlacesAreEarned DEF i
  <2>6. Better(ranked, i) \in SUBSET (1..n)
    BY <1>7 DEF Better
  <2>7. Cardinality(Better(ranked, i)) \in Nat
    BY <2>2, <2>6, FS_Subset, FS_CardinalityType
  <2> QED BY <2>5, <2>7
<1>10. PlaceOf(Tables[m], p) \in Nat /\ (PlaceOf(Tables[m], p) > 0 <=> p \in InTable(m))
  <2> HIDE DEF at
  <2>1. CASE at = {}
    BY <1>5, <1>8, <2>1
  <2>2. CASE at # {}
    BY <1>5, <1>8, <1>9, <2>2
  <2> QED BY <2>1, <2>2
<1>11. ASSUME p \in InTable(m) PROVE LineOf(Tables[m], p) = MonthLine(m, p)
  <2>1. MonthLine(m, p) \in Range(ranked) /\ MonthLine(m, p).player = p
    BY <1>2, <1>11
  <2>2. \A a \in Range(ranked) : a.player = p => a = MonthLine(m, p)
    BY <1>2
  <2> QED BY <1>6, <2>1, <2>2
<1>12. ASSUME p \in InTable(m)
       PROVE  /\ AverageOf(Tables[m], p).sum = MonthLine(m, p).sum
              /\ AverageOf(Tables[m], p).count = MonthLine(m, p).count
              /\ AverageOf(Tables[m], p) \in Averages
              /\ AverageOf(Tables[m], p).count \in Nat \ {0}
  <2>1. MonthLine(m, p).sum \in Nat /\ MonthLine(m, p).count \in Nat \ {0}
    BY <1>2, <1>12 DEF Lines
  <2> QED BY <1>11, <1>12, <2>1 DEF AverageOf, Averages
<1> QED BY <1>10, <1>11, <1>12

\* A player's season: so many titles, podiums and months, and the best of its months.
LEMMA SeasonRowIs ==
  ASSUME TypeOK, NEW p \in Players
  PROVE  LET row == SeasonRow(p, Tables)
         IN  /\ row.player = p /\ p \in Int
             /\ row.wins \in Nat /\ row.podiums \in Nat /\ row.ranked \in Nat
             /\ row.wins = Cardinality(HistoryOf(p, Tables).trophies)
             /\ row.best \in Averages
             /\ (\A m \in Months : p \notin InTable(m)) => row.best = None
             /\ row.best # None => \E m \in Months : p \in InTable(m) /\ row.best = AverageOf(Tables[m], p)
             /\ \A m \in Months : p \in InTable(m) =>
                  row.best # None /\ ~ Lower(AverageOf(Tables[m], p), row.best)
<1> DEFINE row    == SeasonRow(p, Tables)
           ranked == {m \in DOMAIN Tables : PlaceOf(Tables[m], p) > 0}
           best   == {AverageOf(Tables[m], p) : m \in ranked}
<1>1. ranked = {m \in Months : p \in InTable(m)}
  BY PlaceIs DEF Tables
<1>2. IsFiniteSet(ranked)
  BY <1>1, MonthsAreFew, FS_Subset
<1>3. /\ row.player = p
      /\ row.wins = Cardinality({m \in ranked : Complete(m) /\ p \in Tables[m].winners})
      /\ row.podiums = Cardinality({m \in ranked : PlaceOf(Tables[m], p) <= Podium})
      /\ row.ranked = Cardinality(ranked)
      /\ row.best = LowestOf(best)
  BY DEF SeasonRow
<1>4. HistoryOf(p, Tables).trophies = {m \in ranked : p \in Tables[m].winners /\ Complete(m)}
  BY DEF HistoryOf
<1> HIDE DEF ranked, row
<1>5. row.wins = Cardinality(HistoryOf(p, Tables).trophies)
  <2>1. {m \in ranked : p \in Tables[m].winners /\ Complete(m)} = {m \in ranked : Complete(m) /\ p \in Tables[m].winners}
    OBVIOUS
  <2> QED BY <1>3, <1>4, <2>1
<1>6. row.wins \in Nat /\ row.podiums \in Nat /\ row.ranked \in Nat
  <2>1. ASSUME NEW T \in SUBSET ranked PROVE Cardinality(T) \in Nat
    BY <1>2, FS_Subset, FS_CardinalityType
  <2>2. Cardinality({m \in ranked : Complete(m) /\ p \in Tables[m].winners}) \in Nat
    BY <2>1
  <2>3. Cardinality({m \in ranked : PlaceOf(Tables[m], p) <= Podium}) \in Nat
    BY <2>1
  <2>4. Cardinality(ranked) \in Nat
    BY <2>1
  <2> QED BY <1>3, <2>2, <2>3, <2>4
<1>7. \A a \in best : a \in Averages /\ a.sum \in Nat /\ a.count \in Nat \ {0} /\ a # None
  <2> SUFFICES ASSUME NEW m \in ranked
               PROVE  LET a == AverageOf(Tables[m], p)
                      IN  a \in Averages /\ a.sum \in Nat /\ a.count \in Nat \ {0} /\ a # None
    OBVIOUS
  <2> DEFINE a == AverageOf(Tables[m], p)
  <2>1. a \in Averages /\ a.count \in Nat \ {0}
    BY <1>1, PlaceIs
  <2> HIDE DEF a
  <2>2. a.sum \in Nat
    BY <2>1 DEF Averages
  <2>3. a # None
    <3>1. None.count = 0
      BY DEF None
    <3> QED BY <2>1, <3>1
  <2> QED BY <2>1, <2>2, <2>3 DEF a
<1>8. IsFiniteSet(best)
  <2> DEFINE f == [m \in ranked |-> AverageOf(Tables[m], p)]
             T == {f[m] : m \in ranked}
  <2>1. best = T
    OBVIOUS
  <2>2. IsFiniteSet(T)
    <3> HIDE DEF f
    <3> QED BY <1>2, ImagesFinite
  <2> QED BY <2>1, <2>2
<1>9. ranked = {} => row.best = None /\ None \in Averages
  <2>1. ranked = {} => best = {}
    OBVIOUS
  <2>2. None \in Averages
    BY DEF None, Averages
  <2> HIDE DEF best
  <2> QED BY <1>3, <2>1, <2>2 DEF LowestOf
<1>10. ranked # {} => row.best \in best /\ \A b \in best : ~ Lower(b, row.best)
  <2>1. ranked # {} => best # {}
    OBVIOUS
  <2> HIDE DEF best
  <2> QED BY <1>3, <1>7, <1>8, <2>1, LowestIs
<1>11. row.best \in Averages
  BY <1>7, <1>9, <1>10
<1>12. (\A m \in Months : p \notin InTable(m)) => row.best = None
  BY <1>1, <1>9
<1>13. row.best # None => \E m \in Months : p \in InTable(m) /\ row.best = AverageOf(Tables[m], p)
  BY <1>1, <1>9, <1>10
<1>14. ASSUME NEW m \in Months, p \in InTable(m)
       PROVE  row.best # None /\ ~ Lower(AverageOf(Tables[m], p), row.best)
  <2>1. m \in ranked
    BY <1>1, <1>14
  <2>2. AverageOf(Tables[m], p) \in best
    BY <2>1
  <2> HIDE DEF best
  <2> QED BY <1>7, <1>10, <2>1, <2>2
<1>15. p \in Int
  BY PlayersAreNumbered
<1> QED BY <1>3, <1>5, <1>6, <1>11, <1>12, <1>13, <1>14, <1>15 DEF row

\* The order of a season is a strict one of any rows.
SeasonRows(S) ==
  /\ \A a \in S : /\ a.player \in Int /\ a.wins \in Nat /\ a.podiums \in Nat /\ a.ranked \in Nat
                  /\ a.best \in Averages
  /\ \A a, b \in S : a.player = b.player => a = b

SeasonLast(a, b) ==
  IF Has(a.best) /\ Has(b.best)
  THEN Lower(a.best, b.best) \/ (Level(a.best, b.best) /\ a.player < b.player)
  ELSE Has(a.best) \/ (~Has(b.best) /\ a.player < b.player)

LEMMA SeasonAboveOrders ==
  ASSUME NEW S, SeasonRows(S)
  PROVE  /\ \A a \in S : ~ SeasonAbove(a, a)
         /\ \A a, b \in S : a # b => SeasonAbove(a, b) \/ SeasonAbove(b, a)
         /\ \A a, b, c \in S : SeasonAbove(a, b) /\ SeasonAbove(b, c) => SeasonAbove(a, c)
<1>1. \A a \in S : a.player \in Int /\ a.wins \in Nat /\ a.podiums \in Nat /\ a.ranked \in Nat
  BY DEF SeasonRows
<1>2. \A a \in S : Has(a.best) => a.best.sum \in Nat /\ a.best.count \in Nat \ {0}
  BY DEF SeasonRows, Averages, Has
<1>3. \A a, b \in S : SeasonAbove(a, b) <=>
         \/ a.wins > b.wins
         \/ a.wins = b.wins /\ a.podiums > b.podiums
         \/ a.wins = b.wins /\ a.podiums = b.podiums /\ a.ranked > b.ranked
         \/ a.wins = b.wins /\ a.podiums = b.podiums /\ a.ranked = b.ranked /\ SeasonLast(a, b)
  BY DEF SeasonAbove, SeasonLast
<1>4. ASSUME NEW a \in S PROVE ~ SeasonLast(a, a)
  <2>1. CASE Has(a.best)
    <3>1. ~ Lower(a.best, a.best)
      BY <1>2, <2>1, AveragesOrder
    <3> QED BY <1>1, <2>1, <3>1 DEF SeasonLast
  <2>2. CASE ~ Has(a.best)
    BY <1>1, <2>2 DEF SeasonLast
  <2> QED BY <2>1, <2>2
<1>5. ASSUME NEW a \in S, NEW b \in S, a # b PROVE SeasonLast(a, b) \/ SeasonLast(b, a)
  <2>1. a.player # b.player /\ a.player \in Int /\ b.player \in Int
    BY <1>1, <1>5 DEF SeasonRows
  <2>2. CASE Has(a.best) /\ Has(b.best)
    BY <2>1, <2>2 DEF SeasonLast, Level
  <2>3. CASE ~(Has(a.best) /\ Has(b.best))
    BY <2>1, <2>3 DEF SeasonLast
  <2> QED BY <2>2, <2>3
<1>6. ASSUME NEW a \in S, NEW b \in S, NEW c \in S, SeasonLast(a, b), SeasonLast(b, c)
      PROVE  SeasonLast(a, c)
  <2>1. a.player \in Int /\ b.player \in Int /\ c.player \in Int
    BY <1>1
  <2>2. CASE Has(a.best) /\ Has(b.best) /\ Has(c.best)
    <3> DEFINE x == a.best
               y == b.best
               z == c.best
    <3>1. /\ x.sum \in Nat /\ x.count \in Nat \ {0}
          /\ y.sum \in Nat /\ y.count \in Nat \ {0}
          /\ z.sum \in Nat /\ z.count \in Nat \ {0}
      BY <1>2, <2>2
    <3>2. /\ SeasonLast(a, b) <=> Lower(x, y) \/ (~ Lower(y, x) /\ a.player < b.player)
          /\ SeasonLast(b, c) <=> Lower(y, z) \/ (~ Lower(z, y) /\ b.player < c.player)
          /\ SeasonLast(a, c) <=> Lower(x, z) \/ (~ Lower(z, x) /\ a.player < c.player)
      BY <2>2 DEF SeasonLast, Level
    <3> HIDE DEF x, y, z
    <3>3. /\ Lower(x, y) => ~ Lower(y, x)
          /\ Lower(y, z) => ~ Lower(z, y)
      BY <3>1, AveragesOrder
    <3>4. /\ Lower(x, y) /\ ~ Lower(z, y) => Lower(x, z)
          /\ ~ Lower(y, x) /\ Lower(y, z) => Lower(x, z)
          /\ ~ Lower(y, x) /\ ~ Lower(z, y) => ~ Lower(z, x)
      BY <3>1, AveragesOrder
    <3> QED BY <1>6, <2>1, <3>2, <3>3, <3>4
  <2>3. CASE ~(Has(a.best) /\ Has(b.best) /\ Has(c.best))
    <3>1. (Has(b.best) => Has(a.best)) /\ (Has(c.best) => Has(b.best))
      BY <1>6 DEF SeasonLast
    <3>2. ~ Has(c.best)
      BY <2>3, <3>1
    <3>3. ~ Has(b.best) => b.player < c.player
      BY <1>6, <3>2 DEF SeasonLast
    <3>4. ~ Has(a.best) => a.player < b.player
      BY <1>6, <3>1 DEF SeasonLast
    <3> QED BY <2>1, <3>1, <3>2, <3>3, <3>4 DEF SeasonLast
  <2> QED BY <2>2, <2>3
<1>7. \A a \in S : ~ SeasonAbove(a, a)
  BY <1>1, <1>3, <1>4
<1>8. \A a, b \in S : a # b => SeasonAbove(a, b) \/ SeasonAbove(b, a)
  BY <1>1, <1>3, <1>5
<1>9. ASSUME NEW a \in S, NEW b \in S, NEW c \in S, SeasonAbove(a, b), SeasonAbove(b, c)
      PROVE  SeasonAbove(a, c)
  <2>1. SeasonLast(a, b) /\ SeasonLast(b, c) => SeasonLast(a, c)
    BY <1>6
  <2> QED BY <1>1, <1>3, <1>9, <2>1
<1> QED BY <1>7, <1>8, <1>9

\* Who is in the season.
InSeason ==
  {p \in Players : \E m \in DOMAIN Tables : PlaceOf(Tables[m], p) > 0 \/ p \in Tables[m].thin}

\* The season has a row of everybody in it, and the first has no fewer titles than any.
LEMMA SeasonIs ==
  ASSUME TypeOK
  PROVE  LET rows == {SeasonRow(p, Tables) : p \in InSeason}
             n    == Cardinality(rows)
         IN  /\ IsFiniteSet(rows) /\ n \in Nat
             /\ Season(Tables) \in [1..n -> rows] /\ Range(Season(Tables)) = rows
             /\ \A i \in 1..n : Season(Tables)[i].wins <= Season(Tables)[1].wins
<1> DEFINE rows == {SeasonRow(p, Tables) : p \in InSeason}
           n    == Cardinality(rows)
           s    == Season(Tables)
           R    == {ab \in rows \X rows : SeasonAbove(ab[1], ab[2])}
<1>1. SeasonRows(rows)
  <2>1. \A p \in InSeason : p \in Players
    BY DEF InSeason
  <2>2. \A a \in rows : \E p \in Players : a = SeasonRow(p, Tables)
    BY <2>1
  <2> HIDE DEF rows
  <2>3. ASSUME NEW a \in rows
        PROVE  /\ a.player \in Int /\ a.wins \in Nat /\ a.podiums \in Nat /\ a.ranked \in Nat
               /\ a.best \in Averages /\ a = SeasonRow(a.player, Tables)
    BY <2>2, SeasonRowIs
  <2> QED BY <2>3 DEF SeasonRows
<1>2. IsFiniteSet(rows) /\ n \in Nat
  <2> DEFINE f == [p \in Players |-> SeasonRow(p, Tables)]
             T == {f[p] : p \in Players}
  <2>1. IsFiniteSet(T)
    <3> HIDE DEF f
    <3> QED BY PlayersAreNumbered, ImagesFinite
  <2>2. rows \in SUBSET T
    BY DEF InSeason
  <2> HIDE DEF T, rows
  <2> QED BY <2>1, <2>2, FS_Subset, FS_CardinalityType
<1>3. s = CHOOSE t \in [1..n -> rows] : \A i, j \in DOMAIN t : i < j => SeasonAbove(t[i], t[j])
  BY DEF Season, InOrder, InSeason
<1>4. \A a, b \in rows : <<a, b>> \in R <=> SeasonAbove(a, b)
  OBVIOUS
<1> HIDE DEF rows, s, R
<1>5. /\ \A a \in rows : <<a, a>> \notin R
      /\ \A a, b \in rows : a # b => <<a, b>> \in R \/ <<b, a>> \in R
      /\ \A a, b, c \in rows : <<a, b>> \in R /\ <<b, c>> \in R => <<a, c>> \in R
  BY <1>1, <1>4, SeasonAboveOrders
<1>6. \E t \in [1..Cardinality(rows) -> rows] : \A i, j \in 1..Cardinality(rows) : i < j => <<t[i], t[j]>> \in R
  BY <1>2, <1>5, SortedExists
<1>7. PICK t \in [1..n -> rows] : \A i, j \in 1..n : i < j => SeasonAbove(t[i], t[j])
  BY <1>4, <1>6
<1> HIDE DEF n
<1>8. DOMAIN t = 1..n /\ \A i, j \in DOMAIN t : i < j => SeasonAbove(t[i], t[j])
  BY <1>7
<1>9. s \in [1..n -> rows] /\ \A i, j \in DOMAIN s : i < j => SeasonAbove(s[i], s[j])
  BY <1>3, <1>7, <1>8
<1>10. \A i, j \in 1..n : i < j => <<s[i], s[j]>> \in R
  BY <1>4, <1>9
<1>11. Range(s) = rows
  BY <1>2, <1>5, <1>9, <1>10, OrderedHasAll DEF n
<1>12. ASSUME NEW i \in 1..n PROVE s[i].wins <= s[1].wins
  <2>1. 1 \in 1..n /\ s[1] \in rows /\ s[i] \in rows
    BY <1>2, <1>9
  <2>2. s[1].wins \in Nat /\ s[i].wins \in Nat
    BY <1>1, <2>1 DEF SeasonRows
  <2>3. CASE i = 1
    BY <2>2, <2>3
  <2>4. CASE i # 1
    <3>1. SeasonAbove(s[1], s[i])
      BY <1>9, <2>1, <2>4
    <3> QED BY <2>2, <3>1 DEF SeasonAbove
  <2> QED BY <2>3, <2>4
<1> QED BY <1>2, <1>9, <1>11, <1>12 DEF rows, n, s

LEMMA LeaderState == TypeOK => LeaderIsChampion(Tables)
<1> SUFFICES ASSUME TypeOK, Season(Tables) # <<>>, Season(Tables)[1].wins > 0
             PROVE  Season(Tables)[1].player \in Champions(Tables)
  BY DEF LeaderIsChampion
<1> DEFINE s    == Season(Tables)
           rows == Range(s)
           f    == [row \in rows |-> row.wins]
           most == Max({f[row] : row \in rows} \cup {0})
           all  == {SeasonRow(p, Tables) : p \in InSeason}
           n    == Cardinality(all)
<1>1. /\ IsFiniteSet(all) /\ n \in Nat /\ s \in [1..n -> all] /\ rows = all
      /\ \A i \in 1..n : s[i].wins <= s[1].wins
  BY SeasonIs
<1>2. \A a \in all : a.wins \in Nat
  BY SeasonRowIs DEF InSeason
<1>3. n # 0
  <2> SUFFICES ASSUME n = 0 PROVE s = <<>>
    BY DEF s
  <2> HIDE DEF n, s
  <2>1. s \in [1..0 -> all]
    BY <1>1
  <2> QED BY <2>1
<1>4. Champions(Tables) = IF most = 0 THEN {} ELSE {row.player : row \in {r \in rows : r.wins = most}}
  <2>1. {row.wins : row \in rows} = {f[row] : row \in rows}
    OBVIOUS
  <2>2. Champions(Tables) = LET m == Max({row.wins : row \in rows} \cup {0})
                            IN  IF m = 0 THEN {} ELSE {row.player : row \in {r \in rows : r.wins = m}}
    BY DEF Champions, Holders
  <2> QED BY <2>1, <2>2
<1>5. s[1] \in rows /\ 1 \in 1..n
  <2> HIDE DEF n, s
  <2> QED BY <1>1, <1>3
<1>6. \A a \in rows : a.wins \in Nat /\ f[a] = a.wins /\ a.wins <= s[1].wins
  <2> SUFFICES ASSUME NEW a \in rows PROVE a.wins \in Nat /\ f[a] = a.wins /\ a.wins <= s[1].wins
    OBVIOUS
  <2>1. PICK i \in 1..n : a = s[i]
    BY <1>1 DEF Range
  <2> QED BY <1>1, <1>2, <2>1
<1>7. IsFiniteSet(rows)
  BY <1>1
<1>8. s[1].wins > 0
  BY DEF s
<1> HIDE DEF s, rows, f, all, n
<1>9. \A a \in rows : f[a] \in Nat
  BY <1>6
<1>0. most = Max({f[row] : row \in rows} \cup {0})
  OBVIOUS
<1> HIDE DEF most
<1>10. /\ most \in Nat /\ \A a \in rows : f[a] <= most
       /\ most # 0 => \E a \in rows : f[a] = most
  <2>1. most \in Nat /\ \A a \in rows : f[a] <= most
    BY <1>0, <1>7, <1>9, MostIs
  <2>2. SUFFICES ASSUME most # 0, \A a \in rows : f[a] # most PROVE FALSE
    BY <2>1
  <2>3. \E row \in rows : f[row] = most
    BY <1>0, <1>7, <1>9, <2>2, MostIs
  <2> QED BY <2>2, <2>3
<1>11. s[1].wins = most /\ most # 0
  BY <1>5, <1>6, <1>8, <1>10
<1> QED BY <1>4, <1>5, <1>11 DEF s

LEMMA TrophiesState == TypeOK => TrophiesAreWins(Tables)
<1> SUFFICES ASSUME TypeOK, NEW row \in Range(Season(Tables))
             PROVE  Cardinality(HistoryOf(row.player, Tables).trophies) = row.wins
  BY DEF TrophiesAreWins
<1>1. PICK p \in Players : row = SeasonRow(p, Tables)
  BY SeasonIs DEF InSeason
<1> QED BY <1>1, SeasonRowIs

\* When no month is running, the record month is the best month of somebody: the months that
\* have a table are those that are over.
LEMMA RecordState == TypeOK => RecordIsABest(Tables)
<1> SUFFICES ASSUME TypeOK, \A m \in Months : Running(m) \/ now < m.first => Month(m).ranked = <<>>
             PROVE  Level(RecordMonth(Tables),
                          LowestOf({row.best : row \in Range(Season(Tables))} \ {None}))
  BY DEF RecordIsABest
<1> DEFINE rec  == RecordMonth(Tables)
           rows == {SeasonRow(p, Tables) : p \in InSeason}
           best == {row.best : row \in rows} \ {None}
           low  == LowestOf(best)
<1>1. RecordIsLowest /\ MonthsAreTables
  BY RecordMonthIs, MonthTables
<1>2. Range(Season(Tables)) = rows /\ IsFiniteSet(rows)
  BY SeasonIs
<1>3. \A m \in Months : InTable(m) # {} => m \in Over
  <2> SUFFICES ASSUME NEW m \in Months, m \notin Over PROVE InTable(m) = {}
    OBVIOUS
  <2>1. m.first \in Nat /\ m.end \in Nat /\ now \in Nat
    BY MonthsAreSpans, LastDayIsADay DEF TypeOK
  <2>2. CASE Complete(m)
    BY <2>2 DEF Over
  <2>3. CASE ~ Complete(m)
    <3>1. Running(m) \/ now < m.first
      BY <2>1, <2>3 DEF Running, Complete
    <3>2. Month(m).ranked = <<>>
      BY <3>1
    <3>3. Range(Month(m).ranked) = {}
      BY <3>2 DEF Range
    <3>4. Range(Month(m).ranked) = {MonthLine(m, p) : p \in InTable(m)}
      BY <1>1 DEF MonthsAreTables
    <3> QED BY <3>3, <3>4
  <2> QED BY <2>2, <2>3
<1>4. \A p \in InSeason : p \in Players
  BY DEF InSeason
<1>5. ASSUME NEW b \in best
      PROVE  \E m \in Months : \E p \in InTable(m) : b = AverageOf(Tables[m], p)
  <2>1. PICK p \in InSeason : b = SeasonRow(p, Tables).best /\ b # None
    OBVIOUS
  <2> QED BY <1>4, <2>1, SeasonRowIs
<1>6. ASSUME NEW m \in Months, NEW p \in InTable(m)
      PROVE  \E b \in best : ~ Lower(AverageOf(Tables[m], p), b)
  <2>1. p \in Players /\ PlaceOf(Tables[m], p) > 0
    BY <1>6, PlaceIs DEF InTable
  <2>2. p \in InSeason
    BY <2>1 DEF InSeason, Tables
  <2> DEFINE b == SeasonRow(p, Tables).best
  <2>3. b # None /\ ~ Lower(AverageOf(Tables[m], p), b)
    BY <2>1, SeasonRowIs
  <2>4. b \in best
    BY <2>2, <2>3
  <2> QED BY <2>3, <2>4
<1>7. CASE Over = {}
  <2>1. rec = None
    BY <1>1, <1>7 DEF RecordIsLowest
  <2>2. best = {}
    <3> HIDE DEF best
    <3> QED BY <1>3, <1>5, <1>7
  <2> HIDE DEF best
  <2>3. low = None
    BY <2>2 DEF LowestOf
  <2>4. Level(None, None)
    BY DEF Level, Lower, None
  <2> QED BY <1>2, <2>1, <2>3, <2>4 DEF best
<1>8. CASE Over # {}
  <2>1. PICK m \in Over : \E p \in InTable(m) : rec.sum = MonthLine(m, p).sum /\ rec.count = MonthLine(m, p).count
    BY <1>1, <1>8 DEF RecordIsLowest
  <2>2. PICK p \in InTable(m) : rec.sum = MonthLine(m, p).sum /\ rec.count = MonthLine(m, p).count
    BY <2>1
  <2>3. m \in Months
    BY DEF Over
  <2>4. \A b \in best : b.sum \in Nat /\ b.count \in Nat \ {0}
    <3> SUFFICES ASSUME NEW b \in best PROVE b.sum \in Nat /\ b.count \in Nat \ {0}
      OBVIOUS
    <3>1. PICK k \in Months : \E q \in InTable(k) : b = AverageOf(Tables[k], q)
      BY <1>5
    <3> HIDE DEF best
    <3>2. b \in Averages /\ b.count \in Nat \ {0}
      BY <3>1, PlaceIs
    <3> QED BY <3>2 DEF Averages
  <2>5. IsFiniteSet(best)
    <3> DEFINE f == [row \in rows |-> row.best]
               T == {f[row] : row \in rows}
    <3>1. best \in SUBSET T
      OBVIOUS
    <3> HIDE DEF f, rows, best
    <3>2. IsFiniteSet(T)
      BY <1>2, ImagesFinite
    <3> HIDE DEF T
    <3> QED BY <3>1, <3>2, FS_Subset
  <2>6. PICK b \in best : ~ Lower(AverageOf(Tables[m], p), b)
    BY <1>6, <2>3
  <2> HIDE DEF best
  <2>7. low \in best /\ \A x \in best : ~ Lower(x, low)
    BY <2>4, <2>5, <2>6, LowestIs
  <2> HIDE DEF low
  <2>8. PICK k \in Months : \E q \in InTable(k) : low = AverageOf(Tables[k], q)
    BY <1>5, <2>7
  <2>9. PICK q \in InTable(k) : low = AverageOf(Tables[k], q)
    BY <2>8
  <2>10. k \in Over
    BY <1>3, <2>9
  <2>11. ~ Lower(MonthLine(k, q), rec)
    BY <1>1, <2>9, <2>10 DEF RecordIsLowest
  <2>12. low.sum = MonthLine(k, q).sum /\ low.count = MonthLine(k, q).count
    BY <2>9, PlaceIs
  <2>13. ~ Lower(low, rec)
    BY <2>11, <2>12 DEF Lower
  <2>14. ~ Lower(rec, low)
    <3> DEFINE a == AverageOf(Tables[m], p)
    <3>1. a.sum \in Nat /\ a.count \in Nat \ {0} /\ a.sum = rec.sum /\ a.count = rec.count
      BY <2>2, <2>3, PlaceIs DEF Averages
    <3>2. ~ Lower(a, b) /\ ~ Lower(b, low)
      BY <2>6, <2>7
    <3> HIDE DEF a
    <3>3. /\ b.sum \in Nat /\ b.count \in Nat \ {0}
          /\ low.sum \in Nat /\ low.count \in Nat \ {0}
      BY <2>4, <2>6, <2>7
    <3>4. ~ Lower(a, low)
      BY <3>1, <3>2, <3>3, AveragesOrder
    <3> QED BY <3>1, <3>4 DEF Lower
  <2> QED BY <1>2, <2>13, <2>14 DEF Level, low, best
<1> QED BY <1>7, <1>8

-----------------------------------------------------------------------------
(* The awards of a month.                                                  *)

\* The first so many of a set: as many as are asked for, where there are that many.
FirstOf(set, n) == {i \in set : Cardinality({j \in set : j < i}) < n}

LEMMA FirstAreEnough ==
  ASSUME NEW S, S \subseteq Int, IsFiniteSet(S), NEW n \in Nat, n <= Cardinality(S)
  PROVE  IsFiniteSet(FirstOf(S, n)) /\ n <= Cardinality(FirstOf(S, n))
<1> DEFINE F == FirstOf(S, n)
           Before(i) == {j \in S : j < i}
<1>1. F \in SUBSET S
  BY DEF FirstOf
<1>2. IsFiniteSet(F) /\ Cardinality(F) \in Nat /\ Cardinality(S) \in Nat
  BY <1>1, FS_Subset, FS_CardinalityType
<1>3. SUFFICES ASSUME Cardinality(F) < n PROVE FALSE
  BY <1>2
<1> DEFINE k == Cardinality(F)
<1>4. k \in 0..(Cardinality(S) - 1)
  BY <1>2, <1>3
<1>5. PICK i \in S : Cardinality(Before(i)) = k
  <2> HIDE DEF k
  <2> QED BY <1>4, HasBefore
<1>6. i \in F
  BY <1>3, <1>5 DEF FirstOf
<1>7. Before(i) \subseteq F
  <2> SUFFICES ASSUME NEW j \in Before(i) PROVE j \in F
    OBVIOUS
  <2>1. j \in S /\ Before(j) \subseteq Before(i)
    <3>1. \A x \in S : x \in Int
      OBVIOUS
    <3>2. j \in S /\ j < i /\ i \in S
      BY <1>5
    <3>3. \A x \in S : x < j => x < i
      BY <3>1, <3>2
    <3> QED BY <3>2, <3>3
  <2>2. IsFiniteSet(Before(i))
    BY FS_Subset
  <2>3. Cardinality(Before(j)) <= k /\ Cardinality(Before(j)) \in Nat
    <3> HIDE DEF k, Before
    <3> QED BY <1>5, <2>1, <2>2, FS_Subset, FS_CardinalityType
  <2>4. Cardinality(Before(j)) < n
    BY <1>2, <1>3, <2>3
  <2> QED BY <2>1, <2>4 DEF FirstOf
<1>8. Before(i) \subseteq F \ {i} /\ IsFiniteSet(F \ {i}) /\ Cardinality(F \ {i}) = k - 1
  <2>1. i \notin Before(i)
    BY <1>5
  <2> HIDE DEF F, Before
  <2>2. IsFiniteSet(F \ {i}) /\ Cardinality(F \ {i}) = Cardinality(F) - 1
    BY <1>2, <1>6, FS_RemoveElement
  <2> QED BY <1>7, <2>1, <2>2
<1>9. Cardinality(Before(i)) <= k - 1
  <2> HIDE DEF F, Before, k
  <2> QED BY <1>8, FS_Subset
<1> QED BY <1>2, <1>5, <1>9

\* An award held by nobody or by a crowd is shown only where the others are too few.
LEMMA AwardsState ==
  ASSUME NEW holders, DOMAIN holders = 1..6
  PROVE  AwardsAreHeld(holders)
<1> DEFINE ready == {i \in DOMAIN holders : Cardinality(holders[i]) \in 1..2}
           taken == FirstOf(ready, AwardsShown)
           rest  == DOMAIN holders \ taken
<1>1. PickAwards(holders) = taken \cup FirstOf(rest, AwardsShown - Cardinality(taken))
  BY DEF PickAwards, FirstOf
<1>2. {i \in 1..6 : Cardinality(holders[i]) \in 1..2} = ready
  OBVIOUS
<1>3. SUFFICES ASSUME NEW i \in PickAwards(holders), Cardinality(holders[i]) \notin 1..2
               PROVE  Cardinality(ready) < AwardsShown
  BY <1>2 DEF AwardsAreHeld
<1>4. ready \subseteq Int /\ ready \subseteq 1..6
  OBVIOUS
<1>5. IsFiniteSet(1..6)
  <2> DEFINE a == 1
             b == 6
  <2>1. a \in Int /\ b \in Int
    OBVIOUS
  <2> HIDE DEF a, b
  <2>2. IsFiniteSet(a..b)
    BY <2>1, FS_Interval
  <2> QED BY <2>2 DEF a, b
<1>6. i \notin ready
  BY <1>3
<1>7. taken \subseteq ready
  BY DEF FirstOf
<1>8. rest \subseteq 1..6
  OBVIOUS
<1> HIDE DEF ready, taken, rest
<1>9. IsFiniteSet(ready) /\ IsFiniteSet(taken) /\ IsFiniteSet(rest)
  BY <1>4, <1>5, <1>7, <1>8, FS_Subset
<1>10. Cardinality(ready) \in Nat /\ Cardinality(taken) \in Nat
  BY <1>9, FS_CardinalityType
<1>11. i \in FirstOf(rest, AwardsShown - Cardinality(taken))
  BY <1>1, <1>3, <1>6, <1>7
<1>12. Cardinality({j \in rest : j < i}) < AwardsShown - Cardinality(taken)
  BY <1>11 DEF FirstOf
<1>13. Cardinality({j \in rest : j < i}) \in Nat
  <2>1. {j \in rest : j < i} \in SUBSET rest
    OBVIOUS
  <2> QED BY <1>9, <2>1, FS_Subset, FS_CardinalityType
<1>14. Cardinality(taken) < AwardsShown
  BY <1>10, <1>12, <1>13, AwardsShownIsNatural
<1>15. SUFFICES ASSUME AwardsShown <= Cardinality(ready) PROVE FALSE
  BY <1>10, AwardsShownIsNatural
<1>16. AwardsShown <= Cardinality(taken)
  BY <1>4, <1>9, <1>15, FirstAreEnough, AwardsShownIsNatural DEF taken
<1> QED BY <1>10, <1>14, <1>16, AwardsShownIsNatural

\* The days a month has had are days of it, all of them once it is over.
LEMMA DaysAre ==
  ASSUME TypeOK, NEW m \in Months
  PROVE  /\ Tables[m] = Month(m)
         /\ DaysOf(m, Tables[m]) \subseteq m.first..(m.end - 1)
         /\ Complete(m) => DaysOf(m, Tables[m]) = m.first..(m.end - 1)
<1> DEFINE first == m.first
           end   == m.end
           over  == Concluded(first, end, now)
           days  == Month(m).days
<1>1. first \in Nat /\ end \in Nat /\ first < end /\ now \in Nat
  BY MonthsAreSpans, LastDayIsADay DEF TypeOK
<1>2. Tables[m] = Month(m)
  BY DEF Tables
<1>3. \/ days = Cardinality(over)
      \/ days = Cardinality(over) + 1 /\ now \in first..(end - 1)
  <2> DEFINE present  == {p \in Players : DOMAIN Rows(first, end)[p] # {}}
             underWay == now \in first..(end - 1) /\ \E p \in present : now \in DOMAIN Rows(first, end)[p]
             c        == Cardinality(over)
  <2>1. days = c + (IF underWay THEN 1 ELSE 0)
    BY DEF Month, MonthAsOf, ScoreSpan
  <2>2. c \in Nat
    BY <1>1, ConcludedFinite, FS_CardinalityType
  <2>3. underWay => now \in first..(end - 1)
    OBVIOUS
  <2> HIDE DEF c, underWay, days
  <2> QED BY <2>1, <2>2, <2>3 DEF c
<1>4. over = first..(Later(Earlier(now, end), first) - 1)
  BY DEF Concluded
<1> DEFINE last == Later(Earlier(now, end), first) - 1
<1>5. last \in Int /\ first - 1 <= last /\ last <= end - 1
      /\ (end <= now => last = end - 1) /\ (now \in first..(end - 1) => last = now - 1)
  BY <1>1 DEF Later, Earlier
<1> HIDE DEF last, first, end
<1>6. Cardinality(over) = (last - first) + 1
  <2>1. Cardinality(first..last) = IF first > last THEN 0 ELSE last - first + 1
    BY <1>1, <1>5, FS_Interval
  <2>2. over = first..last
    BY <1>4 DEF last, first, end
  <2> QED BY <1>1, <1>5, <2>1, <2>2
<1>7. DaysOf(m, Tables[m]) = first..(first + days - 1)
  BY <1>2 DEF DaysOf, first
<1>8. days \in Int /\ first + days <= end
  BY <1>1, <1>3, <1>5, <1>6
<1>9. end <= now => first + days = end
  BY <1>1, <1>3, <1>5, <1>6
<1>10. first..(first + days - 1) \subseteq first..(end - 1)
  BY <1>1, <1>8
<1>11. end <= now => first..(first + days - 1) = first..(end - 1)
  <2>1. end <= now => first + days - 1 = end - 1
    BY <1>1, <1>8, <1>9
  <2> QED BY <2>1
<1> QED BY <1>2, <1>7, <1>10, <1>11 DEF Complete, first, end

\* What of a player counts on some days.
LEMMA ScoresAre ==
  ASSUME TypeOK, NEW p \in Players, NEW days
  PROVE  LET s == ScoresIn(p, days)
         IN  /\ DOMAIN s = {z \in DOMAIN Counted(p) : z \in days /\ Counts(Counted(p)[z])}
             /\ \A z \in DOMAIN s : s[z] = Counted(p)[z] /\ s[z] \in Result /\ Counted(p)[z] = history[p][z]
             /\ IsFiniteSet(DOMAIN s)
<1> DEFINE s == ScoresIn(p, days)
           D == {z \in DOMAIN Counted(p) : z \in days /\ Counts(Counted(p)[z])}
<1>1. s = [z \in D |-> Counted(p)[z]]
  BY DEF ScoresIn, RestrictDomain, Restrict
<1>2. IsFiniteSet(D) /\ \A z \in D : Counted(p)[z] \in Result
  <2>1. /\ IsFiniteSet(DOMAIN history[p]) /\ DOMAIN Counted(p) \subseteq DOMAIN history[p]
        /\ \A z \in DOMAIN Counted(p) : Counted(p)[z] \in Result
    BY FewResults
  <2>2. D \subseteq DOMAIN history[p]
    BY <2>1
  <2>3. IsFiniteSet(D)
    BY <2>1, <2>2, FS_Subset
  <2> QED BY <2>1, <2>3
<1>3. \A z \in DOMAIN Counted(p) : Counted(p)[z] = history[p][z]
  BY DEF Counted, FilterHardMode, RestrictValues, RestrictDomain, Restrict
<1> QED BY <1>1, <1>2, <1>3

LEMMA RankedAre ==
  ASSUME TypeOK, NEW m \in Months
  PROVE  RankedIn(Tables[m]) = InTable(m)
<1>1. /\ Range(Month(m).ranked) = {MonthLine(m, p) : p \in InTable(m)}
      /\ \A p \in InTable(m) : MonthLine(m, p).player = p
  BY MonthTables DEF MonthsAreTables
<1>2. RankedIn(Tables[m]) = {a.player : a \in Range(Month(m).ranked)}
  BY DEF RankedIn, Tables
<1> QED BY <1>1, <1>2

\* A month that is one best week long is that week for who played all of it: it has one
\* week, whose days are the month's.
LEMMA BestWeekState == TypeOK => \A m \in Months : BestWeekIsMonth(m, Tables[m])
<1> SUFFICES ASSUME TypeOK, NEW m \in Months, NEW p \in RankedIn(Tables[m]),
                    AwardDays = m.end - m.first, Complete(m), opts = DefaultOptions,
                    m.first..(m.end - 1) \subseteq DOMAIN history[p]
             PROVE  Level(BestWeek(p, m, Tables[m]), AverageOf(Tables[m], p))
  BY DEF BestWeekIsMonth
<1> DEFINE first  == m.first
           D      == first..(m.end - 1)
           days   == DaysOf(m, Tables[m])
           starts == {z \in days : z..(z + AwardDays - 1) \subseteq days \cap DOMAIN Counted(p)}
           S      == ScoresIn(p, first..(first + AwardDays - 1))
           W      == Average(S, {})
           rows   == Rows(m.first, m.end)[p]
           line   == MonthLine(m, p)
<1>1. p \in InTable(m) /\ p \in Players
  BY RankedAre DEF InTable
<1>2. m.first \in Nat /\ m.end \in Nat /\ m.first < m.end /\ now \in Nat
  BY MonthsAreSpans, LastDayIsADay DEF TypeOK
<1>3. days = D
  BY DaysAre
<1>4. Counted(p) = history[p]
  BY DEF Counted, DefaultOptions
<1>5. \A r : Counts(r)
  BY DEF Counts, DefaultOptions
<1>6. starts = {first}
  <2> SUFFICES ASSUME NEW z \in D
               PROVE  z..(z + AwardDays - 1) \subseteq D <=> z = first
    BY <1>1, <1>2, <1>3, <1>4
  <2>1. z \in Int /\ z + AwardDays - 1 \in Int /\ z <= z + AwardDays - 1
    BY <1>2, AwardDaysArePositive
  <2>2. z..(z + AwardDays - 1) \subseteq D => z + AwardDays - 1 \in D
    BY <2>1
  <2>3. z..(z + AwardDays - 1) \subseteq D => z = first
    BY <1>2, <2>1, <2>2
  <2>4. z = first => z + AwardDays - 1 = m.end - 1
    BY <1>2, <2>1
  <2> QED BY <2>3, <2>4
<1>7. first + AwardDays - 1 = m.end - 1 /\ S = ScoresIn(p, D)
  <2>1. first + AwardDays - 1 = m.end - 1
    BY <1>2
  <2> QED BY <2>1
<1>8. IsFiniteSet(D)
  <2> DEFINE final == m.end - 1
  <2>1. first \in Int /\ final \in Int
    BY <1>2
  <2>2. D = first..final
    OBVIOUS
  <2> HIDE DEF D, first, final, days, starts, S, W, rows, line
  <2> QED BY <2>1, <2>2, FS_Interval
<1>9. DOMAIN S = D /\ \A z \in D : S[z] = history[p][z] /\ S[z] \in Result
  <2>1. /\ DOMAIN ScoresIn(p, D) = {z \in DOMAIN Counted(p) : z \in D /\ Counts(Counted(p)[z])}
        /\ \A z \in DOMAIN ScoresIn(p, D) : /\ ScoresIn(p, D)[z] = Counted(p)[z]
                                            /\ ScoresIn(p, D)[z] \in Result
    <3> HIDE DEF D, S, W, days, starts, rows, line
    <3> QED BY <1>1, ScoresAre
  <2>2. D \subseteq DOMAIN Counted(p)
    BY <1>4
  <2>3. {z \in DOMAIN Counted(p) : z \in D /\ Counts(Counted(p)[z])} = D
    BY <1>5, <2>2
  <2> HIDE DEF D, S
  <2> QED BY <1>4, <1>7, <2>1, <2>3
<1>10. DOMAIN rows = D /\ \A z \in D : rows[z] = history[p][z]
  <2>1. /\ DOMAIN Rows(m.first, m.end)[p] = {z \in DOMAIN Counted(p) : m.first <= z /\ z < m.end}
        /\ \A z \in DOMAIN Rows(m.first, m.end)[p] : Rows(m.first, m.end)[p][z] = Counted(p)[z]
    BY <1>1, RowsAreResults
  <2>2. DOMAIN history[p] \subseteq Int
    <3>1. DOMAIN history[p] \subseteq 1..(now + 1)
      BY <1>1, FewResults
    <3> QED BY <3>1
  <2>3. {z \in DOMAIN history[p] : m.first <= z /\ z < m.end} = D
    BY <1>2, <2>2
  <2> QED BY <1>4, <2>1, <2>3
<1> DEFINE c == Cardinality(D)
           t == Total(S, D)
<1>11. W.sum = t /\ W.count = c /\ t \in Nat /\ c \in Nat
  <2>1. {z \in DOMAIN S : Counts(S[z])} = D
    BY <1>5, <1>9
  <2>2. Cardinality({}) = 0
    BY FS_EmptySet
  <2>3. W = [sum   |-> Total(S, {z \in DOMAIN S : Counts(S[z])}) + 7 * Cardinality({}),
             count |-> Cardinality({z \in DOMAIN S : Counts(S[z])}) + Cardinality({})]
    BY DEF Average, FailedAsSeven
  <2> HIDE DEF S, D, W
  <2>4. t \in Nat /\ c \in Nat
    BY <1>8, <1>9, TotalBound, FS_CardinalityType
  <2>5. W = [sum |-> t + 7 * 0, count |-> c + 0]
    BY <2>1, <2>2, <2>3
  <2> HIDE DEF t, c
  <2> QED BY <2>4, <2>5
<1>12. line.sum = t /\ line.count = c
  <2> DEFINE counted == {z \in DOMAIN rows : Counts(rows[z])}
             gone    == Concluded(m.first, m.end, now) \ DOMAIN rows
  <2>1. counted = D
    BY <1>5, <1>10
  <2>2. Concluded(m.first, m.end, now) = D
    BY <1>2 DEF Concluded, Later, Earlier, Complete
  <2>3. gone = {}
    BY <1>10, <2>2
  <2>4. Cardinality({}) = 0
    BY FS_EmptySet
  <2>5. line.sum = Total(rows, counted) + 7 * Cardinality(gone) /\ line.count = Cardinality(counted) + Cardinality(gone)
    BY DEF MonthLine, MonthPlayer, FailedAsSeven
  <2> HIDE DEF rows, counted, gone, D, S, line
  <2>6. Total(rows, D) = Total(S, D)
    BY <1>8, <1>9, <1>10, TotalSame
  <2>7. line.sum = t + 7 * 0 /\ line.count = c + 0
    BY <2>1, <2>3, <2>4, <2>5, <2>6
  <2> HIDE DEF t, c
  <2> QED BY <1>11, <2>7
<1>13. /\ AverageOf(Tables[m], p).sum = line.sum /\ AverageOf(Tables[m], p).count = line.count
       /\ line.count \in Nat \ {0}
  BY <1>1, PlaceIs
<1>14. BestWeek(p, m, Tables[m]) = LowestOf({Average(ScoresIn(p, z..(z + AwardDays - 1)), {}) : z \in starts} \ {None})
  BY DEF BestWeek
<1>15. {Average(ScoresIn(p, z..(z + AwardDays - 1)), {}) : z \in starts} = {W}
  BY <1>6
<1> HIDE DEF W, t, c, line, S, starts
<1>16. W # None
  <2>1. None.count = 0
    BY DEF None
  <2> QED BY <1>11, <1>12, <1>13, <2>1
<1>17. ~ Lower(W, W)
  BY <1>11, <1>12, <1>13, AveragesOrder
<1>18. LowestOf({W}) = W
  BY <1>17 DEF LowestOf
<1>19. BestWeek(p, m, Tables[m]) = W
  <2>1. {W} \ {None} = {W}
    BY <1>16
  <2> QED BY <1>14, <1>15, <1>18, <2>1
<1> QED BY <1>11, <1>12, <1>13, <1>17, <1>19 DEF Level, Lower

\* Of some averages that are above nothing there is one none is above.
LEMMA HighestIs ==
  ASSUME NEW S, IsFiniteSet(S), S # {}, \A a \in S : a.sum \in Int /\ a.count \in Nat \ {0}
  PROVE  \E a \in S : \A b \in S : ~ Lower(a, b)
<1> DEFINE R == {ab \in S \X S : Lower(ab[2], ab[1])}
<1>1. \A a, b \in S : <<a, b>> \in R <=> Lower(b, a)
  OBVIOUS
<1> HIDE DEF R
<1>2. \A a \in S : <<a, a>> \notin R
  BY <1>1, DeltasOrder
<1>3. \A a, b \in S : <<a, b>> \in R => <<b, a>> \notin R
  BY <1>1, DeltasOrder
<1>4. \A a, b, c \in S : <<b, a>> \notin R /\ <<c, b>> \notin R => <<c, a>> \notin R
  <2> SUFFICES ASSUME NEW a \in S, NEW b \in S, NEW c \in S, <<b, a>> \notin R, <<c, b>> \notin R
               PROVE  <<c, a>> \notin R
    OBVIOUS
  <2>1. ~ Lower(a, b) /\ ~ Lower(b, c)
    BY <1>1
  <2>2. ~ Lower(a, c)
    BY <2>1, DeltasOrder
  <2> QED BY <1>1, <2>2
<1>5. \E a \in S : \A b \in S : <<b, a>> \notin R
  BY <1>2, <1>3, <1>4, LeastExists
<1> QED BY <1>1, <1>5

\* Who counted on a day, and with what.
CountedOn(z)  == {q \in Players : z \in DOMAIN ScoresIn(q, {z})}
ScoresOn(z)   == [q \in CountedOn(z) |-> Value(Counted(q)[z])]

LEMMA BeatIs ==
  ASSUME TypeOK, NEW z
  PROVE  /\ IsFiniteSet(CountedOn(z)) /\ Cardinality(CountedOn(z)) \in Nat
         /\ \A q \in CountedOn(z) : ScoresOn(z)[q] \in 1..7 /\ ScoresOn(z)[q] = Value(history[q][z])
         /\ \A p : Beat(p, z).sum = SumOver(ScoresOn(z), CountedOn(z)) - ScoresOn(z)[p] * Cardinality(CountedOn(z))
         /\ \A p : Beat(p, z).count = Cardinality(CountedOn(z))
<1> DEFINE S == CountedOn(z)
           v == ScoresOn(z)
<1>1. IsFiniteSet(S)
  BY PlayersAreNumbered, FS_Subset DEF CountedOn
<1>2. \A q \in S : v[q] \in 1..7 /\ v[q] = Value(history[q][z])
  <2> SUFFICES ASSUME NEW q \in S PROVE v[q] \in 1..7 /\ v[q] = Value(history[q][z])
    OBVIOUS
  <2>1. q \in Players /\ z \in DOMAIN ScoresIn(q, {z})
    BY DEF CountedOn
  <2>2. Counted(q)[z] = history[q][z] /\ Counted(q)[z] \in Result
    BY <2>1, ScoresAre
  <2>3. v[q] = Value(Counted(q)[z])
    BY DEF ScoresOn
  <2> QED BY <2>2, <2>3 DEF Value, Solved, FailedAsSeven, Result
<1>3. DOMAIN v = S
  BY DEF ScoresOn
<1>4. \A p : /\ Beat(p, z).sum = MeanOf(v).sum - v[p] * MeanOf(v).count
             /\ Beat(p, z).count = MeanOf(v).count
  BY DEF Beat, ScoresOn, CountedOn
<1> HIDE DEF S, v
<1>5. MapThenSumSet(LAMBDA p : v[p], S) = SumOver(v, S)
  BY <1>1, MapSumIs
<1>6. MeanOf(v).sum = SumOver(v, S) /\ MeanOf(v).count = Cardinality(S)
  BY <1>3, <1>5 DEF MeanOf
<1>7. Cardinality(S) \in Nat
  BY <1>1, FS_CardinalityType
<1>8. \A p : /\ Beat(p, z).sum = SumOver(v, S) - v[p] * Cardinality(S)
             /\ Beat(p, z).count = Cardinality(S)
  BY <1>4, <1>6
<1> QED BY <1>1, <1>2, <1>7, <1>8 DEF S, v

\* Where two differ on a day, whoever did best on it came in under its mean.
LEMMA UnderTheMean ==
  ASSUME TypeOK, NEW z, NEW p \in CountedOn(z), NEW q \in CountedOn(z),
         ScoresOn(z)[p] # ScoresOn(z)[q]
  PROVE  \E r \in CountedOn(z) : Beat(r, z).sum > 0
<1> DEFINE S == CountedOn(z)
           v == ScoresOn(z)
           T == {v[x] : x \in S}
<1>1. /\ IsFiniteSet(S) /\ Cardinality(S) \in Nat /\ \A x \in S : v[x] \in 1..7
      /\ \A x : Beat(x, z).sum = SumOver(v, S) - v[x] * Cardinality(S)
  BY BeatIs
<1>2. IsFiniteSet(T) /\ T # {} /\ T \subseteq Int
  <2> HIDE DEF S, v
  <2>1. IsFiniteSet(T)
    BY <1>1, ImagesFinite
  <2>2. \A x \in S : v[x] \in Int
    BY <1>1
  <2> QED BY <2>1, <2>2 DEF S
<1>3. PICK r \in S : \A x \in S : v[r] <= v[x]
  <2> HIDE DEF S, v
  <2> DEFINE low == Min(T)
  <2>1. low \in T /\ \A x \in T : low <= x
    <3> HIDE DEF T
    <3> QED BY <1>2, MinIs
  <2>2. PICK r \in S : v[r] = low
    BY <2>1
  <2>3. \A x \in S : v[x] \in T
    OBVIOUS
  <2> HIDE DEF low, T
  <2> QED BY <2>1, <2>2, <2>3
<1>4. \E y \in S : v[r] < v[y]
  <2>1. p \in S /\ q \in S /\ v[p] # v[q]
    OBVIOUS
  <2> HIDE DEF S, v
  <2> QED BY <1>1, <1>3, <2>1
<1>5. PICK y \in S : v[r] < v[y]
  BY <1>4
<1> DEFINE k == v[r]
<1>6. k \in Nat /\ \A x \in S : v[x] \in Nat /\ k <= v[x]
  <2> HIDE DEF S, v
  <2> QED BY <1>1, <1>3
<1>7. k < v[y]
  BY <1>5
<1> HIDE DEF S, v, k, T
<1>8. k * Cardinality(S) < SumOver(v, S) /\ k * Cardinality(S) \in Nat
  BY <1>1, <1>6, <1>7, SumAbove
<1>9. SumOver(v, S) \in Nat
  BY <1>1, <1>6, SumIsNat
<1>10. Beat(r, z).sum = SumOver(v, S) - k * Cardinality(S)
  BY <1>1 DEF k
<1> QED BY <1>8, <1>9, <1>10 DEF S

\* Who came in under the mean of a day of the month, once, has a best day under it.
LEMMA BestBeatIs ==
  ASSUME TypeOK, NEW m \in Months, NEW p \in Players
  PROVE  LET best == BestBeat(p, m, Tables[m])
         IN  /\ best # None => best.sum \in Int /\ best.count \in Nat \ {0}
             /\ \A z \in DaysOf(m, Tables[m]) :
                  (z \in DOMAIN ScoresIn(p, {z}) /\ Beat(p, z).sum > 0) => best # None
<1> DEFINE days  == DaysOf(m, Tables[m])
           D     == DOMAIN ScoresIn(p, days)
           all   == {Beat(p, z) : z \in D}
           beats == {b \in all : b.sum > 0}
           best  == BestBeat(p, m, Tables[m])
<1>1. best = IF beats = {} THEN None ELSE CHOOSE b \in beats : \A c \in beats : ~Lower(b, c)
  BY DEF BestBeat
<1>a. IsFiniteSet(D) /\ D = {y \in DOMAIN Counted(p) : y \in days /\ Counts(Counted(p)[y])}
  <2> HIDE DEF days
  <2> QED BY ScoresAre
<1>b. \A z : DOMAIN ScoresIn(p, {z}) = {y \in DOMAIN Counted(p) : y \in {z} /\ Counts(Counted(p)[y])}
  <2> TAKE z
  <2> DEFINE one == {z}
  <2> SUFFICES DOMAIN ScoresIn(p, one) = {y \in DOMAIN Counted(p) : y \in one /\ Counts(Counted(p)[y])}
    OBVIOUS
  <2> HIDE DEF one
  <2> QED BY ScoresAre
<1>2. IsFiniteSet(D) /\ \A z \in D : z \in DOMAIN ScoresIn(p, {z})
  <2> HIDE DEF D, days
  <2> QED BY <1>a, <1>b
<1>3. \A z \in days : z \in DOMAIN ScoresIn(p, {z}) => z \in D
  <2> HIDE DEF D, days
  <2> QED BY <1>a, <1>b
<1>4. IsFiniteSet(beats)
  <2> DEFINE f == [z \in D |-> Beat(p, z)]
             T == {f[z] : z \in D}
  <2>1. IsFiniteSet(T)
    <3> HIDE DEF f, D
    <3> QED BY <1>2, ImagesFinite
  <2>2. beats \in SUBSET T
    OBVIOUS
  <2> HIDE DEF T, beats
  <2> QED BY <2>1, <2>2, FS_Subset
<1>5. ASSUME NEW b \in beats PROVE b.sum \in Int /\ b.sum > 0 /\ b.count \in Nat \ {0} /\ b # None
  <2>1. PICK z \in D : b = Beat(p, z)
    OBVIOUS
  <2>2. b.sum > 0
    OBVIOUS
  <2> HIDE DEF beats, D
  <2>3. p \in CountedOn(z)
    BY <1>2, <2>1 DEF CountedOn
  <2> DEFINE c == Cardinality(CountedOn(z))
             v == ScoresOn(z)[p]
             s == SumOver(ScoresOn(z), CountedOn(z))
  <2>4. /\ IsFiniteSet(CountedOn(z)) /\ c \in Nat /\ v \in 1..7 /\ b.sum = s - v * c /\ b.count = c
        /\ \A q \in CountedOn(z) : ScoresOn(z)[q] \in 1..7
    BY <2>1, <2>3, BeatIs
  <2>5. c # 0
    <3>1. CountedOn(z) # {}
      BY <2>3
    <3> QED BY <2>4, <3>1, FS_EmptySet
  <2>6. s \in Nat
    <3>1. \A q \in CountedOn(z) : ScoresOn(z)[q] \in Nat
      BY <2>4
    <3> QED BY <2>4, <3>1, SumIsNat
  <2> HIDE DEF c, v, s
  <2>7. s - v * c \in Int
    BY <2>4, <2>6
  <2>8. None.sum = 0
    BY DEF None
  <2> QED BY <2>2, <2>4, <2>5, <2>7, <2>8
<1>6. beats # {} => best \in beats
  <2> HIDE DEF beats
  <2>1. beats # {} => \E b \in beats : \A c \in beats : ~ Lower(b, c)
    BY <1>4, <1>5, HighestIs
  <2> QED BY <1>1, <2>1
<1>7. best # None => best.sum \in Int /\ best.count \in Nat \ {0}
  <2> HIDE DEF beats, best
  <2> QED BY <1>1, <1>5, <1>6
<1>8. ASSUME NEW z \in days, z \in DOMAIN ScoresIn(p, {z}), Beat(p, z).sum > 0
      PROVE  best # None
  <2>1. z \in D
    BY <1>3, <1>8
  <2>2. Beat(p, z) \in beats
    BY <1>8, <2>1
  <2> HIDE DEF beats, best
  <2> QED BY <1>5, <1>6, <2>2
<1> QED BY <1>7, <1>8

LEMMA BeatState == TypeOK => \A m \in Months : SomebodyBeatTheDay(m, Tables[m], Candidates(m, Tables))
<1> SUFFICES ASSUME TypeOK, NEW m \in Months, NEW z \in DaysOf(m, Tables[m]),
                    NEW p \in RankedIn(Tables[m]), NEW q \in RankedIn(Tables[m]),
                    z \in DOMAIN ScoresIn(p, {z}) \cap DOMAIN ScoresIn(q, {z}),
                    Value(history[p][z]) # Value(history[q][z])
             PROVE  Candidates(m, Tables)[5] # {}
  BY DEF SomebodyBeatTheDay
<1> DEFINE ranked == RankedIn(Tables[m])
           Best(r) == BestBeat(r, m, Tables[m])
           have   == {r \in ranked : Best(r) # None}
           figure == [r \in have |-> Hundredths(Best(r))]
<1>1. Candidates(m, Tables)[5] = MostOf(figure)
  BY DEF Candidates
<1>2. ranked = InTable(m) /\ ranked \subseteq Players
  BY RankedAre DEF InTable
<1>3. p \in CountedOn(z) /\ q \in CountedOn(z)
  BY <1>2 DEF CountedOn
<1>4. ScoresOn(z)[p] # ScoresOn(z)[q]
  BY <1>3, BeatIs
<1>5. PICK r \in CountedOn(z) : Beat(r, z).sum > 0
  BY <1>3, <1>4, UnderTheMean
<1>6. r \in Players /\ z \in DOMAIN ScoresIn(r, {z})
  BY DEF CountedOn
<1>7. r \in InTable(m)
  <2>1. z \in DOMAIN Counted(r) /\ Counts(Counted(r)[z])
    <3> DEFINE only == {z}
               all  == DOMAIN Counted(r)
    <3> HIDE DEF only
    <3>1. DOMAIN ScoresIn(r, only) = {y \in all : y \in only /\ Counts(Counted(r)[y])}
      BY <1>6, ScoresAre
    <3>2. z \in DOMAIN ScoresIn(r, only)
      BY <1>6 DEF only
    <3> QED BY <3>1, <3>2
  <2>2. z \in m.first..(m.end - 1)
    BY DaysAre
  <2>3. m.first \in Nat /\ m.end \in Nat /\ now \in Nat
    BY MonthsAreSpans, LastDayIsADay DEF TypeOK
  <2> DEFINE rows == Rows(m.first, m.end)[r]
             counted == {y \in DOMAIN rows : Counts(rows[y])}
             gone    == Concluded(m.first, m.end, now) \ DOMAIN rows
  <2>4. /\ DOMAIN rows = {y \in DOMAIN Counted(r) : m.first <= y /\ y < m.end}
        /\ \A y \in DOMAIN rows : rows[y] = Counted(r)[y]
        /\ IsFiniteSet(DOMAIN rows)
    BY <1>6, RowsAreResults
  <2>5. z \in DOMAIN rows
    BY <2>1, <2>2, <2>3, <2>4
  <2>6. z \in counted
    BY <2>1, <2>4, <2>5
  <2>7. MonthLine(m, r).count = Cardinality(counted) + Cardinality(gone)
    BY DEF MonthLine, MonthPlayer
  <2>8. IsFiniteSet(counted) /\ IsFiniteSet(gone)
    BY <2>3, <2>4, ConcludedFinite, FS_Subset
  <2>9. DOMAIN rows # {} /\ counted # {}
    BY <2>5, <2>6
  <2> HIDE DEF rows, counted, gone
  <2>10. Cardinality(counted) \in Nat \ {0} /\ Cardinality(gone) \in Nat
    BY <2>8, <2>9, FS_CardinalityType, FS_EmptySet
  <2>11. MonthLine(m, r).count > 0
    BY <2>7, <2>10
  <2> QED BY <1>6, <2>9, <2>11 DEF InTable, rows
<1>8. Best(r) # None
  BY <1>5, <1>6, BestBeatIs
<1>9. r \in have
  BY <1>2, <1>7, <1>8
<1>10. IsFiniteSet(have)
  <2>1. have \in SUBSET Players
    BY <1>2
  <2> QED BY <2>1, PlayersAreNumbered, FS_Subset
<1>11. \A x \in have : figure[x] \in Int
  <2> SUFFICES ASSUME NEW x \in have PROVE Hundredths(Best(x)) \in Int
    OBVIOUS
  <2>1. x \in Players /\ Best(x) # None
    BY <1>2
  <2> DEFINE b == Best(x)
  <2>2. b.sum \in Int /\ b.count \in Nat \ {0}
    BY <2>1, BestBeatIs
  <2> HIDE DEF b
  <2>3. ~ Lower(b, b)
    BY <2>2, DeltasOrder
  <2>4. Hundredths(b) \in Int
    BY <2>2, <2>3, HundredthsGrow
  <2> QED BY <2>4 DEF b
<1>12. DOMAIN figure = have
  OBVIOUS
<1> HIDE DEF figure, have
<1> DEFINE T == {figure[x] : x \in have}
<1>13. IsFiniteSet(T)
  BY <1>10, ImagesFinite
<1>14. T # {} /\ T \subseteq Int
  BY <1>9, <1>11
<1>15. Max(T) \in T /\ \A x \in T : x <= Max(T)
  <2> HIDE DEF T
  <2> QED BY <1>13, <1>14, MaxIs
<1> DEFINE top == Max(T)
<1>16. \A x \in have : figure[x] \in T
  OBVIOUS
<1>17. PICK x \in have : figure[x] = top
  BY <1>15
<1> HIDE DEF T
<1>18. x \in MostOf(figure)
  BY <1>12, <1>15, <1>16, <1>17 DEF MostOf
<1> QED BY <1>1, <1>18

\* What the squares of some results come to is the sum of them.
LEMMA SquaresAre ==
  ASSUME NEW results, NEW days, IsFiniteSet(days)
  PROVE  MapThenSumSet(LAMBDA z : Value(results[z]) * Value(results[z]), days)
           = SumOver([z \in days |-> Value(results[z]) * Value(results[z])], days)
<1> DEFINE f == [z \in days |-> Value(results[z]) * Value(results[z])]
           Square(z) == Value(results[z]) * Value(results[z])
           Folds(g) == g = [s \in SUBSET days |->
                              IF s = {} THEN 0
                              ELSE Square(CHOOSE x \in s : TRUE) + g[s \ {CHOOSE x \in s : TRUE}]]
           g == CHOOSE h : Folds(h)
           total == MapThenSumSet(LAMBDA z : Value(results[z]) * Value(results[z]), days)
<1>1. total = g[days]
  BY DEF MapThenSumSet, MapThenFoldSet
<1>2. ASSUME NEW h PROVE SumsUp(f, days, h) <=> Folds(h)
  <2>1. ASSUME NEW s \in SUBSET days
        PROVE  Partial(f, s, h) = IF s = {} THEN 0
                 ELSE Square(CHOOSE x \in s : TRUE) + h[s \ {CHOOSE x \in s : TRUE}]
    <3>1. CASE s = {}
      BY <3>1 DEF Partial
    <3>2. CASE s # {}
      <4>1. (CHOOSE x \in s : TRUE) \in s
        BY <3>2
      <4>2. f[CHOOSE x \in s : TRUE] = Square(CHOOSE x \in s : TRUE)
        BY <4>1
      <4> HIDE DEF f, Square
      <4> QED BY <3>2, <4>2 DEF Partial, Picked
    <3> QED BY <3>1, <3>2
  <2> HIDE DEF f, Square
  <2> QED BY <2>1 DEF SumsUp
<1>3. \E h : SumsUp(f, days, h)
  <2> HIDE DEF f
  <2> QED BY SumsExist
<1>4. \E h : Folds(h)
  <2> HIDE DEF Folds, f
  <2> QED BY <1>2, <1>3
<1>5. Folds(g)
  <2> HIDE DEF Folds
  <2> QED BY <1>4
<1>6. SumsUp(f, days, g)
  <2> HIDE DEF Folds, f, g
  <2> QED BY <1>2, <1>5
<1>7. PICK h : SumsUp(f, days, h) /\ SumOver(f, days) = h[days]
  <2> HIDE DEF f
  <2> QED BY SumOverSumsUp
<1>8. g[days] = h[days]
  <2> HIDE DEF f, g
  <2> QED BY <1>6, <1>7, SumsUnique
<1> QED BY <1>1, <1>7, <1>8

\* So many scores of one to seven spread by three at the most: a square and seven is
\* eight times the score at the most.
LEMMA SpreadOfScores ==
  ASSUME NEW D, IsFiniteSet(D), NEW v, \A z \in D : v[z] \in 1..7,
         NEW w, \A z \in D : w[z] = v[z] * v[z]
  PROVE  LET n == Cardinality(D)
             s == SumOver(v, D)
             q == SumOver(w, D)
         IN  n \in Nat /\ s \in Nat /\ q \in Nat /\ n * q - s * s <= 9 * (n * n)
<1> DEFINE two   == [z \in D |-> v[z] + v[z]]
           four  == [z \in D |-> two[z] + two[z]]
           eight == [z \in D |-> four[z] + four[z]]
           seven == [z \in D |-> 7]
           left  == [z \in D |-> 8 * v[z] - w[z] - 7]
           most  == [z \in D |-> w[z] + seven[z]]
           n == Cardinality(D)
           s == SumOver(v, D)
           q == SumOver(w, D)
<1>1. \A z \in D : v[z] \in Nat /\ w[z] \in Nat /\ left[z] \in Nat
                   /\ eight[z] = most[z] + left[z] /\ most[z] = w[z] + seven[z]
  <2> SUFFICES ASSUME NEW z \in D
               PROVE  v[z] \in Nat /\ w[z] \in Nat /\ left[z] \in Nat
                      /\ eight[z] = most[z] + left[z] /\ most[z] = w[z] + seven[z]
    OBVIOUS
  <2> DEFINE x == v[z]
             y == w[z]
  <2>1. x \in 1..7 /\ y = x * x
    OBVIOUS
  <2>2. eight[z] = ((x + x) + (x + x)) + ((x + x) + (x + x)) /\ most[z] = y + 7 /\ left[z] = 8 * x - y - 7
        /\ seven[z] = 7
    OBVIOUS
  <2> HIDE DEF x, y
  <2>3. x \in {1, 2, 3, 4, 5, 6, 7}
    BY <2>1
  <2>4. x \in Nat /\ y \in Nat /\ 8 * x - y - 7 \in Nat
    BY <2>1, <2>3
  <2> QED BY <2>1, <2>2, <2>4 DEF x, y
<1>2. \A z \in D : seven[z] = 7 /\ seven[z] \in Nat /\ two[z] = v[z] + v[z] /\ two[z] \in Nat
                   /\ four[z] = two[z] + two[z] /\ four[z] \in Nat /\ eight[z] = four[z] + four[z]
                   /\ most[z] = w[z] + seven[z] /\ most[z] \in Nat
  BY <1>1
<1> HIDE DEF two, four, eight, seven, left, most
<1>3. s \in Nat /\ q \in Nat /\ n \in Nat
  BY <1>1, SumIsNat, FS_CardinalityType
<1>4. SumOver(two, D) = s + s
  BY <1>1, <1>2, SumPlus
<1>5. SumOver(four, D) = SumOver(two, D) + SumOver(two, D)
  BY <1>2, SumPlus
<1>6. SumOver(eight, D) = SumOver(four, D) + SumOver(four, D)
  BY <1>2, SumPlus
<1>7. SumOver(seven, D) = 7 * n
  <2> DEFINE k == 7
  <2>1. k \in Nat /\ \A z \in D : seven[z] = k
    BY <1>2
  <2> HIDE DEF k
  <2>2. SumOver(seven, D) = k * n
    BY <2>1, SumOfSame
  <2> QED BY <2>2 DEF k
<1>8. SumOver(most, D) = q + SumOver(seven, D)
  BY <1>1, <1>2, SumPlus
<1>9. SumOver(eight, D) = SumOver(most, D) + SumOver(left, D)
  BY <1>1, <1>2, SumPlus
<1>10. SumOver(left, D) \in Nat
  BY <1>1, SumIsNat
<1> DEFINE e == SumOver(left, D)
<1> HIDE DEF n, s, q
<1>11. 8 * s = q + 7 * n + e /\ e \in Nat
  BY <1>3, <1>4, <1>5, <1>6, <1>7, <1>8, <1>9, <1>10
<1> HIDE DEF e
<1>12. q <= 8 * s - 7 * n
  BY <1>3, <1>11
<1>13. n * q <= n * (8 * s - 7 * n)
  <2> DEFINE t == 8 * s - 7 * n
  <2>1. t \in Int
    BY <1>3
  <2> HIDE DEF t
  <2>2. q <= t
    BY <1>12 DEF t
  <2> QED BY <1>3, <2>1, <2>2 DEF t
<1>14. n * (8 * s - 7 * n) = 9 * (n * n) + s * s - (s - 4 * n) * (s - 4 * n)
  BY <1>3
<1>15. (s - 4 * n) * (s - 4 * n) >= 0
  <2> DEFINE t == s - 4 * n
  <2>1. t \in Int
    BY <1>3
  <2> HIDE DEF t
  <2>2. t * t >= 0
    BY <2>1
  <2> QED BY <2>2 DEF t
<1> DEFINE a == n * q
           b == n * (8 * s - 7 * n)
           c == (s - 4 * n) * (s - 4 * n)
           d == s * s
           h == n * n
<1>16. a \in Int /\ b \in Int /\ c \in Int /\ d \in Int /\ h \in Int
  BY <1>3
<1>17. a <= b /\ b = 9 * h + d - c /\ c >= 0
  BY <1>13, <1>14, <1>15
<1>18. a - d <= 9 * h
  <2> HIDE DEF a, b, c, d, h
  <2> QED BY <1>16, <1>17
<1> QED BY <1>3, <1>18 DEF n, s, q

\* What spread the results of a player have, when all of them count and none are missed.
LEMMA VarianceIs ==
  ASSUME opts = DefaultOptions, NEW results, IsFiniteSet(DOMAIN results), DOMAIN results # {},
         \A z \in DOMAIN results : results[z] \in Result
  PROVE  LET v == Variance(results, {})
         IN  v.sum \in Int /\ v.count \in Nat \ {0} /\ v.sum <= 9 * v.count
<1> DEFINE D == DOMAIN results
           v == [z \in D |-> Value(results[z])]
           w == [z \in D |-> Value(results[z]) * Value(results[z])]
           n == Cardinality(D)
           s == SumOver(v, D)
           q == SumOver(w, D)
<1>1. {z \in D : Counts(results[z])} = D
  BY DEF Counts, DefaultOptions
<1>2. \A z \in D : v[z] \in 1..7 /\ w[z] = v[z] * v[z]
  BY DEF Value, Solved, FailedAsSeven, Result
<1>3. Cardinality({}) = 0
  BY FS_EmptySet
<1> DEFINE squares == MapThenSumSet(LAMBDA z : Value(results[z]) * Value(results[z]), {z \in D : Counts(results[z])})
           missed  == Cardinality({})
<1>4. /\ Average(results, {}).sum = Total(results, {z \in D : Counts(results[z])}) + 7 * missed
      /\ Average(results, {}).count = Cardinality({z \in D : Counts(results[z])}) + missed
  BY DEF Average, FailedAsSeven
<1>5. /\ Variance(results, {}).sum = Average(results, {}).count * (squares + 7 * 7 * missed)
                                      - Average(results, {}).sum * Average(results, {}).sum
      /\ Variance(results, {}).count = Average(results, {}).count * Average(results, {}).count
  BY DEF Variance, FailedAsSeven
<1>6. squares = q
  <2>1. squares = MapThenSumSet(LAMBDA z : Value(results[z]) * Value(results[z]), D)
    BY <1>1
  <2> HIDE DEF squares, D
  <2> QED BY <2>1, SquaresAre DEF D
<1>7. Total(results, {z \in D : Counts(results[z])}) = s
  <2>1. Total(results, {z \in D : Counts(results[z])}) = Total(results, D)
    BY <1>1
  <2> HIDE DEF D
  <2> QED BY <2>1, TotalIsSum DEF D
<1>8. n # 0
  BY FS_EmptySet
<1> HIDE DEF squares, missed, v, w
<1>9. n \in Nat /\ s \in Nat /\ q \in Nat /\ n * q - s * s <= 9 * (n * n)
  <2> HIDE DEF D
  <2> QED BY <1>2, SpreadOfScores DEF D
<1> DEFINE a == Average(results, {})
           x == Variance(results, {})
<1>10. missed = 0 /\ Cardinality({z \in D : Counts(results[z])}) = n
  BY <1>1, <1>3 DEF missed
<1> HIDE DEF n, s, q, a, x
<1>11. a.sum = s + 7 * 0 /\ a.count = n + 0
  BY <1>4, <1>7, <1>10 DEF a
<1>12. a.sum = s /\ a.count = n
  BY <1>9, <1>11
<1>13. x.sum = a.count * (q + 7 * 7 * 0) - a.sum * a.sum /\ x.count = a.count * a.count
  BY <1>5, <1>6, <1>10 DEF a, x
<1>14. q + 7 * 7 * 0 = q
  BY <1>9
<1>15. x.sum = n * q - s * s /\ x.count = n * n
  BY <1>12, <1>13, <1>14
<1>16. n * q - s * s \in Int /\ n * n \in Nat \ {0}
  <2>1. n * n \in Nat /\ n * q \in Int /\ s * s \in Int
    BY <1>9
  <2>2. n * n # 0
    BY <1>8, <1>9 DEF n
  <2> QED BY <2>1, <2>2
<1> QED BY <1>9, <1>15, <1>16 DEF x

\* The root of a spread as it is shown: the first hundredth that is not more than half of one
\* under it.
LEMMA RootIs ==
  ASSUME NEW v, v.sum \in Int, v.count \in Nat \ {0}, v.sum <= 9 * v.count
  PROVE  LET k == RootHundredths(v)
         IN  /\ k \in Nat
             /\ k = 0 \/ (2 * k - 1) * (2 * k - 1) * v.count <= 40000 * v.sum
             /\ 40000 * v.sum < (2 * k + 1) * (2 * k + 1) * v.count
<1> DEFINE s == v.sum
           c == v.count
           Under(k) == 40000 * s < (2 * k + 1) * (2 * k + 1) * c
           K == {k \in 0..300 : Under(k)}
           low == Min(K)
<1>1. s \in Int /\ c \in Nat \ {0} /\ s <= 9 * c
  OBVIOUS
<1>2. 300 \in K
  <2> HIDE DEF s, c
  <2>1. (2 * 300 + 1) * (2 * 300 + 1) * c = 361201 * c
    BY <1>1
  <2>2. 40000 * s < 361201 * c
    BY <1>1
  <2> QED BY <2>1, <2>2
<1>3. IsFiniteSet(K) /\ K \subseteq Int
  <2> DEFINE zero == 0
             most == 300
  <2>1. zero \in Int /\ most \in Int
    OBVIOUS
  <2>2. K \subseteq Int /\ K \in SUBSET (zero..most)
    <3> HIDE DEF Under
    <3> QED OBVIOUS
  <2> HIDE DEF K, zero, most
  <2>3. IsFiniteSet(zero..most)
    BY <2>1, FS_Interval
  <2> QED BY <2>2, <2>3, FS_Subset
<1>4. low \in K /\ \A k \in K : low <= k
  <2> HIDE DEF K
  <2> QED BY <1>2, <1>3, MinIs
<1>5. low \in 0..300 /\ Under(low)
  <2> HIDE DEF Under, low
  <2> QED BY <1>4
<1>6. low = 0 \/ (2 * low - 1) * (2 * low - 1) * c <= 40000 * s
  <2> SUFFICES ASSUME low # 0 PROVE (2 * low - 1) * (2 * low - 1) * c <= 40000 * s
    OBVIOUS
  <2> DEFINE k == low - 1
  <2>1. k \in 0..300 /\ ~(low <= k)
    <3> HIDE DEF low, Under
    <3> QED BY <1>5
  <2>2. k \notin K
    <3> HIDE DEF low, k, K
    <3> QED BY <1>4, <2>1
  <2>3. ~ Under(k)
    <3> HIDE DEF Under, k
    <3> QED BY <2>1, <2>2
  <2>4. 2 * k + 1 = 2 * low - 1
    <3> HIDE DEF low, Under
    <3>1. low \in Int
      BY <1>5
    <3> QED BY <3>1
  <2> HIDE DEF low, s, c, K
  <2>5. (2 * k + 1) * (2 * k + 1) * c = (2 * low - 1) * (2 * low - 1) * c
    BY <2>4
  <2>6. ~ (40000 * s < (2 * k + 1) * (2 * k + 1) * c)
    BY <2>3
  <2> DEFINE t == (2 * low - 1) * (2 * low - 1) * c
  <2>7. t \in Int
    BY <1>1, <1>5
  <2>8. ~ (40000 * s < t)
    BY <2>5, <2>6
  <2> HIDE DEF t
  <2>9. t <= 40000 * s
    BY <1>1, <2>7, <2>8
  <2> QED BY <2>9 DEF t
<1> DEFINE Is(k) == /\ k = 0 \/ (2 * k - 1) * (2 * k - 1) * c <= 40000 * s
                    /\ Under(k)
<1>7. \E k \in 0..300 : Is(k)
  <2>1. Is(low)
    <3>1. Under(low)
      <4> HIDE DEF low, Under
      <4> QED BY <1>5
    <3> HIDE DEF low, s, c, Under
    <3> QED BY <1>6, <3>1
  <2> HIDE DEF Is, low
  <2> QED BY <1>5, <2>1
<1>8. RootHundredths(v) = CHOOSE k \in 0..300 : Is(k)
  BY DEF RootHundredths
<1>9. RootHundredths(v) \in 0..300 /\ Is(RootHundredths(v))
  <2> HIDE DEF Is
  <2> QED BY <1>7, <1>8
<1> QED BY <1>9

\* Who has no larger spread is shown no larger one.
LEMMA RootGrows ==
  ASSUME NEW a, a.sum \in Int, a.count \in Nat \ {0}, a.sum <= 9 * a.count,
         NEW b, b.sum \in Int, b.count \in Nat \ {0}, b.sum <= 9 * b.count,
         ~ Lower(b, a)
  PROVE  RootHundredths(a) <= RootHundredths(b)
<1> DEFINE s == a.sum
           c == a.count
           t == b.sum
           d == b.count
           j == RootHundredths(a)
           k == RootHundredths(b)
           q == (2 * j - 1) * (2 * j - 1)
           r == (2 * k + 1) * (2 * k + 1)
<1>1. /\ s \in Int /\ t \in Int /\ c \in Nat \ {0} /\ d \in Nat \ {0} /\ s <= 9 * c /\ t <= 9 * d
      /\ ~ (t * c < s * d)
  BY DEF Lower
<1>2. j \in Nat /\ (j = 0 \/ q * c <= 40000 * s)
  BY RootIs
<1>3. k \in Nat /\ 40000 * t < r * d
  BY RootIs
<1> SUFFICES ASSUME ~ (j <= k) PROVE FALSE
  OBVIOUS
<1> HIDE DEF s, c, t, d, j, k
<1>4. j # 0 /\ 2 * k + 1 <= 2 * j - 1 /\ 2 * k + 1 \in Nat /\ 2 * j - 1 \in Nat
  BY <1>2, <1>3
<1>5. r \in Nat /\ q \in Nat /\ r <= q
  <2> DEFINE x == 2 * k + 1
             y == 2 * j - 1
  <2>1. x \in Nat /\ y \in Nat /\ x <= y
    BY <1>4
  <2> HIDE DEF x, y
  <2>2. x * x \in Nat /\ y * y \in Nat /\ x * x <= y * y
    BY <2>1
  <2> QED BY <2>2 DEF x, y
<1> HIDE DEF q, r
<1>6. q * c <= 40000 * s
  BY <1>2, <1>4
<1>7. (q * c) * d <= (40000 * s) * d
  <2> DEFINE x == q * c
             y == 40000 * s
  <2>1. x \in Int /\ y \in Int /\ x <= y
    BY <1>1, <1>5, <1>6
  <2> HIDE DEF x, y
  <2>2. x * d <= y * d
    BY <1>1, <2>1
  <2> QED BY <2>2 DEF x, y
<1>8. (40000 * t) * c < (r * d) * c
  <2> DEFINE x == 40000 * t
             y == r * d
  <2>1. x \in Int /\ y \in Int /\ x < y
    BY <1>1, <1>3, <1>5
  <2> HIDE DEF x, y
  <2>2. x * c < y * c
    BY <1>1, <2>1
  <2> QED BY <2>2 DEF x, y
<1>9. (r * d) * c <= (q * c) * d
  <2> DEFINE e == c * d
  <2>1. e \in Nat
    BY <1>1
  <2>2. (r * d) * c = r * e /\ (q * c) * d = q * e
    BY <1>1, <1>5
  <2> HIDE DEF e
  <2>3. r * e <= q * e
    BY <1>5, <2>1
  <2> QED BY <2>2, <2>3
<1>10. (40000 * s) * d = 40000 * (s * d) /\ (40000 * t) * c = 40000 * (t * c)
  BY <1>1
<1> DEFINE u == s * d
           w == t * c
           x == (r * d) * c
           y == (q * c) * d
<1>11. u \in Int /\ w \in Int /\ x \in Int /\ y \in Int
  BY <1>1, <1>5
<1>12. ~ (w < u) /\ y <= 40000 * u /\ 40000 * w < x /\ x <= y
  BY <1>1, <1>7, <1>8, <1>9, <1>10
<1> HIDE DEF u, w, x, y
<1> QED BY <1>11, <1>12

Alike(a, b) == Lower(a.variance, b.variance) \/ (Level(a.variance, b.variance) /\ a.player < b.player)

\* The order of the steadiest is a strict one of any rows with a spread.
LEMMA AlikeOrders ==
  ASSUME NEW S, \A a \in S : a.player \in Int /\ a.variance.sum \in Int /\ a.variance.count \in Nat \ {0},
         \A a, b \in S : a.player = b.player => a = b
  PROVE  /\ \A a \in S : ~ Alike(a, a)
         /\ \A a, b \in S : a # b => Alike(a, b) \/ Alike(b, a)
         /\ \A a, b, c \in S : Alike(a, b) /\ Alike(b, c) => Alike(a, c)
<1> DEFINE Under(a, b) == Lower(a.variance, b.variance)
<1>1. \A a, b, c \in S : /\ ~ Under(a, a)
                         /\ Under(a, b) => ~ Under(b, a)
                         /\ ~ Under(b, a) /\ ~ Under(c, b) => ~ Under(c, a)
  <2> SUFFICES ASSUME NEW a \in S, NEW b \in S, NEW c \in S
               PROVE  /\ ~ Under(a, a)
                      /\ Under(a, b) => ~ Under(b, a)
                      /\ ~ Under(b, a) /\ ~ Under(c, b) => ~ Under(c, a)
    OBVIOUS
  <2> DEFINE u == a.variance
             v == b.variance
             w == c.variance
  <2>1. /\ u.sum \in Int /\ v.sum \in Int /\ w.sum \in Int
        /\ u.count \in Nat \ {0} /\ v.count \in Nat \ {0} /\ w.count \in Nat \ {0}
    OBVIOUS
  <2> HIDE DEF u, v, w
  <2>2. /\ ~ Lower(u, u)
        /\ Lower(u, v) => ~ Lower(v, u)
        /\ ~ Lower(v, u) /\ ~ Lower(w, v) => ~ Lower(w, u)
    BY <2>1, DeltasOrder
  <2> QED BY <2>2 DEF u, v, w
<1>2. \A a, b \in S : Alike(a, b) <=> Under(a, b) \/ (~ Under(a, b) /\ ~ Under(b, a) /\ a.player < b.player)
  BY DEF Alike, Level
<1>3. \A a \in S : a.player \in Int
  OBVIOUS
<1> HIDE DEF Under
<1>4. ASSUME NEW a \in S PROVE ~ Alike(a, a)
  BY <1>1, <1>2, <1>3
<1>5. ASSUME NEW a \in S, NEW b \in S, a # b PROVE Alike(a, b) \/ Alike(b, a)
  <2>1. a.player # b.player
    BY <1>5
  <2>2. a.player < b.player \/ b.player < a.player
    BY <1>3, <2>1
  <2> QED BY <1>2, <2>2
<1>6. ASSUME NEW a \in S, NEW b \in S, NEW c \in S, Alike(a, b), Alike(b, c) PROVE Alike(a, c)
  <2>1. ~ Under(b, a) /\ ~ Under(c, b)
    BY <1>1, <1>2, <1>6
  <2>2. ~ Under(c, a)
    BY <1>1, <2>1
  <2>3. CASE Under(a, c)
    BY <1>2, <2>3
  <2>4. CASE ~ Under(a, c)
    <3>1. ~ Under(a, b) /\ ~ Under(b, c)
      BY <1>1, <2>1, <2>4
    <3>2. a.player < b.player /\ b.player < c.player
      BY <1>2, <1>6, <3>1
    <3>3. a.player < c.player
      BY <1>3, <3>2
    <3> QED BY <1>2, <2>2, <2>4, <3>3
  <2> QED BY <2>3, <2>4
<1> QED BY <1>4, <1>5, <1>6

\* The row of a player of two games at least, under the rules the bot goes by: its spread is
\* that of all their results, and they are not more than three from their mean.
LEMMA SpreadIs ==
  ASSUME TypeOK, opts = DefaultOptions, NEW p \in Players, Row(p).games >= 2
  PROVE  /\ Row(p).variance = Variance(history[p], {})
         /\ Row(p).variance.sum \in Int /\ Row(p).variance.count \in Nat \ {0}
         /\ Row(p).variance.sum <= 9 * Row(p).variance.count
<1> DEFINE results == history[p]
           D       == DOMAIN results
<1>1. Counted(p) = results
  BY DEF Counted, DefaultOptions
<1>2. Row(p).variance = Variance(Counted(p), IF opts.countMissed THEN MissedDays(Counted(p), results) ELSE {})
  BY DEF Row
<1>3. Row(p).variance = Variance(results, {})
  BY <1>1, <1>2 DEF DefaultOptions
<1>4. IsFiniteSet(D) /\ \A z \in D : results[z] \in Result
  BY <1>1, FewResults
<1>5. D # {}
  <2> SUFFICES ASSUME D = {} PROVE FALSE
    OBVIOUS
  <2>1. Cardinality({}) = 0
    BY FS_EmptySet
  <2>2. Row(p).games = Cardinality(DOMAIN Counted(p))
    BY RowIs
  <2>3. Row(p).games = 0
    BY <1>1, <2>1, <2>2
  <2> QED BY <2>3
<1> HIDE DEF results
<1>6. Variance(results, {}).sum \in Int /\ Variance(results, {}).count \in Nat \ {0}
      /\ Variance(results, {}).sum <= 9 * Variance(results, {}).count
  BY <1>4, <1>5, VarianceIs
<1> QED BY <1>3, <1>6 DEF results

\* The first of the steadiest is one of those with two games, and none of them has a
\* smaller spread.
LEMMA SteadyIs ==
  ASSUME TypeOK, opts = DefaultOptions, 1 \in DOMAIN Steady(Compute)
  PROVE  LET S == {a \in BoardRows : a.reason = "ranked" /\ a.games >= 2}
         IN  /\ Steady(Compute)[1] \in S
             /\ \A b \in S : ~ Lower(b.variance, Steady(Compute)[1].variance)
<1> DEFINE S == {a \in BoardRows : a.reason = "ranked" /\ a.games >= 2}
           n == Cardinality(S)
           R == {ab \in S \X S : Alike(ab[1], ab[2])}
           t == Steady(Compute)
<1>1. \A p \in OnBoard : p \in Players
  BY DEF OnBoard
<1>2. \A a \in S : \E p \in Players : a = Row(p) /\ a.player = p /\ p \in Int /\ Row(p).games >= 2
  BY <1>1, RowIs DEF BoardRows
<1>3. \A a \in S : a.player \in Int /\ a.variance.sum \in Int /\ a.variance.count \in Nat \ {0}
  BY <1>2, SpreadIs
<1>4. \A a, b \in S : a.player = b.player => a = b
  BY <1>2
<1>5. IsFiniteSet(S) /\ n \in Nat
  <2>1. IsFiniteSet(BoardRows) /\ S \in SUBSET BoardRows
    BY BoardIs
  <2> HIDE DEF S
  <2>2. IsFiniteSet(S)
    BY <2>1, FS_Subset
  <2> QED BY <2>2, FS_CardinalityType
<1>6. t = CHOOSE s \in [1..n -> S] : \A i, j \in DOMAIN s : i < j => Alike(s[i], s[j])
  <2>1. S = {a \in Range(Compute.ranked) : a.games >= 2}
    BY BoardIs
  <2>2. t = CHOOSE s \in [1..Cardinality({a \in Range(Compute.ranked) : a.games >= 2})
                            -> {a \in Range(Compute.ranked) : a.games >= 2}] :
              \A i, j \in DOMAIN s : i < j =>
                 \/ Lower(s[i].variance, s[j].variance)
                 \/ Level(s[i].variance, s[j].variance) /\ s[i].player < s[j].player
    BY DEF Steady, InOrder
  <2> HIDE DEF S, t
  <2> QED BY <2>1, <2>2 DEF Alike
<1>7. \A a, b \in S : <<a, b>> \in R <=> Alike(a, b)
  OBVIOUS
<1> HIDE DEF S, R
<1>8. /\ \A a \in S : <<a, a>> \notin R
      /\ \A a, b \in S : a # b => <<a, b>> \in R \/ <<b, a>> \in R
      /\ \A a, b, c \in S : <<a, b>> \in R /\ <<b, c>> \in R => <<a, c>> \in R
  <2>1. /\ \A a \in S : ~ Alike(a, a)
        /\ \A a, b \in S : a # b => Alike(a, b) \/ Alike(b, a)
        /\ \A a, b, c \in S : Alike(a, b) /\ Alike(b, c) => Alike(a, c)
    BY <1>3, <1>4, AlikeOrders
  <2> QED BY <1>7, <2>1
<1>9. \E s \in [1..n -> S] : \A i, j \in 1..n : i < j => <<s[i], s[j]>> \in R
  BY <1>5, <1>8, SortedExists
<1>10. PICK s \in [1..n -> S] : \A i, j \in 1..n : i < j => Alike(s[i], s[j])
  BY <1>7, <1>9
<1>11. DOMAIN s = 1..n /\ \A i, j \in DOMAIN s : i < j => Alike(s[i], s[j])
  BY <1>10
<1> HIDE DEF n, t
<1>12. t \in [1..n -> S] /\ \A i, j \in DOMAIN t : i < j => Alike(t[i], t[j])
  BY <1>6, <1>10, <1>11
<1>13. Range(t) = S
  <2>1. \A a \in S : ~ Alike(a, a)
    BY <1>7, <1>8
  <2> QED BY <1>5, <1>7, <1>8, <1>12, <2>1, OrderedHasAll DEF n
<1>14. 1 \in DOMAIN t
  BY DEF t
<1>15. t[1] \in S /\ 1 \in 1..n
  BY <1>12, <1>14
<1>16. ASSUME NEW b \in S PROVE ~ Lower(b.variance, t[1].variance)
  <2>1. PICK i \in 1..n : t[i] = b
    BY <1>12, <1>13, <1>16 DEF Range
  <2>2. /\ ~ Lower(b.variance, b.variance)
        /\ Lower(b.variance, t[1].variance) => ~ Lower(t[1].variance, b.variance)
    <3> DEFINE u == b.variance
               v == t[1].variance
    <3>1. u.sum \in Int /\ u.count \in Nat \ {0} /\ v.sum \in Int /\ v.count \in Nat \ {0}
      BY <1>3, <1>15, <1>16
    <3> HIDE DEF u, v
    <3>2. ~ Lower(u, u) /\ (Lower(u, v) => ~ Lower(v, u))
      BY <3>1, DeltasOrder
    <3> QED BY <3>2 DEF u, v
  <2>3. CASE i = 1
    BY <2>1, <2>2, <2>3
  <2>4. CASE i # 1
    <3>1. 1 < i /\ i \in DOMAIN t /\ 1 \in DOMAIN t
      BY <1>5, <1>12, <1>15, <2>1, <2>4
    <3>2. Alike(t[1], b)
      BY <1>12, <2>1, <3>1
    <3> QED BY <2>2, <3>2 DEF Alike, Level
  <2> QED BY <2>3, <2>4
<1> QED BY <1>15, <1>16 DEF t, S

\* In a month that is all there is a player scores what they have in all.
LEMMA AllOfIt ==
  ASSUME TypeOK, HistoriesAreFunctions, opts = DefaultOptions, NEW m \in Months, NEW p \in Players,
         DOMAIN history[p] \subseteq DaysOf(m, Tables[m])
  PROVE  /\ ScoresIn(p, DaysOf(m, Tables[m])) = history[p]
         /\ MonthLine(m, p).games = Cardinality(DOMAIN history[p])
         /\ Row(p).games = Cardinality(DOMAIN history[p])
<1> DEFINE results == history[p]
           days    == DaysOf(m, Tables[m])
           D       == DOMAIN results
<1>1. Counted(p) = results /\ \A r : Counts(r)
  BY DEF Counted, Counts, DefaultOptions
<1>2. ScoresIn(p, days) = results
  <2>1. ScoresIn(p, days) = [z \in {z \in D : z \in days /\ Counts(results[z])} |-> results[z]]
    BY <1>1 DEF ScoresIn, RestrictDomain, Restrict
  <2>2. {z \in D : z \in days /\ Counts(results[z])} = D
    BY <1>1
  <2>3. results = [z \in D |-> results[z]]
    BY DEF HistoriesAreFunctions
  <2> HIDE DEF results, days, D
  <2> QED BY <2>1, <2>2, <2>3
<1>3. MonthLine(m, p).games = Cardinality(D)
  <2>1. DOMAIN Rows(m.first, m.end)[p] = {z \in DOMAIN Counted(p) : m.first <= z /\ z < m.end}
    BY RowsAreResults
  <2>2. \A z \in D : m.first <= z /\ z < m.end
    <3>1. days \subseteq m.first..(m.end - 1) /\ m.first \in Nat /\ m.end \in Nat
      BY DaysAre, MonthsAreSpans
    <3> HIDE DEF days
    <3> QED BY <3>1 DEF days
  <2>3. DOMAIN Rows(m.first, m.end)[p] = D
    BY <1>1, <2>1, <2>2
  <2>4. MonthLine(m, p).games = Cardinality(DOMAIN Rows(m.first, m.end)[p])
    BY DEF MonthLine, MonthPlayer
  <2> QED BY <2>3, <2>4
<1>4. Row(p).games = Cardinality(D)
  BY <1>1, RowIs
<1> QED BY <1>2, <1>3, <1>4

\* The steadiest of all is the steadiest of a month that is all there is: the two go by the
\* same spreads, and a spread that is not larger is not shown as a larger one.
LEMMA SteadiestState ==
  TypeOK /\ HistoriesAreFunctions =>
    \A m \in Months : SteadiestIsOfAll(m, Tables[m], Compute, Candidates(m, Tables))
<1> SUFFICES ASSUME TypeOK, HistoriesAreFunctions, NEW m \in Months,
                    opts = DefaultOptions, RankedIn(Tables[m]) = RankedIn(Compute),
                    \A p \in Players : DOMAIN history[p] \subseteq DaysOf(m, Tables[m]),
                    1 \in DOMAIN Steady(Compute), Steady(Compute)[1].games >= SteadyDays, SteadyDays >= 2
             PROVE  Steady(Compute)[1].player \in Candidates(m, Tables)[3]
  BY DEF SteadiestIsOfAll
<1> DEFINE a         == Steady(Compute)[1]
           days      == DaysOf(m, Tables[m])
           ranked    == RankedIn(Tables[m])
           Scores(p) == ScoresIn(p, days)
           E         == {q \in ranked : /\ LineOf(Tables[m], q).games >= SteadyDays
                                        /\ Cardinality(DOMAIN Scores(q)) >= 2}
           figure    == [p \in E |-> RootHundredths(Variance(Scores(p), {}))]
<1>1. Candidates(m, Tables)[3] = LeastOf(figure)
  BY DEF Candidates
<1>2. ranked = {b.player : b \in {b \in BoardRows : b.reason = "ranked"}}
  BY BoardIs DEF RankedIn
<1>3. ranked = InTable(m)
  BY RankedAre
<1>4. \A p \in OnBoard : p \in Players /\ Row(p) \in BoardRows /\ Row(p).player = p
  BY RowIs DEF OnBoard, BoardRows
<1>5. \A b \in BoardRows : b.player \in OnBoard /\ b = Row(b.player)
  BY <1>4 DEF BoardRows
<1>6. ASSUME NEW p \in ranked
      PROVE  /\ p \in Players /\ Row(p) \in BoardRows /\ Row(p).reason = "ranked" /\ Row(p).player = p
             /\ Scores(p) = history[p]
             /\ LineOf(Tables[m], p).games = Row(p).games
             /\ Cardinality(DOMAIN Scores(p)) = Row(p).games
  <2>1. PICK b \in BoardRows : b.reason = "ranked" /\ b.player = p
    BY <1>2, <1>6
  <2>2. p \in Players /\ Row(p) \in BoardRows /\ Row(p).reason = "ranked" /\ Row(p).player = p
    BY <1>4, <1>5, <2>1
  <2>3. /\ ScoresIn(p, days) = history[p]
        /\ MonthLine(m, p).games = Cardinality(DOMAIN history[p])
        /\ Row(p).games = Cardinality(DOMAIN history[p])
    BY <2>2, AllOfIt
  <2>4. LineOf(Tables[m], p) = MonthLine(m, p)
    BY <1>3, <1>6, PlaceIs
  <2> QED BY <2>2, <2>3, <2>4
<1>7. /\ a \in BoardRows /\ a.reason = "ranked" /\ a.games >= 2
      /\ \A b \in BoardRows : b.reason = "ranked" /\ b.games >= 2 => ~ Lower(b.variance, a.variance)
  BY SteadyIs
<1> DEFINE p == a.player
<1>8. p \in ranked /\ a = Row(p)
  BY <1>2, <1>5, <1>7
<1>9. p \in E
  BY <1>6, <1>7, <1>8
<1>10. ASSUME NEW q \in E
       PROVE  /\ q \in Players /\ Row(q).games >= 2 /\ ~ Lower(Row(q).variance, a.variance)
              /\ figure[q] = RootHundredths(Row(q).variance)
  <2>1. q \in ranked
    OBVIOUS
  <2>2. q \in Players /\ Row(q).games >= 2 /\ Row(q) \in BoardRows /\ Row(q).reason = "ranked"
    BY <1>6, <2>1
  <2>3. ~ Lower(Row(q).variance, a.variance)
    BY <1>7, <2>2
  <2>4. figure[q] = RootHundredths(Variance(Scores(q), {})) /\ Scores(q) = history[q]
    BY <1>6, <2>1
  <2>5. Row(q).variance = Variance(history[q], {})
    BY <2>2, SpreadIs
  <2> HIDE DEF figure, Scores
  <2> QED BY <2>2, <2>3, <2>4, <2>5
<1>11. \A q \in E : figure[p] <= figure[q]
  <2> SUFFICES ASSUME NEW q \in E PROVE figure[p] <= figure[q]
    OBVIOUS
  <2> DEFINE u == Row(p).variance
             v == Row(q).variance
  <2>1. figure[p] = RootHundredths(u) /\ figure[q] = RootHundredths(v)
    BY <1>9, <1>10
  <2>2. ~ Lower(v, u)
    BY <1>8, <1>10
  <2>3. u.sum \in Int /\ u.count \in Nat \ {0} /\ u.sum <= 9 * u.count
    BY <1>9, <1>10, SpreadIs
  <2>4. v.sum \in Int /\ v.count \in Nat \ {0} /\ v.sum <= 9 * v.count
    BY <1>10, SpreadIs
  <2> HIDE DEF u, v, figure, E, p
  <2>5. RootHundredths(u) <= RootHundredths(v)
    BY <2>2, <2>3, <2>4, RootGrows
  <2> QED BY <2>1, <2>5
<1>12. DOMAIN figure = E
  OBVIOUS
<1> HIDE DEF figure, E, p
<1> QED BY <1>1, <1>9, <1>11, <1>12 DEF LeastOf, p

-----------------------------------------------------------------------------
(* One past, told by many rules; and all that is told by two.              *)

LEMMA PastAgreesState == TypeOK /\ HistoriesAreFunctions => PastAgrees
<1> SUFFICES ASSUME TypeOK, HistoriesAreFunctions PROVE PastAgrees
  OBVIOUS
<1>1. /\ LeaderIsChampion(Tables) /\ TrophiesAreWins(Tables) /\ RecordIsABest(Tables)
      /\ DistributionIsOfAll(Compute) /\ FewestIsNotMost(Compute) /\ OnFormIsRising(Compute)
      /\ ProfilesAgree(Compute, Tables)
  BY LeaderState, TrophiesState, RecordState, DistributionState, FewestState, OnFormState, ProfilesState
<1>2. ASSUME NEW m \in Months
      PROVE  /\ BestWeekIsMonth(m, Tables[m])
             /\ SteadiestIsOfAll(m, Tables[m], Compute, Candidates(m, Tables))
             /\ SomebodyBeatTheDay(m, Tables[m], Candidates(m, Tables))
  BY BestWeekState, SteadiestState, BeatState
<1>3. ASSUME NEW m \in Months PROVE AwardsAreHeld(Candidates(m, Tables))
  <2> DEFINE holders == Candidates(m, Tables)
  <2>1. DOMAIN holders = 1..6
    BY DEF Candidates
  <2> HIDE DEF holders
  <2>2. AwardsAreHeld(holders)
    BY <2>1, AwardsState
  <2> QED BY <2>2 DEF holders
<1> QED BY <1>1, <1>2, <1>3 DEF PastAgrees

LEMMA PathsAgreeState == TypeOK /\ HistoriesAreFunctions => PathsAgree
BY RecentIsTheMonthState, BestRunIsLongestState, FormIsBaselineState, StoriesAgreeState, PastAgreesState
   DEF PathsAgree

\* What two rules tell is told the same by both, in every reachable state: the last days and
\* the month, the best run and the streak, form and its baseline, the board and its callouts,
\* the season, the records and the awards.
THEOREM PathsAgreeHolds == Spec => []PathsAgree
<1>1. Spec => []HistoriesAreFunctions
  BY HistoriesStayFunctions, TypeCorrect, PTL DEF Spec
<1> QED BY <1>1, TypeCorrect, PathsAgreeState, PTL
=============================================================================
