-------------------------------- MODULE Sums --------------------------------
(***************************************************************************)
(* The lemmas about numbers that the proofs share: least numbers,          *)
(* induction over the subsets of a finite set, and what MapThenSumSet of   *)
(* FiniteSetsExt returns.  It adds numbers up in the order of CHOOSE; the  *)
(* sum does not depend on that order, being the number of units the        *)
(* numbers have together.  So sums are compared by pairing their units     *)
(* off, by groups, or by induction over the sets they are of.              *)
(* MapThenSumSet takes an operator, so these lemmas are about the function *)
(* it computes with, and each use expands it.                              *)
(***************************************************************************)
EXTENDS Integers, FiniteSets, Functions, FiniteSetTheorems, TLAPS

\* A set of natural numbers has a least one: there is no infinite descent among
\* finite intervals, ordered by inclusion.
LEMMA LeastNatural ==
    ASSUME NEW T, T \subseteq Nat, T # {}
    PROVE  \E x \in T : \A y \in T : x <= y
<1> DEFINE Below == {1..n : n \in T}
<1>1. Below \subseteq FiniteSubsetsOf(Nat) /\ Below # {}
  <2>1. \A n \in T : IsFiniteSet(1..n) /\ 1..n \in SUBSET Nat
    BY FS_Interval
  <2>2. Below # {}
    OBVIOUS
  <2>3. QED BY <2>1, <2>2 DEF FiniteSubsetsOf
<1>2. PICK b \in Below : \A c \in Below : ~(<<c, b>> \in StrictSubsetOrdering(Nat))
  <2> HIDE DEF Below
  <2>1. QED BY <1>1, WFMin, FS_StrictSubsetOrderingWellFounded
<1>3. PICK x \in T : b = 1..x
  OBVIOUS
<1>4. ASSUME NEW y \in T, ~(x <= y)
      PROVE  FALSE
  <2>1. 1..y \subseteq 1..x /\ 1..y # 1..x
    <3>1. x \in 1..x /\ x \notin 1..y
      BY <1>4
    <3>2. QED BY <1>4, <3>1
  <2>2. 1..y \in Below /\ 1..y \in SUBSET Nat /\ 1..x \in SUBSET Nat
    OBVIOUS
  <2> HIDE DEF Below
  <2>3. <<1..y, 1..x>> \notin StrictSubsetOrdering(Nat)
    BY <1>2, <1>3, <2>2
  <2>4. <<1..y, 1..x>> \in (SUBSET Nat) \X (SUBSET Nat)
    BY <2>2
  <2>5. QED BY <2>1, <2>3, <2>4 DEF StrictSubsetOrdering
<1>5. QED BY <1>3, <1>4

\* What holds of the empty set and of each set that it holds of without one of
\* its elements, holds of every finite set.
LEMMA SubsetsAreGood ==
    ASSUME NEW S, IsFiniteSet(S), NEW Good, {} \in Good,
           \A s \in SUBSET S :
              s # {} /\ (\A e \in s : s \ {e} \in Good) => s \in Good
    PROVE  SUBSET S \subseteq Good
<1> DEFINE Bad == (SUBSET S) \ Good
<1>1. ASSUME Bad # {}
      PROVE  FALSE
  <2>1. Bad \subseteq FiniteSubsetsOf(S)
    BY FS_Subset DEF FiniteSubsetsOf
  <2>2. PICK b \in Bad : \A c \in Bad : ~(<<c, b>> \in StrictSubsetOrdering(S))
    <3> HIDE DEF Bad
    <3>1. QED BY <1>1, <2>1, WFMin, FS_StrictSubsetOrderingWellFounded
  <2>3. b \in SUBSET S /\ b # {}
    OBVIOUS
  <2>4. PICK e \in b : b \ {e} \in Bad
    BY <2>3
  <2>5. b \ {e} \subseteq b /\ b \ {e} # b
    OBVIOUS
  <2>6. <<b \ {e}, b>> \in (SUBSET S) \X (SUBSET S)
    BY <2>3, <2>5
  <2>7. QED BY <2>2, <2>4, <2>5, <2>6 DEF StrictSubsetOrdering
<1>2. QED BY <1>1

\* `sum` adds up the numbers of the elements, in the order of CHOOSE.
AddsUp(sum, number, S) ==
    sum = [s \in SUBSET S |->
             IF s = {} THEN 0
             ELSE number[CHOOSE e \in s : TRUE] + sum[s \ {CHOOSE e \in s : TRUE}]]

\* As many units as the numbers add up to: they do not depend on the order.
Units(number, s) == {u \in s \X Nat : u[2] \in 1..number[u[1]]}

LEMMA UnitsOfOneMore ==
    ASSUME NEW number, NEW s, NEW e \in s, number[e] \in Nat, IsFiniteSet(Units(number, s \ {e}))
    PROVE  /\ IsFiniteSet(Units(number, s))
           /\ Cardinality(Units(number, s)) = number[e] + Cardinality(Units(number, s \ {e}))
<1> DEFINE own == {e} \X (1..number[e])
           others == Units(number, s \ {e})
<1>1. IsFiniteSet(own) /\ Cardinality(own) = number[e]
  <2>1. IsFiniteSet({e}) /\ Cardinality({e}) = 1
    BY FS_Singleton
  <2>2. IsFiniteSet(1..number[e]) /\ Cardinality(1..number[e]) = number[e]
    BY FS_Interval
  <2>3. IsFiniteSet(own) /\ Cardinality(own) = Cardinality({e}) * Cardinality(1..number[e])
    BY <2>1, <2>2, FS_Product
  <2>4. QED BY <2>1, <2>2, <2>3
<1>2. Units(number, s) = own \cup others /\ own \cap others = {}
  BY DEF Units
<1> HIDE DEF own, others
<1>3. /\ IsFiniteSet(own \cup others)
      /\ Cardinality(own \cup others)
            = Cardinality(own) + Cardinality(others) - Cardinality(own \cap others)
  BY <1>1, FS_Union DEF others
<1>4. Cardinality(own \cap others) = 0 /\ Cardinality(others) \in Nat
  BY <1>2, FS_EmptySet, FS_CardinalityType DEF others
<1>5. QED BY <1>1, <1>2, <1>3, <1>4 DEF others

LEMMA UnitsAreFinite ==
    ASSUME NEW S, IsFiniteSet(S), NEW number, \A e \in S : number[e] \in Nat
    PROVE  /\ \A s \in SUBSET S : /\ IsFiniteSet(Units(number, s))
                                  /\ Cardinality(Units(number, s)) \in Nat
           /\ Cardinality(Units(number, {})) = 0
           /\ \A s \in SUBSET S : \A e \in s :
                 Cardinality(Units(number, s))
                    = number[e] + Cardinality(Units(number, s \ {e}))
<1> DEFINE Good == {s \in SUBSET S : IsFiniteSet(Units(number, s))}
<1>1. Units(number, {}) = {}
  BY DEF Units
<1>2. SUBSET S \subseteq Good
  <2>1. {} \in Good
    BY <1>1, FS_EmptySet
  <2>2. ASSUME NEW s \in SUBSET S, s # {}, \A e \in s : s \ {e} \in Good
        PROVE  s \in Good
    <3>1. PICK e \in s : TRUE
      BY <2>2
    <3>2. IsFiniteSet(Units(number, s \ {e})) /\ number[e] \in Nat
      BY <2>2, <3>1
    <3>3. QED BY <3>1, <3>2, UnitsOfOneMore
  <2> HIDE DEF Good
  <2>3. QED BY <2>1, <2>2, SubsetsAreGood
<1>3. \A s \in SUBSET S : IsFiniteSet(Units(number, s)) /\ Cardinality(Units(number, s)) \in Nat
  BY <1>2, FS_CardinalityType
<1>4. ASSUME NEW s \in SUBSET S, NEW e \in s
      PROVE  Cardinality(Units(number, s)) = number[e] + Cardinality(Units(number, s \ {e}))
  <2>1. number[e] \in Nat /\ IsFiniteSet(Units(number, s \ {e}))
    BY <1>3
  <2>2. QED BY <2>1, UnitsOfOneMore
<1>5. QED BY <1>1, <1>3, <1>4, FS_EmptySet

\* So the sum is there, and it is the number of units.
LEMMA SumsAreUnits ==
    ASSUME NEW S, IsFiniteSet(S), NEW number, \A e \in S : number[e] \in Nat
    PROVE  /\ \E sum : AddsUp(sum, number, S)
           /\ \A sum : AddsUp(sum, number, S) => sum[S] = Cardinality(Units(number, S))
<1> DEFINE size(s) == Cardinality(Units(number, s))
<1>1. /\ size({}) = 0
      /\ \A s \in SUBSET S : \A e \in s : size(s) = number[e] + size(s \ {e})
  BY UnitsAreFinite
<1> HIDE DEF size
<1>2. ASSUME NEW s \in SUBSET S, s # {}
      PROVE  /\ (CHOOSE e \in s : TRUE) \in s
             /\ s \ {CHOOSE e \in s : TRUE} \in SUBSET S
             /\ size(s) = number[CHOOSE e \in s : TRUE] + size(s \ {CHOOSE e \in s : TRUE})
  <2>1. (CHOOSE e \in s : TRUE) \in s
    BY <1>2
  <2>2. QED BY <1>1, <2>1
<1>3. AddsUp([s \in SUBSET S |-> size(s)], number, S)
  BY <1>1, <1>2 DEF AddsUp
<1>4. ASSUME NEW sum, AddsUp(sum, number, S)
      PROVE  sum[S] = size(S)
  <2> DEFINE Good == {s \in SUBSET S : sum[s] = size(s)}
  <2>1. {} \in Good
    BY <1>1, <1>4 DEF AddsUp
  <2>2. ASSUME NEW s \in SUBSET S, s # {}, \A e \in s : s \ {e} \in Good
        PROVE  s \in Good
    <3>1. sum[s] = number[CHOOSE e \in s : TRUE] + sum[s \ {CHOOSE e \in s : TRUE}]
      BY <1>4, <2>2 DEF AddsUp
    <3>2. QED BY <1>2, <2>2, <3>1
  <2> HIDE DEF Good
  <2>3. SUBSET S \subseteq Good
    BY <2>1, <2>2, SubsetsAreGood
  <2>4. QED BY <2>3 DEF Good
<1>5. QED BY <1>3, <1>4 DEF size

\* A sum over a set is the sum of the sums over its groups.
Grouped(S, number, G, group, total) ==
    /\ \A e \in S : number[e] \in Nat /\ group[e] \in G
    /\ \A g \in G : total[g] = Cardinality(Units(number, {e \in S : group[e] = g}))

LEMMA SumsByGroup ==
    ASSUME NEW S, IsFiniteSet(S), NEW G, IsFiniteSet(G),
           NEW number, NEW group, NEW total, Grouped(S, number, G, group, total)
    PROVE  /\ \A g \in G : total[g] \in Nat
           /\ Cardinality(Units(number, S)) = Cardinality(Units(total, G))
<1> USE DEF Grouped
<1> DEFINE of(H) == {e \in S : group[e] \in H}
           Good == {H \in SUBSET G : Cardinality(Units(number, of(H))) = Cardinality(Units(total, H))}
<1>1. \A H : of(H) \in SUBSET S
  OBVIOUS
<1>2. \A s \in SUBSET S : /\ IsFiniteSet(Units(number, s))
                          /\ Cardinality(Units(number, s)) \in Nat
  BY UnitsAreFinite
<1>3. \A g \in G : of({g}) = {e \in S : group[e] = g} /\ total[g] = Cardinality(Units(number, of({g})))
  OBVIOUS
<1>4. \A g \in G : total[g] \in Nat
  BY <1>1, <1>2, <1>3
<1>5. {} \in Good
  <2>1. of({}) = {}
    OBVIOUS
  <2>2. Cardinality(Units(number, {})) = 0 /\ Cardinality(Units(total, {})) = 0
    BY <1>4, UnitsAreFinite
  <2>3. QED BY <2>1, <2>2
<1>6. ASSUME NEW H \in SUBSET G, H # {}, \A g \in H : H \ {g} \in Good
      PROVE  H \in Good
  <2>1. PICK g \in H : TRUE
    BY <1>6
  <2> DEFINE its == Units(number, of({g}))
             others == Units(number, of(H \ {g}))
  <2>2. Units(number, of(H)) = its \cup others /\ its \cap others = {}
    BY <2>1 DEF Units
  <2>3. /\ IsFiniteSet(its) /\ IsFiniteSet(others)
        /\ Cardinality(its) \in Nat /\ Cardinality(others) \in Nat
    BY <1>1, <1>2
  <2>4. Cardinality(its) = total[g] /\ Cardinality(others) = Cardinality(Units(total, H \ {g}))
    BY <1>3, <1>6, <2>1
  <2>5. Cardinality(Units(total, H)) = total[g] + Cardinality(Units(total, H \ {g}))
    BY <1>4, <2>1, UnitsAreFinite
  <2> HIDE DEF its, others
  <2>6. Cardinality(its \cup others)
           = Cardinality(its) + Cardinality(others) - Cardinality(its \cap others)
    BY <2>3, FS_Union
  <2>7. Cardinality(its \cap others) = 0
    BY <2>2, FS_EmptySet
  <2>8. Cardinality(Units(number, of(H))) = Cardinality(Units(total, H))
    <3> HIDE DEF of
    <3>1. QED BY <2>2, <2>3, <2>4, <2>5, <2>6, <2>7
  <2>9. QED BY <2>8
<1>7. SUBSET G \subseteq Good
  <2> HIDE DEF Good
  <2>1. QED BY <1>5, <1>6, SubsetsAreGood
<1>8. of(G) = S
  OBVIOUS
<1>9. QED BY <1>4, <1>7, <1>8

=============================================================================
