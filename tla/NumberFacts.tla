---------------------------- MODULE NumberFacts ----------------------------
EXTENDS Integers, FiniteSetsExt, FiniteSetTheorems, WellFoundedInduction, TLAPS

(***************************************************************************)
(* Min and Max are what their names say: the least number of a set of      *)
(* naturals, the greatest of a bounded one.                                *)
(***************************************************************************)
LEMMA LeastNat ==
    ASSUME NEW S \in SUBSET Nat, S # {}
    PROVE  Min(S) \in S /\ \A y \in S : Min(S) <= y
<1>1. \E x \in S : \A y \in S : ~(<<y, x>> \in OpToRel(<, Nat))
  BY NatLessThanWellFounded, WFMin, Zenon
<1>2. \A x, y \in Nat : y < x => <<y, x>> \in OpToRel(<, Nat)
  <2> TAKE x, y \in Nat
  <2> HAVE y < x
  <2>1. <<y, x>> \in {ss \in Nat \X Nat : ss[1] < ss[2]}
    OBVIOUS
  <2>2. OpToRel(<, Nat) = {ss \in Nat \X Nat : ss[1] < ss[2]}
    BY Zenon DEF OpToRel
  <2> QED
    BY <2>1, <2>2, Zenon
<1>3. \E x \in S : \A y \in S : ~(y < x)
  BY <1>1, <1>2, Zenon
<1>4. \E x \in S : \A y \in S : x <= y
  BY <1>3
<1> QED
  BY <1>4 DEF Min

LEMMA GreatestBelow ==
    ASSUME NEW n \in Nat, NEW S \in SUBSET (0..n), S # {}
    PROVE  Max(S) \in S /\ \A y \in S : Max(S) >= y
<1> DEFINE T == {n - x : x \in S}
<1>1. \A x \in S : x \in 0..n /\ n - x \in Nat
  OBVIOUS
<1>2. T \in SUBSET Nat /\ T # {}
  BY <1>1
<1>3. Min(T) \in T /\ \A y \in T : Min(T) <= y
  BY <1>2, LeastNat
<1>4. PICK x \in S : Min(T) = n - x
  BY <1>3
<1>5. \A y \in S : n - x <= n - y
  BY <1>3, <1>4
<1>6. \A y \in S : x >= y
  BY <1>5
<1> QED
  BY <1>6 DEF Max

-----------------------------------------------------------------------------
(***************************************************************************)
(* Sums.  A fold is a recursive function over the subsets of its set; that *)
(* it exists, and what it does with an element more or less, is proved by  *)
(* looking at a smallest set that goes wrong.                              *)
(***************************************************************************)
LEMMA SmallestSet ==
    ASSUME NEW B, IsFiniteSet(B), NEW F \in SUBSET (SUBSET B), F # {}
    PROVE  \E S \in F : \A T \in F : T \subseteq S => T = S
<1> DEFINE sizes == {Cardinality(S) : S \in F}
<1>1. \A S \in F : S \subseteq B /\ IsFiniteSet(S) /\ Cardinality(S) \in Nat
  BY FS_Subset, FS_CardinalityType
<1>2. sizes \in SUBSET Nat /\ sizes # {}
  BY <1>1
<1>3. Min(sizes) \in sizes /\ \A y \in sizes : Min(sizes) <= y
  BY <1>2, LeastNat
<1>4. PICK S \in F : Cardinality(S) = Min(sizes)
  BY <1>3
<1>5. ASSUME NEW T \in F, T \subseteq S PROVE T = S
  <2>1. Cardinality(S) <= Cardinality(T)
    BY <1>3, <1>4
  <2>2. T # S => Cardinality(T) < Cardinality(S)
    BY <1>1, <1>5, FS_Subset
  <2> QED
    BY <1>1, <2>1, <2>2
<1> QED
  BY <1>5

Pick(s) == CHOOSE x \in s : TRUE

\* The recursive definition of a sum of f, over the sets in Q.
SumRule(f, Q, g) ==
    g = [s \in Q |-> IF s = {} THEN 0 ELSE f[Pick(s)] + g[s \ {Pick(s)}]]

LEMMA SumIsRule ==
    ASSUME NEW f, NEW B
    PROVE  SumFunctionOnSet(f, B) = (CHOOSE g : SumRule(f, SUBSET B, g))[B]
BY DEF SumFunctionOnSet, FoldFunctionOnSet, MapThenFoldSet, SumRule, Pick

LEMMA PickIn == \A s : s # {} => Pick(s) \in s
BY DEF Pick

LEMMA SmallerRest ==
    ASSUME NEW s, IsFiniteSet(s), s # {}
    PROVE  /\ IsFiniteSet(s \ {Pick(s)})
           /\ Cardinality(s) \in Nat
           /\ Cardinality(s \ {Pick(s)}) = Cardinality(s) - 1
           /\ Cardinality(s \ {Pick(s)}) \in Nat
BY PickIn, FS_RemoveElement, FS_CardinalityType

LEMMA SumExists ==
    ASSUME NEW f, NEW B, IsFiniteSet(B)
    PROVE  \E g : SumRule(f, SUBSET B, g)
<1> DEFINE Level(n) == {s \in SUBSET B : Cardinality(s) <= n}
           Bad == {n \in Nat : ~ \E g : SumRule(f, Level(n), g)}
<1>0. \A s \in SUBSET B : IsFiniteSet(s) /\ Cardinality(s) \in Nat
  BY FS_Subset, FS_CardinalityType
<1>1. 0 \notin Bad
  <2>1. \A s \in Level(0) : s = {}
    BY <1>0, FS_EmptySet
  <2>2. SumRule(f, Level(0), [s \in Level(0) |-> 0])
    BY <2>1 DEF SumRule
  <2> QED
    BY <2>2
<1>2. ASSUME NEW n \in Nat, NEW g, SumRule(f, Level(n), g)
      PROVE  \E h : SumRule(f, Level(n+1), h)
  <2> DEFINE h == [s \in Level(n+1) |->
                     IF s = {} THEN 0 ELSE f[Pick(s)] + g[s \ {Pick(s)}]]
  <2>1. \A t \in Level(n) : t \in Level(n+1) /\ h[t] = g[t]
    <3>1. \A t \in Level(n) : t \in Level(n+1)
      BY <1>0
    <3>2. \A t \in Level(n) :
             g[t] = IF t = {} THEN 0 ELSE f[Pick(t)] + g[t \ {Pick(t)}]
      BY <1>2 DEF SumRule
    <3> HIDE DEF Level
    <3> QED
      BY <3>1, <3>2
  <2>2. \A s \in Level(n+1) : s # {} => s \ {Pick(s)} \in Level(n)
    BY <1>0, SmallerRest
  <2>3. \A s \in Level(n+1) :
           h[s] = IF s = {} THEN 0 ELSE f[Pick(s)] + h[s \ {Pick(s)}]
    <3> HIDE DEF Level
    <3> QED
      BY <2>1, <2>2
  <2>4. h = [s \in Level(n+1) |->
               IF s = {} THEN 0 ELSE f[Pick(s)] + h[s \ {Pick(s)}]]
    <3> HIDE DEF Level
    <3>1. h = [s \in Level(n+1) |-> h[s]]
      OBVIOUS
    <3> HIDE DEF h
    <3> QED
      BY <2>3, <3>1
  <2> QED
    BY <2>4 DEF SumRule
<1>3. Bad = {}
  <2> SUFFICES ASSUME Bad # {} PROVE FALSE
    OBVIOUS
  <2>1. Bad \in SUBSET Nat
    OBVIOUS
  <2>2. Min(Bad) \in Bad /\ \A y \in Bad : Min(Bad) <= y
    BY <2>1, LeastNat
  <2>3. PICK m : m = Min(Bad)
    OBVIOUS
  <2>4. m \in Nat /\ m \in Bad /\ m # 0 /\ \A y \in Bad : m <= y
    BY <1>1, <2>1, <2>2, <2>3
  <2> HIDE DEF Bad
  <2>5. m - 1 \in Nat /\ m - 1 \notin Bad /\ (m - 1) + 1 = m
    BY <2>4
  <2>6. \E g : SumRule(f, Level(m - 1), g)
    BY <2>5 DEF Bad
  <2> HIDE DEF Level
  <2>7. \E h : SumRule(f, Level(m), h)
    BY <1>2, <2>5, <2>6
  <2> QED
    BY <2>4, <2>7 DEF Bad
<1>4. Cardinality(B) \in Nat /\ Level(Cardinality(B)) = SUBSET B
  BY <1>0, FS_Subset
<1> HIDE DEF Level
<1>5. \E g : SumRule(f, Level(Cardinality(B)), g)
  BY <1>3, <1>4
<1> QED
  BY <1>4, <1>5

LEMMA SumUnique ==
    ASSUME NEW f, NEW B, IsFiniteSet(B), NEW T \in SUBSET B, NEW g, NEW h,
           SumRule(f, SUBSET B, g), SumRule(f, SUBSET T, h)
    PROVE  \A s \in SUBSET T : g[s] = h[s]
<1> DEFINE F == {s \in SUBSET T : g[s] # h[s]}
<1>1. SUFFICES ASSUME F # {} PROVE FALSE
  OBVIOUS
<1>2. IsFiniteSet(T) /\ F \in SUBSET (SUBSET T)
  BY FS_Subset
<1>3. PICK s \in F : \A t \in F : t \subseteq s => t = s
  <2> HIDE DEF F
  <2> QED
    BY <1>1, <1>2, SmallestSet
<1>4. \A r \in SUBSET T :
        /\ g[r] = IF r = {} THEN 0 ELSE f[Pick(r)] + g[r \ {Pick(r)}]
        /\ h[r] = IF r = {} THEN 0 ELSE f[Pick(r)] + h[r \ {Pick(r)}]
  BY DEF SumRule
<1>5. s # {}
  BY <1>3, <1>4
<1>6. s \ {Pick(s)} \in SUBSET T /\ s \ {Pick(s)} \notin F
  BY <1>3, <1>5, PickIn
<1> QED
  BY <1>3, <1>4, <1>5, <1>6

LEMMA SumOfRest ==
    ASSUME NEW f, NEW S, IsFiniteSet(S)
    PROVE  SumFunctionOnSet(f, S) =
             IF S = {} THEN 0 ELSE f[Pick(S)] + SumFunctionOnSet(f, S \ {Pick(S)})
<1> DEFINE rule(B) == CHOOSE g : SumRule(f, SUBSET B, g)
           T == S \ {Pick(S)}
<1>1. IsFiniteSet(T) /\ T \in SUBSET S
  BY FS_Subset
<1>2. SumRule(f, SUBSET S, rule(S)) /\ SumRule(f, SUBSET T, rule(T))
  <2>1. (\E g : SumRule(f, SUBSET S, g)) /\ (\E g : SumRule(f, SUBSET T, g))
    BY <1>1, SumExists
  <2> QED
    BY <2>1
<1>3. SumFunctionOnSet(f, S) = rule(S)[S] /\ SumFunctionOnSet(f, T) = rule(T)[T]
  BY SumIsRule
<1> HIDE DEF rule
<1>4. rule(S)[T] = rule(T)[T]
  <2> HIDE DEF T
  <2>1. \A r \in SUBSET T : rule(S)[r] = rule(T)[r]
    BY <1>1, <1>2, SumUnique
  <2> QED
    BY <2>1
<1>5. rule(S)[S] = IF S = {} THEN 0 ELSE f[Pick(S)] + rule(S)[T]
  BY <1>2 DEF SumRule
<1> QED
  BY <1>3, <1>4, <1>5

LEMMA SumType ==
    ASSUME NEW S, IsFiniteSet(S), NEW f, \A x \in S : f[x] \in Nat
    PROVE  SumFunctionOnSet(f, S) \in Nat
<1> DEFINE F == {T \in SUBSET S : SumFunctionOnSet(f, T) \notin Nat}
<1>1. SUFFICES ASSUME F # {} PROVE FALSE
  OBVIOUS
<1>2. F \in SUBSET (SUBSET S)
  OBVIOUS
<1>3. \E T \in F : \A R \in F : R \subseteq T => R = T
  <2> HIDE DEF F
  <2> QED
    BY <1>1, <1>2, SmallestSet
<1>4. PICK T \in SUBSET S : /\ SumFunctionOnSet(f, T) \notin Nat
                            /\ \A R \in F : R \subseteq T => R = T
  BY <1>3
<1>5. IsFiniteSet(T)
  BY FS_Subset
<1>6. SumFunctionOnSet(f, T) =
        IF T = {} THEN 0 ELSE f[Pick(T)] + SumFunctionOnSet(f, T \ {Pick(T)})
  BY <1>5, SumOfRest
<1>7. T # {} /\ Pick(T) \in T
  BY <1>4, <1>6, PickIn
<1>8. T \ {Pick(T)} \in SUBSET S /\ T \ {Pick(T)} \notin F
  BY <1>4, <1>7
<1>9. SumFunctionOnSet(f, T \ {Pick(T)}) \in Nat /\ f[Pick(T)] \in Nat
  BY <1>7, <1>8
<1> QED
  BY <1>4, <1>6, <1>7, <1>9

LEMMA SumWithout ==
    ASSUME NEW S, IsFiniteSet(S), NEW f, \A x \in S : f[x] \in Nat, NEW x \in S
    PROVE  SumFunctionOnSet(f, S) = f[x] + SumFunctionOnSet(f, S \ {x})
<1> DEFINE Sum(T) == SumFunctionOnSet(f, T)
           F == {T \in SUBSET S : \E y \in T : Sum(T) # f[y] + Sum(T \ {y})}
<1>1. SUFFICES ASSUME F # {} PROVE FALSE
  OBVIOUS
<1>2. \A R \in SUBSET S : IsFiniteSet(R) /\ Sum(R) \in Nat
  BY FS_Subset, SumType
<1>3. F \in SUBSET (SUBSET S)
  OBVIOUS
<1>4. \E T \in F : \A R \in F : R \subseteq T => R = T
  <2> HIDE DEF F
  <2> QED
    BY <1>1, <1>3, SmallestSet
<1>5. PICK T \in SUBSET S : /\ \E y \in T : Sum(T) # f[y] + Sum(T \ {y})
                            /\ \A R \in F : R \subseteq T => R = T
  BY <1>4
<1>6. PICK y \in T : Sum(T) # f[y] + Sum(T \ {y})
  BY <1>5
<1>7. PICK p : p = Pick(T)
  OBVIOUS
<1>8. p \in T /\ Sum(T) = f[p] + Sum(T \ {p})
  BY <1>2, <1>6, <1>7, SumOfRest, PickIn
<1>9. \A R \in SUBSET S : R \subseteq T /\ R # T =>
        \A z \in R : Sum(R) = f[z] + Sum(R \ {z})
  BY <1>5
<1> HIDE DEF Sum, F
<1>10. p # y
  BY <1>6, <1>8
<1>11. Sum(T \ {p}) = f[y] + Sum((T \ {p}) \ {y})
  BY <1>8, <1>9, <1>10
<1>12. Sum(T \ {y}) = f[p] + Sum((T \ {y}) \ {p})
  BY <1>8, <1>9, <1>10
<1>13. (T \ {y}) \ {p} = (T \ {p}) \ {y} /\ (T \ {p}) \ {y} \in SUBSET S
  OBVIOUS
<1>14. f[y] \in Nat /\ f[p] \in Nat /\ Sum((T \ {p}) \ {y}) \in Nat
  BY <1>2, <1>8, <1>13
<1> QED
  BY <1>6, <1>8, <1>11, <1>12, <1>13, <1>14

\* One element more, one element less, and a part of the whole.
LEMMA SumAdd ==
    ASSUME NEW S, IsFiniteSet(S), NEW f, NEW x, x \notin S,
           \A y \in S \cup {x} : f[y] \in Nat
    PROVE  SumFunctionOnSet(f, S \cup {x}) = SumFunctionOnSet(f, S) + f[x]
<1>1. IsFiniteSet(S \cup {x}) /\ (S \cup {x}) \ {x} = S
  BY FS_AddElement
<1>2. SumFunctionOnSet(f, S \cup {x}) = f[x] + SumFunctionOnSet(f, S)
  BY <1>1, SumWithout
<1> QED
  BY <1>2, SumType

LEMMA SumEmpty == \A f : SumFunctionOnSet(f, {}) = 0
BY SumOfRest, FS_EmptySet

LEMMA SumPart ==
    ASSUME NEW S, IsFiniteSet(S), NEW f, \A x \in S : f[x] \in Nat, NEW T \in SUBSET S
    PROVE  SumFunctionOnSet(f, T) <= SumFunctionOnSet(f, S)
<1> DEFINE Sum(R) == SumFunctionOnSet(f, R)
           F == {R \in SUBSET S : T \subseteq R /\ ~(Sum(T) <= Sum(R))}
<1>1. SUFFICES ASSUME F # {} PROVE FALSE
  OBVIOUS
<1>2. \A R \in SUBSET S : IsFiniteSet(R) /\ Sum(R) \in Nat
  BY FS_Subset, SumType
<1>3. F \in SUBSET (SUBSET S)
  OBVIOUS
<1>4. \E R \in F : \A Q \in F : Q \subseteq R => Q = R
  <2> HIDE DEF F
  <2> QED
    BY <1>1, <1>3, SmallestSet
<1>5. PICK R \in SUBSET S : /\ T \subseteq R /\ ~(Sum(T) <= Sum(R))
                            /\ \A Q \in F : Q \subseteq R => Q = R
  BY <1>4
<1>6. PICK x \in R : x \notin T
  <2>1. R # T
    BY <1>2, <1>5
  <2> QED
    BY <1>5, <2>1
<1>7. Sum(R) = f[x] + Sum(R \ {x})
  BY <1>2, SumWithout
<1>8. Sum(T) <= Sum(R \ {x})
  BY <1>5, <1>6
<1> HIDE DEF Sum
<1> QED
  BY <1>2, <1>5, <1>7, <1>8

LEMMA SumSame ==
    ASSUME NEW S, IsFiniteSet(S), NEW f, NEW g, \A x \in S : f[x] = g[x]
    PROVE  SumFunctionOnSet(f, S) = SumFunctionOnSet(g, S)
<1> DEFINE F == {T \in SUBSET S : SumFunctionOnSet(f, T) # SumFunctionOnSet(g, T)}
<1>1. SUFFICES ASSUME F # {} PROVE FALSE
  OBVIOUS
<1>2. F \in SUBSET (SUBSET S)
  OBVIOUS
<1>3. \E T \in F : \A R \in F : R \subseteq T => R = T
  <2> HIDE DEF F
  <2> QED
    BY <1>1, <1>2, SmallestSet
<1>4. PICK T \in SUBSET S : /\ SumFunctionOnSet(f, T) # SumFunctionOnSet(g, T)
                            /\ \A R \in F : R \subseteq T => R = T
  BY <1>3
<1>5. /\ SumFunctionOnSet(f, T) =
           IF T = {} THEN 0 ELSE f[Pick(T)] + SumFunctionOnSet(f, T \ {Pick(T)})
      /\ SumFunctionOnSet(g, T) =
           IF T = {} THEN 0 ELSE g[Pick(T)] + SumFunctionOnSet(g, T \ {Pick(T)})
  BY FS_Subset, SumOfRest
<1>6. T # {} /\ Pick(T) \in T
  BY <1>4, <1>5, PickIn
<1>7. T \ {Pick(T)} \in SUBSET S /\ T \ {Pick(T)} \notin F
  BY <1>4, <1>6
<1> QED
  BY <1>4, <1>5, <1>6, <1>7

-----------------------------------------------------------------------------
(***************************************************************************)
(* Multiples of a number.                                                  *)
(***************************************************************************)
LEMMA TimesGrows ==
    ASSUME NEW a \in Nat, NEW b \in Nat, NEW d \in Nat, a <= b
    PROVE  a * d <= b * d
<1>1. \A x \in Nat, y \in Nat : x * y \in Nat
  OBVIOUS
<1>2. b * d = a * d + (b - a) * d
  OBVIOUS
<1>3. b - a \in Nat
  OBVIOUS
<1> QED
  BY <1>1, <1>2, <1>3

LEMMA Quotient ==
    ASSUME NEW n \in Nat, NEW d \in Nat \ {0}
    PROVE  n \div d \in Nat /\ n % d \in 0..d-1 /\ n = ((n \div d) * d) + (n % d)
OBVIOUS

\* Counting up by one from between two multiples meets the upper one exactly
\* when the count is a multiple.
LEMMA NextMultiple ==
    ASSUME NEW d \in Nat \ {0}, NEW k \in Nat, NEW n \in Nat,
           k * d <= n, n < (k + 1) * d
    PROVE  /\ (n + 1) % d = 0 => n + 1 = (k + 1) * d
           /\ (n + 1) % d # 0 => n + 1 < (k + 1) * d
<1>1. PICK q \in Nat : q = (n + 1) \div d
  BY Quotient
<1>2. n + 1 = (q * d) + ((n + 1) % d) /\ (n + 1) % d \in 0..d-1
  BY <1>1, Quotient
<1>3. k * d \in Nat /\ (k + 1) * d = k * d + d /\ q * d \in Nat
  OBVIOUS
<1>4. q <= k => q * d <= k * d
  BY TimesGrows
<1>5. q >= k + 1 => (k + 1) * d <= q * d
  BY TimesGrows
<1>6. q = k + 1 => q * d = (k + 1) * d
  OBVIOUS
<1>7. q >= k + 2 => (k + 2) * d <= q * d
  BY TimesGrows
<1>8. (k + 2) * d = k * d + d + d
  OBVIOUS
<1> QED
  BY <1>2, <1>3, <1>4, <1>5, <1>6, <1>7, <1>8
=============================================================================
