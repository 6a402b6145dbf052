---------------------------- MODULE FilterProofs ----------------------------
(***************************************************************************)
(* Proofs about the filter language, for every width of its numbers, every *)
(* trace that loading can produce and every height of expressions:         *)
(*   - comparing two numbers is exact and a total order;                   *)
(*   - the functions on trees (Subtrees, CheckType, Eval) are what their   *)
(*     recursive definitions say, and induction over trees is sound;       *)
(*   - what was checked has a value of its type, is missing, or fails for  *)
(*     a range without a bound;                                            *)
(*   - so the pipeline never scans a filter that can fail otherwise, its   *)
(*     comparisons are exact, and what it applies is what was written if   *)
(*     its parser and its plan are right.                                  *)
(***************************************************************************)
EXTENDS FilterPipeline, NumberFacts

-----------------------------------------------------------------------------
(* Numbers. *)

Numbers == Ints \cup Floats

LEMMA IntShape ==
    ASSUME NEW v \in Ints
    PROVE  v.t = "Int" /\ v.n \in MinInt..MaxInt /\ v.n \in Int /\ Halves(v) = 2 * v.n
BY NumbersAssumption DEF NumbersAssumption, Ints, IntNum, Halves, MinInt

LEMMA FloatShape ==
    ASSUME NEW v \in Floats
    PROVE  v.t = "Float" /\ v.h \in -MaxHalves..MaxHalves /\ v.h \in Int /\ Halves(v) = v.h
BY NumbersAssumption DEF NumbersAssumption, Floats, FloatNum, Halves

\* `trunc` goes towards zero and leaves less than one: a fraction has the
\* sign of its number.
LEMMA TruncBounds ==
    ASSUME NEW h \in Int
    PROVE  /\ Trunc(h) \in Int
           /\ h >= 0 => 2 * Trunc(h) <= h /\ h <= 2 * Trunc(h) + 1
           /\ h < 0  => 2 * Trunc(h) >= h /\ h >= 2 * Trunc(h) - 1
BY DEF Trunc

\* The early answers are those of floats beyond every integer; the split into
\* whole and fractional part decides the rest.
LEMMA IntFloatExact ==
    ASSUME NEW n \in MinInt..MaxInt, NEW h \in Int
    PROVE  CmpIntFloat(n, h) = Sign(2 * n - h)
<1>0. MaxInt \in Nat /\ MinInt \in Int /\ n \in Int /\ MinInt = -MaxInt - 1
      /\ MinInt <= n /\ n <= MaxInt
  BY NumbersAssumption DEF NumbersAssumption, MinInt
<1> DEFINE k == Trunc(h)
<1>1. /\ k \in Int
      /\ h >= 0 => 2 * k <= h /\ h <= 2 * k + 1
      /\ h < 0  => 2 * k >= h /\ h >= 2 * k - 1
  BY TruncBounds
<1>2. CASE h >= 2 * (MaxInt + 1)
  <2>1. 2 * n - h < 0
    BY <1>0, <1>2
  <2> QED BY <1>0, <1>2, <2>1 DEF CmpIntFloat, Sign
<1>3. CASE h < 2 * MinInt
  <2>1. 2 * n - h > 0 /\ ~(h >= 2 * (MaxInt + 1))
    BY <1>0, <1>3
  <2> QED BY <1>0, <1>3, <2>1 DEF CmpIntFloat, Sign
<1>4. CASE ~(h >= 2 * (MaxInt + 1)) /\ ~(h < 2 * MinInt) /\ n # k
  <2>1. CmpIntFloat(n, h) = Sign(n - k)
    BY <1>4 DEF CmpIntFloat
  <2>2. CASE n < k
    \* a whole step below: the fraction of h cannot make up for it
    <3>1. 2 * n - h < 0 /\ n - k < 0
      BY <1>0, <1>1, <2>2
    <3> QED BY <1>0, <1>1, <2>1, <3>1 DEF Sign
  <2>3. CASE n > k
    <3>1. 2 * n - h > 0 /\ n - k > 0
      BY <1>0, <1>1, <2>3
    <3> QED BY <1>0, <1>1, <2>1, <3>1 DEF Sign
  <2> QED BY <1>0, <1>1, <1>4, <2>2, <2>3
<1>5. CASE ~(h >= 2 * (MaxInt + 1)) /\ ~(h < 2 * MinInt) /\ n = k
  <2>1. CmpIntFloat(n, h) = -Sign(h - 2 * k)
    BY <1>5 DEF CmpIntFloat
  <2>2. -Sign(h - 2 * k) = Sign(2 * k - h)
    BY <1>1 DEF Sign
  <2> QED BY <1>5, <2>1, <2>2
<1> QED BY <1>2, <1>3, <1>4, <1>5

(***************************************************************************)
(* cmp_num compares by the places of the numbers on the number line:       *)
(* neither side is ever rounded to the other's representation (ANL-012).   *)
(***************************************************************************)
THEOREM ComparisonExact ==
    ASSUME NEW a \in Numbers, NEW b \in Numbers
    PROVE  CmpNum(a, b) = Sign(Halves(a) - Halves(b))
<1>1. CASE a \in Ints /\ b \in Ints
  <2>1. CmpNum(a, b) = Sign(a.n - b.n)
    BY <1>1, IntShape DEF CmpNum
  <2>2. Sign(a.n - b.n) = Sign(2 * a.n - 2 * b.n)
    BY <1>1, IntShape DEF Sign
  <2> QED BY <1>1, <2>1, <2>2, IntShape
<1>2. CASE a \in Floats /\ b \in Floats
  BY <1>2, FloatShape DEF CmpNum
<1>3. CASE a \in Ints /\ b \in Floats
  <2>1. CmpNum(a, b) = CmpIntFloat(a.n, b.h)
    BY <1>3, IntShape, FloatShape DEF CmpNum
  <2>2. CmpIntFloat(a.n, b.h) = Sign(2 * a.n - b.h)
    BY <1>3, IntShape, FloatShape, IntFloatExact
  <2> QED BY <1>3, <2>1, <2>2, IntShape, FloatShape
<1>4. CASE a \in Floats /\ b \in Ints
  <2>1. CmpNum(a, b) = -CmpIntFloat(b.n, a.h)
    BY <1>4, IntShape, FloatShape DEF CmpNum
  <2>2. CmpIntFloat(b.n, a.h) = Sign(2 * b.n - a.h)
    BY <1>4, IntShape, FloatShape, IntFloatExact
  <2>3. -Sign(2 * b.n - a.h) = Sign(a.h - 2 * b.n)
    BY <1>4, IntShape, FloatShape DEF Sign
  <2> QED BY <1>4, <2>1, <2>2, <2>3, IntShape, FloatShape
<1> QED BY <1>1, <1>2, <1>3, <1>4 DEF Numbers

(***************************************************************************)
(* So mixing integers and floats in one filter cannot make its comparisons *)
(* contradict each other: they are one total order, in which swapping the  *)
(* sides swaps the answer.                                                 *)
(***************************************************************************)
THEOREM ComparisonIsOrder ==
    ASSUME NEW a \in Numbers, NEW b \in Numbers, NEW c \in Numbers
    PROVE  /\ CmpNum(b, a) = -CmpNum(a, b)
           /\ CmpNum(a, b) <= 0 /\ CmpNum(b, c) <= 0 => CmpNum(a, c) <= 0
           /\ CmpNum(a, b) < 0 /\ CmpNum(b, c) <= 0 => CmpNum(a, c) < 0
<1>1. Halves(a) \in Int /\ Halves(b) \in Int /\ Halves(c) \in Int
  BY IntShape, FloatShape DEF Numbers
<1>2. /\ CmpNum(a, b) = Sign(Halves(a) - Halves(b))
      /\ CmpNum(b, a) = Sign(Halves(b) - Halves(a))
      /\ CmpNum(b, c) = Sign(Halves(b) - Halves(c))
      /\ CmpNum(a, c) = Sign(Halves(a) - Halves(c))
  BY ComparisonExact
<1> QED BY <1>1, <1>2 DEF Sign

(***************************************************************************)
(* An operation on representable numbers yields one, or nothing: never a   *)
(* wrapped integer.  Two integers give the exact sum or difference.        *)
(* (arith and its checked_add, checked_sub.)                               *)
(***************************************************************************)
THEOREM ArithmeticChecked ==
    ASSUME NEW a \in Numbers, NEW b \in Numbers, NEW sub \in BOOLEAN
    PROVE  /\ Arith(a, b, sub) \in Numbers \cup {Missing}
           /\ a \in Ints /\ b \in Ints /\ Arith(a, b, sub) # Missing =>
                Arith(a, b, sub) = IntNum(IF sub THEN a.n - b.n ELSE a.n + b.n)
<1>1. ASSUME NEW n \in Int
      PROVE  Checked(n) \in Ints \cup {Missing} /\ (Checked(n) # Missing => Checked(n) = IntNum(n))
  BY <1>1 DEF Checked, Ints
<1>2. ASSUME NEW h \in Int PROVE Finite(h) \in Floats \cup {Missing}
  BY <1>2 DEF Finite, Floats
<1>3. Widen(a) \in Int /\ Widen(b) \in Int
  BY IntShape, FloatShape DEF Widen, Numbers
<1>4. CASE a \in Ints /\ b \in Ints
  <2> DEFINE n == IF sub THEN a.n - b.n ELSE a.n + b.n
  <2>1. n \in Int
    BY <1>4, IntShape
  <2>2. Arith(a, b, sub) = Checked(n)
    BY <1>4, IntShape DEF Arith
  <2> HIDE DEF n
  <2>3. Checked(n) \in Ints \cup {Missing} /\ (Checked(n) # Missing => Checked(n) = IntNum(n))
    BY <1>1, <2>1
  <2> QED BY <2>2, <2>3 DEF Numbers, n
<1>5. CASE ~(a \in Ints /\ b \in Ints)
  <2> DEFINE h == IF sub THEN Widen(a) - Widen(b) ELSE Widen(a) + Widen(b)
  <2>1. h \in Int
    BY <1>3
  <2>2. Arith(a, b, sub) = Finite(h)
    BY <1>5, IntShape, FloatShape DEF Arith, Numbers
  <2> HIDE DEF h
  <2>3. Finite(h) \in Floats \cup {Missing}
    BY <1>2, <2>1
  <2> QED BY <1>5, <2>2, <2>3 DEF Numbers
<1> QED BY <1>4, <1>5

-----------------------------------------------------------------------------
(* Trees, and induction over them. *)

\* Induction over the naturals, for a set of them.
LEMMA NatSetInduction ==
    ASSUME NEW S, 0 \in S, \A n \in Nat : n \in S => n + 1 \in S
    PROVE  \A n \in Nat : n \in S
<1> DEFINE Out == {n \in Nat : n \notin S}
<1> SUFFICES ASSUME Out # {} PROVE FALSE
  OBVIOUS
<1>1. Out \in SUBSET Nat
  OBVIOUS
<1>2. Min(Out) \in Out /\ \A y \in Out : Min(Out) <= y
  BY <1>1, LeastNat
<1>3. PICK m : m = Min(Out)
  OBVIOUS
<1>4. m \in Nat /\ m \notin S /\ \A y \in Out : m <= y
  BY <1>2, <1>3
<1>5. m # 0 /\ m - 1 \in Nat /\ ~(m <= m - 1)
  BY <1>4
<1>6. m - 1 \in S
  BY <1>4, <1>5
<1>7. (m - 1) + 1 = m
  BY <1>4
<1> QED  BY <1>4, <1>5, <1>6, <1>7

-----------------------------------------------------------------------------
\* The recursive definition of TreesUpTo, to height n.
HeightRule(n, g) ==
    g = [height \in 0..n |->
            IF height = 0 THEN Leaves ELSE Leaves \cup Over(g[height - 1])]

LEMMA HeightExists == \A n \in Nat : \E g : HeightRule(n, g)
<1> DEFINE S == {n \in Nat : \E g : HeightRule(n, g)}
<1>1. 0 \in S
  <2>1. HeightRule(0, [height \in 0..0 |-> Leaves])
    BY DEF HeightRule
  <2> QED  BY <2>1
<1>2. ASSUME NEW n \in Nat, n \in S PROVE n + 1 \in S
  <2>1. PICK g : HeightRule(n, g)
    BY <1>2
  <2>2. \A i \in 0..n : g[i] = IF i = 0 THEN Leaves ELSE Leaves \cup Over(g[i - 1])
    BY <2>1 DEF HeightRule
  <2> DEFINE h == [i \in 0..n+1 |-> IF i = 0 THEN Leaves ELSE Leaves \cup Over(g[i - 1])]
  <2>3. \A i \in 0..n : h[i] = g[i]
    <3>1. \A i \in 0..n : i \in 0..n+1
      OBVIOUS
    <3>2. \A i \in 0..n : h[i] = IF i = 0 THEN Leaves ELSE Leaves \cup Over(g[i - 1])
      BY <3>1
    <3> HIDE DEF h
    <3> QED  BY <2>2, <3>2, Zenon
  <2>4. \A i \in 0..n+1 : i # 0 => i - 1 \in 0..n
    OBVIOUS
  <2>5. h = [i \in 0..n+1 |-> IF i = 0 THEN Leaves ELSE Leaves \cup Over(h[i - 1])]
    BY <2>3, <2>4
  <2>6. HeightRule(n + 1, h)
    <3> HIDE DEF h
    <3> QED  BY <2>5 DEF HeightRule
  <2> QED  BY <2>6
<1> HIDE DEF S
<1>3. \A n \in Nat : n \in S
  BY <1>1, <1>2, NatSetInduction
<1> QED  BY <1>3 DEF S

LEMMA TreesByHeight ==
    /\ Depth \in Nat
    /\ TreesUpTo[0] = Leaves
    /\ \A n \in Nat : n + 1 <= Depth => TreesUpTo[n + 1] = Leaves \cup Over(TreesUpTo[n])
<1>1. Depth \in Nat
  BY TreesAssumption DEF TreesAssumption
<1>2. TreesUpTo = CHOOSE g : HeightRule(Depth, g)
  BY DEF TreesUpTo, HeightRule
<1>3. HeightRule(Depth, TreesUpTo)
  BY <1>1, <1>2, HeightExists
<1>4. \A i \in 0..Depth :
        TreesUpTo[i] = IF i = 0 THEN Leaves ELSE Leaves \cup Over(TreesUpTo[i - 1])
  <2> PICK g : g = TreesUpTo
    OBVIOUS
  <2>1. HeightRule(Depth, g)
    BY <1>3
  <2>2. \A i \in 0..Depth : g[i] = IF i = 0 THEN Leaves ELSE Leaves \cup Over(g[i - 1])
    BY <2>1 DEF HeightRule
  <2> QED  BY <2>2
<1>5. ASSUME NEW n \in Nat, n + 1 <= Depth
      PROVE  TreesUpTo[n + 1] = Leaves \cup Over(TreesUpTo[n])
  <2>1. n + 1 \in 0..Depth /\ n + 1 # 0 /\ (n + 1) - 1 = n
    BY <1>1, <1>5
  <2> QED  BY <1>4, <2>1
<1>6. TreesUpTo[0] = Leaves
  <2>1. 0 \in 0..Depth
    BY <1>1
  <2> QED  BY <1>4, <2>1, Zenon
<1> QED  BY <1>1, <1>5, <1>6

\* What a tree is over, kind by kind.
LEMMA OverCases ==
    ASSUME NEW S, NEW x \in Over(S)
    PROVE  \/ x.k = "Unary" /\ x.op \in {"not", "-"} /\ x.x \in S
           \/ x.k = "Binary" /\ x.op \in BinaryOps /\ x.l \in S /\ x.r \in S
           \/ x.k \in {"Field", "Index"} /\ x.base \in S /\ x.name \in STRING
           \/ x.k = "Call" /\ x.callee \in S /\ x.args \in Seq(S)
           \/ x.k = "Set" /\ x.items \in Seq(S) /\ Len(x.items) <= MaxSetMembers
           \/ x.k = "Range" /\ x.lo \in S /\ x.hi \in S
           \/ x.k = "IsNone" /\ x.x \in S
BY DEF Over, Lists

LEMMA LeafKinds ==
    ASSUME NEW x \in Leaves
    PROVE  x.k \in {"Bool", "Integer", "Float", "String", "Identifier"}
BY DEF Leaves

LEMMA LeafParts ==
    ASSUME NEW x \in Leaves
    PROVE  Parts(x) = {}
BY LeafKinds DEF Parts

LEMMA OverParts ==
    ASSUME NEW S, NEW x \in Over(S), \A y \in S : y.k = "Field" => y.base \in S
    PROVE  Parts(x) \subseteq S
<1>1. CASE x.k = "Call" /\ x.callee \in S /\ x.args \in Seq(S)
  <2>1. ToSet(x.args) \subseteq S
    BY <1>1 DEF ToSet
  <2>2. Parts(x) = {x.callee} \cup ToSet(x.args)
                     \cup (IF x.callee.k = "Field" THEN {x.callee.base} ELSE {})
    BY <1>1 DEF Parts
  <2> QED  BY <1>1, <2>1, <2>2
<1>2. CASE x.k = "Set" /\ x.items \in Seq(S)
  <2>1. ToSet(x.items) \subseteq S
    BY <1>2 DEF ToSet
  <2>2. Parts(x) = ToSet(x.items)
    BY <1>2 DEF Parts
  <2> QED  BY <2>1, <2>2
<1>3. CASE x.k \in {"Unary", "IsNone"} /\ x.x \in S
  <2>1. Parts(x) = {x.x}
    BY <1>3 DEF Parts
  <2> QED  BY <1>3, <2>1
<1>4. CASE x.k = "Binary" /\ x.l \in S /\ x.r \in S
  <2>1. Parts(x) = {x.l, x.r}
    BY <1>4 DEF Parts
  <2> QED  BY <1>4, <2>1
<1>5. CASE x.k = "Range" /\ x.lo \in S /\ x.hi \in S
  <2>1. Parts(x) = {x.lo, x.hi}
    BY <1>5 DEF Parts
  <2> QED  BY <1>5, <2>1
<1>6. CASE x.k \in {"Field", "Index"} /\ x.base \in S
  <2>1. Parts(x) = {x.base}
    BY <1>6 DEF Parts
  <2> QED  BY <1>6, <2>1
<1> QED  BY <1>1, <1>2, <1>3, <1>4, <1>5, <1>6, OverCases

LEMMA OverMonotone ==
    ASSUME NEW S, NEW T, S \subseteq T
    PROVE  Over(S) \subseteq Over(T)
<1>1. \A max : Lists(S, max) \subseteq Lists(T, max)
  <2>1. Seq(S) \subseteq Seq(T)
    OBVIOUS
  <2> QED  BY <2>1 DEF Lists
<1> QED  BY <1>1 DEF Over

\* The levels grow, and keep the receiver of a method they hold.
LEMMA Levels ==
    \A n \in Nat : n <= Depth =>
        /\ \A y \in TreesUpTo[n] : y.k = "Field" => y.base \in TreesUpTo[n]
        /\ n + 1 <= Depth => TreesUpTo[n] \subseteq TreesUpTo[n + 1]
<1> DEFINE L(n) == TreesUpTo[n]
           S == {n \in Nat : n <= Depth =>
                    /\ \A y \in L(n) : y.k = "Field" => y.base \in L(n)
                    /\ n + 1 <= Depth => L(n) \subseteq L(n + 1)}
<1>0. Depth \in Nat /\ L(0) = Leaves
      /\ \A n \in Nat : n + 1 <= Depth => L(n + 1) = Leaves \cup Over(L(n))
  BY TreesByHeight
<1> HIDE DEF L
<1>1. 0 \in S
  <2>1. \A y \in L(0) : y.k # "Field"
    BY <1>0, LeafKinds
  <2>2. 0 + 1 <= Depth => L(0) \subseteq L(0 + 1)
    BY <1>0
  <2> QED  BY <2>1, <2>2
<1>2. ASSUME NEW n \in Nat, n \in S PROVE n + 1 \in S
  <2> SUFFICES ASSUME n + 1 <= Depth
               PROVE  /\ \A y \in L(n + 1) : y.k = "Field" => y.base \in L(n + 1)
                      /\ (n + 1) + 1 <= Depth => L(n + 1) \subseteq L((n + 1) + 1)
    BY <1>2
  <2>1. n <= Depth /\ L(n) \subseteq L(n + 1) /\ L(n + 1) = Leaves \cup Over(L(n))
    BY <1>0, <1>2
  <2>2. ASSUME NEW y \in L(n + 1), y.k = "Field" PROVE y.base \in L(n + 1)
    <3>1. y \in Over(L(n))
      BY <2>1, <2>2, LeafKinds
    <3>2. y.base \in L(n)
      BY <2>2, <3>1, OverCases
    <3> QED  BY <2>1, <3>2
  <2>3. ASSUME (n + 1) + 1 <= Depth PROVE L(n + 1) \subseteq L((n + 1) + 1)
    <3>1. L((n + 1) + 1) = Leaves \cup Over(L(n + 1))
      BY <1>0, <2>3
    <3>2. Over(L(n)) \subseteq Over(L(n + 1))
      BY <2>1, OverMonotone
    <3> QED  BY <2>1, <3>1, <3>2
  <2> QED  BY <2>2, <2>3
<1> HIDE DEF S
<1>3. \A n \in Nat : n \in S
  BY <1>1, <1>2, NatSetInduction
<1> QED  BY <1>3 DEF S, L

\* The parts of a tree are trees less high.
LEMMA PartsBelow ==
    /\ \A x \in TreesUpTo[0] : Parts(x) = {}
    /\ \A n \in Nat : n + 1 <= Depth =>
         \A x \in TreesUpTo[n + 1] : Parts(x) \subseteq TreesUpTo[n]
<1>1. \A x \in TreesUpTo[0] : Parts(x) = {}
  BY TreesByHeight, LeafParts
<1>2. ASSUME NEW n \in Nat, n + 1 <= Depth, NEW x \in TreesUpTo[n + 1]
      PROVE  Parts(x) \subseteq TreesUpTo[n]
  <2>0. Depth \in Nat /\ n <= Depth
    BY <1>2, TreesByHeight
  <2>1. PICK S : S = TreesUpTo[n]
    OBVIOUS
  <2>2. x \in Leaves \cup Over(S)
    BY <1>2, <2>1, TreesByHeight
  <2>3. \A y \in S : y.k = "Field" => y.base \in S
    BY <2>0, <2>1, Levels
  <2>4. CASE x \in Leaves
    BY <2>4, LeafParts
  <2>5. CASE x \in Over(S)
    BY <2>1, <2>3, <2>5, OverParts
  <2> QED  BY <2>2, <2>4, <2>5
<1> QED  BY <1>1, <1>2

(***************************************************************************)
(* What holds of a tree when it holds of its parts holds of every tree.    *)
(***************************************************************************)
LEMMA TreeInduction ==
    ASSUME NEW S, \A x \in Trees : Parts(x) \subseteq S => x \in S
    PROVE  Trees \subseteq S
<1> DEFINE L(n) == TreesUpTo[n]
           N == {n \in Nat : n <= Depth => L(n) \subseteq S}
<1>0. Depth \in Nat /\ Trees = L(Depth)
  BY TreesByHeight DEF Trees
<1>1. \A n \in Nat : n <= Depth => L(n) \subseteq Trees
  <2> DEFINE U == {n \in Nat : n <= Depth => L(Depth - n) \subseteq Trees}
  <2>1. 0 \in U
    <3>1. Depth - 0 = Depth
      BY <1>0
    <3> QED  BY <1>0, <3>1
  <2>2. ASSUME NEW n \in Nat, n \in U PROVE n + 1 \in U
    <3> SUFFICES ASSUME n + 1 <= Depth PROVE L(Depth - (n + 1)) \subseteq Trees
      OBVIOUS
    <3>1. PICK m : m = Depth - (n + 1)
      OBVIOUS
    <3>2. m \in Nat /\ m + 1 <= Depth /\ m <= Depth /\ m + 1 = Depth - n /\ n <= Depth
      BY <1>0, <3>1
    <3>3. L(m) \subseteq L(m + 1)
      BY <3>2, Levels
    <3>4. L(Depth - n) \subseteq Trees
      BY <2>2, <3>2
    <3> QED  BY <3>1, <3>2, <3>3, <3>4
  <2> HIDE DEF U
  <2>3. \A n \in Nat : n \in U
    BY <2>1, <2>2, NatSetInduction
  <2>4. ASSUME NEW n \in Nat, n <= Depth PROVE L(n) \subseteq Trees
    <3>1. PICK m : m = Depth - n
      OBVIOUS
    <3>2. m \in Nat /\ m <= Depth /\ Depth - m = n
      BY <1>0, <2>4, <3>1
    <3>3. L(Depth - m) \subseteq Trees
      BY <2>3, <3>2 DEF U
    <3> QED  BY <3>2, <3>3
  <2> QED  BY <2>4
<1>2. 0 \in N
  <2>1. \A x \in L(0) : Parts(x) = {}
    BY PartsBelow
  <2>2. L(0) \subseteq Trees
    BY <1>0, <1>1
  <2> QED  BY <2>1, <2>2
<1>3. ASSUME NEW n \in Nat, n \in N PROVE n + 1 \in N
  <2> SUFFICES ASSUME n + 1 <= Depth PROVE L(n + 1) \subseteq S
    BY <1>3
  <2>1. n <= Depth /\ n + 1 \in Nat
    BY <1>0
  <2>2. \A x \in L(n + 1) : Parts(x) \subseteq L(n)
    BY PartsBelow
  <2>3. L(n) \subseteq S /\ L(n + 1) \subseteq Trees
    BY <1>1, <1>3, <2>1
  <2> QED  BY <2>2, <2>3
<1> HIDE DEF N
<1>4. \A n \in Nat : n \in N
  BY <1>2, <1>3, NatSetInduction
<1>5. L(Depth) \subseteq S
  BY <1>0, <1>4 DEF N
<1> QED  BY <1>0, <1>5

-----------------------------------------------------------------------------
(* Functions on trees. *)

\* The three recursions over trees, as one: what a tree comes to, given what
\* its parts came to.  That a function satisfies it is proved level by level.
NodeOf(what, x, of, c, e) ==
    CASE what = "Subtrees" -> {x} \cup UNION {of[z] : z \in Parts(x)}
      [] what = "Type"     -> TypeOver(x, of, c)
      [] what = "Value"    -> ValueOver(x, of, c, e)

TreeRule(what, c, e, Q, g) ==
    g = [y \in Q |-> NodeOf(what, y, [z \in Parts(y) |-> g[z]], c, e)]

LEMMA TreeRuleExists ==
    ASSUME NEW what, NEW c, NEW e
    PROVE  \E g : TreeRule(what, c, e, Trees, g)
<1> DEFINE L(n) == TreesUpTo[n]
           N == {n \in Nat : n <= Depth => \E g : TreeRule(what, c, e, L(n), g)}
<1>0. Depth \in Nat /\ Trees = L(Depth)
  BY TreesByHeight DEF Trees
<1>1. 0 \in N
  <2> DEFINE g == [y \in L(0) |-> NodeOf(what, y, [z \in {} |-> {}], c, e)]
  <2>1. \A y \in L(0) : [z \in Parts(y) |-> g[z]] = [z \in {} |-> {}]
    BY PartsBelow
  <2>2. g = [y \in L(0) |-> NodeOf(what, y, [z \in Parts(y) |-> g[z]], c, e)]
    BY <2>1
  <2>3. TreeRule(what, c, e, L(0), g)
    <3> HIDE DEF g, L
    <3> QED  BY <2>2 DEF TreeRule
  <2> QED  BY <2>3
<1>2. ASSUME NEW n \in Nat, n \in N PROVE n + 1 \in N
  <2> SUFFICES ASSUME n + 1 <= Depth
               PROVE  \E g : TreeRule(what, c, e, L(n + 1), g)
    OBVIOUS
  <2>1. PICK g : TreeRule(what, c, e, L(n), g)
    BY <1>0, <1>2
  <2> DEFINE h == [y \in L(n + 1) |-> NodeOf(what, y, [z \in Parts(y) |-> g[z]], c, e)]
  <2>2. L(n) \subseteq L(n + 1)
    BY <1>0, Levels
  <2>3. \A y \in L(n + 1) : Parts(y) \subseteq L(n)
    BY PartsBelow
  <2> HIDE DEF L
  <2>4. \A y \in L(n) : g[y] = NodeOf(what, y, [z \in Parts(y) |-> g[z]], c, e)
    BY <2>1 DEF TreeRule
  <2>5. \A y \in L(n) : h[y] = g[y]
    BY <2>2, <2>4
  <2>6. \A y \in L(n + 1) : [z \in Parts(y) |-> h[z]] = [z \in Parts(y) |-> g[z]]
    <3> HIDE DEF h
    <3> QED  BY <2>3, <2>5
  <2>7. h = [y \in L(n + 1) |-> NodeOf(what, y, [z \in Parts(y) |-> h[z]], c, e)]
    <3>1. \A y \in L(n + 1) : h[y] = NodeOf(what, y, [z \in Parts(y) |-> g[z]], c, e)
      OBVIOUS
    <3>2. h = [y \in L(n + 1) |-> h[y]]
      OBVIOUS
    <3> HIDE DEF h
    <3>3. \A y \in L(n + 1) : h[y] = NodeOf(what, y, [z \in Parts(y) |-> h[z]], c, e)
      BY <2>6, <3>1
    <3> QED  BY <3>2, <3>3
  <2>8. TreeRule(what, c, e, L(n + 1), h)
    <3> HIDE DEF h
    <3> QED  BY <2>7 DEF TreeRule
  <2> QED  BY <2>8
<1> HIDE DEF N
<1>3. \A n \in Nat : n \in N
  BY <1>1, <1>2, NatSetInduction
<1>4. Depth \in N
  BY <1>0, <1>3
<1> QED  BY <1>0, <1>4 DEF N

LEMMA PartsAreTrees == \A x \in Trees : Parts(x) \subseteq Trees
<1>1. Trees \subseteq {x \in Trees : Parts(x) \subseteq Trees}
  <2>1. Depth \in Nat /\ Trees = TreesUpTo[Depth]
    BY TreesByHeight DEF Trees
  <2>2. CASE Depth = 0
    BY <2>1, <2>2, PartsBelow
  <2>3. CASE Depth # 0
    <3>1. PICK n : n = Depth - 1
      OBVIOUS
    <3>2. n \in Nat /\ n <= Depth /\ n + 1 <= Depth /\ Depth = n + 1
      BY <2>1, <2>3, <3>1
    <3>3. TreesUpTo[n] \subseteq TreesUpTo[n + 1]
      BY <3>2, Levels
    <3>4. \A x \in TreesUpTo[n + 1] : Parts(x) \subseteq TreesUpTo[n]
      BY <3>2, PartsBelow
    <3> QED  BY <2>1, <3>2, <3>3, <3>4
  <2> QED  BY <2>2, <2>3
<1> QED  BY <1>1

(***************************************************************************)
(* Each of the three recursive definitions satisfies its own equation.     *)
(***************************************************************************)
LEMMA EvalOver ==
    ASSUME NEW c, NEW e, NEW x \in Trees
    PROVE  Eval(x, c, e) = ValueOver(x, [z \in Parts(x) |-> Eval(z, c, e)], c, e)
<1> DEFINE Rule(g) == g = [y \in Trees |-> ValueOver(y, [z \in Parts(y) |-> g[z]], c, e)]
           value == CHOOSE g : Rule(g)
<1>1. \A y : Eval(y, c, e) = value[y]
  BY DEF Eval
<1>2. \A g : TreeRule("Value", c, e, Trees, g) => Rule(g)
  BY DEF TreeRule, NodeOf
<1>3. \E g : Rule(g)
  <2> HIDE DEF Rule
  <2> QED  BY <1>2, TreeRuleExists
<1> HIDE DEF Rule
<1>4. Rule(value)
  BY <1>3
<1> HIDE DEF value
<1>5. value[x] = ValueOver(x, [z \in Parts(x) |-> value[z]], c, e)
  BY <1>4 DEF Rule
<1>6. [z \in Parts(x) |-> value[z]] = [z \in Parts(x) |-> Eval(z, c, e)]
  BY <1>1
<1> QED  BY <1>1, <1>5, <1>6

LEMMA TypesOver ==
    ASSUME NEW c, NEW x \in Trees
    PROVE  CheckType(x, c) = TypeOver(x, [z \in Parts(x) |-> CheckType(z, c)], c)
<1> DEFINE Rule(g) == g = [y \in Trees |-> TypeOver(y, [z \in Parts(y) |-> g[z]], c)]
           type == CHOOSE g : Rule(g)
<1>1. \A y : CheckType(y, c) = type[y]
  BY DEF CheckType
<1>2. \A g : TreeRule("Type", c, 0, Trees, g) => Rule(g)
  BY DEF TreeRule, NodeOf
<1>3. \E g : Rule(g)
  <2> HIDE DEF Rule
  <2> QED  BY <1>2, TreeRuleExists
<1> HIDE DEF Rule
<1>4. Rule(type)
  BY <1>3
<1> HIDE DEF type
<1>5. type[x] = TypeOver(x, [z \in Parts(x) |-> type[z]], c)
  BY <1>4 DEF Rule
<1>6. [z \in Parts(x) |-> type[z]] = [z \in Parts(x) |-> CheckType(z, c)]
  BY <1>1
<1> QED  BY <1>1, <1>5, <1>6

LEMMA SubtreesOver ==
    ASSUME NEW x \in Trees
    PROVE  Subtrees(x) = {x} \cup UNION {Subtrees(z) : z \in Parts(x)}
<1> DEFINE Rule(g) == g = [y \in Trees |-> {y} \cup UNION {g[z] : z \in Parts(y)}]
           subtrees == CHOOSE g : Rule(g)
<1>1. \A y : Subtrees(y) = subtrees[y]
  BY DEF Subtrees
<1>2. ASSUME NEW g, TreeRule("Subtrees", 0, 0, Trees, g) PROVE Rule(g)
  <2>1. \A y : {g[z] : z \in Parts(y)} = {[w \in Parts(y) |-> g[w]][z] : z \in Parts(y)}
    OBVIOUS
  <2>2. g = [y \in Trees |-> {y} \cup UNION {[w \in Parts(y) |-> g[w]][z] : z \in Parts(y)}]
    BY <1>2 DEF TreeRule, NodeOf
  <2> QED  BY <2>1, <2>2
<1>3. \E g : Rule(g)
  <2> HIDE DEF Rule
  <2> QED  BY <1>2, TreeRuleExists
<1> HIDE DEF Rule
<1>4. Rule(subtrees)
  BY <1>3
<1> HIDE DEF subtrees
<1>5. subtrees[x] = {x} \cup UNION {subtrees[z] : z \in Parts(x)}
  BY <1>4 DEF Rule
<1>6. {subtrees[z] : z \in Parts(x)} = {Subtrees(z) : z \in Parts(x)}
  BY <1>1
<1> QED  BY <1>1, <1>5, <1>6

-----------------------------------------------------------------------------
(* Values and their types. *)

\* The types of sets.
SetNames == {"Bools", "Ints", "Floats", "Strings"}

\* A value of a type, and one that may be missing.
Typed(v, ty) ==
    \/ ty \in Numeric /\ v \in Numbers
    \/ ty \in {"Bool", "String", "Range"} /\ v.t = ty
    \/ ty \in SetNames /\ v.t = "Set" /\ Len(v.members) \in 0..MaxInt

Fits(v, ty) == v = Missing \/ Typed(v, ty)

LEMMA KindsOfMembers ==
    /\ Scalars = {"Bool", "Int", "Float", "String"}
    /\ \A ty : MemberKind(ty) # "none" => ty \in SetNames /\ MemberKind(ty) \in Scalars
    /\ \A kind \in Scalars : SetTypes[kind] \in SetNames /\ MemberKind(SetTypes[kind]) = kind
<1>1. /\ Scalars = {"Bool", "Int", "Float", "String"}
      /\ SetTypes["Bool"] = "Bools" /\ SetTypes["Int"] = "Ints"
      /\ SetTypes["Float"] = "Floats" /\ SetTypes["String"] = "Strings"
  BY DEF Scalars, SetTypes
<1>2. \A ty : MemberKind(ty) # "none" =>
         /\ \E kind \in Scalars : SetTypes[kind] = ty
         /\ MemberKind(ty) \in Scalars /\ SetTypes[MemberKind(ty)] = ty
  BY DEF MemberKind
<1>3. \A kind \in Scalars : SetTypes[kind] \in SetNames /\ kind # "none"
  BY <1>1 DEF SetNames
<1>4. ASSUME NEW kind \in Scalars PROVE MemberKind(SetTypes[kind]) = kind
  <2>1. /\ MemberKind(SetTypes[kind]) \in Scalars
        /\ SetTypes[MemberKind(SetTypes[kind])] = SetTypes[kind]
    BY DEF MemberKind
  <2>2. \A i, j \in Scalars : SetTypes[i] = SetTypes[j] => i = j
    BY <1>1
  <2> QED  BY <2>1, <2>2
<1> QED  BY <1>1, <1>2, <1>3, <1>4

LEMMA NumberTags ==
    ASSUME NEW v \in Numbers
    PROVE  v.t \in {"Int", "Float"} /\ IsNum(v) /\ v # Missing /\ v # Error
BY IntShape, FloatShape DEF Numbers, IsNum, Missing, Error

LEMMA FitsTags ==
    ASSUME NEW v, NEW ty, Fits(v, ty)
    PROVE  /\ v # Error
           /\ ty \in Numeric => v = Missing \/ (v \in Numbers /\ IsNum(v) /\ v.t \in {"Int", "Float"})
           /\ ty \in {"Bool", "String", "Range"} => v = Missing \/ (v.t = ty /\ v # Missing)
           /\ ty \in SetNames => v = Missing \/ (v.t = "Set" /\ v # Missing /\ Len(v.members) \in 0..MaxInt)
           /\ ty \in Numeric \cup {"Bool", "String", "Range"} \cup SetNames \/ v = Missing
<1>1. CASE v = Missing
  <2>1. v # Error
    BY <1>1 DEF Missing, Error
  <2> QED  BY <1>1, <2>1
<1>2. CASE ty \in Numeric /\ v \in Numbers
  BY <1>2, NumberTags DEF Numeric, SetNames
<1>3. CASE ty \in {"Bool", "String", "Range"} /\ v.t = ty
  <2>1. v # Error /\ v # Missing /\ ty \notin Numeric /\ ty \notin SetNames
    BY <1>3 DEF Missing, Error, Numeric, SetNames
  <2> QED  BY <1>3, <2>1
<1>4. CASE ty \in SetNames /\ v.t = "Set" /\ Len(v.members) \in 0..MaxInt
  <2>1. v # Error /\ v # Missing /\ ty \notin Numeric /\ ty \notin {"Bool", "String", "Range"}
    BY <1>4 DEF Missing, Error, Numeric, SetNames
  <2> QED  BY <1>4, <2>1
<1> QED  BY <1>1, <1>2, <1>3, <1>4 DEF Fits, Typed

LEMMA BoolFits == \A b : BoolVal(b).t = "Bool" /\ BoolVal(b) # Error /\ Fits(BoolVal(b), "Bool")
<1>1. \A b : BoolVal(b).t = "Bool" /\ BoolVal(b) # Error
  BY DEF BoolVal, Error
<1> QED  BY <1>1 DEF Fits, Typed

-----------------------------------------------------------------------------
\* The operators of the evaluator, on values of the types the checker asks for.

LEMMA CheckedNumber ==
    \A n : /\ Checked(n) = Missing \/ Checked(n) \in Ints
           /\ Finite(n) = Missing \/ Finite(n) \in Floats
BY DEF Checked, Finite, Ints, Floats

LEMMA LiteralFits ==
    ASSUME NEW v, v = Missing \/ v \in Numbers, LiteralType(v).ty # "diagnostic"
    PROVE  v \in Numbers /\ LiteralType(v).ty \in Numeric
<1>1. v # Missing
  BY DEF LiteralType, Bad, Required
<1>2. v \in Numbers /\ v.t \in {"Int", "Float"}
  BY <1>1, NumberTags
<1> QED  BY <1>1, <1>2 DEF LiteralType, Required, Numeric

LEMMA NumberLiteralFits ==
    \A n, u, t, negative : NumberLiteral(n, u, t, negative) = Missing
                           \/ NumberLiteral(n, u, t, negative) \in Numbers
BY CheckedNumber DEF NumberLiteral, Numbers

LEMMA FloatLiteralFits ==
    \A h, u, t : FloatLiteral(h, u, t) = Missing \/ FloatLiteral(h, u, t) \in Numbers
BY CheckedNumber DEF FloatLiteral, Numbers

LEMMA SignChanges ==
    ASSUME NEW v \in Numbers
    PROVE  /\ Negated(v) = Missing \/ Negated(v) \in Numbers
           /\ Absolute(v) = Missing \/ Absolute(v) \in Numbers
<1>1. CASE v \in Ints
  BY <1>1, IntShape, CheckedNumber DEF Negated, Absolute, Numbers
<1>2. CASE v \in Floats
  <2>0. MaxHalves \in Nat
    BY NumbersAssumption DEF NumbersAssumption
  <2>1. v.t = "Float" /\ v.h \in Int /\ v.h \in -MaxHalves..MaxHalves
    BY <1>2, FloatShape
  <2>2. -v.h \in -MaxHalves..MaxHalves /\ (IF v.h < 0 THEN -v.h ELSE v.h) \in -MaxHalves..MaxHalves
    BY <2>0, <2>1
  <2>3. Negated(v) \in Floats /\ Absolute(v) \in Floats
    BY <2>1, <2>2 DEF Negated, Absolute, Floats
  <2> QED  BY <2>3 DEF Numbers
<1> QED  BY <1>1, <1>2 DEF Numbers

LEMMA ArithFits ==
    ASSUME NEW a \in Numbers, NEW b \in Numbers, NEW sub \in BOOLEAN
    PROVE  Arith(a, b, sub) = Missing \/ Arith(a, b, sub) \in Numbers
BY ArithmeticChecked

LEMMA MethodFits ==
    ASSUME NEW name, NEW base, NEW arg, NEW a, NEW b,
           MethodType(name, base, arg).ty # "diagnostic",
           a = Error \/ Fits(a, base.ty), b = Error \/ Fits(b, arg.ty)
    PROVE  /\ MethodType(name, base, arg).ty = "Bool"
           /\ Method(name, a, b) = Error => Error \in {a, b}
           /\ Method(name, a, b) = Error \/ Fits(Method(name, a, b), "Bool")
           /\ base.ty \in {"String", "Range"} /\ arg.ty \in {"String", "Range"}
<1>1. \/ name \in {"startswith", "endswith"} /\ base.ty = "String" /\ arg.ty = "String"
      \/ name = "overlaps" /\ base.ty = "Range" /\ arg.ty = "Range"
  BY DEF MethodType, Bad, Required
<1>2. MethodType(name, base, arg).ty = "Bool"
  BY <1>1 DEF MethodType, Required
<1>3. CASE Error \in {a, b}
  <2>1. Method(name, a, b) = Error
    BY <1>3 DEF Method, Error, BoolVal
  <2> QED  BY <1>1, <1>2, <1>3, <2>1
<1>4. CASE Error \notin {a, b} /\ Missing \in {a, b}
  <2>1. Method(name, a, b) = BoolVal(FALSE)
    BY <1>4 DEF Method, Missing, BoolVal
  <2> QED  BY <1>1, <1>2, <2>1, BoolFits
<1>5. CASE Error \notin {a, b} /\ Missing \notin {a, b}
  <2>1. \/ name \in {"startswith", "endswith"} /\ a.t = "String" /\ b.t = "String"
        \/ name = "overlaps" /\ a.t = "Range" /\ b.t = "Range"
    BY <1>1, <1>5, FitsTags
  <2>2. \E t : Method(name, a, b) = BoolVal(t)
    BY <1>5, <2>1 DEF Method
  <2> QED  BY <1>1, <1>2, <2>2, BoolFits
<1> QED  BY <1>3, <1>4, <1>5

LEMMA CompareFits ==
    ASSUME NEW op \in ComparisonOps, NEW l, NEW r, NEW a, NEW b,
           BinaryType(op, l, r).ty # "diagnostic", Fits(a, l.ty), Fits(b, r.ty)
    PROVE  Fits(Compare(op, a, b), "Bool")
<1>1. \/ Agree(l.ty, r.ty) /\ (op \in {"==", "!="} \/ l.ty # "Bool")
      \/ op \in {"==", "!="} /\ MemberKind(l.ty) # "none" /\ l.ty = r.ty
  BY DEF BinaryType, Bad, Required, ComparisonOps
<1>2. CASE Missing \in {a, b}
  <2>1. ~(IsNum(a) /\ IsNum(b)) /\ ~(a.t = "String" /\ b.t = "String")
    BY <1>2 DEF Missing, IsNum
  <2>2. Compare(op, a, b) = BoolVal(FALSE)
    BY <1>2, <2>1 DEF Compare
  <2> QED  BY <2>2, BoolFits
<1>3. CASE Missing \notin {a, b}
  <2>1. \/ IsNum(a) /\ IsNum(b)
        \/ a.t = "String" /\ b.t = "String"
        \/ a.t = "Bool" /\ b.t = "Bool" /\ op \in {"==", "!="}
        \/ a.t = "Set" /\ b.t = "Set" /\ op \in {"==", "!="}
    <3>1. CASE op \in {"==", "!="} /\ MemberKind(l.ty) # "none" /\ l.ty = r.ty
      <4>1. l.ty \in SetNames
        BY <3>1, KindsOfMembers
      <4> QED  BY <1>3, <3>1, <4>1, FitsTags
    <3>2. CASE Agree(l.ty, r.ty) /\ (op \in {"==", "!="} \/ l.ty # "Bool")
      <4>1. \/ l.ty \in Numeric /\ r.ty \in Numeric
            \/ l.ty = "String" /\ r.ty = "String"
            \/ l.ty = "Bool" /\ r.ty = "Bool" /\ op \in {"==", "!="}
        BY <3>2, KindsOfMembers DEF Agree, Numeric
      <4> QED  BY <1>3, <4>1, FitsTags
    <3> QED  BY <1>1, <3>1, <3>2
  <2>2. \E t : Compare(op, a, b) = BoolVal(t)
    BY <1>3, <2>1 DEF Compare
  <2> QED  BY <2>2, BoolFits
<1> QED  BY <1>2, <1>3

LEMMA MemberFits ==
    ASSUME NEW l, NEW r, NEW a, NEW b,
           BinaryType("in", l, r).ty # "diagnostic", Fits(a, l.ty), Fits(b, r.ty)
    PROVE  Fits(Member(a, b), "Bool")
<1>1. \/ r.ty = "Range" /\ l.ty \in Numeric
      \/ Agree(l.ty, MemberKind(r.ty))
      \/ r.ty = "String" /\ l.ty = "String"
  BY DEF BinaryType, Bad, Required
<1>2. \/ r.ty = "Range" \/ r.ty \in SetNames \/ (r.ty = "String" /\ l.ty = "String")
  <2>1. Agree(l.ty, MemberKind(r.ty)) => MemberKind(r.ty) # "none"
    BY KindsOfMembers DEF Agree
  <2> QED  BY <1>1, <2>1, KindsOfMembers
<1>3. \E t : Member(a, b) = BoolVal(t)
  <2>1. CASE b = Missing
    BY <2>1 DEF Member, Missing
  <2>2. CASE b # Missing /\ (r.ty = "Range" \/ r.ty \in SetNames)
    <3>1. b.t \in {"Range", "Set"}
      BY <2>2, FitsTags
    <3> QED  BY <3>1 DEF Member
  <2>3. CASE b # Missing /\ r.ty = "String" /\ l.ty = "String"
    <3>1. b.t = "String" /\ (a = Missing \/ a.t = "String")
      BY <2>3, FitsTags
    <3>2. a = Missing => a.t # "String"
      BY DEF Missing
    <3> QED  BY <2>3, <3>1, <3>2 DEF Member
  <2> QED  BY <1>2, <2>1, <2>2, <2>3
<1> QED  BY <1>3, BoolFits

LEMMA AnswerFits ==
    ASSUME NEW v, v = Error \/ Fits(v, "Bool")
    PROVE  /\ Answer(v) = Error => v = Error
           /\ Answer(v) = Error \/ Answer(v).t = "Bool"
<1>1. CASE v = Error
  BY <1>1 DEF Answer, Error, Missing
<1>2. CASE v = Missing
  <2>1. Answer(v) = BoolVal(FALSE)
    BY <1>2 DEF Answer, Missing
  <2> QED  BY <2>1, BoolFits
<1>3. CASE v.t = "Bool" /\ v # Error
  BY <1>3 DEF Answer
<1>4. v = Error \/ v = Missing \/ (v.t = "Bool" /\ v # Error)
  BY FitsTags
<1> QED  BY <1>1, <1>2, <1>3, <1>4

-----------------------------------------------------------------------------
(* Fields. *)

\* A context an expression is evaluated in: loaded, its custom fields resolved.
Ready(c) ==
    /\ GoodNumbers(c) /\ GoodIndexes(c) /\ GoodFields(c) /\ GoodMarks(c)
    /\ \E keys : c.fields = [key \in keys |-> [f \in DOMAIN c.extras |-> ValueIn(c.extras[f], key)]]

LEMMA WordFits ==
    /\ \A n \in Words : IntNum(n) \in Numbers
    /\ \A m, n \in Words : IntNum(m - n) \in Numbers
    /\ \A n \in 0..MaxAddress : n \in Words
    /\ \A n \in Words : n \in 0..MaxInt
<1>1. MaxWord \in Nat /\ MaxInt \in Nat /\ MaxWord <= MaxInt /\ MinInt = -MaxInt - 1
  BY NumbersAssumption DEF NumbersAssumption, MinInt
<1>2. MaxAddress \in Nat /\ MaxAddress <= MaxWord
  BY <1>1, ContextAssumption DEF ContextAssumption
<1>3. \A n \in Words : n \in MinInt..MaxInt /\ n \in 0..MaxInt
  BY <1>1 DEF Words
<1>4. \A m, n \in Words : m - n \in MinInt..MaxInt
  BY <1>1 DEF Words
<1>5. \A n \in 0..MaxAddress : n \in Words
  BY <1>1, <1>2 DEF Words
<1> QED  BY <1>3, <1>4, <1>5 DEF Numbers, Ints

LEMMA EventIsWord ==
    ASSUME NEW c, Ready(c), NEW e \in Events(c)
    PROVE  /\ e \in Words /\ e # None
           /\ c.id[e] \in Words /\ c.size[e] \in Words /\ c.t[e] \in Words
           /\ UsableAt(c, e) \in Words /\ c.addr[e] \in 0..MaxAddress
           /\ c.death[e] = None \/ (c.death[e] # None /\ c.death[e] \in Events(c))
           /\ c.thr[e] = None \/ c.thrs[c.thr[e]] \in Words
           /\ EndOf(c, e) \in 0..MaxAddress
<1>1. e \in Words /\ e # None
  BY DEF Ready, GoodNumbers, Words, None
<1>2. /\ c.id[e] \in Words /\ c.size[e] \in Words /\ c.t[e] \in Words
      /\ UsableAt(c, e) \in Words /\ c.addr[e] \in 0..MaxAddress
  BY DEF Ready, GoodNumbers
<1>3. c.death[e] \in Events(c) \cup {None} /\ c.thr[e] \in DOMAIN c.thrs \cup {None}
  BY DEF Ready, GoodIndexes
<1>4. \A d \in Events(c) : d # None
  BY DEF Ready, GoodNumbers, Words, None
<1>5. c.thr[e] = None \/ c.thrs[c.thr[e]] \in Words
  BY <1>3 DEF Ready, GoodNumbers
<1>6. EndOf(c, e) \in 0..MaxAddress
  <2>1. PICK s : s = SpanOf(c, e)
    OBVIOUS
  <2>2. MaxWord \in Nat /\ MaxAddress \in Nat
    BY NumbersAssumption, ContextAssumption DEF NumbersAssumption, ContextAssumption
  <2>3. s \in Nat
    BY <1>2, <2>1, <2>2 DEF SpanOf, Words
  <2> QED  BY <1>2, <2>1, <2>2, <2>3 DEF EndOf
<1> QED  BY <1>1, <1>2, <1>3, <1>4, <1>5, <1>6

LEMMA TagsFit ==
    ASSUME NEW c, Ready(c), NEW e
    PROVE  Fits(FieldValue("alloc", "tags", c, e), "Strings")
<1>1. PICK n : n = Cardinality(Labelled(c, e))
  OBVIOUS
<1> DEFINE member(i) == StringVal(c.labels[SetToSortSeq(Labelled(c, e), <)[i]])
<1>2. PICK v : v = [i \in 1..n |-> member(i)]
  OBVIOUS
<1>3. FieldValue("alloc", "tags", c, e) = SetVal(v)
  BY <1>1, <1>2 DEF FieldValue
<1> HIDE DEF member
<1>4. n \in 0..MaxInt
  <2>1. Len(c.labels) \in Nat /\ Len(c.labels) <= MaxWord /\ DOMAIN c.tags \subseteq Nat \ {0}
    BY DEF Ready, GoodMarks
  <2>2. Labelled(c, e) \subseteq 1..Len(c.labels)
    BY <2>1 DEF Labelled, TagIds
  <2>3. IsFiniteSet(1..Len(c.labels)) /\ Cardinality(1..Len(c.labels)) = Len(c.labels)
    BY <2>1, FS_Interval
  <2>4. IsFiniteSet(Labelled(c, e)) /\ n \in Nat /\ n <= Len(c.labels)
    BY <1>1, <2>2, <2>3, FS_Subset, FS_CardinalityType
  <2>5. MaxWord \in Nat /\ MaxInt \in Nat /\ MaxWord <= MaxInt
    BY NumbersAssumption DEF NumbersAssumption
  <2> QED  BY <2>1, <2>4, <2>5
<1>5. Len(v) = n
  BY <1>2, <1>4
<1> QED  BY <1>3, <1>4, <1>5 DEF Fits, Typed, SetVal, SetNames

(***************************************************************************)
(* A built-in field holds a value of the type that the language's field    *)
(* list gives it, or is missing.                                           *)
(***************************************************************************)
LEMMA FieldFits ==
    ASSUME NEW c, Ready(c), NEW e \in Events(c), NEW ns, NEW name,
           FieldType(ns, name).ty # "diagnostic"
    PROVE  Fits(FieldValue(ns, name, c, e), FieldType(ns, name).ty)
<1>0. /\ e \in Words
      /\ c.id[e] \in Words /\ c.size[e] \in Words /\ c.t[e] \in Words
      /\ UsableAt(c, e) \in Words /\ c.addr[e] \in Words /\ EndOf(c, e) \in Words
      /\ c.thr[e] = None \/ c.thrs[c.thr[e]] \in Words
      /\ c.death[e] = None \/ (c.death[e] # None /\ c.death[e] \in Events(c)
                               /\ c.death[e] \in Words /\ c.t[c.death[e]] \in Words)
  BY EventIsWord, WordFits
<1>1. \A n \in Words : Fits(IntNum(n), "Int")
  BY WordFits DEF Fits, Typed, Numeric
<1>2. \A m, n \in Words : Fits(IntNum(m - n), "Int")
  BY WordFits DEF Fits, Typed, Numeric
<1>3. /\ \A s : Fits(StringVal(s), "String")
      /\ \A lo, hi : Fits(RangeVal(lo, hi), "Range")
      /\ \A ty : Fits(Missing, ty)
  BY DEF Fits, Typed, StringVal, RangeVal
<1>4. CASE ns = "alloc" /\ name \in {"id", "address", "end", "size"}
  <2>1. FieldType(ns, name).ty = "Int"
    BY <1>4 DEF FieldType, Required
  <2>2. \E n \in Words : FieldValue(ns, name, c, e) = IntNum(n)
    BY <1>0, <1>4 DEF FieldValue
  <2> QED  BY <1>1, <2>1, <2>2
<1>5. CASE ns = "alloc" /\ name = "span"
  <2>1. FieldType(ns, name).ty = "Range"
    BY <1>5 DEF FieldType, Required
  <2>2. \E lo, hi : FieldValue(ns, name, c, e) = RangeVal(lo, hi)
    BY <1>5 DEF FieldValue
  <2> QED  BY <1>3, <2>1, <2>2
<1>6. CASE ns = "alloc" /\ name = "usable"
  <2>1. FieldType(ns, name).ty = "Int"
    BY <1>6 DEF FieldType, Optional
  <2>2. FieldValue(ns, name, c, e) = Missing
        \/ \E n \in Words : FieldValue(ns, name, c, e) = IntNum(n)
    BY <1>0, <1>6 DEF FieldValue
  <2> QED  BY <1>1, <1>3, <2>1, <2>2
<1>7. CASE ns = "alloc" /\ name = "lifetime"
  <2>1. FieldType(ns, name).ty = "Int"
    BY <1>7 DEF FieldType, Optional
  <2>2. FieldValue(ns, name, c, e) = Missing
        \/ \E m, n \in Words : FieldValue(ns, name, c, e) = IntNum(m - n)
    BY <1>0, <1>7 DEF FieldValue
  <2> QED  BY <1>2, <1>3, <2>1, <2>2
<1>8. CASE ns = "alloc" /\ name = "tags"
  <2>1. FieldType(ns, name).ty = "Strings"
    BY <1>8 DEF FieldType, Required
  <2> QED  BY <1>8, <2>1, TagsFit
<1>9. CASE ns = "alloc" /\ name = "freed"
  <2>1. FieldType(ns, name).ty = "Bool"
    BY <1>9 DEF FieldType, Required
  <2>2. \E b : FieldValue(ns, name, c, e) = BoolVal(b)
    BY <1>9 DEF FieldValue
  <2> QED  BY <2>1, <2>2, BoolFits
<1>10. CASE ns = "malloc" /\ name \in {"seq", "time"}
  <2>1. FieldType(ns, name).ty = "Int"
    BY <1>10 DEF FieldType, Required
  <2>2. \E n \in Words : FieldValue(ns, name, c, e) = IntNum(n)
    BY <1>0, <1>10 DEF FieldValue
  <2> QED  BY <1>1, <2>1, <2>2
<1>11. CASE ns = "malloc" /\ name \in {"site", "stack"}
  <2>1. FieldType(ns, name).ty = "String"
    BY <1>11 DEF FieldType, Required, Optional
  <2>2. FieldValue(ns, name, c, e) = Missing
        \/ \E s : FieldValue(ns, name, c, e) = StringVal(s)
    BY <1>11 DEF FieldValue
  <2> QED  BY <1>3, <2>1, <2>2
<1>12. CASE ns = "malloc" /\ name = "thread"
  <2>1. FieldType(ns, name).ty = "Int"
    BY <1>12 DEF FieldType, Optional
  <2>2. FieldValue(ns, name, c, e) = Missing
        \/ \E n \in Words : FieldValue(ns, name, c, e) = IntNum(n)
    BY <1>0, <1>12 DEF FieldValue
  <2> QED  BY <1>1, <1>3, <2>1, <2>2
<1>13. CASE ns = "free" /\ name \in {"seq", "time"}
  <2>1. FieldType(ns, name).ty = "Int"
    BY <1>13 DEF FieldType, Optional
  <2>2. FieldValue(ns, name, c, e) = Missing
        \/ \E n \in Words : FieldValue(ns, name, c, e) = IntNum(n)
    BY <1>0, <1>13 DEF FieldValue
  <2> QED  BY <1>1, <1>3, <2>1, <2>2
<1>14. \/ ns = "alloc" /\ name \in {"id", "address", "end", "size", "span", "usable",
                                     "lifetime", "tags", "freed"}
       \/ ns = "malloc" /\ name \in {"seq", "time", "site", "stack", "thread"}
       \/ ns = "free" /\ name \in {"seq", "time"}
  BY DEF FieldType, Bad, Required
<1> QED  BY <1>4, <1>5, <1>6, <1>7, <1>8, <1>9, <1>10, <1>11, <1>12, <1>13, <1>14

\* A custom field's value has one of the shapes its key was seen holding, and
\* the checker only admits keys with a single one.
LEMMA ShapeFits ==
    ASSUME NEW c, Ready(c), NEW key, CustomFieldType(key, c).ty # "diagnostic",
           NEW p \in Pairs(c), p[1] = key, p[2].t \notin {"Null", "Other"}
    PROVE  Fits(p[2], CustomFieldType(key, c).ty)
<1> DEFINE shapes == Shapes(c, key)
           scalars == shapes \ {"Null", "Other"}
<1>1. ScalarOf(shapes) # "none" /\ CustomFieldType(key, c).ty = ScalarOf(shapes)
  BY DEF CustomFieldType, Bad, Required, Optional
<1>0. /\ p[2].t \in {"Bool", "Int", "Float", "String", "Null", "Other"}
      /\ IsNum(p[2]) => p[2] \in Ints \cup Floats
  <2>1. \A q \in Pairs(c) : /\ q[2].t \in {"Bool", "Int", "Float", "String", "Null", "Other"}
                            /\ IsNum(q[2]) => q[2] \in Ints \cup Floats
    BY DEF Ready, GoodFields
  <2> QED  BY <2>1
<1>2. p[2].t \in scalars /\ p[2].t \in {"Bool", "Int", "Float", "String"}
  <2>1. p \in {q \in Pairs(c) : q[1] = key}
    OBVIOUS
  <2>2. p[2].t \in shapes
    BY <2>1, Zenon DEF Shapes
  <2> HIDE DEF shapes
  <2> QED  BY <1>0, <2>2
<1>3. IsNum(p[2]) => p[2] \in Numbers
  BY <1>0 DEF Numbers
<1> HIDE DEF shapes
<1>4. "Other" \notin shapes
  BY <1>1 DEF ScalarOf
<1>5. CASE scalars = {"Int", "Float"}
  <2>1. ScalarOf(shapes) = "Float"
    BY <1>4, <1>5 DEF ScalarOf
  <2>2. IsNum(p[2])
    BY <1>2, <1>5 DEF IsNum
  <2> QED  BY <1>1, <1>3, <2>1, <2>2 DEF Fits, Typed, Numeric
<1>6. CASE scalars # {"Int", "Float"}
  <2>1. \E s \in scalars : scalars = {s}
    BY <1>1, <1>4, <1>6 DEF ScalarOf
  <2>2. ScalarOf(shapes) \in scalars
    BY <1>4, <1>6, <2>1 DEF ScalarOf
  <2>3. ScalarOf(shapes) = p[2].t
    BY <1>2, <2>1, <2>2
  <2>4. p[2].t \in {"Int", "Float"} => p[2] \in Numbers
    BY <1>3 DEF IsNum
  <2> QED  BY <1>1, <1>2, <2>3, <2>4 DEF Fits, Typed, Numeric
<1> QED  BY <1>5, <1>6

LEMMA FragmentFits ==
    ASSUME NEW c, Ready(c), NEW key, CustomFieldType(key, c).ty # "diagnostic",
           NEW f \in DOMAIN c.extras
    PROVE  Fits(ValueIn(c.extras[f], key), CustomFieldType(key, c).ty)
<1>0. PICK fragment : fragment = c.extras[f]
  OBVIOUS
<1> DEFINE holding == {i \in DOMAIN fragment :
                         fragment[i][1] = key /\ fragment[i][2].t \notin {"Null", "Other"}}
<1>1. DOMAIN fragment \subseteq Nat
  BY <1>0 DEF Ready, GoodFields
<1>2. \A i \in DOMAIN fragment : fragment[i] \in Pairs(c)
  BY <1>0 DEF Pairs, ToSet
<1>3. CASE holding = {}
  <2>1. ValueIn(fragment, key) = Missing
    BY <1>3 DEF ValueIn
  <2> QED  BY <1>0, <2>1 DEF Fits
<1>4. CASE holding # {}
  <2>1. \E i \in holding : \A j \in holding : i <= j
    <3>1. holding \in SUBSET Nat
      BY <1>1
    <3> QED  BY <1>4, <3>1, LeastNat
  <2>2. PICK first : first = CHOOSE i \in holding : \A j \in holding : i <= j
    OBVIOUS
  <2>3. first \in holding
    BY <2>1, <2>2
  <2>4. ValueIn(fragment, key) = fragment[first][2]
    BY <1>4, <2>2 DEF ValueIn
  <2>5. Fits(fragment[first][2], CustomFieldType(key, c).ty)
    BY <1>2, <2>3, ShapeFits
  <2> QED  BY <1>0, <2>4, <2>5
<1> QED  BY <1>3, <1>4

LEMMA CustomFits ==
    ASSUME NEW c, Ready(c), NEW key, CustomFieldType(key, c).ty # "diagnostic",
           NEW e \in Events(c), NEW ns \in {"malloc", "free"}
    PROVE  Fits(FieldAt(c.fields, key, CustomFragment(ns, c, e)), CustomFieldType(key, c).ty)
<1>1. CustomFragment(ns, c, e) \in DOMAIN c.extras \cup {None}
  <2>1. \A d \in Events(c) : ExtraAt(c, d) \in DOMAIN c.extras \cup {None}
    BY DEF Ready, GoodIndexes
  <2>2. c.death[e] \in Events(c) \cup {None}
    BY DEF Ready, GoodIndexes
  <2> QED  BY <2>1, <2>2 DEF CustomFragment
<1>2. PICK f : f = CustomFragment(ns, c, e)
  OBVIOUS
<1>3. PICK keys : c.fields = [k \in keys |-> [g \in DOMAIN c.extras |-> ValueIn(c.extras[g], k)]]
  BY DEF Ready
<1>4. CASE key \in DOMAIN c.fields /\ f # None
  <2>1. f \in DOMAIN c.extras /\ key \in keys
    BY <1>1, <1>2, <1>3, <1>4
  <2>2. FieldAt(c.fields, key, f) = ValueIn(c.extras[f], key)
    BY <1>3, <1>4, <2>1 DEF FieldAt
  <2> QED  BY <1>2, <2>1, <2>2, FragmentFits
<1>5. CASE ~(key \in DOMAIN c.fields /\ f # None)
  <2>1. FieldAt(c.fields, key, f) = Missing
    BY <1>5 DEF FieldAt
  <2> QED  BY <1>2, <2>1 DEF Fits
<1> QED  BY <1>4, <1>5

\* A reference that resolves names an event of the trace.
LEMMA ReferenceIsEvent ==
    ASSUME NEW c, Ready(c), NEW x, ReferenceEvent(x, c) # None
    PROVE  ReferenceEvent(x, c) \in Events(c)
<1>1. \A i \in DOMAIN c.names : c.names[i][1] \in Events(c)
  BY DEF Ready, GoodMarks
<1>2. \A events : TheOnly(events) = None \/ TheOnly(events) \in events
  BY DEF TheOnly
<1>3. \A n : {e \in Creators(c) : c.id[e] = n} \subseteq Events(c)
  BY DEF Creators
<1>4. CASE Len(x.args) = 1 /\ x.callee.name = "named" /\ x.args[1].k = "String"
  <2> DEFINE carrying == {i \in DOMAIN c.names : c.names[i][2] = x.args[1].s}
  <2>1. ReferenceEvent(x, c) =
          IF \E i \in carrying : carrying = {i}
          THEN c.names[CHOOSE i \in carrying : TRUE][1] ELSE None
    BY <1>4 DEF ReferenceEvent
  <2>2. \E i \in carrying : carrying = {i}
    BY <2>1
  <2>3. (CHOOSE i \in carrying : TRUE) \in DOMAIN c.names
    BY <2>2
  <2> QED  BY <1>1, <2>1, <2>2, <2>3
<1>5. CASE /\ Len(x.args) = 1 /\ x.callee.name = "allocation" /\ x.args[1].k = "Integer"
           /\ x.args[1].unit = "none" /\ x.args[1].n <= MaxWord
  <2>1. ReferenceEvent(x, c) = TheOnly({e \in Creators(c) : c.id[e] = x.args[1].n})
    BY <1>5 DEF ReferenceEvent
  <2> QED  BY <1>2, <1>3, <2>1
<1>6. ASSUME ~(Len(x.args) = 1 /\ x.callee.name = "named" /\ x.args[1].k = "String"),
             ~(/\ Len(x.args) = 1 /\ x.callee.name = "allocation" /\ x.args[1].k = "Integer"
               /\ x.args[1].unit = "none" /\ x.args[1].n <= MaxWord)
      PROVE  ReferenceEvent(x, c) = None
  BY <1>6 DEF ReferenceEvent
<1> QED  BY <1>4, <1>5, <1>6

LEMMA PathShape ==
    ASSUME NEW x
    PROVE  /\ ResolvePath(x).leaf \in {"none", "Builtin", "Custom"}
           /\ ResolvePath(x).leaf = "Custom" => ResolvePath(x).ns \in {"malloc", "free"}
BY DEF ResolvePath, PathOn, NoPath, Builtin, Carried

LEMMA PathFits ==
    ASSUME NEW c, Ready(c), NEW e \in Events(c), NEW x, PathType(x, c).ty # "diagnostic"
    PROVE  Fits(ReadPath(ResolvePath(x), c, e), PathType(x, c).ty)
<1>1. PICK p : p = ResolvePath(x)
  OBVIOUS
<1>2. Bad.ty = "diagnostic"
  BY DEF Bad, Required
<1>3. p.leaf \in {"Builtin", "Custom"} /\ (p.subject # Self => ReferenceEvent(p.subject, c) # None)
  BY <1>1, <1>2, PathShape DEF PathType
<1>4. PICK who : who = IF p.subject = Self THEN e ELSE ReferenceEvent(p.subject, c)
  OBVIOUS
<1>5. who \in Events(c)
  BY <1>3, <1>4, ReferenceIsEvent
<1>6. CASE p.leaf = "Builtin"
  <2>1. PathType(x, c) = FieldType(p.ns, p.name)
    BY <1>1, <1>3, <1>6 DEF PathType
  <2>2. ReadPath(p, c, e) = FieldValue(p.ns, p.name, c, who)
    BY <1>4, <1>6 DEF ReadPath
  <2> QED  BY <1>1, <1>5, <2>1, <2>2, FieldFits
<1>7. CASE p.leaf = "Custom"
  <2>1. PathType(x, c) = CustomFieldType(p.name, c)
    BY <1>1, <1>3, <1>7 DEF PathType
  <2>2. ReadPath(p, c, e) = FieldAt(c.fields, p.name, CustomFragment(p.ns, c, who))
    BY <1>4, <1>7 DEF ReadPath
  <2>3. p.ns \in {"malloc", "free"}
    BY <1>1, <1>7, PathShape
  <2> QED  BY <1>1, <1>5, <2>1, <2>2, <2>3, CustomFits
<1> QED  BY <1>3, <1>6, <1>7

LEMMA ScalarOfKnown ==
    ASSUME NEW c, Ready(c), NEW key
    PROVE  ScalarOf(Shapes(c, key)) \in {"none", "Bool", "Int", "Float", "String"}
<1>1. \A s \in Shapes(c, key) : s \in {"Bool", "Int", "Float", "String", "Null", "Other"}
  BY DEF Shapes, Ready, GoodFields
<1>2. PICK shapes : shapes = Shapes(c, key)
  OBVIOUS
<1> QED  BY <1>1, <1>2 DEF ScalarOf

\* A value that may be missing is a scalar.
LEMMA OptionalIsScalar ==
    ASSUME NEW c, Ready(c), NEW x, PathType(x, c).opt
    PROVE  PathType(x, c).ty \in {"Bool", "Int", "Float", "String"}
<1>1. PICK p : p = ResolvePath(x)
  OBVIOUS
<1>2. Bad.opt = FALSE /\ \A ty : Required(ty).opt = FALSE /\ Optional(ty).ty = ty
  BY DEF Bad, Required, Optional
<1>3. ~(p.subject # Self /\ ReferenceEvent(p.subject, c) = None) /\ p.leaf \in {"Builtin", "Custom"}
  BY <1>1, <1>2, PathShape DEF PathType
<1>4. CASE p.leaf = "Builtin"
  <2>1. PathType(x, c) = FieldType(p.ns, p.name)
    BY <1>1, <1>3, <1>4 DEF PathType
  <2>2. FieldType(p.ns, p.name).opt => FieldType(p.ns, p.name).ty \in {"Int", "String"}
    BY DEF FieldType, Bad, Required, Optional
  <2> QED  BY <2>1, <2>2
<1>5. CASE p.leaf = "Custom"
  <2>1. PathType(x, c) = CustomFieldType(p.name, c)
    BY <1>1, <1>3, <1>5 DEF PathType
  <2>2. CustomFieldType(p.name, c) = Optional(ScalarOf(Shapes(c, p.name)))
        /\ ScalarOf(Shapes(c, p.name)) # "none"
    BY <1>2, <2>1 DEF CustomFieldType
  <2> QED  BY <1>2, <2>1, <2>2, ScalarOfKnown
<1> QED  BY <1>3, <1>4, <1>5

-----------------------------------------------------------------------------
(* The operations over typed parts. *)

\* The types no operation is applied to.
Untyped == {"diagnostic", "Allocation"}

\* A value that a tree of a type may have; Error when one of its ranges is unbounded.
Sound(v, ty, unbounded) ==
    ty \notin Untyped => (v = Error /\ unbounded) \/ Fits(v, ty)

\* What the induction knows of the parts of x.
PartsSound(x, T, V, open) ==
    \A z \in Parts(x) :
        /\ Sound(V[z], T[z].ty, open[z])
        /\ T[z].opt => T[z].ty \in {"Bool", "Int", "Float", "String"}
        /\ z.k = "Set" /\ z.items = <<>> => V[z] = SetVal(<<>>)

\* Some part that is used is unbounded, or x itself is.
Opens(x, V, open) ==
    \/ \E z \in Parts(x) : open[z]
    \/ x.k = "Range" /\ Missing \in {V[x.lo], V[x.hi]}

NodeSound(x, T, V, open, c, e) ==
    Sound(ValueOver(x, V, c, e), TypeOver(x, T, c).ty, Opens(x, V, open))

LEMMA PartSound ==
    ASSUME NEW x, NEW T, NEW V, NEW open, PartsSound(x, T, V, open), NEW z \in Parts(x),
           T[z].ty \notin Untyped
    PROVE  /\ V[z] = Error \/ Fits(V[z], T[z].ty)
           /\ V[z] = Error => Opens(x, V, open)
<1>1. (V[z] = Error /\ open[z]) \/ Fits(V[z], T[z].ty)
  BY DEF PartsSound, Sound
<1>2. Fits(V[z], T[z].ty) => V[z] # Error
  BY FitsTags
<1> QED  BY <1>1, <1>2 DEF Opens

LEMMA KnownTypes ==
    /\ Bad.ty = "diagnostic" /\ Bad.opt = FALSE
    /\ \A ty : /\ Required(ty).ty = ty /\ Required(ty).opt = FALSE
               /\ Optional(ty).ty = ty
               /\ ty \in Numeric \cup {"Bool", "String", "Range"} \cup SetNames => ty \notin Untyped
BY DEF Bad, Required, Optional, Untyped, Numeric, SetNames

LEMMA LeafSound ==
    ASSUME NEW x \in Leaves, NEW T, NEW V, NEW open, NEW c, NEW e
    PROVE  NodeSound(x, T, V, open, c, e)
<1>1. CASE x.k = "Bool"
  <2>1. TypeOver(x, T, c).ty = "Bool" /\ \E b : ValueOver(x, V, c, e) = BoolVal(b)
    BY <1>1 DEF TypeOver, IsReferenceCall, ValueOver, Required
  <2> QED  BY <2>1, BoolFits DEF NodeSound, Sound
<1>2. CASE x.k = "Integer"
  <2>1. PICK v : v = NumberLiteral(x.n, x.unit, c.unit, FALSE)
    OBVIOUS
  <2>2. TypeOver(x, T, c) = LiteralType(v) /\ ValueOver(x, V, c, e) = v
    BY <1>2, <2>1 DEF TypeOver, IsReferenceCall, ValueOver
  <2>3. v = Missing \/ v \in Numbers
    BY <2>1, NumberLiteralFits
  <2> QED  BY <2>2, <2>3, LiteralFits DEF NodeSound, Sound, Fits, Typed, Untyped
<1>3. CASE x.k = "Float"
  <2>1. PICK v : v = FloatLiteral(x.h, x.unit, c.unit)
    OBVIOUS
  <2>2. TypeOver(x, T, c) = LiteralType(v) /\ ValueOver(x, V, c, e) = v
    BY <1>3, <2>1 DEF TypeOver, IsReferenceCall, ValueOver
  <2>3. v = Missing \/ v \in Numbers
    BY <2>1, FloatLiteralFits
  <2> QED  BY <2>2, <2>3, LiteralFits DEF NodeSound, Sound, Fits, Typed, Untyped
<1>4. CASE x.k = "String"
  <2>1. TypeOver(x, T, c).ty = "String" /\ ValueOver(x, V, c, e).t = "String"
    BY <1>4 DEF TypeOver, IsReferenceCall, ValueOver, Required, StringVal
  <2> QED  BY <2>1 DEF NodeSound, Sound, Fits, Typed
<1>5. CASE x.k = "Identifier"
  <2>1. TypeOver(x, T, c).ty = "diagnostic"
    BY <1>5, KnownTypes DEF TypeOver, IsReferenceCall
  <2> QED  BY <2>1 DEF NodeSound, Sound, Untyped
<1> QED  BY <1>1, <1>2, <1>3, <1>4, <1>5, LeafKinds

LEMMA UnarySound ==
    ASSUME NEW x, NEW T, NEW V, NEW open, NEW c, NEW e, PartsSound(x, T, V, open),
           x.k = "Unary", x.op \in {"not", "-"}
    PROVE  NodeSound(x, T, V, open, c, e)
<1>0. x.x \in Parts(x)
  BY DEF Parts
<1>1. PICK v : v = V[x.x]
  OBVIOUS
<1>2. CASE x.op = "not"
  <2> SUFFICES ASSUME T[x.x].ty = "Bool"
               PROVE  NodeSound(x, T, V, open, c, e)
    <3>1. T[x.x].ty # "Bool" => TypeOver(x, T, c) = Bad
      BY <1>2 DEF TypeOver, IsReferenceCall
    <3> QED  BY <3>1, KnownTypes DEF NodeSound, Sound, Untyped
  <2>1. TypeOver(x, T, c).ty = "Bool"
    BY <1>2, KnownTypes DEF TypeOver, IsReferenceCall
  <2>2. v = Error \/ Fits(v, "Bool")
    BY <1>0, <1>1, PartSound DEF Untyped
  <2>3. v = Error => Opens(x, V, open)
    BY <1>0, <1>1, PartSound DEF Untyped
  <2>4. ValueOver(x, V, c, e) = IF v = Missing THEN BoolVal(FALSE)
                                ELSE IF v.t = "Bool" THEN BoolVal(~v.b) ELSE Error
    BY <1>1, <1>2 DEF ValueOver
  <2>5. v # Error => \E b : ValueOver(x, V, c, e) = BoolVal(b)
    BY <2>2, <2>4, FitsTags
  <2>6. v = Error => ValueOver(x, V, c, e) = Error
    <3>1. v = Error => v # Missing /\ v.t # "Bool"
      BY DEF Missing, Error
    <3> QED  BY <2>4, <3>1
  <2> QED  BY <2>1, <2>3, <2>5, <2>6, BoolFits DEF NodeSound, Sound
<1>3. CASE x.op = "-" /\ x.x.k = "Integer"
  <2>1. PICK n : n = NumberLiteral(x.x.n, x.x.unit, c.unit, TRUE)
    OBVIOUS
  <2>2. TypeOver(x, T, c) = LiteralType(n) /\ ValueOver(x, V, c, e) = n
    BY <1>3, <2>1 DEF TypeOver, IsReferenceCall, ValueOver
  <2>3. n = Missing \/ n \in Numbers
    BY <2>1, NumberLiteralFits
  <2> QED  BY <2>2, <2>3, LiteralFits DEF NodeSound, Sound, Fits, Typed, Untyped
<1>4. CASE x.op = "-" /\ x.x.k # "Integer"
  <2> SUFFICES ASSUME T[x.x].ty \in Numeric
               PROVE  NodeSound(x, T, V, open, c, e)
    <3>1. T[x.x].ty \notin Numeric => TypeOver(x, T, c) = Bad
      BY <1>4 DEF TypeOver, IsReferenceCall
    <3> QED  BY <3>1, KnownTypes DEF NodeSound, Sound, Untyped
  <2>1. TypeOver(x, T, c).ty \in Numeric
    BY <1>4, KnownTypes DEF TypeOver, IsReferenceCall
  <2>2. T[x.x].ty \notin Untyped
    BY KnownTypes
  <2>3. (v = Error \/ Fits(v, T[x.x].ty)) /\ (v = Error => Opens(x, V, open))
    BY <1>0, <1>1, <2>2, PartSound
  <2>4. ValueOver(x, V, c, e) = IF IsNum(v) THEN Negated(v) ELSE IF v = Missing THEN Missing ELSE Error
    BY <1>1, <1>4 DEF ValueOver
  <2>5. v # Error => ValueOver(x, V, c, e) = Missing \/ ValueOver(x, V, c, e) \in Numbers
    <3>1. ~IsNum(Missing)
      BY DEF IsNum, Missing
    <3>2. v # Error => v = Missing \/ (v \in Numbers /\ IsNum(v))
      BY <2>3, FitsTags
    <3>3. v \in Numbers => Negated(v) = Missing \/ Negated(v) \in Numbers
      BY SignChanges
    <3> QED  BY <2>4, <3>1, <3>2, <3>3
  <2>6. v = Error => ValueOver(x, V, c, e) = Error
    BY <2>4 DEF Missing, Error, IsNum
  <2> QED  BY <2>1, <2>3, <2>5, <2>6 DEF NodeSound, Sound, Fits, Typed
<1> QED  BY <1>2, <1>3, <1>4

LEMMA IsNoneSound ==
    ASSUME NEW x, NEW T, NEW V, NEW open, NEW c, NEW e, PartsSound(x, T, V, open), x.k = "IsNone"
    PROVE  NodeSound(x, T, V, open, c, e)
<1>0. x.x \in Parts(x)
  BY DEF Parts
<1> SUFFICES ASSUME T[x.x].opt PROVE NodeSound(x, T, V, open, c, e)
  <2>1. ~T[x.x].opt => TypeOver(x, T, c) = Bad
    BY DEF TypeOver, IsReferenceCall
  <2> QED  BY <2>1, KnownTypes DEF NodeSound, Sound, Untyped
<1>1. PICK v : v = V[x.x]
  OBVIOUS
<1>2. T[x.x].ty \notin Untyped
  BY <1>0 DEF PartsSound, Untyped
<1>3. v = Error => Opens(x, V, open)
  BY <1>0, <1>1, <1>2, PartSound
<1>4. TypeOver(x, T, c).ty = "Bool"
  BY KnownTypes DEF TypeOver, IsReferenceCall
<1>5. v = Error => ValueOver(x, V, c, e) = Error
  BY <1>1 DEF ValueOver
<1>6. v # Error => ValueOver(x, V, c, e) = BoolVal((v = Missing) # x.negated)
  BY <1>1 DEF ValueOver
<1> QED  BY <1>3, <1>4, <1>5, <1>6, BoolFits DEF NodeSound, Sound

LEMMA RangeSound ==
    ASSUME NEW x, NEW T, NEW V, NEW open, NEW c, NEW e, PartsSound(x, T, V, open), x.k = "Range"
    PROVE  NodeSound(x, T, V, open, c, e)
<1>0. x.lo \in Parts(x) /\ x.hi \in Parts(x)
  BY DEF Parts
<1> SUFFICES ASSUME T[x.lo].ty \in Numeric, T[x.hi].ty \in Numeric
             PROVE  NodeSound(x, T, V, open, c, e)
  <2>1. ~(T[x.lo].ty \in Numeric /\ T[x.hi].ty \in Numeric) => TypeOver(x, T, c) = Bad
    BY DEF TypeOver, IsReferenceCall
  <2> QED  BY <2>1, KnownTypes DEF NodeSound, Sound, Untyped
<1>1. PICK lo, hi : lo = V[x.lo] /\ hi = V[x.hi]
  OBVIOUS
<1>2. TypeOver(x, T, c).ty = "Range"
  BY KnownTypes DEF TypeOver, IsReferenceCall
<1>3. ValueOver(x, V, c, e) = IF IsNum(lo) /\ IsNum(hi) THEN RangeVal(lo, hi) ELSE Error
  BY <1>1 DEF ValueOver
<1>4. CASE IsNum(lo) /\ IsNum(hi)
  <2>1. ValueOver(x, V, c, e).t = "Range"
    BY <1>3, <1>4 DEF RangeVal
  <2> QED  BY <1>2, <2>1 DEF NodeSound, Sound, Fits, Typed
<1>5. CASE ~(IsNum(lo) /\ IsNum(hi))
  <2>1. T[x.lo].ty \notin Untyped /\ T[x.hi].ty \notin Untyped
    BY KnownTypes
  <2>2. /\ lo = Error \/ Fits(lo, T[x.lo].ty)
        /\ hi = Error \/ Fits(hi, T[x.hi].ty)
        /\ lo = Error \/ hi = Error => Opens(x, V, open)
    BY <1>0, <1>1, <2>1, PartSound
  <2>3. lo = Error \/ hi = Error \/ Missing \in {lo, hi}
    BY <1>5, <2>2, FitsTags
  <2>4. Opens(x, V, open)
    BY <1>1, <2>2, <2>3 DEF Opens
  <2> QED  BY <1>3, <1>5, <2>4 DEF NodeSound, Sound
<1> QED  BY <1>4, <1>5
LEMMA SetSound ==
    ASSUME NEW x, NEW T, NEW V, NEW open, NEW c, NEW e, PartsSound(x, T, V, open), x.k = "Set",
           Len(x.items) \in 0..MaxSetMembers, DOMAIN x.items = 1..Len(x.items)
    PROVE  NodeSound(x, T, V, open, c, e)
<1>0. \A i \in DOMAIN x.items : x.items[i] \in Parts(x)
  BY DEF Parts, ToSet
<1>1. PICK types : types = {T[x.items[i]].ty : i \in DOMAIN x.items}
  OBVIOUS
<1>2. TypeOver(x, T, c) = SetType(types)
  BY <1>1 DEF TypeOver, IsReferenceCall
<1> SUFFICES ASSUME SetType(types).ty # "diagnostic" PROVE NodeSound(x, T, V, open, c, e)
  BY <1>2 DEF NodeSound, Sound, Untyped
<1>3. (\E kind \in Scalars : types = {kind}) \/ types = Numeric
  BY KnownTypes DEF SetType
<1>4. SetType(types).ty \in SetNames /\ types \subseteq Scalars
  <2>1. CASE types = {}
    BY <1>3, <2>1 DEF Numeric
  <2>2. CASE types # {} /\ \E kind \in Scalars : types = {kind}
    <3>1. PICK kind \in Scalars : types = {kind}
      BY <2>2
    <3>2. (CHOOSE k \in types : TRUE) = kind /\ types # Numeric
      <4>1. (CHOOSE k \in types : TRUE) \in types
        BY <3>1
      <4>2. "Int" \in Numeric /\ "Float" \in Numeric /\ "Int" # "Float"
        BY DEF Numeric
      <4> QED  BY <3>1, <4>1, <4>2
    <3>3. SetType(types) = Required(SetTypes[kind])
      BY <2>2, <3>2 DEF SetType
    <3> QED  BY <3>1, <3>3, KnownTypes, KindsOfMembers
  <2>3. CASE types = Numeric /\ ~(\E kind \in Scalars : types = {kind})
    <3>1. types # {}
      BY <2>3 DEF Numeric
    <3>2. SetType(types) = Required("Floats")
      BY <2>3, <3>1 DEF SetType
    <3> QED  BY <2>3, <3>2, KnownTypes, KindsOfMembers DEF SetNames, Numeric
  <2> QED  BY <1>3, <2>1, <2>2, <2>3
<1>5. ASSUME NEW i \in DOMAIN x.items, V[x.items[i]] = Error
      PROVE  Opens(x, V, open)
  <2>1. T[x.items[i]].ty \in types
    BY <1>1
  <2>2. T[x.items[i]].ty \notin Untyped
    BY <1>4, <2>1, KindsOfMembers DEF Untyped
  <2> QED  BY <1>0, <1>5, <2>2, PartSound
<1>6. CASE \E i \in DOMAIN x.items : V[x.items[i]] = Error
  <2>1. ValueOver(x, V, c, e) = Error
    BY <1>6 DEF ValueOver
  <2> QED  BY <1>5, <1>6, <2>1 DEF NodeSound, Sound
<1>7. CASE ~ \E i \in DOMAIN x.items : V[x.items[i]] = Error
  <2>1. PICK m : m = [i \in DOMAIN x.items |-> V[x.items[i]]]
    OBVIOUS
  <2>2. ValueOver(x, V, c, e) = SetVal(m)
    BY <1>7, <2>1 DEF ValueOver
  <2>3. PICK n : n = Len(x.items)
    OBVIOUS
  <2>4. n \in Nat /\ n \in 0..MaxInt
    BY <2>3, TreesAssumption, ContextAssumption, NumbersAssumption
       DEF TreesAssumption, ContextAssumption, NumbersAssumption
  <2> DEFINE item(i) == V[x.items[i]]
  <2>5. m = [i \in 1..n |-> item(i)]
    BY <2>1, <2>3
  <2> HIDE DEF item
  <2>6. Len(m) = n
    BY <2>4, <2>5
  <2> QED  BY <1>2, <1>4, <2>2, <2>4, <2>6 DEF NodeSound, Sound, Fits, Typed, SetVal
<1> QED  BY <1>6, <1>7

LEMMA PathSound ==
    ASSUME NEW x, NEW T, NEW V, NEW open, NEW c, Ready(c), NEW e \in Events(c),
           x.k \in {"Field", "Index"}
    PROVE  NodeSound(x, T, V, open, c, e)
<1>1. TypeOver(x, T, c) = PathType(x, c)
  BY DEF TypeOver, IsReferenceCall
<1>2. ValueOver(x, V, c, e) = ReadPath(ResolvePath(x), c, e)
  BY DEF ValueOver
<1> QED  BY <1>1, <1>2, PathFits DEF NodeSound, Sound, Untyped

LEMMA MethodSound ==
    ASSUME NEW x, NEW T, NEW V, NEW open, NEW c, NEW e, PartsSound(x, T, V, open), x.k = "Call",
           x.callee.k = "Field", DOMAIN x.args = 1..Len(x.args)
    PROVE  NodeSound(x, T, V, open, c, e)
<1>0. ~IsReferenceCall(x)
  BY DEF IsReferenceCall
<1> SUFFICES ASSUME Len(x.args) = 1 PROVE NodeSound(x, T, V, open, c, e)
  <2>1. Len(x.args) # 1 => TypeOver(x, T, c) = Bad
    BY <1>0 DEF TypeOver
  <2> QED  BY <2>1, KnownTypes DEF NodeSound, Sound, Untyped
<1>1. x.callee.base \in Parts(x) /\ x.args[1] \in Parts(x)
  BY DEF Parts, ToSet
<1>2. PICK p, q : p = T[x.callee.base] /\ q = T[x.args[1]]
  OBVIOUS
<1>3. PICK a, b : a = V[x.callee.base] /\ b = V[x.args[1]]
  OBVIOUS
<1>4. TypeOver(x, T, c) = MethodType(x.callee.name, p, q)
  BY <1>0, <1>2 DEF TypeOver
<1>5. ValueOver(x, V, c, e) = Method(x.callee.name, a, b)
  BY <1>3 DEF ValueOver
<1> SUFFICES ASSUME MethodType(x.callee.name, p, q).ty # "diagnostic"
             PROVE  NodeSound(x, T, V, open, c, e)
  BY <1>4 DEF NodeSound, Sound, Untyped
<1>6. p.ty \notin Untyped /\ q.ty \notin Untyped
  BY KnownTypes DEF MethodType, Untyped
<1>7. /\ a = Error \/ Fits(a, p.ty)
      /\ b = Error \/ Fits(b, q.ty)
      /\ a = Error \/ b = Error => Opens(x, V, open)
  BY <1>1, <1>2, <1>3, <1>6, PartSound
<1>8. /\ MethodType(x.callee.name, p, q).ty = "Bool"
      /\ Method(x.callee.name, a, b) = Error => Error \in {a, b}
      /\ Method(x.callee.name, a, b) = Error \/ Fits(Method(x.callee.name, a, b), "Bool")
  BY <1>7, MethodFits
<1> QED  BY <1>4, <1>5, <1>7, <1>8 DEF NodeSound, Sound

LEMMA FunctionSound ==
    ASSUME NEW x, NEW T, NEW V, NEW open, NEW c, NEW e, PartsSound(x, T, V, open), x.k = "Call",
           x.callee.k # "Field", DOMAIN x.args = 1..Len(x.args)
    PROVE  NodeSound(x, T, V, open, c, e)
<1>1. CASE IsReferenceCall(x)
  <2>1. TypeOver(x, T, c) = IF ReferenceEvent(x, c) = None THEN Bad ELSE Required("Allocation")
    BY <1>1 DEF TypeOver
  <2> QED  BY <2>1, KnownTypes DEF NodeSound, Sound, Untyped
<1>2. CASE ~IsReferenceCall(x)
  <2>1. PICK t, v : t = T[x.args[1]] /\ v = V[x.args[1]]
    OBVIOUS
  <2>2. TypeOver(x, T, c) =
           IF x.callee.k # "Identifier" \/ Len(x.args) # 1 THEN Bad
           ELSE IF x.callee.name = "len" /\ MemberKind(t.ty) # "none" THEN Required("Int")
           ELSE IF x.callee.name = "abs" /\ t.ty \in Numeric THEN Required(t.ty)
           ELSE Bad
    BY <1>2, <2>1 DEF TypeOver
  <2> SUFFICES ASSUME Len(x.args) = 1,
                      \/ x.callee.name = "len" /\ MemberKind(t.ty) # "none"
                      \/ x.callee.name = "abs" /\ t.ty \in Numeric
               PROVE  NodeSound(x, T, V, open, c, e)
    BY <2>2, KnownTypes DEF NodeSound, Sound, Untyped
  <2>3. x.args[1] \in Parts(x)
    BY DEF Parts, ToSet
  <2>4. t.ty \notin Untyped
    BY KnownTypes, KindsOfMembers
  <2>5. (v = Error \/ Fits(v, t.ty)) /\ (v = Error => Opens(x, V, open))
    BY <2>1, <2>3, <2>4, PartSound
  <2>6. ValueOver(x, V, c, e) = Function(x.callee.name, v)
    BY <2>1 DEF ValueOver
  <2>7. TypeOver(x, T, c).ty \in Numeric \/ TypeOver(x, T, c) = Bad
    BY <2>2, KnownTypes DEF Numeric
  <2>8. CASE v = Error
    <3>1. Function(x.callee.name, v) = Error
      BY <2>8 DEF Function, Error, Missing, IsNum
    <3> QED  BY <2>5, <2>6, <2>8, <3>1 DEF NodeSound, Sound
  <2>9. CASE v = Missing
    <3>1. Function(x.callee.name, v) = Missing
      BY <2>9 DEF Function, Missing, IsNum
    <3> QED  BY <2>6, <3>1 DEF NodeSound, Sound, Fits
  <2>10. CASE v # Error /\ v # Missing /\ x.callee.name = "len"
    <3>1. v.t = "Set" /\ Len(v.members) \in 0..MaxInt
      BY <2>5, <2>10, KindsOfMembers, FitsTags
    <3>2. Function(x.callee.name, v) = IntNum(Len(v.members))
      BY <2>10, <3>1 DEF Function
    <3>3. IntNum(Len(v.members)) \in Numbers
      BY <3>1, NumbersAssumption DEF NumbersAssumption, Numbers, Ints, MinInt
    <3> QED  BY <2>6, <2>7, <3>2, <3>3, KnownTypes DEF NodeSound, Sound, Fits, Typed, Untyped
  <2>11. CASE v # Error /\ v # Missing /\ x.callee.name = "abs"
    <3>1. v \in Numbers /\ IsNum(v)
      BY <2>5, <2>11, FitsTags
    <3>2. Function(x.callee.name, v) = Absolute(v)
      BY <2>11, <3>1 DEF Function
    <3> QED  BY <2>6, <2>7, <3>1, <3>2, SignChanges, KnownTypes DEF NodeSound, Sound, Fits, Typed, Untyped
  <2> QED  BY <2>8, <2>9, <2>10, <2>11
<1> QED  BY <1>1, <1>2

\* Only typed operands are operated on.
LEMMA OperandTypes ==
    ASSUME NEW op \in BinaryOps, NEW l, NEW r, BinaryType(op, l, r).ty # "diagnostic"
    PROVE  l.ty \notin Untyped /\ r.ty \notin Untyped
<1>1. \A ty : ty \in Numeric \cup {"Bool", "String", "Range"} \cup SetNames => ty \notin Untyped
  BY KnownTypes
<1>2. \A s, t : Agree(s, t) => s \in Numeric \cup {"Bool", "String"} /\ t \in Numeric \cup {"Bool", "String"}
  BY KindsOfMembers DEF Agree, Numeric
<1>3. MemberKind(r.ty) \in Numeric \cup {"Bool", "String"} => r.ty \in SetNames
  BY KindsOfMembers DEF Numeric
<1>4. MemberKind(l.ty) # "none" => l.ty \in SetNames
  BY KindsOfMembers
<1>5. BinaryType(op, l, r) # Bad
  BY KnownTypes
<1>6. CASE op = "in"
  BY <1>1, <1>2, <1>3, <1>5, <1>6 DEF BinaryType
<1>7. CASE op \in ComparisonOps
  BY <1>1, <1>2, <1>4, <1>5, <1>7 DEF BinaryType, ComparisonOps
<1>8. CASE op \in {"and", "or", "+", "-"}
  BY <1>1, <1>5, <1>8 DEF BinaryType
<1> QED  BY <1>6, <1>7, <1>8 DEF BinaryOps

LEMMA BinarySound ==
    ASSUME NEW x, NEW T, NEW V, NEW open, NEW c, NEW e, PartsSound(x, T, V, open), x.k = "Binary",
           x.op \in BinaryOps
    PROVE  NodeSound(x, T, V, open, c, e)
<1>0. x.l \in Parts(x) /\ x.r \in Parts(x)
  BY DEF Parts
<1> DEFINE kind  == IF MemberKind(T[x.l].ty) # "none" THEN MemberKind(T[x.l].ty)
                    ELSE IF T[x.l].ty \in Scalars THEN T[x.l].ty ELSE "Bool"
           empty == x.r.k = "Set" /\ x.op \in {"in", "==", "!="} /\ x.r.items = <<>>
<1>1. PICK l, r : l = T[x.l] /\ r = IF empty THEN Required(SetTypes[kind]) ELSE T[x.r]
  OBVIOUS
<1>2. TypeOver(x, T, c) = IF Bad \in {l, r} THEN Bad ELSE BinaryType(x.op, l, r)
  BY <1>1 DEF TypeOver, IsReferenceCall
<1>3. kind \in Scalars
  BY KindsOfMembers
<1> HIDE DEF kind
<1> SUFFICES ASSUME Bad \notin {l, r}, BinaryType(x.op, l, r).ty # "diagnostic"
             PROVE  NodeSound(x, T, V, open, c, e)
  BY <1>2, KnownTypes DEF NodeSound, Sound, Untyped
<1>4. l.ty \notin Untyped /\ r.ty \notin Untyped
  BY OperandTypes
<1>5. PICK a, b : a = V[x.l] /\ b = V[x.r]
  OBVIOUS
<1>6. (a = Error \/ Fits(a, l.ty)) /\ (a = Error => Opens(x, V, open))
  BY <1>0, <1>1, <1>4, <1>5, PartSound
<1>7. (b = Error \/ Fits(b, r.ty)) /\ (b = Error => Opens(x, V, open))
  <2>1. CASE empty
    <3>1. b = SetVal(<<>>)
      BY <1>0, <1>5, <2>1 DEF PartsSound
    <3>2. r.ty \in SetNames
      BY <1>1, <1>3, <2>1, KindsOfMembers, KnownTypes
    <3>3. Len(<<>>) = 0 /\ 0 \in 0..MaxInt
      BY NumbersAssumption DEF NumbersAssumption
    <3>4. b.t = "Set" /\ Len(b.members) \in 0..MaxInt
      BY <3>1, <3>3 DEF SetVal
    <3>5. b # Error
      BY <3>4 DEF Error
    <3> QED  BY <3>2, <3>4, <3>5 DEF Fits, Typed
  <2>2. CASE ~empty
    <3>1. r = T[x.r]
      BY <1>1, <2>2
    <3> QED  BY <1>0, <1>4, <1>5, <3>1, PartSound
  <2> QED  BY <2>1, <2>2
<1> HIDE DEF empty
<1>8. TypeOver(x, T, c) = BinaryType(x.op, l, r)
  BY <1>2
<1>9. CASE x.op \in {"and", "or"}
  <2>1. l.ty = "Bool" /\ r.ty = "Bool" /\ TypeOver(x, T, c).ty = "Bool"
    BY <1>8, <1>9, KnownTypes DEF BinaryType
  <2>2. PICK p, q : p = Answer(a) /\ q = Answer(b)
    OBVIOUS
  <2>3. /\ p = Error => a = Error
        /\ q = Error => b = Error
        /\ p = Error \/ p.t = "Bool"
        /\ q = Error \/ q.t = "Bool"
    BY <1>6, <1>7, <2>1, <2>2, AnswerFits
  <2>4. ValueOver(x, V, c, e) = IF p = Error \/ Truth(p) = (x.op = "or") THEN p ELSE q
    BY <1>5, <1>9, <2>2 DEF ValueOver
  <2>5. ValueOver(x, V, c, e) = p \/ ValueOver(x, V, c, e) = q
    BY <2>4
  <2> QED  BY <1>6, <1>7, <2>1, <2>3, <2>5 DEF NodeSound, Sound, Fits, Typed
<1>10. CASE x.op \notin {"and", "or"} /\ Error \in {a, b}
  <2>1. ValueOver(x, V, c, e) = Error
    BY <1>5, <1>10 DEF ValueOver
  <2> QED  BY <1>6, <1>7, <1>10, <2>1 DEF NodeSound, Sound
<1>11. CASE x.op \in {"+", "-"} /\ Error \notin {a, b}
  <2>1. l.ty \in Numeric /\ r.ty \in Numeric /\ TypeOver(x, T, c).ty \in Numeric
    BY <1>8, <1>11, KnownTypes DEF BinaryType, Numeric
  <2>2. ValueOver(x, V, c, e) = IF IsNum(a) /\ IsNum(b) THEN Arith(a, b, x.op = "-") ELSE Missing
    BY <1>5, <1>11 DEF ValueOver
  <2>3. CASE IsNum(a) /\ IsNum(b)
    <3>1. a \in Numbers /\ b \in Numbers
      <4>1. ~IsNum(Missing)
        BY DEF IsNum, Missing
      <4> QED  BY <1>6, <1>7, <1>11, <2>1, <2>3, <4>1, FitsTags
    <3>2. PICK sub : sub = (x.op = "-") /\ sub \in BOOLEAN
      OBVIOUS
    <3>3. Arith(a, b, sub) = Missing \/ Arith(a, b, sub) \in Numbers
      BY <3>1, <3>2, ArithFits
    <3>4. ValueOver(x, V, c, e) = Arith(a, b, x.op = "-")
      BY <2>2, <2>3
    <3>5. ValueOver(x, V, c, e) = Arith(a, b, sub)
      BY <3>2, <3>4, Zenon
    <3> QED  BY <2>1, <3>3, <3>5 DEF NodeSound, Sound, Fits, Typed
  <2>4. CASE ~(IsNum(a) /\ IsNum(b))
    BY <2>2, <2>4 DEF NodeSound, Sound, Fits
  <2> QED  BY <2>3, <2>4
<1>12. CASE x.op = "in" /\ Error \notin {a, b}
  <2>1. TypeOver(x, T, c).ty = "Bool"
    BY <1>8, <1>12, KnownTypes DEF BinaryType
  <2>2. ValueOver(x, V, c, e) = Member(a, b)
    BY <1>5, <1>12 DEF ValueOver
  <2>3. BinaryType("in", l, r).ty # "diagnostic" /\ Fits(a, l.ty) /\ Fits(b, r.ty)
    BY <1>6, <1>7, <1>12
  <2> QED  BY <2>1, <2>2, <2>3, MemberFits DEF NodeSound, Sound
<1>13. CASE x.op \in ComparisonOps /\ Error \notin {a, b}
  <2>1. TypeOver(x, T, c).ty = "Bool"
    BY <1>8, <1>13, KnownTypes DEF BinaryType, ComparisonOps
  <2>2. ValueOver(x, V, c, e) = Compare(x.op, a, b)
    BY <1>5, <1>13 DEF ValueOver, ComparisonOps
  <2>3. Fits(a, l.ty) /\ Fits(b, r.ty)
    BY <1>6, <1>7, <1>13
  <2> QED  BY <1>13, <2>1, <2>2, <2>3, CompareFits DEF NodeSound, Sound
<1>14. x.op \in {"and", "or", "+", "-", "in"} \cup ComparisonOps
  BY DEF BinaryOps
<1> QED  BY <1>9, <1>10, <1>11, <1>12, <1>13, <1>14

(***************************************************************************)
(* The induction: a tree over sound parts is sound.                        *)
(***************************************************************************)
LEMMA TreeShape ==
    ASSUME NEW x \in Trees
    PROVE  \/ x \in Leaves
           \/ x.k = "Unary" /\ x.op \in {"not", "-"}
           \/ x.k = "Binary" /\ x.op \in BinaryOps
           \/ x.k \in {"Field", "Index"}
           \/ x.k = "Call" /\ DOMAIN x.args = 1..Len(x.args)
           \/ x.k = "Set" /\ DOMAIN x.items = 1..Len(x.items) /\ Len(x.items) \in 0..MaxSetMembers
           \/ x.k \in {"Range", "IsNone"}
<1>1. \E S : x \in Leaves \cup Over(S)
  <2>1. Depth \in Nat /\ Trees = TreesUpTo[Depth]
    BY TreesByHeight DEF Trees
  <2>2. CASE Depth = 0
    BY <2>1, <2>2, TreesByHeight
  <2>3. CASE Depth # 0
    <3>1. PICK n : n = Depth - 1
      OBVIOUS
    <3>2. n \in Nat /\ n + 1 <= Depth /\ Depth = n + 1
      BY <2>1, <2>3, <3>1
    <3> QED  BY <2>1, <3>2, TreesByHeight
  <2> QED  BY <2>2, <2>3
<1>2. PICK S : x \in Leaves \cup Over(S)
  BY <1>1
<1>3. MaxSetMembers \in Nat
  BY TreesAssumption DEF TreesAssumption
<1>4. CASE x \in Over(S)
  <2>1. ASSUME NEW s \in Seq(S) PROVE DOMAIN s = 1..Len(s) /\ Len(s) \in Nat
    BY <2>1
  <2> QED  BY <1>3, <1>4, <2>1, OverCases
<1> QED  BY <1>2, <1>4

LEMMA EverySound ==
    ASSUME NEW x \in Trees, NEW T, NEW V, NEW open, NEW c, Ready(c), NEW e \in Events(c),
           PartsSound(x, T, V, open)
    PROVE  NodeSound(x, T, V, open, c, e)
<1>1. CASE x \in Leaves
  BY <1>1, LeafSound
<1>2. CASE x.k = "Unary" /\ x.op \in {"not", "-"}
  BY <1>2, UnarySound
<1>3. CASE x.k = "Binary" /\ x.op \in BinaryOps
  BY <1>3, BinarySound
<1>4. CASE x.k \in {"Field", "Index"}
  BY <1>4, PathSound
<1>5. CASE x.k = "Call" /\ DOMAIN x.args = 1..Len(x.args)
  BY <1>5, MethodSound, FunctionSound
<1>6. CASE x.k = "Set" /\ DOMAIN x.items = 1..Len(x.items) /\ Len(x.items) \in 0..MaxSetMembers
  BY <1>6, SetSound
<1>7. CASE x.k \in {"Range", "IsNone"}
  BY <1>7, RangeSound, IsNoneSound
<1> QED  BY <1>1, <1>2, <1>3, <1>4, <1>5, <1>6, <1>7, TreeShape

\* Only a scalar may be missing.
LEMMA OptAnywhere ==
    ASSUME NEW x \in Trees, NEW T, NEW c, Ready(c), TypeOver(x, T, c).opt
    PROVE  TypeOver(x, T, c).ty \in {"Bool", "Int", "Float", "String"}
<1>0. Bad.opt = FALSE /\ \A ty : Required(ty).opt = FALSE
  BY KnownTypes
<1>1. /\ \A v : LiteralType(v).opt = FALSE
      /\ \A types : SetType(types).opt = FALSE
      /\ \A name, p, q : MethodType(name, p, q).opt = FALSE
      /\ \A op, p, q : op \in BinaryOps => BinaryType(op, p, q).opt = FALSE
  <2>1. \A v : LiteralType(v).opt = FALSE
    BY <1>0 DEF LiteralType
  <2>2. \A types : SetType(types).opt = FALSE
    BY <1>0 DEF SetType
  <2>3. \A name, p, q : MethodType(name, p, q).opt = FALSE
    BY <1>0 DEF MethodType
  <2>4. \A op, p, q : op \in BinaryOps => BinaryType(op, p, q).opt = FALSE
    BY <1>0 DEF BinaryType, BinaryOps, ComparisonOps
  <2> QED  BY <2>1, <2>2, <2>3, <2>4
<1>2. x.k \in {"Field", "Index"}
  <2> SUFFICES ASSUME x.k \notin {"Field", "Index"} PROVE TypeOver(x, T, c).opt = FALSE
    OBVIOUS
  <2>1. CASE x \in Leaves
    BY <1>0, <1>1, <2>1, LeafKinds DEF TypeOver, IsReferenceCall
  <2>2. CASE x.k = "Unary" /\ x.op \in {"not", "-"}
    BY <1>0, <1>1, <2>2 DEF TypeOver, IsReferenceCall
  <2>3. CASE x.k = "Binary" /\ x.op \in BinaryOps
    BY <1>0, <1>1, <2>3 DEF TypeOver, IsReferenceCall
  <2>4. CASE x.k = "Call"
    BY <1>0, <1>1, <2>4 DEF TypeOver, IsReferenceCall
  <2>5. CASE x.k = "Set"
    <3>1. \E types : TypeOver(x, T, c) = SetType(types)
      BY <2>5 DEF TypeOver, IsReferenceCall
    <3> QED  BY <1>1, <3>1
  <2>6. CASE x.k \in {"Range", "IsNone"}
    BY <1>0, <2>6 DEF TypeOver, IsReferenceCall
  <2> QED  BY <2>1, <2>2, <2>3, <2>4, <2>5, <2>6, TreeShape
<1>3. TypeOver(x, T, c) = PathType(x, c)
  BY <1>2 DEF TypeOver, IsReferenceCall
<1> QED  BY <1>3, OptionalIsScalar

LEMMA SubtreesKept ==
    ASSUME NEW x \in Trees, NEW z \in Parts(x), NEW c, NEW e, Unbounded(z, c, e)
    PROVE  Unbounded(x, c, e)
<1>1. Subtrees(z) \subseteq Subtrees(x)
  BY SubtreesOver
<1> QED  BY <1>1 DEF Unbounded

(***************************************************************************)
(* Soundness of check_type for eval (filter_eval.rs:909, 1985), for every  *)
(* expression and not only for a whole filter: at every event of a trace   *)
(* an expression that has a type evaluates to a value of that type, its    *)
(* integers within i128 and its sets countable, or is missing; it is an    *)
(* error only where a range in it has a bound that is missing.             *)
(***************************************************************************)
THEOREM TypesSound ==
    ASSUME NEW c, Ready(c), NEW e \in Events(c), NEW x \in Trees
    PROVE  Sound(Eval(x, c, e), CheckType(x, c).ty, Unbounded(x, c, e))
<1> DEFINE Good(y) == /\ Sound(Eval(y, c, e), CheckType(y, c).ty, Unbounded(y, c, e))
                      /\ CheckType(y, c).opt => CheckType(y, c).ty \in {"Bool", "Int", "Float", "String"}
                      /\ y.k = "Set" /\ y.items = <<>> => Eval(y, c, e) = SetVal(<<>>)
           S == {y \in Trees : Good(y)}
<1>1. ASSUME NEW y \in Trees, Parts(y) \subseteq S PROVE y \in S
  <2>1. PICK V : V = [z \in Parts(y) |-> Eval(z, c, e)]
    OBVIOUS
  <2>2. PICK T : T = [z \in Parts(y) |-> CheckType(z, c)]
    OBVIOUS
  <2>3. PICK open : open = [z \in Parts(y) |-> Unbounded(z, c, e)]
    OBVIOUS
  <2>4. Eval(y, c, e) = ValueOver(y, V, c, e) /\ CheckType(y, c) = TypeOver(y, T, c)
    BY <2>1, <2>2, EvalOver, TypesOver
  <2>5. ASSUME NEW z \in Parts(y)
        PROVE  /\ Sound(V[z], T[z].ty, open[z])
               /\ T[z].opt => T[z].ty \in {"Bool", "Int", "Float", "String"}
               /\ z.k = "Set" /\ z.items = <<>> => V[z] = SetVal(<<>>)
    <3>1. Good(z)
      BY <1>1, <2>5
    <3>2. V[z] = Eval(z, c, e) /\ T[z] = CheckType(z, c)
      BY <2>1, <2>2, <2>5
    <3>3. open[z] = Unbounded(z, c, e)
      BY <2>3, <2>5
    <3> QED  BY <3>1, <3>2, <3>3
  <2>6. PartsSound(y, T, V, open)
    BY <2>5 DEF PartsSound
  <2>7. NodeSound(y, T, V, open, c, e)
    BY <2>6, EverySound
  <2>8. ASSUME Opens(y, V, open) PROVE Unbounded(y, c, e)
    <3>1. CASE \E z \in Parts(y) : open[z]
      <4>1. PICK z \in Parts(y) : open[z]
        BY <3>1
      <4>2. Unbounded(z, c, e)
        BY <2>3, <4>1
      <4> QED  BY <4>1, <4>2, SubtreesKept
    <3>2. CASE y.k = "Range" /\ Missing \in {V[y.lo], V[y.hi]}
      <4>1. y.lo \in Parts(y) /\ y.hi \in Parts(y)
        BY <3>2 DEF Parts
      <4>2. Missing \in {Eval(y.lo, c, e), Eval(y.hi, c, e)}
        BY <2>1, <3>2, <4>1
      <4>3. y \in Subtrees(y)
        BY SubtreesOver
      <4> QED  BY <3>2, <4>2, <4>3 DEF Unbounded
    <3> QED  BY <2>8, <3>1, <3>2 DEF Opens
  <2>9. Sound(Eval(y, c, e), CheckType(y, c).ty, Unbounded(y, c, e))
    BY <2>4, <2>7, <2>8 DEF NodeSound, Sound
  <2>10. CheckType(y, c).opt => CheckType(y, c).ty \in {"Bool", "Int", "Float", "String"}
    BY <2>4, OptAnywhere
  <2>11. y.k = "Set" /\ y.items = <<>> => Eval(y, c, e) = SetVal(<<>>)
    <3> SUFFICES ASSUME y.k = "Set", y.items = <<>> PROVE ValueOver(y, V, c, e) = SetVal(<<>>)
      BY <2>4
    <3>1. DOMAIN y.items = {}
      OBVIOUS
    <3>2. [i \in DOMAIN y.items |-> V[y.items[i]]] = <<>>
      BY <3>1
    <3> QED  BY <3>1, <3>2 DEF ValueOver
  <2> QED  BY <2>9, <2>10, <2>11
<1> HIDE DEF S
<1>2. Trees \subseteq S
  BY <1>1, TreeInduction
<1> QED  BY <1>2 DEF S

-----------------------------------------------------------------------------
(* The pipeline. *)

LEMMA SameColumns ==
    ASSUME NEW o, DOMAIN o = ColumnNames, NEW F, NEW c, c = [o EXCEPT !.fields = F]
    PROVE  /\ c.op = o.op /\ c.id = o.id /\ c.addr = o.addr /\ c.size = o.size /\ c.t = o.t
           /\ c.death = o.death /\ c.usable = o.usable /\ c.site = o.site /\ c.thr = o.thr
           /\ c.stack = o.stack /\ c.extra = o.extra /\ c.sites = o.sites /\ c.thrs = o.thrs
           /\ c.stacks = o.stacks /\ c.extras = o.extras /\ c.tags = o.tags
           /\ c.labels = o.labels /\ c.names = o.names /\ c.unit = o.unit /\ c.fields = F
BY DEF ColumnNames

LEMMA ContextReady ==
    ASSUME NEW o \in Contexts, NEW x, NEW c, c = [o EXCEPT !.fields = Resolve(x, o)]
    PROVE  Ready(c) /\ Creators(c) = Creators(o) /\ Creators(c) \subseteq Events(c)
<1>1. GoodContext(o)
  BY PipelineAssumption DEF PipelineAssumption
<1>2. /\ c.op = o.op /\ c.id = o.id /\ c.addr = o.addr /\ c.size = o.size /\ c.t = o.t
      /\ c.death = o.death /\ c.usable = o.usable /\ c.site = o.site /\ c.thr = o.thr
      /\ c.stack = o.stack /\ c.extra = o.extra /\ c.sites = o.sites /\ c.thrs = o.thrs
      /\ c.stacks = o.stacks /\ c.extras = o.extras /\ c.tags = o.tags
      /\ c.labels = o.labels /\ c.names = o.names /\ c.fields = Resolve(x, o)
  BY <1>1, SameColumns DEF GoodContext
<1>3. Events(c) = Events(o) /\ Creators(c) = Creators(o) /\ Creators(c) \subseteq Events(c)
  BY <1>2 DEF Events, Creators
<1>4. \A e : /\ UsableAt(c, e) = UsableAt(o, e) /\ StackAt(c, e) = StackAt(o, e)
             /\ ExtraAt(c, e) = ExtraAt(o, e)
  BY <1>2 DEF UsableAt, StackAt, ExtraAt
<1>5. GoodNumbers(c)
  BY <1>1, <1>2, <1>3, <1>4 DEF GoodContext, GoodNumbers
<1>6. GoodIndexes(c)
  BY <1>1, <1>2, <1>3, <1>4 DEF GoodContext, GoodIndexes
<1>7. GoodFields(c)
  <2>1. Pairs(c) = Pairs(o)
    BY <1>2 DEF Pairs
  <2> QED  BY <1>1, <1>2, <2>1 DEF GoodContext, GoodFields
<1>8. GoodMarks(c)
  BY <1>1, <1>2, <1>3 DEF GoodContext, GoodMarks
<1>9. \E keys : c.fields = [key \in keys |-> [f \in DOMAIN c.extras |-> ValueIn(c.extras[f], key)]]
  BY <1>2 DEF Resolve
<1> QED  BY <1>3, <1>5, <1>6, <1>7, <1>8, <1>9 DEF Ready

\* Checking reads no custom values.
LEMMA SameTypes ==
    ASSUME NEW o \in Contexts, NEW F, NEW c, c = [o EXCEPT !.fields = F], NEW x \in Trees
    PROVE  CheckType(x, c) = CheckType(x, o)
<1>0. /\ c.op = o.op /\ c.id = o.id /\ c.extras = o.extras /\ c.names = o.names /\ c.unit = o.unit
  <2>1. DOMAIN o = ColumnNames
    BY PipelineAssumption DEF PipelineAssumption, GoodContext
  <2> QED  BY <2>1, SameColumns
<1>1. Creators(c) = Creators(o)
  BY <1>0 DEF Creators, Events
<1>2. \A y : ReferenceEvent(y, c) = ReferenceEvent(y, o)
  BY <1>0, <1>1 DEF ReferenceEvent
<1>3. \A key : CustomFieldType(key, c) = CustomFieldType(key, o)
  <2>1. Pairs(c) = Pairs(o)
    BY <1>0 DEF Pairs
  <2> QED  BY <2>1 DEF CustomFieldType, CatalogKeys, Shapes
<1>4. ASSUME NEW y PROVE PathType(y, c) = PathType(y, o)
  <2>1. PICK p : p = ResolvePath(y)
    OBVIOUS
  <2>2. ReferenceEvent(p.subject, c) = ReferenceEvent(p.subject, o)
    BY <1>2
  <2>3. CustomFieldType(p.name, c) = CustomFieldType(p.name, o)
    BY <1>3
  <2>4. p.leaf \in {"none", "Builtin", "Custom"}
    BY <2>1, PathShape
  <2> QED  BY <2>1, <2>2, <2>3, <2>4 DEF PathType
<1>5. \A y, T : TypeOver(y, T, c) = TypeOver(y, T, o)
  BY <1>0, <1>2, <1>4 DEF TypeOver
<1> DEFINE S == {y \in Trees : CheckType(y, c) = CheckType(y, o)}
<1>6. ASSUME NEW y \in Trees, Parts(y) \subseteq S PROVE y \in S
  <2>1. PICK T : T = [z \in Parts(y) |-> CheckType(z, c)]
    OBVIOUS
  <2>2. T = [z \in Parts(y) |-> CheckType(z, o)]
    BY <1>6, <2>1
  <2>3. CheckType(y, c) = TypeOver(y, T, c)
    BY <2>1, TypesOver
  <2>4. CheckType(y, o) = TypeOver(y, T, o)
    BY <2>2, TypesOver
  <2> QED  BY <1>5, <2>3, <2>4
<1> HIDE DEF S
<1>7. Trees \subseteq S
  BY <1>6, TreeInduction
<1> QED  BY <1>7 DEF S

\* A well-typed tree, for an event of a trace whose fields were resolved.
LEMMA CheckedSound ==
    ASSUME NEW o \in Contexts, NEW x \in Trees, WellTyped(x, o), NEW e \in Creators(o),
           NEW c, c = [o EXCEPT !.fields = Resolve(x, o)]
    PROVE  /\ (Eval(x, c, e) = Error /\ Unbounded(x, c, e)) \/ Fits(Eval(x, c, e), "Bool")
           /\ CheckType(x, c).ty = "Bool" /\ Ready(c) /\ e \in Events(c)
<1>1. Ready(c) /\ e \in Events(c)
  BY ContextReady
<1>2. CheckType(x, c).ty = "Bool"
  BY SameTypes DEF WellTyped
<1> QED  BY <1>1, <1>2, TypesSound DEF Sound, Untyped

-----------------------------------------------------------------------------
(***************************************************************************)
(* The invariant: what is under way came from a draft, parsed to a tree    *)
(* and, once checked, is of type Bool in the trace it was checked against. *)
(***************************************************************************)
Written == {draft.ts : draft \in FirstDrafts \cup LaterDrafts}

PipelineInv ==
    /\ ctx \in Contexts
    /\ DOMAIN filter = {"on", "mode", "bits"}
    /\ phase = "Written" => source \in Written
    /\ phase \in {"Parsed", "Checked", "Scanning"} => tree \in Trees
    /\ phase = "Checked" => WellTyped(tree, ctx)

LEMMA WrittenParses == \A ts \in Written : Parser(ts).ok => Parser(ts).e \in Trees
BY PipelineAssumption DEF PipelineAssumption, Written

LEMMA InitPipeline == Init => PipelineInv
BY DEF Init, PipelineInv, NoFilter

LEMMA StepPipeline == PipelineInv /\ [Next]_vars => PipelineInv'
<1> SUFFICES ASSUME PipelineInv, [Next]_vars PROVE PipelineInv'
  OBVIOUS
<1>1. ASSUME Return, DOMAIN filter' = {"on", "mode", "bits"}, ctx' = ctx PROVE PipelineInv'
  BY <1>1 DEF Return, PipelineInv
<1>2. CASE Diagnostic
  BY <1>1, <1>2 DEF Diagnostic, PipelineInv
<1>3. CASE ApplyEmpty
  BY <1>1, <1>3 DEF ApplyEmpty, NoFilter
<1>4. ASSUME NEW draft \in IF filter.on THEN LaterDrafts ELSE FirstDrafts, Begin(draft)
      PROVE  PipelineInv'
  <2>1. draft.ts \in Written
    BY <1>4 DEF Written
  <2> QED  BY <1>4, <2>1 DEF Begin, PipelineInv
<1>5. CASE ParseSource
  <2> SUFFICES ASSUME Parser(source).ok PROVE PipelineInv'
    BY <1>2, <1>5 DEF ParseSource
  <2>1. Parser(source).e \in Trees
    BY <1>5, WrittenParses DEF ParseSource, PipelineInv
  <2> QED  BY <1>5, <2>1 DEF ParseSource, PipelineInv
<1>6. CASE CheckTree
  <2> SUFFICES ASSUME WellTyped(tree, ctx) PROVE PipelineInv'
    BY <1>2, <1>6 DEF CheckTree
  <2>1. ctx' = ctx /\ tree' = tree /\ filter' = filter /\ phase' = "Checked" /\ phase = "Parsed"
    BY <1>6 DEF CheckTree, stages
  <2> QED  BY <2>1 DEF PipelineInv
<1>7. CASE LowerTree
  <2> SUFFICES ASSUME Lowering(tree, WithFields) # NoPlan PROVE PipelineInv'
    BY <1>2, <1>7 DEF LowerTree
  <2> QED  BY <1>7 DEF LowerTree, PipelineInv
<1>8. CASE Scan
  BY <1>8 DEF Scan, PipelineInv
<1>9. CASE Install
  BY <1>1, <1>9 DEF Install
<1>10. ASSUME NEW mode \in 0..MaxMode + 1, SetMode(mode) PROVE PipelineInv'
  <2>1. ctx' = ctx /\ phase' = phase /\ source' = source /\ tree' = tree
    BY <1>10 DEF SetMode, stages
  <2>2. DOMAIN filter' = DOMAIN filter
    BY <1>10 DEF SetMode
  <2> QED  BY <2>1, <2>2 DEF PipelineInv
<1>11. CASE UNCHANGED vars
  <2>1. ctx' = ctx /\ phase' = phase /\ source' = source /\ tree' = tree /\ filter' = filter
    BY <1>11 DEF vars
  <2> QED  BY <2>1 DEF PipelineInv
<1> QED  BY <1>3, <1>4, <1>5, <1>6, <1>7, <1>8, <1>9, <1>10, <1>11 DEF Next

(***************************************************************************)
(* Every stage of hp_filter_apply works on a tree that the parser built    *)
(* from a draft, and lowering only on one that was checked.                *)
(***************************************************************************)
THEOREM PipelineInvariant == Spec => []PipelineInv
BY InitPipeline, StepPipeline, PTL DEF Spec

(***************************************************************************)
(* A filter that was checked has an answer for every allocation of the     *)
(* trace, whatever the trace, except where a range in it has no bound      *)
(* (filter_eval.rs:2038).                                                  *)
(***************************************************************************)
THEOREM CheckingIsSound == Spec => []CheckedNeverStuck
<1>1. PipelineInv => CheckedNeverStuck
  <2> SUFFICES ASSUME PipelineInv, phase = "Checked", NEW e \in Stuck(tree, WithFields)
               PROVE  Unbounded(tree, WithFields, e)
    BY DEF CheckedNeverStuck
  <2>1. PICK c : c = WithFields
    OBVIOUS
  <2>2. c = [ctx EXCEPT !.fields = Resolve(tree, ctx)] /\ ctx \in Contexts /\ tree \in Trees
        /\ WellTyped(tree, ctx)
    BY <2>1 DEF WithFields, PipelineInv
  <2>3. e \in Creators(c) /\ Answer(Eval(tree, c, e)) = Error
    BY <2>1 DEF Stuck
  <2>4. e \in Creators(ctx)
    BY <2>2, <2>3, ContextReady
  <2>5. (Eval(tree, c, e) = Error /\ Unbounded(tree, c, e)) \/ Fits(Eval(tree, c, e), "Bool")
    BY <2>2, <2>4, CheckedSound
  <2>6. Fits(Eval(tree, c, e), "Bool") => Answer(Eval(tree, c, e)) # Error
    BY AnswerFits, FitsTags
  <2> QED  BY <2>1, <2>3, <2>5, <2>6
<1> QED  BY <1>1, PipelineInvariant, PTL

\* A typed value that is a number is one that the code can hold.
LEMMA NumberFits ==
    ASSUME NEW v, NEW ty, Fits(v, ty), IsNum(v)
    PROVE  v \in Numbers
<1>1. ~IsNum(Missing) /\ \A w : w.t \in {"Bool", "String", "Range", "Set"} => ~IsNum(w)
  BY DEF IsNum, Missing
<1> QED  BY <1>1, FitsTags

LEMMA ComparedNumbers ==
    ASSUME NEW c, Ready(c), NEW e \in Events(c), NEW x \in Trees, x.k = "Binary",
           x.op \in ComparisonOps, CheckType(x, c).ty = "Bool",
           IsNum(Eval(x.l, c, e)), IsNum(Eval(x.r, c, e))
    PROVE  /\ Eval(x.l, c, e) \in Numbers /\ Eval(x.r, c, e) \in Numbers
           /\ Eval(x, c, e) = Compare(x.op, Eval(x.l, c, e), Eval(x.r, c, e))
<1>0. x.l \in Parts(x) /\ x.r \in Parts(x) /\ x.l \in Trees /\ x.r \in Trees
  BY PartsAreTrees DEF Parts
<1>1. PICK a, b : a = Eval(x.l, c, e) /\ b = Eval(x.r, c, e)
  OBVIOUS
<1>2. a # Error /\ b # Error
  BY <1>1 DEF IsNum, Error
<1>3. PICK V : V = [z \in Parts(x) |-> Eval(z, c, e)]
  OBVIOUS
<1>4. V[x.l] = a /\ V[x.r] = b
  BY <1>0, <1>1, <1>3
<1>5. Eval(x, c, e) = ValueOver(x, V, c, e)
  BY <1>3, EvalOver
<1>6. ValueOver(x, V, c, e) = Compare(x.op, a, b)
  BY <1>2, <1>4 DEF ValueOver, ComparisonOps
<1>7. PICK T : T = [z \in Parts(x) |-> CheckType(z, c)]
  OBVIOUS
<1>8. T[x.l] = CheckType(x.l, c) /\ T[x.r] = CheckType(x.r, c)
  BY <1>0, <1>7
<1>9. TypeOver(x, T, c).ty = "Bool"
  BY <1>7, TypesOver
<1>10. ~(x.r.k = "Set" /\ x.r.items = <<>>)
  <2> SUFFICES ASSUME x.r.k = "Set", x.r.items = <<>> PROVE b.t = "Set"
    BY <1>1 DEF IsNum
  <2>1. PICK W : W = [z \in Parts(x.r) |-> Eval(z, c, e)]
    OBVIOUS
  <2>2. b = ValueOver(x.r, W, c, e)
    BY <1>0, <1>1, <2>1, EvalOver
  <2>3. DOMAIN x.r.items = {}
    OBVIOUS
  <2> QED  BY <2>2, <2>3 DEF ValueOver, SetVal
<1>11. BinaryType(x.op, T[x.l], T[x.r]).ty # "diagnostic"
  BY <1>9, <1>10, KnownTypes DEF TypeOver, IsReferenceCall
<1>12. T[x.l].ty \notin Untyped /\ T[x.r].ty \notin Untyped
  BY <1>11, OperandTypes DEF BinaryOps
<1>13. Fits(a, T[x.l].ty) /\ Fits(b, T[x.r].ty)
  BY <1>0, <1>1, <1>2, <1>8, <1>12, TypesSound DEF Sound
<1>14. a \in Numbers /\ b \in Numbers
  BY <1>1, <1>13, NumberFits
<1> QED  BY <1>1, <1>5, <1>6, <1>14

LEMMA TruthOfBool == \A q \in BOOLEAN : Truth(BoolVal(q)) = q
<1>1. Truth(BoolVal(TRUE)) = TRUE
  BY DEF Truth, BoolVal
<1>2. Truth(BoolVal(FALSE)) = FALSE
  BY DEF Truth, BoolVal
<1> QED  BY <1>1, <1>2

LEMMA OrderedIs ==
    ASSUME NEW d \in Int, NEW op \in ComparisonOps
    PROVE  /\ \E q \in BOOLEAN : q = Ordered(d, op)
           /\ op = "==" => (Ordered(d, op) <=> d = 0)
           /\ op = "!=" => (Ordered(d, op) <=> d # 0)
<1>1. CASE op = "<"
  <2>1. Ordered(d, op) = (d < 0)
    BY <1>1 DEF Ordered
  <2>2. (d < 0) = TRUE \/ (d < 0) = FALSE
    OBVIOUS
  <2> QED  BY <1>1, <2>1, <2>2, Zenon
<1>2. CASE op = "<="
  <2>1. Ordered(d, op) = (d <= 0)
    BY <1>2 DEF Ordered
  <2>2. (d <= 0) = TRUE \/ (d <= 0) = FALSE
    OBVIOUS
  <2> QED  BY <1>2, <2>1, <2>2, Zenon
<1>3. CASE op = ">"
  <2>1. Ordered(d, op) = (d > 0)
    BY <1>3 DEF Ordered
  <2>2. (d > 0) = TRUE \/ (d > 0) = FALSE
    OBVIOUS
  <2> QED  BY <1>3, <2>1, <2>2, Zenon
<1>4. CASE op = ">="
  <2>1. Ordered(d, op) = (d >= 0)
    BY <1>4 DEF Ordered
  <2>2. (d >= 0) = TRUE \/ (d >= 0) = FALSE
    OBVIOUS
  <2> QED  BY <1>4, <2>1, <2>2, Zenon
<1>5. CASE op = "=="
  BY <1>5 DEF Ordered
<1>6. CASE op = "!="
  BY <1>6 DEF Ordered
<1> QED  BY <1>1, <1>2, <1>3, <1>4, <1>5, <1>6 DEF ComparisonOps

LEMMA CompareNumbers ==
    ASSUME NEW op \in ComparisonOps, NEW a \in Numbers, NEW b \in Numbers
    PROVE  Truth(Compare(op, a, b)) = Ordered(Sign(Halves(a) - Halves(b)), op)
<1>0. IsNum(a) /\ IsNum(b) /\ Missing \notin {a, b}
      /\ a.t \notin {"Bool", "String", "Set"} /\ b.t \notin {"Bool", "String", "Set"}
  BY NumberTags
<1>1. PICK d : d = CmpNum(a, b)
  OBVIOUS
<1>2. d = Sign(Halves(a) - Halves(b))
  BY <1>1, ComparisonExact
<1>6. d \in Int
  BY <1>2, IntShape, FloatShape DEF Sign, Numbers
<1>3. PICK q \in BOOLEAN : q = Ordered(d, op)
  BY <1>6, OrderedIs
<1>4. CASE op \in {"==", "!="}
  <2>1. SameValue(a, b) = (d = 0)
    BY <1>0, <1>1 DEF SameValue, SameScalar
  <2>2. Compare(op, a, b) = BoolVal(SameValue(a, b) = (op = "=="))
    BY <1>0, <1>4 DEF Compare
  <2>3. (SameValue(a, b) = (op = "==")) = q
    BY <1>3, <1>4, <1>6, <2>1, OrderedIs
  <2>4. Compare(op, a, b) = BoolVal(q)
    BY <2>2, <2>3, Zenon
  <2> QED  BY <1>2, <1>3, <2>4, TruthOfBool, Zenon
<1>5. CASE op \in ComparisonOps \ {"==", "!="}
  <2>1. Compare(op, a, b) = BoolVal(Ordered(d, op))
    BY <1>0, <1>1, <1>5 DEF Compare
  <2>2. Compare(op, a, b) = BoolVal(q)
    BY <1>3, <2>1, Zenon
  <2> QED  BY <1>2, <1>3, <2>2, TruthOfBool, Zenon
<1> QED  BY <1>4, <1>5

(***************************************************************************)
(* Every comparison of numbers in a checked filter is exact (cmp_num):     *)
(* its operands, however they were computed, are numbers of i128 or f64,   *)
(* for which ComparisonExact holds.                                        *)
(***************************************************************************)
THEOREM ComparingIsExact == Spec => []ComparisonsExact
<1>1. PipelineInv => ComparisonsExact
  <2> SUFFICES ASSUME PipelineInv, phase = "Checked", tree.k = "Binary", tree.op \in ComparisonOps,
                      NEW e \in Creators(ctx),
                      IsNum(Eval(tree.l, WithFields, e)), IsNum(Eval(tree.r, WithFields, e))
               PROVE  Truth(Eval(tree, WithFields, e)) =
                        Ordered(Sign(Halves(Eval(tree.l, WithFields, e))
                                     - Halves(Eval(tree.r, WithFields, e))), tree.op)
    BY DEF ComparisonsExact
  <2>1. PICK c : c = WithFields
    OBVIOUS
  <2>2. c = [ctx EXCEPT !.fields = Resolve(tree, ctx)] /\ ctx \in Contexts /\ tree \in Trees
        /\ WellTyped(tree, ctx)
    BY <2>1 DEF WithFields, PipelineInv
  <2>3. CheckType(tree, c).ty = "Bool" /\ Ready(c) /\ e \in Events(c)
    BY <2>2, CheckedSound
  <2>4. /\ Eval(tree.l, c, e) \in Numbers /\ Eval(tree.r, c, e) \in Numbers
        /\ Eval(tree, c, e) = Compare(tree.op, Eval(tree.l, c, e), Eval(tree.r, c, e))
    BY <2>1, <2>2, <2>3, ComparedNumbers
  <2> QED  BY <2>1, <2>4, CompareNumbers
<1> QED  BY <1>1, PipelineInvariant, PTL

-----------------------------------------------------------------------------
LEMMA NoExprNoTree == NoExpr \notin Trees
<1>1. NoExpr.k = "NoExpr"
  BY DEF NoExpr
<1> QED  BY <1>1, TreeShape, LeafKinds

(***************************************************************************)
(* The calls themselves add no error: if the parser builds what was meant  *)
(* and the plan's bits are the evaluator's, what hp_filter_apply installs  *)
(* is what was written, and nothing else changes it.  The two hypotheses   *)
(* are what the runs check of FilterSyntax and of FilterPlan.              *)
(***************************************************************************)
THEOREM FilterIsWritten ==
    Spec /\ []ParsedAsWritten /\ []PlanAgreesWithOracle => FilterMeansSource
<1> DEFINE Chosen == Selected(meaning, [ctx EXCEPT !.fields = Resolve(meaning, ctx)])
           Means == \/ phase = "Idle" /\ filter' = NoFilter /\ reply'.ok
                    \/ phase = "Idle" /\ filter' = [filter EXCEPT !.mode = filter'.mode]
                    \/ /\ phase = "Scanning" /\ meaning # NoExpr
                       /\ LET chosen == Selected(meaning, [ctx EXCEPT !.fields = Resolve(meaning, ctx)])
                          IN  /\ filter' = [on |-> TRUE, mode |-> filter.mode, bits |-> chosen]
                              /\ reply'.ok /\ reply'.matches = Cardinality(chosen)
<1>1. PipelineInv /\ ParsedAsWritten /\ PlanAgreesWithOracle /\ [Next]_vars => [Means]_filter
  <2> SUFFICES ASSUME PipelineInv, ParsedAsWritten, PlanAgreesWithOracle, Next, filter' # filter
               PROVE  Means
    BY DEF vars
  <2>1. CASE ApplyEmpty
    BY <2>1 DEF ApplyEmpty
  <2>2. CASE Install
    <3>1. tree = meaning /\ bits = Selected(tree, WithFields) /\ tree \in Trees
      BY <2>2 DEF Install, ParsedAsWritten, PlanAgreesWithOracle, PipelineInv
    <3>2. meaning # NoExpr /\ bits = Chosen
      BY <3>1, NoExprNoTree DEF WithFields
    <3>3. /\ phase = "Scanning" /\ filter' = [on |-> TRUE, mode |-> filter.mode, bits |-> bits]
          /\ reply'.ok /\ reply'.matches = Cardinality(bits)
      BY <2>2 DEF Install
    <3> QED  BY <3>2, <3>3
  <2>3. ASSUME NEW mode \in 0..MaxMode + 1, SetMode(mode) PROVE Means
    <3>1. PICK m : filter' = [filter EXCEPT !.mode = m] /\ phase = "Idle"
      BY <2>3 DEF SetMode
    <3>2. "mode" \in DOMAIN filter
      BY DEF PipelineInv
    <3>3. filter'.mode = m
      BY <3>1, <3>2
    <3> QED  BY <3>1, <3>3
  <2>4. CASE ParseSource \/ CheckTree \/ LowerTree \/ Scan
    BY <2>4 DEF ParseSource, CheckTree, LowerTree, Scan, Diagnostic
  <2>5. ASSUME NEW draft, Begin(draft) PROVE FALSE
    BY <2>5 DEF Begin
  <2> QED  BY <2>1, <2>2, <2>3, <2>4, <2>5 DEF Next
<1> QED  BY <1>1, PipelineInvariant, PTL DEF Spec, FilterMeansSource

=============================================================================
