--------------------------- MODULE RowLayoutProofs ---------------------------
(***************************************************************************)
(* Proofs, for every value of the constants: the rows laid out are those   *)
(* of the present picture, a pixel finds the row that is drawn there, and  *)
(* a seek holds the top of the viewport in place.  First what the pure     *)
(* algorithms compute (placing the rows, the binary search), then the      *)
(* inductive invariant of the lazy layout, then the theorems.              *)
(***************************************************************************)
EXTENDS RowLayout, PlayheadProofs, SequenceTheorems

-----------------------------------------------------------------------------
(***************************************************************************)
(* The layout runs the playhead unchanged.                                 *)
(***************************************************************************)
RowsBounded == Len(rows) <= MaxEvents

LEMMA BoundInvariant == ParserSpec => []RowsBounded
<1>1. Init => RowsBounded
  BY ParserAssumption DEF Init, RowsBounded
<1>2. TypeOK /\ RowsBounded /\ [Next]_parserVars => RowsBounded'
  <2> SUFFICES ASSUME TypeOK, RowsBounded, [Next]_parserVars PROVE RowsBounded'
    OBVIOUS
  <2>1. CASE NewEvent
    <3>1. Len(rows) < MaxEvents /\ \E row : rows' = Append(rows, row)
      BY <2>1 DEF NewEvent, EventRow, Loading
    <3>2. rows \in Seq(Row)
      BY DEF TypeOK, LinkType
    <3>3. Len(rows') = Len(rows) + 1 /\ Len(rows) \in Nat
      BY <3>1, <3>2
    <3> QED  BY <3>1, <3>3, ParserAssumption DEF RowsBounded
  <2>2. CASE NoRow
    BY <2>2 DEF NoRow, RowsBounded
  <2> QED  BY <2>1, <2>2, RowOrNot
<1> QED  BY <1>1, <1>2, TypeCorrect, PTL DEF ParserSpec

LEMMA LayoutRunsParser == LayoutSpec => ParserSpec
<1>1. LayoutInit => Init
  BY DEF LayoutInit, PlayInit
<1>2. [LayoutNext]_allVars => [Next]_parserVars
  <2> SUFFICES ASSUME [LayoutNext]_allVars PROVE [Next]_parserVars
    OBVIOUS
  <2>1. CASE LayoutParse
    BY <2>1 DEF LayoutParse, Parse, Next
  <2>2. CASE LayoutReset
    BY <2>2 DEF LayoutReset, ParseEnd, Next
  <2>3. ASSUME NEW asked, BeginSeek(asked) PROVE UNCHANGED parserVars
    BY <2>3 DEF BeginSeek
  <2>4. CASE StepBack \/ \E asked \in 0..MaxEvents : SeekAnchored(asked) \/ Jump(asked)
    BY <2>3, <2>4 DEF SeekAnchored, Jump, StepBack, JumpTo
  <2>5. CASE Seeking \/ FinishSeek
    BY <2>5 DEF Seeking, FinishSeek, InsertFromSnapshot, StepForward, StepBackward, EndSeek
  <2>6. CASE \E asked \in RowWidths : SetWidth(asked)
    BY <2>6 DEF SetWidth, SetRowBytes
  <2>7. CASE \/ CentreHere \/ HoldInPlace \/ Render
             \/ \E limit \in Limits : SetCollapse(limit)
             \/ \E on \in BOOLEAN : SetShowAll(on)
             \/ \E marks \in MarkSets : SetPins(marks)
             \/ \E y \in Scrolls : ScrollBy(y)
             \/ \E addr \in Addrs : GotoAddr(addr)
    BY <2>7 DEF CentreHere, HoldInPlace, Render, SetCollapse, SetShowAll, SetPins,
                ScrollBy, GotoAddr, vars
  <2>8. CASE UNCHANGED allVars
    BY <2>8 DEF allVars, vars
  <2> QED
    BY <2>1, <2>2, <2>4, <2>5, <2>6, <2>7, <2>8 DEF LayoutNext
<1> QED  BY <1>1, <1>2, PTL DEF LayoutSpec, ParserSpec

LEMMA LayoutPlays ==
    ASSUME PlayInv, RowsBounded, TypeOK, [LayoutNext]_allVars
    PROVE  [PlayNext]_vars
<1>1. CASE LayoutParse
  BY <1>1 DEF LayoutParse, PlayNext
<1>2. CASE LayoutReset
  BY <1>2 DEF LayoutReset, PlayNext
<1>3. CASE \E asked \in 0..MaxEvents : SeekAnchored(asked) \/ Jump(asked)
  <2>1. 0..MaxEvents \subseteq 0..MaxEvents+1
    BY ParserAssumption
  <2> QED  BY <1>3, <2>1 DEF SeekAnchored, Jump, JumpTo, PlayNext
<1>4. CASE StepBack
  <2>1. cur - 1 \in 0..MaxEvents+1
    BY <1>4, RowsType, ParserAssumption DEF StepBack, PlayInv, RowsBounded
  <2> QED  BY <1>4, <2>1 DEF StepBack, JumpTo, PlayNext
<1>5. CASE Seeking \/ FinishSeek
  BY <1>5 DEF Seeking, FinishSeek, PlayNext, SeekStep
<1>6. CASE \E asked \in RowWidths : SetWidth(asked)
  BY <1>6 DEF SetWidth, PlayNext
<1>7. CASE \/ CentreHere \/ HoldInPlace \/ Render
           \/ \E limit \in Limits : SetCollapse(limit)
           \/ \E on \in BOOLEAN : SetShowAll(on)
           \/ \E marks \in MarkSets : SetPins(marks)
           \/ \E y \in Scrolls : ScrollBy(y)
           \/ \E addr \in Addrs : GotoAddr(addr)
  BY <1>7 DEF CentreHere, HoldInPlace, Render, SetCollapse, SetShowAll, SetPins,
              ScrollBy, GotoAddr
<1>8. CASE UNCHANGED allVars
  BY <1>8 DEF allVars
<1> QED
  BY <1>1, <1>2, <1>3, <1>4, <1>5, <1>6, <1>7, <1>8 DEF LayoutNext

LEMMA LayoutRunsPlay == LayoutSpec => PlaySpec
<1>1. LayoutSpec => []LiveInv /\ []RowsBounded
  BY LayoutRunsParser, LiveInvariant, BoundInvariant, PTL
<1>2. LayoutInit => PlayInit
  BY DEF LayoutInit
<1>3. PlayInv /\ LiveInv /\ RowsBounded /\ [LayoutNext]_allVars => [PlayNext]_vars
  BY LayoutPlays DEF LiveInv
<1>4. PlayInv /\ LiveInv /\ LiveInv' /\ [PlayNext]_vars => PlayInv'
  BY PlayStep
<1>5. LayoutSpec => []PlayInv
  BY <1>1, <1>2, <1>3, <1>4, InitPlay, PTL DEF LayoutSpec
<1> QED  BY <1>1, <1>2, <1>3, <1>5, PTL DEF LayoutSpec, PlaySpec

-----------------------------------------------------------------------------
(***************************************************************************)
(* One row more at the end of a layout: the rows placed are the last ones  *)
(* up to the new row, behind the gaps so far or one more.                  *)
(***************************************************************************)
LEMMA FiniteMax ==
    ASSUME NEW S, \A x \in S : x \in Nat, IsFiniteSet(S), S # {}
    PROVE  Max(S) \in S /\ \A x \in S : x <= Max(S)
<1> DEFINE F == {T \in SUBSET S : T # {} /\ ~ \E m \in T : \A x \in T : x <= m}
<1>1. F = {}
  <2>0. SUFFICES ASSUME F # {} PROVE FALSE
    OBVIOUS
  <2>1. F \in SUBSET (SUBSET S)
    OBVIOUS
  <2>2. \E T \in F : \A R \in F : R \subseteq T => R = T
    <3>1. \A G \in SUBSET (SUBSET S) :
             G # {} => \E T \in G : \A R \in G : R \subseteq T => R = T
      BY SmallestSet
    <3> HIDE DEF F
    <3> QED  BY <2>0, <2>1, <3>1, Zenon
  <2>3. PICK T \in SUBSET S : /\ T # {} /\ ~ \E m \in T : \A x \in T : x <= m
                              /\ \A R \in F : R \subseteq T => R = T
    BY <2>2
  <2>4. PICK x \in T : TRUE
    BY <2>3
  <2>5. T \ {x} \in SUBSET S /\ T \ {x} \notin F
    BY <2>3, <2>4
  <2>6. CASE T \ {x} = {}
    <3>1. \A y \in T : y <= x
      BY <2>4, <2>6
    <3> QED  BY <2>3, <2>4, <3>1
  <2>7. CASE T \ {x} # {}
    <3>1. PICK m \in T \ {x} : \A y \in T \ {x} : y <= m
      BY <2>5, <2>7
    <3>2. x \in Nat /\ m \in Nat /\ T \in SUBSET Nat
      BY <2>3, <2>4, <3>1
    <3>3. \/ \A y \in T : y <= x
          \/ \A y \in T : y <= m
      BY <3>1, <3>2
    <3> QED  BY <2>3, <2>4, <3>1, <3>3
  <2> QED  BY <2>6, <2>7
<1>2. \E m \in S : \A x \in S : x <= m
  BY <1>1
<1> QED  BY <1>2 DEF Max

Slot(row, gaps) == [row |-> row, gaps |-> gaps]

\* t is s and k more slots with the rows up to r, all behind g gaps.
Extended(t, s, r, k, g) ==
    /\ t \in Seq(Slots) /\ Len(t) = Len(s) + k
    /\ \A i \in 1..Len(s) : t[i] = s[i]
    /\ \A i \in Len(s)+1..Len(s)+k : t[i] = Slot(r - (Len(s) + k - i), g)

LEMMA Extending ==
    ASSUME NEW s \in Seq(Slots), NEW r \in Nat, NEW g \in Nat
    PROVE  /\ Extended(Append(s, Slot(r, g)), s, r, 1, g)
           /\ \A run \in Nat, m \in Nat :
                m + run + 1 = r =>
                  Extended(Append(s \o [k \in 1..run |-> Slot(m + k, g)], Slot(r, g)),
                           s, r, run + 1, g)
<1>1. Slot(r, g) \in Slots /\ Len(s) \in Nat
  BY DEF Slot, Slots
<1>2. Extended(Append(s, Slot(r, g)), s, r, 1, g)
  <2>1. /\ Append(s, Slot(r, g)) \in Seq(Slots)
        /\ Len(Append(s, Slot(r, g))) = Len(s) + 1
        /\ \A i \in 1..Len(s) : Append(s, Slot(r, g))[i] = s[i]
        /\ Append(s, Slot(r, g))[Len(s) + 1] = Slot(r, g)
    BY <1>1, AppendProperties
  <2>2. \A i \in Len(s)+1..Len(s)+1 : i = Len(s) + 1 /\ r - (Len(s) + 1 - i) = r
    BY <1>1
  <2> QED  BY <2>1, <2>2 DEF Extended
<1>3. ASSUME NEW run \in Nat, NEW m \in Nat, m + run + 1 = r
      PROVE  Extended(Append(s \o [k \in 1..run |-> Slot(m + k, g)], Slot(r, g)),
                      s, r, run + 1, g)
  <2> DEFINE F == [k \in 1..run |-> Slot(m + k, g)]
             u == s \o F
             t == Append(u, Slot(r, g))
  <2>1. F \in Seq(Slots) /\ Len(F) = run /\ \A k \in 1..run : F[k] = Slot(m + k, g)
    <3>1. \A k \in 1..run : Slot(m + k, g) \in Slots
      BY DEF Slot, Slots
    <3> QED  BY <3>1
  <2> HIDE DEF F
  <2>2. /\ u \in Seq(Slots) /\ Len(u) = Len(s) + run
        /\ \A i \in 1..Len(s) : u[i] = s[i]
        /\ \A i \in Len(s)+1..Len(s)+run : u[i] = F[i - Len(s)]
    <3>1. /\ u \in Seq(Slots) /\ Len(u) = Len(s) + Len(F)
          /\ \A i \in 1..Len(s) + Len(F) :
                u[i] = IF i <= Len(s) THEN s[i] ELSE F[i - Len(s)]
      BY <2>1, ConcatProperties
    <3>2. /\ 1..Len(s) \subseteq 1..Len(s) + run
          /\ Len(s)+1..Len(s)+run \subseteq 1..Len(s) + run
      BY <1>1
    <3> QED  BY <1>1, <2>1, <3>1, <3>2
  <2> HIDE DEF u
  <2>3. /\ t \in Seq(Slots) /\ Len(t) = Len(s) + run + 1
        /\ \A i \in 1..Len(s)+run : t[i] = u[i]
        /\ t[Len(s) + run + 1] = Slot(r, g)
    BY <1>1, <2>2, AppendProperties
  <2> HIDE DEF t
  <2>4. \A i \in 1..Len(s) : t[i] = s[i]
    BY <1>1, <2>2, <2>3
  <2>5. ASSUME NEW i \in Len(s)+1..Len(s)+(run+1)
        PROVE  t[i] = Slot(r - (Len(s) + (run + 1) - i), g)
    <3>1. CASE i = Len(s) + run + 1
      BY <1>1, <2>3, <3>1
    <3>2. CASE i # Len(s) + run + 1
      <4>1. i \in Len(s)+1..Len(s)+run /\ i \in 1..Len(s)+run /\ i - Len(s) \in 1..run
        BY <1>1, <3>2
      <4>2. t[i] = Slot(m + (i - Len(s)), g)
        BY <2>1, <2>2, <2>3, <4>1
      <4>3. m + (i - Len(s)) = r - (Len(s) + (run + 1) - i)
        BY <1>1, <1>3, <4>1
      <4> QED  BY <4>2, <4>3
    <3> QED  BY <3>1, <3>2
  <2>6. Len(t) = Len(s) + (run + 1)
    BY <1>1, <2>3
  <2>7. Extended(t, s, r, run + 1, g)
    BY <2>3, <2>4, <2>5, <2>6 DEF Extended
  <2> QED  BY <2>7 DEF t, u, F
<1> QED  BY <1>2, <1>3

LEMMA PlaceShape ==
    ASSUME NEW s \in Seq(Slots), NEW r \in Nat, EffectiveLimit \in Nat,
           NEW n, n = Len(s), n # 0 => s[n].row < r
    PROVE  \E k \in Nat \ {0}, g \in Nat :
              /\ Extended(Place(r)[s], s, r, k, g)
              /\ n = 0 => k = 1 /\ g = 0
              /\ n # 0 =>
                   LET run == r - s[n].row - 1 IN
                   /\ run = 0 => k = 1 /\ g = s[n].gaps
                   /\ run # 0 /\ run < EffectiveLimit => k = run + 1 /\ g = s[n].gaps
                   /\ run # 0 /\ ~(run < EffectiveLimit) => k = 1 /\ g = s[n].gaps + 1
<1>0. n \in Nat /\ (s = <<>> <=> n = 0)
  OBVIOUS
<1>1. Place(r)[s] =
        LET run == IF s = <<>> THEN 0 ELSE r - Last(s).row - 1
            gaps == IF s = <<>> THEN 0 ELSE Last(s).gaps
            Fillers == [k \in 1..run |-> [row |-> Last(s).row + k, gaps |-> gaps]]
        IN  IF run = 0 THEN Append(s, [row |-> r, gaps |-> gaps])
            ELSE IF run < EffectiveLimit
            THEN Append(s \o Fillers, [row |-> r, gaps |-> gaps])
            ELSE Append(s, [row |-> r, gaps |-> gaps + 1])
  BY DEF Place
<1>2. CASE n = 0
  <2>1. Place(r)[s] = Append(s, Slot(r, 0))
    BY <1>0, <1>1, <1>2 DEF Slot
  <2>2. Extended(Place(r)[s], s, r, 1, 0)
    BY <2>1, Extending
  <2> QED  BY <1>2, <2>2
<1>3. CASE n # 0
  <2>1. s[n] \in Slots
    BY <1>0, <1>3, ElementOfSeq
  <2>2. PICK m \in Nat, G \in Nat : m = s[n].row /\ G = s[n].gaps
    BY <2>1 DEF Slots
  <2>3. PICK run \in Nat : run = r - m - 1
    BY <1>3, <2>2
  <2>4. Last(s).row = m /\ Last(s).gaps = G /\ s # <<>>
    BY <1>0, <1>3, <2>2 DEF Last
  <2>5. Place(r)[s] = IF run = 0 THEN Append(s, Slot(r, G))
                      ELSE IF run < EffectiveLimit
                      THEN Append(s \o [k \in 1..run |-> Slot(m + k, G)], Slot(r, G))
                      ELSE Append(s, Slot(r, G + 1))
    BY <1>1, <2>3, <2>4 DEF Slot
  <2>6. m + run + 1 = r
    BY <2>2, <2>3
  <2>7. CASE run = 0
    <3>1. Extended(Place(r)[s], s, r, 1, G)
      BY <2>5, <2>7, Extending
    <3> QED  BY <1>3, <2>2, <2>3, <2>7, <3>1
  <2>8. CASE run # 0 /\ run < EffectiveLimit
    <3>1. Extended(Place(r)[s], s, r, run + 1, G)
      BY <2>5, <2>6, <2>8, Extending
    <3>2. run + 1 \in Nat \ {0}
      OBVIOUS
    <3> QED  BY <1>3, <2>2, <2>3, <2>8, <3>1, <3>2
  <2>9. CASE run # 0 /\ ~(run < EffectiveLimit)
    <3>1. Extended(Place(r)[s], s, r, 1, G + 1)
      BY <2>5, <2>9, Extending
    <3> QED  BY <1>3, <2>2, <2>3, <2>9, <3>1
  <2> QED  BY <2>7, <2>8, <2>9
<1> QED  BY <1>2, <1>3

-----------------------------------------------------------------------------
(***************************************************************************)
(* The empty runs between wanted rows, and one wanted row more.            *)
(***************************************************************************)
RunsIn(W) == {run \in W \X W : run[1] + 1 < run[2] /\ W \cap Between(run) = {}}
ShortIn(W) == {run \in RunsIn(W) : run[2] - run[1] - 1 < EffectiveLimit}
LongIn(W) == RunsIn(W) \ ShortIn(W)

LEMMA RunIs ==
    ASSUME NEW W \in SUBSET Nat, NEW p, NEW q
    PROVE  /\ <<p, q>> \in RunsIn(W)
                <=> p \in W /\ q \in W /\ p + 1 < q /\ \A x \in W : ~(p < x /\ x < q)
           /\ <<p, q>> \in ShortIn(W)
                <=> <<p, q>> \in RunsIn(W) /\ q - p - 1 < EffectiveLimit
<1>1. CASE p \in W /\ q \in W
  <2>1. p \in Nat /\ q \in Nat
    BY <1>1
  <2>2. Between(<<p, q>>) = p+1 .. q-1
    BY DEF Between
  <2>3. (W \cap Between(<<p, q>>) = {}) <=> \A x \in W : ~(p < x /\ x < q)
    BY <2>1, <2>2
  <2> QED  BY <1>1, <2>3 DEF RunsIn, ShortIn
<1>2. CASE ~(p \in W /\ q \in W)
  BY <1>2 DEF RunsIn, ShortIn
<1> QED  BY <1>1, <1>2

LEMMA RunsArePairs ==
    ASSUME NEW W, NEW run, run \in RunsIn(W) \/ run \in ShortIn(W) \/ run \in LongIn(W)
    PROVE  /\ run = <<run[1], run[2]>> /\ run[1] \in W /\ run[2] \in W
           /\ run \in RunsIn(W)
BY DEF RunsIn, ShortIn, LongIn

LEMMA FirstRow == ASSUME NEW r \in Nat PROVE RunsIn({r}) = {} /\ RunsIn({}) = {}
<1>1. ASSUME NEW run \in RunsIn({r}) PROVE FALSE
  <2>1. run[1] = r /\ run[2] = r /\ run[1] + 1 < run[2]
    BY <1>1 DEF RunsIn
  <2> QED  BY <2>1
<1>2. RunsIn({}) = {}
  BY DEF RunsIn
<1> QED  BY <1>1, <1>2

LEMMA RunsMore ==
    ASSUME NEW W \in SUBSET Nat, NEW m \in W, \A x \in W : x <= m, NEW r \in Nat, m < r
    PROVE  RunsIn(W \cup {r}) = RunsIn(W) \cup (IF m + 1 < r THEN {<<m, r>>} ELSE {})
<1> DEFINE V == W \cup {r}
<1>0. V \in SUBSET Nat /\ m \in Nat
  OBVIOUS
<1>1. ASSUME NEW p, NEW q
      PROVE  <<p, q>> \in RunsIn(V)
                <=> <<p, q>> \in RunsIn(W) \/ (m + 1 < r /\ p = m /\ q = r)
  <2>1. <<p, q>> \in RunsIn(V)
          <=> p \in V /\ q \in V /\ p + 1 < q /\ \A x \in V : ~(p < x /\ x < q)
    BY <1>0, RunIs
  <2>2. <<p, q>> \in RunsIn(W)
          <=> p \in W /\ q \in W /\ p + 1 < q /\ \A x \in W : ~(p < x /\ x < q)
    BY RunIs
  <2>3. CASE p \in W /\ q \in W
    <3>1. p \in Nat /\ q \in Nat /\ q <= m /\ q # r
      BY <1>0, <2>3
    <3> QED  BY <1>0, <2>1, <2>2, <2>3, <3>1
  <2>4. CASE p \in W /\ q = r
    <3>1. p \in Nat /\ p <= m /\ r \notin W
      BY <1>0, <2>4
    <3>2. (\A x \in V : ~(p < x /\ x < r)) => p = m
      <4> HAVE \A x \in V : ~(p < x /\ x < r)
      <4>1. ~(p < m /\ m < r)
        OBVIOUS
      <4> QED  BY <1>0, <3>1, <4>1
    <3>3. p = m => \A x \in V : ~(p < x /\ x < r)
      <4> SUFFICES ASSUME p = m, NEW x \in V PROVE ~(p < x /\ x < r)
        OBVIOUS
      <4>1. CASE x \in W
        BY <1>0, <4>1
      <4>2. CASE x = r
        BY <4>2
      <4> QED  BY <4>1, <4>2
    <3> QED  BY <1>0, <2>1, <2>2, <2>4, <3>1, <3>2, <3>3
  <2>5. CASE p \notin W \/ q \notin V
    <3>1. p \in V /\ q \in V => p = r /\ q \in Nat /\ q <= r
      BY <1>0, <2>5
    <3>2. <<p, q>> \notin RunsIn(V)
      BY <2>1, <3>1
    <3>3. <<p, q>> \notin RunsIn(W)
      BY <2>2, <2>5
    <3> QED  BY <1>0, <2>5, <3>2, <3>3
  <2> QED  BY <2>3, <2>4, <2>5
<1> DEFINE more == IF m + 1 < r THEN {<<m, r>>} ELSE {}
<1>2. ASSUME NEW run \in RunsIn(V) PROVE run \in RunsIn(W) \cup more
  <2>1. run = <<run[1], run[2]>>
    BY <1>2, RunsArePairs
  <2>2. <<run[1], run[2]>> \in RunsIn(W) \/ (m + 1 < r /\ run[1] = m /\ run[2] = r)
    BY <1>1, <1>2, <2>1
  <2> QED  BY <2>1, <2>2
<1>3. ASSUME NEW run \in RunsIn(W) \cup more PROVE run \in RunsIn(V)
  <2>1. CASE run \in RunsIn(W)
    BY <1>1, <2>1, RunsArePairs
  <2>2. CASE run \in more
    BY <1>1, <2>2
  <2> QED  BY <1>3, <2>1, <2>2
<1> QED  BY <1>2, <1>3

-----------------------------------------------------------------------------
(***************************************************************************)
(* A layout goes down row by row, and over at most one gap at a time.  It  *)
(* is the layout of the wanted rows W if these and the short runs are its  *)
(* rows, each behind the long runs above it.                               *)
(***************************************************************************)
Stepped(s) ==
    /\ s \in Seq(Slots)
    /\ s # <<>> => s[1].gaps = 0
    /\ \A i, j \in 1..Len(s) : i < j =>
          /\ s[i].row < s[j].row /\ s[i].gaps <= s[j].gaps
          /\ j = i + 1 => s[j].gaps <= s[i].gaps + 1

RowSet(s) == {s[i].row : i \in 1..Len(s)}
LongAbove(W, row) == {run \in LongIn(W) : run[2] <= row}

LayoutOf(s, W) ==
    /\ Stepped(s)
    /\ RowSet(s) = W \cup UNION {run[1]..run[2] : run \in ShortIn(W)}
    /\ \A i \in 1..Len(s) : s[i].gaps = Cardinality(LongAbove(W, s[i].row))
    /\ s = <<>> <=> W = {}
    /\ s # <<>> => s[Len(s)].row \in W /\ \A x \in W : x <= s[Len(s)].row

LEMMA SlotTypes ==
    ASSUME NEW s \in Seq(Slots), NEW i \in 1..Len(s)
    PROVE  s[i] \in Slots /\ s[i].row \in Nat /\ s[i].gaps \in Nat
<1>1. s[i] \in Slots
  BY ElementOfSeq
<1>2. \A slot \in Slots : slot.row \in Nat /\ slot.gaps \in Nat
  BY DEF Slots
<1> QED  BY <1>1, <1>2, Zenon

\* k slots with the rows up to r go behind the n slots of s.
Behind(s, n, r, k, g) ==
    /\ n = 0 => k = 1 /\ g = 0
    /\ n # 0 => s[n].row <= r - k /\ (g = s[n].gaps \/ g = s[n].gaps + 1)

LEMMA ExtendStepped ==
    ASSUME NEW s, Stepped(s), NEW n, n = Len(s), NEW t, NEW r \in Nat, NEW k \in Nat \ {0},
           NEW g \in Nat, Extended(t, s, r, k, g), Behind(s, n, r, k, g)
    PROVE  /\ Stepped(t) /\ t # <<>> /\ Len(t) = n + k /\ t[Len(t)].row = r
           /\ RowSet(t) = RowSet(s) \cup (r - k + 1 .. r)
<1>0. /\ n = 0 => k = 1 /\ g = 0
      /\ n # 0 => s[n].row <= r - k /\ (g = s[n].gaps \/ g = s[n].gaps + 1)
  BY DEF Behind
<1>1. /\ s \in Seq(Slots) /\ t \in Seq(Slots) /\ n \in Nat /\ Len(t) = n + k /\ t # <<>>
      /\ \A i \in 1..n : t[i] = s[i]
      /\ \A i \in n+1..n+k : t[i].row = r - (n + k - i) /\ t[i].gaps = g
  <2>1. /\ s \in Seq(Slots) /\ t \in Seq(Slots) /\ Len(t) = n + k
        /\ \A i \in 1..n : t[i] = s[i]
        /\ \A i \in n+1..n+k : t[i] = Slot(r - (n + k - i), g)
    BY DEF Stepped, Extended
  <2>2. n \in Nat /\ t # <<>>
    BY <2>1
  <2>3. \A row, gaps : Slot(row, gaps).row = row /\ Slot(row, gaps).gaps = gaps
    BY DEF Slot
  <2>4. \A i \in n+1..n+k : t[i].row = r - (n + k - i) /\ t[i].gaps = g
    BY <2>1, <2>3
  <2> QED  BY <2>1, <2>2, <2>4
<1>2. \A i \in 1..n : s[i].row \in Nat /\ s[i].gaps \in Nat
  <2>1. \A u \in Seq(Slots) : \A i \in 1..Len(u) : u[i].row \in Nat /\ u[i].gaps \in Nat
    BY SlotTypes
  <2> QED  BY <1>1, <2>1
<1>3. \A i \in 1..n : s[i].row <= s[n].row /\ s[i].gaps <= s[n].gaps
  <2> SUFFICES ASSUME NEW i \in 1..n
               PROVE  s[i].row <= s[n].row /\ s[i].gaps <= s[n].gaps
    OBVIOUS
  <2>1. n \in 1..n
    BY <1>1
  <2>2. CASE i = n
    BY <1>2, <2>1, <2>2
  <2>3. CASE i < n
    BY <1>2, <2>1, <2>3 DEF Stepped
  <2> QED  BY <1>1, <2>2, <2>3
<1>4. Stepped(t)
  <2>1. t[1].gaps = 0
    <3>1. CASE n = 0
      BY <1>0, <1>1, <3>1
    <3>2. CASE n # 0
      <4>1. 1 \in 1..n /\ s # <<>>
        BY <1>1, <3>2
      <4> QED  BY <1>1, <4>1 DEF Stepped
    <3> QED  BY <3>1, <3>2
  <2>2. ASSUME NEW i \in 1..n+k, NEW j \in 1..n+k, i < j
        PROVE  /\ t[i].row < t[j].row /\ t[i].gaps <= t[j].gaps
               /\ j = i + 1 => t[j].gaps <= t[i].gaps + 1
    <3>1. CASE j <= n
      <4>1. i \in 1..n /\ j \in 1..n
        BY <1>1, <2>2, <3>1
      <4> QED  BY <1>1, <2>2, <4>1 DEF Stepped
    <3>2. CASE i <= n /\ n < j
      <4>1. i \in 1..n /\ j \in n+1..n+k /\ n # 0 /\ (j = i + 1 => i = n)
        BY <1>1, <2>2, <3>2
      <4>2. t[j].row = r - (n + k - j) /\ t[j].gaps = g /\ t[i] = s[i]
        BY <1>1, <4>1
      <4>3. s[n].row \in Nat /\ s[n].gaps \in Nat /\ s[i].row \in Nat /\ s[i].gaps \in Nat
        BY <1>1, <1>2, <4>1
      <4>4. s[n].row < t[j].row
        BY <1>0, <1>1, <4>1, <4>2, <4>3
      <4>5. s[i].row <= s[n].row /\ s[i].gaps <= s[n].gaps
        BY <1>3, <4>1
      <4>6. t[i].row < t[j].row
        BY <1>1, <4>1, <4>2, <4>3, <4>4, <4>5
      <4>7. g = s[n].gaps \/ g = s[n].gaps + 1
        BY <1>0, <4>1
      <4>8. t[i].gaps = s[i].gaps /\ t[j].gaps = g
        BY <4>2
      <4>9. t[i].gaps <= t[j].gaps
        <5>1. s[n].gaps <= g
          BY <4>3, <4>7
        <5> QED  BY <4>3, <4>5, <4>7, <4>8, <5>1
      <4>10. j = i + 1 => t[j].gaps <= t[i].gaps + 1
        BY <4>1, <4>3, <4>7, <4>8
      <4> QED  BY <4>6, <4>9, <4>10
    <3>3. CASE n < i
      <4>1. i \in n+1..n+k /\ j \in n+1..n+k
        BY <1>1, <2>2, <3>3
      <4>2. /\ t[j].row = r - (n + k - j) /\ t[j].gaps = g
            /\ t[i].row = r - (n + k - i) /\ t[i].gaps = g
        BY <1>1, <4>1
      <4>3. n \in Nat /\ i \in Int /\ j \in Int
        BY <1>1, <4>1
      <4>4. r - (n + k - i) < r - (n + k - j)
        BY <2>2, <4>3
      <4> QED  BY <2>2, <4>2, <4>3, <4>4
    <3> QED  BY <1>1, <2>2, <3>1, <3>2, <3>3
  <2> QED  BY <1>1, <2>1, <2>2 DEF Stepped
<1>5. t[Len(t)].row = r
  <2>1. n + k \in n+1..n+k /\ r - (n + k - (n + k)) = r
    BY <1>1
  <2>2. t[n + k].row = r - (n + k - (n + k))
    BY <1>1, <2>1
  <2> QED  BY <1>1, <2>1, <2>2
<1>6. RowSet(t) = RowSet(s) \cup (r - k + 1 .. r)
  <2>1. ASSUME NEW i \in 1..n+k PROVE t[i].row \in RowSet(s) \cup (r - k + 1 .. r)
    <3>1. CASE i <= n
      BY <1>1, <3>1 DEF RowSet
    <3>2. CASE n < i
      <4>1. i \in n+1..n+k
        BY <1>1, <3>2
      <4>2. t[i].row = r - (n + k - i)
        BY <1>1, <4>1
      <4> QED  BY <1>1, <4>1, <4>2
    <3> QED  BY <1>1, <3>1, <3>2
  <2>2. ASSUME NEW i \in 1..n PROVE s[i].row \in RowSet(t)
    <3>1. i \in 1..n+k /\ t[i].row = s[i].row
      BY <1>1
    <3> QED  BY <1>1, <3>1 DEF RowSet
  <2>3. ASSUME NEW x \in r - k + 1 .. r PROVE x \in RowSet(t)
    <3>1. PICK i \in Int : i = n + k - (r - x)
      BY <1>1
    <3>2. i \in n+1..n+k /\ i \in 1..n+k
      BY <1>1, <3>1
    <3>3. t[i].row = r - (n + k - i)
      BY <1>1, <3>2
    <3>4. t[i].row = x
      BY <1>1, <3>1, <3>3
    <3> QED  BY <1>1, <3>2, <3>4 DEF RowSet
  <2>4. RowSet(t) \subseteq RowSet(s) \cup (r - k + 1 .. r)
    BY <1>1, <2>1 DEF RowSet
  <2>5. RowSet(s) \subseteq RowSet(t)
    BY <2>2 DEF RowSet
  <2> QED  BY <2>3, <2>4, <2>5
<1> QED  BY <1>1, <1>4, <1>5, <1>6

LEMMA LongFinite ==
    ASSUME NEW W, IsFiniteSet(W), NEW row
    PROVE  /\ IsFiniteSet(LongAbove(W, row)) /\ IsFiniteSet(LongIn(W))
           /\ Cardinality(LongIn(W)) \in Nat
<1>1. IsFiniteSet(W \X W)
  BY FS_Product
<1>2. LongIn(W) \in SUBSET (W \X W) /\ LongAbove(W, row) \in SUBSET (W \X W)
  BY DEF LongAbove, LongIn, RunsIn
<1> QED  BY <1>1, <1>2, FS_Subset, FS_CardinalityType

LEMMA LongMore ==
    ASSUME NEW W, \A x \in W : x \in Nat, NEW m \in W, \A x \in W : x <= m,
           NEW r \in Nat, m < r, EffectiveLimit \in Nat
    PROVE  LET V == W \cup {r} IN
           /\ m + 1 = r => LongIn(V) = LongIn(W) /\ ShortIn(V) = ShortIn(W)
           /\ m + 1 < r /\ r - m - 1 < EffectiveLimit =>
                LongIn(V) = LongIn(W) /\ ShortIn(V) = ShortIn(W) \cup {<<m, r>>}
           /\ m + 1 < r /\ ~(r - m - 1 < EffectiveLimit) =>
                LongIn(V) = LongIn(W) \cup {<<m, r>>} /\ ShortIn(V) = ShortIn(W)
<1> DEFINE V == W \cup {r}
<1>1. RunsIn(V) = RunsIn(W) \cup (IF m + 1 < r THEN {<<m, r>>} ELSE {})
  <2>1. W \in SUBSET Nat
    OBVIOUS
  <2> QED  BY <2>1, RunsMore, Zenon
<1>2. \A run \in RunsIn(W) : run # <<m, r>>
  <2>1. \A run \in RunsIn(W) : run[2] \in W
    BY DEF RunsIn
  <2>2. <<m, r>>[2] = r /\ r \notin W
    OBVIOUS
  <2> QED  BY <2>1, <2>2
<1>3. m \in Nat
  OBVIOUS
<1> DEFINE short(run) == run[2] - run[1] - 1 < EffectiveLimit
<1>4. short(<<m, r>>) <=> r - m - 1 < EffectiveLimit
  OBVIOUS
<1>5. /\ \A S : S = W \/ S = V => ShortIn(S) = {run \in RunsIn(S) : short(run)}
      /\ \A S : S = W \/ S = V => LongIn(S) = {run \in RunsIn(S) : ~short(run)}
  BY DEF LongIn, ShortIn
<1> HIDE DEF V, short
<1>6. /\ ShortIn(V) = {run \in RunsIn(V) : short(run)}
      /\ ShortIn(W) = {run \in RunsIn(W) : short(run)}
      /\ LongIn(V) = {run \in RunsIn(V) : ~short(run)}
      /\ LongIn(W) = {run \in RunsIn(W) : ~short(run)}
  BY <1>5
<1>7. CASE m + 1 = r
  <2>1. RunsIn(V) = RunsIn(W) /\ ~(m + 1 < r)
    BY <1>1, <1>3, <1>7
  <2> QED  BY <1>3, <1>6, <1>7, <2>1 DEF V
<1>8. CASE m + 1 < r
  <2>1. RunsIn(V) = RunsIn(W) \cup {<<m, r>>} /\ m + 1 # r
    BY <1>1, <1>3, <1>8
  <2>2. CASE short(<<m, r>>)
    <3>1. LongIn(V) = LongIn(W) /\ ShortIn(V) = ShortIn(W) \cup {<<m, r>>}
      BY <1>6, <2>1, <2>2
    <3> QED  BY <1>4, <2>1, <2>2, <3>1 DEF V
  <2>3. CASE ~short(<<m, r>>)
    <3>1. LongIn(V) = LongIn(W) \cup {<<m, r>>} /\ ShortIn(V) = ShortIn(W)
      BY <1>6, <2>1, <2>3
    <3> QED  BY <1>4, <2>1, <2>3, <3>1 DEF V
  <2> QED  BY <2>2, <2>3
<1> QED  BY <1>3, <1>7, <1>8

Spans(S) == UNION {run[1]..run[2] : run \in S}

LEMMA SpansMore ==
    ASSUME NEW S, NEW m, NEW r
    PROVE  Spans(S \cup {<<m, r>>}) = Spans(S) \cup (m..r)
<1> DEFINE U(T) == UNION {run[1]..run[2] : run \in T}
<1>1. \A T, x : U(T \cup {x}) = U(T) \cup (x[1]..x[2])
  OBVIOUS
<1>2. <<m, r>>[1] = m /\ <<m, r>>[2] = r
  OBVIOUS
<1>3. \A T : Spans(T) = U(T)
  BY DEF Spans
<1> HIDE DEF U
<1> QED  BY <1>1, <1>2, <1>3

\* One wanted row more is a row more to place.
LEMMA PlaceExact ==
    ASSUME NEW W, \A x \in W : x \in Nat, IsFiniteSet(W), NEW s, LayoutOf(s, W),
           NEW r \in Nat, \A x \in W : x < r, EffectiveLimit \in Nat
    PROVE  LayoutOf(Place(r)[s], W \cup {r})
<1> DEFINE V == W \cup {r}
<1>0. PICK t : t = Place(r)[s]
  OBVIOUS
<1>1. PICK n \in Nat : n = Len(s) /\ s \in Seq(Slots)
  BY DEF LayoutOf, Stepped
<1>2. n # 0 => s # <<>> /\ n \in 1..n /\ s[n].row \in W /\ \A x \in W : x <= s[n].row
  BY <1>1 DEF LayoutOf
<1>3. PICK k \in Nat \ {0}, g \in Nat :
        /\ Extended(t, s, r, k, g)
        /\ n = 0 => k = 1 /\ g = 0
        /\ n # 0 =>
             LET run == r - s[n].row - 1 IN
             /\ run = 0 => k = 1 /\ g = s[n].gaps
             /\ run # 0 /\ run < EffectiveLimit => k = run + 1 /\ g = s[n].gaps
             /\ run # 0 /\ ~(run < EffectiveLimit) => k = 1 /\ g = s[n].gaps + 1
  <2>1. n # 0 => s[n].row < r
    BY <1>2
  <2> QED  BY <1>0, <1>1, <2>1, PlaceShape
<1>4. n # 0 => s[n].row <= r - k /\ (g = s[n].gaps \/ g = s[n].gaps + 1)
  <2> HAVE n # 0
  <2>1. s[n].row \in Nat /\ s[n].row < r
    BY <1>2
  <2>2. PICK m \in Nat, run \in Nat : m = s[n].row /\ run = r - m - 1
    BY <2>1
  <2>3. /\ run = 0 => k = 1 /\ g = s[n].gaps
        /\ run # 0 /\ run < EffectiveLimit => k = run + 1 /\ g = s[n].gaps
        /\ run # 0 /\ ~(run < EffectiveLimit) => k = 1 /\ g = s[n].gaps + 1
    BY <1>3, <2>2
  <2>4. m <= r - k
    BY <2>1, <2>2, <2>3
  <2> QED  BY <2>2, <2>3, <2>4
<1>5. /\ Stepped(t) /\ t # <<>> /\ Len(t) = n + k /\ t[Len(t)].row = r
      /\ RowSet(t) = RowSet(s) \cup (r - k + 1 .. r)
  <2>1. Stepped(s)
    BY DEF LayoutOf
  <2>2. Behind(s, n, r, k, g)
    BY <1>3, <1>4 DEF Behind
  <2>3. n = Len(s) /\ Extended(t, s, r, k, g)
    BY <1>1, <1>3
  <2> QED  BY <2>1, <2>2, <2>3, ExtendStepped
<1>6. /\ \A i \in 1..n : t[i] = s[i]
      /\ \A i \in n+1..n+k : t[i].row = r - (n + k - i) /\ t[i].gaps = g
  <2>1. \A row, gaps : Slot(row, gaps).row = row /\ Slot(row, gaps).gaps = gaps
    BY DEF Slot
  <2>2. /\ \A i \in 1..n : t[i] = s[i]
        /\ \A i \in n+1..n+k : t[i] = Slot(r - (n + k - i), g)
    BY <1>1, <1>3 DEF Extended
  <2>3. ASSUME NEW i \in n+1..n+k PROVE t[i].row = r - (n + k - i) /\ t[i].gaps = g
    <3>1. t[i] = Slot(r - (n + k - i), g)
      BY <2>2, Zenon
    <3>2. /\ Slot(r - (n + k - i), g).row = r - (n + k - i)
          /\ Slot(r - (n + k - i), g).gaps = g
      BY <2>1, Zenon
    <3> QED  BY <3>1, <3>2, Zenon
  <2> QED  BY <2>2, <2>3, Zenon
<1>7. CASE n = 0
  <2>1. W = {} /\ s = <<>> /\ V = {r}
    <3>1. s = <<>>
      BY <1>1, <1>7, EmptySeq, Zenon
    <3>2. s = <<>> <=> W = {}
      BY Zenon DEF LayoutOf
    <3> QED  BY <3>1, <3>2
  <2>2. RowSet(t) = {r}
    <3>1. RowSet(s) = {}
      BY <2>1 DEF RowSet
    <3> QED  BY <1>3, <1>5, <1>7, <3>1
  <2>3. LongIn(V) = {} /\ ShortIn(V) = {}
    BY <2>1, FirstRow DEF LongIn, ShortIn
  <2>4. \A row : Cardinality(LongAbove(V, row)) = 0
    BY <2>3, FS_EmptySet DEF LongAbove
  <2>5. \A i \in 1..Len(t) : t[i].gaps = 0
    BY <1>3, <1>5, <1>6, <1>7
  <2>6. t[Len(t)].row \in V /\ \A x \in V : x <= t[Len(t)].row
    BY <1>5, <2>1
  <2>7. V # {} /\ RowSet(t) = V \cup UNION {run[1]..run[2] : run \in ShortIn(V)}
    BY <2>1, <2>2, <2>3
  <2> HIDE DEF V
  <2>8. LayoutOf(t, V)
    BY <1>5, <2>4, <2>5, <2>6, <2>7 DEF LayoutOf
  <2> QED  BY <1>0, <2>8 DEF V
<1>8. CASE n # 0
  <2>1. PICK m \in Nat, G \in Nat : m = s[n].row /\ G = s[n].gaps /\ m \in W
    BY <1>1, <1>2, <1>8, SlotTypes
  <2>2. /\ m < r /\ \A x \in W : x <= m
        /\ \A i \in 1..n : s[i].row \in Nat /\ s[i].row <= m
    <3>1. \A i \in 1..n : s[i].row \in Nat
      BY <1>1, SlotTypes
    <3>2. \A i \in 1..n : i = n \/ s[i].row < s[n].row
      BY <1>1, <1>2, <1>8 DEF LayoutOf, Stepped
    <3> QED  BY <1>2, <1>8, <2>1, <3>1, <3>2
  <2>3. PICK E \in Nat : E = EffectiveLimit
    OBVIOUS
  <2>4. /\ m + 1 = r => LongIn(V) = LongIn(W) /\ ShortIn(V) = ShortIn(W)
        /\ m + 1 < r /\ r - m - 1 < E =>
             LongIn(V) = LongIn(W) /\ ShortIn(V) = ShortIn(W) \cup {<<m, r>>}
        /\ m + 1 < r /\ ~(r - m - 1 < E) =>
             LongIn(V) = LongIn(W) \cup {<<m, r>>} /\ ShortIn(V) = ShortIn(W)
    <3>1. LET U == W \cup {r} IN
          /\ m + 1 = r => LongIn(U) = LongIn(W) /\ ShortIn(U) = ShortIn(W)
          /\ m + 1 < r /\ r - m - 1 < EffectiveLimit =>
               LongIn(U) = LongIn(W) /\ ShortIn(U) = ShortIn(W) \cup {<<m, r>>}
          /\ m + 1 < r /\ ~(r - m - 1 < EffectiveLimit) =>
               LongIn(U) = LongIn(W) \cup {<<m, r>>} /\ ShortIn(U) = ShortIn(W)
      <4>1. m \in W /\ (\A x \in W : x <= m) /\ m < r
        BY <2>1, <2>2
      <4> QED  BY <4>1, LongMore, Zenon
    <3> QED  BY <2>3, <3>1, Zenon
  <2>5. /\ m + 1 = r => k = 1 /\ g = G
        /\ m + 1 < r /\ r - m - 1 < E => k = r - m /\ g = G
        /\ m + 1 < r /\ ~(r - m - 1 < E) => k = 1 /\ g = G + 1
    BY <1>3, <1>8, <2>1, <2>2, <2>3
  <2>6. /\ RowSet(s) = W \cup Spans(ShortIn(W))
        /\ \A i \in 1..n : s[i].gaps = Cardinality(LongAbove(W, s[i].row))
    BY <1>1 DEF LayoutOf, Spans
  <2>7. \A run \in LongIn(W) : run[2] \in Nat /\ run[2] <= m /\ run # <<m, r>>
    <3>1. \A run \in LongIn(W) : run[2] \in W
      BY RunsArePairs
    <3>2. <<m, r>>[2] = r /\ r \notin W
      BY <2>1, <2>2
    <3> QED  BY <2>2, <3>1, <3>2
  <2>8. G = Cardinality(LongIn(W))
    <3>1. LongAbove(W, m) = LongIn(W)
      BY <2>7 DEF LongAbove
    <3> QED  BY <1>2, <1>8, <2>1, <2>6, <3>1
  <2>9. \A row \in Nat : row <= m => LongAbove(V, row) = LongAbove(W, row)
    <3> SUFFICES ASSUME NEW row \in Nat, row <= m
                 PROVE  LongAbove(V, row) = LongAbove(W, row)
      OBVIOUS
    <3>1. ~(<<m, r>>[2] <= row)
      BY <2>1, <2>2
    <3>2. m + 1 = r \/ (m + 1 < r /\ (r - m - 1 < E \/ ~(r - m - 1 < E)))
      BY <2>1, <2>2
    <3>3. LongIn(V) = LongIn(W) \/ LongIn(V) = LongIn(W) \cup {<<m, r>>}
      BY <2>4, <3>2, Zenon
    <3> HIDE DEF V
    <3> QED  BY <3>1, <3>3 DEF LongAbove
  <2> HIDE DEF V
  <2>10. RowSet(t) = V \cup Spans(ShortIn(V))
    <3>1. CASE k = 1 /\ ShortIn(V) = ShortIn(W)
      <4>1. r - k + 1 .. r = {r}
        BY <3>1
      <4> QED  BY <1>5, <2>6, <3>1, <4>1 DEF V
    <3>2. CASE k = r - m /\ ShortIn(V) = ShortIn(W) \cup {<<m, r>>}
      <4>1. r - k + 1 .. r = m+1 .. r /\ m..r = {m} \cup (m+1 .. r) /\ r \in m..r
        BY <2>1, <2>2, <3>2
      <4>2. Spans(ShortIn(V)) = Spans(ShortIn(W)) \cup (m..r)
        BY <3>2, SpansMore
      <4> QED  BY <1>5, <2>1, <2>6, <4>1, <4>2 DEF V
    <3> QED  BY <2>1, <2>2, <2>4, <2>5, <3>1, <3>2
  <2>11. ASSUME NEW i \in 1..n+k PROVE t[i].gaps = Cardinality(LongAbove(V, t[i].row))
    <3>1. CASE i <= n
      <4>1. i \in 1..n
        BY <3>1
      <4> QED  BY <1>6, <2>2, <2>6, <2>9, <4>1
    <3>2. CASE n < i
      <4>1. i \in n+1..n+k /\ i \in Int
        BY <3>2
      <4>2. t[i].row = r - (n + k - i) /\ t[i].gaps = g
        BY <1>6, <4>1
      <4>3. k = 1 \/ k = r - m
        BY <2>1, <2>2, <2>4, <2>5
      <4>4. PICK row \in Int : row = t[i].row /\ m < row /\ row <= r /\ (k = 1 => row = r)
        BY <2>1, <2>2, <4>1, <4>2, <4>3
      <4>5. CASE LongIn(V) = LongIn(W) /\ g = G
        <5>1. LongAbove(V, row) = LongIn(W)
          BY <2>1, <2>7, <4>4, <4>5 DEF LongAbove
        <5> QED  BY <2>8, <4>2, <4>4, <4>5, <5>1
      <4>6. CASE LongIn(V) = LongIn(W) \cup {<<m, r>>} /\ g = G + 1 /\ k = 1
        <5>1. LongAbove(V, row) = LongIn(W) \cup {<<m, r>>}
          <6>1. <<m, r>>[2] <= row
            BY <4>4, <4>6
          <6> QED  BY <2>1, <2>7, <4>4, <4>6, <6>1 DEF LongAbove
        <5>2. IsFiniteSet(LongIn(W)) /\ <<m, r>> \notin LongIn(W)
          BY <2>7, LongFinite
        <5>3. Cardinality(LongIn(W) \cup {<<m, r>>}) = Cardinality(LongIn(W)) + 1
          BY <5>2, FS_AddElement
        <5> QED  BY <2>8, <4>2, <4>4, <4>6, <5>1, <5>3
      <4> QED  BY <2>1, <2>2, <2>4, <2>5, <4>5, <4>6
    <3> QED  BY <3>1, <3>2
  <2>12. V # {} /\ t[Len(t)].row \in V /\ \A x \in V : x <= t[Len(t)].row
    BY <1>5, <2>1, <2>2 DEF V
  <2>13. LayoutOf(t, V)
    BY <1>5, <2>10, <2>11, <2>12 DEF LayoutOf, Spans
  <2> QED  BY <1>0, <2>13 DEF V
<1> QED  BY <1>7, <1>8

-----------------------------------------------------------------------------
(***************************************************************************)
(* The rows of a set are placed from the least to the greatest.  That the  *)
(* recursive function exists is proved as it is for sums.                  *)
(***************************************************************************)
LayRule(Q, g) ==
    g = [placed \in Q |->
            IF placed = {} THEN <<>>
            ELSE Place(Max(placed))[g[placed \ {Max(placed)}]]]

LEMMA LayIsRule ==
    ASSUME NEW needed
    PROVE  Lay(needed) = (CHOOSE g : LayRule(SUBSET needed, g))[needed]
BY DEF Lay, LayRule

LEMMA LowerRest ==
    ASSUME NEW B, \A x \in B : x \in Nat, IsFiniteSet(B), NEW s \in SUBSET B, s # {}
    PROVE  /\ Max(s) \in s /\ \A x \in s \ {Max(s)} : x < Max(s)
           /\ IsFiniteSet(s \ {Max(s)}) /\ Cardinality(s) \in Nat
           /\ Cardinality(s \ {Max(s)}) = Cardinality(s) - 1
           /\ Cardinality(s \ {Max(s)}) \in Nat
<1>1. IsFiniteSet(s) /\ \A x \in s : x \in Nat
  BY FS_Subset
<1>2. Max(s) \in s /\ \A x \in s : x <= Max(s)
  BY <1>1, FiniteMax
<1>3. PICK m : m = Max(s)
  OBVIOUS
<1>4. m \in Nat /\ \A x \in s : x <= m /\ x \in Nat
  BY <1>1, <1>2, <1>3
<1>5. \A x \in s \ {m} : x < m
  BY <1>4
<1>6. /\ IsFiniteSet(s \ {m}) /\ Cardinality(s) \in Nat
      /\ Cardinality(s \ {m}) = Cardinality(s) - 1 /\ Cardinality(s \ {m}) \in Nat
  BY <1>1, <1>2, <1>3, FS_RemoveElement, FS_CardinalityType
<1> QED  BY <1>2, <1>3, <1>5, <1>6

LEMMA LayExists ==
    ASSUME NEW B, \A x \in B : x \in Nat, IsFiniteSet(B)
    PROVE  \E g : LayRule(SUBSET B, g)
<1> DEFINE Level(n) == {s \in SUBSET B : Cardinality(s) <= n}
           Bad == {n \in Nat : ~ \E g : LayRule(Level(n), g)}
<1>0. \A s \in SUBSET B : IsFiniteSet(s) /\ Cardinality(s) \in Nat
  BY FS_Subset, FS_CardinalityType
<1>1. 0 \notin Bad
  <2>1. \A s \in Level(0) : s = {}
    BY <1>0, FS_EmptySet
  <2>2. LayRule(Level(0), [s \in Level(0) |-> <<>>])
    BY <2>1 DEF LayRule
  <2> QED  BY <2>2
<1>2. ASSUME NEW n \in Nat, NEW g, LayRule(Level(n), g)
      PROVE  \E h : LayRule(Level(n+1), h)
  <2> DEFINE h == [s \in Level(n+1) |->
                     IF s = {} THEN <<>> ELSE Place(Max(s))[g[s \ {Max(s)}]]]
  <2>1. \A t \in Level(n) : t \in Level(n+1) /\ h[t] = g[t]
    <3>1. \A t \in Level(n) : t \in Level(n+1)
      BY <1>0
    <3>2. \A t \in Level(n) :
             g[t] = IF t = {} THEN <<>> ELSE Place(Max(t))[g[t \ {Max(t)}]]
      BY <1>2 DEF LayRule
    <3> HIDE DEF Level
    <3> QED  BY <3>1, <3>2
  <2>2. \A s \in Level(n+1) : s # {} => s \ {Max(s)} \in Level(n)
    BY <1>0, LowerRest
  <2>3. \A s \in Level(n+1) :
           h[s] = IF s = {} THEN <<>> ELSE Place(Max(s))[h[s \ {Max(s)}]]
    <3> HIDE DEF Level
    <3> QED  BY <2>1, <2>2
  <2>4. h = [s \in Level(n+1) |->
               IF s = {} THEN <<>> ELSE Place(Max(s))[h[s \ {Max(s)}]]]
    <3> HIDE DEF Level
    <3>1. h = [s \in Level(n+1) |-> h[s]]
      OBVIOUS
    <3> HIDE DEF h
    <3> QED  BY <2>3, <3>1
  <2> QED  BY <2>4 DEF LayRule
<1>3. Bad = {}
  <2> SUFFICES ASSUME Bad # {} PROVE FALSE
    OBVIOUS
  <2>1. Bad \in SUBSET Nat
    OBVIOUS
  <2>2. Min(Bad) \in Bad /\ \A y \in Bad : Min(Bad) <= y
    BY <2>1, LeastNat
  <2>3. PICK m : m = Min(Bad)
    OBVIOUS
  <2>4. m \in Nat /\ m \in Bad /\ m # 0 /\ \A y \in Bad : m <= y
    BY <1>1, <2>1, <2>2, <2>3
  <2> HIDE DEF Bad
  <2>5. m - 1 \in Nat /\ m - 1 \notin Bad /\ (m - 1) + 1 = m
    BY <2>4
  <2>6. \E g : LayRule(Level(m - 1), g)
    BY <2>5 DEF Bad
  <2> HIDE DEF Level
  <2>7. \E h : LayRule(Level(m), h)
    BY <1>2, <2>5, <2>6
  <2> QED  BY <2>4, <2>7 DEF Bad
<1>4. Cardinality(B) \in Nat /\ Level(Cardinality(B)) = SUBSET B
  <2>1. \A s \in SUBSET B : Cardinality(s) <= Cardinality(B)
    BY FS_Subset, Zenon
  <2> QED  BY <1>0, <2>1
<1> HIDE DEF Level
<1>5. \E g : LayRule(Level(Cardinality(B)), g)
  BY <1>3, <1>4
<1> QED  BY <1>4, <1>5

LEMMA LayExact ==
    ASSUME NEW B, \A x \in B : x \in Nat, IsFiniteSet(B), EffectiveLimit \in Nat
    PROVE  LayoutOf(Lay(B), B)
<1>1. PICK g : g = CHOOSE h : LayRule(SUBSET B, h)
  OBVIOUS
<1>2. LayRule(SUBSET B, g)
  BY <1>1, LayExists
<1>3. \A s \in SUBSET B :
        g[s] = IF s = {} THEN <<>> ELSE Place(Max(s))[g[s \ {Max(s)}]]
  BY <1>2 DEF LayRule
<1> DEFINE F == {s \in SUBSET B : ~LayoutOf(g[s], s)}
<1>4. F = {}
  <2> SUFFICES ASSUME F # {} PROVE FALSE
    OBVIOUS
  <2>1. F \in SUBSET (SUBSET B)
    OBVIOUS
  <2>2. \E s \in F : \A t \in F : t \subseteq s => t = s
    <3> HIDE DEF F
    <3> QED  BY <2>1, SmallestSet
  <2>3. PICK s \in SUBSET B : ~LayoutOf(g[s], s) /\ \A t \in F : t \subseteq s => t = s
    BY <2>2
  <2>4. CASE s = {}
    <3>1. g[s] = <<>>
      BY <1>3, <2>4
    <3>2. LayoutOf(<<>>, {})
      <4>1. <<>> \in Seq(Slots) /\ Len(<<>>) = 0 /\ 1..0 = {}
        OBVIOUS
      <4>2. RowSet(<<>>) = {}
        BY <4>1 DEF RowSet
      <4>3. ShortIn({}) = {}
        BY FirstRow DEF ShortIn
      <4>4. Stepped(<<>>)
        BY <4>1 DEF Stepped
      <4> QED  BY <4>1, <4>2, <4>3, <4>4 DEF LayoutOf
    <3> QED  BY <2>3, <2>4, <3>1, <3>2
  <2>5. CASE s # {}
    <3>1. PICK m : m = Max(s)
      OBVIOUS
    <3>2. m \in s /\ (\A x \in s \ {m} : x < m) /\ IsFiniteSet(s \ {m})
      BY <2>5, <3>1, LowerRest
    <3>3. PICK W : W = s \ {m}
      OBVIOUS
    <3>4. W \in SUBSET B /\ W \notin F
      BY <2>3, <3>2, <3>3
    <3>5. LayoutOf(g[W], W)
      BY <3>4
    <3>6. g[s] = Place(m)[g[W]] /\ s = W \cup {m}
      BY <1>3, <2>5, <3>1, <3>2, <3>3
    <3>7. (\A x \in W : x \in Nat) /\ (\A x \in W : x < m) /\ IsFiniteSet(W) /\ m \in Nat
      BY <3>2, <3>3
    <3>8. LayoutOf(Place(m)[g[W]], W \cup {m})
      BY <3>5, <3>7, PlaceExact
    <3> QED  BY <2>3, <3>6, <3>8
  <2> QED  BY <2>4, <2>5
<1>5. LayoutOf(g[B], B)
  BY <1>4
<1> QED  BY <1>1, <1>5, LayIsRule

-----------------------------------------------------------------------------
(***************************************************************************)
(* The binary search: over a set that is closed downwards it finds the     *)
(* first index that is not in it.                                          *)
(***************************************************************************)
SearchRule(n, passed, search) ==
    search = [at \in (1..n+1) \X (1..n+1) |->
                LET lo == at[1]
                    hi == at[2]
                    mid == (lo + hi) \div 2
                IN  IF lo >= hi THEN lo
                    ELSE IF mid \in passed THEN search[<<mid + 1, hi>>]
                    ELSE search[<<lo, mid>>]]

LEMMA FirstNotIsRule ==
    ASSUME NEW n, NEW passed \in SUBSET Nat
    PROVE  FirstNot(n)[passed] = (CHOOSE f : SearchRule(n, passed, f))[<<1, n + 1>>]
BY DEF FirstNot, SearchRule

\* What a search of lo..hi-1 for m + 1 comes to.
Clamped(m, lo, hi) ==
    IF lo >= hi \/ m + 1 <= lo THEN lo ELSE IF m + 1 >= hi THEN hi ELSE m + 1

LEMMA Halving ==
    ASSUME NEW lo \in Nat, NEW hi \in Nat, NEW m \in Nat, lo < hi
    PROVE  LET mid == (lo + hi) \div 2 IN
           /\ mid \in lo..hi-1
           /\ mid <= m => Clamped(m, mid + 1, hi) = Clamped(m, lo, hi)
           /\ ~(mid <= m) => Clamped(m, lo, mid) = Clamped(m, lo, hi)
<1>1. PICK mid : mid = (lo + hi) \div 2
  OBVIOUS
<1>2. mid \in Int /\ 2 * mid <= lo + hi /\ lo + hi < 2 * mid + 2
  BY <1>1
<1>3. lo <= mid /\ mid < hi
  BY <1>2
<1>4. mid <= m => Clamped(m, mid + 1, hi) = Clamped(m, lo, hi)
  BY <1>2, <1>3 DEF Clamped
<1>5. ~(mid <= m) => Clamped(m, lo, mid) = Clamped(m, lo, hi)
  BY <1>2, <1>3 DEF Clamped
<1> QED  BY <1>1, <1>2, <1>3, <1>4, <1>5

LEMMA SearchExists ==
    ASSUME NEW n \in Nat, NEW m \in 0..n
    PROVE  \E f : SearchRule(n, 1..m, f)
<1> DEFINE At == (1..n+1) \X (1..n+1)
           f == [at \in At |-> Clamped(m, at[1], at[2])]
<1>1. ASSUME NEW at \in At
      PROVE  f[at] = LET lo == at[1]
                         hi == at[2]
                         mid == (lo + hi) \div 2
                     IN  IF lo >= hi THEN lo
                         ELSE IF mid \in 1..m THEN f[<<mid + 1, hi>>]
                         ELSE f[<<lo, mid>>]
  <2>1. PICK lo \in 1..n+1, hi \in 1..n+1 : at = <<lo, hi>> /\ at[1] = lo /\ at[2] = hi
    OBVIOUS
  <2>2. f[at] = Clamped(m, lo, hi)
    BY <2>1
  <2>3. CASE lo >= hi
    <3>1. f[at] = lo
      BY <2>2, <2>3 DEF Clamped
    <3> QED  BY <2>1, <2>3, <3>1
  <2>4. CASE ~(lo >= hi)
    <3>1. PICK mid : mid = (lo + hi) \div 2
      OBVIOUS
    <3>2. /\ mid \in lo..hi-1
          /\ mid <= m => Clamped(m, mid + 1, hi) = Clamped(m, lo, hi)
          /\ ~(mid <= m) => Clamped(m, lo, mid) = Clamped(m, lo, hi)
      BY <2>4, <3>1, Halving
    <3>3. mid \in 1..n+1 /\ mid + 1 \in 1..n+1 /\ (mid \in 1..m <=> mid <= m)
      BY <3>2
    <3>4. f[<<mid + 1, hi>>] = Clamped(m, mid + 1, hi) /\ f[<<lo, mid>>] = Clamped(m, lo, mid)
      BY <3>3
    <3> HIDE DEF f
    <3> QED  BY <2>1, <2>2, <2>4, <3>1, <3>2, <3>3, <3>4
  <2> QED  BY <2>3, <2>4
<1>2. f = [at \in At |-> f[at]]
  OBVIOUS
<1> HIDE DEF f
<1>3. f = [at \in At |->
             LET lo == at[1]
                 hi == at[2]
                 mid == (lo + hi) \div 2
             IN  IF lo >= hi THEN lo
                 ELSE IF mid \in 1..m THEN f[<<mid + 1, hi>>]
                 ELSE f[<<lo, mid>>]]
  BY <1>1, <1>2
<1>4. SearchRule(n, 1..m, f)
  BY <1>3 DEF SearchRule
<1> QED  BY <1>4

LEMMA SearchFinds ==
    ASSUME NEW n \in Nat, NEW m \in 0..n, NEW f, SearchRule(n, 1..m, f)
    PROVE  f[<<1, n + 1>>] = m + 1
<1>1. ASSUME NEW lo \in 1..n+1, NEW hi \in 1..n+1
      PROVE  f[<<lo, hi>>] = LET mid == (lo + hi) \div 2
                             IN  IF lo >= hi THEN lo
                                 ELSE IF mid \in 1..m THEN f[<<mid + 1, hi>>]
                                 ELSE f[<<lo, mid>>]
  <2>1. <<lo, hi>> \in (1..n+1) \X (1..n+1) /\ <<lo, hi>>[1] = lo /\ <<lo, hi>>[2] = hi
    OBVIOUS
  <2> QED  BY <2>1 DEF SearchRule
<1>0. ASSUME NEW lo \in 1..n+1, NEW hi \in 1..n+1, lo < hi
      PROVE  LET mid == (lo + hi) \div 2 IN
             /\ mid \in lo..hi-1
             /\ mid <= m => Clamped(m, mid + 1, hi) = Clamped(m, lo, hi)
             /\ ~(mid <= m) => Clamped(m, lo, mid) = Clamped(m, lo, hi)
  <2>1. lo \in Nat /\ hi \in Nat /\ m \in Nat
    OBVIOUS
  <2> QED  BY <1>0, <2>1, Halving
<1> DEFINE Right(lo, hi) == f[<<lo, hi>>] = Clamped(m, lo, hi)
           Bad == {d \in Nat : \E lo, hi \in 1..n+1 : hi = lo + d /\ ~Right(lo, hi)}
<1>2. Bad = {}
  <2> SUFFICES ASSUME Bad # {} PROVE FALSE
    OBVIOUS
  <2>1. Bad \in SUBSET Nat
    OBVIOUS
  <2>2. PICK d : d = Min(Bad)
    OBVIOUS
  <2>3. d \in Bad /\ \A y \in Bad : d <= y
    <3> HIDE DEF Bad
    <3> QED  BY <2>1, <2>2, LeastNat
  <2>4. PICK lo \in 1..n+1, hi \in 1..n+1 : d \in Nat /\ hi = lo + d /\ ~Right(lo, hi)
    BY <2>3
  <2>5. \A lo1, hi1 \in 1..n+1 : lo1 <= hi1 /\ hi1 - lo1 < d => Right(lo1, hi1)
    <3> SUFFICES ASSUME NEW lo1 \in 1..n+1, NEW hi1 \in 1..n+1,
                        lo1 <= hi1, hi1 - lo1 < d, ~Right(lo1, hi1)
                 PROVE  FALSE
      OBVIOUS
    <3>1. hi1 - lo1 \in Nat /\ hi1 = lo1 + (hi1 - lo1)
      OBVIOUS
    <3> HIDE DEF Right
    <3>2. hi1 - lo1 \in Bad
      BY <3>1
    <3>3. d <= hi1 - lo1 /\ d \in Nat
      BY <2>3, <2>4, <3>2
    <3> QED  BY <3>1, <3>3
  <2>6. CASE d = 0
    <3>0. lo >= hi
      BY <2>4, <2>6
    <3>1. f[<<lo, hi>>] = lo
      BY <1>1, <3>0
    <3>2. Clamped(m, lo, hi) = lo
      BY <2>4, <2>6 DEF Clamped
    <3> QED  BY <2>4, <3>1, <3>2
  <2>7. CASE d # 0
    <3>1. PICK mid : mid = (lo + hi) \div 2
      OBVIOUS
    <3>2. lo < hi
      BY <2>4, <2>7
    <3>3. /\ mid \in lo..hi-1
          /\ mid <= m => Clamped(m, mid + 1, hi) = Clamped(m, lo, hi)
          /\ ~(mid <= m) => Clamped(m, lo, mid) = Clamped(m, lo, hi)
      BY <1>0, <3>1, <3>2, Zenon
    <3>4. mid \in 1..n+1 /\ mid + 1 \in 1..n+1 /\ (mid \in 1..m <=> mid <= m)
      BY <3>3
    <3>5. /\ mid + 1 <= hi /\ hi - (mid + 1) < d
          /\ lo <= mid /\ mid - lo < d
      BY <2>4, <3>3
    <3>6. Right(mid + 1, hi) /\ Right(lo, mid)
      <4> HIDE DEF Right
      <4> QED  BY <2>5, <3>4, <3>5
    <3>7. f[<<lo, hi>>] = IF mid \in 1..m THEN f[<<mid + 1, hi>>] ELSE f[<<lo, mid>>]
      BY <1>1, <3>1, <3>2
    <3> QED  BY <2>4, <3>3, <3>4, <3>6, <3>7
  <2> QED  BY <2>6, <2>7
<1>3. Right(1, n + 1)
  <2>1. 1 \in 1..n+1 /\ n + 1 \in 1..n+1 /\ n + 1 = 1 + n
    OBVIOUS
  <2> HIDE DEF Right
  <2> QED  BY <1>2, <2>1
<1>4. Clamped(m, 1, n + 1) = m + 1
  BY DEF Clamped
<1> QED  BY <1>3, <1>4

LEMMA Segment ==
    ASSUME NEW n \in Nat, NEW S \in SUBSET (1..n),
           \A i, j \in 1..n : i < j /\ j \in S => i \in S
    PROVE  \E m \in 0..n : S = 1..m
<1>1. CASE S = {}
  <2>1. S = 1..0 /\ 0 \in 0..n
    BY <1>1
  <2> QED  BY <2>1
<1>2. CASE S # {}
  <2>1. S \in SUBSET (0..n)
    OBVIOUS
  <2>2. PICK m : m = Max(S)
    OBVIOUS
  <2>3. m \in S /\ \A y \in S : m >= y
    BY <1>2, <2>1, <2>2, GreatestBelow
  <2>4. m \in 1..n /\ S \subseteq 1..m
    BY <2>3
  <2>5. ASSUME NEW i \in 1..m PROVE i \in S
    BY <2>3, <2>4
  <2>6. 1..m \subseteq S
    BY <2>5
  <2>7. S = 1..m
    BY <2>4, <2>6
  <2>8. m \in 0..n
    BY <2>4
  <2> QED  BY <2>7, <2>8
<1> QED  BY <1>1, <1>2

LEMMA FirstNotFinds ==
    ASSUME NEW n \in Nat, NEW S \in SUBSET (1..n),
           \A i, j \in 1..n : i < j /\ j \in S => i \in S
    PROVE  \E m \in 0..n : S = 1..m /\ FirstNot(n)[S] = m + 1
<1>1. PICK m \in 0..n : S = 1..m
  BY Segment
<1>2. S \in SUBSET Nat
  OBVIOUS
<1>3. PICK f : f = CHOOSE g : SearchRule(n, S, g)
  OBVIOUS
<1>4. SearchRule(n, S, f)
  BY <1>1, <1>3, SearchExists
<1>5. f[<<1, n + 1>>] = m + 1
  BY <1>1, <1>4, SearchFinds
<1>6. FirstNot(n)[S] = m + 1
  BY <1>2, <1>3, <1>5, FirstNotIsRule
<1> QED  BY <1>1, <1>6

-----------------------------------------------------------------------------
(***************************************************************************)
(* Where the rows of a layout lie, and what the searches of them find.     *)
(***************************************************************************)
LEMMA RowsDown ==
    ASSUME NEW s, Stepped(s)
    PROVE  /\ \A i \in 1..Len(s) : RowY(s, i) \in Nat
           /\ s # <<>> => RowY(s, 1) = 0
           /\ \A i, j \in 1..Len(s) : i < j =>
                /\ RowY(s, i) + RowPx <= RowY(s, j)
                /\ j = i + 1 => RowY(s, j) <= RowY(s, i) + RowPx + GapPx
<1>0. RowPx \in Nat \ {0} /\ GapPx \in Nat
  BY LayoutAssumption
<1>1. s \in Seq(Slots) /\ \A i \in 1..Len(s) : s[i].gaps \in Nat
  BY SlotTypes DEF Stepped
<1>2. \A a, b \in Nat : a * b \in Nat
  OBVIOUS
<1>3. \A i \in 1..Len(s) : /\ (i - 1) * RowPx \in Nat /\ s[i].gaps * GapPx \in Nat
                           /\ RowY(s, i) = (i - 1) * RowPx + s[i].gaps * GapPx
  BY <1>0, <1>1, <1>2 DEF RowY
<1>4. s # <<>> => RowY(s, 1) = 0
  <2> HAVE s # <<>>
  <2>1. 1 \in 1..Len(s) /\ s[1].gaps = 0
    BY <1>1 DEF Stepped
  <2>2. (1 - 1) * RowPx = 0 /\ 0 * GapPx = 0
    BY <1>0
  <2> QED  BY <1>3, <2>1, <2>2
<1>5. ASSUME NEW i \in 1..Len(s), NEW j \in 1..Len(s), i < j
      PROVE  /\ RowY(s, i) + RowPx <= RowY(s, j)
             /\ j = i + 1 => RowY(s, j) <= RowY(s, i) + RowPx + GapPx
  <2>1. PICK a \in Nat, b \in Nat : a = s[i].gaps /\ b = s[j].gaps
    BY <1>1
  <2>2. a <= b /\ (j = i + 1 => b <= a + 1)
    BY <1>5, <2>1 DEF Stepped
  <2>3. a * GapPx <= b * GapPx
    BY <1>0, <2>2, TimesGrows
  <2>4. i * RowPx <= (j - 1) * RowPx /\ i * RowPx = (i - 1) * RowPx + RowPx
    <3>1. i \in Nat /\ j - 1 \in Nat /\ i <= j - 1
      BY <1>1, <1>5
    <3>2. i * RowPx <= (j - 1) * RowPx
      BY <1>0, <3>1, TimesGrows
    <3>3. i * RowPx = (i - 1) * RowPx + RowPx
      BY <1>0, <3>1
    <3> QED  BY <3>2, <3>3
  <2>5. /\ RowY(s, i) = (i - 1) * RowPx + a * GapPx
        /\ RowY(s, j) = (j - 1) * RowPx + b * GapPx
        /\ (i - 1) * RowPx \in Nat /\ a * GapPx \in Nat
        /\ (j - 1) * RowPx \in Nat /\ b * GapPx \in Nat /\ i * RowPx \in Nat
    BY <1>0, <1>1, <1>2, <1>3, <2>1
  <2>6. RowY(s, i) + RowPx <= RowY(s, j)
    BY <1>0, <2>3, <2>4, <2>5
  <2>7. j = i + 1 => RowY(s, j) <= RowY(s, i) + RowPx + GapPx
    <3> HAVE j = i + 1
    <3>1. b * GapPx <= (a + 1) * GapPx
      BY <1>0, <2>2, TimesGrows
    <3>2. (a + 1) * GapPx = a * GapPx + GapPx
      BY <1>0
    <3>3. (j - 1) * RowPx = i * RowPx
      BY <1>0
    <3> QED  BY <1>0, <2>4, <2>5, <3>1, <3>2, <3>3
  <2> QED  BY <2>6, <2>7
<1>6. \A i \in 1..Len(s) : RowY(s, i) \in Nat
  <2>1. \A a, b \in Nat : a + b \in Nat
    OBVIOUS
  <2> QED  BY <1>3, <2>1, Zenon
<1> QED  BY <1>4, <1>5, <1>6

LEMMA StartSearch ==
    ASSUME NEW s, Stepped(s), NEW y \in Int
    PROVE  \E m \in 0..Len(s) :
              StartsBy(s, y) = 1..m /\ FirstNot(Len(s))[StartsBy(s, y)] = m + 1
<1>0. Len(s) \in Nat /\ RowPx \in Nat \ {0}
  BY LayoutAssumption DEF Stepped
<1>1. /\ \A i \in 1..Len(s) : RowY(s, i) \in Nat
      /\ \A i, j \in 1..Len(s) : i < j => RowY(s, i) + RowPx <= RowY(s, j)
  BY RowsDown
<1>2. StartsBy(s, y) \in SUBSET (1..Len(s))
  BY DEF StartsBy
<1>3. \A i, j \in 1..Len(s) : i < j /\ j \in StartsBy(s, y) => i \in StartsBy(s, y)
  BY <1>0, <1>1 DEF StartsBy
<1> QED  BY <1>0, <1>2, <1>3, FirstNotFinds

LEMMA EndSearch ==
    ASSUME NEW s, Stepped(s), NEW y \in Int
    PROVE  \E m \in 0..Len(s) :
              EndsBy(s, y) = 1..m /\ FirstNot(Len(s))[EndsBy(s, y)] = m + 1
<1>0. Len(s) \in Nat /\ RowPx \in Nat \ {0}
  BY LayoutAssumption DEF Stepped
<1>1. /\ \A i \in 1..Len(s) : RowY(s, i) \in Nat
      /\ \A i, j \in 1..Len(s) : i < j => RowY(s, i) + RowPx <= RowY(s, j)
  BY RowsDown
<1>2. EndsBy(s, y) \in SUBSET (1..Len(s))
  BY DEF EndsBy
<1>3. \A i, j \in 1..Len(s) : i < j /\ j \in EndsBy(s, y) => i \in EndsBy(s, y)
  BY <1>0, <1>1 DEF EndsBy
<1> QED  BY <1>0, <1>2, <1>3, FirstNotFinds

LEMMA RowSearch ==
    ASSUME NEW s, Stepped(s), NEW row \in Int
    PROVE  \E m \in 0..Len(s) : RowsBefore(s, row) = 1..m /\ IndexFrom(s, row) = m + 1
<1>0. Len(s) \in Nat
  BY DEF Stepped
<1>1. /\ \A i \in 1..Len(s) : s[i].row \in Nat
      /\ \A i, j \in 1..Len(s) : i < j => s[i].row < s[j].row
  BY SlotTypes DEF Stepped
<1>2. RowsBefore(s, row) \in SUBSET (1..Len(s))
  BY DEF RowsBefore
<1>3. \A i, j \in 1..Len(s) : i < j /\ j \in RowsBefore(s, row) => i \in RowsBefore(s, row)
  BY <1>1 DEF RowsBefore
<1>4. \E m \in 0..Len(s) : RowsBefore(s, row) = 1..m /\ FirstNot(Len(s))[RowsBefore(s, row)] = m + 1
  BY <1>0, <1>2, <1>3, FirstNotFinds
<1> QED  BY <1>4 DEF IndexFrom

LEMMA PixelRow ==
    ASSUME NEW s, Stepped(s), NEW n, n = Len(s), NEW y \in Int
    PROVE  {i \in 1..n : RowY(s, i) <= y /\ y < RowY(s, i) + RowPx} = {RowAtY(s, y)} \ {0}
<1>0. n \in Nat /\ RowPx \in Nat \ {0}
  BY LayoutAssumption DEF Stepped
<1>1. /\ \A i \in 1..n : RowY(s, i) \in Nat
      /\ \A i, j \in 1..n : i < j => RowY(s, i) + RowPx <= RowY(s, j)
  BY RowsDown
<1>2. PICK m \in 0..n : StartsBy(s, y) = 1..m /\ FirstNot(n)[StartsBy(s, y)] = m + 1
  BY StartSearch
<1>3. RowAtY(s, y) = IF m > 0 /\ y < RowY(s, m) + RowPx THEN m ELSE 0
  BY <1>2 DEF RowAtY
<1>4. \A i \in 1..n : RowY(s, i) <= y <=> i <= m
  <2>1. \A i \in 1..n : i \in StartsBy(s, y) <=> RowY(s, i) <= y
    BY DEF StartsBy
  <2> QED  BY <1>2, <2>1
<1>5. \A i \in 1..n : i < m => ~(y < RowY(s, i) + RowPx)
  <2> SUFFICES ASSUME NEW i \in 1..n, i < m PROVE ~(y < RowY(s, i) + RowPx)
    OBVIOUS
  <2>1. m \in 1..n /\ RowY(s, m) <= y
    BY <1>4
  <2> QED  BY <1>0, <1>1, <2>1
<1>6. ASSUME NEW i \in 1..n
      PROVE  (RowY(s, i) <= y /\ y < RowY(s, i) + RowPx)
                <=> i = m /\ y < RowY(s, m) + RowPx
  BY <1>4, <1>5
<1>7. CASE m > 0 /\ y < RowY(s, m) + RowPx
  BY <1>3, <1>6, <1>7
<1>8. CASE ~(m > 0 /\ y < RowY(s, m) + RowPx)
  BY <1>3, <1>6, <1>8
<1> QED  BY <1>7, <1>8

\* The row the viewport is anchored to, of which there is one if y is in the map.
LEMMA AnchorRow ==
    ASSUME NEW s, Stepped(s), NEW n, n = Len(s), n # 0, NEW y \in Int
    PROVE  \E i \in 1..n :
              /\ AnchorAt(s, y) = [addr |-> base + s[i].row * rowBytes, off |-> y - RowY(s, i)]
              /\ y < RowY(s, n) + RowPx => y < RowY(s, i) + RowPx
              /\ 0 <= y => -GapPx <= y - RowY(s, i)
<1>0. n \in Nat /\ RowPx \in Nat \ {0} /\ s # <<>> /\ GapPx \in Nat
  BY LayoutAssumption DEF Stepped
<1>1. /\ \A i \in 1..n : RowY(s, i) \in Nat
      /\ RowY(s, 1) = 0
      /\ \A i, j \in 1..n : i < j =>
            /\ RowY(s, i) + RowPx <= RowY(s, j)
            /\ j = i + 1 => RowY(s, j) <= RowY(s, i) + RowPx + GapPx
  BY <1>0, RowsDown
<1>2. PICK m \in 0..n : EndsBy(s, y) = 1..m /\ FirstNot(n)[EndsBy(s, y)] = m + 1
  BY EndSearch
<1>3. PICK i \in 1..n : i = Min2(m + 1, n)
  BY <1>0 DEF Min2
<1>4. AnchorAt(s, y) = [addr |-> base + s[i].row * rowBytes, off |-> y - RowY(s, i)]
  BY <1>0, <1>2, <1>3 DEF AnchorAt
<1>5. \A j \in 1..n : RowY(s, j) + RowPx <= y <=> j <= m
  <2>1. \A j \in 1..n : j \in EndsBy(s, y) <=> RowY(s, j) + RowPx <= y
    BY DEF EndsBy
  <2> QED  BY <1>2, <2>1
<1>6. y < RowY(s, n) + RowPx => y < RowY(s, i) + RowPx
  <2> HAVE y < RowY(s, n) + RowPx
  <2>1. n \in 1..n
    BY <1>0
  <2>2. ~(n <= m)
    BY <1>0, <1>1, <1>5, <2>1
  <2>3. i = m + 1
    BY <1>0, <1>3, <2>2 DEF Min2
  <2>4. ~(RowY(s, i) + RowPx <= y) /\ RowY(s, i) \in Nat
    BY <1>1, <1>5, <2>3
  <2> QED  BY <1>0, <2>4
<1>7. 0 <= y => -GapPx <= y - RowY(s, i)
  <2> HAVE 0 <= y
  <2>1. CASE i = 1
    BY <1>0, <1>1, <2>1
  <2>2. CASE i # 1
    <3>1. PICK j \in 1..n : j = i - 1
      BY <2>2
    <3>2. j <= m
      BY <1>0, <1>3, <3>1 DEF Min2
    <3>3. RowY(s, j) + RowPx <= y
      BY <1>5, <3>2
    <3>4. RowY(s, i) <= RowY(s, j) + RowPx + GapPx
      BY <1>1, <3>1
    <3>5. RowY(s, i) \in Nat /\ RowY(s, j) \in Nat
      BY <1>1
    <3> QED  BY <1>0, <3>3, <3>4, <3>5
  <2> QED  BY <2>1, <2>2
<1> QED  BY <1>4, <1>6, <1>7

-----------------------------------------------------------------------------
(***************************************************************************)
(* The inductive invariant.  LayoutExact says nothing of rows marked       *)
(* dirty, nor of the time of a seek; what carries it there is that what is *)
(* cached is current whenever it is used: the rows of all blocks while     *)
(* they are said to be valid (RowsCached), the rows shown while they are   *)
(* not marked, even during a seek if all blocks are shown, because no seek *)
(* changes these (ShownInv).  An anchored seek keeps its address pinned    *)
(* until it ends.  Played is what is proved of the playhead.               *)
(***************************************************************************)
Played == LiveInv /\ PlayInv /\ TallyInv /\ BaseAligned

LayTypes ==
    /\ showAll \in BOOLEAN
    /\ DOMAIN allRows = {"rows", "valid"} /\ allRows.valid \in BOOLEAN
    /\ pins \in SUBSET (0..Top) /\ anchorPin \in Nat \cup {None}
    /\ collapse \in [rows : Nat, bytes : Nat]
    /\ after.kind = "restore" => after.anchor \in {None} \cup [addr : Nat, off : Int]

RowsCached ==
    /\ phase = "loading" => dirty /\ ~allRows.valid
    /\ allRows.valid => allRows.rows = AllRows
    /\ phase = "ready" /\ showAll => allRows.valid

ShownInv ==
    /\ Stepped(shown) /\ scroll \in Int /\ dirty \in BOOLEAN
    /\ ~dirty /\ (~seek.active \/ showAll) => shown = LaidOut
    /\ seek.active /\ after.kind = "restore" /\ after.anchor # None =>
         anchorPin = after.anchor.addr

Geometry ==
    /\ base \in Nat /\ rowBytes \in Nat \ {0} /\ EffectiveLimit \in Nat
    /\ \A a \in Nat : RowAt(a) \in Nat
    /\ \A e : Touched(e) # 0 => rows[Touched(e)].addr \in Nat
    /\ AllRows \in SUBSET Nat

LaidSane ==
    phase = "ready" => Geometry /\ LayoutOf(LaidOut, Wanted)

LEMMA FiniteImage ==
    ASSUME NEW S, IsFiniteSet(S), NEW f, DOMAIN f = S, f = [x \in S |-> f[x]]
    PROVE  IsFiniteSet({f[x] : x \in S})
<1> DEFINE T == {f[x] : x \in S}
<1>1. f \in Surjection(S, T)
  BY DEF Surjection
<1> QED  BY <1>1, FS_Surjection

LEMMA GeometrySane ==
    ASSUME Played, collapse \in [rows : Nat, bytes : Nat], phase = "ready"
    PROVE  /\ Geometry
           /\ \A e \in CreatorEvents : RowsOf(e) \in SUBSET Nat /\ IsFiniteSet(RowsOf(e))
<1>1. base \in Nat /\ rowBytes \in Nat \ {0}
  <2>1. arenaBase \in Nat /\ addrMin \in Nat /\ rowBytes \in Nat \ {0}
    BY ParserAssumption DEF Played, LiveInv, TypeOK, GeometryType, BaseAligned
  <2>2. PICK lo \in Nat : lo = IF arenaBase # 0 THEN Min2(arenaBase, addrMin) ELSE addrMin
    BY <2>1 DEF Min2
  <2>3. PICK from \in Nat : from = IF lo = Top THEN 0 ELSE lo
    OBVIOUS
  <2>4. base = from - (from % rowBytes)
    BY <2>2, <2>3 DEF Played, BaseAligned, AlignedBase
  <2>5. PICK w \in Nat \ {0} : w = rowBytes
    BY <2>1
  <2>6. PICK q \in Nat, r \in Nat : q = from \div w /\ r = from % w /\ from = q * w + r
    <3>1. from \div w \in Nat /\ from % w \in Nat /\ from = ((from \div w) * w) + (from % w)
      BY Quotient
    <3> QED  BY <3>1
  <2>7. q * w \in Nat
    OBVIOUS
  <2> QED  BY <2>4, <2>5, <2>6, <2>7
<1>2. \A a \in Nat : RowAt(a) \in Nat
  <2> SUFFICES ASSUME NEW a \in Nat PROVE RowAt(a) \in Nat
    OBVIOUS
  <2>1. SatSub(a, base) \in Nat
    BY <1>1 DEF SatSub
  <2> QED  BY <1>1, <2>1, Quotient DEF RowAt
<1>3. EffectiveLimit \in Nat
  <2>1. PICK b \in Nat, r \in Nat : b = collapse.bytes /\ r = collapse.rows
    OBVIOUS
  <2>2. b > 0 => (b + rowBytes - 1) \div rowBytes \in Nat
    <3> HAVE b > 0
    <3>1. b + rowBytes - 1 \in Nat
      BY <1>1
    <3> QED  BY <1>1, <3>1, Quotient
  <2> QED  BY <2>1, <2>2 DEF EffectiveLimit, Max2
<1>4. TypeOK /\ LinksInverse
  BY DEF Played, LiveInv
<1>5. \A e : Touched(e) # 0 => rows[Touched(e)].addr \in Nat
  <2> SUFFICES ASSUME NEW e, Touched(e) # 0 PROVE rows[Touched(e)].addr \in Nat
    OBVIOUS
  <2>1. e \in 1..Len(rows) /\ (Touched(e) = rows[e].target \/ Touched(e) = e)
    BY DEF Touched
  <2>2. Touched(e) \in 1..Len(rows)
    BY <1>4, <2>1, RowsType DEF LinksInverse
  <2> QED  BY <1>4, <2>2, RowGeometry, ParserAssumption
<1>6. \A e \in CreatorEvents : RowsOf(e) \in SUBSET Nat /\ IsFiniteSet(RowsOf(e))
  <2> SUFFICES ASSUME NEW e \in CreatorEvents
               PROVE  RowsOf(e) \in SUBSET Nat /\ IsFiniteSet(RowsOf(e))
    OBVIOUS
  <2>1. e \in 1..Len(rows)
    BY <1>4, RowsType
  <2>2. rows[e].addr \in Nat /\ SatSub(EndOf(e), 1) \in Nat
    BY <1>4, <2>1, RowGeometry, ParserAssumption DEF Min2, SatSub
  <2>3. PICK first \in Nat, last \in Nat :
          first = RowAt(rows[e].addr) /\ last = RowAt(SatSub(EndOf(e), 1))
    BY <1>2, <2>2
  <2>4. RowsOf(e) = IF last - first > RowCap THEN {first, last} ELSE first..last
    BY <2>3 DEF RowsOf
  <2>5. IsFiniteSet({first, last}) /\ IsFiniteSet(first..last)
    <3>1. IsFiniteSet({first}) /\ IsFiniteSet({last}) /\ {first, last} = {first} \cup {last}
      BY FS_Singleton
    <3>2. IsFiniteSet({first, last})
      <4>1. IsFiniteSet({first} \cup {last})
        BY <3>1, FS_Union, Zenon
      <4> QED  BY <3>1, <4>1, Zenon
    <3>3. IsFiniteSet(first..last)
      <4>1. first \in Int /\ last \in Int
        OBVIOUS
      <4> QED  BY <4>1, FS_Interval, Zenon
    <3> QED  BY <3>2, <3>3
  <2>6. {first, last} \in SUBSET Nat /\ first..last \in SUBSET Nat
    OBVIOUS
  <2> QED  BY <2>4, <2>5, <2>6
<1>7. AllRows \in SUBSET Nat
  BY <1>6 DEF AllRows
<1> QED  BY <1>1, <1>2, <1>3, <1>5, <1>6, <1>7 DEF Geometry

LEMMA RowsFinite ==
    ASSUME Played, collapse \in [rows : Nat, bytes : Nat], phase = "ready",
           NEW S \in SUBSET CreatorEvents
    PROVE  /\ UNION {RowsOf(e) : e \in S} \in SUBSET Nat
           /\ IsFiniteSet(UNION {RowsOf(e) : e \in S})
<1>1. IsFiniteSet(S)
  BY LiveFinite DEF Played, LiveInv
<1>2. \A e \in S : RowsOf(e) \in SUBSET Nat /\ IsFiniteSet(RowsOf(e))
  BY GeometrySane
<1>3. IsFiniteSet({RowsOf(e) : e \in S})
  <2> DEFINE f == [e \in S |-> RowsOf(e)]
  <2>1. IsFiniteSet({f[e] : e \in S})
    BY <1>1, FiniteImage
  <2> QED  BY <2>1
<1>4. IsFiniteSet(UNION {RowsOf(e) : e \in S})
  BY <1>2, <1>3, FS_UNION
<1> QED  BY <1>2, <1>4

LEMMA NeededIsWanted ==
    ASSUME Played, LayTypes, RowsCached, phase = "ready"
    PROVE  Needed = Wanted /\ IsFiniteSet(Wanted) /\ \A x \in Wanted : x \in Nat
<1>1. collapse \in [rows : Nat, bytes : Nat] /\ showAll \in BOOLEAN
  BY DEF LayTypes
<1>2. view.live \in SUBSET CreatorEvents
  BY DEF Played, TallyInv, TalliesOf
<1>3. DOMAIN view.occ = UNION {RowsOf(e) : e \in view.live}
  <2>1. DOMAIN view.occ = UNION {RowsTouched[e] : e \in view.live}
    BY DEF Played, TallyInv, TalliesOf, CountBag
  <2>2. \A e \in view.live : RowsTouched[e] = RowsOf(e)
    BY <1>2, RowsType DEF RowsTouched, Played, LiveInv
  <2> QED  BY <2>1, <2>2
<1>4. showAll => allRows.rows = UNION {RowsOf(e) : e \in CreatorEvents}
  BY DEF RowsCached, AllRows
<1>5. PICK S : S = IF showAll THEN CreatorEvents ELSE view.live
  OBVIOUS
<1>6. S \in SUBSET CreatorEvents
  BY <1>2, <1>5
<1>7. PICK P : P = {RowAt(p) : p \in Pinned}
  OBVIOUS
<1>8. IsFiniteSet(P) /\ \A x \in P : x \in Nat
  <2>1. \A p \in Pinned : p \in Nat
    BY ParserAssumption DEF Pinned, LayTypes
  <2>2. IsFiniteSet(Pinned)
    <3>1. IsFiniteSet(0..Top)
      BY ParserAssumption, FS_Interval
    <3>2. IsFiniteSet(pins)
      BY <3>1, FS_Subset DEF LayTypes
    <3>3. IsFiniteSet({anchorPin})
      BY FS_Singleton
    <3>4. {anchorPin} \ {None} \in SUBSET {anchorPin}
      OBVIOUS
    <3>5. IsFiniteSet({anchorPin} \ {None})
      BY <3>3, <3>4, FS_Subset
    <3> QED  BY <3>2, <3>5, FS_Union DEF Pinned
  <2>3. IsFiniteSet({RowAt(p) : p \in Pinned})
    <3> DEFINE f == [p \in Pinned |-> RowAt(p)]
    <3>1. IsFiniteSet({f[p] : p \in Pinned})
      BY <2>2, FiniteImage
    <3> QED  BY <3>1
  <2>4. \A a \in Nat : RowAt(a) \in Nat
    BY <1>1, GeometrySane DEF Geometry
  <2> QED  BY <1>7, <2>1, <2>3, <2>4
<1>9. Wanted = P \cup UNION {RowsOf(e) : e \in S}
  BY <1>5, <1>7 DEF Wanted
<1>10. Needed = P \cup UNION {RowsOf(e) : e \in S}
  BY <1>1, <1>3, <1>4, <1>5, <1>7 DEF Needed
<1>11. PICK U : U = UNION {RowsOf(e) : e \in S}
  OBVIOUS
<1>12. IsFiniteSet(U) /\ \A x \in U : x \in Nat
  BY <1>1, <1>6, <1>11, RowsFinite
<1>13. IsFiniteSet(P \cup U)
  BY <1>8, <1>12, FS_Union
<1> QED  BY <1>8, <1>9, <1>10, <1>11, <1>12, <1>13

\* The layout computed from a current cache is that of the wanted rows.
LEMMA LaidIsSane == Played /\ LayTypes /\ RowsCached => LaidSane
<1> SUFFICES ASSUME Played, LayTypes, RowsCached, phase = "ready"
             PROVE  Geometry /\ LayoutOf(LaidOut, Wanted)
  BY DEF LaidSane
<1>1. Geometry
  BY GeometrySane DEF LayTypes
<1>2. Needed = Wanted /\ IsFiniteSet(Wanted) /\ \A x \in Wanted : x \in Nat
  BY NeededIsWanted
<1>3. LayoutOf(Lay(Wanted), Wanted)
  BY <1>1, <1>2, LayExact DEF Geometry
<1> QED  BY <1>1, <1>2, <1>3 DEF LaidOut

LEMMA LaidSame ==
    ASSUME UNCHANGED <<showAll, allRows, pins, anchorPin, collapse, rowBytes, base>>,
           showAll \/ view'.occ = view.occ
    PROVE  LaidOut' = LaidOut
<1>1. Needed' = Needed
  BY DEF Needed, Pinned, RowAt
<1>2. EffectiveLimit' = EffectiveLimit
  BY DEF EffectiveLimit
<1>3. ASSUME NEW N PROVE Lay(N)' = Lay(N)
  BY <1>2 DEF Lay, Place
<1> QED  BY <1>1, <1>3 DEF LaidOut

LEMMA RowsSame ==
    ASSUME UNCHANGED <<parserVars, rowVars>>
    PROVE  /\ AllRows' = AllRows /\ rows' = rows /\ phase' = phase
           /\ base' = base /\ rowBytes' = rowBytes
BY DEF parserVars, store, rowVars, AllRows, CreatorEvents, RowsOf, RowAt, EndOf, Span

-----------------------------------------------------------------------------
(***************************************************************************)
(* Looking rows up.                                                        *)
(***************************************************************************)
LEMMA RowFound ==
    ASSUME NEW s, Stepped(s), s # <<>>, NEW row \in Int
    PROVE  \E j \in 1..Len(s) :
              /\ j = Min2(IndexFrom(s, row), Len(s))
              /\ RowY(s, j) \in Nat /\ s[j].row \in Nat
              /\ row \in RowSet(s) => s[j].row = row
<1>1. PICK n \in Nat \ {0} : n = Len(s) /\ s \in Seq(Slots)
  BY DEF Stepped
<1>2. PICK m \in 0..n : RowsBefore(s, row) = 1..m /\ IndexFrom(s, row) = m + 1
  BY <1>1, RowSearch
<1>3. PICK j \in 1..n : j = Min2(m + 1, n)
  BY DEF Min2
<1>4. RowY(s, j) \in Nat /\ \A i \in 1..n : s[i].row \in Nat
  BY <1>1, RowsDown, SlotTypes
<1>5. row \in RowSet(s) => s[j].row = row
  <2> HAVE row \in RowSet(s)
  <2>1. PICK i \in 1..n : s[i].row = row
    BY <1>1 DEF RowSet
  <2>2. \A k \in 1..n : s[k].row < row <=> k <= m
    <3>1. \A k \in 1..n : k \in RowsBefore(s, row) <=> s[k].row < row
      BY <1>1 DEF RowsBefore
    <3> QED  BY <1>2, <3>1
  <2>3. ~(i <= m)
    BY <2>1, <2>2
  <2>4. j = m + 1 /\ j <= i /\ ~(s[j].row < row)
    BY <1>3, <2>2, <2>3 DEF Min2
  <2>5. j < i => s[j].row < s[i].row
    BY <1>1 DEF Stepped
  <2> QED  BY <1>4, <2>1, <2>4, <2>5
<1> QED  BY <1>1, <1>2, <1>3, <1>4, <1>5

LEMMA IndexWithin ==
    ASSUME NEW s, Stepped(s), NEW row \in Int
    PROVE  Index(s, row) = 0 \/ (Index(s, row) \in 1..Len(s) /\ RowY(s, Index(s, row)) \in Nat)
<1>1. PICK n \in Nat : n = Len(s)
  BY DEF Stepped
<1>2. PICK m \in 0..n : IndexFrom(s, row) = m + 1
  BY <1>1, RowSearch
<1>3. \A i \in 1..n : RowY(s, i) \in Nat
  BY <1>1, RowsDown
<1>4. Index(s, row) = IF m + 1 <= n /\ s[m+1].row = row THEN m + 1 ELSE 0
  BY <1>1, <1>2 DEF Index
<1>5. m + 1 <= n => m + 1 \in 1..n
  OBVIOUS
<1> QED  BY <1>1, <1>3, <1>4, <1>5

Anchors == {None} \cup [addr : Nat, off : Int]

LEMMA AnchorTyped ==
    ASSUME Geometry, NEW s, Stepped(s), NEW y \in Int
    PROVE  AnchorAt(s, y) \in Anchors
<1>1. CASE s = <<>>
  BY <1>1 DEF AnchorAt, Anchors
<1>2. CASE s # <<>>
  <2>1. PICK n \in Nat \ {0} : n = Len(s)
    BY <1>2 DEF Stepped
  <2>2. PICK i \in 1..n :
          AnchorAt(s, y) = [addr |-> base + s[i].row * rowBytes, off |-> y - RowY(s, i)]
    BY <2>1, AnchorRow
  <2>3. s[i].row \in Nat /\ RowY(s, i) \in Nat
    BY <2>1, SlotTypes, RowsDown DEF Stepped
  <2>4. PICK row \in Nat, b \in Nat, w \in Nat : row = s[i].row /\ b = base /\ w = rowBytes
    BY <2>3 DEF Geometry
  <2>5. row * w \in Nat
    OBVIOUS
  <2>6. b + row * w \in Nat /\ y - RowY(s, i) \in Int
    BY <2>3, <2>5
  <2> QED  BY <2>2, <2>4, <2>6 DEF Anchors
<1> QED  BY <1>1, <1>2

-----------------------------------------------------------------------------
(***************************************************************************)
(* What every message handler does to types and caches, and to the rows    *)
(* shown.                                                                  *)
(***************************************************************************)
LayoutInv == LayTypes /\ RowsCached /\ ShownInv

LEMMA EnsuredSane ==
    ASSUME Played, LayoutInv, LaidSane, AtRest
    PROVE  /\ Ensured = LaidOut /\ Stepped(Ensured) /\ Geometry
           /\ AnchorAt(Ensured, scroll) \in Anchors
<1>1. phase = "ready" /\ ~seek.active
  BY DEF AtRest
<1>2. Geometry /\ Stepped(LaidOut)
  BY <1>1 DEF LaidSane, LayoutOf
<1>3. Ensured = LaidOut
  BY <1>1 DEF Ensured, LayoutInv, ShownInv
<1> QED  BY <1>2, <1>3, AnchorTyped DEF LayoutInv, ShownInv

LEMMA TypesQuiet ==
    ASSUME LayTypes, RowsCached,
           UNCHANGED <<parserVars, rowVars, showAll, allRows, pins, anchorPin, collapse, after>>,
           phase = "ready"
    PROVE  LayTypes' /\ RowsCached'
<1>1. AllRows' = AllRows /\ phase' = phase
  BY RowsSame
<1> QED  BY <1>1 DEF LayTypes, RowsCached

LEMMA HoldTyped ==
    ASSUME LayTypes, NEW anchor \in Anchors, Hold(anchor)
    PROVE  /\ anchorPin' \in Nat \cup {None}
           /\ UNCHANGED <<showAll, allRows, pins, collapse>>
BY DEF Hold, Anchors, LayTypes

LEMMA TypesStep ==
    ASSUME Played, LayoutInv, LaidSane, [LayoutNext]_allVars
    PROVE  LayTypes' /\ RowsCached'
<1>0. LayTypes /\ RowsCached /\ ShownInv
  BY DEF LayoutInv
<1>1. CASE LayoutParse
  <2>1. phase' = "loading" /\ phase = "loading" /\ UNCHANGED <<layoutVars, handlerVars>>
    BY <1>1, ParseLineLoads DEF LayoutParse, Parse
  <2> QED  BY <1>0, <2>1 DEF layoutVars, handlerVars, LayTypes, RowsCached
<1>2. CASE LayoutReset
  <2>1. phase' = "ready" /\ UNCHANGED <<showAll, collapse, after>>
    BY <1>2 DEF LayoutReset, ParseEnd, Finish
  <2>2. pins' = {} /\ anchorPin' = None /\ dirty' = TRUE
    BY <1>2 DEF LayoutReset
  <2>3. allRows' = IF showAll THEN [rows |-> AllRows', valid |-> TRUE]
                   ELSE [allRows EXCEPT !.valid = FALSE]
    BY <1>2 DEF LayoutReset
  <2> QED  BY <1>0, <2>1, <2>2, <2>3 DEF LayTypes, RowsCached
<1>3. CASE \E asked \in 0..MaxEvents : SeekAnchored(asked)
  <2>1. PICK asked \in 0..MaxEvents : SeekAnchored(asked)
    BY <1>3
  <2>2. AtRest /\ BeginSeek(asked) /\ shown' = Ensured
    BY <2>1 DEF SeekAnchored
  <2>3. PICK anchor : /\ anchor = AnchorAt(shown', scroll) /\ Hold(anchor)
                      /\ after' = [kind |-> "restore", anchor |-> anchor]
    BY <2>1 DEF SeekAnchored
  <2>4. anchor \in Anchors
    BY <2>2, <2>3, EnsuredSane
  <2>5. AllRows' = AllRows /\ phase' = phase /\ phase = "ready"
    BY <2>2, RowsSame DEF BeginSeek
  <2>6. anchorPin' \in Nat \cup {None} /\ UNCHANGED <<showAll, allRows, pins, collapse>>
    BY <1>0, <2>3, <2>4, HoldTyped
  <2> QED  BY <1>0, <2>3, <2>4, <2>5, <2>6 DEF LayTypes, RowsCached, Anchors
<1>4. CASE HoldInPlace
  <2>1. AtRest /\ UNCHANGED <<vars, after>>
    BY <1>4 DEF HoldInPlace
  <2>2. PICK anchor : anchor = AnchorAt(Ensured, scroll) /\ Hold(anchor)
    BY <1>4 DEF HoldInPlace
  <2>3. anchor \in Anchors
    BY <2>1, <2>2, EnsuredSane
  <2>4. AllRows' = AllRows /\ phase' = phase /\ phase = "ready"
    BY <2>1, RowsSame DEF vars, viewVars, AtRest
  <2>5. anchorPin' \in Nat \cup {None} /\ UNCHANGED <<showAll, allRows, pins, collapse>>
    BY <1>0, <2>2, <2>3, HoldTyped
  <2> QED  BY <1>0, <2>1, <2>4, <2>5 DEF LayTypes, RowsCached
<1>5. CASE \/ StepBack \/ CentreHere \/ Seeking \/ FinishSeek \/ Render
           \/ \E asked \in 0..MaxEvents : Jump(asked)
           \/ \E addr \in Addrs : GotoAddr(addr)
  <2>1. ASSUME NEW asked, NEW e, JumpTo(asked, e)
        PROVE  LayTypes' /\ RowsCached'
    <3>1. /\ UNCHANGED <<parserVars, rowVars, layoutVars>> /\ phase = "ready"
          /\ after' = [kind |-> "centre", event |-> e]
      BY <2>1 DEF JumpTo, BeginSeek
    <3>2. AllRows' = AllRows /\ phase' = phase
      BY <3>1, RowsSame
    <3> QED  BY <1>0, <3>1, <3>2 DEF LayTypes, RowsCached, layoutVars
  <2>2. CASE StepBack \/ \E asked \in 0..MaxEvents : Jump(asked)
    BY <2>1, <2>2 DEF StepBack, Jump
  <2>3. CASE Seeking
    <3>1. /\ UNCHANGED <<parserVars, rowVars, layoutVars, handlerVars>>
          /\ seek.active
      BY <2>3 DEF Seeking, InsertFromSnapshot, StepForward, StepBackward
    <3>2. AllRows' = AllRows /\ phase' = phase
      BY <3>1, RowsSame
    <3> QED  BY <1>0, <3>1, <3>2 DEF LayTypes, RowsCached, layoutVars, handlerVars
  <2>4. CASE FinishSeek
    <3>1. /\ UNCHANGED <<parserVars, rowVars, showAll, allRows, pins, anchorPin, collapse>>
          /\ seek.active /\ after' = Nothing
      BY <2>4 DEF FinishSeek, EndSeek
    <3>2. AllRows' = AllRows /\ phase' = phase
      BY <3>1, RowsSame
    <3>3. phase = "ready"
      BY <3>1 DEF Played, PlayInv, Idle, LiveInv, TypeOK
    <3> QED  BY <1>0, <3>1, <3>2, <3>3 DEF LayTypes, RowsCached, Nothing
  <2>5. CASE CentreHere \/ Render \/ \E addr \in Addrs : GotoAddr(addr)
    <3>1. /\ UNCHANGED <<parserVars, rowVars, showAll, allRows, pins, anchorPin, collapse, after>>
          /\ phase = "ready"
      BY <2>5 DEF CentreHere, Render, GotoAddr, AtRest, vars, viewVars
    <3> QED  BY <1>0, <3>1, TypesQuiet
  <2> QED  BY <1>5, <2>2, <2>3, <2>4, <2>5
<1>6. CASE \E asked \in RowWidths : SetWidth(asked)
  <2>1. /\ phase' = "ready"
        /\ UNCHANGED <<showAll, pins, anchorPin, collapse, after>>
        /\ allRows' = IF showAll THEN [rows |-> AllRows', valid |-> TRUE]
                      ELSE [allRows EXCEPT !.valid = FALSE]
    BY <1>6 DEF SetWidth, AtRest, SetRowBytes, parserVars
  <2> QED  BY <1>0, <2>1 DEF LayTypes, RowsCached
<1>7. CASE \E limit \in Limits : SetCollapse(limit)
  <2>1. PICK limit \in Limits : SetCollapse(limit)
    BY <1>7
  <2>2. limit \in [rows : Nat, bytes : Nat]
    <3>1. collapse.rows \in Nat /\ RowLimits \subseteq Nat /\ ByteLimits \subseteq Nat
      BY <1>0, LayoutAssumption DEF LayTypes
    <3>2. \/ limit \in [rows : Positive(RowLimits), bytes : {0}]
          \/ limit \in [rows : {collapse.rows}, bytes : Positive(ByteLimits)]
      BY DEF Limits
    <3>3. \A R \in SUBSET Nat : \A B \in SUBSET Nat :
             limit \in [rows : R, bytes : B] => limit \in [rows : Nat, bytes : Nat]
      OBVIOUS
    <3>4. /\ Positive(RowLimits) \in SUBSET Nat /\ {0} \in SUBSET Nat
          /\ {collapse.rows} \in SUBSET Nat /\ Positive(ByteLimits) \in SUBSET Nat
      BY <3>1 DEF Positive, Max2
    <3> QED  BY <3>2, <3>3, <3>4, Zenon
  <2>3. /\ UNCHANGED <<parserVars, rowVars, showAll, allRows, pins, anchorPin, after>>
        /\ collapse' = limit /\ phase = "ready"
    BY <2>1 DEF SetCollapse, AtRest, vars, viewVars
  <2>4. AllRows' = AllRows /\ phase' = phase
    BY <2>3, RowsSame
  <2> QED  BY <1>0, <2>2, <2>3, <2>4 DEF LayTypes, RowsCached
<1>8. CASE \E on \in BOOLEAN : SetShowAll(on)
  <2>1. PICK on \in BOOLEAN : SetShowAll(on)
    BY <1>8
  <2>2. /\ UNCHANGED <<parserVars, rowVars, pins, anchorPin, collapse, after>>
        /\ showAll' = on /\ phase = "ready"
        /\ allRows' = IF on /\ ~allRows.valid THEN [rows |-> AllRows, valid |-> TRUE]
                      ELSE allRows
    BY <2>1 DEF SetShowAll, AtRest, vars, viewVars
  <2>3. AllRows' = AllRows /\ phase' = phase
    BY <2>2, RowsSame
  <2> QED  BY <1>0, <2>2, <2>3 DEF LayTypes, RowsCached
<1>9. CASE \E marks \in MarkSets : SetPins(marks)
  <2>1. PICK marks \in MarkSets : SetPins(marks)
    BY <1>9
  <2>2. /\ UNCHANGED <<parserVars, rowVars, showAll, allRows, anchorPin, collapse, after>>
        /\ pins' = marks /\ marks \in SUBSET (0..Top) /\ dirty' = TRUE
    BY <2>1, LayoutAssumption DEF SetPins, vars, viewVars, handlerVars
  <2>3. AllRows' = AllRows /\ phase' = phase
    BY <2>2, RowsSame
  <2> QED  BY <1>0, <2>2, <2>3 DEF LayTypes, RowsCached
<1>10. CASE \E y \in Scrolls : ScrollBy(y)
  <2>1. /\ UNCHANGED <<parserVars, rowVars, showAll, allRows, pins, collapse, after>>
        /\ anchorPin' = None /\ phase = "ready"
    BY <1>10 DEF ScrollBy, AtRest, vars, viewVars
  <2>2. AllRows' = AllRows /\ phase' = phase
    BY <2>1, RowsSame
  <2> QED  BY <1>0, <2>1, <2>2 DEF LayTypes, RowsCached
<1>11. CASE UNCHANGED allVars
  <2>1. UNCHANGED <<parserVars, rowVars, layoutVars, handlerVars>>
    BY <1>11 DEF allVars, vars, viewVars
  <2>2. AllRows' = AllRows /\ phase' = phase
    BY <2>1, RowsSame
  <2> QED  BY <1>0, <2>1, <2>2 DEF LayTypes, RowsCached, layoutVars, handlerVars
<1> QED
  BY <1>1, <1>2, <1>3, <1>4, <1>5, <1>6, <1>7, <1>8, <1>9, <1>10, <1>11 DEF LayoutNext

\* Scrolling to an address finds its row, or nowhere if there is no row at all.
LEMMA ScrollTyped ==
    ASSUME Stepped(shown'), NEW a, RowAt(a)' \in Int, NEW off \in Int,
           NEW y, y = ScrollForAddr(shown, a, off)'
    PROVE  /\ y = None \/ y \in Nat
           /\ RowAt(a)' \in RowSet(shown') =>
                \E i \in 1..Len(shown') :
                    shown'[i].row = RowAt(a)' /\ y = Max2(RowY(shown', i) + off, 0)
<1>0. PICK s : s = shown'
  OBVIOUS
<1>1. PICK row \in Int : s = shown' /\ row = RowAt(a)'
  BY <1>0
<1>2. y = LET j == Min2(IndexFrom(s, row), Len(s))
          IN  IF s = <<>> THEN None
              ELSE Max2(RowY(s, j) + (IF s[j].row = row THEN off ELSE 0), 0)
  BY <1>1 DEF ScrollForAddr
<1>3. CASE s = <<>>
  <2>1. RowSet(s) = {}
    BY <1>3 DEF RowSet
  <2> QED  BY <1>1, <1>2, <1>3, <2>1
<1>4. CASE s # <<>>
  <2>1. PICK j \in 1..Len(s) :
          /\ j = Min2(IndexFrom(s, row), Len(s))
          /\ RowY(s, j) \in Nat /\ s[j].row \in Nat
          /\ row \in RowSet(s) => s[j].row = row
    BY <1>1, <1>4, RowFound
  <2>2. PICK o \in Int : o = IF s[j].row = row THEN off ELSE 0
    OBVIOUS
  <2>3. y = Max2(RowY(s, j) + o, 0) /\ y \in Nat
    BY <1>2, <1>4, <2>1, <2>2 DEF Max2
  <2>4. row \in RowSet(s) => o = off /\ s[j].row = row
    BY <2>1, <2>2
  <2> QED  BY <1>1, <2>1, <2>3, <2>4
<1> QED  BY <1>3, <1>4

LEMMA CentreTyped ==
    ASSUME Stepped(shown'), Geometry', NEW e, NEW y, y = ScrollForEvent(shown, e)'
    PROVE  y = None \/ y \in Nat
<1>1. PICK c : c = Touched(e)'
  OBVIOUS
<1>2. CASE c = 0
  BY <1>1, <1>2 DEF ScrollForEvent
<1>3. CASE c # 0
  <2>1. PICK row \in Nat : row = RowAt(rows[Touched(e)].addr)'
    BY <1>1, <1>3 DEF Geometry
  <2>2. PICK i : i = Index(shown', row)
    OBVIOUS
  <2>3. i = 0 \/ RowY(shown', i) \in Nat
    BY <2>2, IndexWithin
  <2>4. y = IF i = 0 THEN None ELSE Max2(RowY(shown', i) - Height \div 2, 0)
    BY <1>1, <1>3, <2>1, <2>2 DEF ScrollForEvent
  <2>5. Height \div 2 \in Nat
    BY LayoutAssumption
  <2> QED  BY <2>3, <2>4, <2>5 DEF Max2
<1> QED  BY <1>2, <1>3

-----------------------------------------------------------------------------
ShownNow == /\ Stepped(shown) /\ scroll \in Int /\ dirty \in BOOLEAN
            /\ ~dirty => shown = LaidOut

LEMMA RestoreStep ==
    ASSUME scroll \in Int, LaidSane', phase' = "ready", NEW anchor \in Anchors,
           NEW laid, Stepped(laid), NEW marked \in BOOLEAN,
           RestoreAnchor(anchor, laid, marked), ~marked => laid = LaidOut'
    PROVE  ShownNow'
<1>1. Geometry' /\ Stepped(LaidOut')
  BY DEF LaidSane, LayoutOf
<1>2. CASE anchor = None
  BY <1>2 DEF RestoreAnchor, ShownNow
<1>3. CASE anchor # None
  <2>1. /\ dirty' = FALSE
        /\ shown' = IF marked THEN LaidOut' ELSE laid
        /\ scroll' = LET y == ScrollForAddr(shown, anchor.addr, anchor.off)'
                     IN  IF y = None THEN scroll ELSE y
    BY <1>3 DEF RestoreAnchor
  <2>2. shown' = LaidOut' /\ Stepped(shown')
    BY <1>1, <2>1
  <2>3. anchor.addr \in Nat /\ anchor.off \in Int
    BY <1>3 DEF Anchors
  <2>4. RowAt(anchor.addr)' \in Int
    BY <1>1, <2>3 DEF Geometry
  <2>5. PICK y : y = ScrollForAddr(shown, anchor.addr, anchor.off)'
    OBVIOUS
  <2>6. y = None \/ y \in Nat
    BY <2>2, <2>3, <2>4, <2>5, ScrollTyped
  <2>7. scroll' \in Int
    BY <2>1, <2>5, <2>6
  <2> QED  BY <2>1, <2>2, <2>7 DEF ShownNow
<1> QED  BY <1>2, <1>3

LEMMA CentreStep ==
    ASSUME scroll \in Int, LaidSane', phase' = "ready", NEW e, Stepped(shown),
           NEW marked \in BOOLEAN, CentreOn(e, marked), ~marked => shown = LaidOut'
    PROVE  ShownNow'
<1>1. Geometry' /\ Stepped(LaidOut')
  BY DEF LaidSane, LayoutOf
<1>2. CASE e \notin 1..Len(rows)
  BY <1>2 DEF CentreOn, ShownNow
<1>3. CASE e \in 1..Len(rows)
  <2>1. /\ dirty' = FALSE
        /\ shown' = IF marked THEN LaidOut' ELSE shown
        /\ scroll' = LET y == ScrollForEvent(shown, e)' IN IF y = None THEN scroll ELSE y
    BY <1>3 DEF CentreOn
  <2>2. shown' = LaidOut' /\ Stepped(shown')
    BY <1>1, <2>1
  <2>3. PICK y : y = ScrollForEvent(shown, e)'
    OBVIOUS
  <2>4. y = None \/ y \in Nat
    BY <1>1, <2>2, <2>3, CentreTyped
  <2>5. scroll' \in Int
    BY <2>1, <2>3, <2>4
  <2> QED  BY <2>1, <2>2, <2>5 DEF ShownNow
<1> QED  BY <1>2, <1>3

\* Anchored operations of the handlers that seek nowhere.
LEMMA AnchoredStep ==
    ASSUME Played, LayoutInv, LaidSane, LaidSane', AtRest, Anchored(TRUE), phase' = "ready"
    PROVE  ShownNow'
<1>1. PICK laid, anchor : /\ laid = Ensured /\ anchor = AnchorAt(Ensured, scroll)
                          /\ RestoreAnchor(anchor, laid, TRUE)
  BY DEF Anchored
<1>2. Stepped(laid) /\ anchor \in Anchors /\ scroll \in Int
  BY <1>1, EnsuredSane DEF LayoutInv, ShownInv
<1> QED  BY <1>1, <1>2, RestoreStep

\* No handler forgets to mark the rows it makes stale.
LEMMA ShownStep ==
    ASSUME Played, LayoutInv, LaidSane, LaidSane', LayTypes', RowsCached', Played',
           [LayoutNext]_allVars
    PROVE  ShownInv'
<1>0. LayTypes /\ RowsCached /\ ShownInv /\ Stepped(shown) /\ scroll \in Int /\ dirty \in BOOLEAN
  BY DEF LayoutInv, ShownInv
<1>1. CASE LayoutParse
  <2>1. phase' = "loading" /\ phase = "loading" /\ UNCHANGED <<layoutVars, handlerVars>>
    BY <1>1, ParseLineLoads DEF LayoutParse, Parse
  <2>2. dirty' /\ seek' = Idle
    BY <2>1 DEF RowsCached, Played, PlayInv
  <2> QED  BY <1>0, <2>1, <2>2 DEF layoutVars, handlerVars, ShownInv, Idle
<1>2. CASE LayoutReset
  <2>1. dirty' = TRUE /\ scroll' = 0 /\ shown' = shown /\ seek' = Idle
    BY <1>2 DEF LayoutReset, ParseEnd
  <2> QED  BY <1>0, <2>1 DEF ShownInv, Idle
<1>3. CASE \E asked \in 0..MaxEvents : SeekAnchored(asked)
  <2>1. PICK asked \in 0..MaxEvents : SeekAnchored(asked)
    BY <1>3
  <2>2. /\ AtRest /\ BeginSeek(asked) /\ shown' = Ensured
        /\ dirty' = (anchorPin' # anchorPin) /\ scroll' = scroll
    BY <2>1 DEF SeekAnchored
  <2>3. PICK anchor : /\ anchor = AnchorAt(shown', scroll) /\ Hold(anchor)
                      /\ after' = [kind |-> "restore", anchor |-> anchor]
    BY <2>1 DEF SeekAnchored
  <2>4. Ensured = LaidOut /\ Stepped(Ensured)
    BY <2>2, EnsuredSane
  <2>5. UNCHANGED <<showAll, allRows, pins, collapse, rowBytes, base>> /\ seek'.active = TRUE
    BY <2>2, <2>3 DEF Hold, BeginSeek, rowVars
  <2>6. ~dirty' /\ showAll' => shown' = LaidOut'
    <3> HAVE ~dirty' /\ showAll'
    <3>1. anchorPin' = anchorPin /\ showAll
      BY <2>2, <2>5
    <3>2. LaidOut' = LaidOut
      BY <2>5, <3>1, LaidSame
    <3> QED  BY <2>2, <2>4, <3>2
  <2>7. after'.anchor # None => anchorPin' = after'.anchor.addr
    BY <2>3 DEF Hold
  <2> QED  BY <1>0, <2>2, <2>4, <2>5, <2>6, <2>7 DEF ShownInv
<1>4. ASSUME NEW asked, NEW e, JumpTo(asked, e) PROVE ShownInv'
  <2>1. /\ AtRest /\ BeginSeek(asked) /\ UNCHANGED <<layoutVars, scroll>>
        /\ after' = [kind |-> "centre", event |-> e]
    BY <1>4 DEF JumpTo
  <2>2. /\ UNCHANGED <<showAll, allRows, pins, anchorPin, collapse, rowBytes, base, dirty, shown>>
        /\ seek'.active = TRUE /\ ~seek.active
    BY <2>1 DEF layoutVars, BeginSeek, rowVars, AtRest
  <2>3. showAll => LaidOut' = LaidOut
    BY <2>2, LaidSame
  <2> QED  BY <1>0, <2>1, <2>2, <2>3 DEF ShownInv
<1>5. CASE StepBack \/ \E asked \in 0..MaxEvents : Jump(asked)
  BY <1>4, <1>5 DEF StepBack, Jump
<1>6. CASE HoldInPlace
  <2>1. AtRest /\ UNCHANGED <<vars, after>>
    BY <1>6 DEF HoldInPlace
  <2>2. PICK laid, anchor : /\ laid = Ensured /\ anchor = AnchorAt(Ensured, scroll)
                            /\ Hold(anchor)
                            /\ RestoreAnchor(anchor, laid, anchorPin' # anchorPin)
    BY <1>6 DEF HoldInPlace
  <2>3. Stepped(laid) /\ laid = LaidOut /\ anchor \in Anchors
    BY <2>1, <2>2, EnsuredSane
  <2>4. UNCHANGED <<showAll, allRows, pins, collapse, rowBytes, base, view, phase, seek>>
    BY <2>1, <2>2 DEF Hold, vars, viewVars, rowVars, playVars, parserVars
  <2>5. PICK marked \in BOOLEAN : marked = (anchorPin' # anchorPin)
    OBVIOUS
  <2>6. ~marked => laid = LaidOut'
    BY <2>3, <2>4, <2>5, LaidSame
  <2>7. phase' = "ready" /\ ~seek'.active
    BY <2>1, <2>4 DEF AtRest
  <2>8. ShownNow'
    BY <1>0, <2>2, <2>3, <2>5, <2>6, <2>7, RestoreStep
  <2> QED  BY <2>7, <2>8 DEF ShownNow, ShownInv
<1>7. CASE Seeking
  <2>1. /\ UNCHANGED <<layoutVars, handlerVars, rowVars>>
        /\ seek.active /\ (seek' = seek \/ \E P : seek' = [seek EXCEPT !.pending = P])
    BY <1>7 DEF Seeking, InsertFromSnapshot, StepForward, StepBackward
  <2>2. /\ UNCHANGED <<showAll, allRows, pins, anchorPin, collapse, rowBytes, base, dirty, shown,
                       scroll, after>>
        /\ seek'.active
    BY <2>1 DEF layoutVars, handlerVars, rowVars, Played, PlayInv
  <2>3. showAll => LaidOut' = LaidOut
    BY <2>2, LaidSame
  <2> QED  BY <1>0, <2>1, <2>2, <2>3 DEF ShownInv
<1>8. CASE FinishSeek
  <2>1. /\ UNCHANGED <<parserVars, view, rowVars, showAll, allRows, pins, anchorPin, collapse>>
        /\ seek.active /\ seek' = Idle
    BY <1>8 DEF FinishSeek, EndSeek
  <2>2. phase = "ready" /\ phase' = "ready" /\ ~seek'.active
    <3>1. phase = "ready"
      BY <2>1 DEF Played, PlayInv, Idle, LiveInv, TypeOK
    <3> QED  BY <2>1, <3>1 DEF parserVars, Idle
  <2>3. PICK marked \in BOOLEAN : marked = (dirty \/ ~showAll)
    OBVIOUS
  <2>4. ~marked => shown = LaidOut'
    BY <1>0, <2>1, <2>3, LaidSame DEF ShownInv, rowVars
  <2>5. CASE /\ after.kind = "restore"
             /\ \E anchor \in {after.anchor} : RestoreAnchor(anchor, shown, marked)
    <3>1. PICK anchor : anchor = after.anchor /\ RestoreAnchor(anchor, shown, marked)
      BY <2>5
    <3>2. anchor \in Anchors
      BY <1>0, <2>5, <3>1 DEF LayTypes, Anchors
    <3>3. ShownNow'
      BY <1>0, <2>2, <2>4, <3>1, <3>2, RestoreStep
    <3> QED  BY <2>2, <3>3 DEF ShownNow, ShownInv
  <2>6. CASE \E e \in {after.event} : CentreOn(e, marked)
    <3>1. PICK e : CentreOn(e, marked)
      BY <2>6
    <3>2. ShownNow'
      BY <1>0, <2>2, <2>4, <3>1, CentreStep
    <3> QED  BY <2>2, <3>2 DEF ShownNow, ShownInv
  <2>7. \/ /\ after.kind = "restore"
           /\ \E anchor \in {after.anchor} : RestoreAnchor(anchor, shown, dirty \/ ~showAll)
        \/ \E e \in {after.event} : CentreOn(e, dirty \/ ~showAll)
    BY <1>8 DEF FinishSeek
  <2>8. CASE dirty \/ ~showAll
    <3>1. (dirty \/ ~showAll) = TRUE /\ marked = TRUE
      BY <2>3, <2>8
    <3> QED  BY <2>5, <2>6, <2>7, <3>1, Zenon
  <2>9. CASE ~(dirty \/ ~showAll)
    <3>1. (dirty \/ ~showAll) = FALSE /\ marked = FALSE
      BY <2>3, <2>9
    <3> QED  BY <2>5, <2>6, <2>7, <3>1, Zenon
  <2> QED  BY <2>8, <2>9
<1>9. CASE CentreHere
  <2>1. /\ AtRest
        /\ UNCHANGED <<rowVars, view, phase, seek, showAll, allRows, pins, anchorPin, collapse>>
    BY <1>9 DEF CentreHere, vars, viewVars, playVars, parserVars
  <2>2. PICK e : CentreOn(e, dirty)
    BY <1>9 DEF CentreHere
  <2>3. phase' = "ready" /\ ~seek'.active /\ ~seek.active
    BY <2>1 DEF AtRest
  <2>4. PICK marked \in BOOLEAN : marked = dirty
    BY <1>0
  <2>5. ~marked => shown = LaidOut'
    BY <1>0, <2>1, <2>3, <2>4, LaidSame DEF ShownInv, rowVars
  <2>6. CentreOn(e, marked)
    BY <2>2, <2>4
  <2>7. ShownNow'
    BY <1>0, <2>3, <2>4, <2>5, <2>6, CentreStep
  <2> QED  BY <2>3, <2>7 DEF ShownNow, ShownInv
<1>10. CASE \/ \E asked \in RowWidths : SetWidth(asked)
            \/ \E limit \in Limits : SetCollapse(limit)
            \/ \E on \in BOOLEAN : SetShowAll(on)
  <2>1. AtRest /\ Anchored(TRUE) /\ UNCHANGED <<phase, seek>>
    BY <1>10 DEF SetWidth, SetCollapse, SetShowAll, SetRowBytes, vars, viewVars, playVars,
                 parserVars
  <2>2. phase' = "ready" /\ ~seek'.active
    BY <2>1 DEF AtRest
  <2>3. ShownNow'
    BY <2>1, <2>2, AnchoredStep
  <2> QED  BY <2>2, <2>3 DEF ShownNow, ShownInv
<1>11. CASE \E marks \in MarkSets : SetPins(marks)
  <2>1. dirty' = TRUE /\ UNCHANGED <<seek, shown, scroll>> /\ ~seek.active
    BY <1>11 DEF SetPins, vars, viewVars, playVars, handlerVars
  <2> QED  BY <1>0, <2>1 DEF ShownInv
<1>12. CASE \E y \in Scrolls : ScrollBy(y)
  <2>1. PICK y \in Scrolls : ScrollBy(y)
    BY <1>12
  <2>2. /\ UNCHANGED <<rowBytes, base, view, seek, showAll, allRows, pins, collapse, shown>>
        /\ scroll' = y /\ anchorPin' = None /\ dirty' = (dirty \/ anchorPin # None)
        /\ ~seek.active
    BY <2>1 DEF ScrollBy, AtRest, vars, viewVars, playVars, rowVars
  <2>3. ~dirty' => shown' = LaidOut'
    <3> HAVE ~dirty'
    <3>1. ~dirty /\ anchorPin' = anchorPin
      BY <2>2
    <3>2. LaidOut' = LaidOut
      BY <2>2, <3>1, LaidSame
    <3> QED  BY <1>0, <2>2, <3>1, <3>2 DEF ShownInv
  <2>4. y \in Int
    BY LayoutAssumption
  <2> QED  BY <1>0, <2>2, <2>3, <2>4 DEF ShownInv
<1>13. CASE Render \/ \E addr \in Addrs : GotoAddr(addr)
  <2>1. /\ UNCHANGED <<rowBytes, base, view, seek, showAll, allRows, pins, anchorPin, collapse>>
        /\ dirty' = FALSE /\ shown' = Ensured /\ phase = "ready" /\ ~seek.active
    BY <1>13 DEF Render, GotoAddr, AtRest, vars, viewVars, playVars, rowVars
  <2>2. Stepped(shown') /\ shown' = LaidOut
    BY <1>0, <2>1 DEF Ensured, ShownInv, LaidSane, LayoutOf
  <2>3. LaidOut' = LaidOut
    BY <2>1, LaidSame
  <2>4. scroll' \in Int
    <3>1. CASE Render
      <4>1. scroll' = Min2(scroll, Max2(VirtualHeight(shown') - Height, 0))
        BY <3>1 DEF Render
      <4>2. VirtualHeight(shown') \in Nat
        <5>1. CASE shown' = <<>>
          BY <5>1 DEF VirtualHeight
        <5>2. CASE shown' # <<>>
          <6>1. Len(shown') \in 1..Len(shown')
            BY <2>2, <5>2 DEF Stepped
          <6>2. RowY(shown', Len(shown')) \in Nat
            BY <2>2, <6>1, RowsDown
          <6> QED  BY <5>2, <6>2, LayoutAssumption DEF VirtualHeight
        <5> QED  BY <5>1, <5>2
      <4> QED  BY <1>0, <4>1, <4>2, LayoutAssumption DEF Min2, Max2
    <3>2. ASSUME NEW addr \in Addrs, GotoAddr(addr) PROVE scroll' \in Int
      <4>1. PICK y : y = ScrollForAddr(shown', addr, 0)
        OBVIOUS
      <4>2. scroll' = IF y = None THEN scroll ELSE Max2(y - Height \div 2, 0)
        BY <3>2, <4>1 DEF GotoAddr
      <4>3. y = ScrollForAddr(shown, addr, 0)' /\ RowAt(addr)' = RowAt(addr)
        BY <2>1, <4>1 DEF ScrollForAddr, RowAt
      <4>4. RowAt(addr)' \in Int
        <5>1. addr \in Nat
          BY ParserAssumption
        <5> QED  BY <2>1, <4>3, <5>1 DEF LaidSane, Geometry
      <4>5. y = None \/ y \in Nat
        BY <2>2, <4>3, <4>4, ScrollTyped
      <4>6. Height \div 2 \in Nat
        BY LayoutAssumption
      <4> QED  BY <1>0, <4>2, <4>5, <4>6 DEF Max2
    <3> QED  BY <1>13, <3>1, <3>2
  <2> QED  BY <2>1, <2>2, <2>3, <2>4 DEF ShownInv
<1>14. CASE UNCHANGED allVars
  <2>1. UNCHANGED <<rowBytes, base, view, seek, showAll, allRows, pins, anchorPin, collapse,
                    dirty, shown, scroll, after>>
    BY <1>14 DEF allVars, vars, viewVars, playVars, rowVars, layoutVars, handlerVars
  <2>2. LaidOut' = LaidOut
    BY <2>1, LaidSame
  <2> QED  BY <1>0, <2>1, <2>2 DEF ShownInv
<1> QED
  BY <1>1, <1>2, <1>3, <1>5, <1>6, <1>7, <1>8, <1>9, <1>10, <1>11, <1>12, <1>13, <1>14
  DEF LayoutNext

-----------------------------------------------------------------------------
(***************************************************************************)
(* The theorems.                                                           *)
(***************************************************************************)
LEMMA LayoutStarts == LayoutInit => LayoutInv
<1> SUFFICES ASSUME LayoutInit PROVE LayoutInv
  OBVIOUS
<1>1. /\ phase = "loading" /\ showAll = TRUE /\ allRows = [rows |-> {}, valid |-> FALSE]
      /\ pins = {} /\ anchorPin = None /\ collapse = NoCollapse /\ dirty = TRUE
      /\ shown = <<>> /\ scroll = 0 /\ after = Nothing /\ seek = Idle
  BY DEF LayoutInit, PlayInit, Init
<1>2. Stepped(<<>>)
  <2>1. <<>> \in Seq(Slots) /\ Len(<<>>) = 0 /\ 1..0 = {}
    OBVIOUS
  <2> QED  BY <2>1 DEF Stepped
<1>3. LayTypes /\ RowsCached
  BY <1>1, LayoutAssumption DEF LayTypes, RowsCached, NoCollapse, Nothing
<1>4. ShownInv
  BY <1>1, <1>2 DEF ShownInv, Nothing, Idle
<1> QED  BY <1>3, <1>4 DEF LayoutInv

LEMMA LayoutInvariant == LayoutSpec => []Played /\ []LayoutInv
<1>1. LayoutSpec => []Played
  <2>1. PlaySpec => []LiveInv
    BY PlayRunsParser, LiveInvariant, PTL
  <2> QED
    BY <2>1, LayoutRunsPlay, PlayInvariant, TallyInvariant, BaseInvariant, PTL DEF Played
<1>2. Played /\ LayoutInv => LaidSane
  BY LaidIsSane DEF LayoutInv
<1>3. Played /\ LayoutInv /\ LaidSane /\ [LayoutNext]_allVars => LayTypes' /\ RowsCached'
  BY TypesStep
<1>4. Played /\ LayTypes /\ RowsCached => LaidSane
  BY LaidIsSane
<1>5. /\ Played /\ LayoutInv /\ LaidSane /\ LaidSane' /\ LayTypes' /\ RowsCached' /\ Played'
      /\ [LayoutNext]_allVars
      => ShownInv'
  BY ShownStep
<1>6. LayTypes /\ RowsCached /\ ShownInv => LayoutInv
  BY DEF LayoutInv
<1> QED
  BY <1>1, <1>2, <1>3, <1>4, <1>5, <1>6, LayoutStarts, PTL DEF LayoutSpec

(***************************************************************************)
(* Whatever the user and the playhead do, rows that are not marked dirty   *)
(* are those compute_rows would lay out now: the rows of the picture at    *)
(* the present width, the pinned ones and the empty runs below the         *)
(* threshold, each behind as many gap markers as there are longer runs     *)
(* above it.  No handler forgets to mark or to invalidate.                 *)
(***************************************************************************)
THEOREM LayoutCorrect == LayoutSpec => []LayoutExact
<1>1. Played /\ LayoutInv => LayoutExact
  <2> SUFFICES ASSUME Played, LayoutInv, ~dirty, ~seek.active
               PROVE  /\ RowSet(shown) = Wanted \cup UNION {run[1]..run[2] : run \in Short}
                      /\ \A i \in 1..Len(shown) :
                           /\ i > 1 => shown[i-1].row < shown[i].row
                           /\ shown[i].gaps
                                = Cardinality({run \in Runs \ Short : run[2] <= shown[i].row})
    BY DEF LayoutExact, RowSet
  <2>1. phase = "ready"
    BY DEF LayoutInv, RowsCached, Played, LiveInv, TypeOK
  <2>2. LayoutOf(shown, Wanted)
    BY <2>1, LaidIsSane DEF LaidSane, LayoutInv, ShownInv
  <2>3. Runs = RunsIn(Wanted)
    BY DEF Runs, RunsIn
  <2>4. Short = ShortIn(Wanted)
    BY <2>3 DEF Short, ShortIn
  <2>5. \A i \in 1..Len(shown) : i > 1 => shown[i-1].row < shown[i].row
    <3>1. Len(shown) \in Nat
      BY <2>2 DEF LayoutOf, Stepped
    <3>2. \A i \in 1..Len(shown) : i > 1 => i - 1 \in 1..Len(shown) /\ i - 1 < i
      BY <3>1
    <3> QED  BY <2>2, <3>2 DEF LayoutOf, Stepped
  <2>6. \A i \in 1..Len(shown) :
          shown[i].gaps = Cardinality({run \in Runs \ Short : run[2] <= shown[i].row})
    BY <2>2, <2>3, <2>4, Zenon DEF LayoutOf, LongAbove, LongIn
  <2> QED  BY <2>2, <2>4, <2>5, <2>6 DEF LayoutOf
<1> QED  BY <1>1, LayoutInvariant, PTL

(***************************************************************************)
(* At any height of the map row_at_y finds the one row drawn there, or     *)
(* none in a gap marker, and captureAnchor the row at the top of the       *)
(* viewport, at most a gap marker below it: the binary searches meet no    *)
(* layout they are wrong on.                                               *)
(***************************************************************************)
THEOREM PixelsCorrect == LayoutSpec => []PixelsHitRows
<1>1. LayoutInv => PixelsHitRows
  <2> SUFFICES ASSUME LayoutInv, NEW y \in 0..VirtualHeight(shown)
               PROVE  /\ {i \in 1..Len(shown) : Covers(i, y)} = {RowAtY(shown, y)} \ {0}
                      /\ shown # <<>> /\ y < VirtualHeight(shown) =>
                           LET anchor == AnchorAt(shown, y)
                           IN  /\ -GapPx <= anchor.off /\ anchor.off < RowPx
                               /\ anchor.off >= 0 =>
                                    anchor.addr = base + shown[RowAtY(shown, y)].row * rowBytes
    BY DEF PixelsHitRows
  <2>1. Stepped(shown) /\ y \in Int
    BY DEF LayoutInv, ShownInv
  <2>2. PICK n \in Nat : n = Len(shown)
    BY <2>1 DEF Stepped
  <2>3. {i \in 1..n : RowY(shown, i) <= y /\ y < RowY(shown, i) + RowPx}
           = {RowAtY(shown, y)} \ {0}
    BY <2>1, <2>2, PixelRow
  <2>4. ASSUME shown # <<>>, y < VirtualHeight(shown), NEW anchor, anchor = AnchorAt(shown, y)
        PROVE  /\ -GapPx <= anchor.off /\ anchor.off < RowPx
               /\ anchor.off >= 0 =>
                    anchor.addr = base + shown[RowAtY(shown, y)].row * rowBytes
    <3>1. n # 0 /\ y < RowY(shown, n) + RowPx
      BY <2>1, <2>2, <2>4 DEF VirtualHeight, Stepped
    <3>2. PICK i \in 1..n :
            /\ anchor = [addr |-> base + shown[i].row * rowBytes, off |-> y - RowY(shown, i)]
            /\ y < RowY(shown, n) + RowPx => y < RowY(shown, i) + RowPx
            /\ 0 <= y => -GapPx <= y - RowY(shown, i)
      BY <2>1, <2>2, <2>4, <3>1, AnchorRow
    <3>3. RowY(shown, i) \in Nat /\ RowPx \in Nat \ {0} /\ GapPx \in Nat
      BY <2>1, <2>2, RowsDown, LayoutAssumption
    <3>4. 0 <= y /\ y < RowY(shown, i) + RowPx
      <4>1. VirtualHeight(shown) = RowY(shown, n) + RowPx /\ n \in 1..n
        BY <2>2, <2>4, <3>1 DEF VirtualHeight
      <4> QED  BY <3>1, <3>2
    <3>5. anchor.off = y - RowY(shown, i)
      BY <3>2
    <3>6. anchor.off >= 0 => i = RowAtY(shown, y)
      BY <2>1, <2>3, <3>3, <3>4, <3>5
    <3> QED  BY <2>1, <3>2, <3>3, <3>4, <3>5, <3>6
  <2> QED  BY <2>2, <2>3, <2>4 DEF Covers
<1> QED  BY <1>1, LayoutInvariant, PTL

\* Only FinishSeek ends a seek.
LEMMA SeekEnds ==
    ASSUME Played, [LayoutNext]_allVars, seek.active, ~seek'.active
    PROVE  FinishSeek
<1>0. phase = "ready"
  BY DEF Played, PlayInv, Idle, LiveInv, TypeOK
<1>1. ~LayoutParse
  BY <1>0 DEF LayoutParse
<1>2. ~LayoutReset
  BY <1>0 DEF LayoutReset, ParseEnd, Finish
<1>3. ~AtRest
  BY DEF AtRest
<1>4. ~ \E asked \in 0..MaxEvents : SeekAnchored(asked) \/ Jump(asked)
  BY <1>3 DEF SeekAnchored, Jump, JumpTo
<1>5. ~(StepBack \/ CentreHere \/ HoldInPlace)
  BY <1>3 DEF StepBack, JumpTo, CentreHere, HoldInPlace
<1>6. ~Seeking
  <2>1. seek.active = TRUE
    BY DEF Played, PlayInv
  <2> QED  BY <2>1 DEF Seeking, InsertFromSnapshot, StepForward, StepBackward, Played, PlayInv
<1>7. ~ \/ \E asked \in RowWidths : SetWidth(asked)
        \/ \E limit \in Limits : SetCollapse(limit)
        \/ \E on \in BOOLEAN : SetShowAll(on)
        \/ \E y \in Scrolls : ScrollBy(y)
        \/ \E addr \in Addrs : GotoAddr(addr)
  BY <1>3 DEF SetWidth, SetCollapse, SetShowAll, ScrollBy, GotoAddr
<1>8. ~(Render \/ \E marks \in MarkSets : SetPins(marks))
  BY DEF Render, SetPins
<1>9. ~ UNCHANGED allVars
  BY DEF allVars, vars, viewVars, playVars
<1> QED
  BY <1>1, <1>2, <1>4, <1>5, <1>6, <1>7, <1>8, <1>9 DEF LayoutNext

\* The rows of pinned addresses are laid out.
WantedLaid == phase = "ready" => Wanted \subseteq RowSet(LaidOut)

LEMMA HeldOnArrival ==
    ASSUME Played, LayoutInv, LaidSane', WantedLaid', LayoutInv', [LayoutNext]_allVars,
           seek.active, ~seek'.active, after.kind = "restore",
           NEW anchor, anchor = after.anchor, anchor # None
    PROVE  Held(anchor)'
<1>1. FinishSeek
  BY SeekEnds
<1>2. anchorPin' = anchor.addr /\ anchor.addr \in Nat /\ anchor.off \in Int
  <2>1. anchorPin = anchor.addr
    BY DEF LayoutInv, ShownInv
  <2>2. anchor \in [addr : Nat, off : Int]
    BY DEF LayoutInv, LayTypes
  <2>3. anchorPin' = anchorPin
    BY <1>1 DEF FinishSeek
  <2> QED  BY <2>1, <2>2, <2>3
<1>3. /\ dirty' = FALSE
      /\ scroll' = LET y == ScrollForAddr(shown, anchor.addr, anchor.off)'
                   IN  IF y = None THEN scroll ELSE y
  BY <1>1 DEF FinishSeek, RestoreAnchor
<1>4. phase' = "ready" /\ ~seek'.active
  <2>1. phase' = phase
    BY <1>1 DEF FinishSeek, EndSeek, parserVars
  <2> QED  BY <2>1 DEF Played, PlayInv, Idle, LiveInv, TypeOK
<1>5. shown' = LaidOut' /\ Stepped(shown')
  BY <1>3, <1>4 DEF LayoutInv, ShownInv
<1>6. Geometry' /\ Wanted' \subseteq RowSet(LaidOut')
  <2>1. Geometry'
    BY <1>4 DEF LaidSane
  <2>2. Wanted' \subseteq RowSet(LaidOut)'
    BY <1>4 DEF WantedLaid
  <2> QED  BY <2>1, <2>2 DEF RowSet
<1>7. RowAt(anchor.addr)' \in RowSet(shown')
  <2>1. anchor.addr \in Pinned'
    BY <1>2, LayoutAssumption DEF Pinned
  <2>2. RowAt(anchor.addr)' \in Wanted'
    BY <2>1 DEF Wanted
  <2> QED  BY <1>5, <1>6, <2>2
<1>8. PICK y : y = ScrollForAddr(shown, anchor.addr, anchor.off)'
  OBVIOUS
<1>9. RowAt(anchor.addr)' \in Int
  BY <1>2, <1>6 DEF Geometry
<1>10. \E i \in 1..Len(shown') :
         shown'[i].row = RowAt(anchor.addr)' /\ y = Max2(RowY(shown', i) + anchor.off, 0)
  <2>1. PICK a, off \in Int : a = anchor.addr /\ off = anchor.off
    BY <1>2
  <2>2. Stepped(shown') /\ RowAt(a)' \in Int /\ y = ScrollForAddr(shown, a, off)'
    BY <1>5, <1>8, <1>9, <2>1
  <2>3. RowAt(a)' \in RowSet(shown') =>
          \E i \in 1..Len(shown') :
              shown'[i].row = RowAt(a)' /\ y = Max2(RowY(shown', i) + off, 0)
    BY <2>2, ScrollTyped
  <2> QED  BY <1>7, <2>1, <2>3
<1>11. PICK i \in 1..Len(shown') :
         shown'[i].row = RowAt(anchor.addr)' /\ y = Max2(RowY(shown', i) + anchor.off, 0)
  BY <1>10
<1>12. RowY(shown', i) \in Nat
  BY <1>5, RowsDown
<1>13. y \in Int /\ y # None
  BY <1>2, <1>11, <1>12, LayoutAssumption DEF Max2
<1>14. scroll' = Max2(RowY(shown', i) + anchor.off, 0)
  BY <1>3, <1>8, <1>11, <1>13
<1>15. \/ scroll' = RowY(shown', i) + anchor.off
       \/ scroll' = 0 /\ RowY(shown', i) + anchor.off < 0
  BY <1>2, <1>12, <1>14 DEF Max2
<1>16. Held(anchor)' <=>
         \E k \in 1..Len(shown') :
            /\ shown'[k].row = RowAt(anchor.addr)'
            /\ \/ scroll' = RowY(shown', k) + anchor.off
               \/ scroll' = 0 /\ RowY(shown', k) + anchor.off < 0
  BY DEF Held, RowY
<1> QED  BY <1>11, <1>15, <1>16

(***************************************************************************)
(* When a seek that holds the viewport ends, its address is still pinned,  *)
(* so its row is laid out, and the viewport is scrolled to where that row  *)
(* is as far from the top as it was.                                       *)
(***************************************************************************)
THEOREM AnchorCorrect == LayoutSpec => AnchorHeld
<1>1. Played /\ LayTypes /\ RowsCached => LaidSane
  BY LaidIsSane
<1>2. /\ LayoutInv => LayTypes /\ RowsCached
      /\ LaidSane => WantedLaid
  BY DEF LayoutInv, LaidSane, LayoutOf, WantedLaid
<1>3. /\ Played /\ LayoutInv /\ LaidSane' /\ WantedLaid' /\ LayoutInv' /\ [LayoutNext]_allVars
      => [seek.active /\ ~seek'.active =>
            \A anchor \in IF after.kind = "restore" THEN {after.anchor} \ {None} ELSE {} :
                Held(anchor)']_allVars
  <2> SUFFICES ASSUME Played, LayoutInv, LaidSane', WantedLaid', LayoutInv', [LayoutNext]_allVars,
                      seek.active, ~seek'.active,
                      NEW anchor \in IF after.kind = "restore"
                                     THEN {after.anchor} \ {None} ELSE {}
               PROVE  Held(anchor)'
    OBVIOUS
  <2>1. after.kind = "restore" /\ anchor = after.anchor /\ anchor # None
    OBVIOUS
  <2> QED  BY <2>1, HeldOnArrival
<1> QED
  BY <1>1, <1>2, <1>3, LayoutInvariant, PTL DEF LayoutSpec, AnchorHeld
=============================================================================
