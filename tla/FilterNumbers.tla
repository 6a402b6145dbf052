--------------------------- MODULE FilterNumbers ---------------------------
(***************************************************************************)
(* The numbers of the filter language (filter_eval.rs).  A number keeps    *)
(* the representation it was written in, an i128 or an f64; the two are    *)
(* one type to the writer of a filter, so every comparison that mixes them *)
(* has to be exact and every arithmetic operation has to be checked.       *)
(*                                                                         *)
(* An f64 is modelled as a whole number of halves: enough for a fraction   *)
(* to decide a comparison, on either side of zero.  Rounding is left out,  *)
(* and so is NaN, which the language cannot write and no modelled          *)
(* operation produces.                                                     *)
(***************************************************************************)
EXTENDS Integers

CONSTANTS MaxInt,     \* i128::MAX
          MaxWord,    \* u64::MAX
          MaxHalves,  \* the largest finite f64, in halves
          Kilo,       \* the step between two time units, 1000 in the code
          Kibi        \* the step between two byte units, 1024 in the code

NumbersAssumption ==
    /\ MaxInt \in Nat /\ MaxWord \in Nat /\ MaxHalves \in Nat
    /\ MaxWord <= MaxInt
    /\ Kilo \in Nat \ {0} /\ Kibi \in Nat \ {0}
ASSUME NumbersAssumption

MinInt == -MaxInt - 1

\* `Value` and `Num`: one record shape per representation.
IntNum(n)   == [t |-> "Int", n |-> n]
FloatNum(h) == [t |-> "Float", h |-> h]
Missing     == [t |-> "Missing"]

IsNum(v) == v.t \in {"Int", "Float"}

Ints   == {IntNum(n) : n \in MinInt..MaxInt}
Floats == {FloatNum(h) : h \in -MaxHalves..MaxHalves}

\* `f64::trunc` of h halves: towards zero.
Trunc(h) == IF h >= 0 THEN h \div 2 ELSE -((-h) \div 2)

Sign(x) == IF x < 0 THEN -1 ELSE IF x > 0 THEN 1 ELSE 0

\* Mutant: the fraction is dropped.
CmpIntFloatTruncated(n, h) == Sign(n - Trunc(h))

(***************************************************************************)
(* `cmp_int_float`: the float is split into its integral and fractional    *)
(* parts and neither side is rounded.  -1, 0 and 1 are Less, Equal and     *)
(* Greater.  `i128::MAX as f64` is already one past the integer range.     *)
(***************************************************************************)
CmpIntFloat(n, h) ==
    IF h >= 2 * (MaxInt + 1) THEN -1
    ELSE IF h < 2 * MinInt THEN 1
    ELSE IF n # Trunc(h) THEN Sign(n - Trunc(h))
    ELSE -Sign(h - 2 * Trunc(h))

\* `cmp_num`
CmpNum(a, b) ==
    IF a.t = "Int"
    THEN IF b.t = "Int" THEN Sign(a.n - b.n) ELSE CmpIntFloat(a.n, b.h)
    ELSE IF b.t = "Int" THEN -CmpIntFloat(b.n, a.h) ELSE Sign(a.h - b.h)

\* `ordered` and `matches_op`
Ordered(c, op) ==
    CASE op = "<"  -> c < 0
      [] op = "<=" -> c <= 0
      [] op = ">"  -> c > 0
      [] op = ">=" -> c >= 0
      [] op = "==" -> c = 0
      [] op = "!=" -> c # 0

\* `checked_add` and its kin: a result outside the range is no result.
Checked(n) == IF n \in MinInt..MaxInt THEN IntNum(n) ELSE Missing
Finite(h)  == IF h \in -MaxHalves..MaxHalves THEN FloatNum(h) ELSE Missing

\* `widen` and `as_f64`, used by arithmetic only.
Widen(v) == IF v.t = "Int" THEN 2 * v.n ELSE v.h

\* `arith`: exact while both sides are integers.
Arith(a, b, sub) ==
    IF a.t = "Int" /\ b.t = "Int"
    THEN Checked(IF sub THEN a.n - b.n ELSE a.n + b.n)
    ELSE Finite(IF sub THEN Widen(a) - Widen(b) ELSE Widen(a) + Widen(b))

Negated(v)  == IF v.t = "Int" THEN Checked(-v.n) ELSE FloatNum(-v.h)
Absolute(v) == IF v.t = "Int"
               THEN Checked(IF v.n < 0 THEN -v.n ELSE v.n)
               ELSE FloatNum(IF v.h < 0 THEN -v.h ELSE v.h)

-----------------------------------------------------------------------------
(* Literals and their units. *)

\* Powers of the step, by the place of the unit: ns, us, ms, s.
TimePlace == [ns |-> 0, us |-> 1, ms |-> 2, s |-> 3]
BytePlace == [B |-> 0, KiB |-> 1, MiB |-> 2, GiB |-> 3]

Power(base, k) == CASE k = 0 -> 1 [] k = 1 -> base
                    [] k = 2 -> base * base [] k = 3 -> base * base * base

(***************************************************************************)
(* `unit_ratio`: a unit as a ratio in lowest terms over the trace's own    *)
(* time unit.  A tick trace has no time literals.                          *)
(***************************************************************************)
NoRatio == <<0, 0>>
UnitRatio(unit, timeUnit) ==
    CASE unit = "none" -> <<1, 1>>
      [] unit \in DOMAIN BytePlace -> <<Power(Kibi, BytePlace[unit]), 1>>
      [] unit \in DOMAIN TimePlace /\ timeUnit \notin DOMAIN TimePlace -> NoRatio
      [] OTHER ->
           LET up == TimePlace[unit] - TimePlace[timeUnit]
           IN  IF up >= 0 THEN <<Power(Kilo, up), 1>> ELSE <<1, Power(Kilo, -up)>>

(***************************************************************************)
(* `number_literal`: an integer literal stays an integer when its unit     *)
(* divides evenly and is a float otherwise.  The sign is applied to the    *)
(* magnitude, so that the one integer whose magnitude is no i128 can be    *)
(* written.  Missing stands for the diagnostic.                            *)
(***************************************************************************)
NumberLiteral(value, unit, timeUnit, negative) ==
    LET ratio  == UnitRatio(unit, timeUnit)
        scaled == value * ratio[1]
        sign   == IF negative THEN -1 ELSE 1
    IN  IF ratio = NoRatio THEN Missing
        ELSE IF scaled % ratio[2] = 0 THEN Checked(sign * (scaled \div ratio[2]))
        ELSE Finite(sign * ((2 * scaled) \div ratio[2]))

\* `float`: a float literal in the trace's own unit.
FloatLiteral(h, unit, timeUnit) ==
    LET ratio == UnitRatio(unit, timeUnit)
    IN  IF ratio = NoRatio THEN Missing ELSE Finite((h * ratio[1]) \div ratio[2])

-----------------------------------------------------------------------------
\* The exact place of a number on the line, in halves: what a comparison means.
Halves(v) == IF v.t = "Int" THEN 2 * v.n ELSE v.h

=============================================================================
