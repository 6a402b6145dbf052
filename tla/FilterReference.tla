-------------------------- MODULE FilterReference --------------------------
(***************************************************************************)
(* What a filter means: the tree-walking evaluator that filter_eval.rs     *)
(* keeps as the oracle of the compiled plan (eval and evaluate).  It walks *)
(* the tree once per event; a missing value makes the operation over it    *)
(* false, and Error is a diagnostic.                                       *)
(***************************************************************************)
EXTENDS FilterTypes

Overlap(a, b) == CmpNum(a.lo, b.hi) < 0 /\ CmpNum(b.lo, a.hi) < 0
Within(v, r)  == CmpNum(r.lo, v) <= 0 /\ CmpNum(v, r.hi) < 0

\* `equal`, `order` and the comparisons built from them.
Compare(op, a, b) ==
    LET equality == op \in {"==", "!="}
        numbers  == IsNum(a) /\ IsNum(b)
        alike    == numbers \/ (a.t = b.t /\ a.t \in {"Bool", "String", "Set"})
    IN  CASE Missing \in {a, b} -> BoolVal(FALSE)
          [] Missing \notin {a, b} /\ equality /\ alike -> BoolVal(SameValue(a, b) = (op = "=="))
          [] ~equality /\ numbers -> BoolVal(Ordered(CmpNum(a, b), op))
          [] ~equality /\ a.t = "String" /\ b.t = "String" -> BoolVal(Ordered(StrCmp(a.s, b.s), op))
          [] OTHER -> Error

\* `in`: one operator for a range, a set and a substring.
Member(a, b) ==
    CASE b.t = "Range"   -> BoolVal(IsNum(a) /\ Within(a, b))
      [] b.t = "Set"     -> BoolVal(\E i \in DOMAIN b.members : SameValue(b.members[i], a))
      [] b.t = "String" /\ a.t = "String" -> BoolVal(StrTest("contains", b.s, a.s))
      [] b.t \in {"String", "Missing"} /\ (b = Missing \/ a = Missing) -> BoolVal(FALSE)
      [] OTHER -> Error

\* A method on its receiver and argument.
Method(name, a, b) ==
    CASE Error \in {a, b} -> Error
      [] Error \notin {a, b} /\ Missing \in {a, b} -> BoolVal(FALSE)
      [] a.t = "String" /\ b.t = "String" /\ name \in {"startswith", "endswith"} ->
           BoolVal(StrTest(name, a.s, b.s))
      [] a.t = "Range" /\ b.t = "Range" /\ name = "overlaps" -> BoolVal(Overlap(a, b))
      [] OTHER -> Error

\* `len` and `abs`
Function(name, v) ==
    CASE v = Missing -> Missing
      [] name = "len" /\ v.t = "Set" -> IntNum(Len(v.members))
      [] name = "abs" /\ IsNum(v)    -> Absolute(v)
      [] OTHER -> Error

\* A field of the event under test, or of the allocation a reference names.
ReadPath(p, c, e) ==
    LET who == IF p.subject = Self THEN e ELSE ReferenceEvent(p.subject, c)
    IN  CASE p.leaf = "Builtin" -> FieldValue(p.ns, p.name, c, who)
          [] p.leaf = "Custom"  -> FieldAt(c.fields, p.name, CustomFragment(p.ns, c, who))
          [] p.leaf = "none"    -> Error

\* `evaluate`: a missing answer is no match.
Answer(v) == IF v.t = "Bool" THEN v ELSE IF v = Missing THEN BoolVal(FALSE) ELSE Error
Truth(v)  == v.t = "Bool" /\ v.b

(***************************************************************************)
(* `eval` of a tree for event e, given the values `of` its parts.          *)
(***************************************************************************)
ValueOver(x, of, c, e) ==
    CASE x.k = "Bool"    -> BoolVal(x.b)
      [] x.k = "Integer" -> NumberLiteral(x.n, x.unit, c.unit, FALSE)
      [] x.k = "Float"   -> FloatLiteral(x.h, x.unit, c.unit)
      [] x.k = "String"  -> StringVal(x.s)
      [] x.k = "Unary" /\ x.op = "not" ->
           LET v == of[x.x]
           IN  IF v = Missing THEN BoolVal(FALSE)
               ELSE IF v.t = "Bool" THEN BoolVal(~v.b) ELSE Error
      [] x.k = "Unary" /\ x.op = "-" ->
           LET v == of[x.x]
           IN  IF x.x.k = "Integer" THEN NumberLiteral(x.x.n, x.x.unit, c.unit, TRUE)
               ELSE IF IsNum(v) THEN Negated(v)
               ELSE IF v = Missing THEN Missing ELSE Error
      [] x.k = "IsNone" ->
           LET v == of[x.x]
           IN  IF v = Error THEN Error ELSE BoolVal((v = Missing) # x.negated)
      [] x.k = "Set" ->
           IF \E i \in DOMAIN x.items : of[x.items[i]] = Error THEN Error
           ELSE SetVal([i \in DOMAIN x.items |-> of[x.items[i]]])
      [] x.k = "Range" ->
           LET lo == of[x.lo]
               hi == of[x.hi]
           IN  IF IsNum(lo) /\ IsNum(hi) THEN RangeVal(lo, hi) ELSE Error
      [] x.k \in {"Field", "Index"} ->
           ReadPath(ResolvePath(x), c, e)
      [] x.k = "Call" /\ x.callee.k = "Field" ->
           Method(x.callee.name, of[x.callee.base], of[x.args[1]])
      [] x.k = "Call" /\ x.callee.k # "Field" ->
           Function(x.callee.name, of[x.args[1]])
      [] x.k = "Binary" /\ x.op \in {"and", "or"} ->
           LET l == Answer(of[x.l])
           IN  IF l = Error \/ Truth(l) = (x.op = "or") THEN l ELSE Answer(of[x.r])
      [] x.k = "Binary" /\ x.op \in {"+", "-"} ->
           LET l == of[x.l]
               r == of[x.r]
           IN  IF Error \in {l, r} THEN Error
               ELSE IF IsNum(l) /\ IsNum(r) THEN Arith(l, r, x.op = "-") ELSE Missing
      [] x.k = "Binary" /\ x.op \notin {"and", "or", "+", "-"} ->
           LET l == of[x.l]
               r == of[x.r]
           IN  IF Error \in {l, r} THEN Error
               ELSE IF x.op = "in" THEN Member(l, r) ELSE Compare(x.op, l, r)
      [] OTHER -> Error

Eval(x, c, e) ==
    LET value[y \in Trees] == ValueOver(y, [z \in Parts(y) |-> value[z]], c, e)
    IN  value[x]

\* The events a filter selects, and the ones it has no answer for.
Selected(x, c) == {e \in Creators(c) : Truth(Eval(x, c, e))}
Stuck(x, c)    == {e \in Creators(c) : Answer(Eval(x, c, e)) = Error}

\* A range in x has a bound that is missing at e.
Unbounded(x, c, e) ==
    \E y \in Subtrees(x) :
        y.k = "Range" /\ Missing \in {Eval(y.lo, c, e), Eval(y.hi, c, e)}

=============================================================================
