----------------------------- MODULE FilterPlan -----------------------------
(***************************************************************************)
(* Lowering a checked filter to a plan over the store's columns, and       *)
(* scanning the trace with it a block at a time (filter_plan.rs).          *)
(*                                                                         *)
(* A word of match bits is a set of the block's events; a dictionary       *)
(* bitmap is a set of dictionary entries.  Where the code has two          *)
(* paths for the same answer (a full block, a narrowed one) there is one.  *)
(***************************************************************************)
EXTENDS FilterContext

CONSTANT WordBits      \* events per block, 64 in the code

ASSUME WordAssumption == WordBits \in Nat \ {0}

-----------------------------------------------------------------------------
(* Columns. *)

\* `num_col`: the numeric columns by the field that names them.
NumColumns == {<<"alloc", "id">>, <<"alloc", "address">>, <<"alloc", "end">>,
               <<"alloc", "size">>, <<"alloc", "usable">>, <<"alloc", "lifetime">>,
               <<"malloc", "seq">>, <<"malloc", "time">>, <<"free", "seq">>,
               <<"free", "time">>}
ColumnOf(p) == IF p.leaf = "Builtin" /\ <<p.ns, p.name>> \in NumColumns
               THEN <<p.ns, p.name>> ELSE <<>>
NumCol(x) == ColumnOf(OwnPath(x))

\* `NumCol::get`: Missing is what every operation over it makes false.
ColumnAt(col, c, e) ==
    LET dead(v) == IF c.death[e] = None THEN Missing ELSE IntNum(v) IN
    CASE col = <<"alloc", "id">>       -> IntNum(c.id[e])
      [] col = <<"alloc", "address">>  -> IntNum(c.addr[e])
      [] col = <<"alloc", "end">>      -> IntNum(EndOf(c, e))
      [] col = <<"alloc", "size">>     -> IntNum(c.size[e])
      [] col = <<"malloc", "seq">>     -> IntNum(e)
      [] col = <<"malloc", "time">>    -> IntNum(c.t[e])
      [] col = <<"alloc", "usable">>   ->
           IF UsableAt(c, e) = 0 THEN Missing ELSE IntNum(UsableAt(c, e))
      [] col = <<"alloc", "lifetime">> -> dead(c.t[c.death[e]] - c.t[e])
      [] col = <<"free", "seq">>       -> dead(c.death[e])
      [] col = <<"free", "time">>      -> dead(c.t[c.death[e]])

\* `NumCol::plain`: never missing and no arithmetic.
Plain == {<<"alloc", "id">>, <<"alloc", "address">>, <<"alloc", "size">>,
          <<"malloc", "time">>, <<"malloc", "seq">>}

\* `dict_col`: a column of small ids into a table of values.
Dict(table, key) == [table |-> table, key |-> key]
NoDict == Dict("none", "")
DictOf(p) ==
    CASE p.leaf = "Builtin" /\ p.ns = "malloc" /\ p.name \in {"site", "thread", "stack"} ->
           Dict(p.name, "")
      [] p.leaf = "Custom" -> Dict(p.ns, p.name)
      [] OTHER -> NoDict
DictCol(x) == DictOf(OwnPath(x))

\* `is_string_dict`
IsStringDict(d) == d.table \in {"site", "stack", "malloc", "free"}

\* `DictCol::len` and `value`
DictEntries(d, c) ==
    CASE d.table = "site"   -> DOMAIN c.sites
      [] d.table = "thread" -> DOMAIN c.thrs
      [] d.table = "stack"  -> DOMAIN c.stacks
      [] d.table \in {"malloc", "free"} -> DOMAIN c.extras
DictValue(d, id, c) ==
    CASE d.table = "site"   -> StringVal(c.sites[id])
      [] d.table = "thread" -> IntNum(c.thrs[id])
      [] d.table = "stack"  -> StringVal(c.stacks[id])
      [] d.table \in {"malloc", "free"} -> FieldAt(c.fields, d.key, id)

\* `dict_word`: the entry an event holds; the column is read, never the value.
DictId(d, c, e) ==
    CASE d.table = "site"   -> c.site[e]
      [] d.table = "thread" -> c.thr[e]
      [] d.table = "stack"  -> StackAt(c, e)
      [] d.table \in {"malloc", "free"} -> CustomFragment(d.table, c, e)

\* `num_at` and `str_at`: the paths that read a value during the scan.
NumAt(d, c, e) ==
    IF d.table \notin {"thread", "malloc", "free"} \/ DictId(d, c, e) = None THEN Missing
    ELSE LET v == DictValue(d, DictId(d, c, e), c) IN IF IsNum(v) THEN v ELSE Missing
StrAt(d, c, e) ==
    IF d.table = "thread" \/ DictId(d, c, e) = None THEN Missing
    ELSE LET v == DictValue(d, DictId(d, c, e), c) IN IF v.t = "String" THEN v ELSE Missing

-----------------------------------------------------------------------------
(* Folding what does not depend on the event. *)

Varies == [t |-> "Varies"]

\* A literal or a sum the checker let through and folding refuses.
OrError(v) == IF v = Missing THEN Error ELSE v

\* A referenced allocation is fixed for the whole scan.
ReadReferenced(x, p, who, c) ==
    IF who = None THEN Error
    ELSE IF p.leaf = "Builtin" THEN FieldValue(p.ns, p.name, c, who)
    ELSE FieldAt(Resolve(x, c), p.name, CustomFragment(p.ns, c, who))
Referenced(x, p, c) ==
    IF p.subject = Self THEN Varies
    ELSE ReadReferenced(x, p, ReferenceEvent(p.subject, c), c)

Apply(fn, v) == IF fn = "neg" THEN Negated(v) ELSE Absolute(v)

FoldedSum(l, r, sub) ==
    IF Error \in {l, r} THEN Error
    ELSE IF IsNum(l) /\ IsNum(r) THEN OrError(Arith(l, r, sub)) ELSE Varies
FoldedUnary(fn, v) ==
    IF IsNum(v) THEN OrError(Apply(fn, v)) ELSE IF v = Error THEN Error ELSE Varies

RECURSIVE Constant(_, _)
\* `constant`: Varies when the event decides, Error for a diagnostic.
Constant(x, c) ==
    CASE x.k = "Bool"    -> BoolVal(x.b)
      [] x.k = "String"  -> StringVal(x.s)
      [] x.k = "Integer" -> OrError(NumberLiteral(x.n, x.unit, c.unit, FALSE))
      [] x.k = "Float"   -> OrError(FloatLiteral(x.h, x.unit, c.unit))
      [] x.k = "Set"     ->
           LET vs == [i \in DOMAIN x.items |-> Constant(x.items[i], c)]
           IN  IF \E i \in DOMAIN vs : vs[i] = Error THEN Error
               ELSE IF \E i \in DOMAIN vs : vs[i] = Varies THEN Varies ELSE SetVal(vs)
      [] x.k \in {"Field", "Index"} -> Referenced(x, ResolvePath(x), c)
      [] x.k = "Binary" /\ x.op \in {"+", "-"} ->
           FoldedSum(Constant(x.l, c), Constant(x.r, c), x.op = "-")
      [] x.k = "Unary" /\ x.op = "-" ->
           IF x.x.k = "Integer" THEN OrError(NumberLiteral(x.x.n, x.x.unit, c.unit, TRUE))
           ELSE FoldedUnary("neg", Constant(x.x, c))
      [] x.k = "Call" /\ x.callee.k = "Identifier" /\ x.callee.name = "abs" /\ Len(x.args) = 1 ->
           FoldedUnary("abs", Constant(x.args[1], c))
      [] OTHER -> Varies

\* `const_cmp`
ConstCmp(a, op, b) ==
    /\ Missing \notin {a, b}
    /\ CASE op = "==" -> SameValue(a, b)
         [] op = "!=" -> ~SameValue(a, b)
         [] op \notin {"==", "!="} ->
              IF IsNum(a) /\ IsNum(b) THEN Ordered(CmpNum(a, b), op)
              ELSE a.t = "String" /\ b.t = "String" /\ Ordered(StrCmp(a.s, b.s), op)

-----------------------------------------------------------------------------
(* Scalars: a lowered numeric expression. *)

SConst(v)      == [s |-> "Const", v |-> v]
SCol(col)      == [s |-> "Col", col |-> col]
SDict(d)       == [s |-> "Dict", d |-> d]
STagLen        == [s |-> "TagLen"]
SArith(l, r, sub) == [s |-> "Arith", l |-> l, r |-> r, sub |-> sub]
SUnary(fn, x)  == [s |-> "Unary", fn |-> fn, x |-> x]
SRefused       == [s |-> "Refused"]

IsOwn(p, ns, name) == p.leaf = "Builtin" /\ p.ns = ns /\ p.name = name
IsTags(x) == IsOwn(OwnPath(x), "alloc", "tags")

SumOf(l, r, sub)   == IF SRefused \in {l, r} THEN SRefused ELSE SArith(l, r, sub)
UnaryOf(fn, inner) == IF inner = SRefused THEN SRefused ELSE SUnary(fn, inner)

RECURSIVE Scalar(_, _), ScalarAt(_, _, _), ScalarCost(_)
\* `scalar`
Scaled(x, v, col, dict, c) ==
    CASE v # Varies -> IF IsNum(v) THEN SConst(v) ELSE SRefused
      [] v = Varies /\ col # <<>>    -> SCol(col)
      [] v = Varies /\ dict # NoDict -> SDict(dict)
      [] v = Varies /\ x.k = "Binary" ->
           IF x.op \in {"+", "-"} THEN SumOf(Scalar(x.l, c), Scalar(x.r, c), x.op = "-") ELSE SRefused
      [] v = Varies /\ x.k = "Unary" -> IF x.op = "-" THEN UnaryOf("neg", Scalar(x.x, c)) ELSE SRefused
      [] v = Varies /\ x.k = "Call" ->
           IF x.callee.k # "Identifier" \/ Len(x.args) # 1 THEN SRefused
           ELSE IF x.callee.name = "abs" THEN UnaryOf("abs", Scalar(x.args[1], c))
           ELSE IF x.callee.name = "len" /\ IsTags(x.args[1]) THEN STagLen
           ELSE SRefused
      [] OTHER -> SRefused
Scalar(x, c) == Scaled(x, Constant(x, c), NumCol(x), DictCol(x), c)

\* `Scalar::get`
ScalarAt(s, c, e) ==
    CASE s.s = "Const"  -> s.v
      [] s.s = "Col"    -> ColumnAt(s.col, c, e)
      [] s.s = "Dict"   -> NumAt(s.d, c, e)
      [] s.s = "TagLen" -> IntNum(Cardinality(TagIds(c, e)))
      [] s.s = "Arith"  ->
           LET l == ScalarAt(s.l, c, e)
               r == ScalarAt(s.r, c, e)
           IN  IF Missing \in {l, r} THEN Missing ELSE Arith(l, r, s.sub)
      [] s.s = "Unary"  ->
           LET v == ScalarAt(s.x, c, e)
           IN  IF v = Missing THEN Missing
               ELSE Apply(s.fn, v)

\* `Scalar::cost`
ScalarCost(s) ==
    CASE s.s = "Const" -> 0 [] s.s = "Col" -> 1 [] s.s = "Dict" -> 2 [] s.s = "TagLen" -> 3
      [] s.s = "Unary" -> 2 + ScalarCost(s.x)
      [] s.s = "Arith" -> 2 + ScalarCost(s.l) + ScalarCost(s.r)

-----------------------------------------------------------------------------
(* Predicates. *)

PConst(b)  == [p |-> "Const", b |-> b]
Refused    == [p |-> "Refused"]

\* `ilog2`
Log2(n) == CHOOSE k \in 0..n : 2^k <= n /\ n < 2^(k + 1)

RECURSIVE Cost(_)
\* `Pred::cost`
Cost(p) ==
    CASE p.p \in {"Const", "TagWord", "TagAny"}  -> 0
      [] p.p = "TagsEq"                          -> 1 + Cardinality(p.want)
      [] p.p \in {"Dict", "DictPresent", "Present"} -> 2
      [] p.p = "U64Cmp"                          -> 3
      [] p.p = "NumCmp"                          -> 4
      [] p.p = "NumIn" -> 4 + ScalarCost(p.left) + Log2(Max({1, Len(p.set)}))
      [] p.p = "Cmp"                             -> 4 + ScalarCost(p.left) + ScalarCost(p.right)
      [] p.p \in {"DictStrCmp", "DictStrOp"}     -> 12
      [] p.p = "Not"                             -> Cost(p.q)
      [] p.p \in {"And", "Or"} -> FoldLeft(LAMBDA n, q : n + Cost(q), 0, p.ps)

\* `sort_by_key`: cheapest first, ties in their written order.
ByCost(ps) ==
    LET at(i) == 1 + Cardinality({j \in DOMAIN ps : Cost(ps[j]) < Cost(ps[i])
                                     \/ (Cost(ps[j]) = Cost(ps[i]) /\ j < i)})
    IN  [n \in DOMAIN ps |-> ps[CHOOSE i \in DOMAIN ps : at(i) = n]]

\* `join`: constants are folded away, the rest ordered cheapest first.
Join(op, parts) ==
    LET and  == op = "and"
        kept == SelectSeq(parts, LAMBDA q : q.p # "Const")
    IN  IF \E i \in DOMAIN parts : parts[i] = Refused THEN Refused
        ELSE IF \E i \in DOMAIN parts : parts[i] = PConst(~and) THEN PConst(~and)
        ELSE IF kept = <<>> THEN PConst(and)
        ELSE IF Len(kept) = 1 THEN kept[1]
        ELSE [p |-> IF and THEN "And" ELSE "Or", ps |-> ByCost(kept)]

\* `not`
Not(p) ==
    CASE p.p = "Const"  -> PConst(~p.b)
      [] p.p = "Not"    -> p.q
      [] p.p \in {"Present", "DictPresent"} -> [p EXCEPT !.want = ~@]
      [] p = Refused    -> Refused
      [] OTHER          -> [p |-> "Not", q |-> p]

-----------------------------------------------------------------------------
(* Operands and comparisons. *)

OConst(v) == [o |-> "Const", v |-> v]
ORefused  == [o |-> "Refused"]

\* `operand`
OperandOf(v, col, dict, s) ==
    IF v = Error THEN ORefused
    ELSE IF v # Varies THEN OConst(v)
    ELSE IF col # <<>> THEN [o |-> "Column", col |-> col]
    ELSE IF dict # NoDict THEN [o |-> "Dict", d |-> dict]
    ELSE IF s = SRefused THEN ORefused ELSE [o |-> "Num", s |-> s]
Operand(x, c) == OperandOf(Constant(x, c), NumCol(x), DictCol(x), Scalar(x, c))

\* `as_scalar`
AsScalar(o) ==
    CASE o.o = "Num"    -> o.s
      [] o.o = "Column" -> SCol(o.col)
      [] o.o = "Dict"   -> SDict(o.d)
      [] o.o = "Const"  -> IF IsNum(o.v) THEN SConst(o.v) ELSE SRefused
      [] o.o = "Refused" -> SRefused

\* `flip`
Flip(op) == CASE op = "<" -> ">" [] op = "<=" -> ">=" [] op = ">" -> "<" [] op = ">=" -> "<="
              [] OTHER -> op

\* Mutant: a constant no column can hold compares false, whatever the operator.
NumCmpFalse(col, op, v) ==
    IF col \in Plain /\ v.t = "Int" /\ v.n \notin 0..MaxWord THEN PConst(FALSE)
    ELSE [p |-> "NumCmp", col |-> col, op |-> op, rhs |-> v]

(***************************************************************************)
(* `num_cmp`: a column against a constant.  A u64 column never holds a     *)
(* value outside 0..u64::MAX, so a constant out there decides the answer.  *)
(***************************************************************************)
NumCmp(col, op, v) ==
    IF col \notin Plain \/ v.t # "Int" THEN [p |-> "NumCmp", col |-> col, op |-> op, rhs |-> v]
    ELSE IF v.n \in 0..MaxWord THEN [p |-> "U64Cmp", col |-> col, op |-> op, rhs |-> v]
    ELSE PConst(CASE op = "==" -> FALSE [] op = "!=" -> TRUE
                  [] op \in {"<", "<="} -> v.n >= 0
                  [] op \in {">", ">="} -> v.n < 0)

\* `dict_pred`: decided over the dictionary; a missing entry is false.
DictPred(d, hits, c) ==
    [p |-> "Dict", d |-> d,
     bits |-> {id \in DictEntries(d, c) : DictValue(d, id, c) # Missing /\ id \in hits}]

\* A text test against a constant, over the dictionary.
DictTest(d, op, needle, c) ==
    DictPred(d, {id \in DictEntries(d, c) :
                   LET v == DictValue(d, id, c)
                   IN  v.t = "String" /\ StrTest(op, v.s, needle)}, c)

\* `compare`
Compared(a, op, b, c) ==
    CASE ORefused \in {a, b} -> Refused
      [] a.o = "Const" /\ b.o = "Const"  -> PConst(ConstCmp(a.v, op, b.v))
      [] a.o = "Dict" /\ b.o = "Const"   ->
           DictPred(a.d, {id \in DictEntries(a.d, c) : ConstCmp(DictValue(a.d, id, c), op, b.v)}, c)
      [] a.o = "Const" /\ b.o = "Dict"   ->
           DictPred(b.d, {id \in DictEntries(b.d, c) : ConstCmp(a.v, op, DictValue(b.d, id, c))}, c)
      [] a.o = "Column" /\ b.o = "Const" ->
           IF IsNum(b.v) THEN NumCmp(a.col, op, b.v) ELSE PConst(FALSE)
      [] a.o = "Const" /\ b.o = "Column" ->
           IF IsNum(a.v) THEN NumCmp(b.col, Flip(op), a.v) ELSE PConst(FALSE)
      [] a.o = "Dict" /\ b.o = "Dict" /\ IsStringDict(a.d) /\ IsStringDict(b.d) ->
           [p |-> "DictStrCmp", left |-> a.d, right |-> b.d, op |-> op]
      [] OTHER ->
           IF SRefused \in {AsScalar(a), AsScalar(b)} THEN Refused
           ELSE [p |-> "Cmp", left |-> AsScalar(a), op |-> op, right |-> AsScalar(b)]

-----------------------------------------------------------------------------
(* Lowering. *)

\* `tag_id`, and `tag_set`: None when a member names no tag in use.
TagId(label, c) ==
    LET ids == {i \in DOMAIN c.labels : c.labels[i] = label}
    IN  IF ids = {} THEN None ELSE CHOOSE i \in ids : \A j \in ids : i <= j

\* `equality`, `tags_eq`: exact set equality is answered word-wise.
TagSet(want) ==
    CASE None \in want -> PConst(FALSE)
      [] want = {}     -> Not([p |-> "TagAny"])
      [] OTHER         -> [p |-> "TagsEq", want |-> want]
TagsEq(v, c) ==
    IF v.t # "Set" THEN Refused
    ELSE TagSet({TagId(v.members[i].s, c) : i \in DOMAIN v.members})
TagEquality(op, p) == IF op = "!=" THEN Not(p) ELSE p

\* `presence`
Given(d, c) == {id \in DictEntries(d, c) : DictValue(d, id, c) # Missing}
PresentIn(col, d, v, c, negated) ==
    IF col # <<>> THEN [p |-> "Present", col |-> col, want |-> negated]
    ELSE IF d # NoDict THEN [p |-> "DictPresent", d |-> d, want |-> negated, bits |-> Given(d, c)]
    ELSE IF v \in {Varies, Error} THEN Refused ELSE PConst((v = Missing) # negated)
Presence(x, c, negated) == PresentIn(NumCol(x), DictCol(x), Constant(x, c), c, negated)

\* `membership`
InRange(x, lo, hi, c) == Join("and", <<Compared(x, ">=", lo, c), Compared(x, "<", hi, c)>>)

InTags(v, c) ==
    IF v.t # "String" THEN Refused
    ELSE IF TagId(v.s, c) = None THEN PConst(FALSE)
    ELSE [p |-> "TagWord", tag |-> TagId(v.s, c)]

InText(v, needle, hay, c) ==
    CASE v.t = "String" -> DictTest(hay, "contains", v.s, c)
      [] v = Missing    -> PConst(FALSE)
      [] OTHER -> IF needle = NoDict THEN Refused
                  ELSE [p |-> "DictStrOp", left |-> hay, right |-> needle, op |-> "contains"]

InNumbers(s, set) ==
    IF s = SRefused \/ \E i \in DOMAIN set : ~IsNum(set[i]) THEN Refused
    ELSE [p |-> "NumIn", left |-> s, set |-> set]

InSet(l, v, d, set, c) ==
    LET inSet(w) == \E i \in DOMAIN set : SameValue(set[i], w)
    IN  IF d # NoDict
        THEN DictPred(d, {id \in DictEntries(d, c) : inSet(DictValue(d, id, c))}, c)
        ELSE IF v \notin {Varies, Error} THEN PConst(inSet(v))
        ELSE InNumbers(AsScalar(Operand(l, c)), set)

MemberOf(l, r, left, right, hay, c) ==
    CASE r.k = "Range" -> InRange(Operand(l, c), Operand(r.lo, c), Operand(r.hi, c), c)
      [] r.k # "Range" /\ IsTags(r) -> InTags(left, c)
      [] hay # NoDict /\ IsStringDict(hay) -> InText(left, DictCol(l), hay, c)
      [] OTHER -> IF right.t # "Set" THEN Refused
                  ELSE InSet(l, left, DictCol(l), right.members, c)
Membership(l, r, c) == MemberOf(l, r, Constant(l, c), Constant(r, c), DictCol(r), c)

\* `range_bounds`
SpanBounds(p, who, c) ==
    IF p.leaf # "Builtin" \/ p.ns # "alloc" \/ p.name # "span" THEN <<ORefused, ORefused>>
    ELSE IF p.subject = Self
    THEN <<[o |-> "Column", col |-> <<"alloc", "address">>],
           [o |-> "Column", col |-> <<"alloc", "end">>]>>
    ELSE <<OConst(IntNum(c.addr[who])), OConst(IntNum(EndOf(c, who)))>>
RangeBounds(x, c) ==
    IF x.k = "Range" THEN <<Operand(x.lo, c), Operand(x.hi, c)>>
    ELSE SpanBounds(ResolvePath(x), ReferenceEvent(ResolvePath(x).subject, c), c)

Overlapping(a, b, c) ==
    Join("and", <<Compared(a[1], "<", b[2], c), Compared(b[1], "<", a[2], c)>>)

\* `method`: startswith and endswith
Affix(hay, name, needle, c) ==
    CASE ORefused \in {hay, needle} -> Refused
      [] hay.o = "Dict" /\ needle.o = "Const" /\ needle.v.t = "String" ->
           DictTest(hay.d, name, needle.v.s, c)
      [] hay.o = "Const" /\ needle.o = "Const" /\ hay.v.t = "String" /\ needle.v.t = "String" ->
           PConst(StrTest(name, hay.v.s, needle.v.s))
      [] OConst(Missing) \in {hay, needle} -> PConst(FALSE)
      [] hay.o = "Dict" /\ needle.o = "Dict" ->
           [p |-> "DictStrOp", left |-> hay.d, right |-> needle.d, op |-> name]
      [] OTHER -> Refused

\* `method`
MethodPred(x, c) ==
    IF x.callee.k # "Field" THEN Refused
    ELSE LET name == x.callee.name IN
    CASE name = "overlaps" ->
           Overlapping(RangeBounds(x.callee.base, c), RangeBounds(x.args[1], c), c)
      [] name \in {"startswith", "endswith"} ->
           Affix(Operand(x.callee.base, c), name, Operand(x.args[1], c), c)
      [] OTHER -> Refused

RECURSIVE Pred(_, _), Flatten(_, _, _)
\* `flatten`: one n-ary node for a run of the same connective.
Flatten(op, x, c) ==
    IF x.k = "Binary" /\ x.op = op THEN Flatten(op, x.l, c) \o Flatten(op, x.r, c)
    ELSE <<Pred(x, c)>>

\* A boolean by itself: a constant, or a custom field that is true.
Holds(v, d, c) ==
    IF v.t = "Bool" THEN PConst(v.b)
    ELSE IF v = Error \/ d = NoDict THEN Refused
    ELSE DictPred(d, {id \in DictEntries(d, c) : DictValue(d, id, c) = BoolVal(TRUE)}, c)

\* `pred` and `binary`
Pred(x, c) ==
    CASE x.k = "Bool" -> PConst(x.b)
      [] x.k = "Unary"  -> IF x.op = "not" THEN Not(Pred(x.x, c)) ELSE Refused
      [] x.k = "IsNone" -> Presence(x.x, c, x.negated)
      [] x.k = "Binary" /\ x.op \in {"and", "or"} -> Join(x.op, Flatten(x.op, x, c))
      [] x.k = "Binary" /\ x.op = "in" -> Membership(x.l, x.r, c)
      [] x.k = "Binary" /\ x.op \in ComparisonOps ->
           IF x.op \in {"==", "!="} /\ IsTags(x.l)
           THEN TagEquality(x.op, TagsEq(Constant(x.r, c), c))
           ELSE IF x.op \in {"==", "!="} /\ IsTags(x.r)
           THEN TagEquality(x.op, TagsEq(Constant(x.l, c), c))
           ELSE Compared(Operand(x.l, c), x.op, Operand(x.r, c), c)
      [] x.k = "Call" -> MethodPred(x, c)
      \* `alloc.freed` is the presence of a death record
      [] x.k = "Field" /\ IsOwn(OwnPath(x), "alloc", "freed") ->
           [p |-> "Present", col |-> <<"free", "seq">>, want |-> TRUE]
      [] OTHER -> Holds(Constant(x, c), DictCol(x), c)

-----------------------------------------------------------------------------
(* Execution. *)

Block(c, n) == {e \in Events(c) : e \div WordBits = n}
Blocks(c)   == {e \div WordBits : e \in Events(c)}

\* `tag_word` and `block_tags`
TagWord(c, tag, n)  == IF tag \in DOMAIN c.tags THEN c.tags[tag] \cap Block(c, n) ELSE {}
BlockTags(c, n)     == {tag \in DOMAIN c.tags : TagWord(c, tag, n) # {}}

RECURSIVE WordOf(_, _, _, _), Narrow(_, _, _, _), Widened(_, _, _, _, _)

\* A conjunction narrows the events the next clause looks at; a disjunction
\* asks each clause only about the events no earlier one found.
Narrow(ps, c, n, active) ==
    IF ps = <<>> \/ active = {} THEN active
    ELSE Narrow(Tail(ps), c, n, WordOf(Head(ps), c, n, active))
Widened(ps, c, n, active, found) ==
    IF ps = <<>> \/ active \subseteq found THEN found
    ELSE Widened(Tail(ps), c, n, active, found \cup WordOf(Head(ps), c, n, active \ found))

\* `word_of`: the answers of one predicate over the active events of a block.
WordOf(p, c, n, active) ==
    CASE p.p = "Const"   -> IF p.b THEN active ELSE {}
      [] p.p = "And"     -> Narrow(p.ps, c, n, active)
      [] p.p = "Or"      -> Widened(p.ps, c, n, active, {})
      [] p.p = "Not"     -> active \ WordOf(p.q, c, n, active)
      [] p.p = "TagWord" -> active \cap TagWord(c, p.tag, n)
      [] p.p = "TagAny"  -> active \cap UNION {TagWord(c, tag, n) : tag \in BlockTags(c, n)}
      [] p.p = "TagsEq"  ->
           {e \in active : /\ \A tag \in p.want : e \in TagWord(c, tag, n)
                           /\ \A tag \in BlockTags(c, n) \ p.want : e \notin TagWord(c, tag, n)}
      [] p.p = "Dict"    -> {e \in active : DictId(p.d, c, e) \in p.bits}
      [] p.p = "DictPresent" -> {e \in active : (DictId(p.d, c, e) \in p.bits) = p.want}
      [] p.p \in {"U64Cmp", "NumCmp"} ->
           {e \in active : LET v == ColumnAt(p.col, c, e)
                           IN  v # Missing /\ Ordered(CmpNum(v, p.rhs), p.op)}
      [] p.p = "Cmp"     ->
           {e \in active : LET a == ScalarAt(p.left, c, e)
                               b == ScalarAt(p.right, c, e)
                           IN  Missing \notin {a, b} /\ Ordered(CmpNum(a, b), p.op)}
      [] p.p = "NumIn"   ->
           {e \in active : LET v == ScalarAt(p.left, c, e)
                           IN  v # Missing /\ \E i \in DOMAIN p.set : CmpNum(p.set[i], v) = 0}
      [] p.p = "Present" -> {e \in active : (ColumnAt(p.col, c, e) # Missing) = p.want}
      [] p.p \in {"DictStrCmp", "DictStrOp"} ->
           {e \in active : LET a == StrAt(p.left, c, e)
                               b == StrAt(p.right, c, e)
                           IN  Missing \notin {a, b} /\
                               IF p.p = "DictStrCmp" THEN Ordered(StrCmp(a.s, b.s), p.op)
                               ELSE StrTest(p.op, a.s, b.s)}

\* `lower` and `scan`, one block: a non-allocation event can never match.
Lower(x, c)     == Pred(x, c)
ScanBlock(p, c, n) == WordOf(p, c, n, Block(c, n) \cap Creators(c))

=============================================================================
