---------------------------- MODULE FilterTypes ----------------------------
(***************************************************************************)
(* Checking a parsed filter (filter_eval.rs: check_type and its helpers).  *)
(* A type is [ty, opt]; ty names a scalar, a set of scalars, a range or    *)
(* an allocation, and opt says the value may be missing.  Bad stands for   *)
(* every diagnostic.                                                       *)
(***************************************************************************)
EXTENDS FilterContext

Required(ty) == [ty |-> ty, opt |-> FALSE]
Optional(ty) == [ty |-> ty, opt |-> TRUE]
Bad == Required("diagnostic")

\* `Type::Set(kind)`, and `member_kind` back.
SetTypes == [Bool |-> "Bools", Int |-> "Ints", Float |-> "Floats", String |-> "Strings"]
Scalars  == DOMAIN SetTypes
Numeric  == {"Int", "Float"}
MemberKind(ty) == IF \E kind \in Scalars : SetTypes[kind] = ty
                  THEN CHOOSE kind \in Scalars : SetTypes[kind] = ty ELSE "none"

\* Mutant: any two scalars may be compared.
AgreeAny(a, b) == a \in Scalars /\ b \in Scalars

\* `same_values` and the kinds a set may test: any two numbers agree.
Agree(a, b) == a \in Scalars /\ b \in Scalars /\ (a = b \/ (a \in Numeric /\ b \in Numeric))

LiteralType(v) == IF v = Missing THEN Bad ELSE Required(v.t)

\* `field_type`: the language's field list.
FieldType(ns, name) ==
    CASE ns = "alloc" /\ name \in {"id", "address", "end", "size"} -> Required("Int")
      [] ns = "alloc" /\ name = "span"                     -> Required("Range")
      [] ns = "alloc" /\ name \in {"usable", "lifetime"}   -> Optional("Int")
      [] ns = "alloc" /\ name = "tags"                     -> Required("Strings")
      [] ns = "alloc" /\ name = "freed"                    -> Required("Bool")
      [] ns = "malloc" /\ name \in {"seq", "time"}         -> Required("Int")
      [] ns = "malloc" /\ name = "site"                    -> Optional("String")
      [] ns = "malloc" /\ name = "thread"                  -> Optional("Int")
      [] ns = "malloc" /\ name = "stack"                   -> Required("String")
      [] ns = "free" /\ name \in {"seq", "time"}           -> Optional("Int")
      [] OTHER -> Bad

\* `custom_field_type`: against the catalog, and always optional.
CustomFieldType(key, c) ==
    IF key \notin CatalogKeys(c) \/ ScalarOf(Shapes(c, key)) = "none" THEN Bad
    ELSE Optional(ScalarOf(Shapes(c, key)))

\* `path_type`: a reference that does not resolve is the diagnostic.
PathType(x, c) ==
    LET p == ResolvePath(x) IN
    IF p.subject # Self /\ ReferenceEvent(p.subject, c) = None THEN Bad
    ELSE CASE p.leaf = "none"    -> Bad
           [] p.leaf = "Builtin" -> FieldType(p.ns, p.name)
           [] p.leaf = "Custom"  -> CustomFieldType(p.name, c)

\* The operators, given the types of their operands.
BinaryType(op, l, r) ==
    CASE op \in {"and", "or"} ->
           IF l.ty = "Bool" /\ r.ty = "Bool" THEN Required("Bool") ELSE Bad
      [] op \in {"==", "!="} ->
           IF Agree(l.ty, r.ty) \/ (MemberKind(l.ty) # "none" /\ l.ty = r.ty)
           THEN Required("Bool") ELSE Bad
      [] op \in {"<", "<=", ">", ">="} ->
           IF Agree(l.ty, r.ty) /\ l.ty # "Bool" THEN Required("Bool") ELSE Bad
      [] op \in {"+", "-"} ->
           IF l.ty \in Numeric /\ r.ty \in Numeric
           THEN Required(IF "Float" \in {l.ty, r.ty} THEN "Float" ELSE "Int") ELSE Bad
      [] op = "in" ->
           IF \/ r.ty = "Range" /\ l.ty \in Numeric
              \/ Agree(l.ty, MemberKind(r.ty))
              \/ r.ty = "String" /\ l.ty = "String"
           THEN Required("Bool") ELSE Bad

\* A method, given the types of its receiver and its one argument.
MethodType(name, base, arg) ==
    CASE name \in {"startswith", "endswith"} ->
           IF base.ty = "String" /\ arg.ty = "String" THEN Required("Bool") ELSE Bad
      [] name = "overlaps" ->
           IF base.ty = "Range" /\ arg.ty = "Range" THEN Required("Bool") ELSE Bad
      [] OTHER -> Bad

\* Set members share one kind; integers and floats make a set of numbers.
SetType(types) ==
    CASE types = {} -> Bad
      [] \E kind \in Scalars : types = {kind} ->
           Required(SetTypes[CHOOSE kind \in types : TRUE])
      [] types = Numeric -> Required("Floats")
      [] OTHER -> Bad

(***************************************************************************)
(* `check_type` of a tree, given the types `of` its parts.                 *)
(***************************************************************************)
TypeOver(x, of, c) ==
    CASE x.k = "Bool"    -> Required("Bool")
      [] x.k = "Integer" -> LiteralType(NumberLiteral(x.n, x.unit, c.unit, FALSE))
      [] x.k = "Float"   -> LiteralType(FloatLiteral(x.h, x.unit, c.unit))
      [] x.k = "String"  -> Required("String")
      [] x.k = "Identifier" -> Bad
      [] x.k = "Unary" /\ x.op = "not" ->
           IF of[x.x].ty = "Bool" THEN Required("Bool") ELSE Bad
      \* the one integer whose magnitude is not itself an i128
      [] x.k = "Unary" /\ x.op = "-" /\ x.x.k = "Integer" ->
           LiteralType(NumberLiteral(x.x.n, x.x.unit, c.unit, TRUE))
      [] x.k = "Unary" /\ x.op = "-" /\ x.x.k # "Integer" ->
           LET inner == of[x.x]
           IN  IF inner.ty \in Numeric THEN Required(inner.ty) ELSE Bad
      \* on a required value the test would be constant
      [] x.k = "IsNone" -> IF of[x.x].opt THEN Required("Bool") ELSE Bad
      [] x.k = "Set"    -> SetType({of[x.items[i]].ty : i \in DOMAIN x.items})
      [] x.k = "Range"  ->
           IF of[x.lo].ty \in Numeric /\ of[x.hi].ty \in Numeric
           THEN Required("Range") ELSE Bad
      [] x.k \in {"Field", "Index"} -> PathType(x, c)
      [] x.k = "Call" /\ x.callee.k = "Field" ->
           IF Len(x.args) # 1 THEN Bad
           ELSE MethodType(x.callee.name, of[x.callee.base], of[x.args[1]])
      [] IsReferenceCall(x) ->
           IF ReferenceEvent(x, c) = None THEN Bad ELSE Required("Allocation")
      [] x.k = "Call" /\ x.callee.k # "Field" /\ ~IsReferenceCall(x) ->
           LET arg == of[x.args[1]] IN
           IF x.callee.k # "Identifier" \/ Len(x.args) # 1 THEN Bad
           ELSE IF x.callee.name = "len" /\ MemberKind(arg.ty) # "none" THEN Required("Int")
           ELSE IF x.callee.name = "abs" /\ arg.ty \in Numeric THEN Required(arg.ty)
           ELSE Bad
      [] x.k = "Binary" ->
           LET left  == of[x.l]
               \* an empty set takes its member type from the left operand
               kind  == IF MemberKind(left.ty) # "none" THEN MemberKind(left.ty)
                        ELSE IF left.ty \in Scalars THEN left.ty ELSE "Bool"
               right == IF x.r.k = "Set" /\ x.op \in {"in", "==", "!="} /\ x.r.items = <<>>
                        THEN Required(SetTypes[kind]) ELSE of[x.r]
           IN  IF Bad \in {left, right} THEN Bad ELSE BinaryType(x.op, left, right)

CheckType(x, c) ==
    LET type[y \in Trees] == TypeOver(y, [z \in Parts(y) |-> type[z]], c)
    IN  type[x]

\* `check`: the whole filter must be a predicate.
WellTyped(x, c) == CheckType(x, c).ty = "Bool"

=============================================================================
