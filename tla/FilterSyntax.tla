---------------------------- MODULE FilterSyntax ----------------------------
(***************************************************************************)
(* The parser of the filter language (filter-dsl/src/parser.rs).  A source *)
(* is a sequence of tokens.  Spans and the wording of diagnostics are left *)
(* out: a parse fails or it does not.                                      *)
(***************************************************************************)
EXTENDS FilterTrees

CONSTANT MaxNesting

\* Spellings that lex so that the parser can name what replaced them.
Removed == {"&&", "||", "!", ".."}

-----------------------------------------------------------------------------
(***************************************************************************)
(* The parser.  Each operator takes the tokens, a place and the nesting    *)
(* so far, and returns the tree it read and the place after it.            *)
(***************************************************************************)
Got(e, i) == [ok |-> TRUE, e |-> e, i |-> i]
Fail      == [ok |-> FALSE]

\* `peek`: past the last token there is only the end.
Peek(ts, i) == IF i \in DOMAIN ts THEN ts[i].k ELSE "Eof"

RECURSIVE Chain(_, _, _, _), NotExpr(_, _, _), Comparison(_, _, _, _),
          UnaryNumeric(_, _, _), Postfix(_, _, _), Primary(_, _, _),
          Arguments(_, _, _, _), SetMembers(_, _, _)

\* One operation over what was read on either side, if it was.
Joined(op, l, r) == IF r.ok THEN Got(Binary(op, l.e, r.e), r.i) ELSE Fail
Prefixed(op, x)  == IF x.ok THEN Got(Unary(op, x.e), x.i) ELSE Fail

\* `or_expr`, `and_expr` and `additive`: left-associative runs of one level.
LevelOps == [or |-> {"or"}, and |-> {"and"}, additive |-> {"+", "-"}]
Chain(level, ts, left, d) ==
    IF ~left.ok \/ Peek(ts, left.i) \notin LevelOps[level] THEN left
    ELSE LET i == left.i + 1 IN
         Chain(level, ts,
               Joined(Peek(ts, left.i), left,
                      CASE level = "or" -> Chain("and", ts, NotExpr(ts, i, d), d)
                        [] level = "and" -> NotExpr(ts, i, d)
                        [] level = "additive" -> UnaryNumeric(ts, i, d)), d)

OrExpr(ts, i, d)   == Chain("or", ts, Chain("and", ts, NotExpr(ts, i, d), d), d)
Additive(ts, i, d) == Chain("additive", ts, UnaryNumeric(ts, i, d), d)

\* `not` sits between `and` and the comparisons.
NotExpr(ts, i, d) ==
    IF Peek(ts, i) = "not" THEN Prefixed("not", NotExpr(ts, i + 1, d))
    ELSE Comparison(ts, Additive(ts, i, d), d, <<>>)

\* `constant`: what a set may hold.
ConstantKinds == {"Integer", "Float", "String", "Bool"}
ConstantMember(ts, i) ==
    LET minus == Peek(ts, i) = "-"
        at    == IF minus THEN i + 1 ELSE i
    IN  IF Peek(ts, at) \notin ConstantKinds THEN Fail
        ELSE IF ~minus THEN Got(ts[at], at + 1)
        ELSE IF ts[at].k \in {"Integer", "Float"} THEN Got(Unary("-", ts[at]), at + 1)
        ELSE Fail

\* `set`, past its brace: a trailing comma is allowed here.
SetMembers(ts, i, items) ==
    IF Peek(ts, i) = "}" THEN Got(Set(items), i + 1)
    ELSE IF Len(items) = MaxSetMembers THEN Fail
    ELSE LET item == ConstantMember(ts, i)
         IN  IF ~item.ok THEN Fail
             ELSE IF Peek(ts, item.i) = ","
                  THEN SetMembers(ts, item.i + 1, Append(items, item.e))
             ELSE IF Peek(ts, item.i) = "}"
                  THEN Got(Set(Append(items, item.e)), item.i + 1)
             ELSE Fail

(***************************************************************************)
(* `comparison`, past its first operand.  Comparisons chain: each link     *)
(* names the middle operand again and the chain is their conjunction.      *)
(* `in` and `is None` end a chain.  A set literal stands only to the right *)
(* of an equality or of `in`.                                              *)
(***************************************************************************)
\* Mutant: a chain keeps only its last comparison.
LinkedLast(links, i) == Got(Last(links), i)

Linked(links, i) ==
    Got(FoldLeft(LAMBDA l, r : Binary("and", l, r), Head(links), Tail(links)), i)

RightOf(ts, op, i, d) ==
    IF op \in {"==", "!=", "in"} /\ Peek(ts, i) = "{"
    THEN SetMembers(ts, i + 1, <<>>) ELSE Additive(ts, i, d)

Link(ts, op, left, right, d, links) ==
    IF ~right.ok THEN Fail
    ELSE IF op = "in" THEN Linked(Append(links, Binary("in", left.e, right.e)), right.i)
    ELSE Comparison(ts, right, d, Append(links, Binary(op, left.e, right.e)))

Comparison(ts, left, d, links) ==
    LET op    == Peek(ts, left.i)
        after == left.i + 1
        none  == IF Peek(ts, after) = "not" THEN after + 1 ELSE after
    IN  IF ~left.ok THEN Fail
        ELSE IF op \in ComparisonOps \cup {"in"}
        THEN Link(ts, op, left, RightOf(ts, op, after, d), d, links)
        ELSE IF op = "is"
        THEN IF Peek(ts, none) = "None"
             THEN Linked(Append(links, IsNone(left.e, none # after)), none + 1) ELSE Fail
        ELSE IF links = <<>> THEN left ELSE Linked(links, left.i)

\* `unary_numeric`: minus binds tighter than addition; there is no unary plus.
UnaryNumeric(ts, i, d) ==
    CASE Peek(ts, i) = "+" -> Fail
      [] Peek(ts, i) = "-" -> Prefixed("-", UnaryNumeric(ts, i + 1, d))
      [] OTHER             -> Postfix(ts, Primary(ts, i, d), d)

\* `call`, past its parenthesis: no trailing comma.
NextArgument(ts, arg, d, args) ==
    CASE arg.ok /\ Peek(ts, arg.i) = "," -> Arguments(ts, arg.i + 1, d, Append(args, arg.e))
      [] arg.ok /\ Peek(ts, arg.i) = ")" -> Got(Append(args, arg.e), arg.i + 1)
      [] OTHER -> Fail

Arguments(ts, i, d, args) ==
    IF Len(args) = MaxArguments THEN Fail
    ELSE NextArgument(ts, OrExpr(ts, i, d), d, args)

Called(callee, args) == IF args.ok THEN Got(Call(callee, args.e), args.i) ELSE Fail

CallOf(callee, ts, i, d) ==
    IF d = MaxNesting THEN Fail
    ELSE IF Peek(ts, i + 1) = ")" THEN Got(Call(callee, <<>>), i + 2)
    ELSE Called(callee, Arguments(ts, i + 1, d + 1, <<>>))

\* `postfix`, past its primary.  Only a field name may be called.
Postfix(ts, base, d) ==
    LET i     == base.i
        field == Field(base.e, ts[i + 1].name)
    IN  IF ~base.ok THEN Fail
        ELSE IF Peek(ts, i) = "."
        THEN IF Peek(ts, i + 1) # "Identifier" THEN Fail
             ELSE Postfix(ts, IF Peek(ts, i + 2) = "(" THEN CallOf(field, ts, i + 2, d)
                              ELSE Got(field, i + 2), d)
        ELSE IF Peek(ts, i) = "["
        THEN IF Peek(ts, i + 1) = "String" /\ Peek(ts, i + 2) = "]"
             THEN Postfix(ts, Got(Index(base.e, ts[i + 1].s), i + 3), d) ELSE Fail
        ELSE base

\* `range_call`: exactly two bounds.
RangeEnd(ts, lo, hi) ==
    IF hi.ok /\ Peek(ts, hi.i) = ")" THEN Got(RangeOf(lo.e, hi.e), hi.i + 1) ELSE Fail
RangeTo(ts, lo, d) ==
    IF lo.ok /\ Peek(ts, lo.i) = "," THEN RangeEnd(ts, lo, OrExpr(ts, lo.i + 1, d)) ELSE Fail
RangeCall(ts, i, d) ==
    IF d = MaxNesting THEN Fail ELSE RangeTo(ts, OrExpr(ts, i + 1, d + 1), d + 1)

Closed(ts, inner) ==
    IF inner.ok /\ Peek(ts, inner.i) = ")" THEN Got(inner.e, inner.i + 1) ELSE Fail

Primary(ts, i, d) ==
    LET kind == Peek(ts, i)
        call == kind = "Identifier" /\ Peek(ts, i + 1) = "("
    IN  CASE call /\ ts[i].name = "range" -> RangeCall(ts, i + 1, d)
          [] call /\ ts[i].name # "range" -> CallOf(ts[i], ts, i + 1, d)
          [] kind \in ConstantKinds \cup {"Identifier"} /\ ~call -> Got(ts[i], i + 1)
          [] kind = "(" /\ d # MaxNesting -> Closed(ts, OrExpr(ts, i + 1, d + 1))
          [] OTHER -> Fail

\* `parse`
Parse(ts) ==
    IF ts = <<>> \/ \E i \in DOMAIN ts : ts[i].k \in Removed THEN Fail
    ELSE LET r == OrExpr(ts, 1, 0)
         IN  IF r.ok /\ r.i = Len(ts) + 1 THEN r ELSE Fail

=============================================================================
