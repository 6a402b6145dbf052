--------------------------- MODULE FilterSpelling ---------------------------
(***************************************************************************)
(* How an expression of the filter language may be written down: the       *)
(* tokens that should parse to it, with as few parentheses as the grammar  *)
(* allows, with all of them, or with comparisons chained.                  *)
(***************************************************************************)
EXTENDS FilterTrees
Token(k) == [k |-> k]

\* The levels of the grammar, loosest first; the last is an operand by itself.
Level(x) ==
    CASE x.k = "Binary" /\ x.op = "or"         -> 1
      [] x.k = "Binary" /\ x.op = "and"        -> 2
      [] x.k = "Unary" /\ x.op = "not"         -> 3
      [] x.k = "Binary" /\ x.op \in ComparisonOps \cup {"in"} -> 4
      [] x.k = "IsNone"                        -> 4
      [] x.k = "Binary" /\ x.op \in {"+", "-"} -> 5
      [] x.k = "Unary" /\ x.op = "-"           -> 6
      [] OTHER                                 -> 7

IsComparison(x) == x.k = "Binary" /\ x.op \in ComparisonOps \cup {"in"}

RECURSIVE Links(_), Spell(_, _, _), Listed(_, _)

\* The comparisons of a chain a < b < c, or none when x is no chain.
Links(x) ==
    IF IsComparison(x) THEN <<x>>
    ELSE IF /\ x.k = "Binary" /\ x.op = "and" /\ Links(x.l) # <<>> /\ IsComparison(x.r)
            /\ Last(Links(x.l)).op \in ComparisonOps /\ Last(Links(x.l)).r = x.r.l
         THEN Append(Links(x.l), x.r) ELSE <<>>

Listed(xs, style) ==
    IF Len(xs) <= 1 THEN FlattenSeq([i \in DOMAIN xs |-> Spell(xs[i], style, 1)])
    ELSE Spell(Head(xs), style, 1) \o <<Token(",")>> \o Listed(Tail(xs), style)

(***************************************************************************)
(* The tokens of x where an operand of at least level `min` is expected:   *)
(* "Bare" with no parenthesis that can be left out, "Full" with one around *)
(* every operation, "Chained" with comparisons chained.                    *)
(***************************************************************************)
Spell(x, style, min) ==
    LET sub(y, m) == Spell(y, style, IF style = "Full" THEN 7 ELSE m)
        links == IF style = "Chained" /\ x.k = "Binary" /\ x.op = "and" THEN Links(x) ELSE <<>>
        level == IF links = <<>> THEN Level(x) ELSE 4
        infix(l, r) == sub(x.l, l) \o <<Token(x.op)>> \o sub(x.r, r)
        body ==
          CASE links # <<>> ->
                 sub(links[1].l, 5) \o FlattenSeq([i \in DOMAIN links |->
                                    <<Token(links[i].op)>> \o sub(links[i].r, 5)])
            [] links = <<>> /\ x.k = "Binary" ->
                 infix(IF Level(x) = 4 THEN 5 ELSE Level(x), Level(x) + 1)
            [] x.k = "Unary"  -> <<Token(x.op)>> \o sub(x.x, Level(x))
            [] x.k = "IsNone" -> sub(x.x, 5) \o <<Token("is")>> \o
                                 (IF x.negated THEN <<Token("not")>> ELSE <<>>) \o <<Token("None")>>
            [] x.k = "Field"  -> sub(x.base, 7) \o <<Token("."), Identifier(x.name)>>
            [] x.k = "Index"  -> sub(x.base, 7) \o <<Token("["), String(x.name), Token("]")>>
            [] x.k = "Call"   -> sub(x.callee, 7) \o <<Token("(")>> \o Listed(x.args, style)
                                 \o <<Token(")")>>
            [] x.k = "Range"  -> <<Identifier("range"), Token("(")>>
                                 \o Listed(<<x.lo, x.hi>>, style) \o <<Token(")")>>
            [] x.k = "Set"    -> <<Token("{")>> \o Listed(x.items, style) \o <<Token("}")>>
            [] OTHER          -> <<x>>
    IN  IF level < min THEN <<Token("(")>> \o body \o <<Token(")")>> ELSE body

Spellings(x) == {Spell(x, style, 1) : style \in {"Bare", "Full", "Chained"}}

=============================================================================
