---------------------------- MODULE FilterTrees ----------------------------
(***************************************************************************)
(* The expression trees of the filter language (filter-dsl/src/ast.rs).    *)
(* Names and string literals are TLA+ strings; spans are left out.         *)
(*                                                                         *)
(* What is computed over a tree (the checker, the evaluator) is written as *)
(* a function on Trees, whose value at a tree depends on its values at the *)
(* tree's parts.                                                           *)
(***************************************************************************)
EXTENDS Integers, Sequences, SequencesExt

CONSTANTS MaxArguments, MaxSetMembers,
          Depth     \* the height of a tree; MAX_SOURCE_BYTES bounds it in the code

ASSUME TreesAssumption ==
    MaxArguments \in Nat /\ MaxSetMembers \in Nat /\ Depth \in Nat

-----------------------------------------------------------------------------
(* `ExprKind` *)
Bool(b)             == [k |-> "Bool", b |-> b]
Integer(n, unit)    == [k |-> "Integer", n |-> n, unit |-> unit]
Float(h, unit)      == [k |-> "Float", h |-> h, unit |-> unit]
String(s)           == [k |-> "String", s |-> s]
Identifier(name)    == [k |-> "Identifier", name |-> name]
Unary(op, x)        == [k |-> "Unary", op |-> op, x |-> x]
Binary(op, l, r)    == [k |-> "Binary", op |-> op, l |-> l, r |-> r]
Field(base, name)   == [k |-> "Field", base |-> base, name |-> name]
Index(base, name)   == [k |-> "Index", base |-> base, name |-> name]
Call(callee, args)  == [k |-> "Call", callee |-> callee, args |-> args]
Set(items)          == [k |-> "Set", items |-> items]
RangeOf(lo, hi)     == [k |-> "Range", lo |-> lo, hi |-> hi]
IsNone(x, negated)  == [k |-> "IsNone", x |-> x, negated |-> negated]

ComparisonOps == {"==", "!=", "<=", "<", ">=", ">"}
BinaryOps     == ComparisonOps \cup {"or", "and", "in", "+", "-"}

-----------------------------------------------------------------------------
(* The trees of at most some height. *)

Leaves == [k : {"Bool"}, b : BOOLEAN]
    \cup  [k : {"Integer"}, n : Nat, unit : STRING]
    \cup  [k : {"Float"}, h : Nat, unit : STRING]
    \cup  [k : {"String"}, s : STRING]
    \cup  [k : {"Identifier"}, name : STRING]

Lists(S, max) == {s \in Seq(S) : Len(s) <= max}

\* The trees with one operation over those in S.
Over(S) == [k : {"Unary"}, op : {"not", "-"}, x : S]
     \cup  [k : {"Binary"}, op : BinaryOps, l : S, r : S]
     \cup  [k : {"Field"}, base : S, name : STRING]
     \cup  [k : {"Index"}, base : S, name : STRING]
     \cup  [k : {"Call"}, callee : S, args : Lists(S, MaxArguments)]
     \cup  [k : {"Set"}, items : Lists(S, MaxSetMembers)]
     \cup  [k : {"Range"}, lo : S, hi : S]
     \cup  [k : {"IsNone"}, x : S, negated : BOOLEAN]

TreesUpTo[height \in 0..Depth] ==
    IF height = 0 THEN Leaves ELSE Leaves \cup Over(TreesUpTo[height - 1])

Trees == TreesUpTo[Depth]

\* The trees an operation is over; a call of a method is over its receiver.
Parts(x) ==
    CASE x.k \in {"Unary", "IsNone"} -> {x.x}
      [] x.k = "Binary"              -> {x.l, x.r}
      [] x.k = "Range"               -> {x.lo, x.hi}
      [] x.k \in {"Field", "Index"}  -> {x.base}
      [] x.k = "Call"                -> {x.callee} \cup ToSet(x.args)
                                        \cup (IF x.callee.k = "Field" THEN {x.callee.base} ELSE {})
      [] x.k = "Set"                 -> ToSet(x.items)
      [] OTHER                       -> {}

\* A tree and the trees in it.
Subtrees(x) ==
    LET subtrees[y \in Trees] == {y} \cup UNION {subtrees[z] : z \in Parts(y)}
    IN  subtrees[x]

=============================================================================
