--------------------------- MODULE FilterPipeline ---------------------------
(***************************************************************************)
(* Applying a filter (core/lib.rs: hp_filter_apply, hp_filter_check,       *)
(* hp_filter_set_mode): the source is parsed, checked against the trace,   *)
(* its custom fields are resolved, it is lowered to a plan, and the plan   *)
(* scans the trace block by block into the match bits that rendering, the  *)
(* event list and range tagging all consume.  The call is one step for     *)
(* the page; here its stages are separate so that each can be looked at.   *)
(* The parser and the plan are parameters, which MCFilter gives FilterSyntax *)
(* and FilterPlan; checking and the evaluator that answers for the plan are  *)
(* those of FilterTypes and FilterReference.                               *)
(*                                                                         *)
(* The user writes a draft: tokens `ts`, and the expression `of` that they *)
(* were meant as, or NoExpr.  `meaning` is that expression: what the       *)
(* properties compare with; no stage reads it.                             *)
(***************************************************************************)
EXTENDS FilterReference

CONSTANTS Contexts,           \* the traces
          Corpus,             \* the expressions a user may write
          Later,              \* the bound on them while a filter is applied
          Spelled(_),         \* the sequences of tokens an expression is written as
          Malformed,          \* sequences of tokens that are no expression
          Parser(_),          \* of a sequence of tokens
          Lowering(_, _),     \* of a tree, in a context
          NoPlan,             \* what a tree that is refused lowers to
          BlocksOf(_),        \* the numbers of a trace's blocks of events
          Scanning(_, _, _),  \* the events a plan selects in a block
          MaxMode             \* FILTER_HIDE

NoExpr == [k |-> "NoExpr"]

\* What a user may have in the editor: its tokens, and what they were meant as.
Drafts(corpus) ==
    {[ts |-> ts, of |-> NoExpr] : ts \in Malformed}
    \cup UNION {{[ts |-> ts, of |-> x] : ts \in Spelled(x)} : x \in corpus}

FirstDrafts == Drafts(Corpus)
LaterDrafts == Drafts(Later)

ASSUME PipelineAssumption ==
    /\ \A c \in Contexts : GoodContext(c)
    /\ \A draft \in FirstDrafts \cup LaterDrafts :
         Parser(draft.ts).ok => Parser(draft.ts).e \in Trees
    /\ MaxMode \in Nat

VARIABLES ctx,      \* the loaded trace, with its labels and names
          filter,   \* cfg.filter: whether one is applied, its bits, its mode
          phase,    \* the stage of the call under way
          source, meaning,
          tree, plan, block, bits,
          reply     \* what the last call answered

stages == <<source, meaning, tree, plan, block, bits>>
vars   == <<ctx, filter, phase, source, meaning, tree, plan, block, bits, reply>>

NoReply  == [ok |-> FALSE, matches |-> 0, creators |-> 0]
NoFilter == [on |-> FALSE, mode |-> 0, bits |-> {}]

-----------------------------------------------------------------------------
(* The calls. *)

Init ==
    /\ ctx \in Contexts /\ filter = NoFilter /\ phase = "Idle" /\ reply = NoReply
    /\ source = <<>> /\ meaning = NoExpr /\ tree = NoExpr
    /\ plan = NoPlan /\ block = 0 /\ bits = {}

\* The call returns; what it worked on is gone.
Return ==
    /\ phase' = "Idle" /\ source' = <<>> /\ meaning' = NoExpr /\ tree' = NoExpr
    /\ plan' = NoPlan /\ block' = 0 /\ bits' = {}

\* Mutant: the filter is reset before the source is looked at.
DiagnosticClears == Return /\ reply' = NoReply /\ filter' = NoFilter /\ UNCHANGED ctx

\* `filter_diagnostic_json`: the applied filter is left alone.
Diagnostic == Return /\ reply' = NoReply /\ UNCHANGED <<ctx, filter>>

\* An empty source turns filtering off, and its mode back to the default.
ApplyEmpty ==
    /\ phase = "Idle"
    /\ filter' = NoFilter
    /\ reply' = [ok |-> TRUE, matches |-> 0, creators |-> 0]
    /\ Return /\ UNCHANGED ctx

Begin(draft) ==
    /\ phase = "Idle"
    /\ phase' = "Written" /\ source' = draft.ts /\ meaning' = draft.of
    /\ UNCHANGED <<ctx, filter, tree, plan, block, bits, reply>>

ParseSource ==
    /\ phase = "Written"
    /\ LET r == Parser(source) IN
       IF r.ok
       THEN /\ phase' = "Parsed" /\ tree' = r.e
            /\ UNCHANGED <<ctx, filter, source, meaning, plan, block, bits, reply>>
       ELSE Diagnostic

CheckTree ==
    /\ phase = "Parsed"
    /\ IF WellTyped(tree, ctx)
       THEN /\ phase' = "Checked"
            /\ UNCHANGED <<ctx, filter, stages, reply>>
       ELSE Diagnostic

\* The custom field values are resolved first, once per fragment.
WithFields == [ctx EXCEPT !.fields = Resolve(tree, ctx)]

LowerTree ==
    /\ phase = "Checked"
    /\ LET p == Lowering(tree, WithFields) IN
       IF p # NoPlan
       THEN /\ phase' = "Scanning" /\ plan' = p /\ block' = 0 /\ bits' = {}
            /\ UNCHANGED <<ctx, filter, source, meaning, tree, reply>>
       ELSE Diagnostic

Scan ==
    /\ phase = "Scanning" /\ block \in BlocksOf(ctx)
    /\ bits' = bits \cup Scanning(plan, WithFields, block)
    /\ block' = block + 1
    /\ UNCHANGED <<ctx, filter, phase, source, meaning, tree, plan, reply>>

\* The mode outlives the filter it was set for.
Install ==
    /\ phase = "Scanning" /\ block \notin BlocksOf(ctx)
    /\ filter' = [on |-> TRUE, mode |-> filter.mode, bits |-> bits]
    /\ reply' = [ok |-> TRUE, matches |-> Cardinality(bits),
                 creators |-> Cardinality(Creators(ctx))]
    /\ Return /\ UNCHANGED ctx

SetMode(mode) ==
    /\ phase = "Idle"
    /\ filter' = [filter EXCEPT !.mode = IF mode < MaxMode THEN mode ELSE MaxMode]
    /\ UNCHANGED <<ctx, phase, stages, reply>>

Next == \/ ApplyEmpty
        \/ \E draft \in IF filter.on THEN LaterDrafts ELSE FirstDrafts : Begin(draft)
        \/ ParseSource \/ CheckTree \/ LowerTree \/ Scan \/ Install
        \/ \E mode \in 0..MaxMode + 1 : SetMode(mode)

Spec == Init /\ [][Next]_vars

-----------------------------------------------------------------------------
(***************************************************************************)
(* What the user wrote is what is applied: a source parses to the one      *)
(* expression it was written for, however few parentheses it has and with  *)
(* comparisons chained, as in Python; what is no expression is refused.    *)
(* (ANL-003, parser.rs.)                                                   *)
(***************************************************************************)
ParsedAsWritten == phase \in {"Parsed", "Checked", "Scanning"} => tree = meaning

(***************************************************************************)
(* Checking is sound: an expression that was checked has an answer, true   *)
(* or false, for every allocation of the trace, so a filter never fails    *)
(* half way.  The one way it can is a range with a bound that is missing   *)
(* there, which the checker does not look for.  (check_type against eval,  *)
(* filter_eval.rs.)                                                        *)
(***************************************************************************)
CheckedNeverStuck ==
    phase = "Checked" =>
        \A e \in Stuck(tree, WithFields) : Unbounded(tree, WithFields, e)

(***************************************************************************)
(* An applied filter selects what the language says it selects: whenever a *)
(* plan was lowered and scanned, its bits are the allocations for which    *)
(* the tree-walking evaluator answers true.  (filter_plan.rs against the   *)
(* oracle in filter_eval.rs, lib.rs:3342.)                                 *)
(***************************************************************************)
PlanAgreesWithOracle ==
    phase = "Scanning" /\ block \notin BlocksOf(ctx) => bits = Selected(tree, WithFields)

(***************************************************************************)
(* Comparing two numbers is exact, whichever representation they have: a   *)
(* comparison of numbers is true for just the allocations whose values     *)
(* stand in that order on the number line.  (ANL-012, cmp_num.)            *)
(***************************************************************************)
ComparisonsExact ==
    phase = "Checked" /\ tree.k = "Binary" /\ tree.op \in ComparisonOps =>
        \A e \in Creators(ctx) :
            LET a == Eval(tree.l, WithFields, e)
                b == Eval(tree.r, WithFields, e)
            IN  IsNum(a) /\ IsNum(b) =>
                  Truth(Eval(tree, WithFields, e)) = Ordered(Sign(Halves(a) - Halves(b)), tree.op)

(***************************************************************************)
(* The applied filter changes only when a filter is applied: to nothing    *)
(* when the source was empty, to the allocations the written expression    *)
(* selects when it has a meaning, and never by a diagnostic; and the reply *)
(* counts what was applied.  The mode alone changes no bits, and a new     *)
(* filter keeps it.  (ANL-003, hp_filter_apply.)                           *)
(***************************************************************************)
FilterMeansSource ==
    [][ \/ phase = "Idle" /\ filter' = NoFilter /\ reply'.ok
        \/ phase = "Idle" /\ filter' = [filter EXCEPT !.mode = filter'.mode]
        \/ /\ phase = "Scanning" /\ meaning # NoExpr
           /\ LET chosen == Selected(meaning, [ctx EXCEPT !.fields = Resolve(meaning, ctx)])
              IN  /\ filter' = [on |-> TRUE, mode |-> filter.mode, bits |-> chosen]
                  /\ reply'.ok /\ reply'.matches = Cardinality(chosen)
      ]_filter

=============================================================================
