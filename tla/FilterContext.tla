--------------------------- MODULE FilterContext ---------------------------
(***************************************************************************)
(* What checking, lowering and evaluating a filter read besides the        *)
(* expression (filter_eval.rs: Ctx, FieldValues, the field paths;          *)
(* store.rs: the columns): the trace's columns, the tag labels and names   *)
(* the web layer pushed in, and the custom field values resolved for one   *)
(* expression.                                                             *)
(*                                                                         *)
(* A context is a record.  Its columns are functions on the events 0..n-1  *)
(*   op, id, addr, size, t, death, usable, site, thr, stack, extra         *)
(* of which usable, stack and extra are lazy: the empty function when no   *)
(* event of the trace has one.  site, thr, stack and extra hold an index   *)
(* into the dictionaries sites, thrs, stacks and extras, or None.  An      *)
(* extras fragment is a sequence of <<key, value>>.  tags maps a tag id to *)
(* its members; labels lists the tag names in id order; names lists        *)
(* <<event, name>>; fields is what FieldValues::resolve found.             *)
(***************************************************************************)
EXTENDS FilterNumbers, FilterTrees, FiniteSetsExt

CONSTANTS Chars,      \* the characters of a text, as numbers: their order
          MaxAddress  \* u64::MAX of the address space

ASSUME ContextAssumption == MaxAddress \in 0..MaxWord /\ MaxSetMembers <= MaxInt

None == -1

\* `Value`, the kinds that are no numbers; Null and Other are JSON only.
BoolVal(b)       == [t |-> "Bool", b |-> b]
StringVal(s)     == [t |-> "String", s |-> s]
RangeVal(lo, hi) == [t |-> "Range", lo |-> lo, hi |-> hi]
SetVal(members)  == [t |-> "Set", members |-> members]
Error            == [t |-> "Error"]

-----------------------------------------------------------------------------
(* Texts: what the string operators ask of a dictionary entry. *)

StrCmp(a, b) ==
    LET x == Chars[a]
        y == Chars[b]
        differ == {i \in 1..Len(x) : i <= Len(y) /\ x[i] # y[i]}
        first  == CHOOSE i \in differ : \A j \in differ : i <= j
    IN  IF differ = {} THEN Sign(Len(x) - Len(y)) ELSE Sign(x[first] - y[first])

\* `StrOp::test`
StrTest(op, hay, needle) ==
    CASE op = "contains"   -> \E i \in 0..Len(Chars[hay]) :
                                IsPrefix(Chars[needle], SubSeq(Chars[hay], i + 1, Len(Chars[hay])))
      [] op = "startswith" -> IsPrefix(Chars[needle], Chars[hay])
      [] op = "endswith"   -> IsSuffix(Chars[needle], Chars[hay])

-----------------------------------------------------------------------------
(* The store's columns. *)

Events(c)   == DOMAIN c.op
Creators(c) == {e \in Events(c) : c.op[e] \in {"M", "R"}}

\* A lazy column that no event materialised reads as absent everywhere.
At(column, e, absent) == IF e \in DOMAIN column THEN column[e] ELSE absent

UsableAt(c, e) == At(c.usable, e, 0)
StackAt(c, e)  == At(c.stack, e, None)
ExtraAt(c, e)  == At(c.extra, e, None)

\* `span`: requested or usable, whichever is larger, and never empty.
SpanOf(c, e) == LET s == IF c.size[e] >= UsableAt(c, e) THEN c.size[e] ELSE UsableAt(c, e)
                IN  IF s = 0 THEN 1 ELSE s

\* `saturating_add`
EndOf(c, e) == LET end == c.addr[e] + SpanOf(c, e)
               IN  IF end > MaxAddress THEN MaxAddress ELSE end

TagIds(c, e) == {tag \in DOMAIN c.tags : e \in c.tags[tag]}

(***************************************************************************)
(* The catalog of custom keys (`catalog_fragment`): the shapes each key    *)
(* was seen holding, over the distinct fragments.  `FieldInfo::scalar`     *)
(* picks the one type a key can be filtered as: integers and floats are    *)
(* one numeric type, null is missingness and no type.                      *)
(***************************************************************************)
Pairs(c) == UNION {ToSet(c.extras[i]) : i \in DOMAIN c.extras}
CatalogKeys(c) == {p[1] : p \in Pairs(c)}
Shapes(c, key) == {p[2].t : p \in {q \in Pairs(c) : q[1] = key}}

ScalarOf(shapes) ==
    LET scalars == shapes \ {"Null", "Other"}
    IN  IF "Other" \in shapes THEN "none"
        ELSE IF scalars = {"Int", "Float"} THEN "Float"
        ELSE IF \E s \in scalars : scalars = {s} THEN CHOOSE s \in scalars : TRUE
        ELSE "none"

-----------------------------------------------------------------------------
(***************************************************************************)
(* What loading guarantees of a trace's columns: their numbers fit the     *)
(* code's types, and an index points into its dictionary or is None.       *)
(***************************************************************************)
Words == 0..MaxWord

ColumnNames == {"op", "id", "addr", "size", "t", "death", "usable", "site", "thr", "stack",
                "extra", "sites", "thrs", "stacks", "extras", "tags", "labels", "names",
                "unit", "fields"}

GoodNumbers(c) ==
    /\ Events(c) \subseteq Words
    /\ \A e \in Events(c) : /\ {c.id[e], c.size[e], c.t[e], UsableAt(c, e)} \subseteq Words
                            /\ c.addr[e] \in 0..MaxAddress
    /\ \A i \in DOMAIN c.thrs : c.thrs[i] \in Words

GoodIndexes(c) ==
    \A e \in Events(c) : /\ c.death[e] \in Events(c) \cup {None}
                         /\ c.site[e] \in DOMAIN c.sites \cup {None}
                         /\ c.thr[e] \in DOMAIN c.thrs \cup {None}
                         /\ StackAt(c, e) \in DOMAIN c.stacks \cup {None}
                         /\ ExtraAt(c, e) \in DOMAIN c.extras \cup {None}

\* A fragment is a list; what a custom field holds is as JSON is read.
GoodFields(c) ==
    /\ \A i \in DOMAIN c.extras : DOMAIN c.extras[i] \subseteq Nat
    /\ \A p \in Pairs(c) : /\ p[2].t \in {"Bool", "Int", "Float", "String", "Null", "Other"}
                           /\ IsNum(p[2]) => p[2] \in Ints \cup Floats

GoodMarks(c) ==
    /\ c.labels \in Seq(STRING) /\ Len(c.labels) <= MaxWord
    /\ DOMAIN c.tags \subseteq Nat \ {0}
    /\ \A i \in DOMAIN c.names : c.names[i][1] \in Events(c)

GoodContext(c) ==
    /\ DOMAIN c = ColumnNames
    /\ GoodNumbers(c) /\ GoodIndexes(c) /\ GoodFields(c) /\ GoodMarks(c)

-----------------------------------------------------------------------------
(* Field paths. *)

Namespaces == {"alloc", "malloc", "free"}

\* A reference call resolves to one allocation: `is_reference_call`.
IsReferenceCall(x) ==
    x.k = "Call" /\ x.callee.k = "Identifier" /\ x.callee.name \in {"named", "allocation"}

\* `ns_of`: the object an expression is, and whose.
Self  == [k |-> "Self"]
NoNs  == [ns |-> "none", subject |-> Self]
NsOf(x) ==
    CASE x.k = "Identifier" /\ x.name \in Namespaces -> [ns |-> x.name, subject |-> Self]
      [] x.k = "Field" /\ x.name \in Namespaces /\ IsReferenceCall(x.base) ->
           [ns |-> x.name, subject |-> x.base]
      [] OTHER -> NoNs

(***************************************************************************)
(* `resolve_path`: `<ns>.<name>`, `<ns>.fields.<key>` and                  *)
(* `<ns>.fields["<key>"]`, each also behind a reference.  Custom fields    *)
(* belong to records: `malloc` reads the creator's, `free` the one that    *)
(* freed it, and `alloc` has none.                                         *)
(***************************************************************************)
NoPath == [leaf |-> "none", subject |-> Self, ns |-> "none", name |-> "none"]
Builtin(own, name) == [leaf |-> "Builtin", subject |-> own.subject, ns |-> own.ns, name |-> name]
Carried(far, key)  == [leaf |-> "Custom", subject |-> far.subject, ns |-> far.ns, name |-> key]

PathOn(x, own, far) ==
    IF own.ns # "none" THEN IF x.k = "Field" THEN Builtin(own, x.name) ELSE NoPath
    ELSE IF far.ns \in {"malloc", "free"} THEN Carried(far, x.name)
    ELSE NoPath

ResolvePath(x) ==
    IF x.k \notin {"Field", "Index"} THEN NoPath
    ELSE PathOn(x, NsOf(x.base),
                IF x.base.k = "Field" /\ x.base.name = "fields" THEN NsOf(x.base.base) ELSE NoNs)

\* `own_leaf`: a path about the allocation being tested.
IfOwn(p)   == IF p.subject = Self THEN p ELSE NoPath
OwnPath(x) == IfOwn(ResolvePath(x))

(***************************************************************************)
(* `reference_event`: the one allocation a reference names.  None, and so  *)
(* a diagnostic, when it names no allocation or several.                   *)
(***************************************************************************)
TheOnly(events) == IF \E e \in events : events = {e} THEN CHOOSE e \in events : TRUE ELSE None

ReferenceEvent(x, c) ==
    LET arg == x.args[1] IN
    CASE Len(x.args) # 1 -> None
      [] Len(x.args) = 1 /\ x.callee.name = "named" /\ arg.k = "String" ->
           LET carrying == {i \in DOMAIN c.names : c.names[i][2] = arg.s}
           IN  IF \E i \in carrying : carrying = {i}
               THEN c.names[CHOOSE i \in carrying : TRUE][1] ELSE None
      [] Len(x.args) = 1 /\ x.callee.name = "allocation" /\ arg.k = "Integer"
           /\ arg.unit = "none" /\ arg.n <= MaxWord ->
           TheOnly({e \in Creators(c) : c.id[e] = arg.n})
      [] OTHER -> None

-----------------------------------------------------------------------------
(* Custom field values, resolved once per fragment. *)

\* `collect_keys`: every custom key the expression names.
CollectKeys(x) ==
    {ResolvePath(y).name : y \in {z \in Subtrees(x) : ResolvePath(z).leaf = "Custom"}}

\* `resolve_fragment`: the first value a key has that is not missing.
ValueIn(fragment, key) ==
    LET holding == {i \in DOMAIN fragment :
                      fragment[i][1] = key /\ fragment[i][2].t \notin {"Null", "Other"}}
    IN  IF holding = {} THEN Missing
        ELSE fragment[CHOOSE i \in holding : \A j \in holding : i <= j][2]

\* `FieldValues::resolve`
Resolve(x, c) ==
    [key \in CollectKeys(x) |-> [f \in DOMAIN c.extras |-> ValueIn(c.extras[f], key)]]

\* `FieldValues::at` and `get`
FieldAt(fields, key, fragment) ==
    IF key \in DOMAIN fields /\ fragment # None THEN fields[key][fragment] ELSE Missing

\* `custom_fragment`: the creator's own, or that of the record that freed it.
CustomFragment(ns, c, e) ==
    CASE ns = "malloc"                       -> ExtraAt(c, e)
      [] ns = "free" /\ c.death[e] = None    -> None
      [] ns = "free" /\ c.death[e] # None    -> ExtraAt(c, c.death[e])

-----------------------------------------------------------------------------
(* `field_value`: a built-in field of creator event e. *)

Labelled(c, e) == {tag \in TagIds(c, e) : tag <= Len(c.labels)}

FieldValue(ns, name, c, e) ==
    LET d == c.death[e]
        dead(v) == IF d = None THEN Missing ELSE v
    IN
    CASE ns = "alloc" /\ name = "id"       -> IntNum(c.id[e])
      [] ns = "alloc" /\ name = "address"  -> IntNum(c.addr[e])
      [] ns = "alloc" /\ name = "end"      -> IntNum(EndOf(c, e))
      [] ns = "alloc" /\ name = "span"     -> RangeVal(IntNum(c.addr[e]), IntNum(EndOf(c, e)))
      [] ns = "alloc" /\ name = "size"     -> IntNum(c.size[e])
      [] ns = "alloc" /\ name = "usable"   ->
           IF UsableAt(c, e) = 0 THEN Missing ELSE IntNum(UsableAt(c, e))
      [] ns = "alloc" /\ name = "tags"     ->
           SetVal([i \in 1..Cardinality(Labelled(c, e)) |->
                     StringVal(c.labels[SetToSortSeq(Labelled(c, e), <)[i]])])
      [] ns = "alloc" /\ name = "freed"    -> BoolVal(d # None)
      [] ns = "alloc" /\ name = "lifetime" -> dead(IntNum(c.t[d] - c.t[e]))
      [] ns = "malloc" /\ name = "seq"     -> IntNum(e)
      [] ns = "malloc" /\ name = "time"    -> IntNum(c.t[e])
      [] ns = "malloc" /\ name = "site"    ->
           IF c.site[e] = None THEN Missing ELSE StringVal(c.sites[c.site[e]])
      [] ns = "malloc" /\ name = "thread"  ->
           IF c.thr[e] = None THEN Missing ELSE IntNum(c.thrs[c.thr[e]])
      [] ns = "malloc" /\ name = "stack"   ->
           IF StackAt(c, e) = None THEN Missing ELSE StringVal(c.stacks[StackAt(c, e)])
      [] ns = "free" /\ name = "seq"       -> dead(IntNum(d))
      [] ns = "free" /\ name = "time"      -> dead(IntNum(c.t[d]))
      [] OTHER                             -> Error

\* Two values compared for equality (`equal`, `value_eq`); a missing one never
\* is, and the members of a set are scalars.
SameScalar(a, b) ==
    CASE IsNum(a) /\ IsNum(b)             -> CmpNum(a, b) = 0
      [] a.t = "Bool" /\ b.t = "Bool"     -> a.b = b.b
      [] a.t = "String" /\ b.t = "String" -> a.s = b.s
      [] OTHER -> FALSE

SameValue(a, b) ==
    IF a.t = "Set" /\ b.t = "Set"
    THEN LET among(v, w) == \A i \in DOMAIN v : \E j \in DOMAIN w : SameScalar(v[i], w[j])
         IN  among(a.members, b.members) /\ among(b.members, a.members)
    ELSE SameScalar(a, b)

=============================================================================
