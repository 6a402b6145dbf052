-------------------------- MODULE AnalysisDocument --------------------------
(***************************************************************************)
(* The analysis document (core/analysis.rs) and what the engine derives    *)
(* from it (core/lib.rs): the tag index, the allocations' names, the tags' *)
(* labels, the match set of the applied filter and the filtered list of    *)
(* events.  The engine is single-threaded: a call runs to its end, here as *)
(* one step, or as one step and a queue of tag calls where it tags events  *)
(* one by one.                                                             *)
(***************************************************************************)
EXTENDS TagIndex

CONSTANTS
    Trace,          \* the parsed trace: sequences op, target, death
    Ids,            \* persistent ids of tags, numbers so that they have an order
    MarkIds,        \* persistent ids of bookmarks and marks
    Names, Colors,  \* texts a change may carry; BadText is refused
    BadText, None,
    Stored,         \* documents the engine may be given as a whole
    Off, Modes,     \* filter modes: off, and the ones that filter
    MaxRevision,    \* bound on the document, for model checking
    MaxDirect       \* bound on tag calls that bypass the document

ASSUME TraceAssumption ==
    /\ Trace.op \in Seq({"M", "R", "F", "E"})
    /\ Trace.death \in [EventsOf(Trace) -> 0..Len(Trace.op)]
    /\ Trace.target \in [EventsOf(Trace) -> 0..Len(Trace.op)]
    /\ \A e, d \in EventsOf(Trace) : Trace.death[e] = d <=> Trace.target[d] = e
    /\ \A e \in EventsOf(Trace) : Trace.death[e] # 0 => e \in CreatorsOf(Trace)

ASSUME TextAssumption ==
    /\ Ids \subseteq Nat
    /\ BadText \in Names /\ None \notin Names \cup Colors
    /\ Off \notin Modes
    /\ MaxRevision \in Nat /\ MaxDirect \in Nat

VARIABLES
    store,          \* the trace the engine holds
    index, lists,   \* its tag index, and the sorted lists of tagged events
    todo,           \* the tag calls the current call still has to make
    document,
    names, labels,  \* what filters resolve: allocation names, tag labels
    filter,         \* mode and match set
    rows,           \* the filtered list of events
    direct,         \* how many calls bypassed the document
    derived,        \* none has since the document was projected
    applied,        \* the page: the source of the applied filter
    shown,          \* the worker: the names it draws on the map
    refresh         \* the page: the applied filter is to be looked at again

tags == <<index, lists, todo>>
core == <<document, names, labels>>
bypassed == <<direct, derived>>
view == <<filter, rows>>
page == <<applied, shown, refresh>>
vars == <<store, tags, core, view, bypassed, page>>

NoTrace == [op |-> <<>>, death |-> <<>>, target |-> <<>>]
NoLists == [allocs |-> {}, frees |-> {}, dirty |-> FALSE]
Loaded == store = Trace

-----------------------------------------------------------------------------
(***************************************************************************)
(* Documents.  Address marks and saved filters are kept alike and without  *)
(* a condition; marks stands for both.                                     *)
(***************************************************************************)
Untouched == [name |-> None, color |-> None, tags |-> {}]

EmptyDocument ==
    [revision |-> 0, allocations |-> <<>>, tags |-> <<>>, bookmarks |-> <<>>, marks |-> {}]

(***************************************************************************)
(* What decoding gives: maps are finite, and their keys have an order.     *)
(***************************************************************************)
Entries == [name : Names \cup {None}, color : Colors \cup {None}, tags : SUBSET Ids]

IsDocument(d) ==
    /\ DOMAIN d = {"revision", "allocations", "tags", "bookmarks", "marks"}
    /\ d.revision \in Nat
    /\ d.allocations \in [DOMAIN d.allocations -> Entries]
    /\ d.tags \in [DOMAIN d.tags -> Names]
    /\ d.bookmarks \in [DOMAIN d.bookmarks -> Nat]
    /\ DOMAIN d.tags \subseteq Ids /\ IsFiniteSet(DOMAIN d.tags)

\* The documents given as a whole are as this program writes them.
ASSUME StoredAssumption ==
    \A d \in Stored :
        /\ IsDocument(d)
        /\ Untouched \notin {d.allocations[e] : e \in DOMAIN d.allocations}

Without(f, keys) == [k \in DOMAIN f \ keys |-> f[k]]
With(f, key, value) == [k \in DOMAIN f \cup {key} |-> IF k = key THEN value ELSE f[k]]

Entry(d, e) == IF e \in DOMAIN d.allocations THEN d.allocations[e] ELSE Untouched

\* prune: an allocation nothing is said about has no entry.
Set(d, e, value) ==
    [d EXCEPT !.allocations = IF value = Untouched THEN Without(@, {e}) ELSE With(@, e, value)]

Pruned(allocations) ==
    Without(allocations, {e \in DOMAIN allocations : allocations[e] = Untouched})

Members(d, id) == {e \in DOMAIN d.allocations : id \in d.allocations[e].tags}

WithMembers(d, id, creators) ==
    [d EXCEPT !.allocations = Pruned(
        [e \in DOMAIN d.allocations \cup creators |->
            [Entry(d, e) EXCEPT !.tags = IF e \in creators THEN @ \cup {id} ELSE @ \ {id}]])]

Changes ==
    [type : {"setAllocationName"}, creator : 1..Len(Trace.op) + 1, name : Names \cup {None}]
    \cup [type : {"setAllocationColor"}, creator : 1..Len(Trace.op) + 1, color : Colors \cup {None}]
    \cup [type : {"setAllocationTag"}, creator : 1..Len(Trace.op), tagId : Ids, present : BOOLEAN]
    \cup [type : {"replaceAllocationTags"}, creator : 1..Len(Trace.op), tagIds : SUBSET Ids]
    \cup [type : {"replaceTagMembers"}, tagId : Ids, creators : SUBSET EventsOf(Trace)]
    \cup [type : {"putTag"}, id : Ids, name : Names]
    \cup [type : {"putBookmark"}, id : MarkIds, seq : 0..Len(Trace.op) + 1]
    \cup [type : {"putMark"}, id : MarkIds, name : Names]
    \cup [type : {"deleteTag"}, id : Ids]
    \cup [type : {"deleteBookmark", "deleteMark"}, id : MarkIds]

(***************************************************************************)
(* Document::apply: what it refuses, and what it does otherwise.           *)
(***************************************************************************)
Tagging(d, ids) == ids \subseteq DOMAIN d.tags

Creator(s, e) == e \in CreatorsOf(s)

Accepts(d, s, c) ==
    CASE c.type = "setAllocationName" -> Creator(s, c.creator) /\ c.name # BadText
      [] c.type = "setAllocationColor" -> Creator(s, c.creator) /\ c.color # BadText
      [] c.type = "setAllocationTag" -> Creator(s, c.creator) /\ Tagging(d, {c.tagId})
      [] c.type = "replaceAllocationTags" -> Creator(s, c.creator) /\ Tagging(d, c.tagIds)
      [] c.type = "replaceTagMembers" ->
            Tagging(d, {c.tagId}) /\ \A e \in c.creators : Creator(s, e)
      [] c.type = "putTag" ->
            /\ c.name # BadText
            /\ Tagging(d, {c.id}) \/ Cardinality(DOMAIN d.tags) < MaxTags
      [] c.type = "putBookmark" -> c.seq <= Len(s.op)
      [] c.type = "putMark" -> c.name # BadText
      [] OTHER -> TRUE

\* Mutant: deleting a tag leaves its members.
WithoutTagOnly(d, id) == [d EXCEPT !.tags = Without(@, {id})]

WithoutTag(d, id) == [WithMembers(d, id, {}) EXCEPT !.tags = Without(@, {id})]

Changed(d, c) ==
    CASE c.type = "setAllocationName" -> Set(d, c.creator, [Entry(d, c.creator) EXCEPT !.name = c.name])
      [] c.type = "setAllocationColor" -> Set(d, c.creator, [Entry(d, c.creator) EXCEPT !.color = c.color])
      [] c.type = "setAllocationTag" ->
            Set(d, c.creator, [Entry(d, c.creator) EXCEPT !.tags =
                                  IF c.present THEN @ \cup {c.tagId} ELSE @ \ {c.tagId}])
      [] c.type = "replaceAllocationTags" ->
            Set(d, c.creator, [Entry(d, c.creator) EXCEPT !.tags = c.tagIds])
      [] c.type = "replaceTagMembers" -> WithMembers(d, c.tagId, c.creators)
      [] c.type = "putTag" -> [d EXCEPT !.tags = With(@, c.id, c.name)]
      [] c.type = "deleteTag" -> WithoutTag(d, c.id)
      [] c.type = "putBookmark" -> [d EXCEPT !.bookmarks = With(@, c.id, c.seq)]
      [] c.type = "deleteBookmark" -> [d EXCEPT !.bookmarks = Without(@, {c.id})]
      [] c.type = "putMark" -> [d EXCEPT !.marks = @ \cup {c.id}]
      [] c.type = "deleteMark" -> [d EXCEPT !.marks = @ \ {c.id}]

\* Document::validate.
Valid(d, s) ==
    /\ Cardinality(DOMAIN d.tags) <= MaxTags
    /\ \A id \in DOMAIN d.tags : d.tags[id] # BadText
    /\ \A e \in DOMAIN d.allocations :
           /\ Creator(s, e)
           /\ BadText \notin {d.allocations[e].name, d.allocations[e].color}
           /\ Tagging(d, d.allocations[e].tags)
    /\ \A id \in DOMAIN d.bookmarks : d.bookmarks[id] <= Len(s.op)

-----------------------------------------------------------------------------
(***************************************************************************)
(* What the engine derives from a document.  Tags are numbered in the      *)
(* order of their ids, so that a new or a deleted tag renumbers others.    *)
(***************************************************************************)
Number(d, id) == Cardinality({i \in DOMAIN d.tags : i <= id})

Memberships(d) ==
    {<<p[1], Number(d, p[2])>> : p \in
        {q \in (DOMAIN d.allocations) \X (DOMAIN d.tags) : q[2] \in d.allocations[q[1]].tags}}

NamesOf(d) ==
    {<<e, d.allocations[e].name>> : e \in {f \in DOMAIN d.allocations : d.allocations[f].name # None}}

LabelsOf(d) == [n \in 1..Cardinality(DOMAIN d.tags) |->
                   d.tags[CHOOSE id \in DOMAIN d.tags : Number(d, id) = n]]

Adds(pairs) == {[call |-> "add", e |-> p[1], tag |-> p[2]] : p \in pairs}

\* Mutant: the tags of the document before are kept.
ClearTagsNot == UNCHANGED index

ClearTags == index' = EmptyIndex

\* project_analysis.
Project(d) ==
    /\ ClearTags
    /\ lists' = [lists EXCEPT !.dirty = TRUE]
    /\ todo' = Adds(Memberships(d))
    /\ names' = NamesOf(d)
    /\ labels' = LabelsOf(d)
    /\ rows' = [rows EXCEPT !.dirty = TRUE]
    /\ derived' = TRUE

Idle == todo = {}

(***************************************************************************)
(* A call on one event, in the order of the events.                        *)
(***************************************************************************)
Earlier(c, d) == c.e < d.e \/ (c.e = d.e /\ c.tag <= d.tag)

Called(c) ==
    IF c.call = "add" THEN AddTag(store, index, c.e, c.tag)
    ELSE LET removed == RemoveTag(store, index, c.e, c.tag)
         IN  IF c.to = 0 THEN removed ELSE AddTag(store, removed, c.e, c.to)

MakeCall ==
    \E c \in todo :
        /\ \A d \in todo : Earlier(c, d)
        /\ todo' = todo \ {c}
        /\ index' = Called(c)
        /\ lists' = [lists EXCEPT !.dirty = @ \/ index' # index]
        /\ UNCHANGED <<store, core, view, bypassed, page>>

-----------------------------------------------------------------------------
(***************************************************************************)
(* Changes, tag queries and whole documents.                               *)
(***************************************************************************)
ApplyChange(c) ==
    /\ Idle
    /\ document.revision < MaxRevision
    /\ Accepts(document, store, c)
    /\ document' = [Changed(document, c) EXCEPT !.revision = @ + 1]
    /\ Project(document')
    /\ UNCHANGED <<store, filter, direct, page>>

\* The matches of a query are any set of creators.
TagQuery(id, matched, operation) ==
    LET previous == Members(document, id)
        next == CASE operation = "add" -> previous \cup matched
                  [] operation = "remove" -> previous \ matched
                  [] operation = "replace" -> matched
    IN  ApplyChange([type |-> "replaceTagMembers", tagId |-> id, creators |-> next])

\* A restart, a restored or imported document, and the rollback of a change
\* that could not be stored.
ReplaceAnalysis(d) ==
    /\ Idle
    /\ Valid(d, store)
    /\ document' = d
    /\ Project(d)
    /\ UNCHANGED <<store, filter, direct, page>>

-----------------------------------------------------------------------------
(***************************************************************************)
(* Tag calls of the page that bypass the document (legacy marks files, and *)
(* the matches of a filter before their members are committed).            *)
(***************************************************************************)
Bypass ==
    /\ Idle /\ Loaded
    /\ direct < MaxDirect /\ direct' = direct + 1 /\ derived' = FALSE
    /\ UNCHANGED <<store, filter, document>>

Unlisted == rows' = [rows EXCEPT !.dirty = TRUE] /\ UNCHANGED <<names, labels, page>>

Pass(e) == filter.mode = Off \/ ~filter.on \/ e \in filter.matches

SetEventTags(e, numbers) ==
    /\ Bypass /\ Unlisted
    /\ index' = ClearEventTags(store, index, e)
    /\ lists' = [lists EXCEPT !.dirty = @ \/ index' # index]
    /\ todo' = Adds({e} \X (numbers \ {0}))

TagEvents(events, tag) ==
    /\ Bypass /\ Unlisted
    /\ todo' = Adds((events \cap CreatorsOf(store)) \X {Clamped(tag)})
    /\ UNCHANGED <<index, lists>>

TagFilterMatches(tag) == filter.on /\ TagEvents(filter.matches, tag)

\* Created, or freed, by the events from lo up to but not including hi.
TagRange(lo, hi, tag, byFree) ==
    LET range == {e \in EventsOf(store) : lo <= e /\ e < hi}
        touched == IF byFree THEN {store.target[e] : e \in range} \ {0} ELSE range
    IN  TagEvents({e \in touched : Pass(e)}, tag)

Retag(from, to) ==
    /\ Bypass /\ Unlisted
    /\ todo' = {[call |-> "move", e |-> e, tag |-> Clamped(from), to |-> Clamped(to)] :
                   e \in {f \in EventsOf(store) : HasTag(index, f, Clamped(from))}}
    /\ UNCHANGED <<index, lists>>

\* Mutant: the lists of tagged events are not marked for a rebuild.
TagsClearQuiet ==
    /\ Bypass /\ Unlisted
    /\ ClearTags
    /\ UNCHANGED <<lists, todo>>

TagsClear ==
    /\ Bypass /\ Unlisted
    /\ ClearTags
    /\ lists' = [lists EXCEPT !.dirty = TRUE]
    /\ UNCHANGED todo

-----------------------------------------------------------------------------
(***************************************************************************)
(* The lists that are built when they are first needed again.              *)
(***************************************************************************)
\* ensure_tag_index, called by the timeline of a trace with tags.
EnsureTagIndex ==
    /\ Idle
    /\ index.tagged # 0 /\ lists.dirty
    /\ lists' = [allocs |-> index.any \cap CreatorsOf(store), frees |-> index.freeAny,
                 dirty |-> FALSE]
    /\ UNCHANGED <<store, index, todo, core, view, bypassed, page>>

Listed ==
    {e \in EventsOf(store) :
        /\ store.op[e] # "E"
        /\ LET creator == IF store.op[e] = "F" THEN store.target[e] ELSE e
           IN  creator # 0 /\ Pass(creator)}

\* ensure_ev_filtered, called when a filter is on and the panel asks.
EnsureFiltered ==
    /\ Idle
    /\ filter.mode # Off /\ rows.dirty
    /\ rows' = [events |-> Listed, dirty |-> FALSE]
    /\ UNCHANGED <<store, tags, core, filter, bypassed, page>>

-----------------------------------------------------------------------------
(***************************************************************************)
(* Filters.  A source that names an allocation stands for the comparisons  *)
(* with it (the creators from it on), one that names a label for its       *)
(* members.  Names are resolved, and tags looked up, when the filter is    *)
(* applied; the match set stays until the next application.                *)
(***************************************************************************)
Sources == [by : {"name", "label"}, text : Names \ {BadText}]
NoSource == [by |-> "nothing"]

Named(text) == {n[1] : n \in {m \in names : m[2] = text}}
Labelled(text) == {n \in DOMAIN labels : labels[n] = text}

Compiles(source) == source.by = "name" => Cardinality(Named(source.text)) = 1

Matches(source) ==
    CASE source.by = "name" -> {e \in CreatorsOf(store) : \A f \in Named(source.text) : e >= f}
      [] source.by = "label" ->
            {e \in CreatorsOf(store) :
                \E n \in Labelled(source.text) :
                    (\A k \in Labelled(source.text) : n <= k) /\ HasTag(index, e, n)}
      [] OTHER -> CreatorsOf(store)

NoFilter == [mode |-> Off, on |-> FALSE, matches |-> {}]

\* Mutant: a new match set leaves the list as it is.
FilterByStale(source) ==
    /\ filter' = IF source = NoSource THEN NoFilter
                 ELSE [mode |-> filter.mode, on |-> TRUE, matches |-> Matches(source)]
    /\ UNCHANGED rows

\* hp_filter_apply, where the source compiles.
FilterBy(source) ==
    /\ filter' = IF source = NoSource THEN NoFilter
                 ELSE [mode |-> filter.mode, on |-> TRUE, matches |-> Matches(source)]
    /\ rows' = [rows EXCEPT !.dirty = TRUE]

ApplyFilter(source) ==
    /\ Idle /\ Loaded
    /\ Compiles(source)
    /\ FilterBy(source)
    /\ applied' = source
    /\ UNCHANGED <<store, tags, core, bypassed, shown, refresh>>

\* The page asks for no filtering exactly when it has no applied filter.
SetMode(mode) ==
    /\ Idle /\ Loaded
    /\ (mode = Off) = (applied = NoSource)
    /\ filter' = [filter EXCEPT !.mode = mode]
    /\ rows' = [rows EXCEPT !.dirty = TRUE]
    /\ UNCHANGED <<store, tags, core, bypassed, page>>

(***************************************************************************)
(* sendNames, called when a trace was loaded and when a legacy marks file  *)
(* was read; what follows looks at the applied filter again.               *)
(***************************************************************************)
SendNames(given) ==
    /\ names' = given
    /\ shown' = given
    /\ refresh' = TRUE

ImportLabels(given) ==
    /\ Bypass
    /\ labels' = given
    /\ UNCHANGED <<tags, names, rows, page>>

ImportNames(given) ==
    /\ Bypass
    /\ SendNames(given)
    /\ UNCHANGED <<tags, labels, rows, applied>>

\* renamedFilterRefresh.
RefreshFilter ==
    /\ Idle /\ refresh
    /\ refresh' = FALSE
    /\ IF applied = NoSource \/ applied.by # "name" THEN UNCHANGED <<view, applied>>
       ELSE LET source == IF Compiles(applied) THEN applied ELSE NoSource
            IN  FilterBy(source) /\ applied' = source
    /\ UNCHANGED <<store, tags, core, bypassed, shown>>

-----------------------------------------------------------------------------
(***************************************************************************)
(* Loading.  The engine starts from nothing; what it had listed stays, and *)
(* the filter is off.                                                      *)
(***************************************************************************)
ParseBegin ==
    /\ Idle /\ Loaded
    /\ direct < MaxDirect /\ direct' = direct + 1 /\ derived' = TRUE
    /\ store' = NoTrace
    /\ index' = EmptyIndex /\ lists' = NoLists
    /\ document' = EmptyDocument
    /\ names' = {} /\ labels' = <<>>
    /\ filter' = NoFilter
    /\ UNCHANGED <<todo, rows, page>>

\* The page, told of it, forgets its filter and sends its names, which are none.
ParseEnd ==
    /\ Idle /\ ~Loaded
    /\ store' = Trace
    /\ index' = EmptyIndex /\ lists' = NoLists
    /\ rows' = [events |-> {}, dirty |-> TRUE]
    /\ applied' = NoSource
    /\ SendNames({})
    /\ UNCHANGED <<todo, document, labels, filter, bypassed>>

-----------------------------------------------------------------------------
AnalysisInit ==
    /\ store = NoTrace
    /\ index = EmptyIndex /\ lists = NoLists
    /\ todo = {}
    /\ document = EmptyDocument
    /\ names = {} /\ labels = <<>>
    /\ filter = NoFilter
    /\ rows = [events |-> {}, dirty |-> TRUE]
    /\ direct = 0 /\ derived = TRUE
    /\ applied = NoSource /\ shown = {} /\ refresh = FALSE

DirectCall ==
    \/ \E e \in EventsOf(Trace), numbers \in SUBSET (0..MaxTags) : SetEventTags(e, numbers)
    \/ \E tag \in 0..MaxTags + 1 :
          \/ \E events \in SUBSET EventsOf(Trace) : TagEvents(events, tag)
          \/ TagFilterMatches(tag)
          \/ \E lo, hi \in 1..Len(Trace.op) + 1, byFree \in BOOLEAN : TagRange(lo, hi, tag, byFree)
          \/ \E to \in 0..MaxTags + 1 : Retag(tag, to)
    \/ TagsClear

AnalysisNext ==
    \/ MakeCall
    \/ \E c \in Changes : ApplyChange(c)
    \/ \E id \in Ids, matched \in SUBSET CreatorsOf(store),
          operation \in {"add", "remove", "replace"} : TagQuery(id, matched, operation)
    \/ \E d \in Stored : ReplaceAnalysis(d)
    \/ DirectCall
    \/ EnsureTagIndex
    \/ EnsureFiltered
    \/ \E source \in Sources \cup {NoSource} : ApplyFilter(source)
    \/ \E mode \in {Off} \cup Modes : SetMode(mode)
    \/ \E given \in SUBSET (CreatorsOf(Trace) \X (Names \ {BadText})) : ImportNames(given)
    \/ \E n \in 0..MaxTags, text \in Names \ {BadText} : ImportLabels([i \in 1..n |-> text])
    \/ RefreshFilter
    \/ ParseBegin
    \/ ParseEnd

AnalysisSpec == AnalysisInit /\ [][AnalysisNext]_vars

(***************************************************************************)
(* A call runs to its end, and the page does what it has scheduled.        *)
(***************************************************************************)
FairAnalysisSpec == AnalysisSpec /\ WF_vars(MakeCall) /\ WF_vars(RefreshFilter)

-----------------------------------------------------------------------------
(***************************************************************************)
(* After every tag call, in the middle of a bulk operation too, the        *)
(* derived indexes and counters are what a rebuild from the memberships    *)
(* would give (D009, assert_tag_indexes).                                  *)
(***************************************************************************)
DerivedExact == Exact(store, index)

(***************************************************************************)
(* The sorted lists of tagged creators and of their frees, which the       *)
(* timeline reads without a scan, are current unless they are marked for a *)
(* rebuild.                                                                *)
(***************************************************************************)
ListsCurrent ==
    ~lists.dirty => /\ lists.allocs = Carriers(index.members) \cap CreatorsOf(store)
                    /\ lists.frees = DeathsOf(store, Carriers(index.members))

(***************************************************************************)
(* What the events panel reads while a filter is on is what the filter and *)
(* the trace give now, unless it is marked for a rebuild; across loads.    *)
(***************************************************************************)
RowsCurrent == filter.mode # Off /\ ~rows.dirty => rows.events = Listed

(***************************************************************************)
(* Every document that changes can lead to is one the engine accepts as a  *)
(* whole: a rollback, which expects that, never fails, and a restart never *)
(* refuses the document that was stored.  Changes leave no entry behind    *)
(* that nothing is said about (Stored has none either).                    *)
(***************************************************************************)
DocumentRestorable ==
    /\ Valid(document, store)
    /\ Untouched \notin {document.allocations[e] : e \in DOMAIN document.allocations}

(***************************************************************************)
(* Between two calls, the tag index, the names and the labels say what the *)
(* document says, under the numbers its tags have now, whatever was tagged *)
(* past it before and although numbers shift when tags come and go.        *)
(***************************************************************************)
ProjectionExact ==
    derived /\ Idle =>
        /\ \A id \in DOMAIN document.tags :
               {e \in EventsOf(store) : HasTag(index, e, Number(document, id))} = Members(document, id)
        /\ \A tag \in TagNumbers : tag > Len(labels) => TagCounts(store, index)[tag] = 0
        /\ \A id \in DOMAIN document.tags : labels[Number(document, id)] = document.tags[id]
        /\ \A e \in CreatorsOf(store) : (e \notin {n[1] : n \in names}) = (Entry(document, e).name = None)

(***************************************************************************)
(* A name given to an allocation shows in its label on the map (spec/07:   *)
(* "shows in its in-map label"): the worker comes to draw it, unless the   *)
(* name is taken away again.                                               *)
(***************************************************************************)
NamesReachMap ==
    \A name \in CreatorsOf(Trace) \X (Names \ {BadText}) :
        name \in names ~> (name \in shown \/ name \notin names)
=============================================================================
