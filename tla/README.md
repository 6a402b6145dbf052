# heap-visualizer: specifications and proofs

A heap visualizer reads a trace of allocations and frees, rebuilds the heap at
any point of the trace, and lets people tag, colour and bookmark what they see.
Its engine is written in Rust and runs twice: compiled to WebAssembly in the
browser, and natively in a local companion server that also keeps the canonical
analysis document. This directory holds TLA+ specifications of it, TLC runs
that check them on small instances, and TLAPS proofs for every instance.

## Inventory

Paths are relative to the repository; `core` is `src/core/src`.

| component | state | operations | what is hard | what makes it correct |
|---|---|---|---|---|
| Trace parser and store (`core/parse.rs`, `core/store.rs`) | columns of events, death links, id map, live map, clock, counters, warnings, snapshots | one per record kind, malformed line, end of stream | ids are reused; a kill names an id; malformed traces are shown, not refused; records are dropped half-way; snapshots are thinned | links are inverse and go to the newest live carrier; what is malformed is flagged; snapshots and live map are the live set |
| Playhead (`core/state.rs`) | position, live set, tallies, row width and base | reset, seek, row width | incremental in both directions, or rebuilt from a snapshot; tallies never recomputed | the picture depends on the position alone; a seek is cheap and arrives |
| Tag indexes (`core/store.rs`, D009) | membership bitsets and six derived indexes | add, remove, clear, retag, rebuild | derived state maintained incrementally | the indexes are what a rebuild would give |
| Analysis document (`core/analysis.rs`) | revision, allocations, tags, bookmarks, marks, filters | one per change, replace, tag query | optimistic concurrency; pruning | one revision per accepted change, invalid documents never accepted |
| Companion server (`local-server/src/lib.rs`) | engine behind a lock, file, journal, watch channel, idempotency table, cursors | read, change, tag query, long poll, restart | persist then publish, rollback, crash, retry, lost wake-up | accepted means durable; readers see every revision or are told to start over |
| Browser analysis port (`web/analysis-port.ts`, `web/heap/analysis.ts`) | installed document, operation queue, feed, connection generation | read, commit, feed, connect, disconnect | awaits between check and use; three copies of the document (port, page, worker) and two sources of changes | what a connected page holds is a committed document and catches up; nothing of it is left afterwards |
| Connection mode (`web/local-server.ts`, `web/main.ts`) | stored credentials, generation, pending and rendered trace | connect, disconnect, stream a trace | completions that arrive after the next action | the last action of the user wins |
| Map layout (`core/state.rs`, viewport of `web/worker.ts`) | rows laid out, cached rows, pins, threshold, scroll | ensure, seek, settings, marks, scrolls, frames | laid out lazily, marked dirty by hand; an anchor taken in one layout and restored in another | the layout is that of the picture; the top of the viewport stays where it is |
| Worker and RPC (`web/worker.ts`, `web/rpc.ts`) | in-flight and queued request per key; load and playback state | request, cancel, reply; load, unload, play | superseded requests, load while loading | one request in flight per key, the newest is answered |
| Filtered event list (`core/lib.rs`) | match bits, list, dirty flag | apply, clear, tag changes, load | laziness | the list is what the filter matches |
| Feature-request service (`server/store.py`, `server/app.py`) | an append-only file | append, set status, delete, load | check and append are not atomic; torn lines | a deleted request stays deleted, no line is lost |
| Filter language (`filter-dsl`, `core/filter_*.rs`) | none | parse, check, lower, scan; complete, highlight | two implementations, one compiled; missing values; mixed numbers | a filter selects what its expression means, or is refused and changes nothing |
| Agent API, timeline, rendering, JSON | none of their own | queries | - | pure |
| Browser shell, session persistence | page layout, local storage | autosave, restore | - | one user, one page |
| Companion command line (`local-server/src/main.rs`) | the installed binary | open, setup, doctor, update | replacing a running binary | an update is whole or not at all |

The parser hands its store to the engine at `parse_end`, which resets the
playhead. The browser worker and the server call the engine through the same
functions. The server is the owner of the document when a browser is connected:
the browser commits over HTTP, applies what the server accepted to its own
engine, and follows the change feed.

## What is modelled

| module | models | extends |
|---|---|---|
| `TraceParser` | parser and store, one action per record kind | |
| `Playhead` | the view, composed with the parser by `parse_end` | `TraceParser` |
| `HeapHistory` | abstract: what the engine promises about any trace | |
| `PlayheadHistory` | the refinement of `HeapHistory` by `Playhead` | `Playhead` |
| `RowLayout` | the rows of the map and the viewport over them | `Playhead` |
| `AnalysisServer` | the server's document: writers, handler, disk, followers, crashes | |
| `AnalysisHistory` | abstract: one linear history of changes, implemented by `AnalysisServer` | |
| `BrowserAnalysis` | a page's copies of the document: connection, commits, feed, return to the local analysis | |
| `TagIndex` | the tag memberships and their derived indexes | |
| `AnalysisDocument` | the document, its projection to the engine, tag calls, filters and lists | `TagIndex` |
| `FilterNumbers` | integers, floats, their comparison and arithmetic, literals with units | |
| `FilterTrees` | the expression trees, by height, and their parts | |
| `FilterSyntax` | the parser | `FilterTrees` |
| `FilterSpelling` | the ways an expression may be written down | `FilterTrees` |
| `FilterContext` | the columns, names, tags and custom fields a filter reads | `FilterNumbers`, `FilterTrees` |
| `FilterTypes` | the checker | `FilterContext` |
| `FilterReference` | the tree-walking evaluator: what a filter means | `FilterTypes` |
| `FilterPlan` | lowering to a plan and the scan of the trace by blocks | `FilterContext` |
| `FilterPipeline` | the call that applies a filter, stage by stage, and the mode; the parser and the plan are parameters | `FilterReference` |
| `TraceParserProofs`, `PlayheadProofs`, `RowLayoutProofs`, `AnalysisDocumentProofs`, `AnalysisServerProofs`, `BrowserAnalysisProofs`, `FilterProofs` | theorems and their proofs | the module they are about |
| `NumberFacts` | lemmas on `Min`, `Max`, sums over finite sets and multiples that the proofs share | |
| `MC*` | values for the constants | |

### TraceParser

One action per record: `Malloc`, `Realloc`, `Free`, `Custom` get a row through
`EventRow`, which is the body of `Parser::apply` from the clock to the snapshot
in the code's order; `DroppedRecord` and `AddresslessCreator` are the early
returns of the same function, with the side effects they keep;
`MalformedLine`, `Header` and `Finish` are `line`'s error path, the header
branch, and `finish`. Variables are the columns and the load-time maps; the map
in `PROJECT.json` gives the lines of every definition.

Events are numbered from 1, and 0 stands for `NONE_U32`. The live map is a set
of creators: its key adds the address and its value the end, which both are
functions of the creator. The row keeps the ids a record had, present or not,
so that the properties can speak of them; the code stores an absent id as 0 and
does not store the old id of a realloc. `Top` is `u64::MAX`: `SatAdd` and
`SatSub` saturate there, and the byte count wraps there, as in a release build;
a debug build panics when sizes sum past it.

Left out: site, thread, stack, label and custom-field interning, the event
counters and prefix sums (functions of the `op` column), `old_geom`, the total
of allocated bytes, the largest address, and the header's texts. None of them
is read by what is modelled. Reading JSON and cutting chunks into lines are not
modelled.

Three things the code does that a reader of spec/03 may not expect, and that
`AmbiguityFlagged` is worded around: only the newest carrier of an id is looked
at when the id comes again (spec/03-core-model.md:87, parse.rs:494), so a third
carrier after a duplicate whose newer carrier was freed raises no warning of its
own; the warning about a record that is then dropped names the event number the
record would have had; and a record without a time takes that of a dropped one
before it.

### Playhead

`ParseEnd` is `parse_end` with `View::reset`. Until then the engine holds an
empty store, on which `seek` returns at once and `set_row_bytes` only changes
the width. `BeginSeek` is `seek` up to its loops, with the choice between
replay and rebuild; `InsertFromSnapshot`, `StepForward` and `StepBackward` are
one iteration each, `EndSeek` the return. No other call can run before it: the
engine is single-threaded and a seek is one call. The loops are split so that
the picture can be checked at every iteration and the arrival stated as a
liveness property. `hp_seek_t` is a seek to a position computed from the sorted
time column, and so one of the positions `BeginSeek` ranges over.

`view` holds the live set, count, bytes, the multisets of birth times and spans
and the occupancy of rows, as bags. A saturating decrement below zero and a
missing key are the bag difference's behaviour too.

The rows that are drawn are `RowLayout`'s. `parse_begin` on a loaded engine starts over from the initial state of both
modules, so a second load is not modelled.

### HeapHistory

The promise of spec/03 with no ids, addresses, snapshots or strategies: events
kill at most one live block and create at most one; once sealed, a reader puts
the playhead anywhere and sees what applying the events up to there leaves
live. `PlayheadHistory` maps the parser's rows to `history` and the view at
rest to `picture`, with two history variables for what the view showed when the
last seek ended.

### RowLayout

The layout half of `View` and the viewport of the worker. `LaidOut` is
the body of `ensure_rows`: `Lay` takes the needed rows in order, and `Place` puts each one
after the rows so far, with fillers before it when the run between is short and behind one
more gap marker when it is not. `FirstNot` is the binary search they all are, over the rows
that start by, end by or come before what is looked for. Layout is lazy; `dirty` is `rows_dirty`, and `Ensured` is
what `ensure_rows` leaves. Each action is a whole message handler of the worker
with the engine calls it makes: those that seek are split where `Playhead`
splits the seek, and `after` holds what the handler does when the seek is
through. `Anchored` is `captureAnchor`, the operation and `restoreAnchor`;
`Hold` pins the anchor's address first, as seeks do. A row that is no row is 0,
as rows are numbered from 1 here; the binary searches are kept.

What the model shows besides its properties: an arena base that a header names
above some block is not used, the base being the lower of it and the lowest
address (state.rs:104), so only an address mark below every block falls
into a row that is not its own; settings (width, threshold, show-all) restore the anchor but
do not pin it, so that the row at the top may vanish under them, where MAP-003
(spec/04-address-map.md:45) speaks of every change of layout; and a frame
clamps the scroll position, which moves the anchor near the end of the map.
`AnchorHeld` therefore speaks of seeks.

Left out: drawing, the minimap, playback (a seek per tick), and horizontal
positions.

### AnalysisServer

A document is the sequence of the changes that led to it, and its revision is
their number. This loses what a change does (that is `AnalysisDocument`) and keeps what the server must get right: which change
stands at which revision, in which of its five places: the engine, the file,
what a power loss would leave of the file, the journal, the remembered answers.

`change_analysis` and `tag_query` are the same handler, except that a tag query
is journalled without content; `Bulk` are the changes made by tag queries. The
handler takes the engine lock, looks the request id up, applies the change and
keeps the lock to its end. `Apply` to `Succeed` are the points between which the
process may die; nobody who needs the lock can run in between. `Repeat` and
`Refuse` are the early returns. `WriteFails` stands for every failure up to the
rename, `SyncFails`, `RollBack` and `RollBackFails` for the failures after it;
`RollBack` also covers a rollback whose last directory sync fails
(`afterLoss` then still holds the refused document).

A follower is a handler of `GET /changes` together with the client that runs it
(`runChangeFeed` in `web/analysis-port.ts`; its operation queue and connection
generations are `BrowserAnalysis`). `changes` awaits
only the announcement: `Subscribe`, `Check`, `Wait` are the points a commit can
come between, and `unseen` is the watch channel's changed mark. `Check`,
`TimeOut` and `Read` need the engine lock.

`Crash` ends the process and keeps the file. `LosePower` also may undo a rename
that was not synced, and stops the clients, which run on the same machine.
`Restart` reads the file; journal and remembered answers are empty. That the file
is accepted at the start is `DocumentRestorable` of `AnalysisDocument`.

Left out: authorization, trace identity (one trace per process), health
reports, and the eviction of clients.

### AnalysisHistory

The promise of ARCH-008 with no locks, files or journals: a history that only
grows, answers that name a change in it, and copies that are prefixes of it and
move forward only. In the refinement a change joins the history when it is
durable, or when the process stops while the file holds it. It is checked with
`PowerMayFail = FALSE`: after a failed rollback, a restart may load, and hand to
followers, a document that was never synced and that a later loss of power takes
away.

### TagIndex

`members` is `tag_members`; the other fields are the indexes the engine keeps
beside it, in the order of `Store`. A bitset is a set; a vector that was not
grown yet and one of zeros are the same. The operators are the four mutators,
whole, with the block mask read back where the code reads it back
(`has_any_tag_now`). `Rebuilt` is `assert_tag_indexes`.

### AnalysisDocument

`document` is the document with its maps as functions. A text is good or
`BadText`: trimming and lower-casing a good text again changes nothing, which is
all that validation after the fact relies on. Address marks and saved filters
share `marks`, since no condition or other change refers to either; the
bookmark's name and time and the tag's color are left out, and so is the map of
color overrides, which is projected like the names.

`ApplyChange` is `hp_analysis_apply` and `Engine::apply_analysis`, `TagQuery` is
`apply_tag_query` with any set of creators as the matches, `ReplaceAnalysis` is
`replace_analysis`. All three project: tags are cleared, names and labels
replaced, and the tag calls queued. `todo` holds the calls the running one still
makes, in the order of the events, so that the indexes can be checked after each
(`MakeCall`); nothing else runs until it is empty, as the engine is
single-threaded. The tag calls that bypass the document (`DirectCall`) are those
of legacy marks files and of filter-to-tag. `derived` records whether one came
since the last projection; it is read by `ProjectionExact` only.

`filter` is `cfg.filter` reduced to the mode and the match bits, `rows` is
`ev_filtered` with `ev_dirty`, and `lists` are `tag_alloc_idx` and
`tag_free_idx` with their flag. A source stands for a filter over a named
allocation or a tag's label. `ParseBegin` and `ParseEnd` are a second load;
`ParseEnd` includes what the page does when it hears of it (`onLoaded`).
`applied`, `refresh` and `shown` are what the page and the worker keep of the
filter and of the names.

Left out: the revision check and concurrent writers (`AnalysisServer`), the quick
filters of `hp_set_filter`, which the page does not use, and a page whose idea of
the tags' numbers lags behind the worker's. The latter is a hazard without a
property: tagging a filter's matches sends the page's number of the tag and reads
the members back under it after an await (heap/analysis.ts:122); a change
followed in between renumbers the tags or drops the members not yet in the
document, and members read under one revision are committed under a later one.

### BrowserAnalysis

The document on the page's side, where it is kept three times: by the port
(`installed`), by the page (`canonical`) and in the worker's engine (`core`). An
action is what the page runs between two awaits. The worker answers in order, so
a request is worked off when it is made and only its answer waits, in `replies`;
`queue` is the chain of operations `serial` makes, of which the first runs, and
each operation carries the generation it was started under, which the code
compares with the present one after an await (`Current`). Reads (`StartRead` to
`SnapshotInstalled`), changes (`StartChange` to `ChangeReturns`) and deltas of the
feed (`StartDeltas` to `DeltaInstalled`) are operations; `feed` is `runChangeFeed`
between them. `Connect`, `Connected`, `TraceAnswers` to `Loaded` and `Disconnect`
are main.ts; `ResetDone` to `SeedDone` are the return to what the page had of its
own: the worker's document is emptied and read back (`resetStandaloneAnalysis`),
and where marks are found saved, their memberships are asked for ("dump") and what
the page displays by then is put back (`seedStandaloneAnalysis`). Neither
disconnecting nor connecting waits for a return that is under way, so several can
be, each with its next answer in `replies`.

`marks` is what `restoreMarksAutosave` finds (`saved`; it may appear at any time the
page may have analysis of its own) and whether the page displays it instead of
`canonical` (`applied`): `projectCanonicalAnalysis` overwrites what is displayed,
which is `Show`.

The server is its log; that it answers as this module assumes (a change is
accepted at its revision only, changes after a revision or a reset if the
journal no longer has them, an answer no older than the request) is
`AnalysisServer`'s. `Saved` is the analysis the page saved of its own. Requests
to the server may fail, and the answer to a change may be lost after it was
committed.

`OwnEarly = FALSE` is the bound under which the properties hold: the page has
analysis of its own, saved or changed while standalone, only from the moment it
leaves its last server on; the return is then still to come. What the bound hides
is real, and TLC finds it where `OwnEarly` is true:

- `own_shown`: a page goes on showing its own analysis as the server's;
- with two connections, one commit of another's and nothing else (`MaxConnects = 2`,
  `MaxOthers = 1`, `MaxChanges = MaxFaults = 0`), `LeavesServer` is violated by two
  returns that overlap. The page leaves a server and connects again before the worker
  has answered the reset. The read-back is then the new server's snapshot, saved
  marks are found, and the memberships are asked for; meanwhile the snapshot is
  shown. The page disconnects again, and `seedStandaloneAnalysis` of the first
  return, standalone by now, replaces the emptied document by what the page shows:
  the server's.

`LeavesServer` lets changes of the server stand behind a change the page made
itself. That one exception is real too: `copied_delta` shows the loop over deltas
going on over a disconnection.

Read off the model and the code, without a property of their own:

- a page that leaves the server between the end of a trace and the worker's
  answer to it, and connects again before that answer, finds an equal trace
  pending and returns early; the answer then finds no configuration, and the
  analysis stays inactive until the next connection;
- a first snapshot that fails is not retried, and the feed never starts. For
  both, `CatchesUp` speaks of a page whose feed runs;
- a change of the page's own that fails or meets a conflict between the moment
  the saved marks are displayed and the seed overwrites them with the document,
  and it is the document that is put back;
- an autosave timer that fires between the disconnection and the read-back of
  the emptied document writes the server's document into local storage, the
  accidental fork that spec/08-architecture.md:174 rules out. Timers of
  session.ts are not modelled.

Left out: the health reports, sessions and authorization, whose failures all
are a failed connection, traces opened from a file while connected, the
contents of a change, and the memberships a dump returns apart from what else
is displayed.

### The filter modules

The language is a pure function of a source and a trace, and it is implemented
twice: `FilterReference` is the walk over the tree that the code keeps as its
oracle, `FilterPlan` the plan that the product uses, with constants folded,
clauses ordered by cost, dictionaries turned into bitmaps and blocks scanned by
words. `FilterPipeline` is the call: the user writes an expression, spelled with
as few parentheses as the grammar allows, with all of them, or with comparisons
chained; each stage is an action, may fail, and then leaves the applied filter
alone. `meaning` is the expression that was meant, read by the properties only.
The parser and the plan are constants of `FilterPipeline`, which `MCFilter` gives
`FilterSyntax` and `FilterPlan`: these two are recursive operators, and what is
proved of the call must not reach them. The checker and the evaluator are
recursive functions on `Trees`, the trees of height `Depth` at most; in the code
a source of bounded length bounds it. Each is written as what it does at one
tree given its results at the tree's parts (`TypeOver`, `ValueOver`), so that a
proof can speak of one operation at a time. `GoodContext` says what loading
guarantees of the columns: numbers fit their types, an index points into its
dictionary or is `None`.

An f64 is a whole number of halves: enough for a fraction to decide a comparison;
rounding and NaN are left out. A text is a name for a short sequence of
characters. A trace is a record of columns (`FilterContext`), not composed with
`TraceParser`: the filter reads columns, whatever trace they came from.

The checker admits, and lowering refuses, an address in `alloc.span`, equality of
two sets that are both columns, `len` of a written set, a boolean in a set of
booleans, a boolean compared with a boolean literal, a text in a literal text, a
column's text among the tags, a literal that starts with a column's text, and
arithmetic or range bounds over values that may be missing. `Check` calls such a
source valid and `Apply` reports an error; `lower` calls that a bug
(filter_plan.rs:378). The first eight are in the corpus (`NotLowered`), so that this
error path is taken; no property says that it is not. The oracle, unlike the plan, reports an
error where a bound of a range is missing, as a sum that overflows is
(filter_eval.rs:2038), and the checker does not look for it: `CheckedNeverStuck`
names the exception (`Unbounded`), and the corpus has such a bound.
`filter_oracle` shows the differences
between the plan and the oracle. Outside the model: highlighting reads malformed
input byte by byte and may step into a character of several bytes.

## Runs

All runs fix small sets of values. `MaxEvents` bounds the rows of a trace and
`MaxFlaws` the records without a row (a record kind is dropped only while no
warning code has been counted that often). Deadlock is not checked: a parsed
trace with nothing asked of it has nothing to do.

| run | checks | instance, and why it is enough |
|---|---|---|
| `traces_and_seeks` | `TypeOK`, `TimeSorted`, `LinksInverse`, `KillsLatestNamed`, `LiveMapExact`, `BytesExact`, `OverlapExact`, `AmbiguityFlagged`, `SnapshotsExact`, `PictureExact`, `SeekCostBounded`, `SeekArrives`, `ImplementsHistory` | traces with one of three troubles, and seeks over traces with none. Ids: two and the reserved one, in four events, so that an id is allocated again while live, freed twice, reused after death and by reallocs; a snapshot after every event, thinned at two. Clock: two times or none, wrong seq numbers, flawed and dropped records, two events and one flaw of a kind. Places: blocks at both ends of an address space of four, overlapping to the left and the right, and reaching past it, in three events. `FewIds` names the first id `i1` and uses one id where ids are not the trouble. Seeks: every trace of three events with an id that can be reused and the reserved one, every target up to one past the end, all sequences of seeks; both strategies are taken |
| `row_layout` | `TalliesExact`, `BaseBelowAll`, `LayoutExact`, `PixelsHitRows`, `AnchorHeld` | four chosen traces (`OnlyChosen`): none, rows far apart, a block that moves and is freed, a misleading header. The layout depends on a trace only through the rows its blocks touch and when. Two widths, marks, two thresholds in rows and one in bytes, all sequences of seeks, settings and scrolls; below `ScrollCap` only frames are drawn |
| `server_writers` | `ServerTypeOK`, `AnswersStand`, `RequestIdsUnique`, `FileIsEngine` | two clients (symmetry), two request ids or none, two changes, four revisions, two crashes, power losses or failed writes anywhere; rollbacks succeed |
| `server_history` | `JournalExact`, `NoLostWakeup`, `ImplementsHistory`, `FollowersCatchUp` | two writers and a follower, a journal of two and a page of one, three revisions: the follower pages through the journal, falls behind it, and meets changes without content; two faults, rollbacks may fail |
| `browser_connected` | `FollowsServer`, `LeavesServer`, `CatchesUp` | two connections, so that answers of the first arrive in the second and two returns overlap; two changes of the page, connected or after, and one of others, so that a change is refused and the feed brings two at once; a failed request anywhere; a journal of two changes, so that a page can fall behind it |
| `analysis_projection` | `DerivedExact`, `ListsCurrent`, `RowsCurrent`, `DocumentRestorable`, `ProjectionExact` | a malloc, the realloc that replaces it and the free of that, in blocks of two events, so that events share a block or not; two tag numbers and three ids, so that numbers run out and shift; any one change after any of three documents, one call past the document or a second load, and filters throughout |
| `filter_apply` | `ParsedAsWritten`, `CheckedNeverStuck`, `PlanAgreesWithOracle`, `ComparisonsExact`, `FilterMeansSource` | two traces of four and five events in blocks of two, one with every optional column and one with none; several hundred expressions of every kind in `MCFilter`, each in its spellings, and malformed sources; a second call over an applied filter for a part of them (`Later`), nesting up to four (`MaxNesting`) and lists of three, to meet the limits; `Depth` is six, the height of the tallest tree that is spelled |

`MaxRevision` bounds the document and `MaxFaults` the crashes, losses of power
and failed writes and syncs. `MaxDirect` bounds the calls that bypass the
document and the loads after the first. One change is enough because `Stored`
offers documents that already hold tags and names to change. In
`BrowserAnalysis`, `Retained` is the length of the journal, `MaxConnects`,
`MaxChanges`, `MaxOthers` and `MaxFaults` count what may happen, and `OwnEarly` is
explained above. In the filter modules, the widths of numbers are constants small
enough to overflow.

Five runs are expected to fail; each states what a document or comment says
and TLC shows the trace on which the code does otherwise.

| run | says | the code |
|---|---|---|
| `failed_rollback` | a failed write leaves the prior document active (ARCH-008) | a rollback that fails itself leaves the new document in the file, and the next start loads it |
| `names_on_map` | an allocation's name shows in its in-map label (ANL-001) | names set by a change reach the engine and the page, but nothing sends them to the worker's labels |
| `filter_oracle` | the plan selects what the oracle does, and an operation on a missing value is false (spec/07) | `not` of a boolean custom field selects the allocations without the field; two numeric custom fields are compared as texts |
| `own_shown` | connected clients follow the committed analysis (ARCH-009) | a change made before the first snapshot has arrived puts the page's own document back over it; if both are at the same revision nothing ever corrects it |
| `copied_delta` | server-owned analysis is not copied into the standalone one (spec/08-architecture.md:173) | the loop over the deltas of one answer goes on after a disconnection: a page that changes the emptied document at once gets the next delta applied to it, where the revisions agree |

### Fairness

`SeekArrives` assumes weak fairness of the iterations of a seek that has begun
(`SeekStep`), and nothing else: they are the loops of one synchronous call.
That anybody seeks, or that a trace ends, is not assumed.

`FollowersCatchUp` assumes weak fairness of a handler's steps (it never awaits)
and of a follower's (the feed loops until the connection ends, and its polls
end at a deadline). It does not assume that a stopped server is started again;
it speaks of behaviours in which it stays up. Writers need not write: the
document is bounded, so they rest in the end.

`CatchesUp` assumes weak fairness of the port's operations (`Serve`: the server
answers and the page goes on), of the feed (`Follow`: a held request ends at its
deadline, a failed one is retried), of the worker's answers (`Receive`), of a
trace that is being sent and of a connection under way. That anybody connects,
disconnects, changes the document or fails is not assumed; all of these are
bounded, so they end.

`NamesReachMap` is refuted under weak fairness of a call's remaining steps and of
the page's scheduled refresh, and on every behaviour in which no legacy file is
imported: there is no step that would send the names, however fair.

### Mutants

Every property has a mutant, an operator named after the definition it
replaces, with the comment `Mutant`: a plausible bug that the run finds.

## Proofs

All theorems are about the specifications themselves, for every value of the
constants that satisfies the modules' assumptions (`ParserAssumption`,
`PlayheadAssumption`, `LayoutAssumption`, `ServerAssumption`; `TagAssumption`, `TraceAssumption`,
`TextAssumption` and `StoredAssumption`; `NumbersAssumption`, `TreesAssumption`,
`ContextAssumption` and `PipelineAssumption`); no bound of the runs is used.

- `TypeCorrect` (`TraceParserProofs`): `TypeOK` is inductive. `StepCases` is the
  case split over the actions that all later proofs use.
- `LinksCorrect`, `LiveMapCorrect`, `SnapshotsCorrect` (`TraceParserProofs`): none of
  the three is inductive. `LiveInv` adds to them that the id map points at
  creators (`IdMapSound`), without which a kill could link to anything. The
  heart is that an event may change `death` only of a creator live at the end,
  to the new event's number: no `LiveAt(p)` with `p` before it changes, so old
  snapshots stay right, and the live set after the event is the old one without
  the target and with the creator. Thinning picks a subsequence.
- `TimeCorrect` (`TraceParserProofs`): the next row comes after the last one
  because no row is ahead of the clock (`TimeInv`).
- `KillsCorrect`, `OverlapCorrect`, `AmbiguityNeverSilent`, `BytesCorrect`
  (`TraceParserProofs`) rest on `LiveInv`. Kills go to the latest carrier because the
  id map holds the latest creator of every id (`IdMapLatest`). The overlap scan
  finds what it should because no block is longer than the largest span
  (`SpansBounded`, `ScanFinds`); that a flag is right for good takes
  `PastLiveSets`. Ambiguity is never silent because an id is shared by live
  creators only after a duplicate was counted (`IdsSettled`, `SharedFlagged`), and
  because warnings only grow and a log that is not full misses none (`WarnGrows`).
  The byte count is the sum over the live set, which one event changes by one
  addend each way (`EventSums`), and the peak the maximum so far (`MaxOfMore`).
- `PictureCorrect` (`PlayheadProofs`): `PlayInv` strengthens `PictureExact` with
  the well-formedness of the seek under way. The parser's invariants give what
  a step of the playhead needs: forward, the target of a kill is live before
  the event and a creator is not; backward the reverse; and the best snapshot,
  the greatest one at or before the target (`GreatestBelow`, by
  well-foundedness), names the live set at its position.
- `TalliesCorrect`, `SeeksAreCheap`, `BaseCorrect` (`PlayheadProofs`). Births,
  spans and rows are counted alike: a block touches a set of slots, and a tally
  gives for each slot the number of live blocks that touch it (`CountBag`); adding
  a bag for one block more or subtracting it for one less keeps that
  (`CountMore`, `CountLess`), and counting anew gives the same (`RecountExact`).
  `TallyInv` holds of any view a step passes through, also the one between the
  two halves of a realloc. A seek is cheap because snapshots stand at every
  multiple of the interval and the trace ends before the next one (`SnapGrid`),
  which thinning keeps (`HalfGrid`). Row 0 is below every block because the lowest
  address is kept while loading (`LowestAddr`) and the base is aligned down from
  it whatever set it last (`BaseAligned`).
- `HeapHistoryImplemented` (`PlayheadProofs`): the abstract history applies the
  events one by one (`Alive`), parser and playhead go by links, snapshots and
  steps both ways. `Alive`'s recursion has one solution: an alternative would
  differ first at some event, which is refuted there (`AliveUnique`, from the least
  number). The live sets of the links obey the same recursion (`LiveSetsAreAlive`),
  so they are it, and at rest (`AtRest`) the picture is the abstract one: a parsed
  event, the end of the parse and the end of a seek are the abstract steps
  `EventTold`, `SealTold`, `SeekTold`, and all others stutter.
- Sums (`NumberFacts`): `SumFunctionOnSet` is a recursive function over the subsets
  of its set. That such a function exists, that there is one only, and what an
  element more or less does to a sum (`SumAdd`, `SumWithout`) is proved from a
  smallest set that would be an exception.
- `LayoutCorrect`, `PixelsCorrect`, `AnchorCorrect` (`RowLayoutProofs`). First the
  algorithms. `LayoutOf` says what a layout of a set of rows is; placing one row more
  keeps it (`PlaceExact`), so `Lay` yields it for every finite set (`LayExact`; that the
  recursive function exists at all is `LayExists`). `FirstNotFinds` is the binary search,
  right wherever what it looks for is downward closed, which row starts and ends are
  because a row lies below all rows before it (`RowsDown`). Then the lazy layout.
  `LayoutExact` speaks only of rows that are unmarked with no seek open; `LayoutInv`
  carries that through the rest: the cached rows of all blocks are current while
  they are said to be valid and never missing when they are shown (`RowsCached`); rows
  not marked are current, during a seek too if those of all blocks are shown, because
  a seek changes the live ones only (`ShownInv`); and the address an anchored seek
  holds stays pinned. `Played` is what is proved of the playhead. `AnchorCorrect`
  follows: only `FinishSeek` ends a seek, and there the pinned row is laid out, so the
  viewport finds it. The one assumption added is that `None` is no number.
- `IndexCorrect`, `ListsCorrect` (`AnalysisDocumentProofs`): each tag call keeps the
  index exact, field by field (`AddExact`, `RemoveExact`, `ClearExact`): a block goes on
  advertising a tag exactly while another event in it carries the tag
  (`BlocksLeft`), and an event's frees go with its last tag because no event frees
  two allocations (`DeathsLeft`, from `TraceAssumption`). Bulk operations queue such
  calls about events and tags there are (`TodoInv`).
- `DocumentCorrect`: a good document has good entries of creators, good tags and
  bookmarks (`GoodIs`), which each kind of change keeps (`ChangeGood`) and each kind of
  step (`DocStays`); what the engine is given as a whole is assumed to be typed and
  without empty entries (`StoredAssumption`), not to be valid.
- `ProjectionCorrect`: while a projection is under way, the memberships made and
  the calls still queued are together those of the document (`ProjInv`); the numbers
  of the tags are distinct and within bounds (`Numbers`).
- `RowsCorrect`: between two traces nothing is filtered (`RowInv`), so the list of the
  trace before is not read.
- `ComparisonExact`, `ComparisonIsOrder`, `ArithmeticChecked` (`FilterProofs`):
  comparing an integer with a float by the float's whole part and then its
  fraction orders the two as the number line does, for every width, and the
  comparison of mixed numbers is one total order; arithmetic never yields a number
  outside its range. `TruncBounds` is the fact about rounding towards zero it
  comes from.
- `TypesSound` (`FilterProofs`): `check_type` is sound for `eval`, for every tree, trace
  and event: what has a type evaluates to a value of that type (`Fits`: integers
  in range, sets countable), is missing, or is an error only where a range in it
  has a missing bound. First, that there are such functions: a function that
  obeys a rule at each tree is built height by height (`HeightExists`,
  `TreeRuleExists`, for which `PartsBelow` says that parts are lower than their
  tree), hence what `Eval`, `CheckType` and `Subtrees` are at a tree (`EvalOver`,
  `TypesOver`, `SubtreesOver`), and induction over trees (`TreeInduction`). Then one
  lemma per operation, `UnarySound` to `BinarySound`, over lemmas on what the
  operators return (`CompareFits`, `MemberFits`, `ArithFits`, `FieldFits`,
  `CustomFits`). The invariant of the induction also says that only scalars may be
  missing and that an empty set is empty: the checker gives an empty set no type
  and takes one from the other side.
- `CheckingIsSound`, `ComparingIsExact` (`FilterProofs`): `PipelineInvariant` says that
  each stage works on a tree the parser built and that what is lowered was checked.
  The context with the custom fields resolved is good (`ContextReady`: a value a
  field has is of the type the catalog gives its key) and checks alike
  (`SameTypes`), so `TypesSound` applies to the tree at hand. The operands of a
  comparison are then numbers of the ranges `ComparisonExact` is about.
  `PipelineAssumption` asks that contexts are good and that what the parser
  builds is a tree.
- `FilterIsWritten` (`FilterProofs`) is conditional: if the parser builds what was
  meant (`ParsedAsWritten`) and the plan's bits are the evaluator's
  (`PlanAgreesWithOracle`), then `FilterMeansSource`. The stages and failures of the
  call add no error of their own. `filter_apply` checks both hypotheses and the
  conclusion on its corpus; `filter_oracle` shows that the second does not hold of
  every filter.
- `ServerTypeCorrect`, `AnswersCorrect`, `JournalCorrect`, `WakeupCorrect`
  (`AnalysisServerProofs`): one inductive invariant, `ServerInv`. Its heart is
  what a handler under way may already have changed. `JobInv` says that the
  engine is the old document and the handler's change, that the file is the
  engine's document from the rename on, and the only one a power loss can leave
  once the directory is synced. `AnswerInv` keeps every answer, given or
  remembered, in each document that may still become the current one (`Kept`:
  the old document of an open handler is one of them), so that every failure
  only picks one of these. `JournalInv` and `WakeInv` say the same as
  `JournalExact` and `NoLostWakeup`, but of the document whose change has been
  journalled (`Written`) or announced (`Announced`). They cover what
  `server_writers` leaves out: rollbacks that fail, combined with losses of power.
- `RequestIdsCorrect`, `FileCorrect`, `HistoryImplemented` (`AnalysisServerProofs`)
  rest on `ServerInv`. Request ids are unique because a commit adds its id only
  where no change of the document carries it (`IdsInv`). `FileCorrect` assumes
  that rollbacks succeed (`~RollbackMayFail`): the file is then the document, or
  one change ahead of it while a handler is open. `HistoryImplemented` assumes
  that the power stays on (`~PowerMayFail`): a change joins the history when the
  directory is synced, or when the process stops with the renamed file behind it,
  and never leaves it. The file is the committed document or one change ahead
  (`AheadInv`), and a follower's copy with the changes on their way to it is an
  initial part of the committed document (`CopyInv`), because a page of the
  journal goes on exactly where its reader is (`JournalPage`).
- `FollowsCorrect` (`BrowserAnalysisProofs`) assumes `~OwnEarly`, the bound of
  `browser_connected`, for the reason given there. `FollowsServer` speaks of the
  present connection and is not inductive: an operation of an earlier one goes on
  after its connection is gone, and still writes to the worker, the port and the
  page. `Mirrored` therefore says it of every document there is, connected or not:
  in the worker, on its way from it, in the port, on the page and in each
  operation in the queue, all are the log up to some revision (`Committeds`), and a
  change of the page's own is only asked of the server once the page shows a
  document. A change or a delta keeps this because the worker applies it at its
  revision only, and what follows the log up to there is the log's next change
  (`NextCommitted`, `ChangeAnswered`); a commit keeps it because the log only
  grows (`CommittedsGrow`).
  Once the page leaves the server for good (`Left`) it has analysis of its own, and
  `Known` asks of these documents only that they are documents: the rest of
  `Mirrored`, who is at which step with what, goes on.
Model-checked only: liveness (`SeekArrives`, `FollowersCatchUp`, `CatchesUp`), which
is out of the prover's reach, and what compares the parser and the plan with
something else: `ParsedAsWritten` and `PlanAgreesWithOracle`. The parser and the
plan are recursive operators over data, of which nothing can be proved here, and
the last one holds of the corpus and not of every filter (see above). So is
`LeavesServer`, of which nothing is proved. Every other invariant and action
property of the passing runs is a theorem, `FilterMeansSource` under two of these.

## Not modelled

- The lexer, completion and highlighting of the filter language: texts cut into
  tokens, and help while typing; the parser starts from tokens.
- The agent queries, the timeline, rendering and the drawing of labels: functions
  of state that is modelled elsewhere. Their page cursors carry a digest of the
  trace, revision, filter and order they were taken from and are refused otherwise.
- JSON, and cutting a trace into lines.
- `requestLatest`, which drops superseded promises by design, and playback, which
  is a seek per tick.
- The browser shell and session persistence: one page, one user, local storage.
- The companion's command line and its self-update: replacing a file by rename.
- Authorization and session metadata of the server.
- The feature-request service: three appends to a text file. A status can be
  written after a tombstone, which every reader lets win; a line torn by a crash
  takes the next one with it.
- Thread numbers are kept in 16 bits and wrap past 65535 threads; interning is
  left out of `TraceParser`.
- Trace generators and build scripts: tooling.
