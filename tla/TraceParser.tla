---------------------------- MODULE TraceParser ----------------------------
(***************************************************************************)
(* The streaming trace parser (core/src/parse.rs) and the columnar store   *)
(* it fills (core/src/store.rs): one pass over the records of a trace that *)
(* resolves ids to creating events, links every death to its creation,     *)
(* flags malformed traces, and leaves snapshots of the live set behind.    *)
(*                                                                         *)
(* Events are numbered from 1 here (the code counts from 0), so that the   *)
(* number of an event is also the number of events applied once it is in,  *)
(* and 0 stands for the code's NONE_U32.  Top is u64::MAX: addresses       *)
(* saturate there and byte counts wrap there.                              *)
(*                                                                         *)
(* Definitions marked "Mutant" are plausible bugs in the definition that   *)
(* follows them; no specification uses them.                               *)
(***************************************************************************)
EXTENDS Integers, Sequences, FiniteSets, FiniteSetsExt

CONSTANTS
    Ids,            \* allocation ids, NullId among them
    NullId,         \* the reserved id 0
    Addrs, Sizes, Usables, Times,   \* values the records may carry
    SeqFaults,      \* may a record's seq differ from its position?
    HdrWidths,      \* row widths a header may suggest
    Absent,         \* a field the record does not have
    Top,            \* u64::MAX
    FirstInterval,  \* events between snapshots at first (16384)
    SnapMax,        \* SNAP_MAX (96): at this many snapshots every other one goes
    WarnCap,        \* detailed warnings kept (1000)
    MaxEvents,      \* bound on the rows of a trace, for model checking
    MaxFlaws        \* bound on warnings from records without a row

ASSUME ParserAssumption ==
    /\ NullId \in Ids
    /\ Absent \notin Ids \cup Times \cup Addrs
    /\ Top \in Nat \ {0}
    /\ Addrs \subseteq 0..Top /\ Sizes \subseteq 0..Top /\ Usables \subseteq 0..Top
    /\ Times \subseteq Nat /\ SeqFaults \subseteq BOOLEAN
    /\ HdrWidths \subseteq Nat /\ Absent \notin HdrWidths
    /\ FirstInterval \in Nat \ {0}
    /\ SnapMax \in Nat /\ SnapMax >= 2
    /\ WarnCap \in Nat /\ MaxEvents \in Nat /\ MaxFlaws \in Nat

VARIABLES
    phase,          \* "loading" until finish() has run, then "ready"
    rows,           \* the columns of the store, one record per event
    death,          \* death[e]: the event that kills allocation e, or 0
    idMap,          \* the last creator that carried an id, or 0
    live,           \* creators in the parser's live map
    prevT, sawT, tMin, tMax,
    seqWarned,
    curBytes, peakBytes,
    maxSpan,        \* largest span seen: bounds the overlap scan
    addrMin, arenaBase, hdrRowBytes,
    overlapIndex,   \* creators flagged as overlapping
    warnings,       \* the detailed warnings, at most WarnCap
    warnCount,      \* exact count per code
    snaps, snapInterval

store == <<rows, death, tMin, tMax, peakBytes, maxSpan, addrMin, arenaBase,
           hdrRowBytes, overlapIndex, warnings, warnCount, snaps>>
clock == <<prevT, sawT, tMin, seqWarned>>
geometry == <<maxSpan, addrMin, arenaBase, hdrRowBytes, overlapIndex>>
parserVars == <<phase, store, idMap, live, prevT, sawT, seqWarned, curBytes,
                snapInterval>>

Creators == {"M", "R"}
Killers == {"F", "R"}
Ops == {"M", "F", "R", "E"}
Codes == {"malformed", "t_decrease", "seq_mismatch", "unknown_id",
          "double_free", "dup_id", "overlap", "bad_size", "version"}

Min2(a, b) == IF a <= b THEN a ELSE b
Max2(a, b) == IF a >= b THEN a ELSE b
SatAdd(a, b) == Min2(a + b, Top)
SatSub(a, b) == IF a >= b THEN a - b ELSE 0

\* Span of a creator as drawn and as used for overlaps: at least one byte.
Span(e) == Max2(Max2(rows[e].size, rows[e].usable), 1)
EndOf(e) == SatAdd(rows[e].addr, Span(e))
CreatorEvents == {e \in 1..Len(rows) : rows[e].op \in Creators}

(***************************************************************************)
(* What the store says is live once the first p events are applied.        *)
(***************************************************************************)
LiveAt(p) == {e \in 1..p : /\ rows[e].op \in Creators
                           /\ death[e] = 0 \/ death[e] > p}

-----------------------------------------------------------------------------
(***************************************************************************)
(* Warnings.  Every one is counted; the first WarnCap are kept in detail.  *)
(* The event a warning is attached to may be one that gets no row.         *)
(***************************************************************************)
Warning(code, e) == [code |-> code, seq |-> e]

WarnIf(cond, code, e) == IF cond THEN <<Warning(code, e)>> ELSE <<>>

Warn(ws) ==
    /\ warnings' = SubSeq(warnings \o ws, 1,
                          Min2(WarnCap, Len(warnings) + Len(ws)))
    /\ warnCount' = [c \in Codes |->
            warnCount[c] + Cardinality({i \in 1..Len(ws) : ws[i].code = c})]

\* Mutant: a flaw before the first event has no event to be attached to.
PreviousEventUnclamped == Len(rows)

\* `len().saturating_sub(1)`: the event before the record, or the first one.
PreviousEvent == Max2(Len(rows), 1)

(***************************************************************************)
(* The clock: a missing t repeats the last one, a smaller t is raised to   *)
(* it.  tIn is the record's t, seqBad says that its seq is not the         *)
(* position of the record.  The event the warnings name is the next row.   *)
(***************************************************************************)
Backwards(tIn) == tIn # Absent /\ sawT /\ tIn < prevT

\* Mutant: a clock that runs backwards is warned about but not clamped.
ClampNot(tIn) == IF tIn = Absent THEN prevT ELSE tIn

Clamp(tIn) == IF tIn = Absent \/ Backwards(tIn) THEN prevT ELSE tIn

Tick(tIn, seqBad) ==
    /\ prevT' = Clamp(tIn)
    /\ tMin' = IF sawT THEN tMin ELSE Clamp(tIn)
    /\ sawT' = TRUE
    /\ seqWarned' = (seqWarned \/ seqBad)

ClockWarnings(tIn, seqBad) ==
    LET e == Len(rows) + 1
    IN  WarnIf(Backwards(tIn), "t_decrease", e)
        \o WarnIf(seqBad /\ ~seqWarned, "seq_mismatch", e)

-----------------------------------------------------------------------------
(***************************************************************************)
(* The allocation a record with this id kills: the last creator that       *)
(* carried the id, unless it is dead already.                              *)
(***************************************************************************)
Known(kid) == kid # Absent /\ idMap[kid] # 0

\* Mutant: the last carrier of the id, dead or not.
TargetUnchecked(kid) == IF Known(kid) THEN idMap[kid] ELSE 0

Target(kid) ==
    IF Known(kid) /\ death[idMap[kid]] = 0 THEN idMap[kid] ELSE 0

\* Mutant: a double free passes silently.
ResolveWarningsUnknown(kid) ==
    IF Known(kid) THEN <<>> ELSE <<Warning("unknown_id", Len(rows) + 1)>>

ResolveWarnings(kid) ==
    LET e == Len(rows) + 1
    IN  IF Known(kid) THEN WarnIf(death[idMap[kid]] # 0, "double_free", e)
                      ELSE <<Warning("unknown_id", e)>>

(***************************************************************************)
(* Does [a, end) meet a live block?  To the left only blocks that start    *)
(* within the largest span seen so far are looked at, to the right only    *)
(* the nearest start.                                                      *)
(***************************************************************************)
Overlaps(blocks, a, end) ==
    \/ \E b \in blocks : /\ rows[b].addr \in SatSub(a, Max2(maxSpan, 1))..a
                         /\ EndOf(b) > a
    \/ /\ a # Top
       /\ LET right == {rows[b].addr : b \in {x \in blocks : rows[x].addr > a}}
          IN  right # {} /\ Min(right) < end

\* Every other snapshot, keeping the later one of each pair.
Thin(s) == [i \in 1..(Len(s) \div 2) |-> s[2 * i]]

(***************************************************************************)
(* A snapshot is due after e events; nowLive is the live map after them.   *)
(***************************************************************************)
\* Mutant: the live map is read before the event has been applied to it.
SnapshotEarly(e, nowLive) ==
    IF e % snapInterval # 0
    THEN UNCHANGED <<snaps, snapInterval>>
    ELSE snaps' = Append(snaps, [pos |-> e, live |-> live]) /\ UNCHANGED snapInterval

Snapshot(e, nowLive) ==
    IF e % snapInterval # 0
    THEN UNCHANGED <<snaps, snapInterval>>
    ELSE LET all == Append(snaps, [pos |-> e, live |-> nowLive])
         IN  IF Len(all) >= SnapMax
             THEN snaps' = Thin(all) /\ snapInterval' = 2 * snapInterval
             ELSE snaps' = all /\ UNCHANGED snapInterval

-----------------------------------------------------------------------------
Init ==
    /\ phase = "loading"
    /\ rows = <<>> /\ death = <<>>
    /\ idMap = [i \in Ids |-> 0]
    /\ live = {}
    /\ prevT = 0 /\ sawT = FALSE /\ tMin = 0 /\ tMax = 0
    /\ seqWarned = FALSE
    /\ curBytes = 0 /\ peakBytes = 0
    /\ maxSpan = 0 /\ addrMin = Top
    /\ arenaBase = 0 /\ hdrRowBytes = 0
    /\ overlapIndex = {}
    /\ warnings = <<>> /\ warnCount = [c \in Codes |-> 0]
    /\ snaps = <<>> /\ snapInterval = FirstInterval

(***************************************************************************)
(* What a record's fields come to in its row: a creator without a size     *)
(* gets one byte, a usable size that adds nothing is dropped, and what is  *)
(* no creator has no geometry.                                             *)
(***************************************************************************)
RowSize(op, sz) == IF op \in Creators THEN Max2(sz, 1) ELSE 0

RowUsable(op, sz, us) ==
    IF op \in Creators /\ us > RowSize(op, sz) THEN us ELSE 0

\* Mutant: the usable size is left out of the span.
RowSpanRequested(op, sz, us) == RowSize(op, sz)

RowSpan(op, sz, us) == Max2(RowSize(op, sz), RowUsable(op, sz, us))

RowTarget(op, kid) == IF op \in Killers THEN Target(kid) ELSE 0

NewRow(op, id, kid, a, sz, us, tIn) ==
    [op |-> op, t |-> Clamp(tIn), id |-> id, kid |-> kid,
     addr |-> IF op \in Creators THEN a ELSE 0, size |-> RowSize(op, sz),
     usable |-> RowUsable(op, sz, us), target |-> RowTarget(op, kid)]

\* The id of a new creator is that of an allocation that is still live.
Duplicate(op, id, kid) ==
    /\ op \in Creators /\ Known(id)
    /\ death[idMap[id]] = 0 /\ idMap[id] # RowTarget(op, kid)

Overlapping(op, kid, a, sz, us) ==
    /\ op \in Creators
    /\ Overlaps(live \ {RowTarget(op, kid)}, a, SatAdd(a, RowSpan(op, sz, us)))

(***************************************************************************)
(* Links, live map and byte counts.                                        *)
(***************************************************************************)
Killed(e, target) ==
    [x \in 1..e |-> IF x = e THEN 0 ELSE IF x = target THEN e ELSE death[x]]

\* Mutant: an id is registered once and for all.
RegisteredOnce(e, op, id) ==
    IF op \in Creators /\ id # Absent /\ idMap[id] = 0
    THEN [idMap EXCEPT ![id] = e] ELSE idMap

Registered(e, op, id) ==
    IF op \in Creators /\ id # Absent THEN [idMap EXCEPT ![id] = e] ELSE idMap

\* Mutant: what a realloc replaces stays in the live map.
LiveAfterLeak(e, op, target) ==
    IF op = "F" THEN live \ {target} ELSE live \cup (IF op = "E" THEN {} ELSE {e})

LiveAfter(e, op, target) ==
    (live \ {target}) \cup (IF op \in Creators THEN {e} ELSE {})

Link(e, op, id, target) ==
    /\ death' = Killed(e, target)
    /\ idMap' = Registered(e, op, id)
    /\ live' = LiveAfter(e, op, target)

\* Mutant: a kill does not give its bytes back.
ReleasedNot(target) == curBytes

Released(target) ==
    IF target = 0 THEN curBytes ELSE SatSub(curBytes, rows[target].size)

Account(op, target, a, size, span) ==
    IF op \in Creators
    THEN /\ curBytes' = (Released(target) + size) % (Top + 1)
         /\ peakBytes' = Max2(peakBytes, curBytes')
         /\ addrMin' = Min2(addrMin, a)
         /\ maxSpan' = Max2(maxSpan, span)
    ELSE curBytes' = Released(target) /\ UNCHANGED <<peakBytes, addrMin, maxSpan>>

(***************************************************************************)
(* A record that becomes an event.  kid is the id of the allocation it     *)
(* kills (the id of an F, the old id of an R), id the one it registers or  *)
(* names; a, sz and us are the geometry of a creator.  The row keeps both  *)
(* ids as the record had them: the code stores an absent id as 0 and drops *)
(* the old id of an R, which only the properties below look at.            *)
(***************************************************************************)
EventRow(op, id, kid, a, sz, us, tIn, seqBad) ==
    LET e == Len(rows) + 1
        overlap == Overlapping(op, kid, a, sz, us)
    IN
    /\ Tick(tIn, seqBad)
    /\ rows' = Append(rows, NewRow(op, id, kid, a, sz, us, tIn))
    /\ Link(e, op, id, RowTarget(op, kid))
    /\ Account(op, RowTarget(op, kid), a, RowSize(op, sz), RowSpan(op, sz, us))
    /\ overlapIndex' = IF overlap THEN overlapIndex \cup {e} ELSE overlapIndex
    /\ Warn(ClockWarnings(tIn, seqBad)
             \o (IF op \in Killers THEN ResolveWarnings(kid) ELSE <<>>)
             \o WarnIf(op \in Creators /\ sz = 0, "bad_size", e)
             \o WarnIf(Duplicate(op, id, kid), "dup_id", e)
             \o WarnIf(overlap, "overlap", e))
    /\ Snapshot(e, live')
    /\ UNCHANGED <<phase, tMax, arenaBase, hdrRowBytes>>

\* Rowless records are bounded by the warnings they may still add.
Rowless == phase = "loading" /\ \A c \in Codes : warnCount[c] < MaxFlaws

Loading == phase = "loading" /\ Len(rows) < MaxEvents

Malloc(id, a, sz, us, tIn, seqBad) ==
    /\ Loading
    /\ EventRow("M", id, Absent, a, sz, us, tIn, seqBad)

Realloc(id, oldId, a, sz, us, tIn, seqBad) ==
    /\ Loading
    /\ EventRow("R", id, oldId, a, sz, us, tIn, seqBad)

Free(id, tIn, seqBad) ==
    /\ Loading
    /\ id # NullId
    /\ EventRow("F", id, id, 0, 0, 0, tIn, seqBad)

Custom(tIn, seqBad) ==
    /\ Loading
    /\ EventRow("E", Absent, Absent, 0, 0, 0, tIn, seqBad)

(***************************************************************************)
(* Records that get no row.  A record of an unknown kind and a free of the *)
(* null id are dropped after the clock and the seq check have seen them; a *)
(* creator without an address is dropped after its old id was resolved and *)
(* warned about, but kills nothing.                                        *)
(***************************************************************************)
DroppedRecord(tIn, seqBad) ==
    /\ Rowless
    /\ Tick(tIn, seqBad)
    /\ Warn(ClockWarnings(tIn, seqBad))
    /\ UNCHANGED <<phase, rows, death, idMap, live, tMax, curBytes, peakBytes,
                   geometry, snaps, snapInterval>>

AddresslessCreator(op, oldId, tIn, seqBad) ==
    /\ Rowless
    /\ op \in Creators
    /\ Tick(tIn, seqBad)
    /\ Warn(ClockWarnings(tIn, seqBad)
             \o (IF op = "R" THEN ResolveWarnings(oldId) ELSE <<>>)
             \o <<Warning("malformed", PreviousEvent)>>)
    /\ UNCHANGED <<phase, rows, death, idMap, live, tMax, curBytes, peakBytes,
                   geometry, snaps, snapInterval>>

\* A line that is no JSON object, an empty one, or one with a field of the
\* wrong kind.  An object without an op is a record of an unknown kind.
MalformedLine ==
    /\ Rowless
    /\ Warn(<<Warning("malformed", PreviousEvent)>>)
    /\ UNCHANGED <<phase, rows, death, idMap, live, clock, tMax, curBytes,
                   peakBytes, geometry, snaps, snapInterval>>

\* The header may come anywhere; what it does not give keeps its old value.
Header(from, width, known) ==
    /\ Rowless
    /\ arenaBase' = IF from = Absent THEN arenaBase ELSE from
    /\ hdrRowBytes' = IF width = Absent THEN hdrRowBytes ELSE width
    /\ Warn(WarnIf(~known, "version", PreviousEvent))
    /\ UNCHANGED <<phase, rows, death, idMap, live, clock, tMax, curBytes,
                   peakBytes, maxSpan, addrMin, overlapIndex, snaps, snapInterval>>

\* End of the stream: the load-time maps are dropped, the store is ready.
Finish ==
    /\ phase = "loading"
    /\ phase' = "ready"
    /\ tMax' = IF rows = <<>> THEN 0 ELSE prevT
    /\ tMin' = IF rows = <<>> THEN 0 ELSE tMin
    /\ addrMin' = IF addrMin = Top THEN arenaBase ELSE addrMin
    /\ idMap' = [i \in Ids |-> 0]
    /\ live' = {}
    /\ UNCHANGED <<rows, death, prevT, sawT, seqWarned, curBytes, peakBytes,
                   maxSpan, arenaBase, hdrRowBytes, overlapIndex, warnings, warnCount,
                   snaps, snapInterval>>

OptIds == Ids \cup {Absent}
OptTimes == Times \cup {Absent}

ParseRecord ==
    \E tIn \in OptTimes, seqBad \in SeqFaults :
        \/ \E id \in OptIds, a \in Addrs, sz \in Sizes, us \in Usables :
               \/ Malloc(id, a, sz, us, tIn, seqBad)
               \/ \E oldId \in OptIds : Realloc(id, oldId, a, sz, us, tIn, seqBad)
        \/ \E id \in OptIds : Free(id, tIn, seqBad)
        \/ Custom(tIn, seqBad)
        \/ DroppedRecord(tIn, seqBad)
        \/ \E op \in Creators, oldId \in OptIds :
               AddresslessCreator(op, oldId, tIn, seqBad)

ParseLine ==
    \/ ParseRecord
    \/ MalformedLine
    \/ \E from \in Addrs \cup {Absent}, width \in HdrWidths \cup {Absent},
         known \in BOOLEAN : Header(from, width, known)

Next == ParseLine \/ Finish

ParserSpec == Init /\ [][Next]_parserVars

-----------------------------------------------------------------------------
(***************************************************************************)
(* Properties.                                                             *)
(***************************************************************************)
Row == [op : Ops, t : Nat, id : OptIds, kid : OptIds, addr : 0..Top,
        size : 0..Top, usable : 0..Top, target : Nat]

LinkType ==
    /\ rows \in Seq(Row)
    /\ death \in [1..Len(rows) -> Nat]
    /\ idMap \in [Ids -> 0..Len(rows)]
    /\ live \subseteq 1..Len(rows)
    /\ overlapIndex \subseteq 1..Len(rows)

ClockType ==
    /\ prevT \in Nat /\ tMin \in Nat /\ tMax \in Nat
    /\ sawT \in BOOLEAN /\ seqWarned \in BOOLEAN

GeometryType ==
    /\ curBytes \in 0..Top /\ peakBytes \in 0..Top
    /\ maxSpan \in 0..Top /\ addrMin \in 0..Top /\ arenaBase \in 0..Top
    /\ hdrRowBytes \in Nat

WarningType ==
    /\ warnings \in Seq([code : Codes, seq : Nat \ {0}])
    /\ warnCount \in [Codes -> Nat]

SnapType ==
    /\ snaps \in Seq([pos : Nat \ {0}, live : SUBSET (Nat \ {0})])
    /\ snapInterval \in Nat \ {0}

\* Every variable of the parser and the store has its type; the two event
\* columns have the same length.
TypeOK ==
    /\ phase \in {"loading", "ready"}
    /\ LinkType
    /\ ClockType
    /\ GeometryType
    /\ WarningType
    /\ SnapType

(***************************************************************************)
(* target and death are inverse links between events in stream order: the  *)
(* columns every later operation walks instead of ids (MODEL-002).         *)
(***************************************************************************)
LinksInverse ==
    \A e \in 1..Len(rows) :
        /\ rows[e].target # 0 =>
               /\ rows[e].op \in Killers
               /\ rows[e].target \in CreatorEvents /\ rows[e].target < e
               /\ death[rows[e].target] = e
        /\ death[e] # 0 =>
               /\ e \in CreatorEvents
               /\ death[e] \in e+1..Len(rows)
               /\ rows[death[e]].target = e

(***************************************************************************)
(* A kill resolves, whatever ids the trace reuses, to the most recent      *)
(* allocation that carried the id, provided that one is still live.        *)
(***************************************************************************)
Named(e) == {c \in 1..e-1 : rows[c].op \in Creators /\ rows[c].id = rows[e].kid}

KillsLatestNamed ==
    \A e \in 1..Len(rows) :
        (rows[e].op \in Killers /\ rows[e].kid # Absent) =>
            LET latest == IF Named(e) = {} THEN 0 ELSE Max(Named(e))
            IN  rows[e].target = IF latest \in LiveAt(e-1) THEN latest ELSE 0

\* The parser's live map is the live set of the whole stream so far.
LiveMapExact == phase = "loading" => live = LiveAt(Len(rows))

(***************************************************************************)
(* A snapshot still names the live set at its position, although deaths    *)
(* recorded after it was taken change the columns it was computed from.    *)
(***************************************************************************)
SnapshotsExact ==
    \A i \in 1..Len(snaps) : /\ snaps[i].pos <= Len(rows)
                             /\ snaps[i].live = LiveAt(snaps[i].pos)

SizeOf == [e \in 1..Len(rows) |-> rows[e].size]

BytesAt(p) == SumFunctionOnSet(SizeOf, LiveAt(p))

(***************************************************************************)
(* As long as the trace allocates fewer than Top bytes in all, the running *)
(* byte count and its peak are those of the live sets.                     *)
(***************************************************************************)
BytesExact ==
    SumFunctionOnSet(SizeOf, CreatorEvents) <= Top =>
        /\ curBytes = BytesAt(Len(rows))
        /\ peakBytes = Max({BytesAt(p) : p \in 0..Len(rows)})

(***************************************************************************)
(* A creator is flagged exactly when its bytes meet those of a block live  *)
(* when it arrived, although the check scans a bounded window only.        *)
(***************************************************************************)
Meets(b, e) == rows[b].addr < EndOf(e) /\ rows[e].addr < EndOf(b)

OverlapExact ==
    overlapIndex = {e \in CreatorEvents :
        \E b \in LiveAt(e-1) \ {rows[e].target} : Meets(b, e)}

(***************************************************************************)
(* The t column is sorted and inside [tMin, tMax], as the binary searches  *)
(* by time and the time axis need.                                         *)
(***************************************************************************)
TimeSorted ==
    \A e \in 1..Len(rows) :
        /\ tMin <= rows[e].t
        /\ e > 1 => rows[e-1].t <= rows[e].t
        /\ phase = "ready" => rows[e].t <= tMax

(***************************************************************************)
(* Two live allocations share an id only if the trace was flagged for it,  *)
(* and a kill that resolves to nothing is never silent.                    *)
(***************************************************************************)
Unresolved == {e \in 1..Len(rows) : rows[e].op \in Killers /\ rows[e].target = 0}

AmbiguityFlagged ==
    /\ \A c, d \in LiveAt(Len(rows)) :
          (c < d /\ rows[c].id = rows[d].id /\ rows[c].id # Absent)
          => warnCount["dup_id"] > 0
    /\ Cardinality(Unresolved) <= warnCount["unknown_id"] + warnCount["double_free"]
    /\ Len(warnings) < WarnCap =>
          \A e \in Unresolved : \E i \in 1..Len(warnings) :
              /\ warnings[i].seq = e
              /\ warnings[i].code \in {"unknown_id", "double_free"}
=============================================================================
