------------------------- MODULE TraceParserProofs -------------------------
(***************************************************************************)
(* Proofs about TraceParser, for every value of its constants.             *)
(***************************************************************************)
EXTENDS TraceParser, NumberFacts

-----------------------------------------------------------------------------
(***************************************************************************)
(* Type correctness, part by part.                                         *)
(***************************************************************************)
LEMMA InitType == Init => TypeOK
<1> SUFFICES ASSUME Init PROVE TypeOK
  OBVIOUS
<1>1. LinkType
  BY DEF Init, LinkType
<1>2. ClockType
  BY DEF Init, ClockType
<1>3. GeometryType
  BY ParserAssumption DEF Init, GeometryType
<1>4. WarningType
  BY DEF Init, WarningType
<1>5. SnapType
  BY ParserAssumption DEF Init, SnapType
<1> QED
  BY <1>1, <1>2, <1>3, <1>4, <1>5 DEF Init, TypeOK

WarningRecord == [code : Codes, seq : Nat \ {0}]

\* Whatever is warned about, the log stays a log and the counts stay counts.
LEMMA WarnType ==
    ASSUME WarningType, NEW ws \in Seq(WarningRecord), Warn(ws)
    PROVE  WarningType'
<1>1. warnings \o ws \in Seq(WarningRecord)
  BY DEF WarningType, WarningRecord
<1>2. Min2(WarnCap, Len(warnings) + Len(ws)) \in 0..Len(warnings \o ws)
  BY ParserAssumption DEF WarningType, WarningRecord, Min2
<1>3. warnings' \in Seq(WarningRecord)
  BY <1>1, <1>2 DEF Warn
<1>4. \A c \in Codes : Cardinality({i \in 1..Len(ws) : ws[i].code = c}) \in Nat
  <2> SUFFICES ASSUME NEW c \in Codes
               PROVE  Cardinality({i \in 1..Len(ws) : ws[i].code = c}) \in Nat
    OBVIOUS
  <2>1. IsFiniteSet(1..Len(ws))
    BY FS_Interval
  <2> QED
    BY <2>1, FS_Subset, FS_CardinalityType
<1>5. warnCount' \in [Codes -> Nat]
  <2>1. \A c \in Codes : warnCount[c] \in Nat
    BY DEF WarningType
  <2>2. \A c \in Codes :
          warnCount[c] + Cardinality({i \in 1..Len(ws) : ws[i].code = c}) \in Nat
    BY <1>4, <2>1
  <2> QED
    BY <2>2 DEF Warn
<1> QED
  BY <1>3, <1>5 DEF WarningType, WarningRecord

LEMMA WarnIfType ==
    ASSUME NEW cond \in BOOLEAN, NEW code \in Codes, NEW e \in Nat \ {0}
    PROVE  /\ WarnIf(cond, code, e) \in Seq(WarningRecord)
           /\ <<Warning(code, e)>> \in Seq(WarningRecord)
<1>1. Warning(code, e) \in WarningRecord
  BY DEF Warning, WarningRecord
<1>2. <<Warning(code, e)>> \in Seq(WarningRecord) /\ <<>> \in Seq(WarningRecord)
  BY <1>1
<1> QED
  BY <1>2 DEF WarnIf

LEMMA ConcatWarnings ==
    ASSUME NEW s \in Seq(WarningRecord), NEW t \in Seq(WarningRecord)
    PROVE  s \o t \in Seq(WarningRecord)
OBVIOUS

LEMMA LengthType == LinkType => Len(rows) \in Nat
BY DEF LinkType

LEMMA ClampType ==
    ASSUME ClockType, NEW tIn \in OptTimes
    PROVE  Clamp(tIn) \in Nat
BY ParserAssumption DEF ClockType, OptTimes, Clamp

LEMMA TickType ==
    ASSUME ClockType, NEW tIn \in OptTimes, NEW seqBad \in BOOLEAN,
           Tick(tIn, seqBad), tMax' = tMax
    PROVE  ClockType'
<1>1. prevT' \in Nat /\ tMin' \in Nat /\ tMax' \in Nat /\ sawT' \in BOOLEAN
  BY ClampType DEF ClockType, Tick
<1>2. seqWarned' \in BOOLEAN
  BY DEF Tick
<1> QED
  BY <1>1, <1>2 DEF ClockType

LEMMA ClockWarningsType ==
    ASSUME LinkType, NEW tIn, NEW seqBad \in BOOLEAN
    PROVE  ClockWarnings(tIn, seqBad) \in Seq(WarningRecord)
<1>1. Len(rows) + 1 \in Nat \ {0}
  BY LengthType
<1>2. "t_decrease" \in Codes /\ "seq_mismatch" \in Codes
  BY DEF Codes
<1>3. WarnIf(Backwards(tIn), "t_decrease", Len(rows) + 1) \in Seq(WarningRecord)
  BY <1>1, <1>2, WarnIfType DEF Backwards
<1>4. WarnIf(seqBad /\ ~seqWarned, "seq_mismatch", Len(rows) + 1)
          \in Seq(WarningRecord)
  BY <1>1, <1>2, WarnIfType
<1> QED
  BY <1>3, <1>4, ConcatWarnings DEF ClockWarnings

LEMMA ResolveWarningsType ==
    ASSUME LinkType, NEW kid
    PROVE  ResolveWarnings(kid) \in Seq(WarningRecord)
<1>1. Len(rows) + 1 \in Nat \ {0}
  BY LengthType
<1>2. "double_free" \in Codes /\ "unknown_id" \in Codes
  BY DEF Codes
<1>3. /\ WarnIf(death[idMap[kid]] # 0, "double_free", Len(rows) + 1)
             \in Seq(WarningRecord)
      /\ <<Warning("unknown_id", Len(rows) + 1)>> \in Seq(WarningRecord)
  BY <1>1, <1>2, WarnIfType
<1> QED
  BY <1>3 DEF ResolveWarnings

\* A record kills nothing, or an allocation that has no death yet.
LEMMA TargetType ==
    ASSUME LinkType, NEW op, NEW kid \in OptIds
    PROVE  /\ RowTarget(op, kid) \in 0..Len(rows)
           /\ RowTarget(op, kid) # 0 => /\ op \in Killers
                                       /\ kid \in Ids
                                       /\ RowTarget(op, kid) = idMap[kid]
                                       /\ death[RowTarget(op, kid)] = 0
<1>1. CASE op \in Killers /\ Known(kid) /\ death[idMap[kid]] = 0
  BY <1>1 DEF RowTarget, Target, Known, LinkType, OptIds
<1>2. CASE ~(op \in Killers /\ Known(kid) /\ death[idMap[kid]] = 0)
  BY <1>2, LengthType DEF RowTarget, Target
<1> QED
  BY <1>1, <1>2

\* The geometry of a row fits the address space.
LEMMA GeometryOfRow ==
    ASSUME NEW op, NEW sz \in 0..Top, NEW us \in 0..Top
    PROVE  /\ RowSize(op, sz) \in 0..Top
           /\ RowUsable(op, sz, us) \in 0..Top
           /\ RowSpan(op, sz, us) \in 0..Top
<1>1. RowSize(op, sz) \in 0..Top
  BY ParserAssumption DEF RowSize, Max2
<1>2. RowUsable(op, sz, us) \in 0..Top
  BY ParserAssumption DEF RowUsable
<1> QED
  BY <1>1, <1>2, ParserAssumption DEF RowSpan, Max2

LEMMA NewRowType ==
    ASSUME LinkType, ClockType, NEW op \in Ops, NEW id \in OptIds,
           NEW kid \in OptIds, NEW a \in 0..Top, NEW sz \in 0..Top,
           NEW us \in 0..Top, NEW tIn \in OptTimes
    PROVE  NewRow(op, id, kid, a, sz, us, tIn) \in Row
<1>1. RowTarget(op, kid) \in Nat
  BY TargetType, LengthType
<1> QED
  BY <1>1, ClampType, GeometryOfRow, ParserAssumption DEF NewRow, Row

\* Appending a row grows every column by one and keeps the links inside.
LEMMA LinkStepType ==
    ASSUME LinkType, NEW row \in Row, rows' = Append(rows, row),
           NEW op, NEW id \in OptIds, NEW target \in 0..Len(rows),
           Link(Len(rows) + 1, op, id, target),
           overlapIndex' \subseteq overlapIndex \cup {Len(rows) + 1}
    PROVE  LinkType'
<1>1. /\ rows' \in Seq(Row)
      /\ Len(rows') = Len(rows) + 1
      /\ Len(rows) \in Nat
  BY DEF LinkType
<1>2. death' \in [1..Len(rows') -> Nat]
  BY <1>1 DEF LinkType, Link, Killed
<1>3. idMap' \in [Ids -> 0..Len(rows')]
  BY <1>1 DEF LinkType, Link, Registered, OptIds
<1>4. live' \subseteq 1..Len(rows')
  <2>1. 1..Len(rows) \cup {Len(rows) + 1} \subseteq 1..Len(rows')
    BY <1>1
  <2>2. live' \subseteq live \cup {Len(rows) + 1}
    BY DEF Link, LiveAfter
  <2> QED
    BY <2>1, <2>2 DEF LinkType
<1>5. overlapIndex' \subseteq 1..Len(rows')
  BY <1>1 DEF LinkType
<1> QED
  BY <1>1, <1>2, <1>3, <1>4, <1>5 DEF LinkType

LEMMA AccountType ==
    ASSUME GeometryType, LinkType, NEW op, NEW target \in 0..Len(rows),
           NEW a \in 0..Top, NEW size \in 0..Top, NEW span \in 0..Top,
           Account(op, target, a, size, span),
           UNCHANGED <<arenaBase, hdrRowBytes>>
    PROVE  GeometryType'
<1> DEFINE left == Released(target)
<1>1. target # 0 => rows[target].size \in 0..Top
  <2>1. target # 0 => rows[target] \in Row
    BY LengthType DEF LinkType
  <2> QED
    BY <2>1 DEF Row
<1>2. left \in 0..Top
  BY <1>1, ParserAssumption DEF GeometryType, Released, SatSub
<1>3. (left + size) % (Top + 1) \in 0..Top
  <2>1. left + size \in Nat /\ Top + 1 \in Nat \ {0}
    BY <1>2, ParserAssumption
  <2> HIDE DEF left
  <2>2. \A m \in Nat, n \in Nat \ {0} : m % n \in 0..n-1
    OBVIOUS
  <2>3. (left + size) % (Top + 1) \in 0..(Top + 1) - 1
    BY <2>1, <2>2
  <2> QED
    BY <2>3, ParserAssumption
<1>4. curBytes' \in 0..Top
  BY <1>2, <1>3 DEF Account
<1> HIDE DEF left
<1>5. peakBytes' \in 0..Top
  BY <1>4, ParserAssumption DEF Account, GeometryType, Max2
<1>6. addrMin' \in 0..Top /\ maxSpan' \in 0..Top
  BY ParserAssumption DEF Account, GeometryType, Max2, Min2
<1> QED
  BY <1>4, <1>5, <1>6 DEF GeometryType

SnapRecord == [pos : Nat \ {0}, live : SUBSET (Nat \ {0})]

\* Thinning halves the list and keeps its even entries.
LEMMA ThinShape ==
    ASSUME NEW S, NEW s \in Seq(S)
    PROVE  /\ Thin(s) \in Seq(S)
           /\ Len(Thin(s)) = Len(s) \div 2
           /\ \A i \in 1..Len(s) \div 2 : 2 * i \in 1..Len(s) /\ Thin(s)[i] = s[2 * i]
<1>1. Len(s) \in Nat /\ Len(s) \div 2 \in Nat
  OBVIOUS
<1>2. \A i \in 1..Len(s) \div 2 : 2 * i \in 1..Len(s)
  BY <1>1
<1>3. Thin(s) \in [1..Len(s) \div 2 -> S]
  BY <1>2 DEF Thin
<1>4. Thin(s) \in Seq(S) /\ Len(Thin(s)) = Len(s) \div 2
  BY <1>1, <1>3
<1> QED
  BY <1>2, <1>4 DEF Thin

LEMMA SnapshotType ==
    ASSUME SnapType, NEW e \in Nat \ {0}, NEW nowLive \in SUBSET (Nat \ {0}),
           Snapshot(e, nowLive)
    PROVE  SnapType'
<1> DEFINE entry == [pos |-> e, live |-> nowLive]
           all == Append(snaps, entry)
<1>1. entry \in SnapRecord
  BY DEF SnapRecord
<1>2. all \in Seq(SnapRecord)
  BY <1>1 DEF SnapType, SnapRecord
<1>3. Thin(all) \in Seq(SnapRecord)
  <2> HIDE DEF all
  <2> QED
    BY <1>2, ThinShape
<1>4. snaps' \in {snaps, all, Thin(all)}
  BY DEF Snapshot
<1>5. snapInterval' \in {snapInterval, 2 * snapInterval}
  BY DEF Snapshot
<1> HIDE DEF all
<1>6. snaps' \in Seq(SnapRecord)
  BY <1>2, <1>3, <1>4 DEF SnapType, SnapRecord
<1>7. snapInterval' \in Nat \ {0}
  BY <1>5 DEF SnapType
<1> QED
  BY <1>6, <1>7 DEF SnapType, SnapRecord

-----------------------------------------------------------------------------
(***************************************************************************)
(* The warnings of an event: which of them are sure to be among them.      *)
(***************************************************************************)
Logged(ws, codes, e) == \E i \in 1..Len(ws) : ws[i].seq = e /\ ws[i].code \in codes

LEMMA LoggedConcat ==
    ASSUME NEW s \in Seq(WarningRecord), NEW t \in Seq(WarningRecord),
           NEW codes, NEW e, Logged(s, codes, e) \/ Logged(t, codes, e)
    PROVE  Logged(s \o t, codes, e)
<1>1. /\ Len(s) \in Nat /\ Len(t) \in Nat /\ Len(s \o t) = Len(s) + Len(t)
      /\ \A i \in 1..Len(s) : (s \o t)[i] = s[i]
      /\ \A i \in 1..Len(t) : (s \o t)[Len(s) + i] = t[i]
  OBVIOUS
<1>2. CASE Logged(s, codes, e)
  <2> PICK i \in 1..Len(s) : s[i].seq = e /\ s[i].code \in codes
    BY <1>2 DEF Logged
  <2>1. i \in 1..Len(s \o t) /\ (s \o t)[i] = s[i]
    BY <1>1
  <2> QED
    BY <2>1 DEF Logged
<1>3. CASE Logged(t, codes, e)
  <2> PICK i \in 1..Len(t) : t[i].seq = e /\ t[i].code \in codes
    BY <1>3 DEF Logged
  <2>1. Len(s) + i \in 1..Len(s \o t) /\ (s \o t)[Len(s) + i] = t[i]
    BY <1>1
  <2> QED
    BY <2>1 DEF Logged
<1> QED
  BY <1>2, <1>3

LEMMA LoggedAlone ==
    ASSUME NEW code, NEW e, NEW codes, code \in codes
    PROVE  Logged(<<Warning(code, e)>>, codes, e)
<1>1. Len(<<Warning(code, e)>>) = 1 /\ <<Warning(code, e)>>[1] = Warning(code, e)
  OBVIOUS
<1> QED
  BY <1>1 DEF Logged, Warning

\* A kill that resolves to nothing, and an id that is taken, are warned about.
LEMMA EventWarnings ==
    ASSUME LinkType, NEW op, NEW id, NEW kid \in OptIds, NEW a, NEW sz, NEW us,
           NEW tIn, NEW seqBad \in BOOLEAN,
           EventRow(op, id, kid, a, sz, us, tIn, seqBad)
    PROVE  \E ws \in Seq(WarningRecord) :
               /\ Warn(ws)
               /\ op \in Killers /\ RowTarget(op, kid) = 0 =>
                     Logged(ws, {"unknown_id", "double_free"}, Len(rows) + 1)
               /\ Duplicate(op, id, kid) => Logged(ws, {"dup_id"}, Len(rows) + 1)
<1> DEFINE e == Len(rows) + 1
           clocked == ClockWarnings(tIn, seqBad)
           resolved == IF op \in Killers THEN ResolveWarnings(kid) ELSE <<>>
           small == WarnIf(op \in Creators /\ sz = 0, "bad_size", e)
           dup == WarnIf(Duplicate(op, id, kid), "dup_id", e)
           over == WarnIf(Overlapping(op, kid, a, sz, us), "overlap", e)
           lost == op \in Killers /\ RowTarget(op, kid) = 0
<1>0. e \in Nat \ {0}
  BY LengthType
<1>1. clocked \in Seq(WarningRecord)
  BY ClockWarningsType
<1>2. resolved \in Seq(WarningRecord)
  BY ResolveWarningsType
<1>3. small \in Seq(WarningRecord)
  BY <1>0, WarnIfType DEF Codes
<1>4. dup \in Seq(WarningRecord)
  BY <1>0, WarnIfType DEF Codes, Duplicate
<1>5. over \in Seq(WarningRecord)
  BY <1>0, WarnIfType DEF Codes, Overlapping
<1>6. Warn(clocked \o resolved \o small \o dup \o over)
  BY DEF EventRow
<1>7. lost => Logged(resolved, {"unknown_id", "double_free"}, e)
  <2> SUFFICES ASSUME lost PROVE Logged(resolved, {"unknown_id", "double_free"}, e)
    OBVIOUS
  <2>1. Known(kid) => death[idMap[kid]] # 0
    BY DEF RowTarget, Target, Known, LinkType, OptIds
  <2>2. resolved = <<Warning("double_free", e)>> \/ resolved = <<Warning("unknown_id", e)>>
    BY <2>1 DEF ResolveWarnings, WarnIf
  <2> QED
    BY <2>2, LoggedAlone
<1>8. Duplicate(op, id, kid) => Logged(dup, {"dup_id"}, e)
  BY LoggedAlone DEF WarnIf
<1> HIDE DEF clocked, resolved, small, dup, over, lost, e
<1> DEFINE one == clocked \o resolved
           two == one \o small
           three == two \o dup
<1>9. one \in Seq(WarningRecord) /\ (lost => Logged(one, {"unknown_id", "double_free"}, e))
  BY <1>1, <1>2, <1>7, ConcatWarnings, LoggedConcat
<1> HIDE DEF one
<1>10. two \in Seq(WarningRecord) /\ (lost => Logged(two, {"unknown_id", "double_free"}, e))
  BY <1>3, <1>9, ConcatWarnings, LoggedConcat
<1> HIDE DEF two
<1>11. /\ three \in Seq(WarningRecord)
       /\ lost => Logged(three, {"unknown_id", "double_free"}, e)
       /\ Duplicate(op, id, kid) => Logged(three, {"dup_id"}, e)
  BY <1>4, <1>8, <1>10, ConcatWarnings, LoggedConcat
<1> HIDE DEF three
<1>12. /\ three \o over \in Seq(WarningRecord)
       /\ lost => Logged(three \o over, {"unknown_id", "double_free"}, e)
       /\ Duplicate(op, id, kid) => Logged(three \o over, {"dup_id"}, e)
  BY <1>5, <1>11, ConcatWarnings, LoggedConcat
<1>13. Warn(three \o over)
  BY <1>6 DEF one, two, three
<1> QED
  BY <1>12, <1>13 DEF lost, e

-----------------------------------------------------------------------------
(***************************************************************************)
(* Every record that becomes an event keeps the types.                     *)
(***************************************************************************)
LEMMA EventRowType ==
    ASSUME TypeOK, NEW op \in Ops, NEW id \in OptIds, NEW kid \in OptIds,
           NEW a \in 0..Top, NEW sz \in 0..Top, NEW us \in 0..Top,
           NEW tIn \in OptTimes, NEW seqBad \in BOOLEAN,
           EventRow(op, id, kid, a, sz, us, tIn, seqBad)
    PROVE  TypeOK'
<1> DEFINE e == Len(rows) + 1
           target == RowTarget(op, kid)
<1>0. LinkType /\ ClockType /\ GeometryType /\ WarningType /\ SnapType
  BY DEF TypeOK
<1>1. e \in Nat \ {0}
  BY <1>0, LengthType
<1>2. target \in 0..Len(rows)
  BY <1>0, TargetType
<1>3. ClockType'
  BY <1>0, TickType DEF EventRow
<1>4. LinkType'
  <2>1. NewRow(op, id, kid, a, sz, us, tIn) \in Row
    BY <1>0, NewRowType
  <2>2. rows' = Append(rows, NewRow(op, id, kid, a, sz, us, tIn))
    BY DEF EventRow
  <2>3. Link(Len(rows) + 1, op, id, target)
    BY DEF EventRow
  <2>4. overlapIndex' \subseteq overlapIndex \cup {Len(rows) + 1}
    BY DEF EventRow
  <2> QED
    BY <1>0, <1>2, <2>1, <2>2, <2>3, <2>4, LinkStepType
<1>5. GeometryType'
  <2>1. RowSize(op, sz) \in 0..Top /\ RowSpan(op, sz, us) \in 0..Top
    BY GeometryOfRow
  <2>2. Account(op, target, a, RowSize(op, sz), RowSpan(op, sz, us))
    BY DEF EventRow
  <2>3. UNCHANGED <<arenaBase, hdrRowBytes>>
    BY DEF EventRow
  <2> QED
    BY <1>0, <1>2, <2>1, <2>2, <2>3, AccountType
<1>6. WarningType'
  BY <1>0, EventWarnings, WarnType
<1>7. SnapType'
  <2>1. live' \in SUBSET (Nat \ {0})
    BY <1>4 DEF LinkType
  <2>2. Snapshot(e, live')
    BY DEF EventRow
  <2> QED
    BY <1>0, <1>1, <2>1, <2>2, SnapshotType
<1>8. phase' \in {"loading", "ready"}
  BY DEF EventRow, TypeOK
<1> QED
  BY <1>3, <1>4, <1>5, <1>6, <1>7, <1>8 DEF TypeOK

\* The values of the record's fields that the actions quantify over.
LEMMA RecordFields ==
    /\ \A x \in Addrs : x \in 0..Top
    /\ \A x \in Sizes : x \in 0..Top
    /\ \A x \in Usables : x \in 0..Top
    /\ \A x \in SeqFaults : x \in BOOLEAN
    /\ 0 \in 0..Top
<1>1. 0 \in 0..Top
  BY ParserAssumption
<1>2. Addrs \subseteq 0..Top /\ Sizes \subseteq 0..Top /\ Usables \subseteq 0..Top
  BY ParserAssumption
<1>3. SeqFaults \subseteq BOOLEAN
  BY ParserAssumption
<1> QED
  BY <1>1, <1>2, <1>3

\* PreviousEvent is always a number an event can have.
LEMMA PreviousEventType == LinkType => PreviousEvent \in Nat \ {0}
BY LengthType DEF PreviousEvent, Max2

LEMMA DroppedRecordType ==
    ASSUME TypeOK, NEW tIn \in OptTimes, NEW seqBad \in BOOLEAN,
           DroppedRecord(tIn, seqBad)
    PROVE  TypeOK'
<1>0. LinkType /\ ClockType /\ GeometryType /\ WarningType /\ SnapType
  BY DEF TypeOK
<1>1. ClockType'
  BY <1>0, TickType DEF DroppedRecord
<1>2. WarningType'
  BY <1>0, ClockWarningsType, WarnType DEF DroppedRecord
<1>3. /\ phase' \in {"loading", "ready"}
      /\ LinkType' /\ GeometryType' /\ SnapType'
  BY DEF DroppedRecord, TypeOK, LinkType, GeometryType, SnapType, geometry
<1> QED
  BY <1>1, <1>2, <1>3 DEF TypeOK

LEMMA AddresslessWarnings ==
    ASSUME TypeOK, NEW op, NEW oldId, NEW tIn, NEW seqBad \in BOOLEAN,
           AddresslessCreator(op, oldId, tIn, seqBad)
    PROVE  \E ws \in Seq(WarningRecord) : Warn(ws)
<1> DEFINE clocked == ClockWarnings(tIn, seqBad)
           resolved == IF op = "R" THEN ResolveWarnings(oldId) ELSE <<>>
           dropped == <<Warning("malformed", PreviousEvent)>>
<1>1. clocked \in Seq(WarningRecord)
  BY ClockWarningsType DEF TypeOK
<1>2. resolved \in Seq(WarningRecord)
  BY ResolveWarningsType DEF TypeOK
<1>3. dropped \in Seq(WarningRecord)
  BY PreviousEventType, WarnIfType DEF Codes, TypeOK
<1>4. Warn(clocked \o resolved \o dropped)
  BY DEF AddresslessCreator
<1> HIDE DEF clocked, resolved, dropped
<1>5. clocked \o resolved \o dropped \in Seq(WarningRecord)
  BY <1>1, <1>2, <1>3, ConcatWarnings
<1> QED
  BY <1>4, <1>5

LEMMA AddresslessCreatorType ==
    ASSUME TypeOK, NEW op, NEW oldId, NEW tIn \in OptTimes, NEW seqBad \in BOOLEAN,
           AddresslessCreator(op, oldId, tIn, seqBad)
    PROVE  TypeOK'
<1>0. LinkType /\ ClockType /\ GeometryType /\ WarningType /\ SnapType
  BY DEF TypeOK
<1>1. ClockType'
  BY <1>0, TickType DEF AddresslessCreator
<1>2. WarningType'
  BY <1>0, AddresslessWarnings, WarnType
<1>3. /\ phase' \in {"loading", "ready"}
      /\ LinkType' /\ GeometryType' /\ SnapType'
  BY DEF AddresslessCreator, TypeOK, LinkType, GeometryType, SnapType, geometry
<1> QED
  BY <1>1, <1>2, <1>3 DEF TypeOK

LEMMA MalformedLineType == TypeOK /\ MalformedLine => TypeOK'
<1> SUFFICES ASSUME TypeOK, MalformedLine PROVE TypeOK'
  OBVIOUS
<1>1. WarningType'
  <2>1. <<Warning("malformed", PreviousEvent)>> \in Seq(WarningRecord)
    BY PreviousEventType, WarnIfType DEF Codes, TypeOK
  <2> QED
    BY <2>1, WarnType DEF MalformedLine, TypeOK
<1>2. /\ phase' \in {"loading", "ready"}
      /\ LinkType' /\ GeometryType' /\ SnapType'
  BY DEF MalformedLine, TypeOK, LinkType, GeometryType, SnapType, geometry
<1>3. ClockType'
  BY DEF MalformedLine, TypeOK, ClockType, clock
<1> QED
  BY <1>1, <1>2, <1>3 DEF TypeOK

LEMMA HeaderType ==
    ASSUME TypeOK, NEW from \in Addrs \cup {Absent},
           NEW width \in HdrWidths \cup {Absent}, NEW known \in BOOLEAN,
           Header(from, width, known)
    PROVE  TypeOK'
<1>1. WarningType'
  <2>1. WarnIf(~known, "version", PreviousEvent) \in Seq(WarningRecord)
    BY PreviousEventType, WarnIfType DEF Codes, TypeOK
  <2> QED
    BY <2>1, WarnType DEF Header, TypeOK
<1>2. arenaBase' \in 0..Top /\ hdrRowBytes' \in Nat
  BY ParserAssumption DEF Header, TypeOK, GeometryType
<1>3. GeometryType'
  BY <1>2 DEF Header, TypeOK, GeometryType
<1>4. phase' \in {"loading", "ready"} /\ LinkType' /\ SnapType'
  BY DEF Header, TypeOK, LinkType, SnapType
<1>5. ClockType'
  BY DEF Header, TypeOK, ClockType, clock
<1> QED
  BY <1>1, <1>3, <1>4, <1>5 DEF TypeOK

LEMMA FinishType == TypeOK /\ Finish => TypeOK'
<1> SUFFICES ASSUME TypeOK, Finish PROVE TypeOK'
  OBVIOUS
<1>1. LinkType'
  BY LengthType DEF Finish, TypeOK, LinkType
<1>2. ClockType'
  BY DEF Finish, TypeOK, ClockType
<1>3. GeometryType'
  BY DEF Finish, TypeOK, GeometryType
<1>4. WarningType' /\ SnapType' /\ phase' \in {"loading", "ready"}
  BY DEF Finish, TypeOK, WarningType, SnapType
<1> QED
  BY <1>1, <1>2, <1>3, <1>4 DEF TypeOK

LEMMA StutterType == TypeOK /\ UNCHANGED parserVars => TypeOK'
BY DEF TypeOK, parserVars, store, LinkType, ClockType, GeometryType,
       WarningType, SnapType

(***************************************************************************)
(* The next-state relation, action by action: what a proof about a step    *)
(* of the parser has to look at.                                           *)
(***************************************************************************)
LEMMA StepCases ==
    ASSUME Next
    PROVE  \/ \E op \in Ops, id, kid \in OptIds, a, sz, us \in 0..Top,
                 tIn \in OptTimes, seqBad \in BOOLEAN :
                  Loading /\ EventRow(op, id, kid, a, sz, us, tIn, seqBad)
           \/ \E tIn \in OptTimes, seqBad \in BOOLEAN :
                  DroppedRecord(tIn, seqBad)
           \/ \E op \in Creators, oldId \in OptIds, tIn \in OptTimes,
                 seqBad \in BOOLEAN : AddresslessCreator(op, oldId, tIn, seqBad)
           \/ MalformedLine
           \/ \E from \in Addrs \cup {Absent}, width \in HdrWidths \cup {Absent},
                 known \in BOOLEAN : Header(from, width, known)
           \/ Finish
<1> DEFINE Event == \E op \in Ops, id, kid \in OptIds, a, sz, us \in 0..Top,
                      tIn \in OptTimes, seqBad \in BOOLEAN :
                       Loading /\ EventRow(op, id, kid, a, sz, us, tIn, seqBad)
           Dropped == \E tIn \in OptTimes, seqBad \in BOOLEAN :
                       DroppedRecord(tIn, seqBad)
           NoAddress == \E op \in Creators, oldId \in OptIds, tIn \in OptTimes,
                        seqBad \in BOOLEAN :
                       AddresslessCreator(op, oldId, tIn, seqBad)
<1>0. "M" \in Ops /\ "R" \in Ops /\ "F" \in Ops /\ "E" \in Ops /\ Absent \in OptIds
  BY DEF Ops, OptIds
<1>1. ASSUME ParseRecord PROVE Event \/ Dropped \/ NoAddress
  <2> PICK tIn \in OptTimes, seqBad \in SeqFaults :
        \/ \E id \in OptIds, a \in Addrs, sz \in Sizes, us \in Usables :
               \/ Malloc(id, a, sz, us, tIn, seqBad)
               \/ \E oldId \in OptIds : Realloc(id, oldId, a, sz, us, tIn, seqBad)
        \/ \E id \in OptIds : Free(id, tIn, seqBad)
        \/ Custom(tIn, seqBad)
        \/ DroppedRecord(tIn, seqBad)
        \/ \E op \in Creators, oldId \in OptIds :
               AddresslessCreator(op, oldId, tIn, seqBad)
    BY <1>1 DEF ParseRecord
  <2>0. seqBad \in BOOLEAN
    BY RecordFields
  <2>1. ASSUME NEW id \in OptIds, NEW a \in Addrs, NEW sz \in Sizes,
               NEW us \in Usables, Malloc(id, a, sz, us, tIn, seqBad)
        PROVE  Event
    BY <1>0, <2>0, <2>1, RecordFields DEF Malloc
  <2>2. ASSUME NEW id \in OptIds, NEW a \in Addrs, NEW sz \in Sizes,
               NEW us \in Usables, NEW oldId \in OptIds,
               Realloc(id, oldId, a, sz, us, tIn, seqBad)
        PROVE  Event
    BY <1>0, <2>0, <2>2, RecordFields DEF Realloc
  <2>3. ASSUME NEW id \in OptIds, Free(id, tIn, seqBad) PROVE Event
    BY <1>0, <2>0, <2>3, RecordFields DEF Free
  <2>4. ASSUME Custom(tIn, seqBad) PROVE Event
    BY <1>0, <2>0, <2>4, RecordFields DEF Custom
  <2>5. ASSUME DroppedRecord(tIn, seqBad) PROVE Dropped
    BY <2>0, <2>5
  <2>6. ASSUME NEW op \in Creators, NEW oldId \in OptIds,
               AddresslessCreator(op, oldId, tIn, seqBad)
        PROVE  NoAddress
    BY <2>0, <2>6
  <2> HIDE DEF Event, Dropped, NoAddress
  <2> QED
    BY <2>1, <2>2, <2>3, <2>4, <2>5, <2>6
<1> HIDE DEF Event, Dropped, NoAddress
<1>2. Next <=> \/ ParseRecord \/ MalformedLine \/ Finish
               \/ \E from \in Addrs \cup {Absent}, width \in HdrWidths \cup {Absent},
                    known \in BOOLEAN : Header(from, width, known)
  BY DEF Next, ParseLine
<1>3. \/ Event \/ Dropped \/ NoAddress \/ MalformedLine \/ Finish
      \/ \E from \in Addrs \cup {Absent}, width \in HdrWidths \cup {Absent},
           known \in BOOLEAN : Header(from, width, known)
  BY <1>1, <1>2
<1> QED
  BY <1>3 DEF Event, Dropped, NoAddress

(***************************************************************************)
(* For a proof about the events alone, a step adds one or it leaves them   *)
(* and what goes with them, warns at most, and may end the loading.        *)
(***************************************************************************)
NewEvent == \E op \in Ops, id, kid \in OptIds, a, sz, us \in 0..Top,
           tIn \in OptTimes, seqBad \in BOOLEAN :
            Loading /\ EventRow(op, id, kid, a, sz, us, tIn, seqBad)

NoRow ==
    /\ UNCHANGED <<rows, death, snaps, snapInterval, overlapIndex, maxSpan,
                   curBytes, peakBytes>>
    /\ \/ UNCHANGED <<phase, idMap, live, addrMin>>
       \/ Finish
    /\ \/ UNCHANGED <<warnings, warnCount>>
       \/ \E ws \in Seq(WarningRecord) : Warn(ws)

LEMMA RowOrNot ==
    ASSUME TypeOK, [Next]_parserVars
    PROVE  NewEvent \/ NoRow
<1>1. ASSUME NEW tIn \in OptTimes, NEW seqBad \in BOOLEAN, DroppedRecord(tIn, seqBad)
      PROVE  NoRow
  BY <1>1, ClockWarningsType DEF DroppedRecord, NoRow, TypeOK, geometry
<1>2. ASSUME NEW op, NEW oldId, NEW tIn \in OptTimes, NEW seqBad \in BOOLEAN,
             AddresslessCreator(op, oldId, tIn, seqBad)
      PROVE  NoRow
  BY <1>2, AddresslessWarnings DEF AddresslessCreator, NoRow, geometry
<1>3. CASE MalformedLine
  <2>1. <<Warning("malformed", PreviousEvent)>> \in Seq(WarningRecord)
    BY PreviousEventType, WarnIfType DEF Codes, TypeOK
  <2> QED
    BY <1>3, <2>1 DEF MalformedLine, NoRow, geometry
<1>4. ASSUME NEW from \in Addrs \cup {Absent}, NEW width \in HdrWidths \cup {Absent},
             NEW known \in BOOLEAN, Header(from, width, known)
      PROVE  NoRow
  <2>1. WarnIf(~known, "version", PreviousEvent) \in Seq(WarningRecord)
    BY PreviousEventType, WarnIfType DEF Codes, TypeOK
  <2> QED
    BY <1>4, <2>1 DEF Header, NoRow
<1>5. CASE Finish
  BY <1>5 DEF Finish, NoRow
<1>6. CASE UNCHANGED parserVars
  BY <1>6 DEF parserVars, store, NoRow
<1> QED
  BY <1>1, <1>2, <1>3, <1>4, <1>5, <1>6, StepCases DEF NewEvent

\* Every variable of the parser and of the store keeps its type, whatever
\* the trace holds: no record, however malformed, derails the parser
\* (Parser::line, Parser::apply, Parser::finish).
THEOREM TypeCorrect == ParserSpec => []TypeOK
<1>1. Init => TypeOK
  BY InitType
<1>2. TypeOK /\ [Next]_parserVars => TypeOK'
  <2> SUFFICES ASSUME TypeOK, [Next]_parserVars PROVE TypeOK'
    OBVIOUS
  <2>1. ASSUME NEW op \in Ops, NEW id \in OptIds, NEW kid \in OptIds,
               NEW a \in 0..Top, NEW sz \in 0..Top, NEW us \in 0..Top,
               NEW tIn \in OptTimes, NEW seqBad \in BOOLEAN,
               EventRow(op, id, kid, a, sz, us, tIn, seqBad)
        PROVE  TypeOK'
    BY <2>1, EventRowType
  <2>2. ASSUME NEW tIn \in OptTimes, NEW seqBad \in BOOLEAN,
               DroppedRecord(tIn, seqBad)
        PROVE  TypeOK'
    BY <2>2, DroppedRecordType
  <2>3. ASSUME NEW op, NEW oldId, NEW tIn \in OptTimes,
               NEW seqBad \in BOOLEAN, AddresslessCreator(op, oldId, tIn, seqBad)
        PROVE  TypeOK'
    BY <2>3, AddresslessCreatorType
  <2>4. CASE MalformedLine
    BY <2>4, MalformedLineType
  <2>5. ASSUME NEW from \in Addrs \cup {Absent},
               NEW width \in HdrWidths \cup {Absent}, NEW known \in BOOLEAN,
               Header(from, width, known)
        PROVE  TypeOK'
    BY <2>5, HeaderType
  <2>6. CASE Finish
    BY <2>6, FinishType
  <2>7. CASE UNCHANGED parserVars
    BY <2>7, StutterType
  <2> QED
    BY <2>1, <2>2, <2>3, <2>4, <2>5, <2>6, <2>7, StepCases
<1> QED
  BY <1>1, <1>2, PTL DEF ParserSpec

-----------------------------------------------------------------------------
(***************************************************************************)
(* The clock.  TimeSorted is not inductive: that the next row comes after  *)
(* the last one takes the clock, which no row may be ahead of.             *)
(***************************************************************************)
TimeInv ==
    /\ rows # <<>> => sawT
    /\ sawT => tMin <= prevT
    /\ \A e \in 1..Len(rows) :
           /\ tMin <= rows[e].t /\ rows[e].t <= prevT
           /\ e > 1 => rows[e-1].t <= rows[e].t
    /\ phase = "ready" /\ rows # <<>> => tMax = prevT

LEMMA RowTimes ==
    ASSUME TypeOK
    PROVE  /\ Len(rows) \in Nat
           /\ rows = <<>> <=> Len(rows) = 0
           /\ \A e \in 1..Len(rows) : rows[e].t \in Nat
<1>1. rows \in Seq(Row)
  BY DEF TypeOK, LinkType
<1>2. \A e \in 1..Len(rows) : rows[e] \in Row
  BY <1>1
<1> QED
  BY <1>1, <1>2 DEF Row

\* The clock never runs backwards once it runs.
LEMMA ClampBounds ==
    ASSUME ClockType, NEW tIn \in OptTimes
    PROVE  sawT => prevT <= Clamp(tIn)
BY ParserAssumption DEF ClockType, OptTimes, Clamp, Backwards

\* A record without a row moves the clock at most.
LEMMA RowlessTime ==
    ASSUME TypeOK, TimeInv, NEW tIn \in OptTimes, NEW seqBad,
           Tick(tIn, seqBad), UNCHANGED <<rows, phase, tMax>>, phase = "loading"
    PROVE  TimeInv'
<1>1. /\ prevT \in Nat /\ tMin \in Nat /\ sawT \in BOOLEAN
      /\ Clamp(tIn) \in Nat /\ (sawT => prevT <= Clamp(tIn))
  BY ClampType, ClampBounds DEF TypeOK, ClockType
<1>2. \A e \in 1..Len(rows) : rows[e].t \in Nat
  BY RowTimes
<1>3. CASE rows = <<>>
  BY <1>1, <1>3 DEF TimeInv, Tick
<1>4. CASE rows # <<>>
  <2>1. sawT /\ tMin' = tMin /\ prevT' = Clamp(tIn) /\ sawT'
    BY <1>4 DEF TimeInv, Tick
  <2> QED
    BY <1>1, <1>2, <1>4, <2>1 DEF TimeInv
<1> QED
  BY <1>3, <1>4

\* A new row carries the clock's new time.
LEMMA EventTime ==
    ASSUME TypeOK, TimeInv, Loading, NEW op \in Ops, NEW id \in OptIds,
           NEW kid \in OptIds, NEW a, NEW sz, NEW us,
           NEW tIn \in OptTimes, NEW seqBad,
           EventRow(op, id, kid, a, sz, us, tIn, seqBad)
    PROVE  TimeInv'
<1> DEFINE n == Len(rows)
           row == NewRow(op, id, kid, a, sz, us, tIn)
<1>1. /\ prevT \in Nat /\ tMin \in Nat /\ sawT \in BOOLEAN
      /\ Clamp(tIn) \in Nat /\ (sawT => prevT <= Clamp(tIn))
  BY ClampType, ClampBounds DEF TypeOK, ClockType
<1>2. n \in Nat /\ (rows = <<>> <=> n = 0) /\ \A e \in 1..n : rows[e].t \in Nat
  BY RowTimes
<1>3. /\ Len(rows') = n + 1
      /\ \A e \in 1..n : rows'[e] = rows[e]
      /\ rows'[n+1] = row
  <2>1. rows \in Seq(Row) /\ rows' = Append(rows, row)
    BY DEF TypeOK, LinkType, EventRow
  <2> HIDE DEF row
  <2> QED
    BY <2>1
<1>4. row.t = Clamp(tIn)
  BY DEF NewRow
<1>5. /\ prevT' = Clamp(tIn) /\ sawT'
      /\ tMin' = IF sawT THEN tMin ELSE Clamp(tIn)
  BY DEF EventRow, Tick
<1>6. phase' = "loading"
  BY DEF Loading, EventRow
<1>7. /\ n > 0 => sawT
      /\ sawT => tMin <= prevT
      /\ \A e \in 1..n : /\ tMin <= rows[e].t /\ rows[e].t <= prevT
                         /\ e > 1 => rows[e-1].t <= rows[e].t
  BY <1>2 DEF TimeInv
<1> HIDE DEF n, row
<1>8. tMin' <= prevT'
  BY <1>1, <1>2, <1>5, <1>7
<1>9. ASSUME NEW e \in 1..n+1
      PROVE  /\ tMin' <= rows'[e].t /\ rows'[e].t <= prevT'
             /\ e > 1 => rows'[e-1].t <= rows'[e].t
  <2>1. CASE e = n + 1
    <3>1. rows'[e].t = Clamp(tIn)
      BY <1>3, <1>4, <2>1
    <3>2. e > 1 => /\ e - 1 \in 1..n /\ rows'[e-1] = rows[e-1] /\ rows[e-1].t \in Nat
                   /\ rows[e-1].t <= prevT /\ sawT
      BY <1>2, <1>3, <1>7, <2>1
    <3> QED
      BY <1>1, <1>5, <1>8, <3>1, <3>2
  <2>2. CASE e \in 1..n
    <3>1. rows'[e] = rows[e] /\ sawT /\ tMin' = tMin /\ prevT <= prevT'
      BY <1>1, <1>2, <1>3, <1>5, <1>7, <2>2
    <3>2. e > 1 => e - 1 \in 1..n /\ rows'[e-1] = rows[e-1]
      BY <1>2, <1>3, <2>2
    <3> QED
      BY <1>1, <1>2, <1>5, <1>7, <2>2, <3>1, <3>2
  <2> QED
    BY <1>2, <2>1, <2>2
<1> QED
  BY <1>3, <1>5, <1>6, <1>8, <1>9 DEF TimeInv

\* The t column is sorted and inside [tMin, tMax], whatever times the records
\* carry (the clock of Parser::apply, Parser::finish; the binary searches by
\* time rely on it).
THEOREM TimeCorrect == ParserSpec => []TimeSorted
<1>1. Init => TimeInv
  BY DEF Init, TimeInv
<1>2. TypeOK /\ TimeInv /\ [Next]_parserVars => TimeInv'
  <2> SUFFICES ASSUME TypeOK, TimeInv, [Next]_parserVars PROVE TimeInv'
    OBVIOUS
  <2>1. ASSUME NEW op \in Ops, NEW id \in OptIds, NEW kid \in OptIds,
               NEW a \in 0..Top, NEW sz \in 0..Top, NEW us \in 0..Top,
               NEW tIn \in OptTimes, NEW seqBad \in BOOLEAN,
               Loading, EventRow(op, id, kid, a, sz, us, tIn, seqBad)
        PROVE  TimeInv'
    BY <2>1, EventTime
  <2>2. ASSUME NEW tIn \in OptTimes, NEW seqBad \in BOOLEAN,
               DroppedRecord(tIn, seqBad)
        PROVE  TimeInv'
    BY <2>2, RowlessTime DEF DroppedRecord, Rowless
  <2>3. ASSUME NEW op, NEW oldId, NEW tIn \in OptTimes,
               NEW seqBad \in BOOLEAN, AddresslessCreator(op, oldId, tIn, seqBad)
        PROVE  TimeInv'
    BY <2>3, RowlessTime DEF AddresslessCreator, Rowless
  <2>4. CASE MalformedLine
    BY <2>4 DEF MalformedLine, TimeInv, clock
  <2>5. ASSUME NEW from \in Addrs \cup {Absent},
               NEW width \in HdrWidths \cup {Absent}, NEW known \in BOOLEAN,
               Header(from, width, known)
        PROVE  TimeInv'
    BY <2>5 DEF Header, TimeInv, clock
  <2>6. CASE Finish
    BY <2>6 DEF Finish, TimeInv, TypeOK, ClockType
  <2>7. CASE UNCHANGED parserVars
    BY <2>7 DEF parserVars, store, TimeInv
  <2> QED
    BY <2>1, <2>2, <2>3, <2>4, <2>5, <2>6, <2>7, StepCases
<1>3. TypeOK /\ TimeInv => TimeSorted
  <2> SUFFICES ASSUME TypeOK, TimeInv PROVE TimeSorted
    OBVIOUS
  <2>1. \A e \in 1..Len(rows) : rows[e].t \in Nat /\ rows # <<>>
    BY RowTimes
  <2>2. prevT \in Nat /\ tMin \in Nat
    BY DEF TypeOK, ClockType
  <2> QED
    BY <2>1, <2>2 DEF TimeInv, TimeSorted
<1> QED
  BY <1>1, <1>2, <1>3, TypeCorrect, PTL DEF ParserSpec

-----------------------------------------------------------------------------
(***************************************************************************)
(* The links, the live map and the snapshots the parser builds in one pass *)
(* agree with each other.                                                  *)
(***************************************************************************)

\* What the id map holds while a trace is loading is a creator of that id.
IdMapSound ==
    phase = "loading" =>
        \A i \in Ids : idMap[i] # 0 => /\ idMap[i] \in CreatorEvents
                                       /\ rows[idMap[i]].id = i

(***************************************************************************)
(* The inductive invariant.  LinksInverse alone is not inductive: that a   *)
(* new kill does not disturb an older link needs the id map to hold        *)
(* creators.  SnapshotsExact needs LiveMapExact when a snapshot is taken   *)
(* and LinksInverse ever after.                                            *)
(***************************************************************************)
LiveInv ==
    /\ TypeOK
    /\ IdMapSound
    /\ LinksInverse
    /\ LiveMapExact
    /\ SnapshotsExact

LEMMA RowsType ==
    ASSUME TypeOK
    PROVE  /\ Len(rows) \in Nat
           /\ \A x \in 1..Len(rows) : rows[x] \in Row /\ death[x] \in Nat
           /\ CreatorEvents \subseteq 1..Len(rows)
BY DEF TypeOK, LinkType, CreatorEvents

LEMMA InitLive == Init => LiveInv
<1> SUFFICES ASSUME Init PROVE LiveInv
  OBVIOUS
<1>1. Len(rows) = 0 /\ Len(snaps) = 0 /\ live = {}
  BY DEF Init
<1>2. IdMapSound
  BY DEF Init, IdMapSound
<1>3. LinksInverse /\ SnapshotsExact
  BY <1>1 DEF LinksInverse, SnapshotsExact
<1>4. LiveMapExact
  BY <1>1 DEF LiveMapExact, LiveAt
<1> QED
  BY <1>2, <1>3, <1>4, InitType DEF LiveInv

(***************************************************************************)
(* A record without a row touches none of what the invariant is about.     *)
(***************************************************************************)
LEMMA RowlessLive ==
    ASSUME LiveInv, TypeOK',
           UNCHANGED <<rows, death, snaps>>,
           \/ UNCHANGED <<phase, idMap, live>>
           \/ phase' # "loading"
    PROVE  LiveInv'
<1>1. IdMapSound'
  BY DEF LiveInv, IdMapSound, CreatorEvents
<1>2. LinksInverse'
  BY DEF LiveInv, LinksInverse, CreatorEvents
<1>3. LiveMapExact'
  BY DEF LiveInv, LiveMapExact, LiveAt
<1>4. SnapshotsExact'
  BY DEF LiveInv, SnapshotsExact, LiveAt
<1> QED
  BY <1>1, <1>2, <1>3, <1>4 DEF LiveInv

(***************************************************************************)
(* What a new row does to the columns: old rows stay, and the only old     *)
(* death that changes is that of the target, from none to the new event.   *)
(***************************************************************************)
LEMMA EventColumns ==
    ASSUME LiveInv, Loading, NEW op \in Ops, NEW id \in OptIds, NEW kid \in OptIds,
           NEW a, NEW sz, NEW us, NEW tIn, NEW seqBad,
           EventRow(op, id, kid, a, sz, us, tIn, seqBad)
    PROVE  /\ Len(rows) \in Nat
           /\ Len(rows') = Len(rows) + 1
           /\ \A x \in 1..Len(rows) : rows'[x] = rows[x]
           /\ rows'[Len(rows) + 1].op = op
           /\ rows'[Len(rows) + 1].id = id
           /\ rows'[Len(rows) + 1].kid = kid
           /\ rows'[Len(rows) + 1].target = RowTarget(op, kid)
           /\ death'[Len(rows) + 1] = 0
           /\ RowTarget(op, kid) # 0 =>
                 /\ op \in Killers
                 /\ RowTarget(op, kid) \in CreatorEvents
                 /\ death[RowTarget(op, kid)] = 0
           /\ \A x \in 1..Len(rows) :
                 death'[x] = IF x = RowTarget(op, kid) THEN Len(rows) + 1
                             ELSE death[x]
           /\ phase = "loading"
<1>0. LinkType /\ IdMapSound /\ phase = "loading"
  BY DEF LiveInv, TypeOK, Loading
<1>1. Len(rows) \in Nat
  BY <1>0, LengthType
<1>2. rows' = Append(rows, NewRow(op, id, kid, a, sz, us, tIn))
  BY DEF EventRow
<1>3. /\ Len(rows') = Len(rows) + 1
      /\ \A x \in 1..Len(rows) : rows'[x] = rows[x]
      /\ rows'[Len(rows) + 1] = NewRow(op, id, kid, a, sz, us, tIn)
  BY <1>0, <1>2 DEF LinkType
<1>4. Link(Len(rows) + 1, op, id, RowTarget(op, kid))
  BY DEF EventRow
<1>5. /\ death'[Len(rows) + 1] = 0
      /\ \A x \in 1..Len(rows) :
            death'[x] = IF x = RowTarget(op, kid) THEN Len(rows) + 1 ELSE death[x]
  BY <1>1, <1>4 DEF Link, Killed
<1>6. RowTarget(op, kid) # 0 => RowTarget(op, kid) \in CreatorEvents
  BY <1>0, TargetType DEF IdMapSound
<1> QED
  BY <1>0, <1>1, <1>3, <1>5, <1>6, TargetType DEF NewRow

\* A new row leaves the live sets of the past alone.
LEMMA PastLiveSets ==
    ASSUME LiveInv, Loading, NEW op \in Ops, NEW id \in OptIds, NEW kid \in OptIds,
           NEW a, NEW sz, NEW us, NEW tIn, NEW seqBad,
           EventRow(op, id, kid, a, sz, us, tIn, seqBad),
           NEW p \in 0..Len(rows)
    PROVE  LiveAt(p)' = LiveAt(p)
<1>1. \A x \in 1..p : /\ x \in 1..Len(rows)
                      /\ rows'[x] = rows[x]
                      /\ death[x] \in Nat
                      /\ \/ death'[x] = death[x]
                         \/ death[x] = 0 /\ death'[x] = Len(rows) + 1
  BY EventColumns, RowsType DEF LiveInv
<1>2. Len(rows) + 1 > p
  BY EventColumns
<1> QED
  BY <1>1, <1>2 DEF LiveAt

LEMMA LinksStep ==
    ASSUME LiveInv, Loading, NEW op \in Ops, NEW id \in OptIds, NEW kid \in OptIds,
           NEW a, NEW sz, NEW us, NEW tIn, NEW seqBad,
           EventRow(op, id, kid, a, sz, us, tIn, seqBad)
    PROVE  LinksInverse'
<1> DEFINE n == Len(rows)
           t == RowTarget(op, kid)
<1>0. /\ n \in Nat /\ Len(rows') = n + 1
      /\ \A x \in 1..n : rows'[x] = rows[x]
      /\ rows'[n+1].op = op /\ rows'[n+1].target = t
      /\ death'[n+1] = 0
      /\ t # 0 => op \in Killers /\ t \in CreatorEvents /\ death[t] = 0
      /\ \A x \in 1..n : death'[x] = IF x = t THEN n + 1 ELSE death[x]
  BY EventColumns
<1>1. CreatorEvents \subseteq CreatorEvents' /\ CreatorEvents \subseteq 1..n
  BY <1>0 DEF CreatorEvents
<1>2. /\ \A x \in 1..n : rows[x].target # 0 =>
            /\ rows[x].op \in Killers
            /\ rows[x].target \in CreatorEvents /\ rows[x].target < x
            /\ death[rows[x].target] = x
      /\ \A x \in 1..n : death[x] # 0 =>
            /\ x \in CreatorEvents
            /\ death[x] \in x+1..n
            /\ rows[death[x]].target = x
  BY DEF LiveInv, LinksInverse
<1> HIDE DEF n, t
<1>3. ASSUME NEW x \in 1..n+1, rows'[x].target # 0
      PROVE  /\ rows'[x].op \in Killers
             /\ rows'[x].target \in CreatorEvents' /\ rows'[x].target < x
             /\ death'[rows'[x].target] = x
  <2>1. CASE x = n + 1
    <3>1. t # 0 /\ rows'[x].target = t /\ rows'[x].op = op
      BY <1>0, <1>3, <2>1
    <3>2. op \in Killers /\ t \in CreatorEvents /\ t \in 1..n
      BY <1>0, <1>1, <3>1
    <3>3. t < x /\ death'[t] = x
      BY <1>0, <2>1, <3>2
    <3> QED
      BY <1>1, <3>1, <3>2, <3>3
  <2>2. CASE x \in 1..n
    <3>1. rows'[x] = rows[x]
      BY <1>0, <2>2
    <3>2. /\ rows[x].op \in Killers
          /\ rows[x].target \in CreatorEvents /\ rows[x].target < x
          /\ death[rows[x].target] = x
      BY <1>2, <1>3, <2>2, <3>1
    <3>3. x # 0 /\ rows[x].target \in 1..n
      BY <1>1, <2>2, <3>2
    <3>4. t # 0 => death[t] = 0
      BY <1>0
    <3>5. rows[x].target # t
      BY <3>2, <3>3, <3>4
    <3>6. death'[rows[x].target] = x
      BY <1>0, <3>2, <3>3, <3>5
    <3> QED
      BY <1>1, <3>1, <3>2, <3>6
  <2> QED
    BY <1>0, <2>1, <2>2
<1>4. ASSUME NEW x \in 1..n+1, death'[x] # 0
      PROVE  /\ x \in CreatorEvents'
             /\ death'[x] \in x+1..n+1
             /\ rows'[death'[x]].target = x
  <2>1. x \in 1..n
    BY <1>0, <1>4
  <2>2. CASE x = t
    <3>1. t # 0 /\ death'[x] = n + 1
      BY <1>0, <2>1, <2>2
    <3>2. n + 1 \in x+1..n+1
      BY <1>0, <2>1
    <3>3. rows'[death'[x]].target = x
      BY <1>0, <3>1, <2>2
    <3> QED
      BY <1>0, <1>1, <2>2, <3>1, <3>2, <3>3
  <2>3. CASE x # t
    <3>1. death'[x] = death[x]
      BY <1>0, <2>1, <2>3
    <3>2. /\ x \in CreatorEvents
          /\ death[x] \in x+1..n
          /\ rows[death[x]].target = x
      BY <1>2, <1>4, <2>1, <3>1
    <3>3. death[x] \in 1..n /\ death[x] \in x+1..n+1
      BY <1>0, <2>1, <3>2
    <3> QED
      BY <1>0, <1>1, <3>1, <3>2, <3>3
  <2> QED
    BY <2>2, <2>3
<1> QED
  BY <1>0, <1>3, <1>4 DEF LinksInverse

LEMMA IdMapStep ==
    ASSUME LiveInv, Loading, NEW op \in Ops, NEW id \in OptIds, NEW kid \in OptIds,
           NEW a, NEW sz, NEW us, NEW tIn, NEW seqBad,
           EventRow(op, id, kid, a, sz, us, tIn, seqBad)
    PROVE  IdMapSound'
<1> DEFINE n == Len(rows)
<1>0. /\ n \in Nat /\ Len(rows') = n + 1 /\ phase = "loading"
      /\ \A x \in 1..n : rows'[x] = rows[x]
      /\ rows'[n+1].op = op /\ rows'[n+1].id = id
  BY EventColumns
<1>1. /\ CreatorEvents \subseteq CreatorEvents'
      /\ CreatorEvents \subseteq 1..n
      /\ op \in Creators => n + 1 \in CreatorEvents'
  BY <1>0 DEF CreatorEvents
<1>2. idMap' = IF op \in Creators /\ id # Absent THEN [idMap EXCEPT ![id] = n + 1]
               ELSE idMap
  BY DEF EventRow, Link, Registered
<1>3. idMap \in [Ids -> 0..n]
  BY DEF LiveInv, TypeOK, LinkType
<1>4. \A i \in Ids : idMap[i] # 0 => /\ idMap[i] \in CreatorEvents
                                     /\ rows[idMap[i]].id = i
  BY <1>0 DEF LiveInv, IdMapSound
<1> HIDE DEF n
<1>5. ASSUME NEW i \in Ids, idMap'[i] # 0
      PROVE  idMap'[i] \in CreatorEvents' /\ rows'[idMap'[i]].id = i
  <2>1. CASE op \in Creators /\ id = i
    <3>1. idMap'[i] = n + 1
      BY <1>2, <1>3, <2>1, ParserAssumption
    <3> QED
      BY <1>0, <1>1, <2>1, <3>1
  <2>2. CASE ~(op \in Creators /\ id = i)
    <3>1. idMap'[i] = idMap[i]
      BY <1>2, <1>3, <2>2
    <3> QED
      BY <1>0, <1>1, <1>4, <1>5, <3>1
  <2> QED
    BY <2>1, <2>2
<1> QED
  BY <1>5 DEF IdMapSound

LEMMA LiveMapStep ==
    ASSUME LiveInv, Loading, NEW op \in Ops, NEW id \in OptIds, NEW kid \in OptIds,
           NEW a, NEW sz, NEW us, NEW tIn, NEW seqBad,
           EventRow(op, id, kid, a, sz, us, tIn, seqBad)
    PROVE  live' = LiveAt(Len(rows))'
<1> DEFINE n == Len(rows)
           t == RowTarget(op, kid)
<1>0. /\ n \in Nat /\ Len(rows') = n + 1
      /\ \A x \in 1..n : rows'[x] = rows[x]
      /\ rows'[n+1].op = op
      /\ death'[n+1] = 0
      /\ t # 0 => t \in CreatorEvents /\ death[t] = 0
      /\ \A x \in 1..n : death'[x] = IF x = t THEN n + 1 ELSE death[x]
      /\ phase = "loading"
  BY EventColumns
<1>1. live = LiveAt(n)
  BY <1>0 DEF LiveInv, LiveMapExact
<1>2. live' = (live \ {t}) \cup (IF op \in Creators THEN {n + 1} ELSE {})
  BY DEF EventRow, Link, LiveAfter
<1>3. \A x \in 1..n : death[x] = 0 \/ death[x] \in 1..n
  BY <1>0 DEF LiveInv, LinksInverse
<1> HIDE DEF n, t
<1>4. ASSUME NEW x \in 1..n
      PROVE  x \in live' <=> rows'[x].op \in Creators
                              /\ (death'[x] = 0 \/ death'[x] > n + 1)
  <2>1. x \in live <=> rows[x].op \in Creators /\ death[x] = 0
    <3>1. ~(death[x] > n)
      BY <1>0, <1>3
    <3> QED
      BY <1>1, <3>1 DEF LiveAt
  <2>2. x \in live' <=> x \in live /\ x # t
    BY <1>0, <1>2
  <2>3. CASE x = t
    BY <1>0, <2>2, <2>3
  <2>4. CASE x # t
    <3>1. death'[x] = death[x] /\ ~(death[x] > n + 1)
      BY <1>0, <1>3, <2>4
    <3> QED
      BY <1>0, <2>1, <2>2, <2>4, <3>1
  <2> QED
    BY <2>3, <2>4
<1>5. n + 1 \in live' <=> op \in Creators
  <2>1. n + 1 \notin live
    BY <1>0, <1>1 DEF LiveAt
  <2> QED
    BY <1>2, <2>1
<1>6. live' \subseteq 1..n+1
  <2>1. live \subseteq 1..n
    BY <1>1 DEF LiveAt
  <2>2. 1..n \subseteq 1..n+1 /\ n + 1 \in 1..n+1
    BY <1>0
  <2> QED
    BY <1>2, <2>1, <2>2
<1>7. \A x : x \in 1..n+1 => x \in 1..n \/ x = n + 1
  BY <1>0
<1>8. \A x : x \in live' <=>
          /\ x \in 1..n+1
          /\ rows'[x].op \in Creators
          /\ death'[x] = 0 \/ death'[x] > n + 1
  <2> TAKE x
  <2>1. CASE x \in 1..n
    <3>1. x \in 1..n+1
      BY <1>0, <2>1
    <3> QED
      BY <1>4, <2>1, <3>1
  <2>2. CASE x = n + 1
    BY <1>0, <1>5, <2>2
  <2>3. CASE x \notin 1..n+1
    BY <1>6, <2>3
  <2> QED
    BY <1>7, <2>1, <2>2, <2>3
<1> QED
  BY <1>0, <1>8 DEF LiveAt

\* Every entry of the snapshots after an event is an older one or the new one.
LEMMA SnapshotEntries ==
    ASSUME SnapType, NEW e \in Nat \ {0}, NEW nowLive \in SUBSET (Nat \ {0}),
           Snapshot(e, nowLive), NEW i \in 1..Len(snaps')
    PROVE  \/ \E j \in 1..Len(snaps) : snaps'[i] = snaps[j]
           \/ snaps'[i].pos = e /\ snaps'[i].live = nowLive
<1> DEFINE entry == [pos |-> e, live |-> nowLive]
           all == Append(snaps, entry)
<1>1. /\ Len(snaps) \in Nat
      /\ Len(all) = Len(snaps) + 1
      /\ \A j \in 1..Len(snaps) : all[j] = snaps[j]
      /\ all[Len(snaps) + 1] = entry
  BY DEF SnapType
<1>2. \A j \in 1..Len(all) :
        \/ \E k \in 1..Len(snaps) : all[j] = snaps[k]
        \/ all[j].pos = e /\ all[j].live = nowLive
  <2> TAKE j \in 1..Len(all)
  <2>1. j \in 1..Len(snaps) \/ j = Len(snaps) + 1
    BY <1>1
  <2>2. CASE j \in 1..Len(snaps)
    BY <1>1, <2>2
  <2>3. CASE j = Len(snaps) + 1
    <3>1. all[j] = entry
      BY <1>1, <2>3
    <3>2. entry.pos = e /\ entry.live = nowLive
      OBVIOUS
    <3> QED
      BY <3>1, <3>2
  <2> QED
    BY <2>1, <2>2, <2>3
<1>3. CASE snaps' = snaps
  BY <1>3
<1>4. CASE snaps' = all
  BY <1>2, <1>4
<1>5. CASE snaps' = Thin(all)
  <2>1. all \in Seq(SnapRecord)
    BY DEF SnapType, SnapRecord
  <2> HIDE DEF all
  <2>2. 2 * i \in 1..Len(all) /\ snaps'[i] = all[2 * i]
    BY <1>5, <2>1, ThinShape
  <2> QED
    BY <1>2, <2>2
<1>6. snaps' = snaps \/ snaps' = all \/ snaps' = Thin(all)
  BY DEF Snapshot
<1> QED
  BY <1>3, <1>4, <1>5, <1>6

LEMMA SnapEntryType ==
    ASSUME SnapType, NEW j \in 1..Len(snaps)
    PROVE  snaps[j] \in SnapRecord
<1>1. snaps \in Seq(SnapRecord)
  BY DEF SnapType, SnapRecord
<1> QED
  BY <1>1

LEMMA SnapshotsStep ==
    ASSUME LiveInv, Loading, NEW op \in Ops, NEW id \in OptIds, NEW kid \in OptIds,
           NEW a, NEW sz, NEW us, NEW tIn, NEW seqBad,
           EventRow(op, id, kid, a, sz, us, tIn, seqBad)
    PROVE  SnapshotsExact'
<1>1. Len(rows) \in Nat /\ Len(rows') = Len(rows) + 1
  BY EventColumns
<1>2. live' = LiveAt(Len(rows))'
  BY LiveMapStep
<1>3. SnapType /\ Snapshot(Len(rows) + 1, live')
  BY DEF LiveInv, TypeOK, EventRow
<1>5. live' \in SUBSET (Nat \ {0})
  BY <1>1, <1>2 DEF LiveAt
<1>6. Len(rows) + 1 \in Nat \ {0}
  BY <1>1
<1>4. ASSUME NEW i \in 1..Len(snaps')
      PROVE  /\ snaps'[i].pos <= Len(rows')
             /\ snaps'[i].live = LiveAt(snaps[i].pos)'
  <2>1. CASE \E j \in 1..Len(snaps) : snaps'[i] = snaps[j]
    <3> PICK j \in 1..Len(snaps) : snaps'[i] = snaps[j]
      BY <2>1
    <3>1. snaps[j].pos \in Nat
      BY <1>3, SnapEntryType DEF SnapRecord
    <3>2. snaps[j].pos <= Len(rows) /\ snaps[j].live = LiveAt(snaps[j].pos)
      BY DEF LiveInv, SnapshotsExact
    <3>3. PICK p \in 0..Len(rows) : p = snaps[j].pos
      BY <1>1, <3>1, <3>2
    <3>4. LiveAt(p)' = LiveAt(p)
      BY PastLiveSets
    <3>5. snaps'[i].pos = p /\ snaps'[i].live = LiveAt(p)'
      BY <3>2, <3>3, <3>4
    <3> QED
      BY <1>1, <3>5 DEF LiveAt
  <2>2. CASE snaps'[i].pos = Len(rows) + 1 /\ snaps'[i].live = live'
    BY <1>1, <1>2, <2>2 DEF LiveAt
  <2> QED
    BY <1>3, <1>5, <1>6, <2>1, <2>2, SnapshotEntries
<1> QED
  BY <1>4 DEF SnapshotsExact

(***************************************************************************)
(* The invariant holds throughout.                                         *)
(***************************************************************************)
LEMMA LiveInvariant == ParserSpec => []LiveInv
<1>1. Init => LiveInv
  BY InitLive
<1>2. LiveInv /\ TypeOK' /\ [Next]_parserVars => LiveInv'
  <2> SUFFICES ASSUME LiveInv, TypeOK', [Next]_parserVars PROVE LiveInv'
    OBVIOUS
  <2>1. ASSUME NEW op \in Ops, NEW id \in OptIds, NEW kid \in OptIds,
               NEW a \in 0..Top, NEW sz \in 0..Top, NEW us \in 0..Top,
               NEW tIn \in OptTimes, NEW seqBad \in BOOLEAN,
               Loading, EventRow(op, id, kid, a, sz, us, tIn, seqBad)
        PROVE  LiveInv'
    <3>1. LinksInverse'
      BY <2>1, LinksStep
    <3>2. IdMapSound'
      BY <2>1, IdMapStep
    <3>3. LiveMapExact'
      BY <2>1, LiveMapStep DEF LiveMapExact
    <3>4. SnapshotsExact'
      BY <2>1, SnapshotsStep
    <3> QED
      BY <3>1, <3>2, <3>3, <3>4 DEF LiveInv
  <2>2. ASSUME NEW tIn \in OptTimes, NEW seqBad \in BOOLEAN,
               DroppedRecord(tIn, seqBad)
        PROVE  LiveInv'
    BY <2>2, RowlessLive DEF DroppedRecord
  <2>3. ASSUME NEW op, NEW oldId, NEW tIn \in OptTimes,
               NEW seqBad \in BOOLEAN, AddresslessCreator(op, oldId, tIn, seqBad)
        PROVE  LiveInv'
    BY <2>3, RowlessLive DEF AddresslessCreator
  <2>4. CASE MalformedLine
    BY <2>4, RowlessLive DEF MalformedLine
  <2>5. ASSUME NEW from \in Addrs \cup {Absent},
               NEW width \in HdrWidths \cup {Absent}, NEW known \in BOOLEAN,
               Header(from, width, known)
        PROVE  LiveInv'
    BY <2>5, RowlessLive DEF Header
  <2>6. CASE Finish
    BY <2>6, RowlessLive DEF Finish
  <2>7. CASE UNCHANGED parserVars
    BY <2>7, RowlessLive DEF parserVars, store
  <2> QED
    BY <2>1, <2>2, <2>3, <2>4, <2>5, <2>6, <2>7, StepCases
<1> QED
  BY <1>1, <1>2, TypeCorrect, PTL DEF ParserSpec

\* target and death are inverse links for every trace, however ids are
\* reused, freed twice or never known (Parser::apply, resolve and liveness).
THEOREM LinksCorrect == ParserSpec => []LinksInverse
<1>1. LiveInv => LinksInverse
  BY DEF LiveInv
<1> QED
  BY <1>1, LiveInvariant, PTL

\* The live map the overlap check and the snapshots read is the live set the
\* finished columns describe (Parser::live against the death column).
THEOREM LiveMapCorrect == ParserSpec => []LiveMapExact
<1>1. LiveInv => LiveMapExact
  BY DEF LiveInv
<1> QED
  BY <1>1, LiveInvariant, PTL

\* A snapshot taken while loading is the live set at its position in the
\* finished trace, whatever has died, and whichever have been thinned out,
\* since (Parser::apply, the snapshot; View::seek relies on it).
THEOREM SnapshotsCorrect == ParserSpec => []SnapshotsExact
<1>1. LiveInv => SnapshotsExact
  BY DEF LiveInv
<1> QED
  BY <1>1, LiveInvariant, PTL

-----------------------------------------------------------------------------
(***************************************************************************)
(* Which allocation a kill resolves to.  KillsLatestNamed needs, for the   *)
(* next kill, that the id map holds the last creator of every id.          *)
(***************************************************************************)
IdMapLatest ==
    phase = "loading" =>
        \A c \in CreatorEvents : rows[c].id \in Ids => c <= idMap[rows[c].id]

KillsInv == IdMapLatest /\ KillsLatestNamed

\* Named, of a record that is not a row yet.
Carrying(i) == {c \in 1..Len(rows) : rows[c].op \in Creators /\ rows[c].id = i}

LEMMA LatestCarrier ==
    ASSUME LiveInv, IdMapLatest, phase = "loading", NEW i \in Ids
    PROVE  idMap[i] = IF Carrying(i) = {} THEN 0 ELSE Max(Carrying(i))
<1>1. Len(rows) \in Nat /\ idMap[i] \in 0..Len(rows)
  BY RowsType DEF LiveInv, TypeOK, LinkType
<1>2. idMap[i] # 0 => idMap[i] \in Carrying(i)
  BY DEF LiveInv, IdMapSound, CreatorEvents, Carrying
<1>3. \A c \in Carrying(i) : c \in 1..Len(rows) /\ c <= idMap[i]
  BY DEF IdMapLatest, CreatorEvents, Carrying
<1>4. CASE Carrying(i) = {}
  BY <1>2, <1>4
<1>5. CASE Carrying(i) # {}
  <2>1. Carrying(i) \in SUBSET (0..Len(rows))
    BY <1>1 DEF Carrying
  <2>2. Max(Carrying(i)) \in Carrying(i) /\ \A y \in Carrying(i) : Max(Carrying(i)) >= y
    BY <1>1, <1>5, <2>1, GreatestBelow
  <2>3. Max(Carrying(i)) \in 1..Len(rows) /\ Max(Carrying(i)) <= idMap[i]
    BY <1>3, <2>2
  <2>4. idMap[i] # 0 /\ idMap[i] \in Carrying(i)
    BY <1>1, <1>2, <2>3
  <2>5. idMap[i] <= Max(Carrying(i))
    BY <1>1, <2>2, <2>3, <2>4
  <2> QED
    BY <1>1, <1>5, <2>3, <2>5
<1> QED
  BY <1>4, <1>5

LEMMA IdMapLatestStep ==
    ASSUME LiveInv, IdMapLatest, Loading, NEW op \in Ops, NEW id \in OptIds,
           NEW kid \in OptIds, NEW a, NEW sz, NEW us, NEW tIn, NEW seqBad,
           EventRow(op, id, kid, a, sz, us, tIn, seqBad)
    PROVE  IdMapLatest'
<1> DEFINE n == Len(rows)
<1>0. /\ n \in Nat /\ Len(rows') = n + 1 /\ phase = "loading"
      /\ \A x \in 1..n : rows'[x] = rows[x]
      /\ rows'[n+1].op = op /\ rows'[n+1].id = id
  BY EventColumns
<1>1. idMap' = IF op \in Creators /\ id # Absent THEN [idMap EXCEPT ![id] = n + 1]
               ELSE idMap
  BY DEF EventRow, Link, Registered
<1>2. idMap \in [Ids -> 0..n] /\ Absent \notin Ids
  BY ParserAssumption DEF LiveInv, TypeOK, LinkType
<1>3. \A c \in 1..n : rows[c].op \in Creators /\ rows[c].id \in Ids
                        => c <= idMap[rows[c].id]
  BY <1>0 DEF IdMapLatest, CreatorEvents
<1> HIDE DEF n
<1>4. ASSUME NEW c \in 1..n+1, rows'[c].op \in Creators, rows'[c].id \in Ids
      PROVE  c <= idMap'[rows'[c].id]
  <2>1. CASE c = n + 1
    BY <1>0, <1>1, <1>2, <1>4, <2>1
  <2>2. CASE c \in 1..n
    <3>1. rows'[c] = rows[c] /\ c <= idMap[rows[c].id] /\ idMap[rows[c].id] \in 0..n
      BY <1>0, <1>2, <1>3, <1>4, <2>2
    <3>2. idMap'[rows[c].id] \in {idMap[rows[c].id], n + 1}
      BY <1>1, <1>2, <1>4, <3>1
    <3> QED
      BY <1>0, <2>2, <3>1, <3>2
  <2> QED
    BY <1>0, <2>1, <2>2
<1> QED
  BY <1>0, <1>4 DEF IdMapLatest, CreatorEvents

LEMMA KillsStep ==
    ASSUME LiveInv, KillsInv, Loading, NEW op \in Ops, NEW id \in OptIds,
           NEW kid \in OptIds, NEW a, NEW sz, NEW us, NEW tIn, NEW seqBad,
           EventRow(op, id, kid, a, sz, us, tIn, seqBad)
    PROVE  KillsLatestNamed'
<1> DEFINE n == Len(rows)
           latest(S) == IF S = {} THEN 0 ELSE Max(S)
<1>0. /\ n \in Nat /\ Len(rows') = n + 1 /\ phase = "loading"
      /\ \A x \in 1..n : rows'[x] = rows[x]
      /\ rows'[n+1].op = op /\ rows'[n+1].kid = kid
      /\ rows'[n+1].target = RowTarget(op, kid)
  BY EventColumns
<1>1. \A p \in 0..n : LiveAt(p)' = LiveAt(p)
  BY PastLiveSets
<1>2. ASSUME NEW e \in 1..n+1, rows'[e].op \in Killers, rows'[e].kid # Absent
      PROVE  rows'[e].target = IF latest(Named(e)') \in LiveAt(e-1)'
                               THEN latest(Named(e)') ELSE 0
  <2>0. e - 1 \in 0..n
    BY <1>0
  <2>1. \A c \in 1..e-1 : c \in 1..n /\ rows'[c] = rows[c]
    BY <1>0
  <2>2. CASE e \in 1..n
    <3>1. rows'[e] = rows[e]
      BY <1>0, <2>2
    <3>2. Named(e)' = Named(e)
      BY <2>1, <3>1 DEF Named
    <3>3. rows[e].target = IF latest(Named(e)) \in LiveAt(e-1) THEN latest(Named(e)) ELSE 0
      BY <1>2, <2>2, <3>1 DEF KillsInv, KillsLatestNamed
    <3> QED
      BY <1>1, <2>0, <3>1, <3>2, <3>3
  <2>3. CASE e = n + 1
    <3>1. op \in Killers /\ kid \in Ids
      BY <1>0, <1>2, <2>3 DEF OptIds
    <3>2. Named(e)' = Carrying(kid)
      BY <1>0, <2>1, <2>3 DEF Named, Carrying
    <3>3. latest(Named(e)') = idMap[kid]
      BY <1>0, <3>1, <3>2, LatestCarrier DEF KillsInv
    <3>4. LiveAt(e-1)' = LiveAt(n)
      BY <1>0, <1>1, <2>3
    <3>5. idMap[kid] \in LiveAt(n) <=> idMap[kid] # 0 /\ death[idMap[kid]] = 0
      <4>1. idMap[kid] \in 0..n /\ (idMap[kid] # 0 => idMap[kid] \in CreatorEvents)
        BY <1>0, <3>1 DEF LiveInv, TypeOK, LinkType, IdMapSound
      <4>2. idMap[kid] # 0 => ~(death[idMap[kid]] > n)
        BY <1>0, <4>1 DEF LiveInv, LinksInverse
      <4> QED
        BY <1>0, <4>1, <4>2 DEF LiveAt, CreatorEvents
    <3>6. rows'[e].target = IF idMap[kid] # 0 /\ death[idMap[kid]] = 0 THEN idMap[kid] ELSE 0
      BY <1>0, <2>3, <3>1, ParserAssumption DEF RowTarget, Target, Known
    <3> QED
      BY <3>3, <3>4, <3>5, <3>6
  <2> QED
    BY <1>0, <2>2, <2>3
<1> QED
  BY <1>0, <1>2 DEF KillsLatestNamed

\* What a record without a row leaves alone.
LEMMA RowlessKills ==
    ASSUME KillsInv, UNCHANGED <<rows, death>>,
           \/ UNCHANGED <<phase, idMap>>
           \/ phase' # "loading"
    PROVE  KillsInv'
BY DEF KillsInv, IdMapLatest, KillsLatestNamed, CreatorEvents, Named, LiveAt

\* A kill resolves to the last allocation that carried its id, if that one is
\* still live, and to nothing otherwise, however ids are reused
\* (Parser::resolve; MODEL-002).
THEOREM KillsCorrect == ParserSpec => []KillsLatestNamed
<1>1. Init => KillsInv
  <2> SUFFICES ASSUME Init PROVE KillsInv
    OBVIOUS
  <2>1. Len(rows) = 0
    BY DEF Init
  <2> QED
    BY <2>1 DEF KillsInv, IdMapLatest, KillsLatestNamed, CreatorEvents
<1>2. LiveInv /\ KillsInv /\ [Next]_parserVars => KillsInv'
  <2> SUFFICES ASSUME LiveInv, KillsInv, [Next]_parserVars PROVE KillsInv'
    OBVIOUS
  <2>1. CASE NewEvent
    BY <2>1, IdMapLatestStep, KillsStep DEF NewEvent, KillsInv
  <2>2. CASE NoRow
    BY <2>2, RowlessKills DEF NoRow, Finish
  <2> QED
    BY <2>1, <2>2, RowOrNot DEF LiveInv
<1>3. KillsInv => KillsLatestNamed
  BY DEF KillsInv
<1> QED
  BY <1>1, <1>2, <1>3, LiveInvariant, PTL DEF ParserSpec

-----------------------------------------------------------------------------
(***************************************************************************)
(* Overlaps.  The scan to the left is cut at the largest span seen so far, *)
(* so that one has to bound every block.                                   *)
(***************************************************************************)
SpansBounded == \A c \in CreatorEvents : Span(c) <= maxSpan

OverlapInv == SpansBounded /\ OverlapExact

LEMMA RowGeometry ==
    ASSUME TypeOK, NEW c \in 1..Len(rows)
    PROVE  /\ rows[c].addr \in 0..Top /\ Span(c) \in 1..Top
           /\ EndOf(c) = Min2(rows[c].addr + Span(c), Top)
<1>1. rows[c] \in Row
  BY RowsType
<1>2. rows[c].addr \in 0..Top /\ rows[c].size \in 0..Top /\ rows[c].usable \in 0..Top
  BY <1>1 DEF Row
<1>3. Span(c) \in 1..Top
  BY <1>2, ParserAssumption DEF Span, Max2
<1> QED
  BY <1>2, <1>3 DEF EndOf, SatAdd

\* The bounded scan finds a block that meets [a, end) if there is one.
LEMMA ScanFinds ==
    ASSUME TypeOK, SpansBounded, NEW blocks \in SUBSET CreatorEvents,
           NEW a \in 0..Top, NEW span \in 1..Top
    PROVE  Overlaps(blocks, a, SatAdd(a, span))
             <=> \E b \in blocks : rows[b].addr < SatAdd(a, span) /\ a < EndOf(b)
<1> DEFINE end == SatAdd(a, span)
           starts == {rows[b].addr : b \in {x \in blocks : rows[x].addr > a}}
           reach == Max2(maxSpan, 1)
<1>1. /\ Top \in Nat \ {0} /\ end \in 0..Top /\ (a # Top => a < end) /\ a <= end
      /\ maxSpan \in 0..Top /\ reach \in 1..Top
  BY ParserAssumption DEF SatAdd, Min2, Max2, TypeOK, GeometryType
<1>2. ASSUME NEW b \in blocks
      PROVE  /\ rows[b].addr \in 0..Top /\ Span(b) \in 1..Top /\ Span(b) <= reach
             /\ EndOf(b) = Min2(rows[b].addr + Span(b), Top)
  BY <1>1, RowGeometry, RowsType DEF SpansBounded, Max2
<1>3. starts \in SUBSET Nat
  BY <1>1, <1>2
<1>4. starts # {} => Min(starts) \in starts /\ \A y \in starts : Min(starts) <= y
  BY <1>3, LeastNat
<1>5. Overlaps(blocks, a, end) <=>
        \/ \E b \in blocks : rows[b].addr \in SatSub(a, reach)..a /\ EndOf(b) > a
        \/ a # Top /\ starts # {} /\ Min(starts) < end
  BY DEF Overlaps
<1> HIDE DEF end, starts, reach
<1>6. ASSUME NEW b \in blocks, rows[b].addr < end, a < EndOf(b)
      PROVE  Overlaps(blocks, a, end)
  <2>1. CASE rows[b].addr <= a
    <3>1. rows[b].addr \in SatSub(a, reach)..a
      BY <1>1, <1>2, <1>6, <2>1 DEF SatSub, Min2
    <3> QED
      BY <1>2, <1>1, <1>5, <1>6, <3>1 DEF Min2
  <2>2. CASE rows[b].addr > a
    <3>1. rows[b].addr \in starts
      BY <2>2 DEF starts
    <3>2. Min(starts) \in Nat /\ Min(starts) <= rows[b].addr
      BY <1>3, <1>4, <3>1
    <3>3. a # Top /\ Min(starts) < end
      BY <1>1, <1>2, <1>6, <2>2, <3>2
    <3> QED
      BY <1>5, <3>1, <3>3
  <2> QED
    BY <1>1, <1>2, <2>1, <2>2
<1>7. ASSUME Overlaps(blocks, a, end)
      PROVE  \E b \in blocks : rows[b].addr < end /\ a < EndOf(b)
  <2>1. ASSUME NEW b \in blocks, rows[b].addr \in SatSub(a, reach)..a, EndOf(b) > a
        PROVE  rows[b].addr < end /\ a < EndOf(b)
    BY <1>1, <1>2, <2>1 DEF Min2, SatSub
  <2>2. ASSUME a # Top, starts # {}, Min(starts) < end
        PROVE  \E b \in blocks : rows[b].addr < end /\ a < EndOf(b)
    <3>1. PICK b \in blocks : rows[b].addr > a /\ rows[b].addr = Min(starts)
      BY <1>4, <2>2 DEF starts
    <3>2. a < EndOf(b)
      BY <1>1, <1>2, <3>1 DEF Min2
    <3> QED
      BY <2>2, <3>1, <3>2
  <2> QED
    BY <1>5, <1>7, <2>1, <2>2
<1> QED
  BY <1>6, <1>7 DEF end

LEMMA OverlapStep ==
    ASSUME LiveInv, TypeOK', OverlapInv, Loading, NEW op \in Ops, NEW id \in OptIds,
           NEW kid \in OptIds, NEW a \in 0..Top, NEW sz \in 0..Top, NEW us \in 0..Top,
           NEW tIn, NEW seqBad,
           EventRow(op, id, kid, a, sz, us, tIn, seqBad)
    PROVE  OverlapInv'
<1> DEFINE n == Len(rows)
           t == RowTarget(op, kid)
           span == RowSpan(op, sz, us)
<1> PICK k : k = Len(rows) + 1
  OBVIOUS
<1>0. /\ n \in Nat /\ Len(rows') = n + 1 /\ phase = "loading" /\ k = n + 1
      /\ \A x \in 1..n : rows'[x] = rows[x]
      /\ rows'[k].op = op /\ rows'[k].target = t
  BY EventColumns
<1>1. /\ \A x \in 1..n : Span(x)' = Span(x) /\ EndOf(x)' = EndOf(x)
      /\ \A x \in 1..n : x \in CreatorEvents' <=> x \in CreatorEvents
      /\ CreatorEvents \subseteq 1..n /\ CreatorEvents' \subseteq 1..n+1
  BY <1>0 DEF Span, EndOf, CreatorEvents
<1>2. \A p \in 0..n : LiveAt(p)' = LiveAt(p)
  BY PastLiveSets
<1>3. op \in Creators =>
        /\ rows'[k].addr = a
        /\ Span(k)' = span /\ span \in 1..Top
        /\ EndOf(k)' = SatAdd(a, span)
        /\ maxSpan' = Max2(maxSpan, span)
  <2> SUFFICES ASSUME op \in Creators
               PROVE  /\ rows'[k].addr = a
                      /\ Span(k)' = span /\ span \in 1..Top
                      /\ EndOf(k)' = SatAdd(a, span)
                      /\ maxSpan' = Max2(maxSpan, span)
    OBVIOUS
  <2>1. rows'[k] = NewRow(op, id, kid, a, sz, us, tIn)
    <3>1. rows \in Seq(Row) /\ rows' = Append(rows, NewRow(op, id, kid, a, sz, us, tIn))
      BY DEF LiveInv, TypeOK, LinkType, EventRow
    <3> QED
      BY <3>1
  <2>2. /\ rows'[k].addr = a /\ rows'[k].size = RowSize(op, sz)
        /\ rows'[k].usable = RowUsable(op, sz, us)
    BY <2>1 DEF NewRow
  <2>3. /\ RowSize(op, sz) \in 1..Top /\ RowUsable(op, sz, us) \in 0..Top
        /\ span \in 1..Top /\ Max2(span, 1) = span
    <3>1. RowSize(op, sz) \in 1..Top /\ RowUsable(op, sz, us) \in 0..Top
      BY GeometryOfRow, ParserAssumption DEF RowSize, Max2
    <3> QED
      BY <3>1, ParserAssumption DEF RowSpan, Max2
  <2>4. Span(k)' = span
    BY <2>2, <2>3 DEF Span, RowSpan
  <2>5. EndOf(k)' = SatAdd(a, span)
    BY <2>2, <2>4 DEF EndOf
  <2>6. maxSpan' = Max2(maxSpan, span)
    BY DEF EventRow, Account
  <2> QED
    BY <2>2, <2>3, <2>4, <2>5, <2>6
<1>4. op \notin Creators => maxSpan' = maxSpan
  BY DEF EventRow, Account
<1>5. SpansBounded'
  <2>1. \A x \in 1..n : Span(x) \in 1..Top
    BY RowGeometry DEF LiveInv
  <2>2. maxSpan \in 0..Top /\ \A c \in CreatorEvents : Span(c) <= maxSpan
    BY DEF LiveInv, TypeOK, GeometryType, OverlapInv, SpansBounded
  <2>3. ASSUME NEW c \in CreatorEvents' PROVE Span(c)' <= maxSpan'
    <3>0. c \in 1..n \/ c = k
      BY <1>0, <1>1
    <3>1. CASE c \in 1..n
      <4>1. c \in CreatorEvents /\ Span(c)' = Span(c)
        BY <1>1, <3>1
      <4> QED
        BY <1>3, <1>4, <2>1, <2>2, <3>1, <4>1, ParserAssumption DEF Max2
    <3>2. CASE c = k
      <4>1. op \in Creators
        BY <1>0, <3>2 DEF CreatorEvents
      <4> QED
        BY <1>3, <2>2, <3>2, <4>1, ParserAssumption DEF Max2
    <3> QED
      BY <3>0, <3>1, <3>2
  <2> QED
    BY <2>3 DEF SpansBounded
<1>6. Overlapping(op, kid, a, sz, us) <=>
        op \in Creators /\ \E b \in LiveAt(n) \ {t} : Meets(b, k)'
  <2>1. CASE op \in Creators
    <3>1. live = LiveAt(n) /\ LiveAt(n) \subseteq CreatorEvents
      BY <1>0 DEF LiveInv, LiveMapExact, LiveAt, CreatorEvents
    <3>2. Overlaps(live \ {t}, a, SatAdd(a, span))
            <=> \E b \in live \ {t} : rows[b].addr < SatAdd(a, span) /\ a < EndOf(b)
      BY <1>3, <2>1, <3>1, ScanFinds DEF LiveInv, OverlapInv
    <3>3. \A b \in live : Meets(b, k)' <=> rows[b].addr < SatAdd(a, span) /\ a < EndOf(b)
      <4> TAKE b \in live
      <4>1. b \in 1..n /\ rows'[b] = rows[b] /\ EndOf(b)' = EndOf(b)
        BY <1>0, <1>1, <3>1
      <4> QED
        BY <1>3, <2>1, <4>1 DEF Meets
    <3> QED
      BY <2>1, <3>1, <3>2, <3>3 DEF Overlapping
  <2>2. CASE op \notin Creators
    BY <2>2 DEF Overlapping
  <2> QED
    BY <2>1, <2>2
<1>7. overlapIndex' = IF Overlapping(op, kid, a, sz, us) THEN overlapIndex \cup {n + 1}
                      ELSE overlapIndex
  BY DEF EventRow
<1>8. \A e \in 1..n : e \in overlapIndex <=>
        e \in CreatorEvents /\ \E b \in LiveAt(e-1) \ {rows[e].target} : Meets(b, e)
  BY DEF OverlapInv, OverlapExact
<1>9. overlapIndex \subseteq 1..n
  BY DEF LiveInv, TypeOK, LinkType
<1>10. ASSUME NEW e \in 1..n
       PROVE  (\E b \in LiveAt(e-1) \ {rows[e].target} : Meets(b, e))
                <=> \E b \in LiveAt(e-1)' \ {rows'[e].target} : Meets(b, e)'
  <2>1. rows'[e] = rows[e] /\ EndOf(e)' = EndOf(e) /\ LiveAt(e-1)' = LiveAt(e-1)
    BY <1>0, <1>1, <1>2
  <2>2. \A b \in LiveAt(e-1) : Meets(b, e)' <=> Meets(b, e)
    <3> TAKE b \in LiveAt(e-1)
    <3>1. b \in 1..n
      BY <1>0 DEF LiveAt
    <3> QED
      BY <1>0, <1>1, <2>1, <3>1 DEF Meets
  <2> QED
    BY <2>1, <2>2
<1> HIDE DEF n, t, span
<1>11. OverlapExact'
  <2>1. ASSUME NEW e
        PROVE  e \in overlapIndex' <=>
                 /\ e \in CreatorEvents'
                 /\ \E b \in LiveAt(e-1)' \ {rows'[e].target} : Meets(b, e)'
    <3>1. CASE e \in 1..n
      <4>1. e \in overlapIndex' <=> e \in overlapIndex
        BY <1>0, <1>7, <3>1
      <4>2. e \in CreatorEvents' <=> e \in CreatorEvents
        BY <1>1, <3>1
      <4> QED
        BY <1>8, <1>10, <3>1, <4>1, <4>2
    <3>2. CASE e = k
      <4>1. e \in CreatorEvents' <=> op \in Creators
        BY <1>0, <3>2 DEF CreatorEvents
      <4>2. LiveAt(e-1)' = LiveAt(n) /\ rows'[e].target = t
        BY <1>0, <1>2, <3>2
      <4>3. e \notin overlapIndex
        BY <1>0, <1>9, <3>2
      <4>4. e \in overlapIndex' <=> Overlapping(op, kid, a, sz, us)
        BY <1>0, <1>7, <3>2, <4>3
      <4> QED
        BY <1>6, <3>2, <4>1, <4>2, <4>4
    <3>3. CASE e \notin 1..n /\ e # k
      BY <1>0, <1>1, <1>7, <1>9, <3>3
    <3> QED
      BY <3>1, <3>2, <3>3
  <2> QED
    BY <2>1 DEF OverlapExact
<1> QED
  BY <1>5, <1>11 DEF OverlapInv

\* An allocation is flagged exactly when it meets a block that was live when
\* it arrived, though the check looks no further left than the largest span
\* and only at the next block to the right (Parser::apply, check_overlap).
THEOREM OverlapCorrect == ParserSpec => []OverlapExact
<1>1. Init => OverlapInv
  <2> SUFFICES ASSUME Init PROVE OverlapInv
    OBVIOUS
  <2>1. Len(rows) = 0 /\ overlapIndex = {}
    BY DEF Init
  <2> QED
    BY <2>1 DEF OverlapInv, SpansBounded, OverlapExact, CreatorEvents
<1>2. LiveInv /\ TypeOK' /\ OverlapInv /\ [Next]_parserVars => OverlapInv'
  <2> SUFFICES ASSUME LiveInv, TypeOK', OverlapInv, [Next]_parserVars PROVE OverlapInv'
    OBVIOUS
  <2>1. CASE NewEvent
    BY <2>1, OverlapStep DEF NewEvent
  <2>2. CASE NoRow
    BY <2>2 DEF NoRow, OverlapInv, SpansBounded, OverlapExact, CreatorEvents, Span, EndOf,
                Meets, LiveAt
  <2> QED
    BY <2>1, <2>2, RowOrNot DEF LiveInv
<1>3. OverlapInv => OverlapExact
  BY DEF OverlapInv
<1> QED
  BY <1>1, <1>2, <1>3, TypeCorrect, LiveInvariant, PTL DEF ParserSpec

-----------------------------------------------------------------------------
(***************************************************************************)
(* Warnings.  Counts never shrink, whatever is warned about is counted,    *)
(* and a log that is not full yet has everything in it.                    *)
(***************************************************************************)
LEMMA WarnGrows ==
    ASSUME WarningType, NEW ws \in Seq(WarningRecord), Warn(ws)
    PROVE  /\ \A c \in Codes : /\ warnCount[c] \in Nat /\ warnCount'[c] \in Nat
                               /\ warnCount'[c] >= warnCount[c]
           /\ \A i \in 1..Len(ws) : warnCount'[ws[i].code] > warnCount[ws[i].code]
           /\ Len(warnings') < WarnCap => warnings' = warnings \o ws
<1> DEFINE carrying(c) == {i \in 1..Len(ws) : ws[i].code = c}
<1>1. \A c : IsFiniteSet(carrying(c)) /\ Cardinality(carrying(c)) \in Nat
  <2> TAKE c
  <2>1. Len(ws) \in Nat
    OBVIOUS
  <2>2. IsFiniteSet(1..Len(ws))
    BY <2>1, FS_Interval
  <2>3. IsFiniteSet(carrying(c))
    BY <2>2, FS_Subset
  <2> QED
    BY <2>3, FS_CardinalityType
<1>2. \A c : carrying(c) # {} => Cardinality(carrying(c)) > 0
  <2> HIDE DEF carrying
  <2>1. \A c : Cardinality(carrying(c)) = 0 <=> carrying(c) = {}
    BY <1>1, FS_EmptySet
  <2> QED
    BY <1>1, <2>1
<1>3. /\ warnCount \in [Codes -> Nat]
      /\ \A c \in Codes : warnCount'[c] = warnCount[c] + Cardinality(carrying(c))
  BY DEF Warn, WarningType
<1>4. \A i \in 1..Len(ws) : ws[i].code \in Codes /\ i \in carrying(ws[i].code)
  <2> TAKE i \in 1..Len(ws)
  <2>1. ws[i] \in WarningRecord
    OBVIOUS
  <2> QED
    BY <2>1 DEF WarningRecord
<1>5. ASSUME Len(warnings') < WarnCap PROVE warnings' = warnings \o ws
  <2> DEFINE all == warnings \o ws
             kept == Min2(WarnCap, Len(warnings) + Len(ws))
  <2>1. /\ all \in Seq(WarningRecord) /\ Len(all) = Len(warnings) + Len(ws)
        /\ Len(all) \in Nat /\ warnings' = SubSeq(all, 1, kept)
    BY DEF WarningType, WarningRecord, Warn
  <2>2. kept \in 0..Len(all) /\ (kept = Len(all) \/ kept = WarnCap)
    BY <2>1, ParserAssumption DEF Min2
  <2> HIDE DEF all, kept
  <2>3. Len(warnings') = kept
    BY <2>1, <2>2
  <2>4. kept = Len(all)
    BY <1>5, <2>1, <2>2, <2>3, ParserAssumption
  <2>5. SubSeq(all, 1, Len(all)) = all
    BY <2>1
  <2> QED
    BY <2>1, <2>4, <2>5 DEF all
<1> HIDE DEF carrying
<1>6. \A c \in Codes : /\ warnCount[c] \in Nat /\ warnCount'[c] \in Nat
                       /\ warnCount'[c] >= warnCount[c]
  BY <1>1, <1>3
<1>7. \A i \in 1..Len(ws) : warnCount'[ws[i].code] > warnCount[ws[i].code]
  <2> TAKE i \in 1..Len(ws)
  <2>1. ws[i].code \in Codes /\ Cardinality(carrying(ws[i].code)) > 0
    BY <1>2, <1>4
  <2> QED
    BY <1>1, <1>3, <2>1
<1> QED
  BY <1>5, <1>6, <1>7

\* While the trace loads, a live allocation is the one its id stands for, or
\* the trace was flagged.
IdsSettled ==
    phase = "loading" =>
        \A c \in LiveAt(Len(rows)) :
            rows[c].id \in Ids => idMap[rows[c].id] = c \/ warnCount["dup_id"] > 0

NothingSilent ==
    /\ Cardinality(Unresolved) <= warnCount["unknown_id"] + warnCount["double_free"]
    /\ Len(warnings) < WarnCap =>
          \A e \in Unresolved : Logged(warnings, {"unknown_id", "double_free"}, e)

SharedFlagged ==
    \A c, d \in LiveAt(Len(rows)) :
        (c < d /\ rows[c].id = rows[d].id /\ rows[c].id # Absent)
        => warnCount["dup_id"] > 0

AmbiguityInv == IdsSettled /\ SharedFlagged /\ NothingSilent

LEMMA SettledStep ==
    ASSUME LiveInv, IdsSettled, Loading, NEW op \in Ops, NEW id \in OptIds,
           NEW kid \in OptIds, NEW a, NEW sz, NEW us, NEW tIn, NEW seqBad \in BOOLEAN,
           EventRow(op, id, kid, a, sz, us, tIn, seqBad)
    PROVE  IdsSettled'
<1> DEFINE n == Len(rows)
           t == RowTarget(op, kid)
<1>0. /\ n \in Nat /\ phase = "loading"
      /\ \A x \in 1..n : rows'[x] = rows[x]
      /\ rows'[n+1].op = op /\ rows'[n+1].id = id
  BY EventColumns
<1>1. live = LiveAt(n) /\ live \subseteq 1..n
  BY <1>0 DEF LiveInv, LiveMapExact, LiveAt
<1>2. LiveAt(Len(rows))' = (live \ {t}) \cup (IF op \in Creators THEN {n + 1} ELSE {})
  BY LiveMapStep DEF EventRow, Link, LiveAfter
<1>3. idMap' = IF op \in Creators /\ id # Absent THEN [idMap EXCEPT ![id] = n + 1]
               ELSE idMap
  BY DEF EventRow, Link, Registered
<1>4. idMap \in [Ids -> 0..n] /\ Absent \notin Ids
  BY ParserAssumption DEF LiveInv, TypeOK, LinkType
<1>5. PICK ws \in Seq(WarningRecord) :
        /\ Warn(ws)
        /\ Duplicate(op, id, kid) => Logged(ws, {"dup_id"}, n + 1)
  BY EventWarnings DEF LiveInv, TypeOK
<1>6. /\ warnCount["dup_id"] > 0 => warnCount'["dup_id"] > 0
      /\ Duplicate(op, id, kid) => warnCount'["dup_id"] > 0
  BY <1>5, WarnGrows DEF LiveInv, TypeOK, Codes, Logged
<1>7. \A c \in live : death[c] = 0
  <2> TAKE c \in live
  <2>1. c \in 1..n /\ (death[c] = 0 \/ death[c] > n)
    BY <1>1 DEF LiveAt
  <2> QED
    BY <1>0, <2>1 DEF LiveInv, LinksInverse
<1> HIDE DEF n
<1>8. ASSUME NEW c \in LiveAt(Len(rows))', rows'[c].id \in Ids
      PROVE  idMap'[rows'[c].id] = c \/ warnCount'["dup_id"] > 0
  <2>1. CASE c = n + 1 /\ op \in Creators
    BY <1>0, <1>3, <1>4, <1>8, <2>1
  <2>2. CASE c \in live /\ c # t
    <3>1. c \in 1..n /\ rows'[c] = rows[c]
      BY <1>0, <1>1, <2>2
    <3>2. idMap[rows[c].id] = c \/ warnCount["dup_id"] > 0
      BY <1>0, <1>1, <1>8, <2>2, <3>1 DEF IdsSettled, n
    <3>3. CASE op \in Creators /\ id = rows[c].id /\ idMap[rows[c].id] = c
      <4>1. Duplicate(op, id, kid)
        BY <1>4, <1>7, <1>8, <2>2, <3>1, <3>3 DEF Duplicate, Known
      <4> QED
        BY <1>6, <4>1
    <3>4. CASE ~(op \in Creators /\ id = rows[c].id)
      BY <1>3, <1>4, <1>6, <1>8, <3>1, <3>2, <3>4
    <3> QED
      BY <1>6, <3>2, <3>3, <3>4
  <2> QED
    BY <1>2, <1>8, <2>1, <2>2
<1> QED
  BY <1>8 DEF IdsSettled

LEMMA SettledShared ==
    ASSUME TypeOK', IdsSettled', phase' = "loading"
    PROVE  SharedFlagged'
<1>1. rows' \in Seq(Row) /\ idMap' \in [Ids -> 0..Len(rows')]
  BY DEF TypeOK, LinkType
<1>2. ASSUME NEW c \in LiveAt(Len(rows))'
      PROVE  c \in 1..Len(rows') /\ rows'[c].id \in OptIds
  <2>1. c \in 1..Len(rows')
    BY DEF LiveAt
  <2>2. rows'[c] \in Row
    BY <1>1, <2>1
  <2> QED
    BY <2>1, <2>2 DEF Row
<1>3. ASSUME NEW c \in LiveAt(Len(rows))', NEW d \in LiveAt(Len(rows))',
             c < d, rows'[c].id = rows'[d].id, rows'[c].id # Absent
      PROVE  warnCount'["dup_id"] > 0
  <2>1. rows'[c].id \in Ids
    BY <1>2, <1>3 DEF OptIds
  <2>2. /\ idMap'[rows'[c].id] = c \/ warnCount'["dup_id"] > 0
        /\ idMap'[rows'[c].id] = d \/ warnCount'["dup_id"] > 0
    BY <1>3, <2>1 DEF IdsSettled
  <2>3. c # d
    BY <1>2, <1>3
  <2> QED
    BY <2>2, <2>3
<1> QED
  BY <1>3 DEF SharedFlagged

LEMMA WarnedStep ==
    ASSUME TypeOK, NothingSilent, NEW ws \in Seq(WarningRecord), Warn(ws),
           \/ Unresolved' = Unresolved
           \/ /\ Unresolved' = Unresolved \cup {Len(rows) + 1}
              /\ Logged(ws, {"unknown_id", "double_free"}, Len(rows) + 1)
    PROVE  NothingSilent'
<1> DEFINE lost == {"unknown_id", "double_free"}
           e == Len(rows) + 1
<1>1. IsFiniteSet(Unresolved) /\ e \notin Unresolved
  <2>1. IsFiniteSet(1..Len(rows)) /\ e \notin 1..Len(rows)
    BY RowsType, FS_Interval
  <2>2. Unresolved \subseteq 1..Len(rows)
    BY DEF Unresolved
  <2> QED
    BY <2>1, <2>2, FS_Subset
<1>2. Cardinality(Unresolved) \in Nat
  BY <1>1, FS_CardinalityType
<1>3. WarningType /\ warnings \in Seq(WarningRecord)
  BY DEF TypeOK, WarningType, WarningRecord
<1>4. Cardinality(Unresolved') <= warnCount'["unknown_id"] + warnCount'["double_free"]
  <2>1. /\ warnCount["unknown_id"] \in Nat /\ warnCount'["unknown_id"] \in Nat
        /\ warnCount["double_free"] \in Nat /\ warnCount'["double_free"] \in Nat
        /\ warnCount'["unknown_id"] >= warnCount["unknown_id"]
        /\ warnCount'["double_free"] >= warnCount["double_free"]
    BY <1>3, WarnGrows DEF Codes
  <2>2. CASE Unresolved' = Unresolved
    BY <1>2, <2>1, <2>2 DEF NothingSilent
  <2>3. CASE Unresolved' = Unresolved \cup {e} /\ Logged(ws, lost, e)
    <3>1. Cardinality(Unresolved') = Cardinality(Unresolved) + 1
      BY <1>1, <2>3, FS_AddElement
    <3>2. \/ warnCount'["unknown_id"] > warnCount["unknown_id"]
          \/ warnCount'["double_free"] > warnCount["double_free"]
      BY <1>3, <2>3, WarnGrows DEF Logged
    <3> QED
      BY <1>2, <2>1, <3>1, <3>2 DEF NothingSilent
  <2> QED
    BY <2>2, <2>3
<1>5. ASSUME Len(warnings') < WarnCap, NEW x \in Unresolved'
      PROVE  Logged(warnings', lost, x)
  <2>1. warnings' = warnings \o ws
    BY <1>3, <1>5, WarnGrows
  <2>2. Len(warnings) < WarnCap
    BY <1>3, <1>5, <2>1, ParserAssumption
  <2>3. Logged(warnings, lost, x) \/ Logged(ws, lost, x)
    BY <1>5, <2>2 DEF NothingSilent
  <2> QED
    BY <1>3, <2>1, <2>3, LoggedConcat
<1> QED
  BY <1>4, <1>5 DEF NothingSilent

LEMMA UnresolvedStep ==
    ASSUME LiveInv, Loading, NEW op \in Ops, NEW id \in OptIds,
           NEW kid \in OptIds, NEW a, NEW sz, NEW us, NEW tIn, NEW seqBad,
           EventRow(op, id, kid, a, sz, us, tIn, seqBad)
    PROVE  Unresolved' = IF op \in Killers /\ RowTarget(op, kid) = 0
                         THEN Unresolved \cup {Len(rows) + 1} ELSE Unresolved
<1> DEFINE n == Len(rows)
<1> PICK k : k = Len(rows) + 1
  OBVIOUS
<1>0. /\ n \in Nat /\ Len(rows') = n + 1 /\ k = n + 1
      /\ \A x \in 1..n : rows'[x] = rows[x]
      /\ rows'[k].op = op /\ rows'[k].target = RowTarget(op, kid)
  BY EventColumns
<1> HIDE DEF n
<1>1. \A x : x \in 1..n+1 <=> x \in 1..n \/ x = k
  BY <1>0
<1>2. k \notin 1..n
  BY <1>0
<1>3. Unresolved' = {x \in 1..n+1 : rows'[x].op \in Killers /\ rows'[x].target = 0}
  BY <1>0 DEF Unresolved
<1>4. Unresolved = {x \in 1..n : rows[x].op \in Killers /\ rows[x].target = 0}
  BY DEF Unresolved, n
<1>5. \A x : x \in Unresolved' <=>
               \/ x \in Unresolved
               \/ x = k /\ op \in Killers /\ RowTarget(op, kid) = 0
  BY <1>0, <1>1, <1>2, <1>3, <1>4
<1> QED
  BY <1>0, <1>5 DEF n

LEMMA RowlessAmbiguity ==
    ASSUME TypeOK, AmbiguityInv, NoRow
    PROVE  AmbiguityInv'
<1>1. rows' = rows /\ death' = death
  BY DEF NoRow
<1>2. LiveAt(Len(rows))' = LiveAt(Len(rows)) /\ Unresolved' = Unresolved
  BY <1>1 DEF LiveAt, Unresolved
<1>3. warnCount["dup_id"] > 0 => warnCount'["dup_id"] > 0
  BY WarnGrows DEF NoRow, TypeOK, Codes
<1>4. NothingSilent'
  <2>1. CASE UNCHANGED <<warnings, warnCount>>
    BY <1>2, <2>1 DEF AmbiguityInv, NothingSilent
  <2>2. CASE \E ws \in Seq(WarningRecord) : Warn(ws)
    BY <1>2, <2>2, WarnedStep DEF AmbiguityInv
  <2> QED
    BY <2>1, <2>2 DEF NoRow
<1>5. SharedFlagged'
  BY <1>1, <1>2, <1>3 DEF AmbiguityInv, SharedFlagged
<1>6. IdsSettled'
  BY <1>1, <1>2, <1>3 DEF AmbiguityInv, IdsSettled, NoRow, Finish
<1> QED
  BY <1>4, <1>5, <1>6 DEF AmbiguityInv

\* Two live allocations share an id only in a trace that was flagged for it,
\* and every kill that resolves to nothing is counted, and logged as long as
\* the log has room (Parser::apply, resolve; Warnings::push).
THEOREM AmbiguityNeverSilent == ParserSpec => []AmbiguityFlagged
<1>1. Init => AmbiguityInv
  <2> SUFFICES ASSUME Init PROVE AmbiguityInv
    OBVIOUS
  <2>1. Len(rows) = 0 /\ warnCount = [c \in Codes |-> 0]
    BY DEF Init
  <2>2. LiveAt(Len(rows)) = {} /\ Unresolved = {}
    BY <2>1 DEF LiveAt, Unresolved
  <2>3. Cardinality(Unresolved) = 0
    BY <2>2, FS_EmptySet
  <2> QED
    BY <2>1, <2>2, <2>3
       DEF AmbiguityInv, IdsSettled, SharedFlagged, NothingSilent, Codes
<1>2. LiveInv /\ TypeOK' /\ AmbiguityInv /\ [Next]_parserVars => AmbiguityInv'
  <2> SUFFICES ASSUME LiveInv, TypeOK', AmbiguityInv, [Next]_parserVars
               PROVE  AmbiguityInv'
    OBVIOUS
  <2>1. ASSUME NEW op \in Ops, NEW id \in OptIds, NEW kid \in OptIds,
               NEW a \in 0..Top, NEW sz \in 0..Top, NEW us \in 0..Top,
               NEW tIn \in OptTimes, NEW seqBad \in BOOLEAN,
               Loading, EventRow(op, id, kid, a, sz, us, tIn, seqBad)
        PROVE  AmbiguityInv'
    <3>1. IdsSettled'
      BY <2>1, SettledStep DEF AmbiguityInv
    <3>2. phase' = "loading"
      BY <2>1 DEF EventRow, Loading
    <3>3. SharedFlagged'
      BY <3>1, <3>2, SettledShared
    <3>4. NothingSilent'
      <4>1. PICK ws \in Seq(WarningRecord) :
              /\ Warn(ws)
              /\ op \in Killers /\ RowTarget(op, kid) = 0 =>
                    Logged(ws, {"unknown_id", "double_free"}, Len(rows) + 1)
        BY <2>1, EventWarnings DEF LiveInv, TypeOK
      <4>2. Unresolved' = IF op \in Killers /\ RowTarget(op, kid) = 0
                          THEN Unresolved \cup {Len(rows) + 1} ELSE Unresolved
        BY <2>1, UnresolvedStep
      <4> QED
        BY <4>1, <4>2, WarnedStep DEF AmbiguityInv, LiveInv
    <3> QED
      BY <3>1, <3>3, <3>4 DEF AmbiguityInv
  <2>2. CASE NewEvent
    BY <2>1, <2>2 DEF NewEvent
  <2>3. CASE NoRow
    BY <2>3, RowlessAmbiguity DEF LiveInv
  <2> QED
    BY <2>2, <2>3, RowOrNot DEF LiveInv
<1>3. AmbiguityInv => AmbiguityFlagged
  BY DEF AmbiguityInv, SharedFlagged, NothingSilent, AmbiguityFlagged, Logged
<1> QED
  BY <1>1, <1>2, <1>3, TypeCorrect, LiveInvariant, PTL DEF ParserSpec

-----------------------------------------------------------------------------
(***************************************************************************)
(* Bytes.  The running count follows the live set by one sum more or less, *)
(* and does not wrap as long as all that was ever allocated fits.          *)
(***************************************************************************)
LEMMA MaxOfMore ==
    ASSUME NEW n \in Nat, NEW S \in SUBSET (0..n), S # {}, NEW x \in 0..n
    PROVE  Max(S \cup {x}) = Max2(Max(S), x)
<1>1. Max(S) \in S /\ \A y \in S : Max(S) >= y
  BY GreatestBelow
<1>2. S \cup {x} \in SUBSET (0..n) /\ S \cup {x} # {}
  OBVIOUS
<1>3. Max(S \cup {x}) \in S \cup {x} /\ \A y \in S \cup {x} : Max(S \cup {x}) >= y
  BY <1>2, GreatestBelow
<1>4. Max(S) \in 0..n /\ Max(S \cup {x}) \in 0..n
  BY <1>1, <1>2, <1>3
<1>5. Max(S \cup {x}) >= Max(S) /\ Max(S \cup {x}) >= x
  BY <1>1, <1>3
<1>6. Max(S \cup {x}) <= Max(S) \/ Max(S \cup {x}) = x
  BY <1>1, <1>3
<1> QED
  BY <1>4, <1>5, <1>6 DEF Max2

LEMMA RowSums ==
    ASSUME TypeOK
    PROVE  /\ \A S \in SUBSET (1..Len(rows)) :
                 /\ IsFiniteSet(S)
                 /\ \A x \in S : SizeOf[x] = rows[x].size /\ SizeOf[x] \in 0..Top
                 /\ SumFunctionOnSet(SizeOf, S) \in Nat
           /\ \A p \in 0..Len(rows) : LiveAt(p) \in SUBSET CreatorEvents
           /\ CreatorEvents \in SUBSET (1..Len(rows))
           /\ \A x \in 1..Len(rows) : rows[x].size \in Nat
<1>1. ASSUME NEW S \in SUBSET (1..Len(rows))
      PROVE  /\ IsFiniteSet(S)
             /\ \A x \in S : SizeOf[x] = rows[x].size /\ SizeOf[x] \in 0..Top
             /\ SumFunctionOnSet(SizeOf, S) \in Nat
  <2>1. Len(rows) \in Nat /\ \A x \in 1..Len(rows) : rows[x] \in Row
    BY RowsType
  <2>2. IsFiniteSet(S)
    <3>1. IsFiniteSet(1..Len(rows))
      BY <2>1, FS_Interval
    <3> QED
      BY <3>1, FS_Subset
  <2>3. \A x \in S : SizeOf[x] = rows[x].size /\ SizeOf[x] \in 0..Top
    BY <2>1 DEF SizeOf, Row
  <2>4. \A x \in S : SizeOf[x] \in Nat
    BY <2>3, ParserAssumption
  <2> QED
    BY <2>2, <2>3, <2>4, SumType
<1>2. \A p \in 0..Len(rows) : LiveAt(p) \in SUBSET CreatorEvents
  BY RowsType DEF LiveAt, CreatorEvents
<1>3. \A x \in 1..Len(rows) : rows[x].size \in Nat
  BY RowsType, ParserAssumption DEF Row
<1> QED
  BY <1>1, <1>2, <1>3, RowsType

\* What a new row does to the sums.
LEMMA EventSums ==
    ASSUME LiveInv, TypeOK', Loading, NEW op \in Ops, NEW id \in OptIds, NEW kid \in OptIds,
           NEW a, NEW sz \in 0..Top, NEW us, NEW tIn, NEW seqBad,
           EventRow(op, id, kid, a, sz, us, tIn, seqBad)
    PROVE  LET more == IF op \in Creators THEN RowSize(op, sz) ELSE 0
               t    == RowTarget(op, kid)
           IN  /\ \A S \in SUBSET (1..Len(rows)) :
                     SumFunctionOnSet(SizeOf', S) = SumFunctionOnSet(SizeOf, S)
               /\ SumFunctionOnSet(SizeOf', CreatorEvents')
                     = SumFunctionOnSet(SizeOf, CreatorEvents) + more
               /\ SumFunctionOnSet(SizeOf', live')
                     = SumFunctionOnSet(SizeOf, live \ {t}) + more
               /\ t # 0 => SumFunctionOnSet(SizeOf, live)
                             = rows[t].size + SumFunctionOnSet(SizeOf, live \ {t})
<1> DEFINE n == Len(rows)
           t == RowTarget(op, kid)
           more == IF op \in Creators THEN RowSize(op, sz) ELSE 0
<1> PICK k : k = Len(rows) + 1
  OBVIOUS
<1>0. /\ n \in Nat /\ Len(rows') = n + 1 /\ phase = "loading" /\ k = n + 1
      /\ \A x \in 1..n : rows'[x] = rows[x]
      /\ rows'[k].op = op
      /\ t # 0 => t \in CreatorEvents /\ death[t] = 0
  BY EventColumns
<1>1. rows'[k].size = RowSize(op, sz)
  <2>1. rows \in Seq(Row) /\ rows' = Append(rows, NewRow(op, id, kid, a, sz, us, tIn))
    BY DEF LiveInv, TypeOK, LinkType, EventRow
  <2>2. rows'[k] = NewRow(op, id, kid, a, sz, us, tIn)
    BY <2>1
  <2> QED
    BY <2>2 DEF NewRow
<1> PICK g : g = SizeOf'
  OBVIOUS
<1>2. /\ \A x \in 1..n : g[x] = SizeOf[x]
      /\ g[k] = RowSize(op, sz)
  BY <1>0, <1>1 DEF SizeOf
<1>3. RowSize(op, sz) \in Nat
  BY ParserAssumption DEF RowSize, Max2
<1>4. ASSUME NEW S \in SUBSET (1..n)
      PROVE  /\ IsFiniteSet(S)
             /\ SumFunctionOnSet(g, S) = SumFunctionOnSet(SizeOf, S)
             /\ SumFunctionOnSet(SizeOf, S) \in Nat
             /\ SumFunctionOnSet(g, S \cup {k})
                   = SumFunctionOnSet(SizeOf, S) + RowSize(op, sz)
  <2>1. /\ IsFiniteSet(S) /\ SumFunctionOnSet(SizeOf, S) \in Nat
        /\ \A x \in S : SizeOf[x] \in 0..Top
    BY RowSums DEF LiveInv
  <2>2. \A x \in S : g[x] = SizeOf[x]
    BY <1>2
  <2>3. SumFunctionOnSet(g, S) = SumFunctionOnSet(SizeOf, S)
    BY <2>1, <2>2, SumSame
  <2>4. k \notin S
    BY <1>0
  <2>5. \A x \in S : g[x] \in Nat
    BY <2>1, <2>2, ParserAssumption
  <2>6. \A x \in S \cup {k} : g[x] \in Nat
    BY <1>2, <1>3, <2>5
  <2>7. SumFunctionOnSet(g, S \cup {k}) = SumFunctionOnSet(g, S) + g[k]
    <3>1. IsFiniteSet(S)
      BY <2>1
    <3>2. \A T, x : IsFiniteSet(T) /\ x \notin T /\ (\A y \in T \cup {x} : g[y] \in Nat)
              => SumFunctionOnSet(g, T \cup {x}) = SumFunctionOnSet(g, T) + g[x]
      BY SumAdd
    <3> QED
      BY <2>4, <2>6, <3>1, <3>2
  <2> QED
    BY <1>2, <2>1, <2>3, <2>7
<1>5. CreatorEvents \in SUBSET (1..n) /\ live \in SUBSET (1..n) /\ live = LiveAt(n)
  BY <1>0, RowsType DEF LiveInv, LiveMapExact, TypeOK, LinkType
<1>6. CreatorEvents' = IF op \in Creators THEN CreatorEvents \cup {k} ELSE CreatorEvents
  <2>1. \A x : x \in 1..n+1 <=> x \in 1..n \/ x = k
    BY <1>0
  <2> HIDE DEF n
  <2>2. CreatorEvents' = {x \in 1..n+1 : rows'[x].op \in Creators}
    BY <1>0 DEF CreatorEvents
  <2>3. CreatorEvents = {x \in 1..n : rows[x].op \in Creators}
    BY DEF CreatorEvents, n
  <2>4. \A x : x \in CreatorEvents' <=> x \in CreatorEvents \/ (x = k /\ op \in Creators)
    BY <1>0, <2>1, <2>2, <2>3
  <2> QED
    BY <2>4
<1>7. live' = (live \ {t}) \cup (IF op \in Creators THEN {k} ELSE {})
  BY <1>0 DEF EventRow, Link, LiveAfter
<1>8. SumFunctionOnSet(g, CreatorEvents')
         = SumFunctionOnSet(SizeOf, CreatorEvents) + more
  <2>1. CASE op \in Creators
    BY <1>4, <1>5, <1>6, <2>1
  <2>2. CASE op \notin Creators
    <3>1. CreatorEvents' = CreatorEvents /\ more = 0
      BY <1>6, <2>2
    <3>2. /\ SumFunctionOnSet(g, CreatorEvents) = SumFunctionOnSet(SizeOf, CreatorEvents)
          /\ SumFunctionOnSet(SizeOf, CreatorEvents) \in Nat
      BY <1>4, <1>5
    <3> HIDE DEF more
    <3> QED
      BY <3>1, <3>2
  <2> QED
    BY <2>1, <2>2
<1>9. SumFunctionOnSet(g, live') = SumFunctionOnSet(SizeOf, live \ {t}) + more
  <2>1. live \ {t} \in SUBSET (1..n)
    BY <1>5
  <2>2. CASE op \in Creators
    BY <1>4, <1>7, <2>1, <2>2
  <2>3. CASE op \notin Creators
    <3>1. live' = live \ {t} /\ more = 0
      BY <1>7, <2>3
    <3>2. /\ SumFunctionOnSet(g, live \ {t}) = SumFunctionOnSet(SizeOf, live \ {t})
          /\ SumFunctionOnSet(SizeOf, live \ {t}) \in Nat
      BY <1>4, <2>1
    <3> HIDE DEF more
    <3> QED
      BY <3>1, <3>2
  <2> QED
    BY <2>2, <2>3
<1>10. ASSUME t # 0
       PROVE  SumFunctionOnSet(SizeOf, live)
                = rows[t].size + SumFunctionOnSet(SizeOf, live \ {t})
  <2>1. t \in live
    BY <1>0, <1>5, <1>10 DEF LiveAt, CreatorEvents
  <2>2. IsFiniteSet(live) /\ \A x \in live : SizeOf[x] = rows[x].size /\ SizeOf[x] \in Nat
    BY <1>5, RowSums, ParserAssumption DEF LiveInv
  <2> HIDE DEF t
  <2> QED
    BY <2>1, <2>2, SumWithout
<1> QED
  BY <1>4, <1>8, <1>9, <1>10

LEMMA BytesStep ==
    ASSUME LiveInv, TypeOK', BytesExact, Loading, NEW op \in Ops, NEW id \in OptIds,
           NEW kid \in OptIds, NEW a, NEW sz \in 0..Top, NEW us, NEW tIn, NEW seqBad,
           EventRow(op, id, kid, a, sz, us, tIn, seqBad)
    PROVE  BytesExact'
<1> DEFINE n == Len(rows)
           t == RowTarget(op, kid)
           Sum(S) == SumFunctionOnSet(SizeOf, S)
           more == IF op \in Creators THEN RowSize(op, sz) ELSE 0
           total == Sum(CreatorEvents)
           past == {BytesAt(p) : p \in 0..n}
           now == SumFunctionOnSet(SizeOf', live')
<1> PICK k : k = Len(rows) + 1
  OBVIOUS
<1> SUFFICES ASSUME SumFunctionOnSet(SizeOf', CreatorEvents') <= Top
             PROVE  /\ curBytes' = BytesAt(Len(rows))'
                    /\ peakBytes' = Max({BytesAt(p)' : p \in 0..Len(rows')})
  BY DEF BytesExact
<1>0. n \in Nat /\ Len(rows') = n + 1 /\ k = n + 1 /\ phase = "loading"
  BY EventColumns
<1>1. /\ \A S \in SUBSET (1..n) : SumFunctionOnSet(SizeOf', S) = Sum(S)
      /\ SumFunctionOnSet(SizeOf', CreatorEvents') = total + more
      /\ now = Sum(live \ {t}) + more
      /\ t # 0 => Sum(live) = rows[t].size + Sum(live \ {t})
      /\ op \notin Creators => more = 0
  BY EventSums
<1>2. more \in Nat /\ total \in Nat /\ Top \in Nat
  BY RowSums, ParserAssumption DEF LiveInv, RowSize, Max2
<1>3. total + more <= Top /\ total <= Top
  BY <1>1, <1>2
<1>4. live = LiveAt(n) /\ live' = LiveAt(k)'
  BY <1>0, LiveMapStep DEF LiveInv, LiveMapExact
<1>5. curBytes = Sum(live) /\ peakBytes = Max(past)
  BY <1>3, <1>4 DEF BytesExact, BytesAt
<1>6. live \in SUBSET CreatorEvents /\ live \in SUBSET (1..n)
  BY <1>0, <1>4, RowSums DEF LiveInv
<1>7. /\ Sum(live) \in Nat /\ Sum(live \ {t}) \in Nat
      /\ Sum(live \ {t}) <= total
  <2>1. /\ IsFiniteSet(CreatorEvents) /\ live \ {t} \in SUBSET CreatorEvents
        /\ live \ {t} \in SUBSET (1..n) /\ CreatorEvents \in SUBSET (1..n)
        /\ \A x \in CreatorEvents : SizeOf[x] \in Nat
    BY <1>6, RowSums, ParserAssumption DEF LiveInv
  <2>2. Sum(live) \in Nat /\ Sum(live \ {t}) \in Nat
    BY <1>6, <2>1, RowSums DEF LiveInv
  <2>3. Sum(live \ {t}) <= total
    BY <2>1, SumPart
  <2> QED
    BY <2>2, <2>3
<1>8. Released(t) = Sum(live \ {t})
  <2>1. CASE t = 0
    <3>1. live \ {t} = live
      BY <1>6, <2>1
    <3> QED
      BY <1>5, <2>1, <3>1 DEF Released
  <2>2. CASE t # 0
    <3>1. t \in 1..n /\ rows[t].size \in Nat
      BY <1>0, <2>2, TargetType, RowSums DEF LiveInv, TypeOK
    <3>2. SatSub(curBytes, rows[t].size) = Sum(live \ {t})
      <4> HIDE DEF Sum, t
      <4> QED
        BY <1>1, <1>5, <1>7, <2>2, <3>1 DEF SatSub
    <3> QED
      BY <2>2, <3>2 DEF Released
  <2> QED
    BY <2>1, <2>2
<1>9. now \in Nat /\ now <= Top
  <2> HIDE DEF Sum, total, more, now
  <2> QED
    BY <1>1, <1>2, <1>3, <1>7
<1>10. curBytes' = now
  <2>1. CASE op \in Creators
    <3>1. curBytes' = (Released(t) + RowSize(op, sz)) % (Top + 1)
      BY <2>1 DEF EventRow, Account
    <3>2. curBytes' = now % (Top + 1)
      BY <1>1, <1>8, <2>1, <3>1
    <3> HIDE DEF now
    <3> QED
      BY <1>2, <1>9, <3>2
  <2>2. CASE op \notin Creators
    <3>1. curBytes' = Released(t)
      BY <2>2 DEF EventRow, Account
    <3> HIDE DEF Sum, now, t
    <3> QED
      BY <1>1, <1>7, <1>8, <2>2, <3>1
  <2> QED
    BY <2>1, <2>2
<1>11. past \in SUBSET (0..Top) /\ past # {} /\ Sum(live) \in past
  <2>1. ASSUME NEW p \in 0..n PROVE BytesAt(p) \in 0..Top
    <3>1. /\ LiveAt(p) \in SUBSET CreatorEvents /\ LiveAt(p) \in SUBSET (1..n)
          /\ IsFiniteSet(CreatorEvents) /\ \A x \in CreatorEvents : SizeOf[x] \in Nat
          /\ Sum(LiveAt(p)) \in Nat
      BY RowSums, ParserAssumption DEF LiveInv
    <3>2. Sum(LiveAt(p)) <= total
      BY <3>1, SumPart
    <3> HIDE DEF Sum, total
    <3>3. Sum(LiveAt(p)) \in 0..Top
      BY <1>2, <1>3, <3>1, <3>2
    <3> QED
      BY <3>3 DEF BytesAt, Sum
  <2>2. n \in 0..n /\ BytesAt(n) = Sum(live)
    BY <1>0, <1>4 DEF BytesAt
  <2> QED
    BY <2>1, <2>2
<1>12. peakBytes' = Max2(peakBytes, now)
  <2>1. CASE op \in Creators
    BY <1>10, <2>1 DEF EventRow, Account
  <2>2. CASE op \notin Creators
    <3>1. peakBytes' = peakBytes
      BY <2>2 DEF EventRow, Account
    <3>2. Max(past) \in past /\ Max(past) >= Sum(live)
      <4> HIDE DEF past, Sum
      <4> QED
        BY <1>2, <1>11, GreatestBelow
    <3>3. peakBytes \in Nat /\ peakBytes >= Sum(live)
      BY <1>5, <1>11, <3>2
    <3>4. now <= Sum(live)
      <4>1. t # 0 => rows[t].size \in Nat
        BY <1>0, TargetType, RowSums DEF LiveInv, TypeOK
      <4>2. t = 0 => live \ {t} = live
        BY <1>6
      <4>3. now = Sum(live \ {t})
        <5> HIDE DEF Sum, now, t, more
        <5> QED
          BY <1>1, <1>7, <2>2
      <4>4. t # 0 => Sum(live) = rows[t].size + Sum(live \ {t})
        BY <1>1
      <4>5. Sum(live) \in Nat /\ Sum(live \ {t}) \in Nat
        BY <1>7
      <4> HIDE DEF Sum, now, t
      <4>6. t = 0 => now = Sum(live)
        BY <4>2, <4>3
      <4> QED
        BY <4>1, <4>3, <4>4, <4>5, <4>6
    <3> HIDE DEF now, Sum
    <3> QED
      BY <1>7, <1>9, <3>1, <3>3, <3>4 DEF Max2
  <2> QED
    BY <2>1, <2>2
<1>13. {BytesAt(p)' : p \in 0..k} = past \cup {now}
  <2>1. \A p \in 0..n : BytesAt(p)' = BytesAt(p)
    <3> TAKE p \in 0..n
    <3>1. LiveAt(p)' = LiveAt(p) /\ LiveAt(p) \in SUBSET (1..n)
      BY PastLiveSets, RowSums DEF LiveInv
    <3> QED
      BY <1>1, <3>1 DEF BytesAt
  <2>2. BytesAt(k)' = now
    BY <1>4 DEF BytesAt
  <2>3. \A p : p \in 0..k <=> p \in 0..n \/ p = k
    BY <1>0
  <2> HIDE DEF now, n
  <2> QED
    BY <2>1, <2>2, <2>3 DEF past
<1>14. Max(past \cup {now}) = Max2(Max(past), now)
  <2> HIDE DEF past, now
  <2> QED
    BY <1>2, <1>9, <1>11, MaxOfMore
<1>15. BytesAt(Len(rows))' = now
  BY <1>0, <1>4 DEF BytesAt
<1> QED
  BY <1>0, <1>5, <1>10, <1>12, <1>13, <1>14, <1>15

\* As long as all that a trace allocates fits, the running byte count is the
\* sum over the live set and the peak the largest such sum, although the count
\* is only ever added to and subtracted from (Parser::apply, the byte counts).
THEOREM BytesCorrect == ParserSpec => []BytesExact
<1>1. Init => BytesExact
  <2> SUFFICES ASSUME Init PROVE BytesExact
    OBVIOUS
  <2>1. Len(rows) = 0 /\ curBytes = 0 /\ peakBytes = 0
    BY DEF Init
  <2>2. BytesAt(0) = 0 /\ 0..0 = {0}
    BY SumEmpty DEF BytesAt, LiveAt
  <2>3. {BytesAt(p) : p \in 0..0} = {0}
    BY <2>2
  <2>4. Max({0}) = 0
    BY GreatestBelow
  <2> QED
    BY <2>1, <2>2, <2>3, <2>4 DEF BytesExact
<1>2. LiveInv /\ TypeOK' /\ BytesExact /\ [Next]_parserVars => BytesExact'
  <2> SUFFICES ASSUME LiveInv, TypeOK', BytesExact, [Next]_parserVars PROVE BytesExact'
    OBVIOUS
  <2>1. CASE NewEvent
    BY <2>1, BytesStep DEF NewEvent
  <2>2. CASE NoRow
    BY <2>2 DEF NoRow, BytesExact, BytesAt, SizeOf, LiveAt, CreatorEvents
  <2> QED
    BY <2>1, <2>2, RowOrNot DEF LiveInv
<1> QED
  BY <1>1, <1>2, TypeCorrect, LiveInvariant, PTL DEF ParserSpec
=============================================================================
