--------------------------- MODULE PlayheadProofs ---------------------------
(***************************************************************************)
(* Proofs, for every value of the constants: the playhead shows the live   *)
(* set of its position wherever seeks have taken it, with its tallies; no  *)
(* seek is longer than the snapshots allow; row 0 is below every block;    *)
(* and parser and playhead implement the abstract history.                 *)
(***************************************************************************)
EXTENDS PlayheadHistory, TraceParserProofs

\* A view has all its fields, the live set among them.
IsView(v) ==
    DOMAIN v = {"live", "count", "bytes", "births", "spans", "occ"}

(***************************************************************************)
(* The inductive invariant.  PictureExact alone is not inductive: a seek   *)
(* must start with nothing pending, run inside the trace, and find the     *)
(* playhead at the start while the trace is still loading.                 *)
(***************************************************************************)
PlayInv ==
    /\ cur \in 0..Len(rows)
    /\ IsView(view)
    /\ seek \in [to : 0..Len(rows), active : BOOLEAN, pending : SUBSET Nat]
    /\ ~seek.active => seek.pending = {}
    /\ phase = "loading" => cur = 0 /\ seek = Idle
    /\ PictureExact

-----------------------------------------------------------------------------
(***************************************************************************)
(* One event more, one event less: how live sets of neighbouring positions *)
(* relate, in the terms of the links.                                      *)
(***************************************************************************)
LEMMA LiveForward ==
    ASSUME LiveInv, NEW p \in Nat, p < Len(rows)
    PROVE  LiveAt(p + 1) = (LiveAt(p) \ {rows[p+1].target})
                           \cup (IF rows[p+1].op \in Creators THEN {p + 1} ELSE {})
<1>0. Len(rows) \in Nat /\ p + 1 \in 1..Len(rows)
  BY RowsType DEF LiveInv
<1>1. /\ rows[p+1].target # 0 =>
            /\ rows[p+1].target < p + 1
            /\ death[rows[p+1].target] = p + 1
      /\ \A x \in 1..Len(rows) : death[x] # 0 =>
            death[x] \in x+1..Len(rows) /\ rows[death[x]].target = x
  BY <1>0 DEF LiveInv, LinksInverse
<1>2. \A x \in 1..p : x \in 1..Len(rows) /\ x # p + 1
  BY <1>0
<1>3. ASSUME NEW x \in 1..p
      PROVE  x \in LiveAt(p + 1) <=> x \in LiveAt(p) /\ x # rows[p+1].target
  <2>1. death[x] = 0 \/ death[x] \in Nat
    BY <1>1, <1>2
  <2>2. x = rows[p+1].target <=> death[x] = p + 1
    BY <1>0, <1>1, <1>2
  <2>3. x \in 1..p+1
    OBVIOUS
  <2> QED
    BY <2>1, <2>2, <2>3 DEF LiveAt
<1>4. p + 1 \in LiveAt(p + 1) <=> rows[p+1].op \in Creators
  <2>1. death[p+1] = 0 \/ death[p+1] > p + 1
    BY <1>0, <1>1
  <2> QED
    BY <1>0, <2>1 DEF LiveAt
<1>5. LiveAt(p) \subseteq 1..p /\ LiveAt(p + 1) \subseteq 1..p+1
  BY DEF LiveAt
<1>6. \A x : x \in 1..p+1 <=> x \in 1..p \/ x = p + 1
  OBVIOUS
<1>7. p + 1 \notin 1..p
  OBVIOUS
<1> QED
  BY <1>3, <1>4, <1>5, <1>6, <1>7, Zenon

LEMMA LiveBackward ==
    ASSUME LiveInv, NEW p \in Nat, p < Len(rows)
    PROVE  LiveAt(p) = (LiveAt(p + 1) \ {p + 1})
                       \cup (IF rows[p+1].target # 0 THEN {rows[p+1].target} ELSE {})
<1>0. Len(rows) \in Nat /\ p + 1 \in 1..Len(rows)
  BY RowsType DEF LiveInv
<1>1. rows[p+1].target # 0 => rows[p+1].target \in LiveAt(p)
  <2> HAVE rows[p+1].target # 0
  <2>1. /\ rows[p+1].target \in CreatorEvents
        /\ rows[p+1].target < p + 1
        /\ death[rows[p+1].target] = p + 1
    BY <1>0 DEF LiveInv, LinksInverse
  <2>2. rows[p+1].target \in 1..p
    BY <1>0, <2>1 DEF CreatorEvents
  <2> QED
    BY <2>1, <2>2 DEF LiveAt, CreatorEvents
<1>2. LiveAt(p) \subseteq 1..p
  BY DEF LiveAt
<1>3. p + 1 \notin 1..p /\ 0 \notin 1..p
  OBVIOUS
<1> QED
  BY <1>1, <1>2, <1>3, LiveForward, Zenon

\* Inserting and removing act on the live set as on a set.
LEMMA InsertLive ==
    ASSUME NEW v, NEW e
    PROVE  /\ InsertAlloc(v, e).live = v.live \cup {e}
           /\ IsView(v) => IsView(InsertAlloc(v, e))
BY DEF InsertAlloc, IsView

LEMMA RemoveLive ==
    ASSUME NEW v, NEW e
    PROVE  /\ RemoveAlloc(v, e).live = v.live \ {e}
           /\ IsView(v) => IsView(RemoveAlloc(v, e))
BY DEF RemoveAlloc, IsView

LEMMA ApplyView ==
    ASSUME NEW v, NEW e, IsView(v)
    PROVE  IsView(ApplyFwd(v, e)) /\ IsView(ApplyBwd(v, e))
BY InsertLive, RemoveLive DEF ApplyFwd, ApplyBwd

LEMMA EmptyIsView == IsView(EmptyView)
BY DEF IsView, EmptyView

LEMMA ForwardStep ==
    ASSUME LiveInv, NEW p \in Nat, p < Len(rows), NEW v, v.live = LiveAt(p)
    PROVE  ApplyFwd(v, p + 1).live = LiveAt(p + 1)
<1>0. p + 1 \in 1..Len(rows) /\ 0 \notin LiveAt(p)
  BY RowsType DEF LiveInv, LiveAt
<1>1. rows[p+1].target # 0 => rows[p+1].op \in Killers
  BY <1>0 DEF LiveInv, LinksInverse
<1> DEFINE killed == IF rows[p+1].op \in Killers /\ rows[p+1].target # 0
                     THEN RemoveAlloc(v, rows[p+1].target) ELSE v
<1>2. killed.live = LiveAt(p) \ {rows[p+1].target}
  BY <1>0, <1>1, RemoveLive
<1>3. ApplyFwd(v, p + 1) = IF rows[p+1].op \in Creators THEN InsertAlloc(killed, p + 1)
                           ELSE killed
  BY DEF ApplyFwd
<1> HIDE DEF killed
<1>4. LiveAt(p + 1) = killed.live
                       \cup (IF rows[p+1].op \in Creators THEN {p + 1} ELSE {})
  BY <1>2, LiveForward
<1>5. CASE rows[p+1].op \in Creators
  BY <1>3, <1>4, <1>5, InsertLive
<1>6. CASE rows[p+1].op \notin Creators
  BY <1>3, <1>4, <1>6
<1> QED
  BY <1>5, <1>6

LEMMA BackwardStep ==
    ASSUME LiveInv, NEW p \in Nat, p < Len(rows), NEW v, v.live = LiveAt(p + 1)
    PROVE  ApplyBwd(v, p + 1).live = LiveAt(p)
<1>0. p + 1 \in 1..Len(rows)
  BY RowsType DEF LiveInv
<1>1. rows[p+1].target # 0 => rows[p+1].op \in Killers
  BY <1>0 DEF LiveInv, LinksInverse
<1> DEFINE unborn == IF rows[p+1].op \in Creators THEN RemoveAlloc(v, p + 1) ELSE v
<1>2. rows[p+1].op \notin Creators => p + 1 \notin LiveAt(p + 1)
  BY DEF LiveAt
<1>3. unborn.live = LiveAt(p + 1) \ {p + 1}
  BY <1>2, RemoveLive
<1>4. ApplyBwd(v, p + 1) = IF rows[p+1].op \in Killers /\ rows[p+1].target # 0
                           THEN InsertAlloc(unborn, rows[p+1].target) ELSE unborn
  BY DEF ApplyBwd
<1> HIDE DEF unborn
<1>5. LiveAt(p) = unborn.live
                  \cup (IF rows[p+1].target # 0 THEN {rows[p+1].target} ELSE {})
  BY <1>3, LiveBackward
<1>6. CASE rows[p+1].target # 0
  BY <1>1, <1>4, <1>5, <1>6, InsertLive
<1>7. CASE rows[p+1].target = 0
  BY <1>4, <1>5, <1>7
<1> QED
  BY <1>6, <1>7

-----------------------------------------------------------------------------
\* The playhead runs the parser unchanged.
LEMMA PlayRunsParser == PlaySpec => ParserSpec
<1>1. PlayInit => Init
  BY DEF PlayInit
<1>2. [PlayNext]_vars => [Next]_parserVars
  <2> SUFFICES ASSUME [PlayNext]_vars PROVE [Next]_parserVars
    OBVIOUS
  <2>1. CASE Parse
    BY <2>1 DEF Parse, Next
  <2>2. CASE ParseEnd
    BY <2>2 DEF ParseEnd, Next
  <2>3. ASSUME NEW asked \in 0..MaxEvents+1, BeginSeek(asked)
        PROVE  UNCHANGED parserVars
    BY <2>3 DEF BeginSeek
  <2>4. CASE SeekStep
    BY <2>4 DEF SeekStep, InsertFromSnapshot, StepForward, StepBackward, EndSeek
  <2>5. ASSUME NEW asked \in RowWidths, SetRowBytes(asked)
        PROVE  UNCHANGED parserVars
    BY <2>5 DEF SetRowBytes
  <2>6. CASE UNCHANGED vars
    BY <2>6 DEF vars
  <2> QED
    BY <2>1, <2>2, <2>3, <2>4, <2>5, <2>6 DEF PlayNext
<1> QED
  BY <1>1, <1>2, PTL DEF PlaySpec, ParserSpec

\* Lines are only read while the trace loads, and no line ends the loading.
LEMMA ParseLineLoads == ParseLine => phase = "loading" /\ phase' = "loading"
<1> SUFFICES ASSUME ParseLine PROVE phase = "loading" /\ phase' = "loading"
  OBVIOUS
<1>1. CASE MalformedLine
  BY <1>1 DEF MalformedLine, Rowless
<1>2. ASSUME NEW from, NEW width, NEW known, Header(from, width, known)
      PROVE  phase = "loading" /\ phase' = "loading"
  BY <1>2 DEF Header, Rowless
<1>3. CASE ParseRecord
  BY <1>3 DEF ParseRecord, Malloc, Realloc, Free, Custom, DroppedRecord,
              AddresslessCreator, EventRow, Loading, Rowless
<1> QED
  BY <1>1, <1>2, <1>3 DEF ParseLine

LEMMA InitPlay == PlayInit => PlayInv
<1> SUFFICES ASSUME PlayInit PROVE PlayInv
  OBVIOUS
<1>1. Len(rows) = 0 /\ cur = 0 /\ seek = Idle /\ view.live = {}
  BY DEF PlayInit, Init, EmptyView
<1>2. LiveAt(cur) = {}
  BY <1>1 DEF LiveAt
<1> QED
  BY <1>1, <1>2, EmptyIsView DEF PlayInv, PictureExact, Idle, PlayInit

\* While the trace loads the view is empty, and the live set at 0 is too.
LEMMA ParseKeepsPlay == PlayInv /\ LiveInv' /\ Parse => PlayInv'
<1> SUFFICES ASSUME PlayInv, LiveInv', Parse PROVE PlayInv'
  OBVIOUS
<1>1. phase = "loading" /\ ParseLine /\ UNCHANGED <<cur, view, seek>>
  BY ParseLineLoads DEF Parse, viewVars, playVars
<1>2. cur = 0 /\ seek = Idle
  BY <1>1 DEF PlayInv
<1>3. Len(rows') \in Nat
  BY DEF LiveInv, TypeOK, LinkType
<1>4. LiveAt(cur) = {} /\ LiveAt(cur)' = {}
  BY <1>1, <1>2 DEF LiveAt
<1> QED
  BY <1>1, <1>2, <1>3, <1>4 DEF PlayInv, PictureExact, Idle

LEMMA ParseEndPlay == LiveInv /\ ParseEnd => PlayInv'
<1> SUFFICES ASSUME LiveInv, ParseEnd PROVE PlayInv'
  OBVIOUS
<1>1. cur' = 0 /\ view'.live = {} /\ seek' = Idle /\ rows' = rows /\ phase' = "ready"
  BY DEF ParseEnd, Finish, EmptyView
<1>2. Len(rows) \in Nat
  BY RowsType DEF LiveInv
<1>3. LiveAt(cur)' = {}
  BY <1>1 DEF LiveAt
<1> QED
  BY <1>1, <1>2, <1>3, EmptyIsView DEF PlayInv, PictureExact, Idle, ParseEnd

\* The snapshot a seek starts from lies at or before its target and names
\* the live set there.
LEMMA BestSnapExact ==
    ASSUME LiveInv, NEW to \in 0..Len(rows)
    PROVE  /\ BestSnap(to).pos \in 0..to
           /\ BestSnap(to).live = LiveAt(BestSnap(to).pos)
<1>1. CASE SnapsBefore(to) = {}
  BY <1>1 DEF BestSnap, LiveAt
<1>2. CASE SnapsBefore(to) # {}
  <2>1. Len(snaps) \in Nat /\ SnapType
    BY DEF LiveInv, TypeOK, SnapType
  <2>2. SnapsBefore(to) \in SUBSET (0..Len(snaps))
    BY <2>1 DEF SnapsBefore
  <2>3. Max(SnapsBefore(to)) \in SnapsBefore(to)
    BY <1>2, <2>1, <2>2, GreatestBelow
  <2>4. PICK i \in 1..Len(snaps) : i = Max(SnapsBefore(to)) /\ snaps[i].pos <= to
    BY <2>3 DEF SnapsBefore
  <2>5. BestSnap(to) = snaps[i]
    BY <1>2, <2>4 DEF BestSnap
  <2>6. snaps[i].pos \in Nat
    BY <2>1, SnapEntryType DEF SnapRecord
  <2>7. snaps[i].live = LiveAt(snaps[i].pos)
    BY DEF LiveInv, SnapshotsExact
  <2> QED
    BY <2>4, <2>5, <2>6, <2>7
<1> QED
  BY <1>1, <1>2

\* With the store at rest, a live set moves with the position alone.
LEMMA StoreAtRest ==
    ASSUME UNCHANGED parserVars, NEW p, cur' = p
    PROVE  LiveAt(cur)' = LiveAt(p) /\ Len(rows)' = Len(rows) /\ phase' = phase
BY DEF parserVars, store, LiveAt

LEMMA BeginSeekPlay ==
    ASSUME PlayInv, LiveInv, NEW asked \in 0..MaxEvents+1, BeginSeek(asked)
    PROVE  PlayInv'
<1> DEFINE to == SeekTarget(asked)
<1>1. Len(rows) \in Nat /\ to \in 0..Len(rows)
  BY RowsType, ParserAssumption DEF LiveInv, SeekTarget, Min2
<1>2. phase = "ready" /\ UNCHANGED parserVars /\ seek.pending = {}
  BY DEF BeginSeek, PlayInv
<1>3. cur \in 0..Len(rows) /\ view.live = LiveAt(cur)
  BY <1>2 DEF PlayInv, PictureExact
<1>4. /\ BestSnap(to).pos \in 0..Len(rows)
      /\ BestSnap(to).live = LiveAt(BestSnap(to).pos)
  BY <1>1, BestSnapExact
<1>5. CASE Replays(to)
  <2>1. seek' = [to |-> to, active |-> TRUE, pending |-> {}] /\ UNCHANGED <<cur, view>>
    BY <1>5 DEF BeginSeek
  <2>2. LiveAt(cur)' = LiveAt(cur) /\ rows' = rows /\ phase' = phase
    BY <1>2, <2>1 DEF parserVars, store, LiveAt
  <2>3. PictureExact'
    BY <1>3, <2>1, <2>2 DEF PictureExact
  <2>4. IsView(view')
    BY <2>1 DEF PlayInv
  <2> HIDE DEF to
  <2>5. cur' \in 0..Len(rows')
    BY <1>3, <2>1, <2>2
  <2>6. /\ seek' \in [to : 0..Len(rows'), active : BOOLEAN, pending : SUBSET Nat]
        /\ seek'.pending = {}
    BY <1>1, <2>1, <2>2
  <2>7. phase' # "loading"
    BY <1>2, <2>2
  <2> QED
    BY <2>3, <2>4, <2>5, <2>6, <2>7 DEF PlayInv
<1>6. CASE ~Replays(to)
  <2>1. /\ seek' = [to |-> to, active |-> TRUE, pending |-> BestSnap(to).live]
        /\ cur' = BestSnap(to).pos
        /\ view' = EmptyView
    BY <1>6 DEF BeginSeek
  <2>5. view'.live = {} /\ IsView(view')
    BY <2>1, EmptyIsView DEF EmptyView
  <2>2. PICK p \in 0..Len(rows) : p = BestSnap(to).pos
    BY <1>4
  <2>3. LiveAt(cur)' = LiveAt(p)
    BY <1>2, <2>1, <2>2, StoreAtRest
  <2>4. BestSnap(to).live = LiveAt(p) /\ LiveAt(p) \in SUBSET Nat
    BY <1>4, <2>2 DEF LiveAt
  <2> HIDE DEF to
  <2> QED
    BY <1>1, <1>2, <2>1, <2>2, <2>3, <2>4, <2>5
       DEF PlayInv, PictureExact, parserVars, store
<1> QED
  BY <1>5, <1>6

LEMMA InsertFromSnapshotPlay == PlayInv /\ LiveInv /\ InsertFromSnapshot => PlayInv'
<1> SUFFICES ASSUME PlayInv, LiveInv, InsertFromSnapshot PROVE PlayInv'
  OBVIOUS
<1> DEFINE e == Min(seek.pending)
<1>1. /\ seek.active /\ seek.pending # {} /\ seek.pending \in SUBSET Nat
      /\ UNCHANGED parserVars /\ cur' = cur
      /\ view' = InsertAlloc(view, e)
      /\ seek' = [seek EXCEPT !.pending = @ \ {e}]
  BY DEF InsertFromSnapshot, PlayInv
<1>2. e \in seek.pending
  BY <1>1, LeastNat
<1>3. view'.live = view.live \cup {e} /\ IsView(view')
  BY <1>1, InsertLive DEF PlayInv
<1>4. LiveAt(cur)' = LiveAt(cur) /\ Len(rows)' = Len(rows) /\ phase' = phase
  BY <1>1 DEF parserVars, store, LiveAt
<1> HIDE DEF e
<1>5. /\ seek'.to = seek.to /\ seek'.active = seek.active
      /\ seek'.pending = seek.pending \ {e}
      /\ seek' \in [to : 0..Len(rows), active : BOOLEAN, pending : SUBSET Nat]
  BY <1>1 DEF PlayInv
<1>6. phase # "loading"
  BY <1>1 DEF PlayInv, Idle
<1>7. view.live = LiveAt(cur) \ seek.pending /\ seek.pending \subseteq LiveAt(cur)
  BY DEF PlayInv, PictureExact
<1>8. PictureExact'
  BY <1>2, <1>3, <1>4, <1>5, <1>7 DEF PictureExact
<1> QED
  BY <1>1, <1>3, <1>4, <1>5, <1>6, <1>8 DEF PlayInv

LEMMA StepForwardPlay == PlayInv /\ LiveInv /\ StepForward => PlayInv'
<1> SUFFICES ASSUME PlayInv, LiveInv, StepForward PROVE PlayInv'
  OBVIOUS
<1>1. Len(rows) \in Nat
  BY RowsType DEF LiveInv
<1>2. /\ seek.active /\ seek.pending = {} /\ cur < seek.to
      /\ UNCHANGED <<parserVars, seek>>
      /\ cur' = cur + 1 /\ view' = ApplyFwd(view, cur + 1)
  BY DEF StepForward
<1>3. cur \in Nat /\ seek.to \in 0..Len(rows) /\ view.live = LiveAt(cur)
  BY <1>1, <1>2 DEF PlayInv, PictureExact
<1>4. PICK p \in Nat : p = cur
  BY <1>3
<1>5. p < Len(rows) /\ p + 1 \in 0..Len(rows)
  BY <1>1, <1>2, <1>3, <1>4
<1>6. view'.live = LiveAt(p + 1)
  BY <1>2, <1>3, <1>4, <1>5, ForwardStep
<1>10. IsView(view')
  BY <1>2, ApplyView DEF PlayInv
<1>7. cur' = p + 1
  BY <1>2, <1>4
<1>8. LiveAt(cur)' = LiveAt(p + 1) /\ Len(rows)' = Len(rows) /\ phase' = phase
  BY <1>2, <1>7, StoreAtRest
<1>9. phase # "loading"
  BY <1>2 DEF PlayInv, Idle
<1> QED
  BY <1>2, <1>5, <1>6, <1>7, <1>8, <1>9, <1>10 DEF PlayInv, PictureExact

LEMMA StepBackwardPlay == PlayInv /\ LiveInv /\ StepBackward => PlayInv'
<1> SUFFICES ASSUME PlayInv, LiveInv, StepBackward PROVE PlayInv'
  OBVIOUS
<1>1. Len(rows) \in Nat
  BY RowsType DEF LiveInv
<1>2. /\ seek.active /\ seek.pending = {} /\ cur > seek.to
      /\ UNCHANGED <<parserVars, seek>>
      /\ cur' = cur - 1 /\ view' = ApplyBwd(view, cur)
  BY DEF StepBackward
<1>3. cur \in 0..Len(rows) /\ seek.to \in 0..Len(rows) /\ view.live = LiveAt(cur)
  BY <1>1, <1>2 DEF PlayInv, PictureExact
<1>4. PICK p \in Nat : p = cur - 1
  BY <1>1, <1>2, <1>3
<1>5. p < Len(rows) /\ p \in 0..Len(rows) /\ cur = p + 1
  BY <1>1, <1>3, <1>4
<1>6. view'.live = LiveAt(p)
  BY <1>2, <1>3, <1>5, BackwardStep
<1>10. IsView(view')
  BY <1>2, ApplyView DEF PlayInv
<1>7. cur' = p
  BY <1>2, <1>4
<1>8. LiveAt(cur)' = LiveAt(p) /\ Len(rows)' = Len(rows) /\ phase' = phase
  BY <1>2, <1>7, StoreAtRest
<1>9. phase # "loading"
  BY <1>2 DEF PlayInv, Idle
<1> QED
  BY <1>2, <1>5, <1>6, <1>7, <1>8, <1>9, <1>10 DEF PlayInv, PictureExact

\* Ending a seek, a new row width and a stutter leave the picture alone.
LEMMA QuietPlay ==
    ASSUME PlayInv, LiveInv, UNCHANGED <<parserVars, cur>>, view'.live = view.live, IsView(view'),
           seek' = seek \/ (seek.pending = {} /\ seek' = Idle)
    PROVE  PlayInv'
<1>1. LiveAt(cur)' = LiveAt(cur) /\ Len(rows)' = Len(rows) /\ phase' = phase
  BY DEF parserVars, store, LiveAt
<1>2. Len(rows) \in Nat
  BY RowsType DEF LiveInv
<1>3. /\ seek' \in [to : 0..Len(rows), active : BOOLEAN, pending : SUBSET Nat]
      /\ seek'.pending = seek.pending
      /\ ~seek'.active => seek'.pending = {}
  <2>1. CASE seek' = seek
    BY <2>1 DEF PlayInv
  <2>2. CASE seek.pending = {} /\ seek' = Idle
    BY <1>2, <2>2 DEF Idle
  <2> QED
    BY <2>1, <2>2
<1>4. phase = "loading" => seek' = Idle
  BY DEF PlayInv
<1> QED
  BY <1>1, <1>3, <1>4 DEF PlayInv, PictureExact

LEMMA PlayStep ==
    ASSUME PlayInv, LiveInv, LiveInv', [PlayNext]_vars
    PROVE  PlayInv'
<1>1. CASE Parse
  BY <1>1, ParseKeepsPlay
<1>2. CASE ParseEnd
  BY <1>2, ParseEndPlay
<1>3. ASSUME NEW asked \in 0..MaxEvents+1, BeginSeek(asked)
      PROVE  PlayInv'
  BY <1>3, BeginSeekPlay
<1>4. CASE InsertFromSnapshot
  BY <1>4, InsertFromSnapshotPlay
<1>5. CASE StepForward
  BY <1>5, StepForwardPlay
<1>6. CASE StepBackward
  BY <1>6, StepBackwardPlay
<1>7. CASE EndSeek
  BY <1>7, QuietPlay DEF EndSeek, PlayInv
<1>8. ASSUME NEW asked \in RowWidths, SetRowBytes(asked)
      PROVE  PlayInv'
  <2>1. UNCHANGED <<parserVars, cur, seek>>
    BY <1>8 DEF SetRowBytes
  <2>2. PICK occ : view' = [view EXCEPT !.occ = occ]
    BY <1>8 DEF SetRowBytes
  <2>3. view'.live = view.live /\ IsView(view')
    BY <2>2 DEF PlayInv, IsView
  <2> QED
    BY <2>1, <2>3, QuietPlay
<1>9. CASE UNCHANGED vars
  BY <1>9, QuietPlay DEF vars, viewVars, playVars, PlayInv
<1> QED
  BY <1>1, <1>2, <1>3, <1>4, <1>5, <1>6, <1>7, <1>8, <1>9 DEF PlayNext, SeekStep

LEMMA PlayInvariant == PlaySpec => []PlayInv
<1>1. PlaySpec => []LiveInv
  BY PlayRunsParser, LiveInvariant, PTL
<1>2. PlayInv /\ LiveInv /\ LiveInv' /\ [PlayNext]_vars => PlayInv'
  BY PlayStep
<1> QED
  BY <1>1, <1>2, InitPlay, PTL DEF PlaySpec

\* Wherever seeks, snapshots and steps in either direction have taken the
\* playhead, it shows the live set of its position (View::seek, apply_fwd,
\* apply_bwd).
THEOREM PictureCorrect == PlaySpec => []PictureExact
<1>1. PlayInv => PictureExact
  BY DEF PlayInv
<1> QED
  BY <1>1, PlayInvariant, PTL

-----------------------------------------------------------------------------
(***************************************************************************)
(* Tallies.  Counting, for every row, the blocks that touch it, and for    *)
(* every birth time or span the blocks that have it, is the same thing: a  *)
(* block touches a set of slots, many of them or just one.                 *)
(***************************************************************************)
CountBag(slots, S) ==
    [r \in UNION {slots[x] : x \in S} |-> Cardinality({x \in S : r \in slots[x]})]

LEMMA CountEmpty == ASSUME NEW slots PROVE CountBag(slots, {}) = EmptyBag
<1>1. UNION {slots[x] : x \in {}} = {}
  OBVIOUS
<1> QED
  BY <1>1 DEF CountBag, EmptyBag, SetToBag

LEMMA TouchedFinite ==
    ASSUME NEW slots, NEW S, IsFiniteSet(S), NEW r
    PROVE  /\ IsFiniteSet({x \in S : r \in slots[x]})
           /\ Cardinality({x \in S : r \in slots[x]}) \in Nat
           /\ r \in UNION {slots[x] : x \in S}
                 <=> Cardinality({x \in S : r \in slots[x]}) > 0
<1> DEFINE T == {x \in S : r \in slots[x]}
<1>1. IsFiniteSet(T)
  <2>1. T \in SUBSET S
    OBVIOUS
  <2> HIDE DEF T
  <2> QED
    BY <2>1, FS_Subset
<1>2. Cardinality(T) \in Nat /\ (Cardinality(T) = 0 <=> T = {})
  <2> HIDE DEF T
  <2> QED
    BY <1>1, FS_CardinalityType, FS_EmptySet, Zenon
<1>3. r \in UNION {slots[x] : x \in S} <=> T # {}
  OBVIOUS
<1> HIDE DEF T
<1>4. r \in UNION {slots[x] : x \in S} <=> Cardinality(T) > 0
  BY <1>2, <1>3
<1> QED
  BY <1>1, <1>2, <1>4 DEF T

LEMMA CountMore ==
    ASSUME NEW slots, NEW S, IsFiniteSet(S), NEW e, e \notin S
    PROVE  CountBag(slots, S \cup {e}) = CountBag(slots, S) (+) SetToBag(slots[e])
<1> DEFINE at(r, T) == {x \in T : r \in slots[x]}
           old == UNION {slots[x] : x \in S}
<1>1. UNION {slots[x] : x \in S \cup {e}} = old \cup slots[e]
  OBVIOUS
<1>2. ASSUME NEW r \in old \cup slots[e]
      PROVE  Cardinality(at(r, S \cup {e})) =
                 (IF r \in old THEN Cardinality(at(r, S)) ELSE 0)
                 + (IF r \in slots[e] THEN 1 ELSE 0)
  <2>1. /\ IsFiniteSet(at(r, S)) /\ Cardinality(at(r, S)) \in Nat
        /\ r \in old <=> Cardinality(at(r, S)) > 0
    BY TouchedFinite
  <2>2. CASE r \in slots[e]
    <3>1. at(r, S \cup {e}) = at(r, S) \cup {e} /\ e \notin at(r, S)
      BY <2>2
    <3> HIDE DEF at, old
    <3>2. Cardinality(at(r, S) \cup {e}) = Cardinality(at(r, S)) + 1
      BY <2>1, <3>1, FS_AddElement, Zenon
    <3>3. Cardinality(at(r, S \cup {e})) = Cardinality(at(r, S)) + 1
      BY <3>1, <3>2, Zenon
    <3> QED
      BY <2>1, <2>2, <3>3
  <2>3. CASE r \notin slots[e]
    <3>1. at(r, S \cup {e}) = at(r, S)
      BY <2>3
    <3> HIDE DEF at, old
    <3> QED
      BY <2>1, <2>3, <3>1
  <2> QED
    BY <2>2, <2>3
<1>3. CountBag(slots, S) (+) SetToBag(slots[e]) =
        [r \in old \cup slots[e] |-> (IF r \in old THEN Cardinality(at(r, S)) ELSE 0)
                                     + (IF r \in slots[e] THEN 1 ELSE 0)]
  BY DEF CountBag, SetToBag, (+)
<1>4. CountBag(slots, S \cup {e}) =
        [r \in old \cup slots[e] |-> Cardinality(at(r, S \cup {e}))]
  BY <1>1 DEF CountBag
<1> HIDE DEF at, old
<1> QED
  BY <1>2, <1>3, <1>4

LEMMA CountLess ==
    ASSUME NEW slots, NEW S, IsFiniteSet(S), NEW e \in S
    PROVE  CountBag(slots, S \ {e}) = CountBag(slots, S) (-) SetToBag(slots[e])
<1> DEFINE at(r, T) == {x \in T : r \in slots[x]}
           old == UNION {slots[x] : x \in S}
           rest == UNION {slots[x] : x \in S \ {e}}
           left == [r \in old |-> IF r \in slots[e] THEN Cardinality(at(r, S)) - 1
                                  ELSE Cardinality(at(r, S))]
<1>1. IsFiniteSet(S \ {e}) /\ rest \subseteq old
  BY FS_RemoveElement, Zenon
<1>2. ASSUME NEW r \in old
      PROVE  /\ left[r] = Cardinality(at(r, S \ {e}))
             /\ left[r] \in Nat
             /\ r \in rest <=> left[r] > 0
  <2>1. /\ IsFiniteSet(at(r, S)) /\ Cardinality(at(r, S)) \in Nat
    BY TouchedFinite
  <2>2. /\ IsFiniteSet(at(r, S \ {e})) /\ Cardinality(at(r, S \ {e})) \in Nat
        /\ r \in rest <=> Cardinality(at(r, S \ {e})) > 0
    BY <1>1, TouchedFinite
  <2>3. CASE r \in slots[e]
    <3>1. at(r, S \ {e}) = at(r, S) \ {e} /\ e \in at(r, S)
      BY <2>3
    <3> HIDE DEF at, old, rest
    <3>2. Cardinality(at(r, S) \ {e}) = Cardinality(at(r, S)) - 1
      BY <2>1, <3>1, FS_RemoveElement, Zenon
    <3> QED
      BY <2>2, <2>3, <3>1, <3>2
  <2>4. CASE r \notin slots[e]
    <3>1. at(r, S \ {e}) = at(r, S)
      BY <2>4
    <3> HIDE DEF at, old, rest
    <3> QED
      BY <2>2, <2>4, <3>1
  <2> QED
    BY <2>3, <2>4
<1>3. CountBag(slots, S) (-) SetToBag(slots[e]) = [r \in {d \in old : left[d] > 0} |-> left[r]]
  BY DEF CountBag, SetToBag, (-)
<1>4. CountBag(slots, S \ {e}) = [r \in rest |-> Cardinality(at(r, S \ {e}))]
  BY DEF CountBag
<1> HIDE DEF at, old, rest, left
<1>5. {d \in old : left[d] > 0} = rest
  BY <1>1, <1>2
<1> QED
  BY <1>1, <1>2, <1>3, <1>4, <1>5

\* The slots of an allocation in each of the three tallies.
BornAt == [e \in 1..Len(rows) |-> {rows[e].t}]
SpanIn == [e \in 1..Len(rows) |-> {Span(e)}]
RowsTouched == [e \in 1..Len(rows) |-> RowsOf(e)]

(***************************************************************************)
(* TalliesExact of any view: a step of the playhead may pass through one   *)
(* that is never shown, as a realloc does between its two halves.          *)
(***************************************************************************)
TalliesOf(v) ==
    /\ v.live \in SUBSET CreatorEvents
    /\ v.count = Cardinality(v.live)
    /\ SumFunctionOnSet(SizeOf, CreatorEvents) <= Top =>
            v.bytes = SumFunctionOnSet(SizeOf, v.live)
    /\ v.births = CountBag(BornAt, v.live)
    /\ v.spans = CountBag(SpanIn, v.live)
    /\ v.occ = CountBag(RowsTouched, v.live)

TallyInv ==
    /\ TalliesOf(view)
    /\ phase = "loading" => view = EmptyView

LEMMA LiveFinite ==
    ASSUME TypeOK, NEW S \in SUBSET CreatorEvents
    PROVE  /\ S \in SUBSET (1..Len(rows)) /\ IsFiniteSet(S) /\ Cardinality(S) \in Nat
           /\ SumFunctionOnSet(SizeOf, S) \in Nat
           /\ SumFunctionOnSet(SizeOf, S) <= SumFunctionOnSet(SizeOf, CreatorEvents)
           /\ SumFunctionOnSet(SizeOf, CreatorEvents) \in Nat
<1>1. /\ CreatorEvents \in SUBSET (1..Len(rows)) /\ S \in SUBSET (1..Len(rows))
  BY RowsType
<1>2. IsFiniteSet(S) /\ IsFiniteSet(CreatorEvents)
  BY <1>1, RowSums
<1>3. /\ SumFunctionOnSet(SizeOf, S) \in Nat
      /\ SumFunctionOnSet(SizeOf, CreatorEvents) \in Nat
      /\ \A x \in CreatorEvents : SizeOf[x] \in Nat
  BY <1>1, RowSums, ParserAssumption
<1>4. SumFunctionOnSet(SizeOf, S) <= SumFunctionOnSet(SizeOf, CreatorEvents)
  BY <1>2, <1>3, SumPart
<1> QED
  BY <1>1, <1>2, <1>3, <1>4, FS_CardinalityType

LEMMA InsertTallies ==
    ASSUME TypeOK, NEW v, TalliesOf(v), NEW e \in CreatorEvents
    PROVE  TalliesOf(InsertAlloc(v, e))
<1>1. CASE e \in v.live
  BY <1>1 DEF InsertAlloc
<1>2. CASE e \notin v.live
  <2> DEFINE S == v.live
             w == InsertAlloc(v, e)
  <2>1. /\ w.live = S \cup {e} /\ w.count = v.count + 1
        /\ w.bytes = (v.bytes + rows[e].size) % (Top + 1)
        /\ w.births = v.births (+) SetToBag({rows[e].t})
        /\ w.spans = v.spans (+) SetToBag({Span(e)})
        /\ w.occ = v.occ (+) SetToBag(RowsOf(e))
    BY <1>2 DEF InsertAlloc
  <2>2. S \in SUBSET CreatorEvents /\ S \cup {e} \in SUBSET CreatorEvents
    BY DEF TalliesOf
  <2>3. e \in 1..Len(rows) /\ IsFiniteSet(S)
    BY <2>2, LiveFinite, RowsType
  <2>4. BornAt[e] = {rows[e].t} /\ SpanIn[e] = {Span(e)} /\ RowsTouched[e] = RowsOf(e)
    BY <2>3 DEF BornAt, SpanIn, RowsTouched
  <2> HIDE DEF w
  <2>5. /\ w.births = CountBag(BornAt, S \cup {e})
        /\ w.spans = CountBag(SpanIn, S \cup {e})
        /\ w.occ = CountBag(RowsTouched, S \cup {e})
    <3>1. /\ CountBag(BornAt, S \cup {e}) = CountBag(BornAt, S) (+) SetToBag(BornAt[e])
          /\ CountBag(SpanIn, S \cup {e}) = CountBag(SpanIn, S) (+) SetToBag(SpanIn[e])
          /\ CountBag(RowsTouched, S \cup {e}) = CountBag(RowsTouched, S) (+) SetToBag(RowsTouched[e])
      BY <1>2, <2>3, CountMore
    <3> QED
      BY <2>1, <2>4, <3>1 DEF TalliesOf
  <2>6. w.count = Cardinality(S \cup {e})
    <3>1. v.count = Cardinality(S)
      BY DEF TalliesOf
    <3> HIDE DEF S
    <3>2. Cardinality(S \cup {e}) = Cardinality(S) + 1
      BY <1>2, <2>3, FS_AddElement, Zenon DEF S
    <3> QED
      BY <2>1, <3>1, <3>2
  <2>7. ASSUME SumFunctionOnSet(SizeOf, CreatorEvents) <= Top
        PROVE  w.bytes = SumFunctionOnSet(SizeOf, S \cup {e})
    <3> DEFINE more == SumFunctionOnSet(SizeOf, S \cup {e})
    <3>1. \A x \in S \cup {e} : SizeOf[x] \in Nat
      BY <2>2, RowSums, ParserAssumption
    <3>2. \A T, x : IsFiniteSet(T) /\ x \notin T /\ (\A y \in T \cup {x} : SizeOf[y] \in Nat)
              => SumFunctionOnSet(SizeOf, T \cup {x})
                    = SumFunctionOnSet(SizeOf, T) + SizeOf[x]
      BY SumAdd
    <3>3. more = v.bytes + rows[e].size
      <4>1. SizeOf[e] = rows[e].size
        BY <2>3 DEF SizeOf
      <4> QED
        BY <1>2, <2>3, <2>7, <3>1, <3>2, <4>1 DEF TalliesOf
    <3>4. more \in Nat /\ more <= Top /\ Top \in Nat
      BY <2>2, <2>7, LiveFinite, ParserAssumption
    <3> HIDE DEF more
    <3>5. more % (Top + 1) = more
      BY <3>4
    <3> QED
      BY <2>1, <3>3, <3>5 DEF more
  <2> QED
    BY <2>1, <2>2, <2>5, <2>6, <2>7 DEF TalliesOf, w
<1> QED
  BY <1>1, <1>2

LEMMA RemoveTallies ==
    ASSUME TypeOK, NEW v, TalliesOf(v), NEW e
    PROVE  TalliesOf(RemoveAlloc(v, e))
<1>1. CASE e \notin v.live
  BY <1>1 DEF RemoveAlloc
<1>2. CASE e \in v.live
  <2> DEFINE S == v.live
             w == RemoveAlloc(v, e)
  <2>1. /\ w.live = S \ {e} /\ w.count = v.count - 1
        /\ w.bytes = SatSub(v.bytes, rows[e].size)
        /\ w.births = v.births (-) SetToBag({rows[e].t})
        /\ w.spans = v.spans (-) SetToBag({Span(e)})
        /\ w.occ = v.occ (-) SetToBag(RowsOf(e))
    BY <1>2 DEF RemoveAlloc
  <2>2. S \in SUBSET CreatorEvents /\ S \ {e} \in SUBSET CreatorEvents /\ e \in S
    BY <1>2 DEF TalliesOf
  <2>3. e \in 1..Len(rows) /\ IsFiniteSet(S)
    BY <2>2, LiveFinite, RowsType
  <2>4. BornAt[e] = {rows[e].t} /\ SpanIn[e] = {Span(e)} /\ RowsTouched[e] = RowsOf(e)
    BY <2>3 DEF BornAt, SpanIn, RowsTouched
  <2> HIDE DEF w
  <2>5. /\ w.births = CountBag(BornAt, S \ {e})
        /\ w.spans = CountBag(SpanIn, S \ {e})
        /\ w.occ = CountBag(RowsTouched, S \ {e})
    <3>1. /\ CountBag(BornAt, S \ {e}) = CountBag(BornAt, S) (-) SetToBag(BornAt[e])
          /\ CountBag(SpanIn, S \ {e}) = CountBag(SpanIn, S) (-) SetToBag(SpanIn[e])
          /\ CountBag(RowsTouched, S \ {e}) = CountBag(RowsTouched, S) (-) SetToBag(RowsTouched[e])
      BY <2>2, <2>3, CountLess
    <3> QED
      BY <2>1, <2>4, <3>1 DEF TalliesOf
  <2>6. w.count = Cardinality(S \ {e})
    <3>1. v.count = Cardinality(S)
      BY DEF TalliesOf
    <3> HIDE DEF S
    <3>2. Cardinality(S \ {e}) = Cardinality(S) - 1
      BY <2>2, <2>3, FS_RemoveElement, Zenon DEF S
    <3> QED
      BY <2>1, <3>1, <3>2
  <2>7. ASSUME SumFunctionOnSet(SizeOf, CreatorEvents) <= Top
        PROVE  w.bytes = SumFunctionOnSet(SizeOf, S \ {e})
    <3>1. \A x \in S : SizeOf[x] \in Nat
      BY <2>2, RowSums, ParserAssumption
    <3>2. SumFunctionOnSet(SizeOf, S) = SizeOf[e] + SumFunctionOnSet(SizeOf, S \ {e})
      BY <2>2, <2>3, <3>1, SumWithout
    <3>3. SizeOf[e] = rows[e].size /\ rows[e].size \in Nat
      BY <2>3, RowSums DEF SizeOf
    <3>4. SumFunctionOnSet(SizeOf, S \ {e}) \in Nat
      BY <2>2, LiveFinite
    <3>5. v.bytes = SumFunctionOnSet(SizeOf, S)
      BY <2>7 DEF TalliesOf
    <3> QED
      BY <2>1, <3>2, <3>3, <3>4, <3>5 DEF SatSub
  <2> QED
    BY <2>1, <2>2, <2>5, <2>6, <2>7 DEF TalliesOf, w
<1> QED
  BY <1>1, <1>2

LEMMA ForwardTallies ==
    ASSUME LiveInv, NEW v, TalliesOf(v), NEW e \in 1..Len(rows)
    PROVE  TalliesOf(ApplyFwd(v, e))
<1>1. TypeOK
  BY DEF LiveInv
<1> DEFINE killed == IF rows[e].op \in Killers /\ rows[e].target # 0
                     THEN RemoveAlloc(v, rows[e].target) ELSE v
<1>2. TalliesOf(killed)
  BY <1>1, RemoveTallies
<1>3. ApplyFwd(v, e) = IF rows[e].op \in Creators THEN InsertAlloc(killed, e) ELSE killed
  BY DEF ApplyFwd
<1> HIDE DEF killed
<1>4. rows[e].op \in Creators => e \in CreatorEvents
  BY DEF CreatorEvents
<1>5. CASE rows[e].op \in Creators
  BY <1>1, <1>2, <1>3, <1>4, <1>5, InsertTallies
<1>6. CASE rows[e].op \notin Creators
  BY <1>2, <1>3, <1>6
<1> QED
  BY <1>5, <1>6

LEMMA BackwardTallies ==
    ASSUME LiveInv, NEW v, TalliesOf(v), NEW e \in 1..Len(rows)
    PROVE  TalliesOf(ApplyBwd(v, e))
<1>1. TypeOK
  BY DEF LiveInv
<1> DEFINE unborn == IF rows[e].op \in Creators THEN RemoveAlloc(v, e) ELSE v
<1>2. TalliesOf(unborn)
  BY <1>1, RemoveTallies
<1>3. ApplyBwd(v, e) = IF rows[e].op \in Killers /\ rows[e].target # 0
                       THEN InsertAlloc(unborn, rows[e].target) ELSE unborn
  BY DEF ApplyBwd
<1> HIDE DEF unborn
<1>4. rows[e].target # 0 => rows[e].target \in CreatorEvents
  BY DEF LiveInv, LinksInverse
<1>5. CASE rows[e].op \in Killers /\ rows[e].target # 0
  BY <1>1, <1>2, <1>3, <1>4, <1>5, InsertTallies
<1>6. CASE ~(rows[e].op \in Killers /\ rows[e].target # 0)
  BY <1>2, <1>3, <1>6
<1> QED
  BY <1>5, <1>6

\* Nothing has no tallies, in whatever store.
LEMMA EmptyTallies ==
    /\ TalliesOf(EmptyView)
    /\ view' = EmptyView => TalliesOf(view)'
<1>1. /\ EmptyView.live = {} /\ EmptyView.count = 0 /\ EmptyView.bytes = 0
      /\ EmptyView.births = EmptyBag /\ EmptyView.spans = EmptyBag
      /\ EmptyView.occ = EmptyBag
  BY DEF EmptyView
<1>2. Cardinality({}) = 0
  BY FS_EmptySet
<1>3. \A f : CountBag(f, {}) = EmptyBag /\ SumFunctionOnSet(f, {}) = 0
  BY CountEmpty, SumEmpty
<1>4. TalliesOf(EmptyView)
  BY <1>1, <1>2, <1>3 DEF TalliesOf
<1>5. ASSUME view' = EmptyView PROVE TalliesOf(view)'
  BY <1>1, <1>2, <1>3, <1>5 DEF TalliesOf
<1> QED
  BY <1>4, <1>5

\* The store and the rows at rest, what was counted stays counted.
LEMMA TallyFrame ==
    ASSUME UNCHANGED <<parserVars, rowVars>>, NEW v, TalliesOf(v), view' = v
    PROVE  TalliesOf(view)'
<1>1. UNCHANGED <<rows, rowBytes, base>>
  BY DEF parserVars, store, rowVars
<1>2. /\ CreatorEvents' = CreatorEvents /\ SizeOf' = SizeOf
      /\ BornAt' = BornAt
  BY <1>1 DEF CreatorEvents, SizeOf, BornAt
<1>3. SpanIn' = SpanIn
  BY <1>1 DEF SpanIn, Span
<1>4. RowsTouched' = RowsTouched
  BY <1>1 DEF RowsTouched, RowsOf, RowAt, EndOf, Span
<1> QED
  BY <1>2, <1>3, <1>4 DEF TalliesOf

-----------------------------------------------------------------------------
(***************************************************************************)
(* The steps.  A seek counts one block in or out at a time; a new width    *)
(* counts the rows from scratch.                                           *)
(***************************************************************************)
LEMMA QuietTallies ==
    ASSUME TallyInv, UNCHANGED <<parserVars, rowVars>>, phase = "ready",
           NEW v, TalliesOf(v), view' = v
    PROVE  TallyInv'
<1>1. TalliesOf(view)'
  BY TallyFrame
<1>2. phase' = phase
  BY DEF parserVars
<1> QED
  BY <1>1, <1>2 DEF TallyInv

LEMMA LoadingTallies ==
    ASSUME TallyInv, phase = "loading", view' = view
    PROVE  TallyInv'
<1>1. view' = EmptyView
  BY DEF TallyInv
<1> QED
  BY <1>1, EmptyTallies DEF TallyInv

LEMMA SnapshotTallies == TallyInv /\ PlayInv /\ LiveInv /\ InsertFromSnapshot => TallyInv'
<1> SUFFICES ASSUME TallyInv, PlayInv, LiveInv, InsertFromSnapshot PROVE TallyInv'
  OBVIOUS
<1>1. PICK e : e = Min(seek.pending) /\ view' = InsertAlloc(view, e)
  BY DEF InsertFromSnapshot
<1>2. /\ seek.active /\ seek.pending # {} /\ seek.pending \in SUBSET Nat
      /\ UNCHANGED <<parserVars, rowVars>>
  BY DEF InsertFromSnapshot, PlayInv
<1>3. e \in LiveAt(cur)
  BY <1>1, <1>2, LeastNat DEF PlayInv, PictureExact
<1>4. e \in CreatorEvents
  <2>1. cur \in 0..Len(rows) /\ Len(rows) \in Nat
    BY RowsType DEF PlayInv, LiveInv
  <2>2. e \in 1..cur /\ rows[e].op \in Creators
    BY <1>3 DEF LiveAt
  <2>3. e \in 1..Len(rows)
    BY <2>1, <2>2
  <2> QED
    BY <2>2, <2>3 DEF CreatorEvents
<1>5. TalliesOf(InsertAlloc(view, e))
  BY <1>4, InsertTallies DEF TallyInv, LiveInv
<1>6. phase = "ready"
  BY <1>2 DEF PlayInv, Idle, LiveInv, TypeOK
<1> QED
  BY <1>1, <1>2, <1>5, <1>6, QuietTallies

LEMMA SeekingReady == PlayInv /\ TypeOK /\ seek.active => phase = "ready"
BY DEF PlayInv, Idle, TypeOK

LEMMA BeginSeekTallies ==
    ASSUME TallyInv, NEW asked, BeginSeek(asked)
    PROVE  TallyInv'
<1>1. /\ phase = "ready" /\ UNCHANGED <<parserVars, rowVars>>
      /\ view' = view \/ view' = EmptyView
  BY DEF BeginSeek
<1>2. TalliesOf(view) /\ TalliesOf(EmptyView)
  BY EmptyTallies DEF TallyInv
<1> QED
  BY <1>1, <1>2, QuietTallies

LEMMA StepTallies ==
    ASSUME TallyInv, PlayInv, LiveInv, StepForward \/ StepBackward
    PROVE  TallyInv'
<1>1. TalliesOf(view) /\ UNCHANGED <<parserVars, rowVars>>
  BY DEF TallyInv, StepForward, StepBackward
<1>2. phase = "ready"
  BY SeekingReady DEF StepForward, StepBackward, LiveInv
<1>3. cur \in 0..Len(rows) /\ Len(rows) \in Nat /\ seek.to \in 0..Len(rows)
  BY RowsType DEF PlayInv, LiveInv
<1>4. CASE StepForward
  <2>1. PICK e : e = cur + 1
    OBVIOUS
  <2>2. e \in 1..Len(rows) /\ view' = ApplyFwd(view, e)
    BY <1>3, <1>4, <2>1 DEF StepForward
  <2>3. TalliesOf(ApplyFwd(view, e))
    BY <1>1, <2>2, ForwardTallies
  <2> QED
    BY <1>1, <1>2, <2>2, <2>3, QuietTallies
<1>5. CASE StepBackward
  <2>1. PICK e : e = cur
    OBVIOUS
  <2>2. e \in 1..Len(rows) /\ view' = ApplyBwd(view, e)
    BY <1>3, <1>5, <2>1 DEF StepBackward
  <2>3. TalliesOf(ApplyBwd(view, e))
    BY <1>1, <2>2, BackwardTallies
  <2> QED
    BY <1>1, <1>2, <2>2, <2>3, QuietTallies
<1> QED
  BY <1>4, <1>5

\* What is counted anew is what counting in one by one would have come to.
LEMMA RecountExact ==
    ASSUME UNCHANGED parserVars, NEW S \in SUBSET (1..Len(rows)), view.live = S
    PROVE  Recounted(rowBytes', base') = CountBag(RowsTouched', S)
<1>1. rows' = rows
  BY DEF parserVars, store
<1> DEFINE at(a) == SatSub(a, base') \div rowBytes'
           touched(e) == LET first == at(rows[e].addr)
                             last == at(SatSub(EndOf(e), 1))
                         IN  IF last - first > RowCap THEN {first, last} ELSE first..last
<1>2. \A e \in S : RowsTouched'[e] = touched(e)
  BY <1>1 DEF RowsTouched, RowsOf, RowAt, EndOf, Span
<1>3. Recounted(rowBytes', base') = [r \in UNION {touched(e) : e \in S} |->
                                        Cardinality({e \in S : r \in touched(e)})]
  BY DEF Recounted, Occupancy
<1> HIDE DEF touched
<1> PICK f : f = RowsTouched'
  OBVIOUS
<1>4. UNION {touched(e) : e \in S} = UNION {f[e] : e \in S}
  BY <1>2
<1>5. \A r : {e \in S : r \in touched(e)} = {e \in S : r \in f[e]}
  BY <1>2
<1>6. CountBag(f, S) = [r \in UNION {touched(e) : e \in S} |->
                            Cardinality({e \in S : r \in touched(e)})]
  BY <1>4, <1>5 DEF CountBag
<1>7. CountBag(f, S) = Recounted(rowBytes', base')
  BY <1>3, <1>6
<1> QED
  BY <1>7

LEMMA SetRowBytesTallies ==
    ASSUME TallyInv, PlayInv, LiveInv, NEW asked, SetRowBytes(asked)
    PROVE  TallyInv'
<1>1. UNCHANGED parserVars /\ UNCHANGED <<rows, phase>>
  BY DEF SetRowBytes, parserVars, store
<1>2. view' = [view EXCEPT !.occ = Recounted(rowBytes', base')]
  BY DEF SetRowBytes
<1>3. PICK S \in SUBSET CreatorEvents : S = view.live
  BY DEF TallyInv, TalliesOf
<1>4. S \in SUBSET (1..Len(rows))
  BY <1>3 DEF CreatorEvents
<1>5. PICK bag : bag = Recounted(rowBytes', base')
  OBVIOUS
<1>6. bag = CountBag(RowsTouched', S)
  BY <1>1, <1>3, <1>4, <1>5, RecountExact
<1>7. CASE phase = "ready"
  <2>1. /\ view'.live = S /\ view'.count = view.count /\ view'.bytes = view.bytes
        /\ view'.births = view.births /\ view'.spans = view.spans
        /\ view'.occ = bag
    BY <1>2, <1>3, <1>5 DEF PlayInv, IsView
  <2>2. /\ CreatorEvents' = CreatorEvents /\ SizeOf' = SizeOf
        /\ BornAt' = BornAt /\ SpanIn' = SpanIn
    BY <1>1 DEF CreatorEvents, SizeOf, BornAt, SpanIn, Span
  <2>3. TalliesOf(view)'
    BY <1>3, <1>6, <2>1, <2>2 DEF TallyInv, TalliesOf
  <2> QED
    BY <1>1, <1>7, <2>3 DEF TallyInv
<1>8. CASE phase = "loading"
  <2>1. view = EmptyView /\ S = {}
    BY <1>3, <1>8 DEF TallyInv, EmptyView
  <2>2. bag = EmptyBag
    BY <1>6, <2>1, CountEmpty
  <2>3. view' = EmptyView
    BY <1>2, <1>5, <2>1, <2>2 DEF EmptyView
  <2> QED
    BY <2>3, EmptyTallies DEF TallyInv
<1> QED
  BY <1>1, <1>7, <1>8 DEF LiveInv, TypeOK

LEMMA InitTallies == PlayInit => TallyInv
<1> SUFFICES ASSUME PlayInit PROVE TallyInv
  OBVIOUS
<1>1. view = EmptyView
  BY DEF PlayInit
<1> QED
  BY <1>1, EmptyTallies DEF TallyInv

LEMMA TallyInvariant == PlaySpec => []TallyInv
<1>1. TallyInv /\ PlayInv /\ LiveInv /\ LiveInv' /\ [PlayNext]_vars => TallyInv'
  <2> SUFFICES ASSUME TallyInv, PlayInv, LiveInv, LiveInv', [PlayNext]_vars
               PROVE  TallyInv'
    OBVIOUS
  <2>1. CASE Parse
    BY <2>1, ParseLineLoads, LoadingTallies DEF Parse, viewVars, playVars
  <2>2. CASE ParseEnd
    <3>1. view' = EmptyView
      BY <2>2 DEF ParseEnd
    <3> QED
      BY <3>1, EmptyTallies DEF TallyInv
  <2>3. ASSUME NEW asked \in 0..MaxEvents+1, BeginSeek(asked)
        PROVE  TallyInv'
    BY <2>3, BeginSeekTallies
  <2>4. CASE InsertFromSnapshot
    BY <2>4, SnapshotTallies
  <2>5. CASE StepForward \/ StepBackward
    BY <2>5, StepTallies
  <2>6. CASE EndSeek \/ UNCHANGED vars
    <3>1. UNCHANGED <<parserVars, rowVars>> /\ view' = view
      BY <2>6 DEF EndSeek, vars, viewVars, playVars
    <3>2. CASE phase = "loading"
      BY <3>1, <3>2, LoadingTallies
    <3>3. CASE phase = "ready"
      BY <3>1, <3>3, QuietTallies DEF TallyInv
    <3> QED
      BY <3>2, <3>3 DEF LiveInv, TypeOK
  <2>7. ASSUME NEW asked \in RowWidths, SetRowBytes(asked)
        PROVE  TallyInv'
    BY <2>7, SetRowBytesTallies
  <2> QED
    BY <2>1, <2>2, <2>3, <2>4, <2>5, <2>6, <2>7 DEF PlayNext, SeekStep
<1>2. PlaySpec => []LiveInv
  BY PlayRunsParser, LiveInvariant, PTL
<1> QED
  BY <1>1, <1>2, InitTallies, PlayInvariant, PTL DEF PlaySpec

LEMMA TalliesAreCounts ==
    ASSUME NEW S \in SUBSET CreatorEvents, view.live = S
    PROVE  /\ CountBag(BornAt, S) = TallyOf(LAMBDA e : rows[e].t)
           /\ CountBag(SpanIn, S) = TallyOf(Span)
           /\ CountBag(RowsTouched, S) = Occupancy(view.live, RowsOf)
<1>1. \A e \in S : /\ BornAt[e] = {rows[e].t} /\ SpanIn[e] = {Span(e)}
                   /\ RowsTouched[e] = RowsOf(e)
  BY DEF BornAt, SpanIn, RowsTouched, CreatorEvents
<1>2. CountBag(BornAt, S) = TallyOf(LAMBDA e : rows[e].t)
  <2>1. UNION {BornAt[e] : e \in S} = {rows[e].t : e \in S}
    BY <1>1
  <2>2. \A r : {e \in S : r \in BornAt[e]} = {e \in S : rows[e].t = r}
    BY <1>1
  <2> QED
    BY <2>1, <2>2 DEF CountBag, TallyOf
<1>3. CountBag(SpanIn, S) = TallyOf(Span)
  <2>1. UNION {SpanIn[e] : e \in S} = {Span(e) : e \in S}
    BY <1>1
  <2>2. \A r : {e \in S : r \in SpanIn[e]} = {e \in S : Span(e) = r}
    BY <1>1
  <2> QED
    BY <2>1, <2>2 DEF CountBag, TallyOf
<1>4. CountBag(RowsTouched, S) = Occupancy(view.live, RowsOf)
  <2>1. UNION {RowsTouched[e] : e \in S} = UNION {RowsOf(e) : e \in S}
    BY <1>1
  <2>2. \A r : {e \in S : r \in RowsTouched[e]} = {e \in S : r \in RowsOf(e)}
    BY <1>1
  <2> QED
    BY <2>1, <2>2 DEF CountBag, Occupancy
<1> QED
  BY <1>2, <1>3, <1>4

\* The running tallies, kept up one block at a time across seeks and row
\* widths, are those of the live set (View::insert_alloc, remove_alloc,
\* set_row_bytes).
THEOREM TalliesCorrect == PlaySpec => []TalliesExact
<1>1. TallyInv => TalliesExact
  BY TalliesAreCounts DEF TallyInv, TalliesOf, TalliesExact
<1> QED
  BY <1>1, TallyInvariant, PTL

-----------------------------------------------------------------------------
(***************************************************************************)
(* What a seek costs.  Snapshots stand at every multiple of the interval,  *)
(* before and after thinning, and the trace ends before the next multiple. *)
(***************************************************************************)
SnapGrid ==
    /\ \A i \in 1..Len(snaps) : snaps[i].pos = i * snapInterval
    /\ Len(snaps) * snapInterval <= Len(rows)
    /\ Len(rows) < (Len(snaps) + 1) * snapInterval

\* Half of a grid, with twice the distance between its points.
LEMMA HalfGrid ==
    ASSUME NEW L \in Nat, NEW d \in Nat \ {0}, NEW h \in Nat, h = (L + 1) \div 2
    PROVE  /\ h * (2 * d) <= (L + 1) * d
           /\ (L + 1) * d < (h + 1) * (2 * d)
           /\ \A i \in 1..h : (2 * i) * d = i * (2 * d)
<1>1. 2 * h <= L + 1 /\ L + 2 <= 2 * h + 2
  OBVIOUS
<1>2. /\ h * (2 * d) = (2 * h) * d /\ (h + 1) * (2 * d) = (2 * h + 2) * d
      /\ (L + 2) * d = (L + 1) * d + d /\ (L + 1) * d \in Nat
  OBVIOUS
<1>3. (2 * h) * d <= (L + 1) * d /\ (L + 2) * d <= (2 * h + 2) * d
  BY <1>1, TimesGrows
<1>4. \A i \in 1..h : (2 * i) * d = i * (2 * d)
  OBVIOUS
<1>5. (2 * h + 2) * d \in Nat
  OBVIOUS
<1> QED
  BY <1>2, <1>3, <1>4, <1>5

LEMMA GridStep ==
    ASSUME TypeOK, SnapGrid, Len(rows') = Len(rows) + 1, NEW e, e = Len(rows) + 1,
           NEW nowLive \in SUBSET (Nat \ {0}), Snapshot(e, nowLive)
    PROVE  SnapGrid'
<1> PICK d : d = snapInterval
  OBVIOUS
<1> PICK L : L = Len(snaps)
  OBVIOUS
<1> DEFINE entry == [pos |-> e, live |-> nowLive]
<1> PICK all : all = Append(snaps, entry)
  OBVIOUS
<1>1. /\ d \in Nat \ {0} /\ L \in Nat /\ Len(rows) \in Nat /\ e \in Nat \ {0}
      /\ snaps \in Seq(SnapRecord)
  BY RowsType DEF TypeOK, SnapType, SnapRecord
<1>2. /\ all \in Seq(SnapRecord) /\ Len(all) = L + 1
      /\ \A i \in 1..L : all[i] = snaps[i]
      /\ all[L + 1] = entry
  BY <1>1 DEF SnapRecord
<1>3. L * d <= Len(rows) /\ Len(rows) < (L + 1) * d
  BY DEF SnapGrid
<1>4. /\ e % d = 0 => e = (L + 1) * d
      /\ e % d # 0 => e < (L + 1) * d
  BY <1>1, <1>3, NextMultiple
<1>5. CASE e % d # 0
  <2>1. snaps' = snaps /\ snapInterval' = d
    BY <1>5 DEF Snapshot
  <2>2. L * d \in Nat
    BY <1>1
  <2>3. L * d <= e /\ e < (L + 1) * d
    BY <1>1, <1>3, <1>4, <1>5, <2>2
  <2> QED
    BY <2>1, <2>3 DEF SnapGrid
<1>6. CASE e % d = 0
  <2>1. e = (L + 1) * d
    BY <1>4, <1>6
  <2>2. \A i \in 1..L+1 : all[i].pos = i * d
    <3> TAKE i \in 1..L+1
    <3>1. CASE i \in 1..L
      BY <1>2, <3>1 DEF SnapGrid
    <3>2. CASE i = L + 1
      BY <1>2, <2>1, <3>2
    <3> QED
      BY <1>1, <3>1, <3>2
  <2>3. \/ snaps' = all /\ snapInterval' = d
        \/ snaps' = Thin(all) /\ snapInterval' = 2 * d
    BY <1>6 DEF Snapshot
  <2>4. CASE snaps' = all /\ snapInterval' = d
    <3>1. (L + 2) * d = (L + 1) * d + d /\ (L + 1) * d \in Nat /\ (L + 1) + 1 = L + 2
      BY <1>1
    <3>2. (L + 1) * d <= e /\ e < ((L + 1) + 1) * d
      BY <1>1, <2>1, <3>1
    <3> QED
      BY <1>2, <2>2, <2>4, <3>2 DEF SnapGrid
  <2>5. CASE snaps' = Thin(all) /\ snapInterval' = 2 * d
    <3>1. PICK h \in Nat : h = (L + 1) \div 2
      BY <1>1
    <3>2. /\ Len(snaps') = h
          /\ \A i \in 1..h : 2 * i \in 1..L+1 /\ snaps'[i] = all[2 * i]
      <4>1. /\ Len(Thin(all)) = Len(all) \div 2
            /\ \A i \in 1..Len(all) \div 2 : 2 * i \in 1..Len(all) /\ Thin(all)[i] = all[2 * i]
        <5>1. all \in Seq(SnapRecord)
          BY <1>2
        <5>2. \A s \in Seq(SnapRecord) :
                /\ Len(Thin(s)) = Len(s) \div 2
                /\ \A i \in 1..Len(s) \div 2 :
                       2 * i \in 1..Len(s) /\ Thin(s)[i] = s[2 * i]
          BY ThinShape
        <5> QED
          BY <5>1, <5>2, Zenon
      <4>2. Len(all) \div 2 = h /\ Len(all) = L + 1
        BY <1>2, <3>1
      <4> QED
        BY <2>5, <4>1, <4>2
    <3>3. /\ h * (2 * d) <= (L + 1) * d /\ (L + 1) * d < (h + 1) * (2 * d)
          /\ \A i \in 1..h : (2 * i) * d = i * (2 * d)
      BY <1>1, <3>1, HalfGrid
    <3>4. \A i \in 1..h : snaps'[i].pos = i * (2 * d)
      BY <2>2, <3>2, <3>3
    <3>5. PICK g : g = 2 * d /\ snapInterval' = g
      BY <2>5
    <3>6. /\ \A i \in 1..h : snaps'[i].pos = i * g
          /\ h * g <= e /\ e < (h + 1) * g
      BY <2>1, <3>3, <3>4, <3>5
    <3>7. Len(rows') = e
      OBVIOUS
    <3> QED
      BY <3>2, <3>5, <3>6, <3>7 DEF SnapGrid
  <2> QED
    BY <2>3, <2>4, <2>5
<1> QED
  BY <1>5, <1>6

LEMMA SnapGridInvariant == ParserSpec => []SnapGrid
<1>1. Init => SnapGrid
  <2> SUFFICES ASSUME Init PROVE SnapGrid
    OBVIOUS
  <2>1. Len(rows) = 0 /\ Len(snaps) = 0 /\ snapInterval \in Nat \ {0}
    BY ParserAssumption DEF Init
  <2> QED
    BY <2>1 DEF SnapGrid
<1>2. LiveInv /\ TypeOK' /\ SnapGrid /\ [Next]_parserVars => SnapGrid'
  <2> SUFFICES ASSUME LiveInv, TypeOK', SnapGrid, [Next]_parserVars PROVE SnapGrid'
    OBVIOUS
  <2>1. CASE NewEvent
    <3> PICK op \in Ops, id \in OptIds, kid \in OptIds, a \in 0..Top, sz \in 0..Top,
             us \in 0..Top, tIn \in OptTimes, seqBad \in BOOLEAN :
             Loading /\ EventRow(op, id, kid, a, sz, us, tIn, seqBad)
      BY <2>1 DEF NewEvent
    <3>1. Len(rows') = Len(rows) + 1 /\ live' = LiveAt(Len(rows))'
      BY EventColumns, LiveMapStep
    <3>2. live' \in SUBSET (Nat \ {0})
      BY <3>1 DEF LiveAt
    <3>3. TypeOK /\ Snapshot(Len(rows) + 1, live')
      BY DEF LiveInv, EventRow
    <3> QED
      BY <3>1, <3>2, <3>3, GridStep
  <2>2. CASE NoRow
    BY <2>2 DEF NoRow, SnapGrid
  <2> QED
    BY <2>1, <2>2, RowOrNot DEF LiveInv
<1> QED
  BY <1>1, <1>2, TypeCorrect, LiveInvariant, PTL DEF ParserSpec

\* The snapshot a seek may start from is less than an interval away.
LEMMA BestSnapNear ==
    ASSUME LiveInv, SnapGrid, NEW to \in 0..Len(rows)
    PROVE  to - BestSnap(to).pos < snapInterval
<1> PICK d : d = snapInterval
  OBVIOUS
<1> PICK L : L = Len(snaps)
  OBVIOUS
<1>1. d \in Nat \ {0} /\ L \in Nat /\ Len(rows) \in Nat /\ to \in Nat
  BY RowsType DEF LiveInv, TypeOK, SnapType
<1>2. \A i \in 1..L : snaps[i].pos = i * d
  BY DEF SnapGrid
<1>3. to < (L + 1) * d
  BY <1>1 DEF SnapGrid
<1>4. PICK m \in 0..L : /\ BestSnap(to).pos = m * d
                        /\ m < L => to < (m + 1) * d
  <2>1. SnapsBefore(to) = {i \in 1..L : i * d <= to}
    BY <1>2 DEF SnapsBefore
  <2>2. CASE SnapsBefore(to) = {}
    <3>1. BestSnap(to).pos = 0 * d
      BY <1>1, <2>2 DEF BestSnap
    <3>2. 0 < L => to < (0 + 1) * d
      BY <1>1, <2>1, <2>2
    <3> QED
      BY <1>1, <3>1, <3>2
  <2>3. CASE SnapsBefore(to) # {}
    <3>1. SnapsBefore(to) \in SUBSET (0..L)
      BY <1>1 DEF SnapsBefore
    <3>2. PICK m : m = Max(SnapsBefore(to))
      OBVIOUS
    <3>3. m \in SnapsBefore(to) /\ \A i \in SnapsBefore(to) : i <= m
      BY <1>1, <2>3, <3>1, <3>2, GreatestBelow
    <3>4. m \in 1..L /\ BestSnap(to).pos = m * d
      BY <1>2, <2>1, <2>3, <3>2, <3>3 DEF BestSnap
    <3>5. m < L => to < (m + 1) * d
      <4> HAVE m < L
      <4>1. m + 1 \in 1..L /\ m + 1 \notin SnapsBefore(to)
        BY <1>1, <3>3, <3>4
      <4>2. (m + 1) * d \in Nat
        BY <1>1, <3>4
      <4> QED
        BY <1>1, <2>1, <4>1, <4>2
    <3> QED
      BY <1>1, <3>4, <3>5
  <2> QED
    BY <2>2, <2>3
<1>5. to < (m + 1) * d
  BY <1>1, <1>3, <1>4
<1>6. (m + 1) * d = m * d + d /\ m * d \in Nat
  BY <1>1
<1> QED
  BY <1>1, <1>4, <1>5, <1>6

\* However long the trace and however far the seek, it steps over at most
\* about an interval of events (View::seek).
THEOREM SeeksAreCheap == PlaySpec => SeekCostBounded
<1>1. /\ PlayInv /\ TallyInv /\ LiveInv /\ SnapGrid /\ [PlayNext]_vars
      /\ ~seek.active /\ seek'.active
      => Distance(cur', seek'.to) <= snapInterval + view.count \div 4
  <2> SUFFICES ASSUME PlayInv, TallyInv, LiveInv, SnapGrid, [PlayNext]_vars,
                      ~seek.active, seek'.active
               PROVE  Distance(cur', seek'.to) <= snapInterval + view.count \div 4
    OBVIOUS
  <2>1. ASSUME NEW asked \in 0..MaxEvents+1, BeginSeek(asked)
        PROVE  Distance(cur', seek'.to) <= snapInterval + view.count \div 4
    <3> PICK to : to = SeekTarget(asked)
      OBVIOUS
    <3> PICK pos : pos = BestSnap(to).pos
      OBVIOUS
    <3> PICK few : few = view.count \div 4
      OBVIOUS
    <3>1. Len(rows) \in Nat /\ to \in 0..Len(rows)
      BY RowsType, ParserAssumption DEF LiveInv, SeekTarget, Min2
    <3>2. /\ pos \in 0..to /\ to - pos < snapInterval /\ snapInterval \in Nat
          /\ to \in Nat /\ pos \in Nat
      BY <3>1, BestSnapExact, BestSnapNear DEF LiveInv, TypeOK, SnapType
    <3>3. few \in Nat
      <4>1. view.count \in Nat
        BY LiveFinite DEF TallyInv, TalliesOf, LiveInv
      <4> QED
        BY <4>1
    <3>4. CASE Replays(to)
      <4>1. cur' = cur /\ seek'.to = to
        BY <3>4, <2>1 DEF BeginSeek
      <4>2. Distance(cur, to) <= (to - pos) + few + Min2(pos, 1)
        BY <3>4 DEF Replays
      <4>3. Min2(pos, 1) \in 0..1
        BY <3>2 DEF Min2
      <4>4. PICK n : n = Distance(cur, to)
        OBVIOUS
      <4>5. n \in Nat
        BY <3>1, <4>4 DEF Distance, PlayInv
      <4>6. n <= snapInterval + few
        BY <3>2, <3>3, <4>2, <4>3, <4>4, <4>5
      <4> QED
        BY <4>1, <4>4, <4>6
    <3>5. CASE ~Replays(to)
      <4>1. cur' = pos /\ seek'.to = to
        BY <3>5, <2>1 DEF BeginSeek
      <4>2. Distance(pos, to) = to - pos
        BY <3>2 DEF Distance
      <4> QED
        BY <3>2, <3>3, <4>1, <4>2
    <3> QED
      BY <3>4, <3>5
  <2>2. CASE SeekStep
    BY <2>2 DEF SeekStep, InsertFromSnapshot, StepForward, StepBackward, EndSeek, Idle
  <2>3. CASE Parse \/ ParseEnd \/ (\E asked \in RowWidths : SetRowBytes(asked))
             \/ UNCHANGED vars
    BY <2>3 DEF Parse, ParseEnd, SetRowBytes, Idle, vars, viewVars, playVars
  <2> QED
    BY <2>1, <2>2, <2>3 DEF PlayNext
<1>2. PlaySpec => []LiveInv /\ []SnapGrid
  BY PlayRunsParser, LiveInvariant, SnapGridInvariant, PTL
<1>3. PlaySpec => []PlayInv /\ []TallyInv /\ [][PlayNext]_vars
  BY PlayInvariant, TallyInvariant, PTL DEF PlaySpec
<1>4. /\ PlayInv /\ TallyInv /\ LiveInv /\ SnapGrid /\ [PlayNext]_vars
      => [~seek.active /\ seek'.active =>
             Distance(cur', seek'.to) <= snapInterval + view.count \div 4]_vars
  BY <1>1
<1> QED
  BY <1>2, <1>3, <1>4, PTL DEF SeekCostBounded

-----------------------------------------------------------------------------
(***************************************************************************)
(* Row 0.  The base follows from the lowest address of any block, and that *)
(* one is kept up line by line; it stands at Top while there is none, and  *)
(* is replaced by the header's word when the trace ends without one.       *)
(***************************************************************************)
LowestAddr == \A e \in CreatorEvents : addrMin <= rows[e].addr

BaseAligned ==
    /\ rowBytes \in Nat \ {0}
    /\ phase = "ready" => base = AlignedBase(arenaBase, addrMin, rowBytes)

LEMMA LowestStep ==
    ASSUME LiveInv, LowestAddr, Loading, NEW op \in Ops, NEW id \in OptIds,
           NEW kid \in OptIds, NEW a \in 0..Top, NEW sz, NEW us, NEW tIn, NEW seqBad,
           EventRow(op, id, kid, a, sz, us, tIn, seqBad)
    PROVE  LowestAddr'
<1> PICK k : k = Len(rows) + 1
  OBVIOUS
<1>1. /\ Len(rows) \in Nat /\ Len(rows') = k /\ rows'[k].op = op
      /\ \A x \in 1..Len(rows) : rows'[x] = rows[x]
  BY EventColumns
<1>2. rows'[k].addr = (IF op \in Creators THEN a ELSE 0)
  <2>1. rows'[k] = NewRow(op, id, kid, a, sz, us, tIn)
    BY DEF LiveInv, TypeOK, LinkType, EventRow
  <2> QED
    BY <2>1 DEF NewRow
<1>3. addrMin \in Nat /\ a \in Nat
  BY ParserAssumption DEF LiveInv, TypeOK, GeometryType
<1>4. addrMin' = IF op \in Creators THEN Min2(addrMin, a) ELSE addrMin
  BY DEF EventRow, Account
<1>5. ASSUME NEW e \in CreatorEvents' PROVE addrMin' <= rows'[e].addr
  <2>1. e \in 1..k /\ rows'[e].op \in Creators
    BY <1>1 DEF CreatorEvents
  <2>2. CASE e = k
    BY <1>1, <1>2, <1>3, <1>4, <2>1, <2>2 DEF Min2
  <2>3. CASE e \in 1..Len(rows)
    <3>1. rows'[e] = rows[e] /\ e \in CreatorEvents
      BY <1>1, <2>1, <2>3 DEF CreatorEvents
    <3>2. addrMin <= rows[e].addr /\ rows[e].addr \in Nat
      BY <2>3, <3>1, RowGeometry, ParserAssumption DEF LowestAddr, LiveInv
    <3> QED
      BY <1>3, <1>4, <3>1, <3>2 DEF Min2
  <2> QED
    BY <1>1, <2>1, <2>2, <2>3
<1> QED
  BY <1>5 DEF LowestAddr

LEMMA LowestInvariant == ParserSpec => []LowestAddr
<1>1. Init => LowestAddr
  BY DEF Init, LowestAddr, CreatorEvents
<1>2. LiveInv /\ LowestAddr /\ [Next]_parserVars => LowestAddr'
  <2> SUFFICES ASSUME LiveInv, LowestAddr, [Next]_parserVars PROVE LowestAddr'
    OBVIOUS
  <2>1. CASE NewEvent
    BY <2>1, LowestStep DEF NewEvent
  <2>2. CASE NoRow
    <3>1. rows' = rows /\ CreatorEvents' = CreatorEvents
      BY <2>2 DEF NoRow, CreatorEvents
    <3>2. CASE addrMin' = addrMin
      BY <3>1, <3>2 DEF LowestAddr
    <3>3. CASE Finish /\ addrMin = Top /\ addrMin' = arenaBase
      <4>1. ASSUME NEW e \in CreatorEvents PROVE arenaBase <= rows[e].addr
        <5>1. arenaBase \in 0..Top /\ rows[e].addr \in 0..Top /\ Top \in Nat
          BY RowGeometry, ParserAssumption DEF LiveInv, TypeOK, GeometryType, CreatorEvents
        <5>2. Top <= rows[e].addr
          BY <3>3 DEF LowestAddr
        <5> QED
          BY <5>1, <5>2
      <4> QED
        BY <3>1, <3>3, <4>1 DEF LowestAddr
    <3>4. addrMin' = addrMin \/ (Finish /\ addrMin = Top /\ addrMin' = arenaBase)
      BY <2>2 DEF NoRow, Finish
    <3> QED
      BY <3>2, <3>3, <3>4
  <2> QED
    BY <2>1, <2>2, RowOrNot DEF LiveInv
<1> QED
  BY <1>1, <1>2, LiveInvariant, PTL DEF ParserSpec

LEMMA BaseInvariant == PlaySpec => []BaseAligned
<1>1. PlayInit => BaseAligned
  BY PlayheadAssumption DEF PlayInit, Init, BaseAligned
<1>2. LiveInv /\ BaseAligned /\ [PlayNext]_vars => BaseAligned'
  <2> SUFFICES ASSUME LiveInv, BaseAligned, [PlayNext]_vars PROVE BaseAligned'
    OBVIOUS
  <2>1. CASE Parse
    <3>1. phase' = "loading" /\ rowBytes' = rowBytes
      BY <2>1, ParseLineLoads DEF Parse, viewVars, rowVars
    <3> QED
      BY <3>1 DEF BaseAligned
  <2>2. CASE ParseEnd
    <3>1. rowBytes' \in Nat \ {0}
      BY <2>2 DEF ParseEnd, BaseAligned, LiveInv, TypeOK, GeometryType
    <3>2. arenaBase' = arenaBase /\ base' = AlignedBase(arenaBase, addrMin', rowBytes')
      BY <2>2 DEF ParseEnd, Finish
    <3> QED
      BY <3>1, <3>2 DEF BaseAligned, AlignedBase
  <2>3. CASE UNCHANGED <<parserVars, rowVars>>
    BY <2>3 DEF parserVars, store, rowVars, BaseAligned, AlignedBase
  <2>4. ASSUME NEW asked \in RowWidths, SetRowBytes(asked)
        PROVE  BaseAligned'
    <3>1. UNCHANGED <<phase, arenaBase, addrMin>>
      BY <2>4 DEF SetRowBytes, parserVars, store
    <3>2. rowBytes' = Max2(asked, MinRowBytes) /\ rowBytes' \in Nat \ {0}
      BY <2>4, PlayheadAssumption DEF SetRowBytes, Max2
    <3>3. phase = "ready" => base' = AlignedBase(arenaBase, addrMin, rowBytes')
      BY <2>4, <3>2 DEF SetRowBytes
    <3> QED
      BY <3>1, <3>2, <3>3 DEF BaseAligned, AlignedBase
  <2>5. ASSUME (\E asked \in 0..MaxEvents+1 : BeginSeek(asked)) \/ SeekStep
        PROVE  UNCHANGED <<parserVars, rowVars>>
    BY <2>5 DEF BeginSeek, SeekStep, InsertFromSnapshot, StepForward, StepBackward,
                EndSeek
  <2> QED
    BY <2>1, <2>2, <2>3, <2>4, <2>5 DEF PlayNext, vars, viewVars
<1>3. PlaySpec => []LiveInv
  BY PlayRunsParser, LiveInvariant, PTL
<1> QED
  BY <1>1, <1>2, <1>3, PTL DEF PlaySpec

LEMMA AlignedBelow ==
    ASSUME NEW arena \in Nat, NEW low \in Nat, NEW width \in Nat \ {0}
    PROVE  AlignedBase(arena, low, width) <= low
<1> DEFINE lo == IF arena # 0 THEN Min2(arena, low) ELSE low
           from == IF lo = Top THEN 0 ELSE lo
<1>1. from \in Nat /\ from <= low
  BY DEF Min2
<1>2. AlignedBase(arena, low, width) = from - (from % width)
  BY DEF AlignedBase
<1> HIDE DEF from
<1>3. from % width \in 0..width-1
  BY <1>1, Quotient
<1> QED
  BY <1>1, <1>2, <1>3

\* No block starts below row 0, wherever the header says the arena starts and
\* whatever row width is asked for (View::recompute_base).
THEOREM BaseCorrect == PlaySpec => []BaseBelowAll
<1>1. LiveInv /\ LowestAddr /\ BaseAligned => BaseBelowAll
  <2> SUFFICES ASSUME LiveInv, LowestAddr, BaseAligned, phase = "ready",
                      NEW e \in CreatorEvents
               PROVE  base <= rows[e].addr
    BY DEF BaseBelowAll
  <2>1. arenaBase \in Nat /\ addrMin \in Nat /\ rows[e].addr \in Nat
    BY RowGeometry, ParserAssumption DEF LiveInv, TypeOK, GeometryType, CreatorEvents
  <2>2. PICK b : b = AlignedBase(arenaBase, addrMin, rowBytes)
    OBVIOUS
  <2>3. b <= addrMin /\ base = b /\ b \in Int
    <3>1. b <= addrMin
      BY <2>1, <2>2, AlignedBelow DEF BaseAligned
    <3>2. b \in Int
      BY <2>1, <2>2, Quotient DEF BaseAligned, AlignedBase, Min2
    <3> QED
      BY <2>2, <3>1, <3>2 DEF BaseAligned
  <2>4. addrMin <= rows[e].addr
    BY DEF LowestAddr
  <2> QED
    BY <2>1, <2>3, <2>4
<1>2. PlaySpec => []LiveInv /\ []LowestAddr
  BY PlayRunsParser, LiveInvariant, LowestInvariant, PTL
<1> QED
  BY <1>1, <1>2, BaseInvariant, PTL

-----------------------------------------------------------------------------
(***************************************************************************)
(* The abstract history.  Its recursion over the events so far has one     *)
(* solution, and the live sets that the links give are one; so that they   *)
(* are the one.                                                            *)
(***************************************************************************)
\* The trace as HeapHistory sees it.
Told == [e \in 1..Len(rows) |-> [kills |-> rows[e].target,
                                creates |-> rows[e].op \in Creators]]

AliveRule(h, g) ==
    g = [p \in 0..Len(h) |-> IF p = 0 THEN {} ELSE History!After(g[p-1], p, h[p])]

LEMMA AliveIsRule == ASSUME NEW h PROVE History!Alive(h) = CHOOSE g : AliveRule(h, g)
BY DEF History!Alive, AliveRule

LEMMA ToldShape ==
    ASSUME Len(rows) \in Nat
    PROVE  /\ Len(Told) = Len(rows)
           /\ \A e \in 1..Len(rows) : /\ Told[e].kills = rows[e].target
                                      /\ Told[e].creates = (rows[e].op \in Creators)
BY DEF Told

LEMMA LiveSetsAreAlive ==
    ASSUME LiveInv
    PROVE  AliveRule(Told, [p \in 0..Len(rows) |-> LiveAt(p)])
<1> PICK n \in Nat : n = Len(rows)
  BY RowsType DEF LiveInv
<1> DEFINE g == [p \in 0..n |-> LiveAt(p)]
<1>1. Len(Told) = n
  BY ToldShape
<1>2. ASSUME NEW p \in 0..n
      PROVE  g[p] = IF p = 0 THEN {} ELSE History!After(g[p-1], p, Told[p])
  <2>1. CASE p = 0
    BY <2>1 DEF LiveAt
  <2>2. CASE p # 0
    <3>1. PICK q \in Nat : q = p - 1
      BY <2>2
    <3>2. q < Len(rows) /\ q + 1 = p /\ p \in 1..n /\ q \in 0..n
      BY <2>2, <3>1
    <3>3. LiveAt(q + 1) = (LiveAt(q) \ {rows[q+1].target})
                          \cup (IF rows[q+1].op \in Creators THEN {q + 1} ELSE {})
      BY <3>2, LiveForward
    <3>4. g[p] = LiveAt(p) /\ g[q] = LiveAt(q)
      BY <3>2
    <3>5. /\ Told[p].kills = rows[p].target
          /\ Told[p].creates = (rows[p].op \in Creators)
      BY <3>2, ToldShape
    <3> HIDE DEF g
    <3> QED
      BY <2>2, <3>1, <3>2, <3>3, <3>4, <3>5 DEF History!After
  <2> QED
    BY <2>1, <2>2
<1>3. g = [p \in 0..n |-> IF p = 0 THEN {} ELSE History!After(g[p-1], p, Told[p])]
  <2>1. \A p \in 0..n : g[p] = IF p = 0 THEN {} ELSE History!After(g[p-1], p, Told[p])
    BY <1>2
  <2>2. g = [p \in 0..n |-> g[p]]
    OBVIOUS
  <2> HIDE DEF g
  <2> QED
    BY <2>1, <2>2
<1> QED
  BY <1>1, <1>3 DEF AliveRule

LEMMA AliveUnique ==
    ASSUME NEW h, Len(h) \in Nat, NEW f, NEW g, AliveRule(h, f), AliveRule(h, g)
    PROVE  f = g
<1> DEFINE Bad == {p \in 0..Len(h) : f[p] # g[p]}
<1>1. \A p \in 0..Len(h) :
        /\ f[p] = IF p = 0 THEN {} ELSE History!After(f[p-1], p, h[p])
        /\ g[p] = IF p = 0 THEN {} ELSE History!After(g[p-1], p, h[p])
  BY DEF AliveRule
<1>2. ASSUME Bad # {} PROVE FALSE
  <2>1. Bad \in SUBSET Nat
    OBVIOUS
  <2>2. PICK p : p = Min(Bad)
    OBVIOUS
  <2>3. p \in Bad /\ \A q \in Bad : p <= q
    <3> HIDE DEF Bad
    <3> QED
      BY <1>2, <2>1, <2>2, LeastNat
  <2>4. p \in 0..Len(h) /\ p # 0
    BY <1>1, <2>3
  <2>5. PICK q : q = p - 1
    OBVIOUS
  <2>6. q \in 0..Len(h) /\ q \notin Bad
    BY <2>3, <2>4, <2>5
  <2>7. f[q] = g[q]
    BY <2>6
  <2>8. f[p] = History!After(f[q], p, h[p]) /\ g[p] = History!After(g[q], p, h[p])
    BY <1>1, <2>4, <2>5
  <2> QED
    BY <2>3, <2>7, <2>8
<1>3. \A p \in 0..Len(h) : f[p] = g[p]
  BY <1>2
<1>4. /\ f = [p \in 0..Len(h) |-> f[p]] /\ g = [p \in 0..Len(h) |-> g[p]]
  BY DEF AliveRule
<1> QED
  BY <1>3, <1>4

LEMMA AliveIsLive ==
    ASSUME LiveInv, NEW p \in 0..Len(rows)
    PROVE  History!Alive(Told)[p] = LiveAt(p)
<1> DEFINE g == [q \in 0..Len(rows) |-> LiveAt(q)]
<1> PICK f : f = History!Alive(Told)
  OBVIOUS
<1>1. AliveRule(Told, g)
  BY LiveSetsAreAlive
<1>2. AliveRule(Told, f)
  <2> HIDE DEF g
  <2> QED
    BY <1>1, AliveIsRule
<1>3. Len(Told) \in Nat
  BY RowsType, ToldShape DEF LiveInv
<1>4. f = g
  <2> HIDE DEF g
  <2> QED
    BY <1>1, <1>2, <1>3, AliveUnique
<1> QED
  BY <1>4

(***************************************************************************)
(* The refinement.  Between two seeks the abstract reader looks at what    *)
(* the playhead shows.                                                     *)
(***************************************************************************)
Resting == ~seek.active => restAt = cur /\ restView = view.live

Tells == [History!HistNext]_(History!histVars)

LEMMA RestRunsPlay == RestSpec => PlaySpec
<1>1. RestInit => PlayInit
  BY DEF RestInit
<1>2. [RestNext]_<<vars, restVars>> => [PlayNext]_vars
  BY DEF RestNext
<1> QED
  BY <1>1, <1>2, PTL DEF RestSpec, PlaySpec

LEMMA AtRestInvariant == RestSpec => []Resting
<1>1. RestInit => Resting
  BY DEF RestInit, PlayInit, Resting, EmptyView
<1>2. PlayInv /\ Resting /\ [RestNext]_<<vars, restVars>> => Resting'
  <2> SUFFICES ASSUME Resting, [RestNext]_<<vars, restVars>> PROVE Resting'
    OBVIOUS
  <2>1. CASE Rest
    BY <2>1 DEF Rest, Resting
  <2>2. CASE UNCHANGED <<vars, restVars>>
    BY <2>2 DEF Resting, vars, viewVars, playVars, restVars
  <2> QED
    BY <2>1, <2>2 DEF RestNext
<1>3. RestSpec => []PlayInv
  BY RestRunsPlay, PlayInvariant, PTL
<1> QED
  BY <1>1, <1>2, <1>3, PTL DEF RestSpec

\* A step that moves neither the events nor the reader tells nothing.
LEMMA Untold ==
    ASSUME UNCHANGED <<rows, phase, restAt, restView>>
    PROVE  Tells
BY DEF Tells, History!histVars

\* One more argument for a function on an initial part of the numbers.
LEMMA AppendedFunction ==
    ASSUME NEW S, NEW n \in Nat, NEW f \in [1..n -> S], NEW g \in [1..n+1 -> S],
           \A e \in 1..n : g[e] = f[e]
    PROVE  g = Append(f, g[n + 1])
<1>0. \A e \in 1..n : e \in 1..n+1 /\ e # n + 1
  OBVIOUS
<1>2. g[n+1] \in S
  OBVIOUS
<1> PICK x : x = g[n+1]
  OBVIOUS
<1>3. f \in Seq(S) /\ Len(f) = n
  OBVIOUS
<1>4. Append(f, x) \in Seq(S) /\ Len(Append(f, x)) = n + 1
  BY <1>2, <1>3
<1>5. g \in Seq(S) /\ Len(g) = n + 1
  OBVIOUS
<1>6. ASSUME NEW e \in 1..n+1 PROVE g[e] = Append(f, x)[e]
  <2>1. CASE e = n + 1
    BY <1>3, <2>1
  <2>2. CASE e \in 1..n
    <3>1. \A s \in Seq(S), y \in S : \A i \in 1..Len(s) : Append(s, y)[i] = s[i]
      OBVIOUS
    <3>2. Append(f, x)[e] = f[e]
      BY <1>2, <1>3, <2>2, <3>1
    <3> QED
      BY <2>2, <3>2
  <2> QED
    BY <2>1, <2>2
<1> QED
  BY <1>3, <1>4, <1>5, <1>6

LEMMA Boolean ==
    ASSUME NEW a, NEW S
    PROVE  \E c \in BOOLEAN : c = (a \in S)
<1>1. CASE a \in S
  <2>1. TRUE = (a \in S)
    BY <1>1
  <2> QED
    BY <2>1, Zenon
<1>2. CASE a \notin S
  <2>1. FALSE = (a \in S)
    BY <1>2
  <2> QED
    BY <2>1, Zenon
<1> QED
  BY <1>1, <1>2

LEMMA EventTold ==
    ASSUME LiveInv, NewEvent, UNCHANGED <<restAt, restView>>
    PROVE  Tells
<1> PICK op \in Ops, id \in OptIds, kid \in OptIds, a \in 0..Top, sz \in 0..Top,
         us \in 0..Top, tIn \in OptTimes, seqBad \in BOOLEAN :
         Loading /\ EventRow(op, id, kid, a, sz, us, tIn, seqBad)
  BY DEF NewEvent
<1> PICK n \in Nat : n = Len(rows)
  BY EventColumns
<1> PICK kills : kills = RowTarget(op, kid)
  OBVIOUS
<1> PICK creates \in BOOLEAN : creates = (op \in Creators)
  BY Boolean
<1>1. /\ Len(rows') = n + 1 /\ phase = "loading" /\ phase' = phase
      /\ \A x \in 1..n : rows'[x] = rows[x]
      /\ rows'[n + 1].op = op /\ rows'[n + 1].target = kills
      /\ kills # 0 => kills \in CreatorEvents /\ death[kills] = 0
  BY EventColumns DEF EventRow
<1>2. kills # 0 => kills \in LiveAt(n)
  BY <1>1 DEF LiveAt, CreatorEvents
<1>3. kills # 0 => kills \in History!Alive(Told)[n]
  BY <1>2, AliveIsLive
<1>4. kills \in 0..n
  BY <1>1 DEF CreatorEvents
<1>5. Len(Told) = n
  BY ToldShape
<1>6. Told' = Append(Told, [kills |-> kills, creates |-> creates])
  <2>1. Told' = [e \in 1..n+1 |-> [kills |-> rows'[e].target,
                                  creates |-> rows'[e].op \in Creators]]
    BY <1>1 DEF Told
  <2>2. \A e \in 1..n : Told'[e] = Told[e]
    BY <1>1, <2>1 DEF Told
  <2>3. Told'[n + 1] = [kills |-> kills, creates |-> creates]
    BY <1>1, <2>1
  <2>4. Told = [e \in 1..n |-> Told[e]]
    BY DEF Told
  <2> PICK told : told = Told'
    OBVIOUS
  <2>5. told = [e \in 1..n+1 |-> told[e]]
    BY <2>1
  <2>6. \A e \in 1..n : e \in 1..n+1 /\ told[e] = Told[e]
    BY <2>2
  <2> PICK S : S = {told[e] : e \in 1..n+1}
    OBVIOUS
  <2>7. told \in [1..n+1 -> S]
    BY <2>5
  <2>8. \A e \in 1..n : Told[e] \in S
    BY <2>6
  <2> PICK before : before = Told
    OBVIOUS
  <2>9. before \in [1..n -> S] /\ \A e \in 1..n : told[e] = before[e]
    BY <2>4, <2>6, <2>8
  <2>10. told = Append(before, told[n + 1])
    BY <2>7, <2>9, AppendedFunction
  <2> QED
    BY <2>3, <2>10
<1>7. History!Happen(kills, creates)
  BY <1>1, <1>3, <1>5, <1>6 DEF History!Happen, Told
<1> QED
  BY <1>4, <1>5, <1>7 DEF Tells, History!HistNext, Told

LEMMA SealTold ==
    ASSUME ParseEnd, Rest
    PROVE  Tells
<1>1. /\ phase = "loading" /\ phase' = "ready" /\ rows' = rows
      /\ restAt' = 0 /\ restView' = {}
  BY DEF ParseEnd, Finish, Rest, Idle, EmptyView
<1>2. History!Seal
  BY <1>1 DEF History!Seal
<1> QED
  BY <1>2 DEF Tells, History!HistNext

LEMMA SeekTold ==
    ASSUME PlayInv, LiveInv, EndSeek, Rest
    PROVE  Tells
<1>1. /\ phase = "ready" /\ UNCHANGED <<rows, phase>>
      /\ restAt' = cur /\ restView' = LiveAt(cur)
      /\ cur \in 0..Len(rows) /\ Len(Told) = Len(rows)
  <2>1. phase = "ready"
    BY SeekingReady DEF EndSeek, LiveInv
  <2>2. UNCHANGED <<rows, phase, cur, view>> /\ seek' = Idle /\ seek.pending = {}
    BY DEF EndSeek, parserVars, store
  <2>3. view.live = LiveAt(cur) /\ cur \in 0..Len(rows)
    BY <2>2 DEF PlayInv, PictureExact
  <2>4. Len(Told) = Len(rows)
    BY RowsType, ToldShape DEF LiveInv
  <2> QED
    BY <2>1, <2>2, <2>3, <2>4 DEF Rest, Idle
<1>2. restView' = History!Alive(Told)[cur]
  BY <1>1, AliveIsLive
<1>3. History!Look(cur)
  BY <1>1, <1>2 DEF History!Look, Told
<1> QED
  BY <1>1, <1>3 DEF Tells, History!HistNext, Told

\* Parser and playhead implement the abstract history: what is shown at rest is
\* what applying the events one by one would leave live, whatever ids are reused,
\* snapshots kept and seeks made (Parser::apply, View::seek).
THEOREM HeapHistoryImplemented == RestSpec => ImplementsHistory
<1>1. RestInit => History!HistInit
  BY DEF RestInit, PlayInit, Init, History!HistInit
<1>2. PlayInv /\ LiveInv /\ LiveInv' /\ Resting /\ [RestNext]_<<vars, restVars>> => Tells
  <2> SUFFICES ASSUME PlayInv, LiveInv, LiveInv', Resting, [RestNext]_<<vars, restVars>>
               PROVE  Tells
    OBVIOUS
  <2>1. CASE Parse /\ Rest
    <3>1. /\ phase = "loading" /\ phase' = "loading" /\ ParseLine
          /\ UNCHANGED <<cur, view, seek>> /\ ~seek.active
      BY <2>1, ParseLineLoads DEF Parse, viewVars, playVars, PlayInv, Idle
    <3>2. UNCHANGED <<restAt, restView>>
      BY <2>1, <3>1 DEF Rest, Resting
    <3>3. CASE NewEvent
      BY <3>2, <3>3, EventTold
    <3>4. CASE NoRow
      BY <3>1, <3>2, <3>4, Untold DEF NoRow
    <3> QED
      BY <3>1, <3>3, <3>4, RowOrNot DEF Next, LiveInv
  <2>2. CASE ParseEnd /\ Rest
    BY <2>2, SealTold
  <2>3. CASE EndSeek /\ Rest
    BY <2>3, SeekTold
  <2>4. ASSUME NEW asked \in 0..MaxEvents+1, BeginSeek(asked), Rest
        PROVE  Tells
    BY <2>4, Untold DEF BeginSeek, Rest, parserVars, store
  <2>5. CASE (InsertFromSnapshot \/ StepForward \/ StepBackward) /\ Rest
    <3>1. /\ UNCHANGED <<parserVars>> /\ seek.active
          /\ seek' = seek \/ seek' = [seek EXCEPT !.pending = @ \ {Min(seek.pending)}]
      BY <2>5 DEF InsertFromSnapshot, StepForward, StepBackward
    <3>2. seek'.active
      BY <3>1 DEF PlayInv
    <3> QED
      BY <2>5, <3>1, <3>2, Untold DEF Rest, parserVars, store
  <2>6. ASSUME NEW asked \in RowWidths, SetRowBytes(asked), Rest
        PROVE  Tells
    <3>1. UNCHANGED <<parserVars, cur, seek>> /\ ~seek.active
      BY <2>6 DEF SetRowBytes
    <3>2. view'.live = view.live
      BY <2>6 DEF SetRowBytes, PlayInv, IsView
    <3> QED
      BY <2>6, <3>1, <3>2, Untold DEF Rest, Resting, parserVars, store
  <2>7. CASE UNCHANGED <<vars, restVars>>
    BY <2>7, Untold DEF vars, restVars, parserVars, store
  <2> QED
    BY <2>1, <2>2, <2>3, <2>4, <2>5, <2>6, <2>7 DEF RestNext, PlayNext, SeekStep
<1>3. RestSpec => []PlayInv /\ []LiveInv
  BY RestRunsPlay, PlayInvariant, PlayRunsParser, LiveInvariant, PTL
<1> QED
  BY <1>1, <1>2, <1>3, AtRestInvariant, PTL
     DEF RestSpec, ImplementsHistory, Tells, History!HistSpec
=============================================================================
