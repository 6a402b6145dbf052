------------------------------ MODULE Playhead ------------------------------
(***************************************************************************)
(* The playhead (View in core/src/state.rs): the set of allocations live   *)
(* at the current position, kept up to date while the position moves over  *)
(* the parsed trace in either direction, or rebuilt from a snapshot when   *)
(* that is cheaper.  Composes with TraceParser: parse_end hands the store  *)
(* over and resets the view.                                               *)
(*                                                                         *)
(* A seek is one call in the code.  Its loops are actions here, one per    *)
(* iteration, and nothing else happens until the loops have ended.         *)
(***************************************************************************)
EXTENDS TraceParser, Bags

CONSTANTS
    RowWidths,      \* widths the user may ask for
    FirstRowBytes,  \* width before any is asked for (0x1000)
    MinRowBytes,    \* least width a user can get (16)
    RowCap          \* spans of more rows mark only their ends (65536)

ASSUME PlayheadAssumption ==
    /\ RowWidths \subseteq Nat
    /\ FirstRowBytes \in Nat \ {0} /\ MinRowBytes \in Nat \ {0}
    /\ RowCap \in Nat

VARIABLES
    cur,            \* number of events applied
    view,           \* live allocations and the tallies over them
    seek,           \* the seek under way
    rowBytes, base  \* row width and the address of row 0

playVars == <<cur, view, seek>>
rowVars == <<rowBytes, base>>
viewVars == <<playVars, rowVars>>
vars == <<parserVars, viewVars>>

-----------------------------------------------------------------------------
\* Rows of the address line that e's bytes touch.
RowAt(a) == SatSub(a, base) \div rowBytes

RowsOf(e) ==
    LET first == RowAt(rows[e].addr)
        last == RowAt(SatSub(EndOf(e), 1))
    IN  IF last - first > RowCap THEN {first, last} ELSE first..last

(***************************************************************************)
(* The live set with its tallies: how many, how many bytes, the multisets  *)
(* of birth times and of spans, and how many live blocks touch each row.   *)
(***************************************************************************)
EmptyView == [live |-> {}, count |-> 0, bytes |-> 0, births |-> EmptyBag,
              spans |-> EmptyBag, occ |-> EmptyBag]

InsertAlloc(v, e) ==
    IF e \in v.live THEN v
    ELSE [live |-> v.live \cup {e},
          count |-> v.count + 1,
          bytes |-> (v.bytes + rows[e].size) % (Top + 1),
          births |-> v.births (+) SetToBag({rows[e].t}),
          spans |-> v.spans (+) SetToBag({Span(e)}),
          occ |-> v.occ (+) SetToBag(RowsOf(e))]

\* Mutant: the span counted out is not the one that was counted in.
RemoveAllocRequested(v, e) ==
    IF e \notin v.live THEN v
    ELSE [live |-> v.live \ {e},
          count |-> v.count - 1,
          bytes |-> SatSub(v.bytes, rows[e].size),
          births |-> v.births (-) SetToBag({rows[e].t}),
          spans |-> v.spans (-) SetToBag({rows[e].size}),
          occ |-> v.occ (-) SetToBag(RowsOf(e))]

RemoveAlloc(v, e) ==
    IF e \notin v.live THEN v
    ELSE [live |-> v.live \ {e},
          count |-> v.count - 1,
          bytes |-> SatSub(v.bytes, rows[e].size),
          births |-> v.births (-) SetToBag({rows[e].t}),
          spans |-> v.spans (-) SetToBag({Span(e)}),
          occ |-> v.occ (-) SetToBag(RowsOf(e))]

\* Mutant: a realloc going forward leaves the old block in the picture.
ApplyFwdFrees(v, e) ==
    IF rows[e].op = "F" /\ rows[e].target # 0 THEN RemoveAlloc(v, rows[e].target)
    ELSE IF rows[e].op \in Creators THEN InsertAlloc(v, e) ELSE v

ApplyFwd(v, e) ==
    LET killed == IF rows[e].op \in Killers /\ rows[e].target # 0
                  THEN RemoveAlloc(v, rows[e].target) ELSE v
    IN  IF rows[e].op \in Creators THEN InsertAlloc(killed, e) ELSE killed

\* Mutant: undoing a realloc does not bring the old block back.
ApplyBwdFrees(v, e) ==
    IF rows[e].op \in Creators THEN RemoveAlloc(v, e)
    ELSE IF rows[e].op = "F" /\ rows[e].target # 0
         THEN InsertAlloc(v, rows[e].target) ELSE v

ApplyBwd(v, e) ==
    LET unborn == IF rows[e].op \in Creators THEN RemoveAlloc(v, e) ELSE v
    IN  IF rows[e].op \in Killers /\ rows[e].target # 0
        THEN InsertAlloc(unborn, rows[e].target) ELSE unborn

-----------------------------------------------------------------------------
Idle == [to |-> 0, active |-> FALSE, pending |-> {}]

\* Mutant: the header's word is taken for where the arena starts.
AlignedBaseOfArena(arena, low, width) ==
    LET lo == IF arena # 0 THEN arena ELSE low
        from == IF lo = Top THEN 0 ELSE lo
    IN  from - (from % width)

AlignedBase(arena, low, width) ==
    LET lo == IF arena # 0 THEN Min2(arena, low) ELSE low
        from == IF lo = Top THEN 0 ELSE lo
    IN  from - (from % width)

PlayInit ==
    /\ Init
    /\ cur = 0 /\ view = EmptyView /\ seek = Idle
    /\ rowBytes = FirstRowBytes /\ base = 0

\* parse_begin has emptied the view; it stays empty while the parser works.
Parse ==
    /\ ParseLine
    /\ UNCHANGED viewVars

\* parse_end: the store is complete and the view starts over on it.
ParseEnd ==
    /\ Finish
    /\ cur' = 0 /\ view' = EmptyView /\ seek' = Idle
    /\ rowBytes' = IF hdrRowBytes > 0 THEN hdrRowBytes ELSE rowBytes
    /\ base' = AlignedBase(arenaBase, addrMin', rowBytes')

(***************************************************************************)
(* seek(to): the last snapshot at or before the target, and the cheaper of *)
(* replaying from the current position and of rebuilding from it.          *)
(***************************************************************************)
SnapsBefore(to) == {i \in 1..Len(snaps) : snaps[i].pos <= to}

BestSnap(to) == IF SnapsBefore(to) = {} THEN [pos |-> 0, live |-> {}]
                ELSE snaps[Max(SnapsBefore(to))]

Distance(a, b) == IF a <= b THEN b - a ELSE a - b

\* Mutant: snapshots are never worth it.
ReplaysAlways(to) == TRUE

Replays(to) ==
    Distance(cur, to) <= (to - BestSnap(to).pos) + view.count \div 4
                         + Min2(BestSnap(to).pos, 1)

SeekTarget(asked) == Min2(asked, Len(rows))

BeginSeek(asked) ==
    LET to == SeekTarget(asked) IN
    /\ phase = "ready" /\ ~seek.active
    /\ to # cur
    /\ IF Replays(to)
       THEN /\ seek' = [to |-> to, active |-> TRUE, pending |-> {}]
            /\ UNCHANGED <<cur, view>>
       ELSE /\ seek' = [to |-> to, active |-> TRUE, pending |-> BestSnap(to).live]
            /\ cur' = BestSnap(to).pos
            /\ view' = EmptyView
    /\ UNCHANGED <<parserVars, rowVars>>

\* Rebuilding: the next creator of the snapshot.
InsertFromSnapshot ==
    /\ seek.active /\ seek.pending # {}
    /\ LET e == Min(seek.pending)
       IN  /\ view' = InsertAlloc(view, e)
           /\ seek' = [seek EXCEPT !.pending = @ \ {e}]
    /\ UNCHANGED <<parserVars, cur, rowVars>>

StepForward ==
    /\ seek.active /\ seek.pending = {}
    /\ cur < seek.to
    /\ view' = ApplyFwd(view, cur + 1)
    /\ cur' = cur + 1
    /\ UNCHANGED <<parserVars, seek, rowVars>>

StepBackward ==
    /\ seek.active /\ seek.pending = {}
    /\ cur > seek.to
    /\ view' = ApplyBwd(view, cur)
    /\ cur' = cur - 1
    /\ UNCHANGED <<parserVars, seek, rowVars>>

\* Mutant: the loops stop one iteration early.
EndSeekEarly ==
    /\ seek.active /\ seek.pending = {}
    /\ Distance(cur, seek.to) <= 1
    /\ seek' = Idle
    /\ UNCHANGED <<parserVars, cur, view, rowVars>>

EndSeek ==
    /\ seek.active /\ seek.pending = {}
    /\ cur = seek.to
    /\ seek' = Idle
    /\ UNCHANGED <<parserVars, cur, view, rowVars>>

-----------------------------------------------------------------------------
(***************************************************************************)
(* A new row width moves row 0 and counts the rows of the live set anew.   *)
(* While a trace is loading the view works on an empty store.              *)
(***************************************************************************)
Occupancy(lives, Touched(_)) ==
    [r \in UNION {Touched(e) : e \in lives} |->
        Cardinality({e \in lives : r \in Touched(e)})]

Recounted(width, low) ==
    LET At(a) == SatSub(a, low) \div width
        Touched(e) == LET first == At(rows[e].addr)
                          last == At(SatSub(EndOf(e), 1))
                      IN  IF last - first > RowCap THEN {first, last} ELSE first..last
    IN  Occupancy(view.live, Touched)

SetRowBytes(asked) ==
    LET width == Max2(asked, MinRowBytes)
        low == IF phase = "ready" THEN AlignedBase(arenaBase, addrMin, width)
               ELSE AlignedBase(0, Top, width)
    IN
    /\ ~seek.active
    /\ width # rowBytes
    /\ rowBytes' = width
    /\ base' = low
    /\ view' = [view EXCEPT !.occ = Recounted(width, low)]
    /\ UNCHANGED <<parserVars, cur, seek>>

SeekStep == InsertFromSnapshot \/ StepForward \/ StepBackward \/ EndSeek

PlayNext ==
    \/ Parse
    \/ ParseEnd
    \/ \E asked \in 0..MaxEvents+1 : BeginSeek(asked)
    \/ SeekStep
    \/ \E asked \in RowWidths : SetRowBytes(asked)

PlaySpec == PlayInit /\ [][PlayNext]_vars

-----------------------------------------------------------------------------
(***************************************************************************)
(* The picture at a position is the live set there, whatever seeks led to  *)
(* it (MODEL-003, MODEL-004): at rest, and at every iteration of a seek.   *)
(***************************************************************************)
PictureExact ==
    /\ view.live = LiveAt(cur) \ seek.pending
    /\ seek.pending \subseteq LiveAt(cur)

(***************************************************************************)
(* The running tallies are those of the live set; they are never rebuilt,  *)
(* so a step that is not its own inverse would leave them off for good.    *)
(* A row is occupied by exactly the live blocks that touch it, under the   *)
(* current width and base.                                                 *)
(***************************************************************************)
TallyOf(value(_)) ==
    [x \in {value(e) : e \in view.live} |->
        Cardinality({e \in view.live : value(e) = x})]

TalliesExact ==
    /\ view.count = Cardinality(view.live)
    /\ SumFunctionOnSet(SizeOf, CreatorEvents) <= Top =>
            view.bytes = SumFunctionOnSet(SizeOf, view.live)
    /\ view.births = TallyOf(LAMBDA e : rows[e].t)
    /\ view.spans = TallyOf(Span)
    /\ view.occ = Occupancy(view.live, RowsOf)

(***************************************************************************)
(* No block starts below row 0, so no two rows are folded into one.        *)
(***************************************************************************)
BaseBelowAll == phase = "ready" => \A e \in CreatorEvents : base <= rows[e].addr

(***************************************************************************)
(* A seek replays at most about one snapshot interval of events, however   *)
(* long the trace is and however far the seek goes (MODEL-004).            *)
(***************************************************************************)
SeekCostBounded ==
    [][ ~seek.active /\ seek'.active =>
        Distance(cur', seek'.to) <= snapInterval + view.count \div 4 ]_vars

\* A seek that has begun comes to rest, and nowhere but where it was asked
\* to go.
SeekArrives ==
    /\ seek.active ~> ~seek.active
    /\ [][ seek.active => \/ seek'.active /\ seek'.to = seek.to
                          \/ ~seek'.active /\ cur' = seek.to ]_vars
=============================================================================
