----------------------------- MODULE RowLayout -----------------------------
(***************************************************************************)
(* The rows of the address map: which rows are laid out (the layout half   *)
(* of View in core/src/state.rs), where they lie in virtual pixels, and    *)
(* the viewport over them (web/worker.ts), which captures the address at   *)
(* its top before an operation and scrolls back to it afterwards.          *)
(*                                                                         *)
(* The layout is computed lazily: operations mark it dirty, and whoever    *)
(* needs it ensures it first.  A step of the worker is a whole message     *)
(* handler; a handler that seeks is finished by the step that ends the     *)
(* seek, and no other handler runs before.                                 *)
(***************************************************************************)
EXTENDS Playhead, SequencesExt

CONSTANTS
    MarkSets,       \* sets of addresses the user may have marked
    RowLimits, ByteLimits,  \* collapse thresholds the user may set
    FirstLimit,     \* threshold before any is set, in rows (5)
    RowPx, GapPx,   \* pixel heights of a row and of a gap marker
    Height,         \* of the viewport
    Scrolls,        \* positions the user may scroll to
    ScrollCap,      \* further down only frames are rendered: a bound, for TLC
    None            \* no address, no anchor

ASSUME LayoutAssumption ==
    /\ \A marks \in MarkSets : marks \subseteq 0..Top
    /\ RowLimits \subseteq Nat /\ ByteLimits \subseteq Nat
    /\ FirstLimit \in Nat /\ Scrolls \subseteq Nat /\ ScrollCap \in Nat
    /\ RowPx \in Nat \ {0} /\ GapPx \in Nat /\ Height \in Nat
    /\ None \notin Int

VARIABLES
    showAll,        \* lay out every row any allocation ever touches
    allRows,        \* those rows, and whether they are up to date
    pins,           \* marked addresses
    anchorPin,      \* the address an anchored seek holds in place, or None
    collapse,       \* the threshold, in rows and, unless 0, in bytes
    dirty,          \* the rows shown may be out of date
    shown,          \* rows laid out, with the number of gaps before each
    scroll,         \* of the viewport, in virtual pixels
    after           \* what the handler does once its seek is through

layoutVars == <<showAll, allRows, pins, anchorPin, collapse, dirty, shown>>
handlerVars == <<scroll, after>>
allVars == <<vars, layoutVars, handlerVars>>

-----------------------------------------------------------------------------
(***************************************************************************)
(* Which rows are laid out.                                                *)
(***************************************************************************)
EffectiveLimit ==
    IF collapse.bytes > 0
    THEN Max2((collapse.bytes + rowBytes - 1) \div rowBytes, 1)
    ELSE Max2(collapse.rows, 1)

AllRows == UNION {RowsOf(e) : e \in CreatorEvents}

Pinned == pins \cup ({anchorPin} \ {None})

Needed == (IF showAll THEN allRows.rows ELSE DOMAIN view.occ)
              \cup {RowAt(p) : p \in Pinned}

\* The next row that is needed, after fillers or a gap.
Slots == [row : Nat, gaps : Nat]

Place(row) ==
    [laid \in Seq(Slots) |->
        LET run == IF laid = <<>> THEN 0 ELSE row - Last(laid).row - 1
            gaps == IF laid = <<>> THEN 0 ELSE Last(laid).gaps
            Fillers == [k \in 1..run |-> [row |-> Last(laid).row + k, gaps |-> gaps]]
        IN  IF run = 0 THEN Append(laid, [row |-> row, gaps |-> gaps])
            ELSE IF run < EffectiveLimit
            THEN Append(laid \o Fillers, [row |-> row, gaps |-> gaps])
            ELSE Append(laid, [row |-> row, gaps |-> gaps + 1])]

\* The rows that are needed, in ascending order.
Lay(needed) ==
    LET lay[placed \in SUBSET needed] ==
            IF placed = {} THEN <<>>
            ELSE Place(Max(placed))[lay[placed \ {Max(placed)}]]
    IN  lay[needed]

LaidOut == Lay(Needed)

\* The rows after ensure_rows.
Ensured == IF dirty THEN LaidOut ELSE shown

-----------------------------------------------------------------------------
(***************************************************************************)
(* Where the rows lie.  The searches halve the interval [lo, hi).          *)
(***************************************************************************)
RowY(laid, i) == (i - 1) * RowPx + laid[i].gaps * GapPx

VirtualHeight(laid) ==
    IF laid = <<>> THEN 0 ELSE RowY(laid, Len(laid)) + RowPx

\* The first index that is not passed, or one past the last.
FirstNot(n) ==
    [passed \in SUBSET Nat |->
        LET search[at \in (1..n+1) \X (1..n+1)] ==
                LET lo == at[1]
                    hi == at[2]
                    mid == (lo + hi) \div 2
                IN  IF lo >= hi THEN lo
                    ELSE IF mid \in passed THEN search[<<mid + 1, hi>>]
                    ELSE search[<<lo, mid>>]
        IN  search[<<1, n + 1>>]]

StartsBy(laid, y) == {k \in 1..Len(laid) : RowY(laid, k) <= y}
EndsBy(laid, y) == {k \in 1..Len(laid) : RowY(laid, k) + RowPx <= y}
RowsBefore(laid, row) == {k \in 1..Len(laid) : laid[k].row < row}

RowAtY(laid, y) ==
    LET i == FirstNot(Len(laid))[StartsBy(laid, y)] - 1
    IN  IF i > 0 /\ y < RowY(laid, i) + RowPx THEN i ELSE 0

IndexFrom(laid, row) == FirstNot(Len(laid))[RowsBefore(laid, row)]

Index(laid, row) ==
    LET i == IndexFrom(laid, row)
    IN  IF i <= Len(laid) /\ laid[i].row = row THEN i ELSE 0

\* Mutant: the topmost row is looked for by where it starts.
AnchorByTop(laid, y) ==
    IF laid = <<>> THEN None
    ELSE LET i == Min2(FirstNot(Len(laid))[StartsBy(laid, y)], Len(laid))
         IN  [addr |-> base + laid[i].row * rowBytes, off |-> y - RowY(laid, i)]

\* The first row that ends below y, and how far into it y is.
AnchorAt(laid, y) ==
    IF laid = <<>> THEN None
    ELSE LET i == Min2(FirstNot(Len(laid))[EndsBy(laid, y)], Len(laid))
         IN  [addr |-> base + laid[i].row * rowBytes, off |-> y - RowY(laid, i)]

\* Where the row of addr, or the next one, starts; None if there is no row.
ScrollForAddr(laid, addr, off) ==
    LET row == RowAt(addr)
        j == Min2(IndexFrom(laid, row), Len(laid))
    IN  IF laid = <<>> THEN None
        ELSE Max2(RowY(laid, j) + (IF laid[j].row = row THEN off ELSE 0), 0)

\* The creator an event is about, or 0.
Touched(e) ==
    IF e \notin 1..Len(rows) \/ rows[e].op = "E" THEN 0
    ELSE IF rows[e].op = "F" THEN rows[e].target ELSE e

ScrollForEvent(laid, e) ==
    LET i == IF Touched(e) = 0 THEN 0
             ELSE Index(laid, RowAt(rows[Touched(e)].addr))
    IN  IF i = 0 THEN None ELSE Max2(RowY(laid, i) - Height \div 2, 0)

-----------------------------------------------------------------------------
NoCollapse == [rows |-> FirstLimit, bytes |-> 0]
Nothing == [kind |-> "nothing"]

LayoutInit ==
    /\ PlayInit
    /\ showAll = TRUE
    /\ allRows = [rows |-> {}, valid |-> FALSE]
    /\ pins = {} /\ anchorPin = None
    /\ collapse = NoCollapse
    /\ dirty = TRUE /\ shown = <<>>
    /\ scroll = 0 /\ after = Nothing

LayoutParse ==
    /\ phase = "loading" /\ Parse
    /\ UNCHANGED <<layoutVars, handlerVars>>

\* parse_end resets the view; the viewport starts at the top.
LayoutReset ==
    /\ ParseEnd
    /\ pins' = {} /\ anchorPin' = None /\ dirty' = TRUE
    /\ allRows' = IF showAll THEN [rows |-> AllRows', valid |-> TRUE]
                  ELSE [allRows EXCEPT !.valid = FALSE]
    /\ scroll' = 0
    /\ UNCHANGED <<showAll, collapse, shown, after>>

AtRest == phase = "ready" /\ ~seek.active /\ scroll <= ScrollCap

(***************************************************************************)
(* captureAnchor and restoreAnchor.  laid is the layout before restoring,  *)
(* marked whether it has been marked dirty since it was ensured.           *)
(***************************************************************************)
RestoreAnchor(anchor, laid, marked) ==
    IF anchor = None
    THEN dirty' = marked /\ shown' = laid /\ scroll' = scroll
    ELSE /\ dirty' = FALSE
         /\ shown' = IF marked THEN LaidOut' ELSE laid
         /\ scroll' = LET y == ScrollForAddr(shown, anchor.addr, anchor.off)'
                      IN  IF y = None THEN scroll ELSE y

\* The anchor is captured before the rest of the handler and restored after.
Anchored(marked) ==
    \E laid \in {Ensured} : \E anchor \in {AnchorAt(laid, scroll)} :
        RestoreAnchor(anchor, laid, marked)

SetWidth(asked) ==
    /\ AtRest /\ SetRowBytes(asked)
    /\ allRows' = IF showAll THEN [rows |-> AllRows', valid |-> TRUE]
                  ELSE [allRows EXCEPT !.valid = FALSE]
    /\ UNCHANGED <<showAll, pins, anchorPin, collapse, after>>
    /\ Anchored(TRUE)

SetCollapse(limit) ==
    /\ AtRest
    /\ collapse' = limit
    /\ UNCHANGED <<vars, showAll, allRows, pins, anchorPin, after>>
    /\ Anchored(TRUE)

SetShowAll(on) ==
    /\ AtRest
    /\ showAll' = on
    /\ allRows' = IF on /\ ~allRows.valid THEN [rows |-> AllRows, valid |-> TRUE]
                  ELSE allRows
    /\ UNCHANGED <<vars, pins, anchorPin, collapse, after>>
    /\ Anchored(TRUE)

\* A new trace forgets the marks set while it loads.
SetPins(marks) ==
    /\ ~seek.active
    /\ pins' = marks /\ dirty' = TRUE
    /\ UNCHANGED <<vars, showAll, allRows, anchorPin, collapse, shown, handlerVars>>

\* Mutant: the address is not pinned.
HoldNothing(anchor) == UNCHANGED <<showAll, allRows, pins, anchorPin, collapse>>

(***************************************************************************)
(* Seeks that hold the top of the viewport in place: its address is pinned *)
(* first, and stays pinned until the user scrolls.                         *)
(***************************************************************************)
Hold(anchor) ==
    /\ anchorPin' = IF anchor = None THEN anchorPin ELSE anchor.addr
    /\ UNCHANGED <<showAll, allRows, pins, collapse>>

SeekAnchored(asked) ==
    /\ AtRest /\ BeginSeek(asked)
    /\ shown' = Ensured
    /\ \E anchor \in {AnchorAt(shown', scroll)} :
          /\ Hold(anchor)
          /\ after' = [kind |-> "restore", anchor |-> anchor]
    /\ dirty' = (anchorPin' # anchorPin)
    /\ UNCHANGED scroll

\* The same, asked to seek to where the playhead is.
HoldInPlace ==
    /\ AtRest
    /\ UNCHANGED <<vars, after>>
    /\ \E laid \in {Ensured} : \E anchor \in {AnchorAt(laid, scroll)} :
          /\ Hold(anchor)
          /\ RestoreAnchor(anchor, laid, anchorPin' # anchorPin)

\* scroll_for_event: centre the row of the event's block, if it is shown.
CentreOn(e, marked) ==
    IF e \notin 1..Len(rows)
    THEN dirty' = marked /\ UNCHANGED <<shown, scroll>>
    ELSE /\ dirty' = FALSE
         /\ shown' = IF marked THEN LaidOut' ELSE shown
         /\ scroll' = LET y == ScrollForEvent(shown, e)'
                      IN  IF y = None THEN scroll ELSE y

\* A jump shows the event before the target, a step the one it stepped over.
JumpTo(asked, e) ==
    /\ AtRest /\ BeginSeek(asked)
    /\ after' = [kind |-> "centre", event |-> e]
    /\ UNCHANGED <<layoutVars, scroll>>

Jump(asked) == JumpTo(asked, Min2(Max2(asked, 1), Len(rows)))
StepBack == cur > 0 /\ JumpTo(cur - 1, cur)

\* The same without a seek, when the playhead is there already.
CentreHere ==
    /\ AtRest
    /\ UNCHANGED <<vars, showAll, allRows, pins, anchorPin, collapse, after>>
    /\ \E e \in {Min2(Max2(cur, 1), Len(rows))} : CentreOn(e, dirty)

\* The loops of seek; meanwhile nobody reads the layout.
Seeking ==
    /\ InsertFromSnapshot \/ StepForward \/ StepBackward
    /\ UNCHANGED <<layoutVars, handlerVars>>

\* Mutant: no seek marks the rows, whatever they are taken from.
FinishSeekUnmarked ==
    /\ EndSeek
    /\ UNCHANGED <<showAll, allRows, pins, anchorPin, collapse>>
    /\ \/ /\ after.kind = "restore"
          /\ \E anchor \in {after.anchor} : RestoreAnchor(anchor, shown, dirty)
       \/ /\ after.kind = "centre"
          /\ \E e \in {after.event} : CentreOn(e, dirty)
    /\ after' = Nothing

FinishSeek ==
    /\ EndSeek
    /\ UNCHANGED <<showAll, allRows, pins, anchorPin, collapse>>
    /\ LET marked == dirty \/ ~showAll IN
       \/ /\ after.kind = "restore"
          /\ \E anchor \in {after.anchor} : RestoreAnchor(anchor, shown, marked)
       \/ /\ after.kind = "centre"
          /\ \E e \in {after.event} : CentreOn(e, marked)
    /\ after' = Nothing

-----------------------------------------------------------------------------
(***************************************************************************)
(* The viewport alone: a scroll by the user gives up the anchor, a frame   *)
(* keeps the viewport within the rows.                                     *)
(***************************************************************************)
ScrollBy(y) ==
    /\ AtRest
    /\ scroll' = y
    /\ anchorPin' = None /\ dirty' = (dirty \/ anchorPin # None)
    /\ UNCHANGED <<vars, showAll, allRows, pins, collapse, shown, after>>

GotoAddr(addr) ==
    /\ AtRest
    /\ dirty' = FALSE /\ shown' = Ensured
    /\ scroll' = LET y == ScrollForAddr(shown', addr, 0)
                 IN  IF y = None THEN scroll ELSE Max2(y - Height \div 2, 0)
    /\ UNCHANGED <<vars, showAll, allRows, pins, anchorPin, collapse, after>>

Render ==
    /\ phase = "ready" /\ ~seek.active
    /\ dirty' = FALSE /\ shown' = Ensured
    /\ scroll' = Min2(scroll, Max2(VirtualHeight(shown') - Height, 0))
    /\ UNCHANGED <<vars, showAll, allRows, pins, anchorPin, collapse, after>>

Positive(S) == {Max2(n, 1) : n \in S}
Limits == [rows : Positive(RowLimits), bytes : {0}]
            \cup [rows : {collapse.rows}, bytes : Positive(ByteLimits)]

LayoutNext ==
    \/ LayoutParse
    \/ LayoutReset
    \/ \E asked \in 0..MaxEvents : SeekAnchored(asked) \/ Jump(asked)
    \/ StepBack
    \/ CentreHere
    \/ HoldInPlace
    \/ Seeking
    \/ FinishSeek
    \/ \E asked \in RowWidths : SetWidth(asked)
    \/ \E limit \in Limits : SetCollapse(limit)
    \/ \E on \in BOOLEAN : SetShowAll(on)
    \/ \E marks \in MarkSets : SetPins(marks)
    \/ \E y \in Scrolls : ScrollBy(y)
    \/ \E addr \in Addrs : GotoAddr(addr)
    \/ Render

LayoutSpec == LayoutInit /\ [][LayoutNext]_allVars

-----------------------------------------------------------------------------
(***************************************************************************)
(* While the rows are not marked dirty they are those of the present       *)
(* picture: the rows of the blocks alive, or of all blocks of the trace,   *)
(* at the present width, the pinned ones, and the empty runs between them  *)
(* that are shorter than the threshold (MAP-002, MAP-003).  The layout is  *)
(* lazy and the rows of all blocks are cached; this says that no operation *)
(* forgets to mark or to invalidate.                                       *)
(***************************************************************************)
Wanted == {RowAt(p) : p \in Pinned}
            \cup UNION {RowsOf(e) : e \in IF showAll THEN CreatorEvents ELSE view.live}

\* The empty runs between wanted rows, by the rows around them.
Between(run) == run[1]+1 .. run[2]-1
Runs == {run \in Wanted \X Wanted : run[1] + 1 < run[2] /\ Wanted \cap Between(run) = {}}
Short == {run \in Runs : run[2] - run[1] - 1 < EffectiveLimit}

LayoutExact ==
    ~dirty /\ ~seek.active =>
        /\ {shown[i].row : i \in 1..Len(shown)}
              = Wanted \cup UNION {run[1]..run[2] : run \in Short}
        /\ \A i \in 1..Len(shown) :
              /\ i > 1 => shown[i-1].row < shown[i].row
              /\ shown[i].gaps = Cardinality({run \in Runs \ Short : run[2] <= shown[i].row})

(***************************************************************************)
(* Every pixel of the map finds the row drawn there, or no row in a gap    *)
(* marker; and the viewport's anchor is the topmost row not above it.      *)
(***************************************************************************)
Covers(i, y) == RowY(shown, i) <= y /\ y < RowY(shown, i) + RowPx

PixelsHitRows ==
    \A y \in 0..VirtualHeight(shown) :
        /\ {i \in 1..Len(shown) : Covers(i, y)} = {RowAtY(shown, y)} \ {0}
        /\ shown # <<>> /\ y < VirtualHeight(shown) =>
             LET anchor == AnchorAt(shown, y)
             IN  /\ -GapPx <= anchor.off /\ anchor.off < RowPx
                 /\ anchor.off >= 0 =>
                       anchor.addr = base + shown[RowAtY(shown, y)].row * rowBytes

\* The anchored address is where it was in the viewport, or, if it lay below
\* a gap at the top, at most as far from the top of the map.
Held(anchor) ==
    \E i \in 1..Len(shown) :
        /\ shown[i].row = RowAt(anchor.addr)
        /\ \/ scroll = RowY(shown, i) + anchor.off
           \/ scroll = 0 /\ RowY(shown, i) + anchor.off < 0

(***************************************************************************)
(* A seek keeps the address at the top of the viewport where it is, even   *)
(* if all of its row is freed (MAP-003).  The other operations that change *)
(* the layout restore the address too, but only a seek pins it first.      *)
(***************************************************************************)
AnchorHeld ==
    [][ seek.active /\ ~seek'.active =>
            \A anchor \in IF after.kind = "restore" THEN {after.anchor} \ {None} ELSE {} :
                Held(anchor)' ]_allVars
=============================================================================
