---------------------------- MODULE HeapHistory ----------------------------
(***************************************************************************)
(* What the engine promises (spec/03, MODEL-002 to MODEL-004), with no id, *)
(* address, snapshot or replay strategy in sight.  A heap history grows    *)
(* event by event, each event killing at most one allocation that is live  *)
(* and creating at most one.  Once it is sealed, a reader may put a        *)
(* playhead anywhere on it, and the picture is what applying the events up *)
(* to there, left to right, leaves live.                                   *)
(***************************************************************************)
EXTENDS Integers, Sequences

VARIABLES
    history,    \* the events, each [kills, creates]; event e creates block e
    sealed,
    playhead, picture

histVars == <<history, sealed, playhead, picture>>

After(alive, e, event) ==
    (alive \ {event.kills}) \cup (IF event.creates THEN {e} ELSE {})

\* Alive(h)[p]: the blocks live once the first p events of h are applied.
Alive(h) ==
    LET alive[p \in 0..Len(h)] ==
            IF p = 0 THEN {} ELSE After(alive[p-1], p, h[p])
    IN  alive

HistInit ==
    /\ history = <<>> /\ sealed = FALSE
    /\ playhead = 0 /\ picture = {}

Happen(kills, creates) ==
    /\ ~sealed
    /\ kills # 0 => kills \in Alive(history)[Len(history)]
    /\ history' = Append(history, [kills |-> kills, creates |-> creates])
    /\ UNCHANGED <<sealed, playhead, picture>>

Seal ==
    /\ ~sealed /\ sealed' = TRUE
    /\ playhead' = 0 /\ picture' = {}
    /\ UNCHANGED history

Look(p) ==
    /\ sealed
    /\ playhead' = p
    /\ picture' = Alive(history)[p]
    /\ UNCHANGED <<history, sealed>>

HistNext ==
    \/ \E kills \in 0..Len(history), creates \in BOOLEAN : Happen(kills, creates)
    \/ Seal
    \/ \E p \in 0..Len(history) : Look(p)

HistSpec == HistInit /\ [][HistNext]_histVars
=============================================================================
