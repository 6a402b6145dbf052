-------------------------- MODULE PlayheadHistory --------------------------
(***************************************************************************)
(* The parser and the playhead together implement HeapHistory.  While a    *)
(* seek is under way the picture asked for is not there yet; the abstract  *)
(* reader is still where the last seek left it, which restAt and restView  *)
(* remember.                                                               *)
(***************************************************************************)
EXTENDS Playhead

VARIABLES restAt, restView

restVars == <<restAt, restView>>

RestInit == PlayInit /\ restAt = 0 /\ restView = {}

Rest ==
    /\ restAt' = IF seek'.active THEN restAt ELSE cur'
    /\ restView' = IF seek'.active THEN restView ELSE view'.live

RestNext == PlayNext /\ Rest

RestSpec == RestInit /\ [][RestNext]_<<vars, restVars>>

History == INSTANCE HeapHistory WITH
    history <- [e \in 1..Len(rows) |-> [kills |-> rows[e].target,
                                       creates |-> rows[e].op \in Creators]],
    sealed <- phase = "ready",
    playhead <- restAt,
    picture <- restView

ImplementsHistory == History!HistSpec
=============================================================================
