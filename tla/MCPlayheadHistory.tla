------------------------- MODULE MCPlayheadHistory -------------------------
(***************************************************************************)
(* The parser and the playhead on small instances.  What a trace does with *)
(* its ids, with its clock and with the places of its blocks are separate  *)
(* in the parser, so a trace is unusual in one of the three: ids are       *)
(* reused, freed twice and reallocated; or its clock jumps, lines are      *)
(* flawed and records are dropped; or its blocks overlap and reach past    *)
(* the address space.  Seeks are made on traces of ordinary blocks with    *)
(* one id and the reserved one.  The constants of the run cover all of     *)
(* them.                                                                   *)
(***************************************************************************)
EXTENDS PlayheadHistory, TLC

CONSTANTS null, i1, i2, absent

MCIds == {null, i1, i2}

\* The two ends of an address space so small that a block may reach past it.
Ends == {0, 2}

VARIABLE about

Names == INSTANCE TraceParser WITH
             Addrs <- {0}, Sizes <- {1}, Usables <- {0},
             Times <- {}, SeqFaults <- {FALSE}, MaxFlaws <- 0
Clocks == INSTANCE TraceParser WITH
             Addrs <- {0}, Sizes <- {0}, Usables <- {0}, MaxEvents <- 2
Places == INSTANCE TraceParser WITH
             Sizes <- {2}, Times <- {}, SeqFaults <- {FALSE},
             MaxFlaws <- 0, MaxEvents <- 3

InputsInit == RestInit /\ about \in {"ids", "clock", "places", "seeks"}

Parsed(parse) == parse /\ UNCHANGED <<viewVars, restVars>>

\* One id is enough where ids are not the trouble, and the reserved one is trouble;
\* of two, i1 is the first used.
Uses(i) == {e \in 1..Len(rows) : i \in {rows[e].id, rows[e].kid}}

FewIds ==
    /\ about \in {"clock", "places"} => Uses(null) = {}
    /\ \A e \in Uses(i2) : about = "ids" /\ \E d \in Uses(i1) : d <= e

SeekEvents == 3

Seek == ParseEnd \/ SeekStep \/ \E asked \in 0..(SeekEvents + 1) : BeginSeek(asked)

InputsNext ==
    /\ UNCHANGED about
    /\ \/ about = "ids" /\ Parsed(Names!Next)
       \/ about = "clock" /\ Parsed(Clocks!Next)
       \/ about = "places" /\ Parsed(Places!Next)
       \/ /\ about = "seeks"
          /\ \/ Len(rows) < SeekEvents /\ Parsed(Names!ParseLine)
             \/ Seek /\ Rest
    /\ FewIds'

\* A seek is one synchronous call: once begun, its loops run to the end.
InputsSpec ==
    /\ InputsInit /\ [][InputsNext]_<<vars, restVars, about>>
    /\ WF_<<vars, restVars, about>>(SeekStep /\ Rest /\ UNCHANGED about)
=============================================================================
