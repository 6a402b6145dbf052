---------------------------- MODULE MCRowLayout ----------------------------
(***************************************************************************)
(* RowLayout over a handful of traces: the layout depends on a trace only  *)
(* through the rows its blocks touch and when, so that a few traces, each  *)
(* with every sequence of seeks, settings, marks and scrolls, take the     *)
(* place of all short ones (which the runs of TraceParser go through).     *)
(***************************************************************************)
EXTENDS RowLayout, TLC

CONSTANTS null, i1, absent, none
OneId == {null, i1}
Marks == {{}, {5}}

Event(op, id, kid, addr, usable, t) ==
    [op |-> op, id |-> id, kid |-> kid, addr |-> addr, usable |-> usable, t |-> t]
M(id, addr, usable, t) == Event("M", id, absent, addr, usable, t)
R(addr, usable, t) == Event("R", i1, i1, addr, usable, t)
F(id, t) == Event("F", id, id, 0, 0, t)
E(t) == Event("E", absent, absent, 0, 0, t)

Plain(events) == [arena |-> 0, width |-> 0, events |-> events]

Chosen == {
    Plain(<<>>),
    Plain(<<M(i1, 0, 0, 0), M(null, 8, 3, 1), F(i1, 1)>>),      \* rows far apart
    Plain(<<M(i1, 0, 3, 0), R(8, 0, 0), F(i1, 1)>>),            \* moved, then freed
    [arena |-> 8, width |-> 1, events |-> <<M(i1, 0, 3, 0), F(i1, 0)>>]}

Follows(trace) ==
    /\ arenaBase \in {0, trace.arena} /\ hdrRowBytes \in {0, trace.width}
    /\ rows # <<>> \/ phase = "ready" =>
          arenaBase = trace.arena /\ hdrRowBytes = trace.width
    /\ Len(rows) <= Len(trace.events)
    /\ phase = "ready" => Len(rows) = Len(trace.events)
    /\ \A e \in 1..Len(rows) : \A f \in DOMAIN trace.events[e] :
          rows[e][f] = trace.events[e][f]

OnlyChosen ==
    /\ warnCount["malformed"] = 0 /\ warnCount["version"] = 0
    /\ sawT => rows # <<>>
    /\ \E trace \in Chosen : Follows(trace)
=============================================================================
