------------------------- MODULE MCAnalysisDocument -------------------------
\* A malloc that a realloc replaces, which a free ends: two allocations, one
\* event that kills and creates, and one that only kills.
EXTENDS AnalysisDocument, TLC

Chain == [op |-> <<"M", "R", "F">>, death |-> <<2, 3, 0>>, target |-> <<0, 1, 2>>]

\* One allocation, freed.
Pair == [op |-> <<"M", "F">>, death |-> <<2, 0>>, target |-> <<0, 1>>]

Document(allocations, tagged) ==
    [EmptyDocument EXCEPT !.allocations = allocations, !.tags = tagged]

Plain == [name |-> None, color |-> None, tags |-> {}]

\* A document of this trace whose second tag is renumbered when the first is
\* deleted, and one of another trace.
MCStored ==
    {Document(1 :> [Plain EXCEPT !.tags = {2}]
                @@ 2 :> [Plain EXCEPT !.name = "n", !.tags = {2, 3}], 2 :> "n" @@ 3 :> "n"),
     Document(3 :> [Plain EXCEPT !.name = "n"], <<>>)}
=============================================================================
