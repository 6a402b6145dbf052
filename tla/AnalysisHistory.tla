-------------------------- MODULE AnalysisHistory ---------------------------
(***************************************************************************)
(* What the shared analysis document promises (spec/08, ARCH-008): one     *)
(* history that only grows.  A writer is told a revision at which its      *)
(* change stands; a copy is a part of the history from its start, and only *)
(* ever moves forward along it.                                            *)
(***************************************************************************)
EXTENDS Integers, Sequences, SequencesExt

CONSTANTS Writers, Followers, Changes

VARIABLES history, answers, copies

historyVars == <<history, answers, copies>>

Unanswered == [revision |-> 0]

HistoryInit ==
    /\ history = <<>>
    /\ answers = [w \in Writers |-> Unanswered]
    /\ copies = [f \in Followers |-> <<>>]

Commit(change) ==
    /\ history' = Append(history, change)
    /\ UNCHANGED <<answers, copies>>

Answer(w, revision) ==
    /\ answers' = [answers EXCEPT ![w] = [revision |-> revision,
                                          change |-> history[revision]]]
    /\ UNCHANGED <<history, copies>>

Forget(w) ==
    /\ answers' = [answers EXCEPT ![w] = Unanswered]
    /\ UNCHANGED <<history, copies>>

Advance(f, revision) ==
    /\ IsPrefix(copies[f], SubSeq(history, 1, revision))
    /\ copies' = [copies EXCEPT ![f] = SubSeq(history, 1, revision)]
    /\ UNCHANGED <<history, answers>>

HistoryNext ==
    \/ \E change \in Changes : Commit(change)
    \/ \E w \in Writers :
          \/ \E revision \in 1..Len(history) : Answer(w, revision)
          \/ Forget(w)
    \/ \E f \in Followers, revision \in 0..Len(history) : Advance(f, revision)

HistorySpec == HistoryInit /\ [][HistoryNext]_historyVars
=============================================================================
