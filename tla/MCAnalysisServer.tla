-------------------------- MODULE MCAnalysisServer --------------------------
(***************************************************************************)
(* AnalysisServer on small instances.                                      *)
(***************************************************************************)
EXTENDS AnalysisServer

CONSTANTS w1, w2, f1, f2, a, b

WriterSymmetry == Permutations(Writers)
=============================================================================
