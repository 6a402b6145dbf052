------------------------- MODULE MCBrowserAnalysis -------------------------
(***************************************************************************)
(* BrowserAnalysis on small instances.                                     *)
(***************************************************************************)
EXTENDS BrowserAnalysis
=============================================================================
