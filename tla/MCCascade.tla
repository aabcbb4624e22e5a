----------------------------- MODULE MCCascade -----------------------------
(* One run of run_pipeline: who matches whom, and who is counted for what.  *)
EXTENDS MCMatching, MCAccounting

CascadeInputs == MatchingInputs \cup AccountingInputs
=============================================================================
