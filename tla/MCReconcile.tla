---------------------------- MODULE MCReconcile ----------------------------
(***************************************************************************)
(* Two requests, for two tenants or the Streamlit app, one payload that    *)
(* finds an exception and one that finds none, one explicit key, one torn  *)
(* append and one crash.                                                   *)
(***************************************************************************)
EXTENDS ReconcileService, TLC

CONSTANTS r1, r2, t1, t2, streamlit, demo, upload, k1, none

MCWriters == {r1, r2}
MCTenants == {t1, t2}
MCPayloads == {demo, upload}
MCKeys == {k1}
MCExceptionCount == (demo :> 1) @@ (upload :> 0)
Symmetry == Permutations(MCWriters) \cup Permutations(MCTenants)
=============================================================================
