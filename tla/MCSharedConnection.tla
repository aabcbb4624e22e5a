------------------------- MODULE MCSharedConnection -------------------------
(* Three sessions, a dataset with an exception and one without              *)
EXTENDS SharedConnection, TLC

CONSTANTS s1, s2, s3, demo, upload

MCSessions == {s1, s2, s3}
MCExceptionCount == (demo :> 1) @@ (upload :> 0)
Symmetry == Permutations(MCSessions)
=============================================================================
