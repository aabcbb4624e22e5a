------------------------------ MODULE MCIngest ------------------------------
(* Two uploads of the form and one of the API *)
EXTENDS Ingest, TLC

CONSTANTS f1, f2

MCAppUploads == {f1, f2}

\* All good; the last file over a limit; one that does not parse; two over a limit with
\* a good one after them.
MCPayloads ==
  {<<"good", "good", "good">>, <<"good", "good", "too_big">>,
   <<"good", "unparsable", "good">>, <<"too_long", "too_big", "good">>}

Symmetry == Permutations({f1, f2})
=============================================================================
