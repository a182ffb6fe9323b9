--------------------------- MODULE MCContestResult ---------------------------
(* Symmetry for model-checking ContestResult. *)
EXTENDS ContestResult, TLC

Symmetry == Permutations(Entry)
=============================================================================
