----------------------------- MODULE MCStandings -----------------------------
(* Symmetry for model-checking Standings. *)
EXTENDS Standings

Symmetry == Permutations(Problem)
=============================================================================
