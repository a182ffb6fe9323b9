------------------------ MODULE MCSubmissionJudging ------------------------
(* Symmetry and bounds for model-checking SubmissionJudging. *)
EXTENDS SubmissionJudging, TLC

Symmetry == Permutations(Worker)
=============================================================================
