----------------------- MODULE MCCandidateDatastores -----------------------
(* Model-checking instance of CandidateDatastores: interchangeable sessions. *)
EXTENDS CandidateDatastores, TLC

Symmetry == Permutations(Sessions)
=============================================================================
