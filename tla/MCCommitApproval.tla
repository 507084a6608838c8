-------------------------- MODULE MCCommitApproval --------------------------
(* Model-checking instances of CommitApproval.                             *)
EXTENDS CommitApproval, TLC

Symmetry == Permutations(Sessions)
=============================================================================
