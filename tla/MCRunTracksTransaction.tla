----------------------- MODULE MCRunTracksTransaction -----------------------
(* Model-checking instances of RunTracksTransaction.                       *)
EXTENDS RunTracksTransaction, TLC

Symmetry == Permutations(Commands) \cup Permutations(Tasks)
=============================================================================
