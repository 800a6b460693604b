------------------------- MODULE MCOrderSubmission --------------------------
(* Model values and symmetry for the runs of OrderSubmission. *)
EXTENDS OrderSubmission, TLC

Perms == Permutations(Tasks)
=============================================================================
