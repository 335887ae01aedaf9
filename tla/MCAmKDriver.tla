----------------------------- MODULE MCAmKDriver -----------------------------
(* Instance of AmKDriver for TLC: processes and written words are symmetric. *)
EXTENDS AmKDriver, TLC

Symmetry == Permutations(Procs) \cup Permutations(Values)
=============================================================================
