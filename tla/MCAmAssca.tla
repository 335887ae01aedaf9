----------------------------- MODULE MCAmAssca -----------------------------
(* AmAssca with three keys: k1 and k2 have the same hash value, k3 shares   *)
(* their bucket until the first expansion.                                  *)
EXTENDS AmAssca, TLC

CONSTANTS k1, k2, k3

MCKeys == {k1, k2, k3}
MCHash == k1 :> 0 @@ k2 :> 0 @@ k3 :> 1

\* One key, written again and again.
MCOneKey == {k1}
MCOneHash == k1 :> 0

\* Clients and values are only compared for equality, and k1 and k2 hash alike.
MCSymmetry == Permutations(Clients) \cup Permutations(Vals) \cup Permutations({k1, k2})

=============================================================================
