----------------------------- MODULE MCAmStata -----------------------------
(* AmStata with elements whose bytes tell where a misaligned sort moves     *)
(* them: 0, 1 and a value with its highest byte set.                        *)
EXTENDS AmStata

MCVals == {[j \in 0..3 |-> 0],
           [j \in 0..3 |-> IF j = 0 THEN 1 ELSE 0],
           [j \in 0..3 |-> IF j = 3 THEN 1 ELSE 0]}
=============================================================================
