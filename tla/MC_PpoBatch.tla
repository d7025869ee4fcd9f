------------------------------ MODULE MC_PpoBatch ------------------------------
EXTENDS PpoBatch

(* The defaults of the recipe, with the rewards launched early. *)
Overlap == {[overlapped |-> TRUE, balance_batch |-> TRUE, launch_async |-> TRUE]}
OneEach == {<<0, 1>>}
Unequal == {<<4, 3, 2, 1>>, <<3, 1, 4, 1>>}
===============================================================================
