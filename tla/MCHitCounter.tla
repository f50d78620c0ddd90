------------------------------ MODULE MCHitCounter ------------------------------
(* Model-checking instance of HitCounter, its bounds in the cfg.  Only     *)
(* safety is checked, and neither browsers nor requests differ.            *)
EXTENDS HitCounter, TLC

Symmetric == Permutations(Browsers) \cup Permutations(Requests)
===============================================================================
