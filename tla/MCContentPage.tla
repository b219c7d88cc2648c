---------------------------- MODULE MCContentPage ----------------------------
(* Instances of ContentPage for TLC: loads and jobs are model values,      *)
(* interchangeable as far as Init and Next go.                             *)
EXTENDS ContentPage, TLC

Symmetry == Permutations(Loads) \cup Permutations(Jobs)
=============================================================================
