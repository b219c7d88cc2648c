------------------------- MODULE MCDetectorCreation --------------------------
(* Instances of DetectorCreation for TLC: clicks and the pages that await  *)
(* them are model values, interchangeable as far as Init and Next go.      *)
EXTENDS DetectorCreation, TLC

Symmetry == Permutations(Creations) \cup Permutations(Visits)
=============================================================================
