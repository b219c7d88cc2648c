-------------------------- MODULE MCPolicyEditing ---------------------------
(* Instances of PolicyEditing for TLC: ids, tabs and slots are model       *)
(* values, interchangeable as far as Init and Next go.                     *)
EXTENDS PolicyEditing, TLC

Symmetry == Permutations(Tabs) \cup Permutations(Slots) \cup Permutations(InitialIds)
            \cup Permutations(Ids \ InitialIds)
=============================================================================
