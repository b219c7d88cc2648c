------------------------- MODULE MCDetectorEditing --------------------------
(* Two integrations, one of which both spaces have, and a title that is    *)
(* not in lower case.                                                      *)
EXTENDS DetectorEditing

MCTypes == {"network", "Web", "web"}
MCLower == [type \in MCTypes |-> IF type = "Web" THEN "web" ELSE type]
MCTitles == [standard |-> {"network", "Web"}, custom |-> {"network"}]
MCRules == {[category |-> "network", space |-> "standard"],
            [category |-> "network", space |-> "custom"],
            [category |-> "web", space |-> "standard"]}
=============================================================================
