------------------------------- MODULE Spaces -------------------------------
(***************************************************************************)
(* The spaces of the dashboard and what each of them allows                *)
(* (common/constants.ts, common/helpers.ts).  A space is a stage in the    *)
(* life of the security content: draft is edited, promoted to test and     *)
(* then to custom; standard holds the vendor's content.                    *)
(***************************************************************************)

SpaceNames == {"draft", "test", "custom", "standard"}

(* SPACE_ACTIONS *)
SpaceActions ==
  { "create", "edit", "delete", "promote", "define_root_decoder",
    "rearrange_integrations", "edit_policy", "edit_policy_indexing_settings",
    "edit_enrichments", "clear_space" }

AllowedActionsBySpace ==
  [ draft    |-> SpaceActions,
    test     |-> {"promote"},
    custom   |-> {},
    standard |-> {"edit_enrichments", "edit_policy_indexing_settings"} ]

(* Filters belong to spaces of their own rules.                            *)
FiltersAllowedActionsBySpace ==
  [ draft    |-> {"create", "edit", "delete"},
    test     |-> {},
    custom   |-> {},
    standard |-> {"create", "edit", "delete"} ]

actionIsAllowedOnSpace(space, action) == action \in AllowedActionsBySpace[space]
=============================================================================
