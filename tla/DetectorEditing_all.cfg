CONSTANTS
  Types <- MCTypes
  Lower <- MCLower
  Titles <- MCTitles
  DefaultType = "network"
  NoType = ""
  Rules <- MCRules
  Loads = {1, 2}
  MaxChoices = 2
  MaxWrites = 2
SPECIFICATION FairSpec
CHECK_DEADLOCK FALSE
INVARIANT TypeOK
PROPERTIES RulesBelong DropsKnowingly KeepsTheRest DeletedWithDashboard LocksEnd
