CONSTANTS
  Forms <- AllForms
  MaxSaves = 2
SPECIFICATION FairSpec
CHECK_DEADLOCK FALSE
INVARIANTS TypeOK OneDocument
PROPERTIES WritesWhatIsShown WritesOnlyChecked SwitchKeeps LockEnds
