CONSTANTS
  Existing = {}
  Creations = {c1, c2}
  Forms = {f1, f2}
  EmptyForm = EmptyForm
  WithDashboard = {f1}
  Visits = {v1, v2}
  Pending = Pending
  Nobody = Nobody
  NoVisit = NoVisit
SPECIFICATION FairSpec
CHECK_DEADLOCK FALSE
INVARIANTS NeverWithoutMappings OneCreationPerForm PendingPageWaits
PROPERTIES PendingPageSettles KeepsProtocol
