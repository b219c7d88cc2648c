CONSTANTS
  Existing = {}
  Creations = {c1}
  Forms = {f1}
  EmptyForm = EmptyForm
  WithDashboard = {f1}
  Visits = {v1}
  Pending = Pending
  Nobody = Nobody
  NoVisit = NoVisit
SPECIFICATION Spec
SYMMETRY Symmetry
CHECK_DEADLOCK FALSE
INVARIANTS ReadsOwnWrites
