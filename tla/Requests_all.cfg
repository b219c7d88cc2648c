CONSTANTS
  Operations <- EveryOperation
  Handlers <- AllHandlers
  Methods <- AllMethods
  Routes <- AllRoutes
  LocalHandlers <- AllLocal
  Sourceless <- SourcelessHandlers
  Sources = {local, remote}
  LocalCluster = local
SPECIFICATION Spec
CHECK_DEADLOCK FALSE
INVARIANTS NothingRefused SuccessIsWritten FailedWritesAreTold WritesWhereSelected FailureWroteNothing
