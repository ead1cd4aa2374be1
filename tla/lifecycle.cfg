SPECIFICATION SerialFairSpec
CONSTANTS
  Conns = {c1}
  Monitor = monitor
  Files <- MCFiles
  Faults = {"load", "open", "build", "disable", "pipe"}
  StopOnDown = TRUE
  MaxCrashes = 1
INVARIANTS GuardHolds NothingOutlivesItsOwner
PROPERTIES HandlersAreSerial OpensOnlyOnCommand StopTerminates ClientsAreReleased GuardReturns
