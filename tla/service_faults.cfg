SPECIFICATION Spec
CONSTANTS
  tap = tap
  wintun = wintun
  None = None
  Adapters <- OneAdapter
  Configs <- FaultConfigs
  Faults = {"apply", "disable", "build", "poll"}
  CliWhen = {"stopped", "running"}
INVARIANTS TunnelsOnlyBehindVPN
PROPERTIES HandlersAsPromised NetworkOpensOnlyOnRequest
