SPECIFICATION Spec
CONSTANTS
  tap = tap
  wintun = wintun
  None = None
  Adapters <- TwoAdapters
  Configs <- QuietConfigs
  Faults = {}
  CliWhen = {"stopped"}
INVARIANTS EngineMatchesStatus
PROPERTIES Converges EnabledMeansBlocked TunnelsFollowVPN
