SPECIFICATION Spec
CONSTANTS
  tap = tap
  wintun = wintun
  None = None
  Adapters <- OneAdapter
  Configs <- QuietConfigs
  Faults = {"build"}
  CliWhen = {"stopped"}
PROPERTIES TunnelsFollowVPN
