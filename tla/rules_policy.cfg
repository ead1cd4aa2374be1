SPECIFICATION Spec
CONSTANTS
  LanV4 <- MCLanV4
  LinkLocal <- MCLinkLocal
  Multicast <- MCMulticast
  V6 <- MCV6
  Svchost = "svchost"
  NoBinary = "none"
  Turn <- MCTurn
  Configs <- AllConfigs
  Traffic <- AllTraffic
  MaxApplies = 1
INVARIANTS OnlyLifelineOutsideTunnel CanReconnect AllowlistHolds TunnelIsUsable
CHECK_DEADLOCK FALSE
