SPECIFICATION Spec
CONSTANTS
  LanV4 <- MCLanV4
  LinkLocal <- MCLinkLocal
  Multicast <- MCMulticast
  V6 <- MCV6
  Svchost = "svchost"
  NoBinary = "none"
  Turn <- MCTurn
  Configs <- SomeConfigs
  Traffic <- SomeTraffic
  MaxApplies = 2
INVARIANTS TypeOK NoWindow NoInterruption
CHECK_DEADLOCK FALSE
