SPECIFICATION Spec
CONSTANTS
  svc = svc
  cli = cli
  vpn1 = vpn1
  vpn2 = vpn2
  ip1 = ip1
  ip2 = ip2
  None = None
  Procs <- Two
  Hosts <- MCHosts
  Remotes <- MCRemotes
  Answers <- MCAnswers
INVARIANTS CacheServesLatest
PROPERTIES FailsOnlyWithoutDns
