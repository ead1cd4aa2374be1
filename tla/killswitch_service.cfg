SPECIFICATION SoleSpec
CONSTANTS
  Sole = svc
  blk = blk
  loop = loop
  dns = dns
  tun = tun
  Procs <- One
  Blocks <- MCBlocks
  Infra <- MCInfra
  DnsDown <- MCDnsDown
  Luids <- MCLuids
  MaxId = 6
INVARIANTS OnlyConfiguredRules
PROPERTIES KeepsPromise
CHECK_DEADLOCK FALSE
