SPECIFICATION Spec
CONSTANTS
  svc = svc
  cli = cli
  blk = blk
  loop = loop
  Procs <- Two
  Blocks <- MCBlocks
  Infra <- MCInfra
  DnsDown = {}
  Luids = {}
  MaxId = 4
SYMMETRY Symmetry
INVARIANTS NoFailOpenWindow StaleRulesGone
PROPERTIES DisableTellsTruth
CHECK_DEADLOCK FALSE
