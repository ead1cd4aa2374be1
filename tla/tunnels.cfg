SPECIFICATION Spec
CONSTANTS
  MaxSup = 2
  HasCheck = TRUE
  Threshold = 2
  Delay = 1
  MaxBackoff = 2
  Faults = {"launch"}
INVARIANTS OneMaster NoOrphans QuietMeansStopped PausesDouble
PROPERTIES StopIsEffective ProcessComesBack
CHECK_DEADLOCK FALSE
