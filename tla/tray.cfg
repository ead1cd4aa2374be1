SPECIFICATION FairSpec
CONSTANTS
  Form = {apps}
  Value = {old, new}
  Default = old
  Faults = {"save", "build", "late", "apply", "disable"}
INVARIANTS OkMeansApplied
PROPERTIES AsksBeforeOpening ToggleKeepsOptions IconFollowsService
