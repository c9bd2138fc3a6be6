SPECIFICATION FairHealth
CONSTANTS
  SystemChecks = {"service"}
  ConnectivityChecks = {"dns", "tcp"}
  Tags = {"a"}
  NoTag = NoTag
  Retain = 1
  MaxSwitches = 1
  MaxRestarts = 1
INVARIANTS
  NoticesFollowState
PROPERTIES
  OutageFound
