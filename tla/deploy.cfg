SPECIFICATION DeployerFairSpec
CONSTANTS
  Configs = {c1, c2, c3}
  Torn = Torn
  NoFile = NoFile
  MaxTime = 2
  HelperFaults = TRUE
  Tasks = {t1, t2}
  None = None
  Attempts = 2
  Requests = {"deploy", "restore", "service"}
  FastFail = FALSE
  AppCrash = TRUE
  Overlap = FALSE
INVARIANTS
  TypeOK
  PipelineExclusive
  RolledBackMeansPrevious
  SuccessMeansRunning
  ManualBackupHoldsPrevious
PROPERTIES
  ImplementsPromise
  DeployTerminates
