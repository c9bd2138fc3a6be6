SPECIFICATION DeployerSpec
CONSTANTS
  Configs = {c1, c2}
  Torn = Torn
  NoFile = NoFile
  MaxTime = 3
  HelperFaults = FALSE
  Tasks = {t1, t2}
  None = None
  Attempts = 3
  Requests = {"deploy"}
  FastFail = TRUE
  AppCrash = FALSE
  Overlap = FALSE
SYMMETRY TaskSymmetry
INVARIANTS
  RolledBackMeansPrevious
