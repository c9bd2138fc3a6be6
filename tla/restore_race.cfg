SPECIFICATION ActivationSpec
CONSTANTS
  Configs <- MCConfigs
  Torn = Torn
  NoFile = NoFile
  MaxTime = 2
  HelperFaults = FALSE
  Tasks = {t1, t2}
  None = None
  Attempts = 2
  Requests = {"deploy", "restore"}
  FastFail = FALSE
  AppCrash = FALSE
  Tags = {a, b}
  NoTag = NoTag
  Presets = {"p"}
  MaxRows = 2
  Edits = {"add_node"}
  Overlap = TRUE
INVARIANTS
  ActiveFlagsMatchHost
