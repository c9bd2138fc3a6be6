SPECIFICATION ActivationSpec
CONSTANTS
  Configs <- MCConfigs
  Torn = Torn
  NoFile = NoFile
  MaxTime = 2
  HelperFaults = FALSE
  Tasks = {t1, t2}
  None = None
  Attempts = 2
  Requests = {"deploy", "restore"}
  FastFail = FALSE
  AppCrash = TRUE
  Tags = {a, b}
  NoTag = NoTag
  Presets = {"p"}
  MaxRows = 2
  Edits = {"add_node", "delete_node", "add_profile", "delete_profile", "settings"}
  Overlap = FALSE
INVARIANTS
  ActiveFlagsMatchHost
SYMMETRY MCSymmetry
VIEW NoAuditRow
