SPECIFICATION ActivationSpec
CONSTANTS
  Configs <- MCConfigs
  Torn = Torn
  NoFile = NoFile
  MaxTime = 2
  HelperFaults = FALSE
  Tasks = {t1, t2}
  None = None
  Attempts = 2
  Requests = {"deploy", "restore", "service"}
  FastFail = FALSE
  AppCrash = TRUE
  Tags = {a}
  NoTag = NoTag
  Presets = {"p", "q"}
  MaxRows = 2
  Edits = {"add_node", "delete_node", "add_profile", "delete_profile", "settings"}
  Overlap = TRUE
INVARIANTS
  OneActive
  ActiveProfileMatchesSettings
  IdleServiceRunsFile
PROPERTIES
  RollbackKeepsItsBackup
SYMMETRY MCSymmetry
VIEW NoAuditRow
