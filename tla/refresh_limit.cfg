SPECIFICATION DistributionSpec
CONSTANTS
  w1 = w1
  r = r
  x = x
  a = a
  u1 = u1
  Users = {u1}
  Tags = {a}
  Urls = {x}
  Routes = {r}
  Limits = {0, 2}
  Default = 1
  MaxGroups = 1
  Commands = {"/config", "/sbclient", "/status"}
  Workers = {w1}
  Edits = {"groups", "users"}
  StaleForms = FALSE
  Hour = 2
  Sub = 1
  MaxTime = 2
  MaxCreated = 2
  MaxVersion = 1
  MaxRows = 2
  None = None
SYMMETRY MCSymmetry
INVARIANTS
  WithinLimit
  NotRefusedEarly
  DeliveredAsAssigned
  GroupReferencesExist
