SPECIFICATION MembersSpec
CONSTANTS
  w1 = w1
  w2 = w2
  s = s
  r = r
  x = x
  a = a
  u1 = u1
  u2 = u2
  Users = {u1, u2}
  Tags = {a}
  Urls = {x}
  Routes = {r, s}
  Limits = {0}
  Default = 9
  MaxGroups = 1
  Commands = {"/config"}
  Workers = {w1, w2}
  Edits = {"nodes", "groups"}
  StaleForms = FALSE
  Hour = 1
  Sub = 1
  MaxTime = 0
  MaxCreated = 1
  MaxVersion = 3
  MaxRows = 1
  None = None
INVARIANTS
  VersionNamesContent
PROPERTIES
  MembersNotified
