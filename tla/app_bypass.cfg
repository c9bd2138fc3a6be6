SPECIFICATION AppBypassSpec
CONSTANTS
  p1 = p1
  p2 = p2
  n1 = n1
  Paths = {p1, p2}
  Names = {n1}
  NameOf <- MCNameOf
  Apps = {a1, a2}
  Bad = Bad
  Custom = Custom
  NoPath = NoPath
  StoredNodes <- MCStoredNodes
  Nodes <- MCNodes
  Tabs = {t1}
  None = None
  MaxCustom = 1
  MaxEntries = 2
SYMMETRY MCSymmetry
INVARIANTS
  
  UserConfigSound
  DialledAsDocumented
PROPERTIES
  PageKeepsBypass
  RefusedForRemovedApps
