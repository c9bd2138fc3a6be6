SPECIFICATION FairNodes
CONSTANTS
  Links <- MCLinks
  Payloads <- MCPayloads
  Geos = {kz}
  Roles = {relay}
  Requests = {1, 2}
  Calls = {"add", "import", "refresh", "metadata", "delete"}
  DeleteRaces = FALSE
  MaxNodes = 3
  Absent = Absent
  Bad = Bad
  None = None
  a = a
  b = b
  kz = kz
  relay = relay
INVARIANTS NodeTypeOK LinkMatchesTag RefusedForCause
PROPERTIES RoleKept CreatedWithoutGeo
