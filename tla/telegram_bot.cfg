SPECIFICATION FairAdmin
CONSTANTS
  MaxUpdates = 3
  MaxRestarts = 2
INVARIANTS
  NoneSkipped
  RepeatsOnlyLastAnswer
  AuditAgrees
PROPERTIES
  TakenOnceInOrder
  EveryUpdateTaken
