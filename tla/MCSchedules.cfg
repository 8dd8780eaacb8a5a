\* every schedule with every way to communicate, on one to five devices
CONSTANTS
  Configs <- AllCalls
SPECIFICATION FairSpec
INVARIANTS
  TypeOK
  StorageBounded
  SyncInTime
  BatchDone
PROPERTIES
  Termination
