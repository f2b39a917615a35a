\* Three tables: one for each way a caught failure is handled and of reading it.
SPECIFICATION FairSpec
CONSTANTS
  Tracked = {"clients", "available", "dns"}
  Value = {v1}
  NoValue = NoValue
INVARIANTS
  OnePicture
  ListenersTold
  AvailableIsCurrent
PROPERTIES
  Recovers
  ImplementsSnapshot
