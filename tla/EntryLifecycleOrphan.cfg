\* Three entries: the shared filters can be left without an owner for good.
SPECIFICATION Spec
CONSTANTS
  Entry = {fg1, fg2, fg3}
  NoEntry = NoEntry
  Manager = {m1, m2}
  NoManager = NoManager
SYMMETRY Symmetry
INVARIANTS
  LoadedImpliesOwned
