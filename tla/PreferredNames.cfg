\* Two interfaces, one alias and one name of the user: the safety properties.
SPECIFICATION Spec
CONSTANTS
  Interface = {wan, lan}
  Alias = {uplink}
  NoAlias = NoAlias
  Name = {mine}
  NoName = NoName
  Absent = Absent
  NoRecord = NoRecord
  NoFlow = NoFlow
INVARIANTS
  StoredAgrees
  AliasApplied
PROPERTY
  OthersAreKept
