\* No alias changes and no flow: does an override stay?
SPECIFICATION QuietSpec
CONSTANTS
  Interface = {wan, lan}
  Alias = {uplink}
  NoAlias = NoAlias
  Name = {mine}
  NoName = NoName
  Absent = Absent
  NoRecord = NoRecord
  NoFlow = NoFlow
INVARIANT
  OverrideIsPreserved
