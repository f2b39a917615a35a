SPECIFICATION EntitiesSpec
CONSTANTS
  ap = ap
  mac = mac
  vdom = vdom
  named = named
  Tables <- MCTables
  Things <- MCThings
  Value <- MCValue
  Unnamed = Unnamed
  None = None
  Version = {v1, v2}
SYMMETRY MCSymmetry
INVARIANTS
  EntitiesTypeOK
  ShownIsCurrent
  AllDiscovered
  RememberedReturn
  ReleaseShown
PROPERTIES
  NamesKept
CHECK_DEADLOCK FALSE
