SPECIFICATION EntitiesSpec
CONSTANTS
  ap = ap
  mac = mac
  vdom = vdom
  named = named
  Tables <- MCWifiTables
  Things <- MCThings
  Value <- MCValue
  Unnamed = Unnamed
  None = None
  Version = {v1, v2}
SYMMETRY MCSymmetry
INVARIANTS
  FirmwareShown
CHECK_DEADLOCK FALSE
