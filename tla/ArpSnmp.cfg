\* One FortiGate, two communities; versions, SNMP and settings may change at any time.
SPECIFICATION FairSpec
CONSTANTS
  Community = {c1, c2}
  None = None
  Mode = {"none", "area"}
INVARIANTS
  TypeOK
  IssueMatches
  SettingsInUse
PROPERTIES
  Mended
