\* One FortiGate with two access points and one client; three changes by the user.
SPECIFICATION OrganizationSpec
CONSTANTS
  Hub = hub
  Ap = {ap1, ap2}
  Client = {phone}
  hub = hub
  ap1 = ap1
  ap2 = ap2
  phone = phone
  None = None
  Area <- MCArea
  Label <- MCLabel
  Setting <- MCSetting
  AreasFor <- MCAreasFor
  LabelsFor <- MCLabelsFor
  MaxEdits = 3
INVARIANTS
  OrganizationTypeOK
  ClientLabelsKept
  ApLabelsAccounted
  PrivateAreaKept
PROPERTIES
  SetupIsComplete
