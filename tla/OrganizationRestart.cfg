\* The same instance, and what the documentation says.
SPECIFICATION OrganizationSpec
CONSTANTS
  Hub = hub
  Ap = {ap1, ap2}
  Client = {phone}
  hub = hub
  ap1 = ap1
  ap2 = ap2
  phone = phone
  None = None
  Area <- MCArea
  Label <- MCLabel
  Setting <- MCSetting
  AreasFor <- MCAreasFor
  LabelsFor <- MCLabelsFor
  MaxEdits = 3
PROPERTIES
  NoLabelLeftBehind
