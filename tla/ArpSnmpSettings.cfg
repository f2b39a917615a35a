\* The same, and the claim of the changelog.
SPECIFICATION Spec
CONSTANTS
  Community = {c1, c2}
  None = None
  Mode = {"none", "area"}
PROPERTIES
  SettingsRetained
