\* An answer of which nothing is usable empties the list of VDOMs.
SPECIFICATION Spec
CONSTANTS
  root = root
  lab = lab
  s1 = s1
  s2 = s2
  NoVdom = NoVdom
  NoServer = NoServer
  Inherit = Inherit
  Root = root
  Vdom <- MCVdom
  Server <- MCServer
  Config <- MCConfig
  MinVdom <- MCMinVdom
  TTL = 2
PROPERTIES
  InventoryRetained
