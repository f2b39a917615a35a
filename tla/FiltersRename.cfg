\* Two FortiGates with one name; the page of the VDOMs.
SPECIFICATION Spec
CONSTANTS
  Entry = {"fw1", "fw2"}
  Name = {"alpha", "beta"}
  Picture <- MCPicture
  Clients <- MCClients
  Settings <- MCSettings
  Masked <- MCMasked
  DeviceFields = {"hardware_vendor", "hardware_type"}
  Pages = {"vdom"}
PROPERTIES
  RenamePreservesSelections
