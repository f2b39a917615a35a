\* Two FortiGates that may have the same name; every page of the dashboards.
SPECIFICATION Spec
CONSTANTS
  Entry = {"fw1", "fw2"}
  Name = {"alpha", "beta"}
  Picture <- MCPicture
  Clients <- MCClients
  Settings <- MCSettings
  Masked <- MCMasked
  DeviceFields = {"hardware_vendor", "hardware_type"}
  Pages = {"wifi", "arp", "dhcp", "device", "vdom", "interface",
           "wifi_graphs", "vdom_graphs", "interface_graphs"}
INVARIANTS
  Selectable
PROPERTIES
  NoNeedlessReset
  RenameKeepsScope
  ImplementsSharedFilter
