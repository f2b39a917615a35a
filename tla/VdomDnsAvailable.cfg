\* Only latency data is current, and dns_data_available is false.
SPECIFICATION Spec
CONSTANTS
  root = root
  lab = lab
  s1 = s1
  s2 = s2
  NoVdom = NoVdom
  NoServer = NoServer
  Inherit = Inherit
  Root = root
  Vdom <- MCVdom
  Server <- MCServer
  Config <- MCConfig
  MinVdom <- MCMinVdom
  TTL = 2
INVARIANTS
  DataAvailableAsDocumented
