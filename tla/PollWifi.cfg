\* A poll fails although only Wi-Fi requests failed.
SPECIFICATION Spec
CONSTANTS
  Tracked = {"clients", "dns"}
  Value = {v1}
  NoValue = NoValue
INVARIANTS
  WifiFailuresAreIsolated
