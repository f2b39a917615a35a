\* Two entries, two manager identities: safety, and the transfer of the ownership.
SPECIFICATION FairSpec
CONSTANTS
  Entry = {fg1, fg2}
  NoEntry = NoEntry
  Manager = {m1, m2}
  NoManager = NoManager
INVARIANTS
  SharedOnlyWithOwner
  NoStaleManager
  OwnerShowsFilters
PROPERTIES
  HandOver
