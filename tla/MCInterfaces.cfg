\* Two VDOMs with an interface each: safety, and recovery.
SPECIFICATION FairSpec
CONSTANTS
  root = root
  lab = lab
  wan = wan
  dmz = dmz
  Root = root
  Vdom <- MCVdom
  MinVdom <- MCMinVdom
  Interface <- MCInterface
  VdomOf <- MCVdomOf
  MaxCount = 1
  MaxBoot = 1
  NoCount = NoCount
  NoRate = NoRate
  NoRecord = NoRecord
INVARIANTS
  SamplesAreOfTable
PROPERTIES
  RatesFollowOn
  OnlyFailedAreDropped
  Recovers
