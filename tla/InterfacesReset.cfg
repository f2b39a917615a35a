\* A counter that starts again and overtakes its last sample gives a rate.
SPECIFICATION Spec
CONSTANTS
  root = root
  lab = lab
  wan = wan
  dmz = dmz
  Root = root
  Vdom <- MCVdom
  MinVdom <- MCMinVdom
  Interface <- MCInterface
  VdomOf <- MCVdomOf
  MaxCount = 1
  MaxBoot = 1
  NoCount = NoCount
  NoRate = NoRate
  NoRecord = NoRecord
PROPERTIES
  ResetGivesNoRate
