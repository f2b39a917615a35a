\* Two devices with one field; an answer is used for three polls.
SPECIFICATION Spec
CONSTANTS
  Mac = {mac1, mac2}
  Field = {host}
  Value = {v1, v2}
  Refresh = 3
INVARIANTS
  ChangesExplain
PROPERTIES
  CatchesUp
