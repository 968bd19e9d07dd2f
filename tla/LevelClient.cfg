\* Four nodes, so that a queue has a middle with neighbours on both sides.
SPECIFICATION Spec
CONSTANTS
  U32_MAX = 5
  Capacity = 4
  Qtys = {1, 2}
INVARIANTS
  LinksSound
  TotalExact
