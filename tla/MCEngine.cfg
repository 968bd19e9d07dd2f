\* Four ids for three slots, so that the arena fills up and a taker still
\* comes; levels hold more than u32::MAX.
SPECIFICATION Spec
CONSTANTS
  U32_MAX = 4
  Capacity = 3
  Prices = {1, 2}
  Qtys = {0, 1, 2}
  OrderIds = {o1, o2, o3, o4}
  UserIds = {u1}
  NoOrder = NoOrder
SYMMETRY Symmetry
INVARIANTS
  TypeOK
  BookConsistent
  NotCrossed
  NoPanic
  ArenaFullIsClean
PROPERTY RefusalsTrue
