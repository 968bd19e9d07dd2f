\* Three orders of 2 at one price make a level of 6, more than u32::MAX = 4 and
\* 1 modulo 5.
SPECIFICATION Spec
CONSTANTS
  U32_MAX = 4
  Capacity = 3
  Prices = {1}
  Qtys = {2}
  OrderIds = {o1, o2, o3, o4}
  UserIds = {u1}
  NoOrder = NoOrder
SYMMETRY Symmetry
INVARIANT FokRejectedOnlyIfShort
