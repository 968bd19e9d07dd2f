\* One price, two users, a queue of three: time priority, cancels from the middle.
SPECIFICATION Spec
CONSTANTS
  U32_MAX = 4
  Capacity = 3
  Prices = {1}
  Qtys = {1, 2}
  OrderIds = {o1, o2, o3, o4}
  UserIds = {u1, u2}
  NoOrder = NoOrder
SYMMETRY Symmetry
PROPERTY ImplementsReference
