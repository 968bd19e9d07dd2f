\* Two prices on both sides: price priority, events, replacements, getters.  No
\* symmetry: it is not sound for liveness.
SPECIFICATION Spec
CONSTANTS
  U32_MAX = 4
  Capacity = 2
  Prices = {1, 2}
  Qtys = {1, 2}
  OrderIds = {o1, o2, o3}
  UserIds = {u1}
  NoOrder = NoOrder
INVARIANTS
  GettersExact
  EventsBounded
PROPERTIES
  ImplementsReference
  DeltasExact
  EventsTellOrders
  CommandCompletes
