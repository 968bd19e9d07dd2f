\* Two prices, two depths each, a ring smaller than the events of one command.
SPECIFICATION Spec
CONSTANTS
  Cells = {c1, c2}
  Depths = {d0, d1}
  NoCell = none
  NoDepth = d0
  MaxEvents = 3
  InputSize = 1
  OutputSize = 2
INVARIANTS
  TypeOK
  ViewFollowsBook
PROPERTY InputDrains
