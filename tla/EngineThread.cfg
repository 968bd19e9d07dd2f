\* Two orders at one price, and a ring for one of the up to four events of a
\* command.
SPECIFICATION ThreadSpec
CONSTANTS
  U32_MAX = 4
  Capacity = 2
  Prices = {1}
  Qtys = {1}
  OrderIds = {o1, o2}
  UserIds = {u1}
  NoOrder = NoOrder
  InputSize = 1
  OutputSize = 1
INVARIANT SubscriberFollowsBook
PROPERTY CommandsTaken
