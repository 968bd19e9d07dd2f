\* One price, one size, no collisions.
SPECIFICATION ReplaySpec
CONSTANTS
  U32_MAX = 4
  Capacity = 2
  Prices = {0, 1}
  Qtys = {0, 1, 2}
  OrderIds = {1, 2, 3}
  UserIds = {1}
  NoOrder = NoOrder
  RawIds = {1, 2, 3}
  Hash <- MCHash
  RawSides = {{"buy"}, {"sell"}}
  RawPrices = {{3}}
  RawAmounts = {{4}}
  DIGITS = 2
  Limit = 3
PROPERTY ValidatedMeansTraded
