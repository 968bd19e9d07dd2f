\* Sizes of 1, 2 and 6 units, the last too large for u32; a price or none; three
\* ids, two of which have the same hash.
SPECIFICATION ReplaySpec
CONSTANTS
  U32_MAX = 4
  Capacity = 2
  Prices = {0, 1}
  Qtys = {0, 1, 2}
  OrderIds = {1, 2}
  UserIds = {1}
  NoOrder = NoOrder
  RawIds = {1, 2, 3}
  Hash <- MCHash
  RawSides = {{"buy"}, {"sell"}}
  RawPrices = {{}, {3}}
  RawAmounts = {{2}, {5}, {12}}
  DIGITS = 2
  Limit = 4
INVARIANTS
  ReplayTypeOK
  TradesCounted
  BookFromFeed
  PlacedInFull
