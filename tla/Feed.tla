-------------------------------- MODULE Feed --------------------------------
(***************************************************************************)
(* The Coinbase feed (src/coinbase.rs): rows of a Tardis L3 file, and the  *)
(* messages they become.  An Option is the set of its value, or the empty  *)
(* set.  A decimal is counted in fractions of the unit it is converted to, *)
(* DIGITS to one, so that conversion may have digits to drop.              *)
(***************************************************************************)
EXTENDS Command

CONSTANTS
  RawIds,       \* order ids of the feed, UUIDs
  Hash,         \* DefaultHasher: a raw id to an order id, some to the same
  RawSides,     \* what the column "side" may hold
  RawPrices,    \* decimals, or none
  RawAmounts,
  DIGITS

\* d * multiplier, to an unsigned integer of at most max: the fraction is cut
\* off, and what is missing, negative or too large is 0.
ToUnsigned(d, max) ==
  LET fits == {x \div DIGITS : x \in d} \cap 0 .. max
  IN  IF fits = {} THEN 0 ELSE CHOOSE n \in fits : TRUE

ToPrice(d) == ToUnsigned(d, U64_MAX)

\* Mutant of ToQty: a size too large for u32 wraps around.
ToQtyWraps(d) == AsU32(ToUnsigned(d, U64_MAX))

ToQty(d) == ToUnsigned(d, U32_MAX)

ToSide(side) == IF side \in {{"sell"}, {"ask"}} THEN "Ask" ELSE "Bid"

ASSUME FeedAssumption ==
  /\ DIGITS \in Nat \ {0}
  /\ RawPrices \cup RawAmounts \subseteq SUBSET Int
  /\ Hash \in [RawIds -> OrderIds]
  /\ {ToPrice(d) : d \in RawPrices} \subseteq Prices
  /\ {ToQty(d) : d \in RawAmounts} \subseteq Qtys

\* Rows of a type, with the columns that the messages of the type carry on; the
\* others are left empty.
Row(type, sides, prices, amounts) ==
  [type : {type}, side : sides, price : prices, amount : amounts,
   order_id : RawIds]

OrderRow == Row("received", RawSides, RawPrices, RawAmounts)

MatchRow == Row("match", {{}}, RawPrices, RawAmounts)

PlainRow(type) == Row(type, {{}}, {{}}, {{}})

\* Mutant of ToDone: the reason is the one of the row.
ToDoneFilled(row) ==
  [kind |-> "Done", order_id |-> Hash[row.order_id], side |-> ToSide(row.side),
   reason |-> "Filled"]

\* Whatever the reason, a done row cancels.
ToDone(row) ==
  [kind |-> "Done", order_id |-> Hash[row.order_id], side |-> ToSide(row.side),
   reason |-> "Canceled"]

\* to_message, an Option.  trade_id, which nothing reads, is left out.
ToMessage(row) ==
  LET id == Hash[row.order_id]
      price == ToPrice(row.price)
      qty == ToQty(row.amount)
  IN  CASE row.type = "received" ->
             {[kind |-> "Received", order_id |-> id, side |-> ToSide(row.side),
               price |-> price, qty |-> qty]}
        [] row.type = "open" ->
             {[kind |-> "Open", order_id |-> id, side |-> ToSide(row.side),
               price |-> price, qty |-> qty]}
        [] row.type = "done" -> {ToDone(row)}
        [] row.type = "match" ->
             {[kind |-> "Match", maker_order_id |-> id, price |-> price,
               qty |-> qty]}
        [] row.type = "change" ->
             {[kind |-> "Change", order_id |-> id, new_qty |-> qty,
               price |-> price]}
        [] OTHER -> {}
=============================================================================
