------------------------------- MODULE Replay -------------------------------
(***************************************************************************)
(* The replay program (src/bin/replay.rs): the rows of a feed, one by one, *)
(* drive an engine.  A received row places an order, a done row cancels    *)
(* it, and a match row is held against the trades that the engine made.    *)
(*                                                                         *)
(* traded and open are history variables.                                  *)
(***************************************************************************)
EXTENDS Engine, Feed

CONSTANT Limit    \* --limit, or the number of messages in the file

ASSUME ReplayAssumption == Limit \in Nat /\ 1 \in UserIds

VARIABLES
  phase,                \* "read", or "placing": in process_command
  row,                  \* the received or match row read last
  messages_processed,
  pending_trades,
  matches_validated,
  matches_missed,
  traded,               \* all trades the engine made
  open                  \* by raw id: the rows received since its last done row

counters ==
  <<messages_processed, pending_trades, matches_validated, matches_missed>>

allvars == <<vars, phase, row, counters, traded, open>>

ReplayInit ==
  /\ Init
  /\ phase = "read"
  /\ row = CHOOSE r \in OrderRow : TRUE
  /\ messages_processed = 0 /\ pending_trades = 0
  /\ matches_validated = 0 /\ matches_missed = 0
  /\ traded = <<>>
  /\ open = [r \in RawIds |-> {}]

\* The limit is looked at before the next row is.
Reading == phase = "read" /\ messages_processed < Limit

-----------------------------------------------------------------------------

\* The order is a limit order of user 1, whatever it was.
ToPlace(msg) ==
  [order_id |-> msg.order_id, user_id |-> 1, side |-> msg.side,
   price |-> msg.price, qty |-> msg.qty, order_type |-> "Limit"]

Received(r) ==
  /\ Reading
  /\ row' = r
  /\ \E msg \in ToMessage(r) :
       msg.kind = "Received" /\ Place(ToPlace(msg))
  /\ phase' = "placing"
  /\ open' = [open EXCEPT ![r.order_id] = @ \cup {r}]
  /\ UNCHANGED <<counters, traded>>

\* process_command at work.
Placing ==
  /\ phase = "placing" /\ pc = "cross"
  /\ Continue
  /\ traded' = traded \o TradesOf(NewEvents)
  /\ UNCHANGED <<phase, row, counters, open>>

\* Mutant of CountTrades: every event counts.
CountEvents ==
  /\ phase = "placing" /\ pc = "idle"
  /\ phase' = "read"
  /\ pending_trades' = pending_trades + Len(event_buffer)
  /\ messages_processed' = messages_processed + 1
  /\ UNCHANGED <<vars, row, matches_validated, matches_missed, traded, open>>

CountTrades ==
  /\ phase = "placing" /\ pc = "idle"
  /\ phase' = "read"
  /\ pending_trades' = pending_trades + Len(Trades)
  /\ messages_processed' = messages_processed + 1
  /\ UNCHANGED <<vars, row, matches_validated, matches_missed, traded, open>>

Done(r) ==
  /\ Reading
  /\ \E msg \in ToMessage(r) :
       /\ msg.kind = "Done"
       /\ IF msg.reason = "Canceled" THEN Cancel(msg.order_id) ELSE UNCHANGED vars
  /\ open' = [open EXCEPT ![r.order_id] = {}]
  /\ messages_processed' = messages_processed + 1
  /\ UNCHANGED <<phase, row, pending_trades, matches_validated, matches_missed,
                 traded>>

\* Mutant of Matched: it is not asked whether a trade is pending.
MatchedAnyway(r) ==
  /\ Reading
  /\ row' = r
  /\ \E msg \in ToMessage(r) : msg.kind = "Match"
  /\ matches_validated' = matches_validated + 1
  /\ pending_trades' = pending_trades - 1
  /\ messages_processed' = messages_processed + 1
  /\ UNCHANGED <<vars, phase, matches_missed, traded, open>>

\* A match row takes one of the pending trades, any one, or is missed.
Matched(r) ==
  /\ Reading
  /\ row' = r
  /\ \E msg \in ToMessage(r) : msg.kind = "Match"
  /\ IF pending_trades > 0
     THEN /\ matches_validated' = matches_validated + 1
          /\ pending_trades' = pending_trades - 1
          /\ UNCHANGED matches_missed
     ELSE /\ matches_missed' = matches_missed + 1
          /\ UNCHANGED <<matches_validated, pending_trades>>
  /\ messages_processed' = messages_processed + 1
  /\ UNCHANGED <<vars, phase, traded, open>>

\* Open and change rows are counted, rows of other types are not even that.
Ignored(r) ==
  /\ Reading
  /\ messages_processed' = messages_processed + Cardinality(ToMessage(r))
  /\ UNCHANGED <<vars, phase, row, pending_trades, matches_validated,
                 matches_missed, traded, open>>

\* The limit is reached, the file ends, or a row cannot be parsed: what the
\* counters say is final.
End == phase = "read" /\ UNCHANGED allvars

ReplayNext ==
  \/ \E r \in OrderRow : Received(r)
  \/ Placing
  \/ CountTrades
  \/ \E r \in PlainRow("done") : Done(r)
  \/ \E r \in MatchRow : Matched(r)
  \/ \E type \in {"open", "change", "other"} :
       \E r \in PlainRow(type) : Ignored(r)
  \/ End

ReplaySpec == ReplayInit /\ [][ReplayNext]_allvars

-----------------------------------------------------------------------------

\* Types of the counters, which are unsigned: pending_trades never underflows.
ReplayTypeOK ==
  /\ TypeOK
  /\ phase \in {"read", "placing"}
  /\ messages_processed \in 0 .. Limit
  /\ {pending_trades, matches_validated, matches_missed} \subseteq Nat
  /\ \A r \in RawIds : open[r] \subseteq OrderRow

\* Between rows every trade of the engine has been counted once: it is pending,
\* or a match row has been held against it.
TradesCounted ==
  phase = "read" => pending_trades + matches_validated = Len(traded)

\* Every order in the book was received under a raw id of its hash and has not
\* been done since; it is on the side of that row, at its price rounded down
\* (or at 0 if it has none that fits), and of no more than its size, whatever
\* ids collide.
BookFromFeed ==
  \A id \in DOMAIN matcher.order_map :
    LET info == matcher.order_map[id]
    IN  \E raw \in RawIds : \E r \in open[raw] : \E a \in r.amount :
          LET prices == {d \div DIGITS : d \in r.price} \cap 0 .. U64_MAX
          IN  /\ Hash[raw] = id
              /\ info.side = ToSide(r.side)
              /\ info.price \in IF prices = {} THEN {0} ELSE prices
              /\ OpenQty(matcher, id) * DIGITS <= a

\* What of the order being placed an event says has been traded or rests.
PlacedQty(event) ==
  IF event.kind \in {"Trade", "Accepted"} THEN event.qty ELSE 0

\* A received order is refused, or all of its size is traded or in the book: a
\* size that does not fit u32 is never cut to one that does.
PlacedInFull ==
  phase = "placing" /\ pc = "idle" =>
    \/ \E k \in DOMAIN event_buffer : event_buffer[k].kind = "Rejected"
    \/ \E a \in row.amount :
         SumFunction([k \in DOMAIN event_buffer |-> PlacedQty(event_buffer[k])])
           = a \div DIGITS

\* replay.rs:49, "We will count how many explicit match messages from CSV align
\* with our internal trades", and README.md:64, "Matches Validated": a match row
\* that is counted is that of a trade the engine made, by that order, at that
\* price and of that quantity.
ValidatedMeansTraded ==
  [][matches_validated' > matches_validated =>
       \E k \in DOMAIN traded :
         /\ Hash[row'.order_id]
              \in {traded[k].maker_order_id, traded[k].taker_order_id}
         /\ traded[k].price = ToPrice(row'.price)
         /\ traded[k].qty = ToQty(row'.amount)]_allvars
=============================================================================
