---------------------------- MODULE VenueModels -----------------------------
(***************************************************************************)
(* venues/models.py and venues/enums.py: what the values exchanged with a  *)
(* venue mean, and which of them their constructors accept.  Decimals are  *)
(* whole numbers of smallest units; an optional field is a set of at most  *)
(* one value; names, identifiers and times of the clock are left out.      *)
(***************************************************************************)
EXTENDS Instrument, Sequences

OrderSides == {"buy", "sell"}
PositionSides == {"long", "short", "flat"}

sign(side) == IF side = "buy" THEN 1 ELSE -1

from_signed_quantity(n) ==
    CASE n > 0 -> "long" [] n < 0 -> "short" [] OTHER -> "flat"

is_terminal == {"filled", "cancelled", "rejected", "expired"}
is_working == {"pending_submit", "open", "partially_filled"}

OrderStatuses == is_terminal \cup is_working

-----------------------------------------------------------------------------
\* Prices.

IsQuote(q) ==
    /\ q.bid > 0 /\ q.ask > 0
    /\ \A size \in q.bid_size \cup q.ask_size : size >= 0
    /\ q.bid <= q.ask

\* What a taker of this side would cross to.
price_for(q, side) == IF side = "buy" THEN q.ask ELSE q.bid

\* BookLevel, Trade and Fill: something of a size at a price.
IsSizedPrice(x) == x.price > 0 /\ x.size > 0

\* sorted(...) leaves levels of one price where they are.
IsDescending(levels) == \A i, j \in DOMAIN levels : i < j => levels[i].price >= levels[j].price
IsAscending(levels) == \A i, j \in DOMAIN levels : i < j => levels[i].price <= levels[j].price

IsOrderBook(book) ==
    /\ \A i \in DOMAIN book.bids : IsSizedPrice(book.bids[i])
    /\ \A i \in DOMAIN book.asks : IsSizedPrice(book.asks[i])
    /\ IsDescending(book.bids) /\ IsAscending(book.asks)
    /\ book.bids # <<>> /\ book.asks # <<>> => book.bids[1].price <= book.asks[1].price

\* The top of the book, if it has both sides.
to_quote(book) ==
    IF book.bids = <<>> \/ book.asks = <<>> THEN {}
    ELSE {[bid |-> book.bids[1].price, ask |-> book.asks[1].price,
           bid_size |-> {book.bids[1].size}, ask_size |-> {book.asks[1].size}]}

-----------------------------------------------------------------------------
\* Orders, fills and positions.

remaining_quantity(o) == o.quantity - o.filled_quantity

\* Mutant: the check of a filled order asks that something is left.
IsOrderUnlessFilled(o) ==
    /\ o.quantity > 0
    /\ 0 <= o.filled_quantity /\ o.filled_quantity < o.quantity

IsOrder(o) ==
    /\ o.quantity > 0
    /\ 0 <= o.filled_quantity /\ o.filled_quantity <= o.quantity
    /\ o.status = "filled" => o.filled_quantity = o.quantity

IsPosition(p) ==
    /\ p.quantity >= 0
    /\ p.side = "flat" <=> p.quantity = 0

\* Mutant: the sign is lost.
unsigned_quantity(p) == p.quantity

signed_quantity(p) ==
    CASE p.side = "long" -> p.quantity [] p.side = "short" -> -p.quantity [] OTHER -> 0

\* Mutant: the side of the position itself.
adding_side(p) == IF p.side = "long" THEN "buy" ELSE "sell"

\* The side of an order that reduces the position, which must not be flat.
closing_side(p) == IF p.side = "long" THEN "sell" ELSE "buy"

\* Used margin over equity, [num, den], or zero.
margin_utilisation(account) ==
    IF account.equity > 0 THEN [num |-> account.margin_used, den |-> account.equity]
    ELSE Decimal(0)

IsExecutionEvent(e) == e.order \cup e.fill \cup e.position \cup e.account # {}

-----------------------------------------------------------------------------
\* What a venue declares.

IsCapabilities(venue) ==
    /\ venue.max_candles_per_request >= 1
    /\ venue.supports_historical_candles =>
          venue.granularities # {} /\ venue.candle_prices # {}
    /\ venue.order_types # {}

\* The floor that every venue clears.
minimal ==
    [order_types |-> {"market"}, time_in_force |-> {"ioc"},
     granularities |-> {}, candle_prices |-> {}, max_candles_per_request |-> 1,
     supports_historical_candles |-> FALSE, supports_reduce_only |-> FALSE,
     supports_post_only |-> FALSE, supports_attached_stops |-> FALSE]

require_granularity(venue, granularity, price) ==
    /\ venue.supports_historical_candles
    /\ granularity \in venue.granularities
    /\ price \in venue.candle_prices

-----------------------------------------------------------------------------
\* Bars.  The instants are seconds.

duration ==
    [g \in {"1s", "5s", "15s", "30s", "1m", "5m", "15m", "30m", "1h", "4h", "12h", "1d", "1w"} |->
        CASE g = "1s" -> 1 [] g = "5s" -> 5 [] g = "15s" -> 15 [] g = "30s" -> 30
          [] g = "1m" -> 60 [] g = "5m" -> 300 [] g = "15m" -> 900 [] g = "30m" -> 1800
          [] g = "1h" -> 3600 [] g = "4h" -> 14400 [] g = "12h" -> 43200
          [] g = "1d" -> 86400 [] g = "1w" -> 604800]

\* The exclusive right edge of a bar, and what lies inside it.
end(c) == c.start + duration[c.granularity]

contains(c, instant) == c.start <= instant /\ instant < end(c)

=============================================================================
