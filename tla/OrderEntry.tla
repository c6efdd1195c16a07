----------------------------- MODULE OrderEntry -----------------------------
(***************************************************************************)
(* The way of an order through the value objects, from the definition of   *)
(* its instrument to the point where a venue is called: a caller prices    *)
(* and sizes it, OrderRequest accepts its shape, the venue's capabilities  *)
(* cover it, and it is validated against the instrument.  Each may refuse. *)
(*                                                                         *)
(* The caller sizes by margin: it has a budget and a leverage, and trades  *)
(* what they pay for at the limit price.                                   *)
(***************************************************************************)
EXTENDS Instrument

CONSTANTS Definitions,    \* definitions of instruments, valid or not
          Budgets,        \* amounts of margin
          Leverages,
          AskedPrices,    \* prices, on the grid or not
          Shapes,         \* the fields of an order beside its amounts
          Venues          \* what venues declare

ASSUME BudgetsAssumption ==
    Budgets \subseteq Nat /\ Leverages \subseteq Nat /\ AskedPrices \subseteq Nat \ {0}

ASSUME DefinitionsAssumption ==
    \A i \in Definitions :
        /\ {i.price_increment, i.contract_size, i.quantity_increment, i.min_quantity}
              \subseteq Int
        /\ i.max_quantity \subseteq Int /\ i.max_leverage \subseteq Int

OrderTypes == {"market", "limit", "stop", "stop_limit", "trailing_stop"}
TimesInForce == {"gtc", "gtd", "ioc", "fok", "day"}

requires_limit_price == {"limit", "stop_limit"}
requires_trigger_price == {"stop", "stop_limit"}
requires_trailing_distance == {"trailing_stop"}
requires_expiry == {"gtd"}
is_immediate == {"ioc", "fok"}

VARIABLES stage,
          instrument,
          budget, leverage,
          asked,          \* the price the caller has in mind
          limit,          \* quantize_price of it
          wanted,         \* the quantity that the budget pays for
          rounding,       \* how it was brought onto the grid
          sized,          \* quantize_quantity of it
          order

vars == <<stage, instrument, budget, leverage, asked, limit, wanted, rounding, sized, order>>

NoOrder ==
    [quantity |-> 0, limit_price |-> {}, trigger_price |-> {}, take_profit_price |-> {},
     stop_loss_price |-> {}]

Init ==
    /\ stage = "idle"
    /\ instrument \in Definitions
    /\ budget \in Budgets /\ leverage \in Leverages /\ asked \in AskedPrices
    /\ limit = 0 /\ wanted = Decimal(0) /\ rounding = "DOWN" /\ sized = 0
    /\ order = NoOrder

\* Instrument(...)
Define ==
    /\ stage = "idle"
    /\ stage' = IF IsInstrument(instrument) THEN "defined" ELSE "ended"
    /\ UNCHANGED <<instrument, budget, leverage, asked, limit, wanted, rounding, sized, order>>

Price ==
    /\ stage = "defined"
    /\ \E mode \in RoundingModes : limit' = quantize_price(instrument, Decimal(asked), mode)
    /\ stage' = "priced"
    /\ UNCHANGED <<instrument, budget, leverage, asked, wanted, rounding, sized, order>>

\* A price of 0 buys nothing, and a leverage above the cap has no margin.
Size ==
    /\ stage = "priced"
    /\ limit > 0 /\ IsLeverage(instrument, leverage)
    /\ wanted' = from_base_units(instrument, [num |-> budget * leverage, den |-> limit])
    /\ rounding' \in RoundingModes
    /\ sized' = quantize_quantity(instrument, wanted', rounding')
    /\ stage' = "sized"
    /\ UNCHANGED <<instrument, budget, leverage, asked, limit, order>>

\* The prices that an order names, those of the orders attached to it included.
prices(o) == o.limit_price \cup o.trigger_price \cup o.take_profit_price \cup o.stop_loss_price

\* OrderRequest.__post_init__: a field its type or time in force needs is there,
\* and one that it does not is not, the trigger price alone excepted.
IsRequest(o) ==
    /\ o.quantity > 0
    /\ \A amount \in prices(o) \cup o.trailing_distance : amount > 0
    /\ o.order_type \in requires_limit_price <=> o.limit_price # {}
    /\ o.order_type \in requires_trigger_price => o.trigger_price # {}
    /\ o.order_type \in requires_trailing_distance <=> o.trailing_distance # {}
    /\ o.time_in_force \in requires_expiry <=> o.expires
    /\ o.post_only => o.order_type = "limit" /\ o.time_in_force \notin is_immediate

\* The prices that a caller may have in mind, brought onto the grid either way.
PricesOnGrid == {quantize_price(instrument, Decimal(p), mode) : p \in AskedPrices, mode \in RoundingModes}

\* What a caller may attach: a price on the grid, one that is not, or a distance
\* from the limit given for a price.
Attachable == {{}} \cup {{p} : p \in PricesOnGrid \cup AskedPrices \cup {limit - asked}}

\* An order for the sized quantity, or for another, at the limit price or another,
\* with orders attached that take the profit or stop the loss.
Request ==
    /\ stage = "sized"
    /\ \E shape \in Shapes, quantity \in {sized, sized + 1},
          price, trigger \in {{}, {limit}, {asked}} :
       \E profit, loss \in IF shape.attaches THEN Attachable ELSE {{}} :
          order' = [quantity |-> quantity, limit_price |-> price, trigger_price |-> trigger,
                    take_profit_price |-> profit, stop_loss_price |-> loss,
                    trailing_distance |-> shape.trailing_distance,
                    order_type |-> shape.order_type, time_in_force |-> shape.time_in_force,
                    expires |-> shape.expires, post_only |-> shape.post_only,
                    reduce_only |-> shape.reduce_only]
    /\ IsRequest(order')
    /\ stage' = "requested"
    /\ UNCHANGED <<instrument, budget, leverage, asked, limit, wanted, rounding, sized>>

\* VenueCapabilities.require_supported
supports(venue, o) ==
    /\ o.order_type \in venue.order_types
    /\ o.time_in_force \in venue.time_in_force
    /\ o.reduce_only => venue.supports_reduce_only
    /\ o.post_only => venue.supports_post_only
    /\ o.take_profit_price \cup o.stop_loss_price # {} => venue.supports_attached_stops

Offer ==
    /\ stage = "requested"
    /\ \E venue \in Venues : stage' = IF supports(venue, order) THEN "supported" ELSE "ended"
    /\ UNCHANGED <<instrument, budget, leverage, asked, limit, wanted, rounding, sized, order>>

validate_against(o, i) ==
    /\ is_valid_quantity(i, o.quantity)
    /\ \A price \in prices(o) : is_valid_price(i, price)

Validate ==
    /\ stage = "supported"
    /\ stage' = IF validate_against(order, instrument) THEN "valid" ELSE "invalid"
    /\ UNCHANGED <<instrument, budget, leverage, asked, limit, wanted, rounding, sized, order>>

Next == Define \/ Price \/ Size \/ Request \/ Offer \/ Validate

Spec == Init /\ [][Next]_vars

-----------------------------------------------------------------------------
\* Properties.

WithinLimits(i, q) ==
    /\ q.num >= i.min_quantity * q.den
    /\ \A max \in i.max_quantity : q.num <= max * q.den

\* Bringing a quantity and the prices onto the grid is enough: whichever way each
\* is rounded, an order for them, with attached orders or without, that
\* OrderRequest accepts is never invalid, provided that the quantity was within
\* the limits before (rounding.py:3-6, instrument.py:272-274).
SizedOrdersAreValid ==
    stage = "invalid" /\ WithinLimits(instrument, wanted) =>
        \/ order.quantity # sized
        \/ ~(prices(order) \subseteq PricesOnGrid)

\* What is sized by rounding down never needs more margin than the budget it was
\* sized for, nor is it more than what was wanted (instrument.py:272-274,
\* rounding.py:33-35).
DownStaysWithinBudget ==
    stage \in {"sized", "requested", "supported", "valid"} /\ rounding = "DOWN" =>
        LET margin == required_margin(instrument, sized, limit, leverage)
        IN  margin.num <= budget * margin.den /\ sized * wanted.den <= wanted.num
=============================================================================
