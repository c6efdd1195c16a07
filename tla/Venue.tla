------------------------------- MODULE Venue --------------------------------
(***************************************************************************)
(* An order after OrderEntry: a venue works it, and the caller sees what   *)
(* the venue reports as the values of venues/models.py.  The caller keeps  *)
(* a ledger of its fills, repeats its order, and closes what is open.      *)
(*                                                                         *)
(* The venue is external: a netting venue that fills an order by a step of *)
(* the instrument or all that is left, cancels it, expires it, rejects it. *)
(***************************************************************************)
EXTENDS OrderEntry, VenueModels

CONSTANTS Books,        \* order books, valid or not
          Equities,     \* what the account may be worth
          MaxOrders     \* bound: how many orders are submitted

ASSUME VenuesAssumption ==
    /\ \A venue \in Venues : IsCapabilities(venue)
    /\ \A book \in Books : {book.bids, book.asks} \subseteq Seq([price : Int, size : Int])
    /\ Equities \subseteq Int
    /\ MaxOrders \in Nat

VARIABLES side,        \* of the order
          placed,      \* the order at the venue
          exposure,    \* the position at the venue, bought less sold
          report,      \* what the venue reported last
          ledger,      \* the sum of the fills it reported
          closing,     \* the exposure that the order is to close, or 0
          orders       \* how many orders were submitted

venueVars == <<side, placed, exposure, report, ledger, closing, orders>>
allVars == <<vars, venueVars>>

NothingPlaced == [quantity |-> 1, filled_quantity |-> 0, status |-> "pending_submit"]
NoReport ==
    [quote |-> {}, order |-> {NothingPlaced}, fill |-> {}, position |-> {}, account |-> {}]

VenueInit ==
    /\ Init
    /\ side = "buy" /\ placed = NothingPlaced
    /\ exposure = 0 /\ report = NoReport /\ ledger = 0 /\ closing = 0 /\ orders = 0

-----------------------------------------------------------------------------
\* What an adapter makes of the venue's state.

position_of(n) == [side |-> from_signed_quantity(n), quantity |-> Magnitude(n)]

Reported(o) == [NoReport EXCEPT !.order = {o}]

-----------------------------------------------------------------------------
\* The venue.

\* The order arrives.  From now on only its quantity and its limit matter.
Submit ==
    /\ stage = "valid" /\ orders < MaxOrders
    /\ stage' = "submitted"
    /\ IF closing = 0 THEN side' \in OrderSides ELSE UNCHANGED side
    /\ \E status \in {"open", "rejected"} :
          placed' = [quantity |-> order.quantity, filled_quantity |-> 0, status |-> status]
    /\ report' = Reported(placed')
    /\ orders' = orders + 1
    /\ budget' = 0 /\ leverage' = 0 /\ asked' = 0 /\ limit' = 0 /\ wanted' = Decimal(0)
    /\ rounding' = "DOWN" /\ sized' = 0
    /\ order' = [NoOrder EXCEPT !.quantity = order.quantity, !.limit_price = order.limit_price]
    /\ UNCHANGED <<instrument, exposure, ledger, closing>>

\* A limit order is not filled at a worse price.
IsFillable(price) ==
    \A bound \in order.limit_price :
        IF side = "buy" THEN price <= bound ELSE price >= bound

Fill ==
    /\ stage = "submitted" /\ placed.status \in is_working
    /\ \E book \in Books, equity \in Equities,
          n \in {instrument.quantity_increment, remaining_quantity(placed)} :
       \E q \in to_quote(book) :
          /\ IsOrderBook(book) /\ IsFillable(price_for(q, side))
          /\ n <= remaining_quantity(placed)
          /\ placed' = [placed EXCEPT
                           !.filled_quantity = @ + n,
                           !.status = IF n = remaining_quantity(placed) THEN "filled"
                                      ELSE "partially_filled"]
          /\ exposure' = IF side = "buy" THEN exposure + n ELSE exposure - n
          /\ ledger' = ledger + sign(side) * n
          /\ report' = [quote |-> {q}, order |-> {placed'},
                        fill |-> {[price |-> price_for(q, side), size |-> n]},
                        position |-> {position_of(exposure')},
                        account |-> {[equity |-> equity,
                                      margin_used |-> notional(instrument, exposure',
                                                               price_for(q, side))]}]
    /\ UNCHANGED <<vars, side, closing, orders>>

End ==
    /\ stage = "submitted" /\ placed.status \in is_working
    /\ \E status \in {"cancelled", "expired"} : placed' = [placed EXCEPT !.status = status]
    /\ report' = Reported(placed')
    /\ UNCHANGED <<vars, side, exposure, ledger, closing, orders>>

-----------------------------------------------------------------------------
\* The caller.

\* It submits its order once more, on either side.
Repeat ==
    /\ stage = "submitted" /\ placed.status \in is_terminal
    /\ closing = 0
    /\ stage' = "valid"
    /\ UNCHANGED <<instrument, budget, leverage, asked, limit, wanted, rounding, sized, order,
                   venueVars>>

\* It closes the position with a market order.
Close ==
    /\ stage = "submitted" /\ placed.status \in is_terminal
    /\ exposure # 0
    /\ LET position == position_of(exposure)
       IN  /\ side' = closing_side(position)
           /\ order' = [quantity |-> position.quantity, limit_price |-> {}, trigger_price |-> {},
                        take_profit_price |-> {}, stop_loss_price |-> {},
                        trailing_distance |-> {}, order_type |-> "market",
                        time_in_force |-> "ioc", expires |-> FALSE, post_only |-> FALSE]
    /\ stage' = IF IsRequest(order') /\ validate_against(order', instrument)
                THEN "valid" ELSE "stuck"
    /\ closing' = exposure
    /\ UNCHANGED <<instrument, budget, leverage, asked, limit, wanted, rounding, sized,
                   placed, exposure, report, ledger, orders>>

VenueNext ==
    \/ Next /\ UNCHANGED venueVars
    \/ Submit \/ Fill \/ End
    \/ Repeat \/ Close

VenueSpec == VenueInit /\ [][VenueNext]_allVars

-----------------------------------------------------------------------------
\* Properties.

\* No constructor refuses what a venue truthfully reports, and what is derived of
\* it is defined: a caller never loses sight of an order or a position because of
\* a fill, a cancelled rest, a position that turned or an account without equity.
ReportsAreAccepted ==
    /\ \A q \in report.quote : IsQuote(q)
    /\ IsExecutionEvent(report)
    /\ \A o \in report.order : IsOrder(o) /\ (o.status \in is_working => remaining_quantity(o) > 0)
    /\ \A fill \in report.fill : IsSizedPrice(fill)
    /\ \A position \in report.position : IsPosition(position)
    /\ \A account \in report.account : margin_utilisation(account).den > 0

\* The fills, signed by their sides, add up to the position that is reported.
LedgerIsPosition ==
    \A position \in report.position : signed_quantity(position) = ledger

\* An order to close a position reduces it, never turns it, and once filled leaves
\* none; and only a position out of the range of valid sizes has none.
ClosingReduces ==
    closing # 0 =>
       /\ \E rest \in 0..Magnitude(closing) : exposure \in {rest, -rest} /\ exposure * closing >= 0
       /\ stage = "submitted" /\ placed.status = "filled" => exposure = 0
       /\ stage = "stuck" => ~WithinLimits(instrument, Decimal(Magnitude(exposure)))
=============================================================================
