-------------------------- MODULE OrderEntryProofs --------------------------
(***************************************************************************)
(* Proofs about Instrument, OrderEntry and Venue, for every definition of  *)
(* an instrument, every amount, rounding mode and order book.              *)
(*                                                                         *)
(* What is sized rests on one lemma: a quotient is rounded to a whole      *)
(* number that no whole number on either side of the quotient separates    *)
(* from it.  Limits are whole numbers of steps, so rounding does not cross *)
(* them.  What is traded rests on the grid: orders, fills and so positions *)
(* are whole numbers of steps.                                             *)
(***************************************************************************)
EXTENDS Venue, TLAPS

-----------------------------------------------------------------------------
\* Rounding.

\* A quotient and its rest.
LEMMA Division ==
    ASSUME NEW n \in Nat, NEW step \in Nat \ {0}
    PROVE  /\ n \div step \in Nat
           /\ n % step \in 0..(step - 1)
           /\ n = (n \div step) * step + (n % step)
    OBVIOUS

\* One step more is a whole step more.
LEMMA ProductOrder ==
    ASSUME NEW a \in Nat, NEW b \in Nat, NEW step \in Nat \ {0}
    PROVE  /\ a <= b => a * step <= b * step
           /\ a < b => a * step + step <= b * step
    <1>1. a < b => (a + 1) * step <= b * step
      OBVIOUS
    <1> QED
      BY <1>1

\* No whole number of steps lies between a number and what it is rounded to
\* (instrument.py quantize_quantity and quantize_price), and rounding DOWN does
\* not raise it.
LEMMA StepsBetween ==
    ASSUME NEW n \in Nat, NEW step \in Nat \ {0}, NEW mode \in RoundingModes,
           NEW a \in Nat
    PROVE  /\ Steps(n, step, mode) \in Nat
           /\ a * step <= n => a <= Steps(n, step, mode)
           /\ n <= a * step => Steps(n, step, mode) <= a
           /\ mode = "DOWN" => Steps(n, step, mode) * step <= n
    <1> DEFINE whole == n \div step
               rest == n % step
    <1>1. whole \in Nat /\ rest \in 0..(step - 1) /\ n = whole * step + rest
      BY Division
    <1>2. Steps(n, step, mode) =
             IF RoundsAway(whole, rest, step, n < 0, mode) THEN whole + 1 ELSE whole
      BY DEF Steps, Magnitude
    <1>3. rest = 0 => ~RoundsAway(whole, rest, step, n < 0, mode)
      BY <1>1 DEF RoundsAway
    <1>4. mode = "DOWN" => ~RoundsAway(whole, rest, step, n < 0, mode)
      BY DEF RoundsAway
    <1> HIDE DEF whole, rest
    <1>5. a * step <= n => a <= whole
      <2>1. whole < a => whole * step + step <= a * step
        BY <1>1, ProductOrder
      <2> QED
        BY <1>1, <2>1
    <1>6. n <= a * step => IF rest = 0 THEN whole <= a ELSE whole + 1 <= a
      <2>1. a < whole => a * step + step <= whole * step
        BY <1>1, ProductOrder
      <2>2. a = whole => n = a * step + rest
        BY <1>1
      <2> QED
        BY <1>1, <2>1, <2>2
    <1> QED
      BY <1>1, <1>2, <1>3, <1>4, <1>5, <1>6

\* On the grid means a whole number of steps (instrument.py _is_multiple).
LEMMA MultipleIsSteps ==
    ASSUME NEW step \in Nat \ {0}
    PROVE  /\ \A k \in Nat : is_multiple(k * step, step)
           /\ \A n \in Nat : is_multiple(n, step) => \E k \in Nat : n = k * step
    <1>1. ASSUME NEW k \in Nat
          PROVE  is_multiple(k * step, step)
      <2> DEFINE n == k * step
                 whole == n \div step
                 rest == n % step
      <2>1. n \in Nat
        OBVIOUS
      <2>2. whole \in Nat /\ rest \in 0..(step - 1) /\ n = whole * step + rest
        BY <2>1, Division
      <2>3. Magnitude(n) % step = rest
        BY <2>1 DEF Magnitude
      <2> HIDE DEF whole, rest
      <2>4. ~(whole < k)
        <3>1. whole < k => whole * step + step <= k * step
          BY <2>2, ProductOrder
        <3> QED
          BY <2>2, <3>1
      <2>5. ~(k < whole)
        <3>1. k < whole => k * step + step <= whole * step
          BY <2>2, ProductOrder
        <3> QED
          BY <2>2, <3>1
      <2>6. whole = k
        BY <2>2, <2>4, <2>5
      <2> QED
        BY <2>2, <2>3, <2>6 DEF is_multiple
    <1>2. ASSUME NEW n \in Nat, is_multiple(n, step)
          PROVE  \E k \in Nat : n = k * step
      <2>1. n % step = 0
        BY <1>2 DEF is_multiple, Magnitude
      <2>2. n \div step \in Nat /\ n = (n \div step) * step + (n % step)
        BY Division
      <2> WITNESS n \div step \in Nat
      <2> QED
        BY <2>1, <2>2
    <1> QED
      BY <1>1, <1>2

-----------------------------------------------------------------------------
\* Instruments.

\* The fields that Instrument.__post_init__ makes positive.
LEMMA InstrumentFields ==
    ASSUME NEW i \in Definitions, IsInstrument(i)
    PROVE  /\ i.price_increment \in Nat \ {0}
           /\ i.contract_size \in Nat \ {0}
           /\ i.quantity_increment \in Nat \ {0}
           /\ i.min_quantity \in Nat \ {0}
           /\ is_multiple(i.min_quantity, i.quantity_increment)
           /\ \A max \in i.max_quantity : /\ max \in Nat
                                         /\ is_multiple(max, i.quantity_increment)
    BY DefinitionsAssumption DEF IsInstrument, IsLimited

\* quantize_quantity returns a whole number of increments, within the limits
\* that the quantity was within, and rounding DOWN it does not raise it.
LEMMA QuantityOnGrid ==
    ASSUME NEW i \in Definitions, IsInstrument(i),
           NEW num \in Nat, NEW den \in Nat \ {0}, NEW mode \in RoundingModes
    PROVE  LET q     == [num |-> num, den |-> den]
               whole == quantize_quantity(i, q, mode)
           IN  /\ whole \in Nat
               /\ WithinLimits(i, q) => is_valid_quantity(i, whole)
               /\ mode = "DOWN" => whole * den <= num
    <1> DEFINE q == [num |-> num, den |-> den]
               inc == i.quantity_increment
               step == den * inc
               count == Steps(num, step, mode)
    <1>1. inc \in Nat \ {0} /\ step \in Nat \ {0}
      BY InstrumentFields
    <1>2. quantize_quantity(i, q, mode) = count * inc
      BY DEF quantize_quantity
    <1>3. count \in Nat /\ (mode = "DOWN" => count * step <= num)
      BY <1>1, StepsBetween, 0 \in Nat
    <1>4. ASSUME NEW a \in Nat
          PROVE  /\ a * step <= num => a <= count
                 /\ num <= a * step => count <= a
      BY <1>1, StepsBetween
    <1>5. PICK least \in Nat : i.min_quantity = least * inc
      BY <1>1, InstrumentFields, MultipleIsSteps
    <1> HIDE DEF count, step, inc
    <1>6. count * inc \in Nat
      BY <1>1, <1>3
    <1>7. mode = "DOWN" => (count * inc) * den <= num
      BY <1>1, <1>3 DEF step
    <1>8. ASSUME WithinLimits(i, q)
          PROVE  is_valid_quantity(i, count * inc)
      <2>1. i.min_quantity <= count * inc
        <3>1. (least * inc) * den <= num
          BY <1>5, <1>8 DEF WithinLimits
        <3>2. least * step <= num
          BY <1>1, <3>1 DEF step
        <3>3. least <= count
          BY <1>1, <1>3, <1>4, <3>2
        <3> QED
          BY <1>1, <1>3, <1>5, <3>3, ProductOrder
      <2>2. ASSUME NEW max \in i.max_quantity
            PROVE  count * inc <= max
        <3>1. PICK most \in Nat : max = most * inc
          BY <1>1, InstrumentFields, MultipleIsSteps DEF inc
        <3>2. num <= (most * inc) * den
          BY <1>8, <3>1 DEF WithinLimits
        <3>3. num <= most * step
          BY <1>1, <3>2 DEF step
        <3>4. count <= most
          BY <1>1, <1>3, <1>4, <3>3
        <3> QED
          BY <1>1, <1>3, <3>1, <3>4, ProductOrder
      <2>3. is_multiple(count * inc, i.quantity_increment)
        BY <1>1, <1>3, MultipleIsSteps DEF inc
      <2>4. i.min_quantity \in Nat \ {0}
        BY InstrumentFields
      <2>5. Magnitude(count * inc) = count * inc
        BY <1>6 DEF Magnitude
      <2>6. count * inc # 0
        BY <1>6, <2>1, <2>4
      <2> QED
        BY <1>6, <2>1, <2>2, <2>3, <2>5, <2>6 DEF is_valid_quantity
    <1> QED
      BY <1>2, <1>6, <1>7, <1>8

\* quantize_price returns a whole number of increments.
LEMMA PriceOnGrid ==
    ASSUME NEW i \in Definitions, IsInstrument(i), NEW p \in Nat, NEW mode \in RoundingModes
    PROVE  LET price == quantize_price(i, Decimal(p), mode)
           IN  price \in Nat /\ is_multiple(price, i.price_increment)
    <1> DEFINE inc == i.price_increment
               count == Steps(p, inc, mode)
    <1>1. inc \in Nat \ {0}
      BY InstrumentFields
    <1>2. quantize_price(i, Decimal(p), mode) = count * inc
      BY <1>1 DEF quantize_price, Decimal
    <1>3. count \in Nat
      BY <1>1, StepsBetween, 0 \in Nat
    <1> HIDE DEF count
    <1> QED
      BY <1>1, <1>2, <1>3, MultipleIsSteps

-----------------------------------------------------------------------------
\* The way of an order.

Sized == {"sized", "requested", "supported", "valid", "invalid"}

Inputs ==
    /\ instrument \in Definitions
    /\ budget \in Budgets /\ leverage \in Leverages /\ asked \in AskedPrices

\* From "defined" on the instrument is valid, from "priced" on the limit price is
\* on its grid, and from "sized" on the quantity is the wanted one, rounded.
IInv ==
    /\ Inputs
    /\ stage \in {"defined", "priced"} \cup Sized => IsInstrument(instrument)
    /\ stage \in {"priced"} \cup Sized =>
          limit \in Nat /\ is_multiple(limit, instrument.price_increment)
    /\ stage \in Sized =>
          /\ limit > 0 /\ leverage > 0 /\ rounding \in RoundingModes
          /\ wanted = [num |-> budget * leverage, den |-> limit * instrument.contract_size]
          /\ sized = quantize_quantity(instrument, wanted, rounding)
    /\ stage \in {"requested", "supported", "valid", "invalid"} =>
          order.quantity \in {sized, sized + 1} /\ IsRequest(order)
    /\ stage = "invalid" => ~validate_against(order, instrument)
    /\ stage = "valid" => validate_against(order, instrument)

\* Each action keeps it; Price and Size establish their parts.
LEMMA IInvNext ==
    IInv /\ [Next]_vars => IInv'
    <1> SUFFICES ASSUME IInv, [Next]_vars
                 PROVE  IInv'
      OBVIOUS
    <1>1. CASE Define
      BY <1>1 DEF IInv, Inputs, Define, Sized
    <1>2. CASE Price
      <2>1. IsInstrument(instrument) /\ instrument \in Definitions /\ asked \in Nat
        BY <1>2, BudgetsAssumption DEF IInv, Inputs, Price
      <2>2. limit' \in Nat /\ is_multiple(limit', instrument.price_increment)
        BY <1>2, <2>1, PriceOnGrid DEF Price
      <2> QED
        BY <1>2, <2>1, <2>2 DEF IInv, Inputs, Price, Sized
    <1>3. CASE Size
      <2>1. leverage > 0
        BY <1>3 DEF Size, IsLeverage
      <2>2. wanted' = [num |-> budget * leverage, den |-> limit * instrument.contract_size]
        BY <1>3 DEF Size, from_base_units
      <2> QED
        BY <1>3, <2>1, <2>2 DEF IInv, Inputs, Size, Sized
    <1>4. CASE Request
      <2>1. order'.quantity \in {sized, sized + 1} /\ IsRequest(order')
        BY <1>4 DEF Request
      <2> QED
        BY <1>4, <2>1 DEF IInv, Inputs, Request, Sized
    <1>5. CASE Offer
      BY <1>5 DEF IInv, Inputs, Offer, Sized
    <1>6. CASE Validate
      BY <1>6 DEF IInv, Inputs, Validate, Sized
    <1>7. CASE UNCHANGED vars
      BY <1>7 DEF IInv, Inputs, vars, Sized, validate_against
    <1> QED
      BY <1>1, <1>2, <1>3, <1>4, <1>5, <1>6, <1>7 DEF Next

\* IInv is an invariant, for every definition of an instrument: what a caller
\* holds on its way from __post_init__ to validate_against.
THEOREM Invariance == Spec => []IInv
    <1>1. Init => IInv
      BY DEF Init, IInv, Inputs, Sized
    <1> QED
      BY <1>1, IInvNext, PTL DEF Spec

\* What IInv says of a sized order, in the terms of QuantityOnGrid.
LEMMA SizedAmounts ==
    ASSUME IInv, stage \in Sized
    PROVE  /\ IsInstrument(instrument) /\ instrument \in Definitions
           /\ limit \in Nat \ {0} /\ leverage \in Nat \ {0} /\ budget \in Nat
           /\ instrument.contract_size \in Nat \ {0}
           /\ sized \in Nat
           /\ WithinLimits(instrument, wanted) => is_valid_quantity(instrument, sized)
           /\ rounding = "DOWN" =>
                 sized * (limit * instrument.contract_size) <= budget * leverage
    <1> DEFINE num == budget * leverage
               den == limit * instrument.contract_size
    <1>1. IsInstrument(instrument) /\ instrument \in Definitions
      BY DEF IInv, Inputs
    <1>2. limit \in Nat \ {0} /\ leverage \in Nat \ {0} /\ budget \in Nat
      BY BudgetsAssumption DEF IInv, Inputs
    <1>3. instrument.contract_size \in Nat \ {0}
      BY <1>1, InstrumentFields
    <1>4. num \in Nat /\ den \in Nat \ {0}
      BY <1>2, <1>3
    <1>5. /\ wanted = [num |-> num, den |-> den] /\ rounding \in RoundingModes
          /\ sized = quantize_quantity(instrument, wanted, rounding)
      BY DEF IInv
    <1> HIDE DEF num, den
    <1>6. /\ sized \in Nat
          /\ WithinLimits(instrument, wanted) => is_valid_quantity(instrument, sized)
          /\ rounding = "DOWN" => sized * den <= num
      BY <1>1, <1>4, <1>5, QuantityOnGrid
    <1> QED
      BY <1>1, <1>2, <1>3, <1>6 DEF num, den

\* A sized quantity is valid if the wanted one was within the limits, and so is
\* every price on the grid that __post_init__ accepted as positive.
LEMMA SizedValid == IInv => SizedOrdersAreValid
    <1> SUFFICES ASSUME IInv, stage = "invalid", WithinLimits(instrument, wanted),
                        order.quantity = sized, prices(order) \subseteq PricesOnGrid
                 PROVE  FALSE
      BY DEF SizedOrdersAreValid
    <1>1. is_valid_quantity(instrument, order.quantity)
      BY SizedAmounts DEF Sized
    <1>2. ASSUME NEW price \in prices(order)
          PROVE  is_valid_price(instrument, price)
      <2>1. PICK p \in AskedPrices, mode \in RoundingModes :
               price = quantize_price(instrument, Decimal(p), mode)
        BY DEF PricesOnGrid
      <2>2. IsInstrument(instrument) /\ instrument \in Definitions /\ p \in Nat
        BY SizedAmounts, BudgetsAssumption DEF Sized
      <2>3. price \in Nat /\ is_multiple(price, instrument.price_increment)
        BY <2>1, <2>2, PriceOnGrid
      <2>4. price > 0
        BY DEF IInv, IsRequest
      <2> QED
        BY <2>3, <2>4 DEF is_valid_price
    <1>3. validate_against(order, instrument)
      BY <1>1, <1>2 DEF validate_against
    <1> QED
      BY <1>3 DEF IInv

\* A quantity that was rounded down needs no more margin than the wanted one.
LEMMA SizedFits == IInv => DownStaysWithinBudget
    <1> SUFFICES ASSUME IInv, stage \in Sized, rounding = "DOWN"
                 PROVE  LET margin == required_margin(instrument, sized, limit, leverage)
                        IN  /\ margin.num <= budget * margin.den
                            /\ sized * wanted.den <= wanted.num
      BY DEF DownStaysWithinBudget, Sized
    <1>1. sized * (limit * instrument.contract_size) <= budget * leverage
      BY SizedAmounts
    <1>2. sized * instrument.contract_size \in Nat
      BY SizedAmounts
    <1>3. notional(instrument, sized, limit) = (sized * instrument.contract_size) * limit
      BY <1>2 DEF notional, to_base_units, Magnitude
    <1>4. (sized * instrument.contract_size) * limit
             = sized * (limit * instrument.contract_size)
      BY SizedAmounts
    <1>5. wanted = [num |-> budget * leverage, den |-> limit * instrument.contract_size]
      BY DEF IInv
    <1> QED
      BY <1>1, <1>3, <1>4, <1>5 DEF required_margin

\* What was brought onto the grid is never refused as invalid, for every
\* definition of an instrument, amount and rounding mode (instrument.py:272-274).
THEOREM SizedIsValid == Spec => []SizedOrdersAreValid
    BY SizedValid, Invariance, PTL

\* What was sized by rounding down never needs more margin than its budget
\* (instrument.py required_margin, rounding.py:33-35).
THEOREM DownFitsBudget == Spec => []DownStaysWithinBudget
    BY SizedFits, Invariance, PTL

-----------------------------------------------------------------------------
\* The grid of quantities.

OnGrid(i, n) == \E k \in Int : n = k * i.quantity_increment

\* Sums, differences and magnitudes of quantities on the grid are on it.
LEMMA GridSums ==
    ASSUME NEW i \in Definitions, IsInstrument(i),
           NEW a \in Int, NEW b \in Int, OnGrid(i, a), OnGrid(i, b)
    PROVE  OnGrid(i, a + b) /\ OnGrid(i, a - b) /\ OnGrid(i, Magnitude(a))
    <1> DEFINE inc == i.quantity_increment
    <1>1. inc \in Int
      BY InstrumentFields
    <1>2. PICK k \in Int, l \in Int : a = k * inc /\ b = l * inc
      BY DEF OnGrid
    <1> HIDE DEF inc
    <1>3. a + b = (k + l) * inc /\ a - b = (k - l) * inc /\ -a = (-k) * inc
      BY <1>1, <1>2
    <1>4. k + l \in Int /\ k - l \in Int /\ -k \in Int
      OBVIOUS
    <1> QED
      BY <1>2, <1>3, <1>4 DEF OnGrid, Magnitude, inc

\* is_multiple says so of what is no less than 0 (instrument.py _is_multiple).
LEMMA GridIsMultiple ==
    ASSUME NEW i \in Definitions, IsInstrument(i), NEW n \in Nat
    PROVE  is_multiple(n, i.quantity_increment) <=> OnGrid(i, n)
    <1> DEFINE inc == i.quantity_increment
    <1>1. inc \in Nat \ {0}
      BY InstrumentFields
    <1> HIDE DEF inc
    <1>2. ASSUME NEW k \in Int, n = k * inc PROVE k \in Nat
      <2>1. k < 0 => k * inc < 0
        BY <1>1
      <2> QED
        BY <1>2, <2>1
    <1>3. (\E k \in Int : n = k * inc) <=> (\E k \in Nat : n = k * inc)
      BY <1>2
    <1>4. is_multiple(n, inc) <=> \E k \in Nat : n = k * inc
      BY <1>1, MultipleIsSteps
    <1> QED
      BY <1>3, <1>4 DEF OnGrid, inc

\* No step and no quantity is 0 or less, and both are on the grid.
LEMMA GridStep ==
    ASSUME NEW i \in Definitions, IsInstrument(i)
    PROVE  i.quantity_increment \in Nat \ {0} /\ OnGrid(i, i.quantity_increment) /\ OnGrid(i, 0)
    <1>1. i.quantity_increment \in Nat \ {0}
      BY InstrumentFields
    <1>2. i.quantity_increment = 1 * i.quantity_increment /\ 0 = 0 * i.quantity_increment
      BY <1>1
    <1> QED
      BY <1>1, <1>2 DEF OnGrid

\* A valid order is for a quantity on the grid.
LEMMA ValidOnGrid ==
    ASSUME NEW i \in Definitions, IsInstrument(i), NEW o, o.quantity \in Nat,
           validate_against(o, i)
    PROVE  o.quantity > 0 /\ OnGrid(i, o.quantity)
    <1>1. o.quantity # 0 /\ is_multiple(o.quantity, i.quantity_increment)
      BY DEF validate_against, is_valid_quantity
    <1> QED
      BY <1>1, GridIsMultiple

-----------------------------------------------------------------------------
\* The order at the venue.

EntryStages ==
    {"idle", "defined", "priced", "sized", "requested", "supported", "valid", "invalid", "ended"}

\* Before the first order nothing is traded.
Before ==
    /\ orders = 0 /\ IInv /\ stage \in EntryStages
    /\ side \in OrderSides
    /\ exposure = 0 /\ ledger = 0 /\ closing = 0 /\ report = NoReport

\* The order as it was sized is of no more interest.
Forgotten ==
    /\ budget = 0 /\ leverage = 0 /\ limit = 0 /\ sized = 0
    /\ wanted = Decimal(0)

PlacedIsWhole ==
    /\ placed \in [quantity : Nat \ {0}, filled_quantity : Nat, status : OrderStatuses]
    /\ OnGrid(instrument, placed.quantity) /\ OnGrid(instrument, placed.filled_quantity)
    /\ placed.filled_quantity <= placed.quantity
    /\ placed.status \in is_working => placed.filled_quantity < placed.quantity
    /\ placed.status = "filled" => placed.filled_quantity = placed.quantity

\* An order to close is for the whole exposure, and what it fills is off it.
ClosingIsOpposite ==
    closing # 0 =>
       /\ side = closing_side(position_of(closing))
       /\ stage = "submitted" =>
             /\ placed.quantity = Magnitude(closing)
             /\ exposure = closing + sign(side) * placed.filled_quantity
       /\ stage # "submitted" => order.quantity = Magnitude(closing) /\ exposure = closing

After ==
    /\ orders > 0 /\ stage \in {"valid", "submitted", "stuck"}
    /\ instrument \in Definitions /\ IsInstrument(instrument)
    /\ Forgotten
    /\ side \in OrderSides
    /\ exposure \in Int /\ OnGrid(instrument, exposure)
    /\ order.quantity \in Nat \ {0}
    /\ stage # "stuck" => OnGrid(instrument, order.quantity)
    /\ PlacedIsWhole
    /\ closing \in Int /\ ClosingIsOpposite
    /\ stage = "stuck" =>
          closing # 0 /\ ~WithinLimits(instrument, Decimal(Magnitude(exposure)))

\* What was reported is true, and acceptable.
Truthful ==
    /\ ledger = exposure
    /\ \A position \in report.position : position = position_of(exposure)
    /\ ReportsAreAccepted

TradeInv ==
    /\ orders \in Nat
    /\ Before \/ After
    /\ Truthful

\* What is derived of an exposure.
LEMMA Positions ==
    ASSUME NEW n \in Int
    PROVE  /\ IsPosition(position_of(n)) /\ signed_quantity(position_of(n)) = n
           /\ Magnitude(n) \in Nat /\ (n # 0 => Magnitude(n) > 0)
           /\ closing_side(position_of(n)) = IF n > 0 THEN "sell" ELSE "buy"
           /\ IF n < 0 THEN Magnitude(n) = -n ELSE Magnitude(n) = n
    BY DEF position_of, IsPosition, signed_quantity, from_signed_quantity, Magnitude, closing_side

\* The top of a book that OrderBook accepts is a quote that Quote accepts
\* (models.py OrderBook.to_quote).
LEMMA BookGivesQuote ==
    ASSUME NEW book \in Books, IsOrderBook(book), NEW q \in to_quote(book)
    PROVE  IsQuote(q) /\ q.bid \in Int /\ q.ask \in Int
    <1>1. book.bids \in Seq([price : Int, size : Int]) /\ book.asks \in Seq([price : Int, size : Int])
      BY VenuesAssumption
    <1>2. book.bids # <<>> /\ book.asks # <<>>
      BY DEF to_quote
    <1>3. 1 \in DOMAIN book.bids /\ 1 \in DOMAIN book.asks
      BY <1>1, <1>2
    <1> DEFINE Levels == [price : Int, size : Int]
    <1>a. ASSUME NEW levels \in Seq(Levels), 1 \in DOMAIN levels PROVE levels[1] \in Levels
      <2> HIDE DEF Levels
      <2> QED
        BY <1>a
    <1>4. book.bids[1] \in Levels /\ book.asks[1] \in Levels
      BY <1>1, <1>3, <1>a
    <1>5. /\ IsSizedPrice(book.bids[1]) /\ IsSizedPrice(book.asks[1])
          /\ book.bids[1].price <= book.asks[1].price
      BY <1>2, <1>3 DEF IsOrderBook
    <1>6. q = [bid |-> book.bids[1].price, ask |-> book.asks[1].price,
               bid_size |-> {book.bids[1].size}, ask_size |-> {book.asks[1].size}]
      BY <1>2 DEF to_quote
    <1> QED
      BY <1>4, <1>5, <1>6 DEF IsQuote, IsSizedPrice

\* Before the first order nothing is held.
LEMMA TradeInit == VenueInit => TradeInv
    <1> SUFFICES ASSUME VenueInit PROVE TradeInv
      OBVIOUS
    <1>1. IInv
      BY DEF VenueInit, Init, IInv, Inputs, Sized
    <1>2. Before
      BY <1>1 DEF VenueInit, Init, Before, EntryStages, OrderSides
    <1>3. ReportsAreAccepted
      BY DEF VenueInit, ReportsAreAccepted, NoReport, NothingPlaced, IsExecutionEvent, IsOrder,
             remaining_quantity, is_working
    <1> QED
      BY <1>2, <1>3 DEF TradeInv, Truthful, VenueInit, NoReport

\* A step of the entry, before the first order.
LEMMA EntryStep ==
    ASSUME TradeInv, Next, UNCHANGED venueVars
    PROVE  TradeInv'
    <1>1. Before
      BY DEF TradeInv, After, Next, Define, Price, Size, Request, Offer, Validate
    <1>2. IInv'
      BY <1>1, IInvNext DEF Before
    <1>3. stage' \in EntryStages
      BY DEF Next, Define, Price, Size, Request, Offer, Validate, EntryStages
    <1>4. Before'
      BY <1>1, <1>2, <1>3 DEF Before, venueVars
    <1> QED
      BY <1>4 DEF TradeInv, Truthful, ReportsAreAccepted, venueVars

\* An order arrives at the venue: a sized one, a repeated one or one to close.
LEMMA SubmitStep ==
    ASSUME TradeInv, Submit
    PROVE  TradeInv'
    <1>1. PICK status \in {"open", "rejected"} :
             placed' = [quantity |-> order.quantity, filled_quantity |-> 0, status |-> status]
      BY DEF Submit
    <1>2. /\ stage = "valid" /\ stage' = "submitted" /\ orders' = orders + 1
          /\ IF closing = 0 THEN side' \in OrderSides ELSE UNCHANGED side
          /\ report' = Reported(placed')
          /\ Forgotten'
          /\ order' = [NoOrder EXCEPT !.quantity = order.quantity, !.limit_price = order.limit_price]
          /\ instrument' = instrument /\ exposure' = exposure /\ ledger' = ledger
          /\ closing' = closing
      BY DEF Submit, Forgotten
    <1>3. /\ instrument \in Definitions /\ IsInstrument(instrument)
          /\ order.quantity \in Nat \ {0} /\ OnGrid(instrument, order.quantity)
          /\ exposure \in Int /\ OnGrid(instrument, exposure) /\ closing \in Int
          /\ side \in OrderSides
          /\ closing # 0 => After
      <2>1. CASE Before
        <3>1. IInv /\ stage \in Sized /\ order.quantity \in {sized, sized + 1} /\ sized \in Nat
          BY <1>2, <2>1, SizedAmounts DEF Before, IInv, Sized
        <3>2. IsInstrument(instrument) /\ instrument \in Definitions
          BY <3>1, SizedAmounts
        <3>3. order.quantity > 0 /\ OnGrid(instrument, order.quantity)
          BY <1>2, <3>1, <3>2, ValidOnGrid DEF IInv
        <3> QED
          BY <2>1, <3>1, <3>2, <3>3, GridStep DEF Before
      <2>2. CASE After
        BY <1>2, <2>2 DEF After
      <2> QED
        BY <2>1, <2>2 DEF TradeInv
    <1>4. orders \in Nat /\ orders' \in Nat /\ orders' > 0
      BY <1>2 DEF TradeInv
    <1>5. order'.quantity = order.quantity
      BY <1>2 DEF NoOrder
    <1>6. PlacedIsWhole'
      BY <1>1, <1>2, <1>3, GridStep DEF PlacedIsWhole, OrderStatuses, is_terminal, is_working
    <1>7. ClosingIsOpposite'
      <2>1. closing # 0 => /\ side = closing_side(position_of(closing))
                           /\ order.quantity = Magnitude(closing) /\ exposure = closing
        BY <1>2, <1>3 DEF After, ClosingIsOpposite
      <2>2. sign(side) * 0 = 0
        BY DEF sign
      <2> QED
        BY <1>1, <1>2, <1>3, <2>1, <2>2 DEF ClosingIsOpposite
    <1>8. side' \in OrderSides
      BY <1>2, <1>3
    <1>9. After'
      BY <1>2, <1>3, <1>4, <1>5, <1>6, <1>7, <1>8 DEF After
    <1>10. ReportsAreAccepted'
      BY <1>1, <1>2, <1>3
         DEF ReportsAreAccepted, Reported, NoReport, IsExecutionEvent, IsOrder,
             remaining_quantity, is_working
    <1>11. Truthful'
      BY <1>2, <1>10 DEF TradeInv, Truthful, Reported, NoReport
    <1> QED
      BY <1>4, <1>9, <1>11 DEF TradeInv

\* A fill is a step or all that is left, so what is left and what is held stay on the
\* grid, and an order to close takes no more than there is.
LEMMA FillStep ==
    ASSUME TradeInv, Fill
    PROVE  TradeInv'
    <1>1. PICK book \in Books, equity \in Equities,
               n \in {instrument.quantity_increment, remaining_quantity(placed)} :
          \E q \in to_quote(book) :
             /\ IsOrderBook(book)
             /\ n <= remaining_quantity(placed)
             /\ placed' = [placed EXCEPT
                              !.filled_quantity = @ + n,
                              !.status = IF n = remaining_quantity(placed) THEN "filled"
                                         ELSE "partially_filled"]
             /\ exposure' = IF side = "buy" THEN exposure + n ELSE exposure - n
             /\ ledger' = ledger + sign(side) * n
             /\ report' = [quote |-> {q}, order |-> {placed'},
                           fill |-> {[price |-> price_for(q, side), size |-> n]},
                           position |-> {position_of(exposure')},
                           account |-> {[equity |-> equity,
                                         margin_used |-> notional(instrument, exposure',
                                                                  price_for(q, side))]}]
      BY DEF Fill
    <1>2. PICK q \in to_quote(book) :
             /\ IsOrderBook(book)
             /\ report' = [quote |-> {q}, order |-> {placed'},
                           fill |-> {[price |-> price_for(q, side), size |-> n]},
                           position |-> {position_of(exposure')},
                           account |-> {[equity |-> equity,
                                         margin_used |-> notional(instrument, exposure',
                                                                  price_for(q, side))]}]
      BY <1>1
    <1>3. /\ stage = "submitted" /\ placed.status \in is_working
          /\ stage' = stage /\ instrument' = instrument /\ order' = order
          /\ side' = side /\ closing' = closing /\ orders' = orders
          /\ Forgotten' <=> Forgotten
      BY DEF Fill, vars, Forgotten
    <1>4. After /\ Truthful /\ orders \in Nat
      BY <1>3 DEF TradeInv, Before, EntryStages
    <1>5. /\ instrument \in Definitions /\ IsInstrument(instrument)
          /\ placed \in [quantity : Nat \ {0}, filled_quantity : Nat, status : OrderStatuses]
          /\ OnGrid(instrument, placed.quantity) /\ OnGrid(instrument, placed.filled_quantity)
          /\ placed.filled_quantity < placed.quantity
          /\ side \in {"buy", "sell"}
          /\ exposure \in Int /\ OnGrid(instrument, exposure) /\ ledger = exposure
          /\ closing \in Int
      BY <1>3, <1>4 DEF After, PlacedIsWhole, Truthful, OrderSides
    <1> DEFINE left == placed.quantity - placed.filled_quantity
    <1>6. left \in Nat \ {0} /\ OnGrid(instrument, left) /\ remaining_quantity(placed) = left
      <2>1. placed.quantity \in Int /\ placed.filled_quantity \in Int
        BY <1>5
      <2>2. OnGrid(instrument, left)
        BY <1>5, <2>1, GridSums
      <2>3. left \in Nat \ {0}
        BY <1>5
      <2> QED
        BY <2>2, <2>3 DEF remaining_quantity
    <1>7. n \in Nat \ {0} /\ OnGrid(instrument, n) /\ n <= left
      BY <1>1, <1>5, <1>6, GridStep
    <1>8. /\ placed'.quantity = placed.quantity
          /\ placed'.filled_quantity = placed.filled_quantity + n
          /\ placed'.status = IF n = left THEN "filled" ELSE "partially_filled"
          /\ placed' \in [quantity : Nat \ {0}, filled_quantity : Nat, status : OrderStatuses]
      <2> DEFINE status == IF n = left THEN "filled" ELSE "partially_filled"
                 filled == placed.filled_quantity + n
      <2>1. status \in OrderStatuses /\ filled \in Nat
        BY <1>5, <1>7 DEF OrderStatuses, is_terminal, is_working
      <2>2. placed' = [placed EXCEPT !.filled_quantity = filled, !.status = status]
        BY <1>1, <1>6
      <2> HIDE DEF status, filled
      <2>3. /\ placed'.quantity = placed.quantity /\ placed'.filled_quantity = filled
            /\ placed'.status = status
            /\ placed' \in [quantity : Nat \ {0}, filled_quantity : Nat, status : OrderStatuses]
        BY <1>5, <2>1, <2>2
      <2> QED
        BY <2>3 DEF status, filled
    <1>9. /\ exposure' \in Int /\ OnGrid(instrument, exposure')
          /\ exposure' = exposure + sign(side) * n
          /\ ledger' = exposure'
      BY <1>1, <1>5, <1>7, GridSums DEF sign
    <1>10. PlacedIsWhole'
      <2>1. OnGrid(instrument, placed.filled_quantity + n)
        BY <1>5, <1>7, GridSums
      <2>2. /\ placed'.filled_quantity <= placed'.quantity
            /\ placed'.status \in is_working => placed'.filled_quantity < placed'.quantity
            /\ placed'.status = "filled" => placed'.filled_quantity = placed'.quantity
        BY <1>5, <1>7, <1>8 DEF is_working
      <2> QED
        BY <1>3, <1>5, <1>8, <2>1, <2>2 DEF PlacedIsWhole
    <1>11. ClosingIsOpposite'
      <2>1. sign(side) * placed'.filled_quantity = sign(side) * placed.filled_quantity + sign(side) * n
        BY <1>5, <1>7, <1>8 DEF sign
      <2>2. sign(side) * placed.filled_quantity \in Int /\ sign(side) * n \in Int
        BY <1>5, <1>7 DEF sign
      <2>3. closing # 0 => exposure' = closing + sign(side) * placed'.filled_quantity
        BY <1>3, <1>4, <1>5, <1>9, <2>1, <2>2 DEF After, ClosingIsOpposite
      <2> QED
        BY <1>3, <1>4, <1>8, <2>3 DEF After, ClosingIsOpposite
    <1>12. After'
      BY <1>3, <1>4, <1>5, <1>9, <1>10, <1>11 DEF After
    <1>13. ReportsAreAccepted'
      <2>1. IsQuote(q) /\ price_for(q, side) > 0
        BY <1>2, BookGivesQuote DEF IsQuote, price_for
      <2>2. IsSizedPrice([price |-> price_for(q, side), size |-> n])
        BY <1>7, <2>1 DEF IsSizedPrice
      <2>3. IsOrder(placed') /\ (placed'.status \in is_working => remaining_quantity(placed') > 0)
        BY <1>5, <1>6, <1>7, <1>8 DEF IsOrder, remaining_quantity, is_working
      <2>4. IsPosition(position_of(exposure'))
        BY <1>9, Positions
      <2>5. equity \in Int
        BY VenuesAssumption
      <2>6. \A account \in report'.account : margin_utilisation(account).den > 0
        BY <1>2, <2>5 DEF margin_utilisation, Decimal
      <2>7. IsExecutionEvent(report')
        BY <1>2 DEF IsExecutionEvent
      <2> QED
        BY <1>2, <2>1, <2>2, <2>3, <2>4, <2>6, <2>7 DEF ReportsAreAccepted
    <1>14. Truthful'
      BY <1>2, <1>9, <1>13 DEF Truthful
    <1> QED
      BY <1>3, <1>4, <1>12, <1>14 DEF TradeInv

\* An order that ends before it is filled leaves what it filled.
LEMMA EndStep ==
    ASSUME TradeInv, End
    PROVE  TradeInv'
    <1>1. PICK status \in {"cancelled", "expired"} : placed' = [placed EXCEPT !.status = status]
      BY DEF End
    <1>2. /\ stage = "submitted" /\ report' = Reported(placed')
          /\ stage' = stage /\ instrument' = instrument /\ order' = order
          /\ side' = side /\ exposure' = exposure /\ ledger' = ledger
          /\ closing' = closing /\ orders' = orders
          /\ Forgotten' <=> Forgotten
      BY DEF End, vars, Forgotten
    <1>3. After /\ Truthful /\ orders \in Nat
      BY <1>2 DEF TradeInv, Before, EntryStages
    <1>4. placed \in [quantity : Nat \ {0}, filled_quantity : Nat, status : OrderStatuses]
      BY <1>3 DEF After, PlacedIsWhole
    <1>5. /\ placed'.quantity = placed.quantity
          /\ placed'.filled_quantity = placed.filled_quantity
          /\ placed'.status = status
          /\ placed' \in [quantity : Nat \ {0}, filled_quantity : Nat, status : OrderStatuses]
      BY <1>1, <1>4 DEF OrderStatuses, is_terminal
    <1>6. PlacedIsWhole'
      BY <1>2, <1>3, <1>5 DEF After, PlacedIsWhole, is_working
    <1>7. ClosingIsOpposite'
      BY <1>2, <1>3, <1>5 DEF After, ClosingIsOpposite
    <1>8. After'
      BY <1>2, <1>3, <1>6, <1>7 DEF After
    <1>9. IsOrder(placed') /\ placed'.status \notin is_working
      BY <1>3, <1>4, <1>5 DEF After, PlacedIsWhole, IsOrder, is_working
    <1>10. Truthful'
      BY <1>2, <1>3, <1>9
         DEF Truthful, ReportsAreAccepted, Reported, NoReport, IsExecutionEvent
    <1> QED
      BY <1>2, <1>3, <1>8, <1>10 DEF TradeInv

\* A further order leaves the position and the ledger.
LEMMA RepeatStep ==
    ASSUME TradeInv, Repeat
    PROVE  TradeInv'
    <1>1. /\ stage = "submitted" /\ stage' = "valid" /\ closing = 0
          /\ UNCHANGED <<instrument, budget, leverage, limit, wanted, sized, order, venueVars>>
      BY DEF Repeat
    <1>2. After /\ Truthful /\ orders \in Nat
      BY <1>1 DEF TradeInv, Before, EntryStages
    <1>3. After'
      BY <1>1, <1>2 DEF After, Forgotten, PlacedIsWhole, ClosingIsOpposite, venueVars
    <1> QED
      BY <1>1, <1>2, <1>3 DEF TradeInv, Truthful, ReportsAreAccepted, venueVars

\* An order to close an exposure that is on the grid is only refused for its size.
LEMMA CloseStep ==
    ASSUME TradeInv, Close
    PROVE  TradeInv'
    <1> DEFINE position == position_of(exposure)
    <1>1. /\ stage = "submitted" /\ exposure # 0
          /\ side' = closing_side(position)
          /\ order' = [quantity |-> position.quantity, limit_price |-> {}, trigger_price |-> {},
                       take_profit_price |-> {}, stop_loss_price |-> {},
                       trailing_distance |-> {}, order_type |-> "market",
                       time_in_force |-> "ioc", expires |-> FALSE, post_only |-> FALSE]
          /\ stage' = IF IsRequest(order') /\ validate_against(order', instrument)
                      THEN "valid" ELSE "stuck"
          /\ closing' = exposure
          /\ instrument' = instrument /\ placed' = placed /\ exposure' = exposure
          /\ report' = report /\ ledger' = ledger /\ orders' = orders
          /\ Forgotten' <=> Forgotten
      BY DEF Close, Forgotten
    <1>2. After /\ Truthful /\ orders \in Nat
      BY <1>1 DEF TradeInv, Before, EntryStages
    <1>3. /\ instrument \in Definitions /\ IsInstrument(instrument)
          /\ exposure \in Int /\ OnGrid(instrument, exposure)
      BY <1>2 DEF After
    <1> DEFINE size == Magnitude(exposure)
    <1>4. position.quantity = size /\ size \in Nat \ {0} /\ OnGrid(instrument, size)
      BY <1>1, <1>3, Positions, GridSums DEF position_of
    <1>5. IsRequest(order')
      BY <1>1, <1>4
         DEF IsRequest, prices, requires_limit_price, requires_trigger_price,
             requires_trailing_distance, requires_expiry
    <1>6. ~validate_against(order', instrument) => ~WithinLimits(instrument, Decimal(size))
      <2> SUFFICES ASSUME WithinLimits(instrument, Decimal(size))
                   PROVE  validate_against(order', instrument)
        OBVIOUS
      <2>1. order'.quantity = size /\ prices(order') = {}
        BY <1>1, <1>4 DEF prices
      <2>2. Magnitude(size) = size
        BY <1>4 DEF Magnitude
      <2>3. is_multiple(size, instrument.quantity_increment)
        BY <1>3, <1>4, GridIsMultiple
      <2> HIDE DEF size
      <2>4. /\ size >= instrument.min_quantity
            /\ \A max \in instrument.max_quantity : size <= max
        BY <1>3, <1>4, InstrumentFields DEF WithinLimits, Decimal
      <2> QED
        BY <1>4, <2>1, <2>2, <2>3, <2>4 DEF validate_against, is_valid_quantity
    <1>7. order'.quantity = size
      BY <1>1, <1>4
    <1>8. ClosingIsOpposite'
      BY <1>1, <1>7 DEF ClosingIsOpposite
    <1>9. side' \in OrderSides
      BY <1>1 DEF closing_side, OrderSides
    <1>10. stage' = "stuck" => ~WithinLimits(instrument, Decimal(size))
      BY <1>1, <1>5, <1>6
    <1>11. PlacedIsWhole'
      BY <1>1, <1>2 DEF After, PlacedIsWhole
    <1>12. After'
      BY <1>1, <1>2, <1>3, <1>4, <1>7, <1>8, <1>9, <1>10, <1>11 DEF After
    <1>13. Truthful'
      BY <1>1, <1>2 DEF Truthful, ReportsAreAccepted
    <1> QED
      BY <1>1, <1>2, <1>12, <1>13 DEF TradeInv

\* Every step keeps the invariant.
LEMMA TradeNext == TradeInv /\ [VenueNext]_allVars => TradeInv'
    <1> SUFFICES ASSUME TradeInv, [VenueNext]_allVars PROVE TradeInv'
      OBVIOUS
    <1>1. CASE UNCHANGED allVars
      <2>1. Before => Before'
        BY <1>1, IInvNext DEF Before, allVars, venueVars, vars
      <2>2. After => After'
        BY <1>1
           DEF After, Forgotten, PlacedIsWhole, ClosingIsOpposite, allVars, venueVars, vars
      <2>3. Truthful'
        BY <1>1 DEF TradeInv, Truthful, ReportsAreAccepted, allVars, venueVars
      <2> QED
        BY <1>1, <2>1, <2>2, <2>3 DEF TradeInv, allVars, venueVars
    <1> QED
      BY <1>1, EntryStep, SubmitStep, FillStep, EndStep, RepeatStep, CloseStep DEF VenueNext

\* Whatever is sized, filled in steps, cancelled, repeated and closed, the order,
\* the exposure and the caller's ledger fit together.
THEOREM VenueInvariance == VenueSpec => []TradeInv
    BY TradeInit, TradeNext, PTL DEF VenueSpec

\* The caller's ledger of fills is the position the venue reports, on either side
\* and through a turn of the position (models.py Position, Fill).
THEOREM LedgerFollowsPosition == VenueSpec => []LedgerIsPosition
    <1>1. TradeInv => LedgerIsPosition
      <2> SUFFICES ASSUME TradeInv, NEW position \in report.position
                   PROVE  signed_quantity(position) = ledger
        BY DEF LedgerIsPosition
      <2>1. position = position_of(exposure) /\ ledger = exposure
        BY DEF TradeInv, Truthful
      <2>2. exposure \in Int
        BY DEF TradeInv, Before, After
      <2> QED
        BY <2>1, <2>2, Positions
    <1> QED
      BY VenueInvariance, <1>1, PTL

\* The constructors of venues/models.py accept all that a venue reports.
THEOREM ReportsFit == VenueSpec => []ReportsAreAccepted
    <1>1. TradeInv => ReportsAreAccepted
      BY DEF TradeInv, Truthful
    <1> QED
      BY VenueInvariance, <1>1, PTL

\* An order on the closing side for the position's quantity reduces the position
\* and never turns it (models.py Position.closing_side).
THEOREM CloseReduces == VenueSpec => []ClosingReduces
    <1>1. TradeInv => ClosingReduces
      <2> SUFFICES ASSUME TradeInv, closing # 0
                   PROVE  /\ \E rest \in 0..Magnitude(closing) :
                                exposure \in {rest, -rest} /\ exposure * closing >= 0
                          /\ stage = "submitted" /\ placed.status = "filled" => exposure = 0
                          /\ stage = "stuck" =>
                                ~WithinLimits(instrument, Decimal(Magnitude(exposure)))
        BY DEF ClosingReduces
      <2>1. After
        BY DEF TradeInv, Before
      <2>2. /\ closing \in Int /\ exposure \in Int /\ ClosingIsOpposite
            /\ placed.filled_quantity \in Nat /\ placed.quantity \in Nat
            /\ placed.filled_quantity <= placed.quantity
            /\ placed.status = "filled" => placed.filled_quantity = placed.quantity
        BY <2>1 DEF After, PlacedIsWhole
      <2>3. /\ closing > 0 => exposure \in 0..closing
            /\ closing < 0 => exposure \in closing..0
            /\ stage = "submitted" /\ placed.status = "filled" => exposure = 0
        <3>1. CASE stage = "submitted"
          <4>1. /\ placed.quantity = Magnitude(closing)
                /\ exposure = closing + sign(side) * placed.filled_quantity
                /\ sign(side) = IF closing > 0 THEN -1 ELSE 1
            BY <2>2, <3>1, Positions DEF ClosingIsOpposite, sign
          <4>2. exposure = IF closing > 0 THEN closing - placed.filled_quantity
                           ELSE closing + placed.filled_quantity
            BY <2>2, <4>1
          <4> QED
            BY <2>2, <4>1, <4>2 DEF Magnitude
        <3>2. CASE stage # "submitted"
          BY <2>2, <3>2 DEF ClosingIsOpposite
        <3> QED
          BY <3>1, <3>2
      <2>4. exposure * closing >= 0
        <3>1. \A a, b \in Nat : a * b >= 0 /\ (-a) * (-b) >= 0
          OBVIOUS
        <3>2. CASE closing > 0
          BY <2>2, <2>3, <3>1, <3>2
        <3>3. CASE closing < 0
          <4>1. -exposure \in Nat /\ -closing \in Nat
            BY <2>2, <2>3, <3>3
          <4>2. exposure = -(-exposure) /\ closing = -(-closing)
            BY <2>2
          <4> QED
            BY <3>1, <4>1, <4>2
        <3> QED
          BY <2>2, <3>2, <3>3
      <2>5. Magnitude(exposure) \in 0..Magnitude(closing)
        BY <2>2, <2>3 DEF Magnitude
      <2>6. exposure \in {Magnitude(exposure), -Magnitude(exposure)}
        BY <2>2 DEF Magnitude
      <2> QED
        BY <2>1, <2>3, <2>4, <2>5, <2>6 DEF After
    <1> QED
      BY VenueInvariance, <1>1, PTL

\* What SizedIsValid and DownFitsBudget state of the entry holds with a venue behind
\* it as well, the system whose behaviours are checked.
THEOREM SizingSurvivesTrading ==
    VenueSpec => [](SizedOrdersAreValid /\ DownStaysWithinBudget)
    <1>1. After => SizedOrdersAreValid
      BY DEF After, SizedOrdersAreValid
    <1>2. After => DownStaysWithinBudget
      <2> SUFFICES ASSUME After
                   PROVE  LET margin == required_margin(instrument, sized, limit, leverage)
                          IN  /\ margin.num <= budget * margin.den
                              /\ sized * wanted.den <= wanted.num
        BY DEF DownStaysWithinBudget
      <2>1. /\ sized = 0 /\ limit = 0 /\ leverage = 0 /\ budget = 0
            /\ wanted.num = 0 /\ wanted.den = 1
            /\ instrument.contract_size \in Int
        BY InstrumentFields DEF After, Forgotten, Decimal
      <2>2. notional(instrument, 0, 0) = 0
        BY <2>1 DEF notional, to_base_units, Magnitude
      <2> QED
        BY <2>1, <2>2 DEF required_margin
    <1>3. TradeInv => SizedOrdersAreValid /\ DownStaysWithinBudget
      BY <1>1, <1>2, SizedValid, SizedFits DEF TradeInv, Before
    <1> QED
      BY VenueInvariance, <1>3, PTL
=============================================================================
