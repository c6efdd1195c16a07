----------------------------- MODULE Instrument -----------------------------
(***************************************************************************)
(* core/instrument.py: what makes a definition of an instrument valid, how *)
(* a quantity or a price is brought onto its grid, and what a venue would  *)
(* accept.  A decimal is a whole number of the smallest unit there is; one *)
(* that comes out of a division is a fraction, [num, den].  Currencies and *)
(* names are left out.                                                     *)
(***************************************************************************)
EXTENDS Integers

RoundingModes == {"HALF_EVEN", "HALF_UP", "DOWN", "UP", "FLOOR", "CEILING"}

Decimal(n) == [num |-> n, den |-> 1]

Magnitude(n) == IF n < 0 THEN -n ELSE n

\* Whether a quotient with this rest is rounded to the next whole number away
\* from zero.
RoundsAway(whole, rest, step, negative, rounding) ==
    \/ rounding = "UP" /\ rest > 0
    \/ rounding = "FLOOR" /\ rest > 0 /\ negative
    \/ rounding = "CEILING" /\ rest > 0 /\ ~negative
    \/ rounding = "HALF_UP" /\ 2 * rest >= step
    \/ rounding = "HALF_EVEN" /\ 2 * rest >= step /\ (2 * rest = step => whole % 2 = 1)

\* n / step, quantized to a whole number.
Steps(n, step, rounding) ==
    LET whole == Magnitude(n) \div step
        rest  == Magnitude(n) % step
        count == IF RoundsAway(whole, rest, step, n < 0, rounding) THEN whole + 1 ELSE whole
    IN  IF n < 0 THEN -count ELSE count

is_multiple(n, step) == Magnitude(n) % step = 0

\* Mutant: the maximum need not be on the grid.
IsLimitedOffGrid(i) ==
    \A max \in i.max_quantity : max >= i.min_quantity

IsLimited(i) ==
    \A max \in i.max_quantity :
        max >= i.min_quantity /\ is_multiple(max, i.quantity_increment)

\* Instrument.__post_init__.  price_unit is the last decimal place that
\* price_precision allows; an optional field is a set of at most one value.
IsInstrument(i) ==
    /\ i.price_increment > 0 /\ is_multiple(i.price_increment, i.price_unit)
    /\ i.contract_size > 0
    /\ \A pip \in i.pip_size : pip > 0 /\ is_multiple(pip, i.price_increment)
    /\ i.quantity_unit = "units" => i.contract_size = 1
    /\ i.quantity_increment > 0
    /\ i.min_quantity > 0 /\ is_multiple(i.min_quantity, i.quantity_increment)
    /\ IsLimited(i)
    /\ \A leverage \in i.max_leverage : leverage > 0

\* Mutant: rounds to the nearest step.
quantize_nearest(i, q, rounding) ==
    Steps(q.num, q.den * i.quantity_increment,
          IF rounding = "DOWN" THEN "HALF_UP" ELSE rounding) * i.quantity_increment

quantize_quantity(i, q, rounding) ==
    Steps(q.num, q.den * i.quantity_increment, rounding) * i.quantity_increment

is_valid_quantity(i, n) ==
    /\ n # 0
    /\ Magnitude(n) >= i.min_quantity
    /\ \A max \in i.max_quantity : Magnitude(n) <= max
    /\ is_multiple(n, i.quantity_increment)

\* The last decimal places never round: price_increment is a multiple of them.
quantize_price(i, p, rounding) ==
    Steps(p.num, p.den * i.price_increment, rounding) * i.price_increment

is_valid_price(i, n) == n > 0 /\ is_multiple(n, i.price_increment)

\* In base units, and in the quote currency.
to_base_units(i, n) == n * i.contract_size

from_base_units(i, u) == [num |-> u.num, den |-> u.den * i.contract_size]

notional(i, n, price) == Magnitude(to_base_units(i, n)) * price

\* A leverage the margin may be computed with, and the margin it gives.
IsLeverage(i, leverage) ==
    leverage > 0 /\ \A cap \in i.max_leverage : leverage <= cap

required_margin(i, n, price, leverage) ==
    [num |-> notional(i, n, price), den |-> leverage]
=============================================================================
