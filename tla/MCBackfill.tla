----------------------------- MODULE MCBackfill -----------------------------
(***************************************************************************)
(* Backfill for TLC: two instants, so that two batches can name them in    *)
(* opposite orders, and bars that differ in value and in completeness.     *)
(***************************************************************************)
EXTENDS Backfill

Forming == [value |-> "v1", complete |-> FALSE]
Reformed == [value |-> "v2", complete |-> FALSE]
Closed == [value |-> "v2", complete |-> TRUE]
Corrected == [value |-> "v3", complete |-> TRUE]

Bar(table, i, row) == [table |-> table, items |-> <<[ts |-> i, row |-> row]>>]

Both(table, i, j, row) ==
    [table |-> table, items |-> <<[ts |-> i, row |-> row], [ts |-> j, row |-> row]>>]

EmptyBatches == {[table |-> t, items |-> <<>>] : t \in {"instruments", "ticks"}}

\* Batches that repeat a key leave the last definition, the first tick, and of
\* the bars the first closed one.
SomeBatches ==
    {[table |-> "bars",
      items |-> <<[ts |-> 1, row |-> Forming], [ts |-> 1, row |-> Closed],
                  [ts |-> 2, row |-> Closed]>>]}
    \cup {Both("bars", 2, 1, Corrected)}
    \cup {Bar("bars", 1, Closed), Bar("bars", 2, Closed), Bar("bars", 2, Forming)}
    \cup {[table |-> "ticks",
           items |-> <<[ts |-> 2, row |-> Closed], [ts |-> 1, row |-> Closed],
                       [ts |-> 2, row |-> Corrected]>>]}
    \cup {[table |-> "instruments",
           items |-> <<[ts |-> 1, row |-> Closed], [ts |-> 1, row |-> Corrected]>>]}
    \cup EmptyBatches

MinuteBars ==
    [Models!minimal EXCEPT !.supports_historical_candles = TRUE, !.granularities = {"5s"},
                           !.candle_prices = {"mid"}, !.max_candles_per_request = 2]
=============================================================================
