---------------------------- MODULE AtomicTables ----------------------------
(***************************************************************************)
(* What the repositories promise of a batch, with no transactions, locks,  *)
(* connections or statements: all of it is in its table at one instant,    *)
(* and this is what it leaves there.                                       *)
(***************************************************************************)
EXTENDS MarketRows

CONSTANTS Tables, Instants, Batches

VARIABLE rows      \* rows[table][ts]

\* What is left of the row old by the items at some positions, all for its instant:
\* of a definition the last, of a bar the first that is complete, or else the last,
\* of a tick the first; and old itself if it was final.
leaves(table, items, positions, old) ==
    LET closed == {i \in positions : items[i].row.complete}
    IN  IF \/ positions = {}
           \/ table = "ticks" /\ old # Absent
           \/ table = "bars" /\ old.complete
        THEN old
        ELSE LET position == CASE table = "ticks" -> Min(positions)
                               [] table = "bars" /\ closed # {} -> Min(closed)
                               [] OTHER -> Max(positions)
             IN  items[position].row

Applied(batch, ts, old) ==
    leaves(batch.table, batch.items, {i \in DOMAIN batch.items : batch.items[i].ts = ts}, old)

Init == rows = [t \in Tables |-> [ts \in Instants |-> Absent]]

Apply(batch) ==
    rows' = [rows EXCEPT ![batch.table] =
                [ts \in Instants |-> Applied(batch, ts, rows[batch.table][ts])]]

Next == \E batch \in Batches : Apply(batch)

Spec == Init /\ [][Next]_rows
=============================================================================
