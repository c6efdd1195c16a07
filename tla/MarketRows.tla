----------------------------- MODULE MarketRows -----------------------------
(***************************************************************************)
(* What one statement of persistence/repositories.py does to one row, and  *)
(* what its queries select.  A row is a value and whether it is complete;  *)
(* only a bar can be incomplete.                                           *)
(***************************************************************************)
EXTENDS InOrder, FiniteSetsExt, SequencesExt

\* No row.
Absent == [value |-> "absent", complete |-> FALSE]

\* Mutant: UPSERT_BAR without its WHERE clause.
merged_always(table, old, new) == IF table = "ticks" /\ old # Absent THEN old ELSE new

\* The row left by UPSERT_INSTRUMENT, UPSERT_BAR or INSERT_TICK: a definition is
\* overwritten, a bar while it is incomplete, a tick never.
merged(table, old, new) ==
    IF \/ table = "ticks" /\ old # Absent
       \/ table = "bars" /\ old.complete
    THEN old ELSE new

\* ON CONFLICT DO UPDATE locks the row it meets even when its WHERE clause
\* leaves it alone; DO NOTHING locks only what it inserts.
locks(table, old) == table # "ticks" \/ old = Absent

\* Rows that were written, over those that were there.
over(written, there) ==
    [ts \in DOMAIN written \cup DOMAIN there |->
        IF ts \in DOMAIN written THEN written[ts] ELSE there[ts]]

-----------------------------------------------------------------------------
\* build_bar_query and build_tick_query: the instants of a table's rows from
\* start to end, ascending, at most limit of them.  Zero stands for an argument
\* that is not given; instants are positive.

selects(start, end, ts) == ts >= start /\ (end = 0 \/ ts < end)

fetch(stored, start, end, limit) ==
    LET found == Ascending({ts \in stored : selects(start, end, ts)})
    IN  IF limit = 0 \/ limit >= Len(found) THEN found ELSE SubSeq(found, 1, limit)
=============================================================================
