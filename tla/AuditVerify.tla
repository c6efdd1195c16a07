---------------------------- MODULE AuditVerify -----------------------------
(***************************************************************************)
(* What AuditLog.verify can tell about a log whose table was damaged after *)
(* it was written: rows lost (a restore from an older or partial copy),    *)
(* contents changed in place, or whole rows replaced with a hash that fits *)
(* their new contents.  Appends go on from whatever head is left.          *)
(*                                                                         *)
(* That concurrent appends write one chain is AuditLog's subject; here an  *)
(* append is one step.                                                     *)
(***************************************************************************)
EXTENDS AuditChain, FiniteSetsExt

CONSTANTS Payloads,    \* what an entry may record, as [kind, value]
          MaxRows,     \* bound: rows ever written
          MaxDamage    \* bound: how often the table is damaged

\* How Python holds the value a payload records: a number, a text or anything
\* rendered as one, or a dictionary of several keys, all of one type (int_keys
\* stands for keys that are floats as well).
Kinds == {"text", "Decimal", "int", "float", "float_1e16", "minus_zero", "text_keys", "int_keys"}

ASSUME PayloadsAssumption == \A p \in Payloads : p.kind \in Kinds
ASSUME BoundsAssumption == MaxRows \in Nat /\ MaxDamage \in Nat

VARIABLES table,     \* the rows the database holds now
          appended,  \* how many rows append has committed
          sound,     \* those of them it committed before any damage
          damage     \* how often the table was damaged

vars == <<table, appended, sound, damage>>

\* canonical_json renders a Decimal through str, a float of 1e16 or more with an
\* exponent and -0.0 with its sign, and sorts the keys of a dictionary before they
\* are rendered: 2 comes before 10, and "10" before "2".
canonical_json(payload) ==
    [form |-> CASE payload.kind \in {"text", "Decimal"} -> "quoted"
                [] payload.kind = "int" -> "digits"
                [] payload.kind = "float" -> "decimal_point"
                [] payload.kind = "float_1e16" -> "exponent"
                [] payload.kind = "minus_zero" -> "signed_zero"
                [] payload.kind = "text_keys" -> "sorted_as_text"
                [] payload.kind = "int_keys" -> "sorted_as_numbers",
     value |-> payload.value]

\* What a JSONB column keeps of that text, and json.loads makes of it again: the
\* same value, but a JSONB number is a NUMERIC, which has no negative zero and is
\* printed without an exponent, and the keys of a JSON object are texts.
json_round_trip(payload) ==
    LET form == canonical_json(payload).form
    IN  [kind  |-> CASE form = "quoted" -> "text"
                     [] form \in {"digits", "exponent"} -> "int"
                     [] form \in {"decimal_point", "signed_zero"} -> "float"
                     [] form \in {"sorted_as_text", "sorted_as_numbers"} -> "text_keys",
         value |-> payload.value]

\* The hash is that of the payload, the column holds what is kept of it.
Row(sequence, payload, previous_hash) ==
    [sequence      |-> sequence,
     body          |-> json_round_trip(payload),
     previous_hash |-> previous_hash,
     entry_hash    |-> compute_entry_hash(sequence, canonical_json(payload), previous_hash)]

Init == table = {} /\ appended = 0 /\ sound = {} /\ damage = 0

\* The head's sequence and hash, or the genesis of an empty table.
NextEntry(payload) ==
    IF table = {}
    THEN Row(1, payload, GENESIS_HASH)
    ELSE LET head == HeadRow(table)
         IN  Row(head.sequence + 1, payload, head.entry_hash)

append(payload) ==
    /\ appended < MaxRows
    /\ table' = table \cup {NextEntry(payload)}
    /\ appended' = appended + 1
    /\ sound' = IF damage = 0 THEN sound \cup {NextEntry(payload)} ELSE sound
    /\ UNCHANGED damage

\* Some rows are gone, the trigger notwithstanding.
Lose(rows) ==
    /\ damage < MaxDamage
    /\ table' = table \ rows
    /\ damage' = damage + 1
    /\ UNCHANGED <<appended, sound>>

\* A row's contents change and its hash does not.
Alter(row, payload) ==
    /\ damage < MaxDamage
    /\ json_round_trip(payload) # row.body
    /\ table' = (table \ {row}) \cup {[row EXCEPT !.body = json_round_trip(payload)]}
    /\ damage' = damage + 1
    /\ UNCHANGED <<appended, sound>>

\* A row is replaced by one with other contents and a hash that fits them.
Rewrite(row, payload) ==
    /\ damage < MaxDamage
    /\ json_round_trip(payload) # row.body
    /\ table' = (table \ {row})
                \cup {Row(row.sequence, payload, row.previous_hash)}
    /\ damage' = damage + 1
    /\ UNCHANGED <<appended, sound>>

Next ==
    \/ \E payload \in Payloads : append(payload)
    \/ \E rows \in SUBSET table \ {{}} : Lose(rows)
    \/ \E row \in table, payload \in Payloads :
          Alter(row, payload) \/ Rewrite(row, payload)

Spec == Init /\ [][Next]_vars

-----------------------------------------------------------------------------
\* Reading and verifying.

\* entry_from_row: AuditEntry raises when the stored hash is not that of the
\* contents as read.
is_altered(row) ==
    row.entry_hash
        # compute_entry_hash(row.sequence, canonical_json(row.body), row.previous_hash)

\* SELECT ... WHERE sequence BETWEEN first AND last
read(first, last) == {row \in table : row.sequence \in first..last}

\* The entries before this one in ORDER BY sequence ASC; pairwise gives it with the
\* last of them.
before(entries, entry) == {other \in entries : other.sequence < entry.sequence}

\* Mutant: every range must start at the genesis.
breaks_from_genesis(entries) ==
    {entry \in entries :
        IF before(entries, entry) = {} THEN entry.previous_hash # GENESIS_HASH
        ELSE ~links_to(entry, HeadRow(before(entries, entry)))}

\* Mutant: only the numbers are compared.
breaks_of_numbers(entries) ==
    {entry \in entries :
        /\ before(entries, entry) # {}
        /\ entry.sequence # HeadRow(before(entries, entry)).sequence + 1}

\* The entries that do not link to the one before them.
breaks(entries) ==
    {entry \in entries :
        /\ before(entries, entry) # {}
        /\ ~links_to(entry, HeadRow(before(entries, entry)))}

\* Mutant: the loop goes on, and reports the last break.
verify_chain_to_the_end(entries) ==
    IF breaks(entries) = {}
    THEN [status |-> "intact", at |-> 0]
    ELSE [status |-> "broken", at |-> Max({entry.sequence : entry \in breaks(entries)})]

\* verify_chain: intact, or broken at the first entry that does not link.
verify_chain(entries) ==
    IF breaks(entries) = {}
    THEN [status |-> "intact", at |-> 0]
    ELSE [status |-> "broken", at |-> Min({entry.sequence : entry \in breaks(entries)})]

verify(first, last) ==
    IF \E row \in read(first, last) : is_altered(row)
    THEN [status |-> "altered", at |-> 0]
    ELSE verify_chain(read(first, last))

Ranges == {r \in (1..MaxRows) \X (1..MaxRows) : r[1] <= r[2]}

-----------------------------------------------------------------------------
\* A log nobody damaged verifies over every range, from the middle of the log
\* as well as from its start (audit.py:419-424).
NoFalseAlarm ==
    damage = 0 => \A r \in Ranges : verify(r[1], r[2]).status = "intact"

\* A hash vouches for everything before it: where verify finds a range intact
\* and its last row is one append wrote while the log was whole, every row of
\* the range is a row append wrote, and none between the first and the last is
\* missing, however the table was damaged since (audit.py:12-14).
LastRowVouches ==
    \A r \in Ranges :
        LET rows == read(r[1], r[2])
        IN  /\ verify(r[1], r[2]).status = "intact"
            /\ rows # {}
            /\ HeadRow(rows) \in sound
            => /\ rows \subseteq sound
               /\ \A row \in rows : \A s \in row.sequence..HeadRow(rows).sequence :
                     \E other \in rows : other.sequence = s

\* The report points at damage and not past it: the rows of the range before
\* the one it names link to each other, and that one does not link to them.
BrokenAtIsFirst ==
    \A r \in Ranges :
        LET report == verify(r[1], r[2])
            rows == read(r[1], r[2])
            earlier == {row \in rows : row.sequence < report.at}
        IN  report.status = "broken" =>
                /\ earlier # {}
                /\ ~\E row \in rows :
                      row.sequence = report.at /\ links_to(row, HeadRow(earlier))
                /\ verify(r[1], report.at - 1).status = "intact"

\* "Verifying from the beginning proves the whole log" (audit.py:421): when it
\* finds the table intact, no row written before the last one left is missing.
WholeLogProved ==
    verify(1, MaxRows).status = "intact" /\ table # {} =>
        \E row \in table : row.sequence = 1

\* What append stored can be read back: reading raises only after damage
\* (database.py:220-222).
StoredReadsBack ==
    damage = 0 => \A r \in Ranges : verify(r[1], r[2]).status # "altered"
=============================================================================
