------------------------- MODULE AuditVerifyProofs --------------------------
(***************************************************************************)
(* Proofs about AuditVerify, for any payloads, any number of rows and any  *)
(* amount of damage.                                                       *)
(*                                                                         *)
(* What verify reports depends on rows that damage may have changed, so    *)
(* the invariant says two different things: of every row only what any     *)
(* table keeps (its fields, a primary key no greater than the rows         *)
(* written, a body a JSONB column can hold), and of the rows written       *)
(* before any damage what the chain is built on (each carries the hash of  *)
(* its own contents and links to another such row).                        *)
(***************************************************************************)
EXTENDS AuditVerify, WellFoundedInduction, TLAPS

\* What the table keeps of every row, damaged or not.
IsRow(row) ==
    /\ row = [sequence      |-> row.sequence,
              body          |-> row.body,
              previous_hash |-> row.previous_hash,
              entry_hash    |-> row.entry_hash]
    /\ row.sequence \in 1..appended
    /\ \E payload \in Payloads : row.body = json_round_trip(payload)

Keyed == \A e, f \in table : e.sequence = f.sequence => e = f

\* A row as append writes it, and the row it was appended to.
WasWritten(e) ==
    /\ e.sequence \in Nat \ {0}
    /\ \E payload \in Payloads : e = Row(e.sequence, payload, e.previous_hash)

WasChained(e) == e.sequence = 1 \/ \E previous \in sound : links_to(e, previous)

IInv ==
    /\ appended \in Nat /\ damage \in Nat
    /\ \A row \in table : IsRow(row)
    /\ Keyed
    /\ \A e \in sound : WasWritten(e) /\ WasChained(e)
    /\ damage = 0 => sound = table

-----------------------------------------------------------------------------
\* Sets of numbers, and of rows by their sequence.

\* A set of natural numbers has a least.
LEMMA NatMin ==
    ASSUME NEW S \in SUBSET Nat, S # {}
    PROVE  \E x \in S : \A y \in S : x <= y
    <1> DEFINE R == {p \in Nat \X Nat : p[1] < p[2]}
    <1>1. IsWellFoundedOn(R, Nat)
      BY NatLessThanWellFounded DEF OpToRel
    <1>2. PICK x \in S : \A y \in S : ~(<<y, x>> \in R)
      BY <1>1, WFMin
    <1>3. \A y \in S : <<y, x>> \in R <=> y < x
      OBVIOUS
    <1> HIDE DEF R
    <1>4. \A y \in S : ~(y < x)
      BY <1>2, <1>3
    <1>5. S \subseteq Nat
      OBVIOUS
    <1> QED
      BY <1>4, <1>5

\* Min finds it.
LEMMA MinIsLeast ==
    ASSUME NEW S \in SUBSET Nat, S # {}
    PROVE  Min(S) \in S /\ \A y \in S : Min(S) <= y
    BY NatMin DEF Min

\* A table has a row of the greatest sequence, and HeadRow is it.
LEMMA Highest ==
    ASSUME IInv, NEW rows \in SUBSET table, rows # {}
    PROVE  HeadRow(rows) \in rows
           /\ \A other \in rows : other.sequence <= HeadRow(rows).sequence
    <1>1. appended \in Nat /\ \A row \in rows : row.sequence \in 1..appended
      BY DEF IInv, IsRow
    <1> DEFINE Left == {appended - row.sequence : row \in rows}
    <1>2. Left \in SUBSET Nat /\ Left # {}
      BY <1>1
    <1>3. PICK x \in Left : \A y \in Left : x <= y
      BY <1>2, NatMin
    <1>4. PICK row \in rows : x = appended - row.sequence
      OBVIOUS
    <1>5. \A other \in rows : appended - row.sequence <= appended - other.sequence
      BY <1>3, <1>4
    <1>6. \A other \in rows : other.sequence <= row.sequence
      BY <1>1, <1>5
    <1> QED
      BY <1>6 DEF HeadRow

\* Of the rows above a number, one is the lowest.
LEMMA Lowest ==
    ASSUME IInv, NEW rows \in SUBSET table, rows # {}
    PROVE  \E row \in rows : \A other \in rows : row.sequence <= other.sequence
    <1> DEFINE S == {row.sequence : row \in rows}
    <1>1. S \in SUBSET Nat /\ S # {}
      BY DEF IInv, IsRow
    <1>2. PICK x \in S : \A y \in S : x <= y
      BY <1>1, NatMin
    <1> QED
      BY <1>2

-----------------------------------------------------------------------------
\* What the JSON form tells of a payload.

\* If the stored form of one payload is rendered as another payload was, it is
\* that payload's stored form: the two have the same hash only then.
LEMMA FormTells ==
    ASSUME NEW p \in Payloads, NEW q \in Payloads,
           canonical_json(json_round_trip(p)) = canonical_json(q)
    PROVE  json_round_trip(p) = json_round_trip(q)
    <1>1. p.kind \in Kinds /\ q.kind \in Kinds
      BY PayloadsAssumption
    <1>2. ASSUME NEW x, x.kind \in Kinds
          PROVE  /\ json_round_trip(x).value = x.value /\ canonical_json(x).value = x.value
                 /\ json_round_trip(x) = [kind |-> json_round_trip(x).kind, value |-> x.value]
                 /\ json_round_trip(x).kind \in {"text", "int", "float", "text_keys"}
      BY <1>2 DEF json_round_trip, canonical_json, Kinds
    <1>3. p.value = q.value
      BY <1>1, <1>2 DEF canonical_json
    <1>4. canonical_json(q).form = CASE json_round_trip(p).kind = "text" -> "quoted"
                                     [] json_round_trip(p).kind = "int" -> "digits"
                                     [] json_round_trip(p).kind = "float" -> "decimal_point"
                                     [] json_round_trip(p).kind = "text_keys" -> "sorted_as_text"
      BY <1>1, <1>2 DEF canonical_json
    <1>5. json_round_trip(q).kind = json_round_trip(p).kind
      BY <1>1, <1>2, <1>4 DEF json_round_trip
    <1> QED
      BY <1>1, <1>2, <1>3, <1>5

\* The kinds of payload that JSONB gives back in a form of another rendering.
Unstable == {"float_1e16", "minus_zero", "int_keys"}

\* What is stored of a payload is rendered as the payload was, unless it holds a
\* float that was rendered with an exponent or as -0.0, or keys that are integers.
LEMMA FormSurvives ==
    ASSUME NEW p \in Payloads, p.kind \notin Unstable
    PROVE  canonical_json(json_round_trip(p)) = canonical_json(p)
    BY PayloadsAssumption DEF canonical_json, json_round_trip, Kinds, Unstable

-----------------------------------------------------------------------------
\* The invariant.

\* A row with a hash that fits its contents is a row a table can hold.
LEMMA RowsFit ==
    ASSUME IInv, NEW n \in 1..appended, NEW payload \in Payloads, NEW hash
    PROVE  IsRow(Row(n, payload, hash))
    BY DEF IInv, IsRow, Row

\* An append keeps the invariant: the new row has a new sequence and links to the
\* head, which was written too while there is no damage.
LEMMA AppendStep ==
    ASSUME IInv, NEW payload \in Payloads, append(payload)
    PROVE  IInv'
    <1>e. PICK e : e = NextEntry(payload)
      OBVIOUS
    <1>1. /\ table' = table \cup {e} /\ appended' = appended + 1
          /\ sound' = (IF damage = 0 THEN sound \cup {e} ELSE sound)
          /\ damage' = damage
      BY <1>e DEF append
    <1>2. /\ e = Row(e.sequence, payload, e.previous_hash)
          /\ e.sequence \in 1..(appended + 1)
          /\ \A row \in table : row.sequence < e.sequence
          /\ e.sequence = 1 \/ \E previous \in table : links_to(e, previous)
      <2>1. CASE table = {}
        BY <2>1, <1>e DEF NextEntry, Row, IInv
      <2>2. CASE table # {}
        <3> DEFINE head == HeadRow(table)
        <3>1. head \in table /\ \A other \in table : other.sequence <= head.sequence
          BY <2>2, Highest
        <3>2. e = Row(head.sequence + 1, payload, head.entry_hash)
          BY <2>2, <1>e DEF NextEntry
        <3>3. /\ appended \in Nat
              /\ \A row \in table : row.sequence \in 1..appended
          BY DEF IInv, IsRow
        <3> HIDE DEF head
        <3>4. e.sequence = head.sequence + 1 /\ e.previous_hash = head.entry_hash
          BY <3>2 DEF Row
        <3>5. e.sequence \in 1..(appended + 1)
              /\ \A row \in table : row.sequence < e.sequence
          BY <3>1, <3>3, <3>4
        <3>6. links_to(e, head)
          BY <3>4 DEF links_to
        <3> QED
          BY <3>1, <3>2, <3>4, <3>5, <3>6
      <2> QED
        BY <2>1, <2>2
    <1>3. appended' \in Nat /\ damage' \in Nat
      BY <1>1 DEF IInv
    <1>4. \A row \in table' : IsRow(row)'
      <2> SUFFICES ASSUME NEW row \in table' PROVE IsRow(row)'
        OBVIOUS
      <2>1. CASE row \in table
        BY <2>1, <1>1 DEF IInv, IsRow
      <2>2. CASE row = e
        BY <2>2, <1>1, <1>2 DEF IsRow, Row
      <2> QED
        BY <1>1, <2>1, <2>2
    <1>5. Keyed'
      <2>1. \A row \in table : row.sequence # e.sequence
        BY <1>2 DEF IInv, IsRow
      <2> QED
        BY <1>1, <2>1 DEF IInv, Keyed
    <1>6. \A f \in sound' : WasWritten(f)' /\ WasChained(f)'
      <2>1. \A f \in sound : WasWritten(f)' /\ WasChained(f)'
        BY <1>1 DEF IInv, WasWritten, WasChained
      <2>2. CASE damage # 0
        BY <2>1, <2>2, <1>1
      <2>3. CASE damage = 0
        <3>1. sound = table
          BY <2>3 DEF IInv
        <3>2. WasWritten(e)'
          BY <1>2 DEF WasWritten, IInv
        <3>3. WasChained(e)'
          BY <3>1, <2>3, <1>1, <1>2 DEF WasChained
        <3> QED
          BY <2>1, <2>3, <3>2, <3>3, <1>1
      <2> QED
        BY <2>2, <2>3
    <1>7. damage' = 0 => sound' = table'
      BY <1>1 DEF IInv
    <1> QED
      BY <1>3, <1>4, <1>5, <1>6, <1>7 DEF IInv

\* Damage of any of the three kinds: rows go, or one makes way for another with
\* its sequence.
LEMMA DamageStep ==
    ASSUME IInv, damage' = damage + 1, UNCHANGED <<appended, sound>>,
           \/ table' \subseteq table
           \/ \E row \in table : \E new : /\ table' = (table \ {row}) \cup {new}
                                          /\ new.sequence = row.sequence
                                          /\ IsRow(new)
    PROVE  IInv'
    <1>1. /\ appended' \in Nat /\ damage' \in Nat /\ damage' # 0
          /\ \A e \in sound' : WasWritten(e)' /\ WasChained(e)'
      BY DEF IInv, WasWritten, WasChained
    <1>2. \A row : IsRow(row)' <=> IsRow(row)
      BY DEF IsRow
    <1>3. CASE table' \subseteq table
      <2>1. \A row \in table' : IsRow(row)'
        BY <1>2, <1>3 DEF IInv
      <2>2. Keyed'
        BY <1>3 DEF IInv, Keyed
      <2> QED
        BY <1>1, <2>1, <2>2 DEF IInv
    <1>4. ASSUME NEW row \in table, NEW new, table' = (table \ {row}) \cup {new},
                 new.sequence = row.sequence, IsRow(new)
          PROVE  IInv'
      <2>1. \A other \in table' : IsRow(other)'
        BY <1>2, <1>4 DEF IInv
      <2>2. Keyed'
        BY <1>4 DEF IInv, Keyed
      <2> QED
        BY <1>1, <2>1, <2>2 DEF IInv
    <1> QED
      BY <1>3, <1>4

\* The invariant holds in every reachable state.
THEOREM Invariance == Spec => []IInv
    <1>1. Init => IInv
      BY BoundsAssumption DEF Init, IInv, Keyed
    <1>2. IInv /\ [Next]_vars => IInv'
      <2> SUFFICES ASSUME IInv, [Next]_vars PROVE IInv'
        OBVIOUS
      <2>1. ASSUME NEW payload \in Payloads, append(payload) PROVE IInv'
        BY <2>1, AppendStep
      <2>2. ASSUME NEW rows \in SUBSET table \ {{}}, Lose(rows) PROVE IInv'
        BY <2>2, DamageStep DEF Lose
      <2>3. ASSUME NEW row \in table, NEW payload \in Payloads, Alter(row, payload)
            PROVE  IInv'
        <3> DEFINE new == [row EXCEPT !.body = json_round_trip(payload)]
        <3>1. IsRow(row)
          BY DEF IInv
        <3>2. new.sequence = row.sequence /\ IsRow(new)
          BY <3>1 DEF IsRow
        <3> HIDE DEF new
        <3>3. damage' = damage + 1 /\ UNCHANGED <<appended, sound>>
              /\ table' = (table \ {row}) \cup {new}
          BY <2>3 DEF Alter, new
        <3> QED
          BY <3>2, <3>3, DamageStep
      <2>4. ASSUME NEW row \in table, NEW payload \in Payloads, Rewrite(row, payload)
            PROVE  IInv'
        <3> DEFINE new == Row(row.sequence, payload, row.previous_hash)
        <3>1. new.sequence = row.sequence
          BY DEF Row
        <3>2. row.sequence \in 1..appended
          BY DEF IInv, IsRow
        <3>3. IsRow(new)
          BY <3>2, RowsFit
        <3> HIDE DEF new
        <3>4. damage' = damage + 1 /\ UNCHANGED <<appended, sound>>
              /\ table' = (table \ {row}) \cup {new}
          BY <2>4 DEF Rewrite, new
        <3> QED
          BY <3>1, <3>3, <3>4, DamageStep
      <2>5. CASE UNCHANGED vars
        BY <2>5 DEF vars, IInv, IsRow, Keyed, WasWritten, WasChained
      <2> QED
        BY <2>1, <2>2, <2>3, <2>4, <2>5 DEF Next
    <1> QED
      BY <1>1, <1>2, PTL DEF Spec

-----------------------------------------------------------------------------
\* Reading a range.

\* What read returns is of the table and of the range.
LEMMA ReadIsTable ==
    ASSUME IInv, NEW first, NEW last
    PROVE  /\ read(first, last) \in SUBSET table
           /\ \A row \in read(first, last) :
                 /\ row \in table /\ row.sequence \in Nat
                 /\ row.sequence \in first..last
    BY DEF read, IInv, IsRow

\* A verdict is one of three, and tells of the rows it is about.
LEMMA Verdict ==
    ASSUME NEW first, NEW last
    PROVE  LET rows == read(first, last)
               report == verify(first, last)
           IN  /\ report.status = "intact" <=>
                     (\A row \in rows : ~is_altered(row)) /\ breaks(rows) = {}
               /\ report.status = "altered" <=> \E row \in rows : is_altered(row)
               /\ report.status = "broken" =>
                     /\ \A row \in rows : ~is_altered(row)
                     /\ breaks(rows) # {}
                     /\ report.at = Min({entry.sequence : entry \in breaks(rows)})
    <1> DEFINE rows == read(first, last)
               altered == \E row \in rows : is_altered(row)
    <1>1. CASE altered
      BY <1>1 DEF verify
    <1>2. CASE ~altered /\ breaks(rows) = {}
      BY <1>2 DEF verify, verify_chain
    <1>3. CASE ~altered /\ breaks(rows) # {}
      BY <1>3 DEF verify, verify_chain
    <1> QED
      BY <1>1, <1>2, <1>3

\* Where nothing breaks, the row below one is the one it links to.
LEMMA LinksBelow ==
    ASSUME IInv, NEW rows \in SUBSET table, breaks(rows) = {},
           NEW entry \in rows, NEW below \in rows, below.sequence < entry.sequence,
           \A other \in rows : other.sequence < entry.sequence
                                  => other.sequence <= below.sequence
    PROVE  links_to(entry, below)
    <1> DEFINE earlier == before(rows, entry)
    <1>1. below \in earlier /\ earlier \in SUBSET table
      BY DEF before
    <1>2. \A other \in earlier : other.sequence <= below.sequence
      BY DEF before
    <1>3. links_to(entry, HeadRow(earlier))
      BY <1>1 DEF breaks
    <1> HIDE DEF earlier
    <1>4. HeadRow(earlier) \in earlier /\ below.sequence <= HeadRow(earlier).sequence
      BY <1>1, Highest
    <1>5. HeadRow(earlier).sequence = below.sequence
      BY <1>1, <1>2, <1>4 DEF IInv, IsRow
    <1>6. HeadRow(earlier) = below
      BY <1>1, <1>4, <1>5 DEF IInv, Keyed
    <1> QED
      BY <1>3, <1>6

\* A row that is not altered, and that a written row links to, was written too:
\* its hash is that of its own contents and of a written row's.
LEMMA HashVouches ==
    ASSUME IInv, NEW row \in table, ~is_altered(row),
           NEW entry \in sound, links_to(entry, row)
    PROVE  row \in sound
    <1>1. row.sequence \in Nat \ {0} /\ IsRow(row)
      BY DEF IInv, IsRow
    <1>2. entry.sequence = row.sequence + 1
          /\ entry.previous_hash = row.entry_hash
      BY DEF links_to
    <1>3. PICK previous \in sound : links_to(entry, previous)
      BY <1>1, <1>2 DEF IInv, WasChained
    <1>4. WasWritten(previous)
      BY DEF IInv
    <1>5. PICK q \in Payloads : previous = Row(previous.sequence, q, previous.previous_hash)
      BY <1>4 DEF WasWritten
    <1>6. previous.body = json_round_trip(q)
          /\ previous.entry_hash
                = <<previous.sequence, canonical_json(q), previous.previous_hash>>
      BY <1>5 DEF Row, compute_entry_hash
    <1>7. row.entry_hash = <<row.sequence, canonical_json(row.body), row.previous_hash>>
      BY DEF is_altered, compute_entry_hash
    <1>8. previous.entry_hash = row.entry_hash
      BY <1>2, <1>3 DEF links_to
    <1>9. /\ previous.sequence = row.sequence
          /\ canonical_json(row.body) = canonical_json(q)
          /\ previous.previous_hash = row.previous_hash
      BY <1>6, <1>7, <1>8
    <1>10. PICK p \in Payloads : row.body = json_round_trip(p)
      BY <1>1 DEF IsRow
    <1>11. row.body = previous.body
      BY <1>6, <1>9, <1>10, FormTells
    <1>12. row = previous
      <2>1. row = [sequence      |-> row.sequence,
                   body          |-> row.body,
                   previous_hash |-> row.previous_hash,
                   entry_hash    |-> row.entry_hash]
        BY <1>1 DEF IsRow
      <2>2. previous = [sequence      |-> previous.sequence,
                        body          |-> previous.body,
                        previous_hash |-> previous.previous_hash,
                        entry_hash    |-> previous.entry_hash]
        BY <1>5, <1>6 DEF Row, compute_entry_hash
      <2> QED
        BY <2>1, <2>2, <1>8, <1>9, <1>11
    <1> QED
      BY <1>12

-----------------------------------------------------------------------------
\* The theorems.

\* A hash vouches for everything before it (audit.py:12-14): take the highest row
\* that append did not write.  The row above it was written and links to it.
LEMMA VouchesForRows ==
    ASSUME IInv, NEW rows \in SUBSET table, breaks(rows) = {},
           \A row \in rows : ~is_altered(row),
           rows # {}, HeadRow(rows) \in sound
    PROVE  rows \subseteq sound
    <1> DEFINE bad == rows \ sound
               top == HeadRow(rows)
    <1> SUFFICES ASSUME bad # {} PROVE FALSE
      OBVIOUS
    <1>1. PICK row \in bad : \A other \in bad : other.sequence <= row.sequence
      <2>1. bad \in SUBSET table
        OBVIOUS
      <2> QED
        BY <2>1, Highest
    <1>2. top \in rows /\ \A other \in rows : other.sequence <= top.sequence
      BY Highest
    <1>3. \A other \in rows : other.sequence \in Nat
      BY DEF IInv, IsRow
    <1>4. row.sequence < top.sequence
      <2>1. row # top
        OBVIOUS
      <2>2. row.sequence # top.sequence
        BY <1>2, <2>1 DEF IInv, Keyed
      <2> QED
        BY <1>2, <1>3, <2>2
    <1> HIDE DEF top
    <1> DEFINE above == {other \in rows : row.sequence < other.sequence}
    <1>5. PICK entry \in above : \A other \in above : entry.sequence <= other.sequence
      <2>1. above \in SUBSET table /\ above # {}
        BY <1>2, <1>4
      <2> QED
        BY <2>1, Lowest
    <1>6. entry \in rows /\ entry \in sound
      <2>1. entry \notin bad
        BY <1>1, <1>3, <1>5
      <2> QED
        BY <2>1
    <1>7. \A other \in rows : other.sequence < entry.sequence
                                 => other.sequence <= row.sequence
      BY <1>3, <1>5
    <1>8. links_to(entry, row)
      BY <1>5, <1>7, LinksBelow
    <1> QED
      BY <1>6, <1>8, HashVouches

\* Where nothing breaks, no sequence is missing below the last row: the row above a
\* gap would link to the one below it.
LEMMA NoRowMissing ==
    ASSUME IInv, NEW rows \in SUBSET table, breaks(rows) = {},
           NEW row \in rows, NEW s \in row.sequence..HeadRow(rows).sequence
    PROVE  \E other \in rows : other.sequence = s
    <1> DEFINE top == HeadRow(rows)
    <1> SUFFICES ASSUME \A other \in rows : other.sequence # s PROVE FALSE
      OBVIOUS
    <1>1. top \in rows
      BY Highest
    <1>2. /\ s \in Int /\ \A other \in rows : other.sequence \in Nat
          /\ row.sequence < s /\ s < top.sequence
      BY <1>1 DEF IInv, IsRow
    <1> HIDE DEF top
    <1> DEFINE above == {other \in rows : s < other.sequence}
               under == {other \in rows : other.sequence < s}
    <1>3. PICK entry \in above : \A other \in above : entry.sequence <= other.sequence
      <2>1. above \in SUBSET table /\ above # {}
        BY <1>1, <1>2
      <2> QED
        BY <2>1, Lowest
    <1>4. PICK below \in under : \A other \in under : other.sequence <= below.sequence
      <2>1. under \in SUBSET table /\ under # {}
        BY <1>2
      <2> QED
        BY <2>1, Highest
    <1>5. \A other \in rows : other.sequence < entry.sequence
                                 => other.sequence <= below.sequence
      BY <1>2, <1>3, <1>4
    <1>6. links_to(entry, below)
      BY <1>2, <1>3, <1>4, <1>5, LinksBelow
    <1> QED
      BY <1>2, <1>3, <1>4, <1>6 DEF links_to

\* LastRowVouches, for any damage: where verify finds a range intact and its last
\* row is one append wrote, append wrote every row of it and none is missing.
THEOREM HashVouchesForRange == Spec => []LastRowVouches
    <1>1. IInv => LastRowVouches
      <2> SUFFICES ASSUME IInv, NEW r \in Ranges,
                          verify(r[1], r[2]).status = "intact",
                          read(r[1], r[2]) # {},
                          HeadRow(read(r[1], r[2])) \in sound
                   PROVE  /\ read(r[1], r[2]) \subseteq sound
                          /\ \A row \in read(r[1], r[2]) :
                             \A s \in row.sequence..HeadRow(read(r[1], r[2])).sequence :
                                \E other \in read(r[1], r[2]) : other.sequence = s
        BY DEF LastRowVouches
      <2> DEFINE rows == read(r[1], r[2])
      <2>1. rows \in SUBSET table
        BY ReadIsTable
      <2>2. (\A row \in rows : ~is_altered(row)) /\ breaks(rows) = {}
        BY Verdict
      <2> HIDE DEF rows
      <2>3. rows \subseteq sound
        BY <2>1, <2>2, VouchesForRows DEF rows
      <2>4. \A row \in rows : \A s \in row.sequence..HeadRow(rows).sequence :
               \E other \in rows : other.sequence = s
        BY <2>1, <2>2, NoRowMissing
      <2> QED
        BY <2>3, <2>4 DEF rows
    <1> QED
      BY <1>1, Invariance, PTL

\* BrokenAtIsFirst, for any damage: the entry verify names does not link to the
\* one before it, and the rows of the range before it verify.
THEOREM BreakIsTheFirst == Spec => []BrokenAtIsFirst
    <1>1. IInv => BrokenAtIsFirst
      <2> SUFFICES ASSUME IInv, NEW r \in Ranges,
                          verify(r[1], r[2]).status = "broken"
                   PROVE  LET at == verify(r[1], r[2]).at
                              rows == read(r[1], r[2])
                              earlier == {row \in rows : row.sequence < at}
                          IN  /\ earlier # {}
                              /\ ~\E row \in rows : row.sequence = at
                                                    /\ links_to(row, HeadRow(earlier))
                              /\ verify(r[1], at - 1).status = "intact"
        BY DEF BrokenAtIsFirst
      <2> DEFINE rows == read(r[1], r[2])
                 at == verify(r[1], r[2]).at
                 earlier == {row \in rows : row.sequence < at}
      <2>1. /\ \A row \in rows : ~is_altered(row)
            /\ breaks(rows) # {}
            /\ at = Min({entry.sequence : entry \in breaks(rows)})
        BY Verdict
      <2>2. /\ rows \in SUBSET table
            /\ \A row \in rows : row.sequence \in Nat /\ row.sequence \in r[1]..r[2]
        BY ReadIsTable
      <2>3. r[1] \in Nat /\ r[2] \in Nat
        BY BoundsAssumption DEF Ranges
      <2>4. /\ \E entry \in breaks(rows) : entry.sequence = at
            /\ \A entry \in breaks(rows) : at <= entry.sequence
        <3> DEFINE S == {entry.sequence : entry \in breaks(rows)}
        <3>1. breaks(rows) \subseteq rows
          BY DEF breaks
        <3>2. S \in SUBSET Nat /\ S # {}
          BY <2>1, <2>2, <3>1
        <3>3. Min(S) \in S /\ \A y \in S : Min(S) <= y
          BY <3>2, MinIsLeast
        <3> QED
          BY <2>1, <3>3
      <2>5. PICK entry \in breaks(rows) : entry.sequence = at
        BY <2>4
      <2>6. entry \in rows /\ before(rows, entry) = earlier
        BY <2>5 DEF breaks, before
      <2>7. earlier # {} /\ ~links_to(entry, HeadRow(earlier))
        BY <2>6 DEF breaks
      <2>8. \A row \in rows : row.sequence = at => row = entry
        BY <2>2, <2>5, <2>6 DEF IInv, Keyed
      <2>9. at \in Nat /\ at \in r[1]..r[2]
        BY <2>2, <2>5, <2>6
      <2>10. verify(r[1], at - 1).status = "intact"
        <3> HIDE DEF at
        <3>1. read(r[1], at - 1) = earlier
          BY <2>2, <2>3, <2>9 DEF read
        <3>2. breaks(earlier) = {}
          <4> SUFFICES ASSUME NEW x \in breaks(earlier) PROVE FALSE
            OBVIOUS
          <4>1. x \in rows /\ x.sequence < at
            BY DEF breaks
          <4>2. before(earlier, x) = before(rows, x)
            BY <2>2, <2>9, <4>1 DEF before
          <4>3. x \in breaks(rows)
            BY <4>1, <4>2 DEF breaks
          <4> QED
            BY <2>2, <2>4, <2>9, <4>1, <4>3
        <3>3. \A row \in earlier : ~is_altered(row)
          BY <2>1
        <3> QED
          BY <3>1, <3>2, <3>3, Verdict
      <2> HIDE DEF rows, at
      <2> QED
        BY <2>7, <2>8, <2>10 DEF rows, at
    <1> QED
      BY <1>1, Invariance, PTL

\* Undamaged rows of ordinary payloads read back as they were hashed.
LEMMA NothingAltered ==
    ASSUME IInv, \A p \in Payloads : p.kind \notin Unstable,
           NEW row \in table, damage = 0
    PROVE  ~is_altered(row)
    <1>1. WasWritten(row)
      BY DEF IInv
    <1>2. PICK p \in Payloads : row = Row(row.sequence, p, row.previous_hash)
      BY <1>1 DEF WasWritten
    <1>3. row.body = json_round_trip(p)
          /\ row.entry_hash
                = compute_entry_hash(row.sequence, canonical_json(p), row.previous_hash)
      BY <1>2 DEF Row
    <1> QED
      BY <1>3, FormSurvives DEF is_altered

\* In a table nobody damaged every row of a range but its first links to the one
\* before it: the row it was appended to is in the range.
LEMMA NothingBreaks ==
    ASSUME IInv, damage = 0, NEW r \in Ranges
    PROVE  breaks(read(r[1], r[2])) = {}
    <1> DEFINE rows == read(r[1], r[2])
    <1> SUFFICES ASSUME NEW entry \in breaks(rows) PROVE FALSE
      OBVIOUS
    <1>1. /\ rows \in SUBSET table
          /\ \A row \in rows : row.sequence \in Nat /\ row.sequence \in r[1]..r[2]
      BY ReadIsTable
    <1>2. r[1] \in Nat /\ r[2] \in Nat
      BY BoundsAssumption DEF Ranges
    <1>3. /\ entry \in rows
          /\ before(rows, entry) # {}
          /\ ~links_to(entry, HeadRow(before(rows, entry)))
      BY DEF breaks
    <1>4. PICK other \in rows : other.sequence < entry.sequence
      BY <1>3 DEF before
    <1>5. PICK previous \in table : links_to(entry, previous)
      <2>1. entry \in sound /\ sound = table /\ entry.sequence # 1
        <3>1. other.sequence # 0
          BY <1>1 DEF IInv, IsRow
        <3> QED
          BY <1>1, <1>3, <1>4, <3>1 DEF IInv
      <2> QED
        BY <2>1 DEF IInv, WasChained
    <1>6. previous.sequence \in Nat /\ entry.sequence = previous.sequence + 1
      BY <1>5 DEF links_to, IInv, IsRow
    <1>7. previous \in before(rows, entry)
      BY <1>1, <1>2, <1>3, <1>4, <1>6 DEF read, before
    <1>8. LET head == HeadRow(before(rows, entry))
          IN  head \in before(rows, entry) /\ previous.sequence <= head.sequence
      <2>1. before(rows, entry) \in SUBSET table
        BY <1>1 DEF before
      <2> QED
        BY <1>7, <2>1, Highest
    <1>9. HeadRow(before(rows, entry)) = previous
      <2> DEFINE head == HeadRow(before(rows, entry))
      <2>1. head \in table /\ head.sequence \in Nat /\ head.sequence < entry.sequence
        BY <1>1, <1>8 DEF before
      <2>2. head.sequence = previous.sequence
        BY <1>6, <1>8, <2>1
      <2> QED
        BY <2>1, <2>2 DEF IInv, Keyed
    <1> QED
      BY <1>3, <1>5, <1>9

\* NoFalseAlarm and StoredReadsBack, where no payload holds a float of 1e16 or more,
\* a negative zero or a dictionary whose keys are integers: an undamaged log
\* verifies over every range, from its middle too, and reading it never raises.
THEOREM UndamagedVerifies ==
    ASSUME \A p \in Payloads : p.kind \notin Unstable
    PROVE  Spec => [](NoFalseAlarm /\ StoredReadsBack)
    <1>1. IInv => NoFalseAlarm /\ StoredReadsBack
      <2> SUFFICES ASSUME IInv, damage = 0, NEW r \in Ranges
                   PROVE  /\ verify(r[1], r[2]).status = "intact"
                          /\ verify(r[1], r[2]).status # "altered"
        BY DEF NoFalseAlarm, StoredReadsBack
      <2>1. \A row \in read(r[1], r[2]) : ~is_altered(row)
        BY ReadIsTable, NothingAltered
      <2>2. breaks(read(r[1], r[2])) = {}
        BY NothingBreaks
      <2> QED
        BY <2>1, <2>2, Verdict
    <1> QED
      BY <1>1, Invariance, PTL
=============================================================================
