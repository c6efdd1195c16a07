----------------------------- MODULE AuditChain -----------------------------
(***************************************************************************)
(* The entries of the audit log and the hash that chains them              *)
(* (persistence/audit.py).  SHA-256 is modelled as an injective function:  *)
(* a digest is the tuple of what was hashed.  The columns between the      *)
(* sequence number and the previous hash (time, actor, action, payload...) *)
(* are one value, the body of the entry.                                   *)
(*                                                                         *)
(* What is inside the body is left out: that the code joins the columns    *)
(* with a separator, which a text may contain, and hashes a missing        *)
(* instrument as an empty text, so that two bodies may hash to one digest. *)
(* The body stands for that joined text.                                   *)
(***************************************************************************)
EXTENDS Naturals

GENESIS_HASH == <<>>

compute_entry_hash(sequence, body, previous_hash) ==
    <<sequence, body, previous_hash>>

\* An entry built without a stored hash computes its own.
AuditEntry(sequence, body, previous_hash) ==
    [sequence      |-> sequence,
     body          |-> body,
     previous_hash |-> previous_hash,
     entry_hash    |-> compute_entry_hash(sequence, body, previous_hash)]

links_to(entry, previous) ==
    /\ entry.previous_hash = previous.entry_hash
    /\ entry.sequence = previous.sequence + 1

\* ORDER BY sequence DESC LIMIT 1, on a table that has rows.
HeadRow(table) ==
    CHOOSE row \in table : \A other \in table : other.sequence <= row.sequence

\* A table that is one unbroken chain: every entry but one that carries the
\* genesis hash and sequence 1 links to another, no two entries share a
\* sequence, so no two share a predecessor.
IsChain(table) ==
    /\ \A e, f \in table : e.sequence = f.sequence => e = f
    /\ \A e \in table :
          \/ e.sequence = 1 /\ e.previous_hash = GENESIS_HASH
          \/ \E previous \in table : links_to(e, previous)
=============================================================================
