--------------------------- MODULE AuditLogProofs ---------------------------
(***************************************************************************)
(* Proofs about AuditLog, for any number of writers, pool size and number  *)
(* of calls, and whichever writers take the advisory lock.                 *)
(*                                                                         *)
(* That the table is a chain is not inductive.  What carries it is the     *)
(* conjunction IInv: the committed sequences are exactly 1..n (so the head *)
(* exists and the next number is new); a head that was read is still a     *)
(* committed row, perhaps no longer the last; and an uncommitted row       *)
(* follows a committed one and collides with no other row, committed or    *)
(* not, because INSERT waited for the others.                              *)
(***************************************************************************)
EXTENDS AuditLog, SequenceTheorems, TLAPS

Contiguous(n) ==
    /\ \A e \in audit_log : e.sequence \in 1..n
    /\ \A i \in 1..n : \E e \in audit_log : e.sequence = i

Numbered == \E n \in Nat : Contiguous(n)

Follows(e) ==
    \/ e.sequence = 1 /\ e.previous_hash = GENESIS_HASH
    \/ \E previous \in audit_log : links_to(e, previous)

HeadsAreRows ==
    \A w \in Writers : head[w] = {} \/ \E e \in audit_log : head[w] = {e}

RowOfState ==
    \A w \in Writers :
       /\ session[w] \in {"inserted", "committed"} => \E e : row[w] = {e}
       /\ session[w] = "orphaned" => row[w] = {} \/ \E e : row[w] = {e}
       /\ session[w] \notin {"inserted", "committed", "orphaned"} => row[w] = {}
       /\ session[w] = "committed" => row[w] \subseteq audit_log

PendingRowsFit ==
    \A w \in Writers : session[w] # "committed" =>
       \A e \in row[w] : Follows(e) /\ \A f \in audit_log : ~Conflict(e, f)

RowsApart ==
    \A v, w \in Writers : v # w =>
       \A e \in row[v], f \in row[w] : ~Conflict(e, f)

\* Which call a body belongs to, and that a call still running has neither
\* recorded its body nor raised.
BodiesAreCalls ==
    /\ \A w \in Writers : body[w].by = w /\ body[w].nth <= calls
    /\ \A w \in Writers : \A e \in row[w] : e.body = body[w]
    /\ \A e \in audit_log : e.body.nth <= calls
    /\ \A w \in Writers : \A e \in audit_log :
          e.body = body[w] => session[w] \in {"none", "committed"}
    /\ \A failure \in raised : failure.body.nth <= calls
    /\ \A w \in Writers : \A failure \in raised :
          failure.body = body[w] =>
             \/ session[w] = "none"
             \/ session[w] = "orphaned" /\ failure.cause = "connection_lost"

IInv ==
    /\ TypeOK
    /\ ChainUnbroken
    /\ Numbered
    /\ HeadsAreRows
    /\ RowOfState
    /\ PendingRowsFit
    /\ RowsApart

-----------------------------------------------------------------------------
\* Facts about entries.

\* The fields of an entry as append builds it.
LEMMA EntryFields ==
    ASSUME NEW s, NEW b, NEW p
    PROVE  /\ AuditEntry(s, b, p).sequence = s
           /\ AuditEntry(s, b, p).body = b
           /\ AuditEntry(s, b, p).previous_hash = p
           /\ AuditEntry(s, b, p).entry_hash = <<s, b, p>>
    BY DEF AuditEntry, compute_entry_hash

\* The head of a table numbered 1..n is its row n.
LEMMA HeadOfNumbered ==
    ASSUME TypeOK, NEW n \in Nat, Contiguous(n), audit_log # {}
    PROVE  /\ HeadRow(audit_log) \in audit_log
           /\ HeadRow(audit_log).sequence = n
    <1>1. n >= 1
      BY DEF Contiguous
    <1>2. PICK e \in audit_log : e.sequence = n
      BY <1>1 DEF Contiguous
    <1>3. \A other \in audit_log : other.sequence <= e.sequence
      BY <1>2 DEF Contiguous
    <1>4. /\ HeadRow(audit_log) \in audit_log
          /\ \A other \in audit_log : other.sequence <= HeadRow(audit_log).sequence
      BY <1>3 DEF HeadRow
    <1>5. QED
      BY <1>2, <1>4 DEF Contiguous

\* What a writer is about to insert is an entry that follows a committed one.
LEMMA EntryFollows ==
    ASSUME TypeOK, HeadsAreRows, NEW w \in Writers
    PROVE  IsEntry(Entry(w)) /\ Follows(Entry(w)) /\ Entry(w).body = body[w]
    <1>b. body[w] \in Bodies
      BY DEF TypeOK
    <1>1. CASE head[w] = {}
      <2>1. Entry(w) = AuditEntry(1, body[w], GENESIS_HASH)
        BY <1>1 DEF Entry, NextSequence, PreviousHash
      <2> QED
        BY <2>1, <1>b, EntryFields DEF IsEntry, Follows
    <1>2. CASE \E e \in audit_log : head[w] = {e}
      <2>1. PICK e \in audit_log : head[w] = {e}
        BY <1>2
      <2>2. (CHOOSE x \in head[w] : TRUE) = e
        BY <2>1
      <2>3. Entry(w) = AuditEntry(e.sequence + 1, body[w], e.entry_hash)
        BY <2>1, <2>2 DEF Entry, NextSequence, PreviousHash
      <2>4. e.sequence \in Nat \ {0}
        BY DEF TypeOK, IsEntry
      <2> QED
        BY <2>3, <2>4, <1>b, EntryFields DEF IsEntry, Follows, links_to
    <1>3. QED
      BY <1>1, <1>2 DEF HeadsAreRows

-----------------------------------------------------------------------------
\* The invariant holds initially, and every step preserves it.

\* The empty log.
LEMMA InitInv == Init => IInv
    <1> SUFFICES ASSUME Init PROVE IInv
      OBVIOUS
    <1>1. TypeOK
      BY CallsAssumption DEF Init, TypeOK, Bodies, Running, Pooled
    <1>2. ChainUnbroken /\ HeadsAreRows /\ RowOfState /\ PendingRowsFit /\ RowsApart
      BY DEF Init, ChainUnbroken, IsChain, HeadsAreRows, RowOfState,
             PendingRowsFit, RowsApart
    <1>3. Contiguous(0)
      BY DEF Init, Contiguous
    <1>4. QED
      BY <1>1, <1>2, <1>3 DEF IInv, Numbered

\* A step that ends w's transaction and leaves the table alone.
LEMMA EndKeepsInv ==
    ASSUME IInv, NEW w \in Writers, EndTransaction(w), UNCHANGED <<audit_log, body, calls>>,
           stored' \subseteq stored \cup row[w],
           \A failure \in raised' \ raised :
               \E cause \in Causes : failure = [body |-> body[w], cause |-> cause]
    PROVE  IInv'
    <1>1. /\ session'[w] = "none" /\ head'[w] = {} /\ row'[w] = {}
          /\ \A v \in Writers \ {w} :
                session'[v] = session[v] /\ head'[v] = head[v] /\ row'[v] = row[v]
      BY DEF IInv, TypeOK, EndTransaction
    <1>2. TypeOK'
      BY DEF IInv, EndTransaction, TypeOK, Running, Pooled, IsEntry, Bodies
    <1>3. (ChainUnbroken /\ Numbered)'
      BY DEF IInv, ChainUnbroken, Numbered, Contiguous
    <1>4. HeadsAreRows'
      BY <1>1 DEF IInv, HeadsAreRows
    <1>5. RowOfState'
      BY <1>1 DEF IInv, RowOfState
    <1>6. PendingRowsFit'
      <2> SUFFICES ASSUME NEW v \in Writers, session'[v] # "committed", NEW e \in row'[v]
                   PROVE  Follows(e)' /\ \A f \in audit_log' : ~Conflict(e, f)
        BY DEF PendingRowsFit
      <2>1. v # w /\ e \in row[v] /\ session[v] # "committed"
        BY <1>1
      <2>2. Follows(e) /\ \A f \in audit_log : ~Conflict(e, f)
        BY <2>1 DEF IInv, PendingRowsFit
      <2> QED
        BY <2>2 DEF Follows
    <1>7. RowsApart'
      BY <1>1 DEF IInv, RowsApart
    <1>8. QED
      BY <1>2, <1>3, <1>4, <1>5, <1>6, <1>7 DEF IInv

\* A step of w that leaves the table, the heads and the rows alone, and does
\* not cross an insert or a commit.
LEMMA QuietStepKeepsInv ==
    ASSUME IInv, NEW w \in Writers,
           NEW to \in {"queued", "begun", "locked", "orphaned"},
           session' = [session EXCEPT ![w] = to],
           session[w] \in {"none", "queued", "begun", "locked"} \/ to = "orphaned",
           session[w] # "committed",
           UNCHANGED <<audit_log, head, row, stored>>,
           TypeOK'
    PROVE  IInv'
    <1>1. /\ session'[w] = to
          /\ \A v \in Writers \ {w} : session'[v] = session[v]
      BY DEF IInv, TypeOK
    <1>2. (ChainUnbroken /\ Numbered /\ HeadsAreRows /\ RowsApart)'
      BY DEF IInv, ChainUnbroken, Numbered, Contiguous, HeadsAreRows, RowsApart
    <1>3. RowOfState'
      BY <1>1 DEF IInv, RowOfState
    <1>4. PendingRowsFit'
      BY <1>1 DEF IInv, PendingRowsFit, Follows
    <1>5. QED
      BY <1>2, <1>3, <1>4 DEF IInv

\* A head that is read is a row; the table is as it was.
LEMMA ReadHeadKeepsInv ==
    ASSUME IInv, NEW w \in Writers, ReadHead(w)
    PROVE  IInv'
    <1>1. /\ session[w] = "locked" /\ session'[w] = "head_read"
          /\ head'[w] = IF audit_log = {} THEN {} ELSE {HeadRow(audit_log)}
          /\ \A v \in Writers \ {w} : session'[v] = session[v] /\ head'[v] = head[v]
          /\ audit_log' = audit_log /\ row' = row /\ stored' = stored
          /\ DOMAIN head' = Writers
      BY DEF IInv, TypeOK, ReadHead
    <1>2. audit_log # {} => HeadRow(audit_log) \in audit_log
      BY HeadOfNumbered DEF IInv, Numbered
    <1>3. TypeOK'
      <2>1. \A v \in Writers : \A e \in head'[v] \cup row'[v] : IsEntry(e)
        BY <1>1, <1>2 DEF IInv, TypeOK
      <2> QED
        BY <2>1, <1>1 DEF IInv, TypeOK, ReadHead, Running, Pooled, IsEntry
    <1>4. (ChainUnbroken /\ Numbered)'
      BY <1>1 DEF IInv, ChainUnbroken, Numbered, Contiguous
    <1>5. HeadsAreRows'
      BY <1>1, <1>2 DEF IInv, HeadsAreRows
    <1>6. RowOfState'
      BY <1>1 DEF IInv, RowOfState
    <1>7. PendingRowsFit' /\ RowsApart'
      BY <1>1 DEF IInv, PendingRowsFit, RowsApart, Follows
    <1>8. QED
      BY <1>3, <1>4, <1>5, <1>6, <1>7 DEF IInv

\* The unique constraints do not care which row came first.
LEMMA ConflictIsSymmetric ==
    ASSUME NEW e, NEW f, Conflict(e, f)
    PROVE  Conflict(f, e)
    BY DEF Conflict

\* An inserted row follows the head it read, and collides with no other row.
LEMMA InsertKeepsInv ==
    ASSUME IInv, NEW w \in Writers, Insert(w)
    PROVE  IInv'
    <1>1. /\ session[w] = "head_read" /\ session'[w] = "inserted"
          /\ row'[w] = {Entry(w)}
          /\ \A v \in Writers \ {w} : session'[v] = session[v] /\ row'[v] = row[v]
          /\ audit_log' = audit_log /\ head' = head /\ stored' = stored
          /\ DOMAIN row' = Writers
      BY DEF IInv, TypeOK, Insert
    <1>2. /\ \A v \in Writers : \A e \in row[v] : ~Conflict(e, Entry(w))
          /\ \A e \in audit_log : ~Conflict(e, Entry(w))
      BY DEF Insert
    <1>3. IsEntry(Entry(w)) /\ Follows(Entry(w))
      BY EntryFollows DEF IInv
    <1>4. TypeOK'
      <2>1. \A v \in Writers : \A e \in head'[v] \cup row'[v] : IsEntry(e)
        BY <1>1, <1>3 DEF IInv, TypeOK
      <2> QED
        BY <2>1, <1>1 DEF IInv, TypeOK, Insert, Running, Pooled, IsEntry
    <1>5. (ChainUnbroken /\ Numbered /\ HeadsAreRows)'
      BY <1>1 DEF IInv, ChainUnbroken, Numbered, Contiguous, HeadsAreRows
    <1>6. RowOfState'
      BY <1>1 DEF IInv, RowOfState
    <1>7. PendingRowsFit'
      <2> SUFFICES ASSUME NEW v \in Writers, session'[v] # "committed", NEW e \in row'[v]
                   PROVE  Follows(e) /\ \A f \in audit_log : ~Conflict(e, f)
        BY <1>1 DEF PendingRowsFit, Follows
      <2>1. CASE v = w
        BY <2>1, <1>1, <1>2, <1>3, ConflictIsSymmetric
      <2>2. CASE v # w
        BY <2>2, <1>1 DEF IInv, PendingRowsFit
      <2> QED
        BY <2>1, <2>2
    <1>8. RowsApart'
      BY <1>1, <1>2, ConflictIsSymmetric DEF IInv, RowsApart
    <1>9. QED
      BY <1>4, <1>5, <1>6, <1>7, <1>8 DEF IInv

\* What a commit adds: one row, numbered n + 1, that follows a committed row.
LEMMA CommitAppends ==
    ASSUME IInv, NEW w \in Writers, Commit(w) \/ CommitLate(w), NEW n \in Nat, Contiguous(n)
    PROVE  \E e : /\ row[w] = {e} /\ audit_log' = audit_log \cup {e}
                  /\ IsEntry(e) /\ Follows(e) /\ e.sequence = n + 1
                  /\ \A f \in audit_log : ~Conflict(e, f)
                  /\ Contiguous(n + 1)'
    <1>1. PICK e : row[w] = {e}
      BY DEF IInv, RowOfState, Commit, CommitLate
    <1>2. /\ session[w] \in {"inserted", "orphaned"} /\ audit_log' = audit_log \cup {e}
      BY <1>1 DEF Commit, CommitLate
    <1>3. Follows(e) /\ \A f \in audit_log : ~Conflict(e, f)
      BY <1>1, <1>2 DEF IInv, PendingRowsFit
    <1>4. IsEntry(e) /\ e.sequence \in Nat \ {0}
      BY <1>1 DEF IInv, TypeOK, IsEntry
    <1>5. e.sequence \notin 1..n
      BY <1>3 DEF Contiguous, Conflict
    <1>6. e.sequence = n + 1
      BY <1>3, <1>4, <1>5 DEF Follows, links_to, Contiguous
    <1>7. Contiguous(n + 1)'
      BY <1>2, <1>6 DEF Contiguous
    <1>8. QED
      BY <1>1, <1>2, <1>3, <1>4, <1>6, <1>7

\* A commit extends the chain by one row, also when nobody waits for it any more.
LEMMA CommitKeepsInv ==
    ASSUME IInv, NEW w \in Writers, Commit(w) \/ CommitLate(w)
    PROVE  IInv'
    <1>1. /\ \/ session'[w] = "committed" /\ row'[w] = row[w] /\ head'[w] = head[w]
             \/ session'[w] = "none" /\ row'[w] = {} /\ head'[w] = {}
          /\ \A v \in Writers \ {w} :
                session'[v] = session[v] /\ head'[v] = head[v] /\ row'[v] = row[v]
          /\ stored' = stored
      BY DEF IInv, TypeOK, Commit, CommitLate, EndTransaction
    <1>2. PICK n \in Nat : Contiguous(n)
      BY DEF IInv, Numbered
    <1>3. PICK e : /\ row[w] = {e} /\ audit_log' = audit_log \cup {e}
                   /\ IsEntry(e) /\ Follows(e) /\ e.sequence = n + 1
                   /\ \A f \in audit_log : ~Conflict(e, f)
                   /\ Contiguous(n + 1)'
      BY <1>2, CommitAppends
    <1>4. TypeOK'
      <2>1. \A f \in audit_log' \cup stored' : IsEntry(f)
        BY <1>1, <1>3 DEF IInv, TypeOK
      <2> QED
        BY <2>1, <1>1 DEF IInv, TypeOK, Commit, CommitLate, EndTransaction, Running, Pooled, IsEntry
    <1>5. ChainUnbroken'
      <2>1. \A f, g \in audit_log' : f.sequence = g.sequence => f = g
        BY <1>3 DEF IInv, ChainUnbroken, IsChain, Conflict
      <2>2. \A f \in audit_log' : \/ f.sequence = 1 /\ f.previous_hash = GENESIS_HASH
                                  \/ \E previous \in audit_log' : links_to(f, previous)
        BY <1>3 DEF IInv, ChainUnbroken, IsChain, Follows
      <2> QED
        BY <2>1, <2>2 DEF ChainUnbroken, IsChain
    <1>6. Numbered'
      BY <1>2, <1>3 DEF Numbered
    <1>7. HeadsAreRows'
      BY <1>1, <1>3 DEF IInv, HeadsAreRows
    <1>8. RowOfState'
      BY <1>1, <1>3 DEF IInv, RowOfState
    <1>9. PendingRowsFit'
      <2> SUFFICES ASSUME NEW v \in Writers, session'[v] # "committed", NEW f \in row'[v]
                   PROVE  Follows(f)' /\ \A g \in audit_log' : ~Conflict(f, g)
        BY DEF PendingRowsFit
      <2>1. v # w /\ f \in row[v] /\ session[v] # "committed"
        BY <1>1
      <2>2. Follows(f) /\ \A g \in audit_log : ~Conflict(f, g)
        BY <2>1 DEF IInv, PendingRowsFit
      <2>3. ~Conflict(f, e)
        BY <2>1, <1>3 DEF IInv, RowsApart
      <2> QED
        BY <2>2, <2>3, <1>3 DEF Follows
    <1>10. RowsApart'
      BY <1>1 DEF IInv, RowsApart
    <1>11. QED
      BY <1>4, <1>5, <1>6, <1>7, <1>8, <1>9, <1>10 DEF IInv

\* Every step keeps the invariant.
LEMMA NextKeepsInv == IInv /\ [Next]_vars => IInv'
    <1> SUFFICES ASSUME IInv, [Next]_vars PROVE IInv'
      OBVIOUS
    <1>1. CASE UNCHANGED vars
      BY <1>1 DEF vars, IInv, TypeOK, IsEntry, ChainUnbroken, Numbered, Contiguous,
                  HeadsAreRows, RowOfState, PendingRowsFit, Follows, RowsApart
    <1>2. ASSUME NEW w \in Writers, Call(w)
          PROVE  IInv'
      <2>1. TypeOK'
        BY <1>2, CallsAssumption DEF IInv, Call, TypeOK, Running, Pooled, IsEntry, Bodies
      <2> QED
        BY <1>2, <2>1, QuietStepKeepsInv DEF Call
    <1>3. ASSUME NEW w \in Writers, Begin(w) \/ TakeLock(w) \/ SkipLock(w)
          PROVE  IInv'
      <2>1. TypeOK'
        BY <1>3 DEF IInv, Begin, TakeLock, SkipLock, TypeOK, Running, Pooled, IsEntry
      <2> QED
        BY <1>3, <2>1, QuietStepKeepsInv DEF Begin, TakeLock, SkipLock
    <1>4. ASSUME NEW w \in Writers, Disconnect(w)
          PROVE  IInv'
      <2>1. body[w] \in Bodies
        BY DEF IInv, TypeOK
      <2>2. TypeOK'
        BY <1>4, <2>1 DEF IInv, Disconnect, Raise, TypeOK, Causes, Definite, IsEntry
      <2> QED
        BY <1>4, <2>2, QuietStepKeepsInv DEF Disconnect
    <1>5. ASSUME NEW w \in Writers, ReadHead(w)
          PROVE  IInv'
      BY <1>5, ReadHeadKeepsInv
    <1>6. ASSUME NEW w \in Writers, Insert(w)
          PROVE  IInv'
      BY <1>6, InsertKeepsInv
    <1>7. ASSUME NEW w \in Writers, Commit(w) \/ CommitLate(w)
          PROVE  IInv'
      BY <1>7, CommitKeepsInv
    <1>8. ASSUME NEW w \in Writers, Return(w) \/ Reap(w)
          PROVE  IInv'
      BY <1>8, EndKeepsInv DEF Return, Reap
    <1>9. ASSUME NEW w \in Writers,
                 Refuse(w) \/ InsertFails(w) \/ Fail(w) \/ Interrupt(w) \/ LoseAnswer(w)
          PROVE  IInv'
      BY <1>9, EndKeepsInv
         DEF Refuse, InsertFails, Fail, Interrupt, LoseAnswer, Raise, Causes, Definite
    <1>10. QED
      BY <1>1, <1>2, <1>3, <1>4, <1>5, <1>6, <1>7, <1>8, <1>9
         DEF Next, Statement, Fault

\* Every reachable state satisfies the invariant the proofs rest on.
THEOREM Invariance == Spec => []IInv
    BY InitInv, NextKeepsInv, PTL DEF Spec

\* The variables keep their types: in particular every row, every row in
\* flight and every entry returned carries the hash of its own contents
\* (AuditEntry.__post_init__).
THEOREM TypeCorrect == Spec => []TypeOK
    <1>1. IInv => TypeOK
      BY DEF IInv
    <1> QED
      BY <1>1, Invariance, PTL

\* The table is one unbroken chain in every state, with no assumption on who
\* takes the advisory lock: the constraints of audit_log alone ensure it.
THEOREM ChainIsUnbroken == Spec => []ChainUnbroken
    <1>1. IInv => ChainUnbroken
      BY DEF IInv
    <1> QED
      BY <1>1, Invariance, PTL

-----------------------------------------------------------------------------
\* Answers, and steps that may never happen.

\* An entry append has returned stays committed.
THEOREM StoredIsRecorded == Spec => []StoredMeansRecorded
    <1>1. Init => StoredMeansRecorded
      BY DEF Init, StoredMeansRecorded
    <1>2. IInv /\ StoredMeansRecorded /\ [Next]_vars => StoredMeansRecorded'
      <2> SUFFICES ASSUME IInv, StoredMeansRecorded, [Next]_vars
                   PROVE  StoredMeansRecorded'
        OBVIOUS
      <2>1. ASSUME NEW w \in Writers, Return(w)
            PROVE  StoredMeansRecorded'
        BY <2>1 DEF Return, IInv, RowOfState, StoredMeansRecorded
      <2>2. CASE audit_log \subseteq audit_log' /\ UNCHANGED stored
        BY <2>2 DEF StoredMeansRecorded
      <2>3. QED
        BY <2>1, <2>2 DEF Next, vars, Statement, Fault, Call, Begin, TakeLock, SkipLock,
              ReadHead, Refuse, Insert, InsertFails, Commit, Fail, Interrupt, Disconnect,
              CommitLate, EndTransaction, Reap, LoseAnswer
    <1> QED
      BY <1>1, <1>2, Invariance, PTL DEF Spec

\* No step removes or changes a row, and new rows are numbered after old ones.
THEOREM LogIsAppendOnly == Spec => AppendOnly
    <1> DEFINE Grows == /\ audit_log \subseteq audit_log'
                        /\ \A new \in audit_log' \ audit_log : \A old \in audit_log :
                              new.sequence > old.sequence
    <1>1. IInv /\ [Next]_vars => [Grows]_vars
      <2> SUFFICES ASSUME IInv, [Next]_vars
                   PROVE  Grows
        OBVIOUS
      <2>1. ASSUME NEW w \in Writers, Commit(w) \/ CommitLate(w)
            PROVE  Grows
        <3>1. PICK n \in Nat : Contiguous(n)
          BY DEF IInv, Numbered
        <3>2. PICK e : audit_log' = audit_log \cup {e} /\ e.sequence = n + 1
          BY <2>1, <3>1, CommitAppends
        <3> QED
          BY <3>1, <3>2 DEF Contiguous
      <2>2. CASE UNCHANGED audit_log
        BY <2>2
      <2>3. QED
        BY <2>1, <2>2 DEF Next, vars, Statement, Fault, Call, Begin, TakeLock, SkipLock,
              ReadHead, Refuse, Insert, InsertFails, Return, Fail, Interrupt, Disconnect,
              Reap, LoseAnswer
    <1> QED
      BY <1>1, Invariance, PTL DEF Spec, AppendOnly

-----------------------------------------------------------------------------
\* Which decisions are in the log.

BodyInv == BodiesAreCalls /\ RecordedOnce /\ RaisedMeansNotRecorded

\* Every step keeps each decision with the call that made it.
LEMMA BodyInvNext == IInv /\ BodyInv /\ [Next]_vars => BodyInv'
    <1> SUFFICES ASSUME IInv, BodyInv, [Next]_vars PROVE BodyInv'
      OBVIOUS
    <1> USE DEF BodyInv
    <1>t. /\ \A v \in Writers : body[v] \in [by : Writers, nth : 0..MaxCalls]
          /\ calls \in Nat
          /\ \A e \in audit_log : e.body.nth \in Nat
          /\ \A failure \in raised : failure.body.nth \in Nat
      BY CallsAssumption DEF IInv, TypeOK, Bodies, IsEntry
    <1>1. CASE UNCHANGED vars
      BY <1>1 DEF vars, BodiesAreCalls, RecordedOnce, RaisedMeansNotRecorded
    <1>2. ASSUME NEW w \in Writers, Call(w)
          PROVE  BodyInv'
      <2>1. /\ calls' = calls + 1 /\ body'[w] = [by |-> w, nth |-> calls + 1]
            /\ session'[w] = "queued"
            /\ \A v \in Writers \ {w} : body'[v] = body[v] /\ session'[v] = session[v]
            /\ UNCHANGED <<audit_log, row, raised>>
            /\ row[w] = {}
        BY <1>2 DEF Call, IInv, TypeOK, RowOfState
      <2>2. BodiesAreCalls'
        BY <2>1, <1>t DEF BodiesAreCalls
      <2> QED
        BY <2>1, <2>2 DEF RecordedOnce, RaisedMeansNotRecorded
    <1>3. ASSUME NEW w \in Writers, Begin(w) \/ TakeLock(w) \/ SkipLock(w) \/ ReadHead(w)
          PROVE  BodyInv'
      <2>1. /\ session[w] \in {"queued", "begun", "locked"}
            /\ \A v \in Writers \ {w} : session'[v] = session[v]
            /\ UNCHANGED <<audit_log, row, raised, body, calls>>
        BY <1>3 DEF Begin, TakeLock, SkipLock, ReadHead, IInv, TypeOK
      <2> QED
        BY <2>1 DEF BodiesAreCalls, RecordedOnce, RaisedMeansNotRecorded
    <1>4. ASSUME NEW w \in Writers, Insert(w)
          PROVE  BodyInv'
      <2>1. /\ session[w] = "head_read" /\ row'[w] = {Entry(w)}
            /\ \A v \in Writers \ {w} : session'[v] = session[v] /\ row'[v] = row[v]
            /\ UNCHANGED <<audit_log, raised, body, calls>>
        BY <1>4 DEF Insert, IInv, TypeOK
      <2>2. Entry(w).body = body[w]
        BY EntryFollows DEF IInv
      <2> QED
        BY <2>1, <2>2 DEF BodiesAreCalls, RecordedOnce, RaisedMeansNotRecorded
    <1>5. ASSUME NEW w \in Writers, Commit(w) \/ CommitLate(w)
          PROVE  BodyInv'
      <2>1. PICK e : row[w] = {e}
        BY <1>5 DEF IInv, RowOfState, Commit, CommitLate
      <2>2. /\ \/ session[w] = "inserted" /\ session'[w] = "committed"
               \/ session[w] = "orphaned" /\ session'[w] = "none"
            /\ row'[w] \subseteq row[w]
            /\ audit_log' = audit_log \cup {e}
            /\ \A v \in Writers \ {w} : session'[v] = session[v] /\ row'[v] = row[v]
            /\ UNCHANGED <<raised, body, calls>>
        BY <1>5, <2>1 DEF Commit, CommitLate, EndTransaction, IInv, TypeOK
      <2>3. e.body = body[w] /\ e.body.nth <= calls /\ e.body.by = w
        BY <2>1 DEF BodiesAreCalls
      <2>4. BodiesAreCalls'
        BY <2>2, <2>3 DEF BodiesAreCalls
      <2>5. RecordedOnce'
        BY <2>2, <2>3 DEF BodiesAreCalls, RecordedOnce
      <2>6. RaisedMeansNotRecorded'
        BY <2>2, <2>3 DEF BodiesAreCalls, RaisedMeansNotRecorded, Definite
      <2> QED
        BY <2>4, <2>5, <2>6
    <1>6. ASSUME NEW w \in Writers, Return(w) \/ LoseAnswer(w) \/ Reap(w)
                    \/ Refuse(w) \/ InsertFails(w) \/ Fail(w) \/ Interrupt(w)
          PROVE  BodyInv'
      <2>1. /\ session'[w] = "none" /\ row'[w] = {}
            /\ \A v \in Writers \ {w} : session'[v] = session[v] /\ row'[v] = row[v]
            /\ UNCHANGED <<audit_log, body, calls>>
            /\ raised \subseteq raised'
            /\ \A failure \in raised' \ raised :
                  /\ failure.body = body[w]
                  /\ \/ failure.cause \notin Definite
                     \/ session[w] \in {"queued", "begun", "locked", "head_read", "inserted"}
        BY <1>6 DEF Return, LoseAnswer, Reap, Refuse, InsertFails, Fail, Interrupt,
              EndTransaction, Raise, IInv, TypeOK, Definite
      <2>2. BodiesAreCalls'
        BY <2>1 DEF BodiesAreCalls
      <2>3. RecordedOnce' /\ RaisedMeansNotRecorded'
        BY <2>1 DEF BodiesAreCalls, RecordedOnce, RaisedMeansNotRecorded
      <2> QED
        BY <2>2, <2>3
    <1>7. ASSUME NEW w \in Writers, Disconnect(w)
          PROVE  BodyInv'
      <2>1. /\ session'[w] = "orphaned"
            /\ session[w] \in {"begun", "locked", "head_read", "inserted"}
            /\ \A v \in Writers \ {w} : session'[v] = session[v]
            /\ UNCHANGED <<audit_log, row, body, calls>>
            /\ raised' = raised \cup {[body |-> body[w], cause |-> "connection_lost"]}
        BY <1>7 DEF Disconnect, Raise, IInv, TypeOK
      <2>2. BodiesAreCalls'
        BY <2>1 DEF BodiesAreCalls
      <2>3. RecordedOnce' /\ RaisedMeansNotRecorded'
        BY <2>1 DEF BodiesAreCalls, RecordedOnce, RaisedMeansNotRecorded, Definite
      <2> QED
        BY <2>2, <2>3
    <1>8. QED
      BY <1>1, <1>2, <1>3, <1>4, <1>5, <1>6, <1>7 DEF Next, Statement, Fault

\* So each decision stays with its call.
LEMMA BodyInvariance == Spec => []BodyInv
    <1>1. Init => BodyInv
      BY DEF Init, BodyInv, BodiesAreCalls, RecordedOnce, RaisedMeansNotRecorded
    <1> QED
      BY <1>1, BodyInvNext, Invariance, PTL DEF Spec

\* No decision is recorded twice, whatever fails and whoever skips the lock.
THEOREM EachDecisionOnce == Spec => []RecordedOnce
    <1>1. BodyInv => RecordedOnce
      BY DEF BodyInv
    <1> QED
      BY <1>1, BodyInvariance, PTL

\* A call that failed with an error of AuditEntry or of PostgreSQL is safe to
\* repeat: no COMMIT of it is under way or has taken effect.
THEOREM RaisedIsNotRecorded == Spec => []RaisedMeansNotRecorded
    <1>1. BodyInv => RaisedMeansNotRecorded
      BY DEF BodyInv
    <1> QED
      BY <1>1, BodyInvariance, PTL

-----------------------------------------------------------------------------
\* What the advisory lock adds for the writers that take it.

\* From the lock to the commit a holder is alone among those that take it, and
\* the rows its next entry could collide with are of writers that do not.
LockInv ==
    /\ \A w \in Writers \ Bypass :
          \/ session[w] \in {"locked", "head_read", "inserted"}
          \/ session[w] = "orphaned" /\ row[w] # {}
          => lock = {w}
    /\ \A w \in Writers \ Bypass : session[w] = "head_read" =>
          \A e \in audit_log : Conflict(e, Entry(w)) => e.body.by \in Bypass

\* An entry built on the current head collides with no committed row.
LEMMA CurrentHeadFits ==
    ASSUME IInv, NEW b, NEW found,
           found = IF audit_log = {} THEN {} ELSE {HeadRow(audit_log)},
           NEW e \in audit_log
    PROVE  ~Conflict(e, AuditEntry(NextSequence(found), b, PreviousHash(found)))
    <1>1. PICK n \in Nat : Contiguous(n)
      BY DEF IInv, Numbered
    <1> DEFINE h == HeadRow(audit_log)
    <1>2. h \in audit_log /\ h.sequence = n
      BY <1>1, HeadOfNumbered DEF IInv
    <1>3. NextSequence(found) = n + 1 /\ PreviousHash(found) = h.entry_hash
      <2>1. found = {h}
        OBVIOUS
      <2>2. (CHOOSE x \in found : TRUE) = h
        BY <2>1
      <2> QED
        BY <1>2, <2>1, <2>2 DEF NextSequence, PreviousHash
    <1>4. e.sequence \in 1..n /\ e.entry_hash = <<e.sequence, e.body, e.previous_hash>>
      BY <1>1, EntryFields DEF Contiguous, IInv, TypeOK, IsEntry
    <1>5. h.entry_hash = <<h.sequence, h.body, h.previous_hash>>
      BY <1>2, EntryFields DEF IInv, TypeOK, IsEntry
    <1>6. e.previous_hash # h.entry_hash
      <2>1. CASE e.previous_hash = GENESIS_HASH
        BY <2>1, <1>5 DEF GENESIS_HASH
      <2>2. ASSUME NEW p \in audit_log, links_to(e, p)
            PROVE  e.previous_hash # h.entry_hash
        <3>1. p.entry_hash = <<p.sequence, p.body, p.previous_hash>> /\ p.sequence < n
          BY <2>2, <1>1, <1>4, EntryFields DEF Contiguous, IInv, TypeOK, IsEntry, links_to
        <3> QED
          BY <3>1, <2>2, <1>2, <1>5 DEF links_to
      <2> QED
        BY <2>1, <2>2 DEF IInv, ChainUnbroken, IsChain
    <1>7. QED
      BY <1>3, <1>4, <1>6, EntryFields DEF Conflict

\* Every step keeps what a holder of the advisory lock knows.
LEMMA LockInvNext == IInv /\ BodyInv /\ LockInv /\ [Next]_vars => LockInv'
    <1> SUFFICES ASSUME IInv, BodyInv, LockInv, [Next]_vars PROVE LockInv'
      OBVIOUS
    <1>1. CASE UNCHANGED vars
      BY <1>1 DEF vars, LockInv, Entry
    <1>2. ASSUME NEW w \in Writers, Call(w) \/ Begin(w)
          PROVE  LockInv'
      <2>1. /\ session'[w] \in {"queued", "begun"}
            /\ \A v \in Writers \ {w} : session'[v] = session[v] /\ body'[v] = body[v]
            /\ UNCHANGED <<audit_log, row, head, lock>>
        BY <1>2 DEF Call, Begin, IInv, TypeOK
      <2> QED
        BY <2>1 DEF LockInv, Entry
    <1>3. ASSUME NEW w \in Writers, TakeLock(w)
          PROVE  LockInv'
      <2>1. /\ lock = {} /\ lock' = {w} /\ session'[w] = "locked"
            /\ \A v \in Writers \ {w} : session'[v] = session[v]
            /\ UNCHANGED <<audit_log, row, head, body>>
        BY <1>3 DEF TakeLock, LockIsFree, IInv, TypeOK
      <2> QED
        BY <2>1 DEF LockInv, Entry
    <1>4. ASSUME NEW w \in Writers, SkipLock(w)
          PROVE  LockInv'
      <2>1. /\ w \in Bypass
            /\ \A v \in Writers \ {w} : session'[v] = session[v]
            /\ UNCHANGED <<audit_log, row, head, body, lock>>
        BY <1>4 DEF SkipLock, IInv, TypeOK
      <2> QED
        BY <2>1 DEF LockInv, Entry
    <1>5. ASSUME NEW w \in Writers, ReadHead(w)
          PROVE  LockInv'
      <2>1. /\ session[w] = "locked" /\ session'[w] = "head_read"
            /\ head'[w] = IF audit_log = {} THEN {} ELSE {HeadRow(audit_log)}
            /\ \A v \in Writers \ {w} : session'[v] = session[v] /\ head'[v] = head[v]
            /\ UNCHANGED <<audit_log, row, lock, body>>
        BY <1>5 DEF ReadHead, IInv, TypeOK
      <2>2. \A e \in audit_log : ~Conflict(e, Entry(w)')
        BY <2>1, CurrentHeadFits DEF Entry
      <2> QED
        BY <2>1, <2>2 DEF LockInv, Entry
    <1>6. ASSUME NEW w \in Writers, Insert(w)
          PROVE  LockInv'
      <2>1. /\ session[w] = "head_read" /\ session'[w] = "inserted"
            /\ \A v \in Writers \ {w} : session'[v] = session[v] /\ row'[v] = row[v]
            /\ UNCHANGED <<audit_log, head, lock, body>>
        BY <1>6 DEF Insert, IInv, TypeOK
      <2> QED
        BY <2>1 DEF LockInv, Entry
    <1>7. ASSUME NEW w \in Writers, Commit(w) \/ CommitLate(w)
          PROVE  LockInv'
      <2>1. /\ \/ session[w] = "inserted"
               \/ session[w] = "orphaned" /\ row[w] # {}
            /\ session'[w] \in {"committed", "none"}
            /\ \A v \in Writers \ {w} :
                  session'[v] = session[v] /\ row'[v] = row[v] /\ head'[v] = head[v]
            /\ audit_log' = audit_log \cup row[w]
            /\ lock' = lock \ {w}
            /\ UNCHANGED body
        BY <1>7 DEF Commit, CommitLate, EndTransaction, IInv, TypeOK
      <2>2. \A e \in row[w] : e.body.by = w
        BY DEF BodyInv, BodiesAreCalls
      <2>3. CASE w \in Bypass
        BY <2>1, <2>2, <2>3 DEF LockInv, Entry
      <2>4. CASE w \notin Bypass
        <3>1. \A v \in (Writers \ Bypass) \ {w} :
                 /\ session[v] \notin {"locked", "head_read", "inserted"}
                 /\ session[v] = "orphaned" => row[v] = {}
          BY <2>1, <2>4 DEF LockInv
        <3> QED
          BY <2>1, <3>1 DEF LockInv
      <2> QED
        BY <2>3, <2>4
    <1>8. ASSUME NEW w \in Writers, Disconnect(w)
          PROVE  LockInv'
      <2>1. /\ session[w] \in {"begun", "locked", "head_read", "inserted"}
            /\ session'[w] = "orphaned"
            /\ \A v \in Writers \ {w} : session'[v] = session[v]
            /\ UNCHANGED <<audit_log, row, head, lock, body>>
            /\ session[w] = "begun" => row[w] = {}
        BY <1>8 DEF Disconnect, IInv, TypeOK, RowOfState
      <2> QED
        BY <2>1 DEF LockInv, Entry
    <1>9. ASSUME NEW w \in Writers, EndTransaction(w), UNCHANGED <<audit_log, body>>
          PROVE  LockInv'
      <2>1. /\ session'[w] = "none" /\ row'[w] = {} /\ lock' = lock \ {w}
            /\ \A v \in Writers \ {w} :
                  session'[v] = session[v] /\ row'[v] = row[v] /\ head'[v] = head[v]
        BY <1>9 DEF EndTransaction, IInv, TypeOK
      <2> QED
        BY <2>1, <1>9 DEF LockInv, Entry
    <1>10. QED
      BY <1>1, <1>2, <1>3, <1>4, <1>5, <1>6, <1>7, <1>8, <1>9
         DEF Next, Statement, Fault, Refuse, InsertFails, Return, Fail, Interrupt,
             Reap, LoseAnswer

\* So it is with every holder of the lock.
LEMMA LockInvariance == Spec => []LockInv
    <1>1. Init => LockInv
      BY DEF Init, LockInv
    <1> QED
      BY <1>1, LockInvNext, Invariance, BodyInvariance, PTL DEF Spec

\* Whoever skips the lock, those that take it never meet each other's rows:
\* UniqueViolation cannot be the outcome of ordinary concurrency.
THEOREM LockKeepsApart == Spec => []LockPreventsCollision
    <1>1. IInv /\ BodyInv /\ LockInv => LockPreventsCollision
      <2> SUFFICES ASSUME IInv, BodyInv, LockInv,
                          NEW w \in Writers \ Bypass, session[w] = "head_read"
                   PROVE  /\ \A e \in audit_log : Conflict(e, Entry(w)) => e.body.by \in Bypass
                          /\ \A v \in Writers \ Bypass : \A e \in row[v] : ~Conflict(e, Entry(w))
        BY DEF LockPreventsCollision
      <2>1. ASSUME NEW v \in Writers \ Bypass, NEW e \in row[v]
            PROVE  ~Conflict(e, Entry(w))
        <3>1. session[v] = "committed"
          BY DEF LockInv, IInv, RowOfState
        <3>2. e \in audit_log /\ e.body.by = v
          BY <3>1 DEF IInv, RowOfState, BodyInv, BodiesAreCalls
        <3> QED
          BY <3>2 DEF LockInv
      <2> QED
        BY <2>1 DEF LockInv
    <1> QED
      BY <1>1, LockInvariance, Invariance, BodyInvariance, PTL

-----------------------------------------------------------------------------
\* The table, the sessions and the faults implement the abstract ledger: the
\* commit is the instant at which a decision is recorded.  A COMMIT in doubt still
\* holds the lock, so no other holder's overtakes it.

\* Contiguous rows read as a ledger.
LEMMA LedgerOfNumbered ==
    ASSUME IInv, NEW n \in Nat, Contiguous(n)
    PROVE  /\ LedgerView = [i \in 1..n |-> (CHOOSE e \in audit_log : e.sequence = i).body]
           /\ Len(LedgerView) = n
           /\ \A e \in audit_log : e.sequence \in 1..n /\ LedgerView[e.sequence] = e.body
    <1>1. LedgerLength = n
      <2>1. CASE audit_log = {}
        <3>1. n = 0
          BY <2>1 DEF Contiguous
        <3> QED
          BY <2>1, <3>1 DEF LedgerLength
      <2>2. CASE audit_log # {}
        BY <2>2, HeadOfNumbered DEF LedgerLength, IInv
      <2> QED
        BY <2>1, <2>2
    <1>2. LedgerView = [i \in 1..n |-> (CHOOSE e \in audit_log : e.sequence = i).body]
      BY <1>1 DEF LedgerView
    <1>3. ASSUME NEW e \in audit_log
          PROVE  e.sequence \in 1..n /\ LedgerView[e.sequence] = e.body
      <2>1. e.sequence \in 1..n
        BY DEF Contiguous
      <2>2. (CHOOSE f \in audit_log : f.sequence = e.sequence) = e
        BY DEF IInv, ChainUnbroken, IsChain
      <2> QED
        BY <2>1, <2>2, <1>2
    <1>4. Len(LedgerView) = n
      BY <1>2
    <1> QED
      BY <1>2, <1>3, <1>4

\* The same, of the next state.
LedgerIs(n) ==
    /\ LedgerView = [i \in 1..n |-> (CHOOSE e \in audit_log : e.sequence = i).body]
    /\ \A e \in audit_log : LedgerView[e.sequence] = e.body

\* The same, of the next state.
LEMMA LedgerOfNext == (\A n \in Nat : IInv /\ Contiguous(n) => LedgerIs(n))'
    <1>1. \A n \in Nat : IInv /\ Contiguous(n) => LedgerIs(n)
      BY LedgerOfNumbered DEF LedgerIs
    <1> QED
      BY <1>1, PTL

\* The empty table is the empty ledger.
LEMMA LedgerInit == Init => Ledger!Init
    <1> SUFFICES ASSUME Init PROVE Ledger!Init
      OBVIOUS
    <1>1. Contiguous(0) /\ IInv
      BY InitInv DEF Init, Contiguous
    <1>2. LedgerView = <<>>
      BY <1>1, LedgerOfNumbered
    <1>3. CallView = [w \in Writers |-> "none"] /\ AnswersView = {}
      BY DEF Init, CallView, AnswersView
    <1>4. body \in [Writers -> Bodies]
      BY <1>1 DEF IInv, TypeOK
    <1> QED
      BY <1>2, <1>3, <1>4 DEF Ledger!Init

\* How a step of one writer shows in the callers' views.
LEMMA CallViewStep ==
    ASSUME IInv, NEW w \in Writers, NEW to, session' = [session EXCEPT ![w] = to],
           \A v \in Writers \ {w} : row'[v] = row[v]
    PROVE  CallView' = [CallView EXCEPT ![w] =
               CASE to = "none" -> "none"
                 [] to = "orphaned" -> IF row'[w] = {} THEN "none" ELSE "doubtful"
                 [] to = "committed" -> "recorded"
                 [] OTHER -> "open"]
    BY DEF CallView, IInv, TypeOK

\* A commit appends the call's decision to the ledger, whenever it takes effect.
LEMMA LedgerGrows ==
    ASSUME IInv, BodyInv, [Next]_vars, NEW w \in Writers, Commit(w) \/ CommitLate(w)
    PROVE  LedgerView' = Append(LedgerView, body[w])
    <1>a. PICK n \in Nat : Contiguous(n)
      BY DEF IInv, Numbered
    <1>b. PICK e : /\ row[w] = {e} /\ audit_log' = audit_log \cup {e}
                   /\ e.sequence = n + 1 /\ Contiguous(n + 1)'
      BY <1>a, CommitAppends
    <1>c. e.body = body[w]
      BY <1>b DEF BodyInv, BodiesAreCalls
    <1>d. IInv'
      BY NextKeepsInv
    <1>1. /\ LedgerView = [i \in 1..n |->
                 (CHOOSE f \in audit_log : f.sequence = i).body]
          /\ Len(LedgerView) = n
          /\ \A f \in audit_log : LedgerView[f.sequence] = f.body
      BY <1>a, LedgerOfNumbered
    <1>2. /\ LedgerView' = [i \in 1..(n + 1) |->
                 (CHOOSE f \in audit_log' : f.sequence = i).body]
          /\ \A f \in audit_log' : (LedgerView')[f.sequence] = f.body
      BY <1>b, <1>d, LedgerOfNext DEF LedgerIs
    <1>3. ASSUME NEW i \in 1..n
          PROVE  (LedgerView')[i] = LedgerView[i]
      <2>1. PICK f \in audit_log : f.sequence = i
        BY <1>a DEF Contiguous
      <2> QED
        BY <2>1, <1>1, <1>2, <1>b
    <1>4. (LedgerView')[n + 1] = body[w]
      BY <1>2, <1>b, <1>c
    <1>5. body[w] \in Bodies /\ LedgerView \in Seq(Bodies)
      <2>1. \A e2 \in audit_log : e2.body \in Bodies
        BY DEF IInv, TypeOK, IsEntry
      <2>2. \A i \in 1..n : (CHOOSE f \in audit_log : f.sequence = i) \in audit_log
        BY <1>a DEF Contiguous
      <2>3. LedgerView \in [1..n -> Bodies]
        BY <1>1, <2>1, <2>2
      <2> QED
        BY <2>3 DEF IInv, TypeOK
    <1>6. /\ Append(LedgerView, body[w]) \in Seq(Bodies)
          /\ Len(Append(LedgerView, body[w])) = n + 1
          /\ \A i \in 1..n : Append(LedgerView, body[w])[i] = LedgerView[i]
          /\ Append(LedgerView, body[w])[n + 1] = body[w]
      <2>1. Len(LedgerView) = n
        BY <1>1
      <2> QED
        BY <2>1, <1>5, AppendProperties
    <1>7. LedgerView' \in Seq(Bodies) /\ Len(LedgerView') = n + 1
      <2>1. \A i \in 1..n : LedgerView[i] \in Bodies
        BY <1>1, <1>5
      <2>2. \A i \in 1..(n + 1) : (LedgerView')[i] \in Bodies
        BY <2>1, <1>3, <1>4, <1>5
      <2>3. LedgerView' \in [1..(n + 1) -> Bodies]
        BY <2>2, <1>2
      <2> QED
        BY <2>3, <1>2
    <1>8. \A i \in 1..(n + 1) : (LedgerView')[i] = Append(LedgerView, body[w])[i]
      BY <1>3, <1>4, <1>6
    <1> QED
      BY <1>6, <1>7, <1>8, SeqEqual

\* Every step of the log is a step of the ledger, or none.
LEMMA LedgerStep ==
    IInv /\ BodyInv /\ LockInv /\ [Next]_vars => [Ledger!Next]_(Ledger!vars)
    <1> SUFFICES ASSUME IInv, BodyInv, LockInv, [Next]_vars
                 PROVE  Ledger!Next \/ UNCHANGED Ledger!vars
      OBVIOUS
    <1>v. UNCHANGED audit_log => UNCHANGED LedgerView
      BY DEF LedgerView, LedgerLength
    <1>s. UNCHANGED stored => UNCHANGED AnswersView
      BY DEF AnswersView
    <1>1. CASE UNCHANGED vars
      BY <1>1, <1>v, <1>s DEF vars, CallView, Ledger!vars
    <1>2. ASSUME NEW w \in Writers, Call(w)
          PROVE  Ledger!Call(w)
      <2>1. CallView[w] = "none" /\ CallView' = [CallView EXCEPT ![w] = "open"]
        BY <1>2, CallViewStep DEF Call, CallView, IInv, TypeOK
      <2>2. [by |-> w, nth |-> calls + 1] \in Bodies
        BY <1>2, CallsAssumption DEF Call, Bodies, IInv, TypeOK
      <2> QED
        BY <1>2, <1>v, <1>s, <2>1, <2>2 DEF Call, Ledger!Call
    <1>3. ASSUME NEW w \in Writers,
                 Begin(w) \/ TakeLock(w) \/ SkipLock(w) \/ ReadHead(w) \/ Insert(w)
          PROVE  UNCHANGED Ledger!vars
      <2>1. /\ CallView[w] = "open" /\ CallView' = [CallView EXCEPT ![w] = "open"]
            /\ CallView = [v \in Writers |-> CallView[v]]
        <3>1. /\ session[w] \in {"queued", "begun", "locked", "head_read"}
              /\ \A v \in Writers \ {w} : row'[v] = row[v]
          BY <1>3 DEF Begin, TakeLock, SkipLock, ReadHead, Insert, IInv, TypeOK
        <3>2. \E to \in {"begun", "locked", "head_read", "inserted"} :
                 session' = [session EXCEPT ![w] = to]
          BY <1>3 DEF Begin, TakeLock, SkipLock, ReadHead, Insert
        <3>3. CallView[w] = "open" /\ CallView = [v \in Writers |-> CallView[v]]
          BY <3>1 DEF CallView
        <3>4. CallView' = [CallView EXCEPT ![w] = "open"]
          BY <3>1, <3>2, CallViewStep
        <3> QED
          BY <3>3, <3>4
      <2>2. UNCHANGED <<audit_log, body, stored>>
        BY <1>3 DEF Begin, TakeLock, SkipLock, ReadHead, Insert
      <2> QED
        BY <2>1, <2>2, <1>v, <1>s DEF Ledger!vars
    <1>4. ASSUME NEW w \in Writers, Commit(w)
          PROVE  Ledger!Record(w)
      <2>1. CallView[w] = "open" /\ CallView' = [CallView EXCEPT ![w] = "recorded"]
        BY <1>4, CallViewStep DEF Commit, CallView, IInv, TypeOK
      <2>2. ASSUME w \in Writers \ Bypass, NEW v \in Writers \ Bypass, CallView[v] = "doubtful"
            PROVE  FALSE
        <3>1. session[v] = "orphaned" /\ row[v] # {}
          BY <2>2 DEF CallView
        <3> QED
          BY <1>4, <2>2, <3>1 DEF Commit, LockInv
      <2>3. LedgerView' = Append(LedgerView, body[w])
        BY <1>4, LedgerGrows
      <2> QED
        BY <1>4, <2>1, <2>2, <2>3, <1>s DEF Commit, Ledger!Record
    <1>9. ASSUME NEW w \in Writers, CommitLate(w)
          PROVE  Ledger!RecordLate(w)
      <2>1. CallView[w] = "doubtful" /\ CallView' = [CallView EXCEPT ![w] = "none"]
        BY <1>9, CallViewStep DEF CommitLate, EndTransaction, CallView, IInv, TypeOK
      <2>2. LedgerView' = Append(LedgerView, body[w])
        BY <1>9, LedgerGrows
      <2> QED
        BY <1>9, <2>1, <2>2, <1>s DEF CommitLate, Ledger!RecordLate
    <1>5. ASSUME NEW w \in Writers, Return(w)
          PROVE  Ledger!Answer(w)
      <2>1. CallView[w] = "recorded" /\ CallView' = [CallView EXCEPT ![w] = "none"]
        BY <1>5, CallViewStep DEF Return, EndTransaction, CallView, IInv, TypeOK
      <2>2. PICK e : row[w] = {e} /\ e \in audit_log
        BY <1>5 DEF Return, IInv, RowOfState
      <2>3. e.body = body[w]
        BY <2>2 DEF BodyInv, BodiesAreCalls
      <2>4. /\ e.sequence \in 1..Len(LedgerView)
            /\ LedgerView[e.sequence] = body[w]
        BY <2>2, <2>3, LedgerOfNumbered DEF IInv, Numbered
      <2>5. AnswersView' = AnswersView \cup {[sequence |-> e.sequence, body |-> body[w]]}
        BY <1>5, <2>2, <2>3 DEF Return, AnswersView
      <2> QED
        BY <1>5, <2>1, <2>4, <2>5, <1>v DEF Return, Ledger!Answer
    <1>6. ASSUME NEW w \in Writers,
                 \/ Refuse(w) \/ InsertFails(w) \/ Fail(w) \/ Interrupt(w)
                 \/ LoseAnswer(w) \/ Disconnect(w)
          PROVE  Ledger!Raise(w)
      <2>1. \/ /\ CallView[w] \in {"open", "recorded"}
               /\ CallView' = [CallView EXCEPT ![w] = "none"]
            \/ CallView[w] = "open" /\ CallView' = [CallView EXCEPT ![w] = "doubtful"]
        <3>1. CASE Disconnect(w)
          BY <3>1, CallViewStep DEF Disconnect, CallView, IInv, TypeOK
        <3>2. CASE ~Disconnect(w)
          BY <1>6, <3>2, CallViewStep
             DEF Refuse, InsertFails, Fail, Interrupt, LoseAnswer, EndTransaction, CallView, IInv, TypeOK,
                 Running, Pooled
        <3> QED
          BY <3>1, <3>2
      <2>2. UNCHANGED <<audit_log, body, stored>>
        BY <1>6 DEF Refuse, InsertFails, Fail, Interrupt, LoseAnswer, Disconnect
      <2> QED
        BY <2>1, <2>2, <1>v, <1>s DEF Ledger!Raise
    <1>7. ASSUME NEW w \in Writers, Reap(w)
          PROVE  Ledger!Forget(w) \/ UNCHANGED Ledger!vars
      <2>1. /\ CallView[w] \in {"none", "doubtful"}
            /\ CallView' = [CallView EXCEPT ![w] = "none"]
            /\ CallView = [v \in Writers |-> CallView[v]]
        BY <1>7, CallViewStep DEF Reap, EndTransaction, CallView, IInv, TypeOK
      <2> QED
        BY <1>7, <2>1, <1>v, <1>s DEF Reap, Ledger!Forget, Ledger!vars
    <1>8. QED
      BY <1>1, <1>2, <1>3, <1>4, <1>5, <1>6, <1>7, <1>9
         DEF Next, Statement, Fault, Ledger!Next

\* The detailed specification implements the abstract one.
THEOREM Refinement == Spec => ImplementsLedger
    BY LedgerInit, LedgerStep, Invariance, BodyInvariance, LockInvariance, PTL
       DEF Spec, ImplementsLedger, Ledger!Spec
=============================================================================
