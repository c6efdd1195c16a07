------------------------------ MODULE AuditLog ------------------------------
(***************************************************************************)
(* AuditLog.append (persistence/audit.py) run by several callers at once   *)
(* against one PostgreSQL table.  A call takes a pooled connection, opens  *)
(* a transaction, takes the advisory lock, reads the head, builds the next *)
(* entry, inserts it and commits.  Every await is a separate step, and any *)
(* of them may fail.                                                       *)
(*                                                                         *)
(* The server's session is kept apart from the call: when the connection   *)
(* breaks the caller is told at once, while the session keeps its lock and *)
(* its uncommitted row until the server notices, and a COMMIT already sent *)
(* may still take effect.  The answer to a COMMIT may be lost after the    *)
(* commit took effect, and a timeout or a cancellation may strike then.    *)
(*                                                                         *)
(* The writers in Bypass run the same statements without the lock: the     *)
(* migration says its constraints keep the chain whole even then.          *)
(***************************************************************************)
EXTENDS AuditChain, FiniteSets

CONSTANTS Writers,    \* the coroutines and processes that append
          Bypass,     \* those that do not take the advisory lock
          MaxPool,    \* max_pool_size of the connection pool
          Unsound,    \* the calls whose arguments AuditEntry refuses
          MaxCalls    \* bound: how often append is called

ASSUME BypassAssumption == Bypass \subseteq Writers
ASSUME PoolAssumption == MaxPool \in Nat \ {0}
ASSUME CallsAssumption == MaxCalls \in Nat /\ Unsound \subseteq 1..MaxCalls

VARIABLES audit_log,  \* the committed rows
          lock,       \* the sessions that hold the advisory lock
          session,    \* session[w]: how far w's transaction has come
          body,       \* body[w]: what w's call records
          head,       \* head[w]: {} or {the row w's SELECT returned}
          row,        \* row[w]: {} or {the row w has inserted}
          calls,      \* how many calls were made
          stored,     \* the entries append has returned
          raised      \* the bodies whose append raised, and why

vars == <<audit_log, lock, session, body, head, row, calls, stored, raised>>

\* What one call records.  AuditEntry refuses a blank field, and a payload that
\* is no JSON.
Bodies == [by : Writers, nth : 0..MaxCalls]
IsSound(b) == b.nth \notin Unsound

\* Why an append raises.  The first three are errors of AuditEntry and of
\* PostgreSQL: they are answers to the statement that failed.  A timeout, a
\* cancellation or a broken connection is no answer.
Definite == {"refused", "unique_violation", "failed"}
Causes == Definite \cup {"interrupted", "connection_lost"}

\* Sessions that occupy a connection of the pool, and those whose client is
\* still in append.  A broken connection has left the pool.
Pooled == {"begun", "locked", "head_read", "inserted", "committed"}
Running == Pooled \cup {"queued"}

IsEntry(e) ==
    /\ e.sequence \in Nat \ {0}
    /\ e.body \in Bodies
    /\ e = AuditEntry(e.sequence, e.body, e.previous_hash)

TypeOK ==
    /\ \A e \in audit_log \cup stored : IsEntry(e)
    /\ lock \subseteq Writers
    /\ session \in [Writers -> Running \cup {"none", "orphaned"}]
    /\ body \in [Writers -> Bodies]
    /\ DOMAIN head = Writers /\ DOMAIN row = Writers
    /\ \A w \in Writers : \A e \in head[w] \cup row[w] : IsEntry(e)
    /\ calls \in 0..MaxCalls
    /\ raised \subseteq [body : Bodies, cause : Causes]

Init ==
    /\ audit_log = {}
    /\ lock = {}
    /\ session = [w \in Writers |-> "none"]
    /\ body = [w \in Writers |-> [by |-> w, nth |-> 0]]
    /\ head = [w \in Writers |-> {}]
    /\ row = [w \in Writers |-> {}]
    /\ calls = 0
    /\ stored = {}
    /\ raised = {}

-----------------------------------------------------------------------------
\* The statements of append.

\* Mutant: counts from 0.
NextSequenceFromZero(found) ==
    IF found = {} THEN 0 ELSE (CHOOSE e \in found : TRUE).sequence + 1

NextSequence(found) ==
    IF found = {} THEN 1 ELSE (CHOOSE e \in found : TRUE).sequence + 1

PreviousHash(found) ==
    IF found = {} THEN GENESIS_HASH ELSE (CHOOSE e \in found : TRUE).entry_hash

Entry(w) == AuditEntry(NextSequence(head[w]), body[w], PreviousHash(head[w]))

\* Mutant: a table without its constraints.
NoConflict(e, f) == FALSE

\* The primary key, and the UNIQUE constraints of audit_log.
Conflict(e, f) ==
    \/ e.sequence = f.sequence
    \/ e.entry_hash = f.entry_hash
    \/ e.previous_hash = f.previous_hash

\* Mutant: a lock of the session, not of the transaction, outlives a rollback.
KeepLock(w) ==
    /\ session' = [session EXCEPT ![w] = "none"]
    /\ UNCHANGED lock
    /\ head' = [head EXCEPT ![w] = {}]
    /\ row' = [row EXCEPT ![w] = {}]

\* The end of w's transaction: the lock and an uncommitted row go with it.
EndTransaction(w) ==
    /\ session' = [session EXCEPT ![w] = "none"]
    /\ lock' = lock \ {w}
    /\ head' = [head EXCEPT ![w] = {}]
    /\ row' = [row EXCEPT ![w] = {}]

Raise(w, cause) == raised' = raised \cup {[body |-> body[w], cause |-> cause]}

\* A caller enters append, and waits for a connection of the pool.
Call(w) ==
    /\ session[w] = "none"
    /\ calls < MaxCalls
    /\ session' = [session EXCEPT ![w] = "queued"]
    /\ calls' = calls + 1
    /\ body' = [body EXCEPT ![w] = [by |-> w, nth |-> calls + 1]]
    /\ UNCHANGED <<audit_log, lock, head, row, stored, raised>>

\* pool.acquire returns, BEGIN.
Begin(w) ==
    /\ session[w] = "queued"
    /\ Cardinality({v \in Writers : session[v] \in Pooled}) < MaxPool
    /\ session' = [session EXCEPT ![w] = "begun"]
    /\ UNCHANGED <<audit_log, lock, body, head, row, calls, stored, raised>>

\* Mutant: a shared lock.
SharedLock == TRUE

LockIsFree == lock = {}

\* SELECT pg_advisory_xact_lock(AUDIT_LOCK_KEY)
TakeLock(w) ==
    /\ session[w] = "begun"
    /\ w \notin Bypass
    /\ LockIsFree
    /\ lock' = lock \cup {w}
    /\ session' = [session EXCEPT ![w] = "locked"]
    /\ UNCHANGED <<audit_log, body, head, row, calls, stored, raised>>

SkipLock(w) ==
    /\ session[w] = "begun"
    /\ w \in Bypass
    /\ session' = [session EXCEPT ![w] = "locked"]
    /\ UNCHANGED <<audit_log, lock, body, head, row, calls, stored, raised>>

\* The SELECT sees the rows committed when it starts, and no others.
ReadHead(w) ==
    /\ session[w] = "locked"
    /\ head' = [head EXCEPT ![w] =
                   IF audit_log = {} THEN {} ELSE {HeadRow(audit_log)}]
    /\ session' = [session EXCEPT ![w] = "head_read"]
    /\ UNCHANGED <<audit_log, lock, body, row, calls, stored, raised>>

\* AuditEntry raises, and the transaction block rolls back.
Refuse(w) ==
    /\ session[w] = "head_read"
    /\ ~IsSound(body[w])
    /\ EndTransaction(w)
    /\ Raise(w, "refused")
    /\ UNCHANGED <<audit_log, body, calls, stored>>

\* INSERT waits while another transaction holds an uncommitted row with one of
\* its keys, fails if such a row is committed, and otherwise adds its own.
Insert(w) ==
    /\ session[w] = "head_read"
    /\ IsSound(body[w])
    /\ \A v \in Writers : \A e \in row[v] : ~Conflict(e, Entry(w))
    /\ \A e \in audit_log : ~Conflict(e, Entry(w))
    /\ row' = [row EXCEPT ![w] = {Entry(w)}]
    /\ session' = [session EXCEPT ![w] = "inserted"]
    /\ UNCHANGED <<audit_log, lock, body, head, calls, stored, raised>>

InsertFails(w) ==
    /\ session[w] = "head_read"
    /\ IsSound(body[w])
    /\ \E e \in audit_log : Conflict(e, Entry(w))
    /\ EndTransaction(w)
    /\ Raise(w, "unique_violation")
    /\ UNCHANGED <<audit_log, body, calls, stored>>

\* The block's exit sends COMMIT once INSERT has returned.  It takes effect on
\* the server: the row becomes visible and the transaction's lock is released.
\* The client has no answer yet.
Commit(w) ==
    /\ session[w] = "inserted"
    /\ audit_log' = audit_log \cup row[w]
    /\ lock' = lock \ {w}
    /\ session' = [session EXCEPT ![w] = "committed"]
    /\ UNCHANGED <<body, head, row, calls, stored, raised>>

\* Mutant: append returns from inside the transaction block.
ReturnBeforeCommit(w) ==
    /\ session[w] \in {"inserted", "committed"}
    /\ stored' = stored \cup row[w]
    /\ EndTransaction(w)
    /\ UNCHANGED <<audit_log, body, calls, raised>>

\* Mutant: append reads the head again for its answer.
ReturnHead(w) ==
    /\ session[w] = "committed"
    /\ stored' = stored \cup {HeadRow(audit_log)}
    /\ EndTransaction(w)
    /\ UNCHANGED <<audit_log, body, calls, raised>>

\* append returns the stored entry.
Return(w) ==
    /\ session[w] = "committed"
    /\ stored' = stored \cup row[w]
    /\ EndTransaction(w)
    /\ UNCHANGED <<audit_log, body, calls, raised>>

-----------------------------------------------------------------------------
\* What can go wrong around the statements.

\* PostgreSQL answers a statement with an error, COMMIT included: the block's
\* exit rolls back before the exception leaves append.
Fail(w) ==
    /\ session[w] \in {"queued", "begun", "locked", "head_read", "inserted"}
    /\ EndTransaction(w)
    /\ Raise(w, "failed")
    /\ UNCHANGED <<audit_log, body, calls, stored>>

\* Mutant: append starts over when a statement times out.
RetryInterrupted(w) ==
    /\ session[w] \in Running
    /\ session' = [session EXCEPT ![w] = "queued"]
    /\ lock' = lock \ {w}
    /\ head' = [head EXCEPT ![w] = {}]
    /\ row' = [row EXCEPT ![w] = {}]
    /\ UNCHANGED <<audit_log, body, calls, stored, raised>>

\* A timeout (command_timeout bounds COMMIT too) or a cancellation, with the
\* connection still usable: the statement under way is cancelled and the
\* transaction rolled back, unless the commit has taken effect by then.
Interrupt(w) ==
    /\ session[w] \in Running
    /\ EndTransaction(w)
    /\ Raise(w, "interrupted")
    /\ UNCHANGED <<audit_log, body, calls, stored>>

\* The connection breaks before a COMMIT takes effect: the caller gets an
\* exception, the session stays open on the server.
Disconnect(w) ==
    /\ session[w] \in {"begun", "locked", "head_read", "inserted"}
    /\ session' = [session EXCEPT ![w] = "orphaned"]
    /\ Raise(w, "connection_lost")
    /\ UNCHANGED <<audit_log, lock, body, head, row, calls, stored>>

\* A COMMIT sent before the connection broke is executed after the caller was
\* told of the break.
CommitLate(w) ==
    /\ session[w] = "orphaned" /\ row[w] # {}
    /\ audit_log' = audit_log \cup row[w]
    /\ EndTransaction(w)
    /\ UNCHANGED <<body, calls, stored, raised>>

\* The server notices that the client is gone, and aborts the transaction.
Reap(w) ==
    /\ session[w] = "orphaned"
    /\ EndTransaction(w)
    /\ UNCHANGED <<audit_log, body, calls, stored, raised>>

\* Mutant: append starts over when the answer does not come.
RetryLostAnswer(w) ==
    /\ session[w] = "committed"
    /\ session' = [session EXCEPT ![w] = "queued"]
    /\ head' = [head EXCEPT ![w] = {}]
    /\ row' = [row EXCEPT ![w] = {}]
    /\ UNCHANGED <<audit_log, lock, body, calls, stored, raised>>

\* The commit took effect and its answer is lost.
LoseAnswer(w) ==
    /\ session[w] = "committed"
    /\ EndTransaction(w)
    /\ Raise(w, "connection_lost")
    /\ UNCHANGED <<audit_log, body, calls, stored>>

Statement(w) ==
    \/ Begin(w)
    \/ TakeLock(w)
    \/ SkipLock(w)
    \/ ReadHead(w)
    \/ Refuse(w)
    \/ Insert(w)
    \/ InsertFails(w)
    \/ Commit(w)
    \/ Return(w)

Fault(w) == Fail(w) \/ Interrupt(w) \/ Disconnect(w) \/ LoseAnswer(w)

Next ==
    \E w \in Writers : Call(w) \/ Statement(w) \/ Fault(w) \/ CommitLate(w) \/ Reap(w)

Spec == Init /\ [][Next]_vars

\* A started call runs on.  Those waiting for a pooled connection, for the
\* advisory lock or for the end of another transaction's insert are queued first
\* come, first served, so a writer passed over again and again is served at last
\* (strong fairness; a call waits at one statement at a time).  The server's
\* keepalive reaps broken connections.  Calls and faults need never happen.
Fairness == \A w \in Writers : SF_vars(Statement(w)) /\ WF_vars(Reap(w))

FairSpec == Spec /\ Fairness

-----------------------------------------------------------------------------
\* The committed rows are one unbroken chain from the genesis hash, with no
\* gap, fork or duplicate, whichever writers take the advisory lock, and
\* whatever transactions fail (audit.py:15-17, 0001_initial_schema.py:234-235).
ChainUnbroken == IsChain(audit_log)

\* append's answer is the truth for good: every entry it returned is a committed
\* row (audit.py:330, "return the stored entry").
StoredMeansRecorded == stored \subseteq audit_log

\* A call that raised an error of AuditEntry or of PostgreSQL recorded nothing
\* and never will, so its caller may repeat it without recording the decision
\* twice (audit.py:331-332, "could not be written").  After a timeout, a cancellation or a
\* broken connection the caller cannot tell.
RaisedMeansNotRecorded ==
    \A failure \in raised :
        failure.cause \in Definite =>
            \A e \in audit_log : e.body # failure.body

\* No decision is in the log twice.
RecordedOnce == \A e, f \in audit_log : e.body = f.body => e = f

\* A writer that holds the advisory lock, and has read the head, can collide only
\* with a row of a writer that does not take it: neither a committed row, which
\* would fail its INSERT, nor an uncommitted one, which would make it wait, is
\* another lock holder's (audit.py:326-328).
LockPreventsCollision ==
    \A w \in Writers \ Bypass : session[w] = "head_read" =>
        /\ \A e \in audit_log : Conflict(e, Entry(w)) => e.body.by \in Bypass
        /\ \A v \in Writers \ Bypass : \A e \in row[v] : ~Conflict(e, Entry(w))

\* No step removes or changes a row, and a new row comes after every row there
\* is: what was answered earlier has the lower sequence (the append-only
\* trigger, 0001_initial_schema.py:236-255, and the head read under the lock).
AppendOnly ==
    [][/\ audit_log \subseteq audit_log'
       /\ \A new \in audit_log' \ audit_log : \A old \in audit_log :
              new.sequence > old.sequence]_vars

\* The list of decisions in the table, and each caller's view of its call.
LedgerLength == IF audit_log = {} THEN 0 ELSE HeadRow(audit_log).sequence
LedgerView ==
    [i \in 1..LedgerLength |-> (CHOOSE e \in audit_log : e.sequence = i).body]
CallView ==
    [w \in Writers |->
        CASE session[w] = "none" -> "none"
          [] session[w] = "orphaned" -> IF row[w] = {} THEN "none" ELSE "doubtful"
          [] session[w] = "committed" -> "recorded"
          [] OTHER -> "open"]
AnswersView == {[sequence |-> e.sequence, body |-> e.body] : e \in stored}

Ledger == INSTANCE AuditLedger WITH
    Ordered <- Writers \ Bypass, ledger <- LedgerView, call <- CallView, answers <- AnswersView

\* Concurrent, failing, unlocked appends are indistinguishable from decisions
\* recorded one at a time, each at one instant: within its call, or after a call
\* that raised with its COMMIT under way.  Such a straggler of a writer that takes
\* the lock is recorded before any later entry of those that do, or never.
ImplementsLedger == Ledger!Spec

\* Every append returns or raises: no caller is left waiting for a connection,
\* for the lock or for another's row, even after a holder's connection broke.
EveryAppendReturns ==
    \A w \in Writers : session[w] = "queued" ~> session[w] \in {"none", "orphaned"}
=============================================================================
