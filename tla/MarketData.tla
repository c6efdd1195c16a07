----------------------------- MODULE MarketData -----------------------------
(***************************************************************************)
(* InstrumentRepository and MarketDataRepository of                        *)
(* persistence/repositories.py: batches of rows written by concurrent      *)
(* calls, each in one transaction at READ COMMITTED.                       *)
(*                                                                         *)
(* A statement waits for the row locks of other transactions and sees what *)
(* they committed; its own locks are held until the transaction ends.      *)
(* executemany runs the statements in the caller's order, so two calls may *)
(* wait for one another: PostgreSQL then aborts one of them.  A session    *)
(* whose connection broke keeps its locks until the server notices, or     *)
(* executes the COMMIT that was already sent.                              *)
(***************************************************************************)
EXTENDS MarketRows

CONSTANTS Writers,    \* concurrent callers of upsert, upsert_many, store_bars, store_ticks
          Instants,   \* the keys of a table: instants of a series, or symbols of a venue
          Batches,    \* [table, items], items a sequence of [ts, row]
          MaxCalls    \* bound: how many calls are made

Tables == {"instruments", "bars", "ticks"}

ASSUME InstantsAssumption == Instants \subseteq Nat \ {0} /\ IsFiniteSet(Instants)
ASSUME BatchesAssumption ==
    \A b \in Batches :
       /\ b.table \in Tables /\ b.items \in Seq(Range(b.items))
       /\ \A i \in DOMAIN b.items :
             /\ b.items[i].ts \in Instants
             /\ b.items[i].row # Absent
             /\ b.table = "bars" \/ b.items[i].row.complete
ASSUME CallsAssumption == MaxCalls \in Nat

VARIABLES rows,      \* rows[table][ts]: what is committed
          pc,        \* the statement a caller awaits
          batch,     \* the batch of its latest call
          done,      \* how many of its statements the open transaction has executed
          pending,   \* pending[w][ts]: rows its open transaction has written
          locked,    \* the instants of its table it holds locks on
          outcome,   \* how its latest call ended
          calls      \* how many calls were made

vars == <<rows, pc, batch, done, pending, locked, outcome, calls>>

Empty == [table |-> "bars", items |-> <<>>]

TypeOK ==
    /\ \A t \in Tables, ts \in Instants : rows[t][ts] = Absent \/ rows[t][ts] \in
          UNION {{b.items[i].row : i \in DOMAIN b.items} : b \in Batches}
    /\ pc \in [Writers -> {"idle", "writing", "committed"}]
    /\ batch \in [Writers -> Batches \cup {Empty}]
    /\ \A w \in Writers :
          /\ done[w] \in 0..Len(batch[w].items)
          /\ locked[w] \subseteq Instants /\ DOMAIN pending[w] \subseteq locked[w]
          /\ pc[w] # "writing" => locked[w] = {}
    /\ outcome \in [Writers -> {"none", "returned", "raised"}]
    /\ calls \in 0..MaxCalls

NothingPending == [ts \in {} |-> Absent]

Init ==
    /\ rows = [t \in Tables |-> [ts \in Instants |-> Absent]]
    /\ pc = [w \in Writers |-> "idle"]
    /\ batch = [w \in Writers |-> Empty]
    /\ done = [w \in Writers |-> 0]
    /\ pending = [w \in Writers |-> NothingPending]
    /\ locked = [w \in Writers |-> {}]
    /\ outcome = [w \in Writers |-> "none"]
    /\ calls = 0

-----------------------------------------------------------------------------
\* The statement w is at.

item(w) == batch[w].items[done[w] + 1]

\* The connection of w's open transaction broke, and its caller was told.
IsOrphaned(w) == pc[w] = "writing" /\ outcome[w] = "raised"

IsWriting(w) == pc[w] = "writing" /\ ~IsOrphaned(w) /\ done[w] < Len(batch[w].items)

\* w's statement needs a row that v's open transaction has locked.
WaitsFor(w, v) ==
    /\ v # w /\ IsWriting(w)
    /\ batch[v].table = batch[w].table /\ item(w).ts \in locked[v]

\* A set of callers that wait for one another, none of them superfluous.
Deadlock(S) ==
    LET Stuck(T) == T # {} /\ \A w \in T : \E v \in T : WaitsFor(w, v)
    IN  Stuck(S) /\ \A T \in SUBSET S : T # S => ~Stuck(T)

\* The row w's statement meets: its own transaction's, or the committed one.
Met(w) ==
    LET ts == item(w).ts
    IN  IF ts \in DOMAIN pending[w] THEN pending[w][ts] ELSE rows[batch[w].table][ts]

-----------------------------------------------------------------------------
\* store_bars and store_ticks return at once for an empty batch; upsert_many
\* opens its transaction all the same.
Store(w) ==
    /\ pc[w] = "idle" /\ calls < MaxCalls
    /\ calls' = calls + 1
    /\ \E b \in Batches :
          /\ batch' = [batch EXCEPT ![w] = b]
          /\ \/ /\ b.items = <<>> /\ b.table # "instruments"
                /\ outcome' = [outcome EXCEPT ![w] = "returned"]
                /\ UNCHANGED pc
             \/ /\ b.items # <<>> \/ b.table = "instruments"
                /\ outcome' = [outcome EXCEPT ![w] = "none"]
                /\ pc' = [pc EXCEPT ![w] = "writing"]
    /\ UNCHANGED <<rows, done, pending, locked>>

\* Mutant: every statement commits by itself.
WriteCommitting(w) ==
    /\ IsWriting(w) /\ \A v \in Writers : ~WaitsFor(w, v)
    /\ rows' = [rows EXCEPT ![batch[w].table][item(w).ts] =
                    merged(batch[w].table, @, item(w).row)]
    /\ done' = [done EXCEPT ![w] = @ + 1]
    /\ UNCHANGED <<pc, batch, pending, locked, outcome, calls>>

\* One statement of the batch.
Write(w) ==
    /\ IsWriting(w) /\ \A v \in Writers : ~WaitsFor(w, v)
    /\ LET ts == item(w).ts
           row == merged(batch[w].table, Met(w), item(w).row)
       IN  /\ pending' = IF row = Met(w) THEN pending
                         ELSE [pending EXCEPT ![w] = over([t \in {ts} |-> row], @)]
           /\ locked' = IF locks(batch[w].table, Met(w))
                        THEN [locked EXCEPT ![w] = @ \cup {ts}] ELSE locked
    /\ done' = [done EXCEPT ![w] = @ + 1]
    /\ UNCHANGED <<rows, pc, batch, outcome, calls>>

\* The end of w's transaction, whichever way.
Release(w) ==
    /\ pending' = [pending EXCEPT ![w] = NothingPending]
    /\ locked' = [locked EXCEPT ![w] = {}]
    /\ done' = [done EXCEPT ![w] = 0]
    /\ UNCHANGED <<batch, calls>>

\* A COMMIT takes effect.
TakesEffect(w) ==
    /\ pc[w] = "writing" /\ done[w] = Len(batch[w].items)
    /\ rows' = [rows EXCEPT ![batch[w].table] = over(pending[w], @)]
    /\ Release(w) /\ UNCHANGED outcome

\* Mutant: the connection goes back to the pool without a commit.
CommitNothing(w) ==
    /\ pc[w] = "writing" /\ done[w] = Len(batch[w].items)
    /\ pc' = [pc EXCEPT ![w] = "committed"]
    /\ Release(w) /\ UNCHANGED <<rows, outcome>>

Commit(w) ==
    /\ ~IsOrphaned(w) /\ TakesEffect(w)
    /\ pc' = [pc EXCEPT ![w] = "committed"]

Return(w) ==
    /\ pc[w] = "committed"
    /\ pc' = [pc EXCEPT ![w] = "idle"]
    /\ outcome' = [outcome EXCEPT ![w] = "returned"]
    /\ UNCHANGED <<rows, batch, done, pending, locked, calls>>

\* The connection is lost between the commit and its answer, or a timeout or a
\* cancellation strikes there.
LoseAnswer(w) ==
    /\ pc[w] = "committed"
    /\ pc' = [pc EXCEPT ![w] = "idle"]
    /\ outcome' = [outcome EXCEPT ![w] = "raised"]
    /\ UNCHANGED <<rows, batch, done, pending, locked, calls>>

RollBack(w) ==
    /\ pc[w] = "writing"
    /\ pc' = [pc EXCEPT ![w] = "idle"]
    /\ outcome' = [outcome EXCEPT ![w] = "raised"]
    /\ Release(w) /\ UNCHANGED rows

\* A statement fails, or the call times out or is cancelled.
Fail(w) == ~IsOrphaned(w) /\ RollBack(w)

\* The connection breaks: the caller gets an exception, the session stays open.
Disconnect(w) ==
    /\ pc[w] = "writing" /\ ~IsOrphaned(w)
    /\ outcome' = [outcome EXCEPT ![w] = "raised"]
    /\ UNCHANGED <<rows, pc, batch, done, pending, locked, calls>>

\* A COMMIT sent before that is executed after it.
CommitLate(w) ==
    /\ IsOrphaned(w) /\ TakesEffect(w)
    /\ pc' = [pc EXCEPT ![w] = "idle"]

\* The server notices that the client is gone, and aborts the transaction.
Reap(w) == IsOrphaned(w) /\ RollBack(w)

\* Mutant: nothing breaks a deadlock.
NotDetected == FALSE

\* PostgreSQL's deadlock detector aborts one of the callers in a cycle.
DetectDeadlock ==
    \E S \in SUBSET Writers : Deadlock(S) /\ \E w \in S : RollBack(w)

\* What becomes of the calls that were made.
Run ==
    \/ \E w \in Writers :
          \/ Write(w) \/ Commit(w) \/ Return(w) \/ LoseAnswer(w) \/ Fail(w)
          \/ Disconnect(w) \/ CommitLate(w) \/ Reap(w)
    \/ DetectDeadlock

Next == Run \/ \E w \in Writers : Store(w)

Spec == Init /\ [][Next]_vars

\* Callers run on, the database executes what is not blocked, and it looks for
\* deadlocks and for clients that are gone.  Nothing makes a call come, fail or
\* lose its answer.
Fairness ==
    /\ \A w \in Writers : WF_vars(Write(w) \/ Commit(w) \/ Return(w) \/ Reap(w))
    /\ WF_vars(DetectDeadlock)

FairSpec == Spec /\ Fairness

-----------------------------------------------------------------------------
\* Properties.

Stored(table) == {ts \in Instants : rows[table][ts] # Absent}

\* A bar committed as complete and a tick committed at all are history: no later
\* call, whatever it met and in whatever order, changes them.
HistoryIsFinal ==
    [][\A ts \in Instants :
          /\ rows["bars"][ts].complete => rows'["bars"][ts] = rows["bars"][ts]
          /\ rows["ticks"][ts] # Absent => rows'["ticks"][ts] = rows["ticks"][ts]]_vars

\* What a call that returned submitted is in its table: the row itself, or one
\* that was there before it or came after, and complete if the call's was.
ReturnedIsStored ==
    \A w \in Writers : outcome[w] = "returned" =>
       \A i \in DOMAIN batch[w].items :
          LET submitted == batch[w].items[i]
              stored == rows[batch[w].table][submitted.ts]
          IN  stored # Absent /\ (submitted.row.complete => stored.complete)

\* Every call changes its table as if its statements had run alone, at once.
Table == INSTANCE AtomicTables
ImplementsTables == Table!Spec

\* No call waits for ever, even when two batches name the same instants in
\* opposite orders.
EveryStoreEnds == \A w \in Writers : pc[w] = "writing" ~> pc[w] = "idle"
=============================================================================
