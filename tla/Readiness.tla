----------------------------- MODULE Readiness ------------------------------
(***************************************************************************)
(* observability/health.py behind the readiness endpoint, over the         *)
(* connection pool of persistence/database.py: requests evaluate the two   *)
(* registered checks concurrently, each under a deadline.  The database    *)
(* check borrows a connection from the pool that the process's statements  *)
(* use, so it waits when they hold them all.                               *)
(***************************************************************************)
EXTENDS Naturals, FiniteSets

CONSTANTS Evaluations,   \* requests to the readiness endpoint, each evaluated once
          Statements,    \* other users of the pool
          MaxPool,       \* max_pool_size
          MaxChanges     \* bound: how often a dependency changes

ASSUME PoolAssumption ==
    /\ MaxPool \in Nat \ {0} /\ MaxChanges \in Nat
    /\ Evaluations \cap Statements = {}

Checks == {"database", "redis"}

VARIABLES condition,   \* condition[d]: "up", "down" (it answers an error) or "silent"
          changes,     \* how often a condition changed
          holders,     \* who has a connection of the pool
          phase,       \* phase[e]: "new", "running", "pass" or "fail"
          probe,       \* probe[e][d]: where check d of evaluation e stands
          wasUp,       \* history: the dependencies that were up while e ran
          ready        \* the gauge

vars == <<condition, changes, holders, phase, probe, wasUp, ready>>

TypeOK ==
    /\ condition \in [Checks -> {"up", "down", "silent"}]
    /\ changes \in 0..MaxChanges
    /\ holders \subseteq Evaluations \cup Statements /\ Cardinality(holders) <= MaxPool
    /\ phase \in [Evaluations -> {"new", "running", "pass", "fail"}]
    /\ probe \in [Evaluations -> [Checks -> {"none", "acquiring", "asked", "pass", "fail"}]]
    /\ wasUp \in [Evaluations -> SUBSET Checks]
    /\ ready \in {0, 1}
    /\ \A e \in Evaluations : e \in holders <=> probe[e]["database"] = "asked"

Up == {d \in Checks : condition[d] = "up"}

Init ==
    /\ condition = [d \in Checks |-> "up"] /\ changes = 0
    /\ holders = {}
    /\ phase = [e \in Evaluations |-> "new"]
    /\ probe = [e \in Evaluations |-> [d \in Checks |-> "none"]]
    /\ wasUp = [e \in Evaluations |-> {}]
    /\ ready = 0

-----------------------------------------------------------------------------
\* The surroundings: dependencies that fail and recover, statements that use
\* the pool.

Change(d) ==
    /\ changes < MaxChanges
    /\ changes' = changes + 1
    /\ \E c \in {"up", "down", "silent"} \ {condition[d]} :
          condition' = [condition EXCEPT ![d] = c]
    /\ wasUp' = [e \in Evaluations |->
                    IF phase[e] = "running" /\ condition'[d] = "up"
                    THEN wasUp[e] \cup {d} ELSE wasUp[e]]
    /\ UNCHANGED <<holders, phase, probe, ready>>

HasFreeConnection == Cardinality(holders) < MaxPool

Borrow(s) ==
    /\ s \notin holders /\ HasFreeConnection
    /\ holders' = holders \cup {s}
    /\ UNCHANGED <<condition, changes, phase, probe, wasUp, ready>>

GiveBack(s) ==
    /\ s \in holders
    /\ holders' = holders \ {s}
    /\ UNCHANGED <<condition, changes, phase, probe, wasUp, ready>>

-----------------------------------------------------------------------------
\* An evaluation.

\* evaluate starts both checks; the redis check asks at once.
Evaluate(e) ==
    /\ phase[e] = "new"
    /\ phase' = [phase EXCEPT ![e] = "running"]
    /\ probe' = [probe EXCEPT ![e] = [database |-> "acquiring", redis |-> "asked"]]
    /\ wasUp' = [wasUp EXCEPT ![e] = Up]
    /\ UNCHANGED <<condition, changes, holders, ready>>

\* Database.check gets a connection and sends SELECT 1.
Acquire(e) ==
    /\ probe[e]["database"] = "acquiring" /\ HasFreeConnection
    /\ holders' = holders \cup {e}
    /\ probe' = [probe EXCEPT ![e]["database"] = "asked"]
    /\ UNCHANGED <<condition, changes, phase, wasUp, ready>>

\* The end of a check; the database check's connection goes back.
Conclude(e, d, result) ==
    /\ probe' = [probe EXCEPT ![e][d] = result]
    /\ holders' = IF d = "database" THEN holders \ {e} ELSE holders
    /\ UNCHANGED <<condition, changes, phase, wasUp, ready>>

Answer(e, d) ==
    /\ probe[e][d] = "asked" /\ condition[d] # "silent"
    /\ Conclude(e, d, IF condition[d] = "up" THEN "pass" ELSE "fail")

\* Mutant: the check is awaited without a deadline.
NoDeadline(e, d) == FALSE

\* asyncio.timeout cancels a check that has not answered, at the pool or at the
\* dependency; a driver's own timeout has the same result.
Deadline(e, d) == probe[e][d] \in {"acquiring", "asked"} /\ Conclude(e, d, "fail")

\* Mutant: any(...) for all(...).
StatusOfAny(e) == IF \E d \in Checks : probe[e][d] = "pass" THEN "pass" ELSE "fail"

Status(e) == IF \A d \in Checks : probe[e][d] = "pass" THEN "pass" ELSE "fail"

\* gather returns: the report and the gauge.  The checks are gone.
Finish(e) ==
    /\ phase[e] = "running"
    /\ \A d \in Checks : probe[e][d] \in {"pass", "fail"}
    /\ phase' = [phase EXCEPT ![e] = Status(e)]
    /\ ready' = IF Status(e) = "pass" THEN 1 ELSE 0
    /\ probe' = [probe EXCEPT ![e] = [d \in Checks |-> "none"]]
    /\ wasUp' = IF Status(e) = "pass" THEN wasUp ELSE [wasUp EXCEPT ![e] = {}]
    /\ UNCHANGED <<condition, changes, holders>>

\* Everything but the beginning of an evaluation.
Proceed ==
    \/ \E d \in Checks : Change(d)
    \/ \E s \in Statements : Borrow(s) \/ GiveBack(s)
    \/ \E e \in Evaluations :
          \/ Acquire(e) \/ Finish(e)
          \/ \E d \in Checks : Answer(e, d) \/ Deadline(e, d)

Next == Proceed \/ \E e \in Evaluations : Evaluate(e)

Spec == Init /\ [][Next]_vars

-----------------------------------------------------------------------------
\* Properties.

\* An answer that the process is ready is no stale one: every dependency was up
\* at some moment of this very evaluation.
ReadyIsEarned == \A e \in Evaluations : phase[e] = "pass" => wasUp[e] = Checks
=============================================================================
