------------------------------- MODULE Runtime -------------------------------
(***************************************************************************)
(* The life of the process: app/runtime.py under __main__.main, restarted  *)
(* by its supervisor.  run() starts the dependencies one after the other,  *)
(* serves until a signal or the server's end, and stops.  Any step may     *)
(* raise, a signal may come at any time, and the process may be killed.    *)
(*                                                                         *)
(* The audit log is AuditLedger, which AuditLog implements: an append is a *)
(* call, perhaps its recording, and an answer or an exception.  A COMMIT   *)
(* under way at the exception, or at the end of the process, may take      *)
(* effect later, even in the next run.  It holds the advisory lock until   *)
(* then, so an append of the next run waits for it.                        *)
(*                                                                         *)
(* What a signal does depends on who handles it.  Before serve() installs  *)
(* its handlers and after it removes them, an interrupt cancels the main   *)
(* task at the await it stands at.  A CancelledError is no Exception, so   *)
(* neither run()'s nor stop()'s except clauses catch it.                   *)
(***************************************************************************)
EXTENDS Naturals, Sequences

CONSTANT MaxRuns     \* bound: how often the process is launched

ASSUME RunsAssumption == MaxRuns \in Nat \ {0}

VARIABLES pc,         \* the await the main task stands at
          started,    \* Application._started
          pool,       \* Database._pool: "none", "open"
          redis,      \* the redis client: "idle", "open"
          server,     \* the uvicorn task: "none", "running", "finished", "failed"
          stopping,   \* the shutdown event
          handlers,   \* serve() has its signal handlers installed
          attempted,  \* the dependencies this run has tried to close
          outcome,    \* how the run ended
          mishap,     \* this run's shutdown entry could not be written
          run,        \* how often the process was launched
          ledger, call, body, answers      \* the audit log

log == <<ledger, call, body, answers>>
vars == <<pc, started, pool, redis, server, stopping, handlers, attempted, outcome,
          mishap, run, log>>

App == "app.runtime"
Entries == [run : 1..MaxRuns, action : {"started", "stopped"}]
Entry(action) == [run |-> run, action |-> action]

Log == INSTANCE AuditLedger WITH
    Writers <- {App}, Ordered <- {App}, Bodies <- Entries

Starting == {"connect", "timescale", "tables", "ping", "append_started"}
Stopping == {"append_stopped", "close_redis", "close_database"}

TypeOK ==
    /\ pc \in Starting \cup Stopping \cup {"down", "serve", "wait", "drain", "ended"}
    /\ started \in BOOLEAN /\ stopping \in BOOLEAN
    /\ handlers \in BOOLEAN /\ mishap \in BOOLEAN
    /\ pool \in {"none", "open"} /\ redis \in {"idle", "open"}
    /\ server \in {"none", "running", "finished", "failed"}
    /\ attempted \subseteq {"redis", "database"}
    /\ outcome \in {"none", "0", "1", "78", "uncaught", "raised", "interrupted", "killed"}
    /\ run \in 0..MaxRuns
    /\ Log!TypeOK

Fresh ==
    /\ started = FALSE /\ pool = "none" /\ redis = "idle" /\ server = "none"
    /\ stopping = FALSE /\ handlers = FALSE /\ attempted = {}
    /\ outcome = "none" /\ mishap = FALSE

Init ==
    /\ pc = "down" /\ run = 0 /\ Fresh
    /\ ledger = <<>> /\ answers = {}
    /\ call = [w \in {App} |-> "none"]
    /\ body = [w \in {App} |-> [run |-> 1, action |-> "started"]]

-----------------------------------------------------------------------------
\* main and start.

\* main: a configuration that does not load ends the process before anything
\* connects (Configuration says when, and with which exception); else run() begins.
Launch ==
    /\ pc = "down" /\ run < MaxRuns
    /\ run' = run + 1
    /\ \/ pc' = "connect" /\ UNCHANGED outcome
       \/ pc' = "ended" /\ outcome' \in {"78", "uncaught"}
    /\ UNCHANGED <<started, pool, redis, server, stopping, handlers, attempted, mishap, log>>

\* Mutant: stop() records a stop whether or not the start was recorded.
AlwaysAppend == "append_stopped"

\* stop() first records the stop of a run whose start is recorded.
FirstStopStep == IF started THEN "append_stopped" ELSE "close_redis"

\* start raises an Exception: run() catches it, and stops.
StartFails(at) ==
    /\ pc = at
    /\ pc' = FirstStopStep
    /\ outcome' = "1"
    /\ UNCHANGED <<started, pool, redis, server, stopping, handlers, attempted, mishap, run>>

Connect ==
    /\ pc = "connect"
    /\ pool' = "open" /\ pc' = "timescale"
    /\ UNCHANGED <<started, redis, server, stopping, handlers, attempted, outcome, mishap,
                   run, log>>

CheckTimescale ==
    /\ pc = "timescale" /\ pc' = "tables"
    /\ UNCHANGED <<started, pool, redis, server, stopping, handlers, attempted, outcome,
                   mishap, run, log>>

CheckTables ==
    /\ pc = "tables" /\ pc' = "ping"
    /\ UNCHANGED <<started, pool, redis, server, stopping, handlers, attempted, outcome,
                   mishap, run, log>>

Ping ==
    /\ pc = "ping"
    /\ redis' = "open" /\ pc' = "append_started"
    /\ UNCHANGED <<started, pool, server, stopping, handlers, attempted, outcome, mishap,
                   run, log>>

DependencyFails ==
    \E at \in Starting \ {"append_started"} : StartFails(at) /\ UNCHANGED log

\* The steps of an append that only the log sees.
Appends(at, action) ==
    /\ pc = at
    /\ \/ Log!Call(App) /\ body' = [body EXCEPT ![App] = Entry(action)]
       \/ Log!Record(App)
    /\ UNCHANGED <<pc, started, pool, redis, server, stopping, handlers, attempted, outcome,
                   mishap, run>>

AppendStarted == Appends("append_started", "started")

\* Mutant: _started is never set.
StartedForgotten ==
    /\ pc = "append_started" /\ Log!Answer(App)
    /\ pc' = "serve"
    /\ UNCHANGED <<started, pool, redis, server, stopping, handlers, attempted, outcome,
                   mishap, run>>

StartedAnswered ==
    /\ pc = "append_started" /\ Log!Answer(App)
    /\ started' = TRUE /\ pc' = "serve"
    /\ UNCHANGED <<pool, redis, server, stopping, handlers, attempted, outcome, mishap, run>>

\* Mutant: a start that could not be recorded is logged, and the process serves.
StartedDegrades ==
    /\ pc = "append_started" /\ Log!Raise(App)
    /\ pc' = "serve"
    /\ UNCHANGED <<started, pool, redis, server, stopping, handlers, attempted, outcome,
                   mishap, run>>

\* Also while the append waits for the lock of a COMMIT of the run before.
StartedRaises ==
    /\ StartFails("append_started")
    /\ \/ Log!Raise(App)
       \/ call[App] = "doubtful" /\ UNCHANGED log

-----------------------------------------------------------------------------
\* serve.

Serve ==
    /\ pc = "serve"
    /\ handlers' = TRUE /\ server' = "running" /\ pc' = "wait"
    /\ UNCHANGED <<started, pool, redis, stopping, attempted, outcome, mishap, run, log>>

\* A shutdown signal while the handlers are installed.
Signal ==
    /\ handlers /\ ~stopping
    /\ stopping' = TRUE
    /\ UNCHANGED <<pc, started, pool, redis, server, handlers, attempted, outcome, mishap,
                   run, log>>

\* The server ends of itself, or fails.
ServerEnds ==
    /\ server = "running"
    /\ server' \in {"finished", "failed"}
    /\ UNCHANGED <<pc, started, pool, redis, stopping, handlers, attempted, outcome, mishap,
                   run, log>>

\* Mutant: asyncio.wait with return_when=ALL_COMPLETED.
WakeWhenAllDone ==
    /\ pc = "wait" /\ stopping /\ server # "running"
    /\ pc' = "drain"
    /\ UNCHANGED <<started, pool, redis, server, stopping, handlers, attempted, outcome,
                   mishap, run, log>>

\* asyncio.wait returns: the server is told to exit.
Wake ==
    /\ pc = "wait" /\ (stopping \/ server # "running")
    /\ pc' = "drain"
    /\ UNCHANGED <<started, pool, redis, server, stopping, handlers, attempted, outcome,
                   mishap, run, log>>

\* Mutant: the server task is not awaited.
ServerIsLeft == TRUE

ServerIsDone == server # "running"

\* await server_task.  If the server failed its exception leaves serve() here,
\* before the handlers are removed, and run()'s finally clause stops.
Drain ==
    /\ pc = "drain" /\ ServerIsDone
    /\ handlers' = (server = "failed")
    /\ outcome' = IF server = "failed" THEN "raised" ELSE "0"
    /\ pc' = FirstStopStep
    /\ UNCHANGED <<started, pool, redis, server, stopping, attempted, mishap, run, log>>

-----------------------------------------------------------------------------
\* stop.

AppendStopped == Appends("append_stopped", "stopped")

\* Whatever becomes of the entry, an Exception is logged and stop goes on.
StoppedAnswered ==
    /\ pc = "append_stopped"
    /\ \/ Log!Answer(App) /\ UNCHANGED mishap
       \/ Log!Raise(App) /\ mishap' = TRUE
    /\ started' = FALSE /\ pc' = "close_redis"
    /\ UNCHANGED <<pool, redis, server, stopping, handlers, attempted, outcome, run>>

\* Mutant: no try around the first close.
CloseRedisUnguarded ==
    /\ pc = "close_redis"
    /\ attempted' = attempted \cup {"redis"}
    /\ \/ redis' = "idle" /\ pc' = "close_database"
       \/ UNCHANGED redis /\ pc' = "ended"
    /\ UNCHANGED <<started, pool, server, stopping, handlers, outcome, mishap, run, log>>

\* Each close may raise, and the next is attempted all the same.
CloseRedis ==
    /\ pc = "close_redis"
    /\ attempted' = attempted \cup {"redis"}
    /\ redis' \in {"idle", redis} /\ pc' = "close_database"
    /\ UNCHANGED <<started, pool, server, stopping, handlers, outcome, mishap, run, log>>

\* close() forgets the pool before it waits for it.
CloseDatabase ==
    /\ pc = "close_database"
    /\ attempted' = attempted \cup {"database"}
    /\ pool' = "none" /\ pc' = "ended"
    /\ UNCHANGED <<started, redis, server, stopping, handlers, outcome, mishap, run, log>>

-----------------------------------------------------------------------------
\* Interrupts, kills and restarts.

\* The append under way, if any, is abandoned.
Abandon ==
    IF call[App] \in {"none", "doubtful"} THEN UNCHANGED log ELSE Log!Raise(App)

\* A COMMIT in doubt takes effect, or its session is aborted.
Settle ==
    /\ Log!RecordLate(App) \/ Log!Forget(App)
    /\ UNCHANGED <<pc, started, pool, redis, server, stopping, handlers, attempted, outcome,
                   mishap, run>>

\* SIGINT while serve()'s handlers are not installed: CancelledError, at the
\* await start() or stop() stands at, ends run().
Interrupt ==
    /\ pc \in Starting \cup Stopping /\ ~handlers
    /\ pc' = "ended" /\ outcome' = "interrupted"
    /\ Abandon
    /\ UNCHANGED <<started, pool, redis, server, stopping, handlers, attempted, mishap, run>>

Kill ==
    /\ pc \notin {"down", "ended"}
    /\ pc' = "ended" /\ outcome' = "killed"
    /\ Abandon
    /\ UNCHANGED <<started, pool, redis, server, stopping, handlers, attempted, mishap, run>>

\* The supervisor launches a new process; nothing of the old one is left but
\* the audit log.
Restart ==
    /\ pc = "ended" /\ run < MaxRuns
    /\ pc' = "down"
    /\ started' = FALSE /\ pool' = "none" /\ redis' = "idle" /\ server' = "none"
    /\ stopping' = FALSE /\ handlers' = FALSE /\ attempted' = {}
    /\ outcome' = "none" /\ mishap' = FALSE
    /\ UNCHANGED <<run, log>>

Step ==
    \/ Connect \/ CheckTimescale \/ CheckTables \/ Ping
    \/ AppendStarted \/ StartedAnswered \/ Serve \/ Wake \/ Drain
    \/ AppendStopped \/ StoppedAnswered \/ CloseRedis \/ CloseDatabase

Next ==
    \/ Launch \/ Step \/ DependencyFails \/ StartedRaises
    \/ Signal \/ ServerEnds \/ Interrupt \/ Kill \/ Settle \/ Restart

Spec == Init /\ [][Next]_vars

\* The main task runs on, and a server told to exit does within its grace period
\* (timeout_graceful_shutdown).  Nothing makes a signal come.
Fairness == WF_vars(Step) /\ WF_vars(ServerEnds /\ pc = "drain")

FairSpec == Spec /\ Fairness

-----------------------------------------------------------------------------
\* Properties.

Recorded(r, action) ==
    \E i \in 1..Len(ledger) : ledger[i] = [run |-> r, action |-> action]

\* run() came to its own end, neither killed nor interrupted.
Returned == pc = "ended" /\ outcome \in {"0", "1", "raised"}

\* A run that comes to its own end has tried to close both dependencies,
\* whichever step of start, serve or stop failed before.
EveryCloseAttempted == Returned => attempted = {"redis", "database"}

\* The server runs on open dependencies: the pool and the redis client open
\* before it, and stop() begins when no request is served any more.
DrainBeforeClose ==
    server = "running" => pc \notin Stopping /\ pool = "open" /\ redis = "open"

\* No process serves before its own start is in the audit log.
NeverServesUnrecorded == server = "running" => Recorded(run, "started")

\* The log tells the runs apart: a run has one start at most and one stop at
\* most, the stop after the start, and no entry of an earlier run comes after
\* one of a later run.
RunsAreBracketed ==
    \A i, j \in 1..Len(ledger) :
       /\ i < j => \/ ledger[i].run < ledger[j].run
                  \/ /\ ledger[i].run = ledger[j].run
                     /\ ledger[i].action = "started" /\ ledger[j].action = "stopped"
       /\ ledger[j].action = "stopped" => Recorded(ledger[j].run, "started")

\* A run that ended with exit code 0 of its own accord, and whose stop entry
\* met no error, has both its entries.
CleanRunHasBoth ==
    Returned /\ outcome = "0" /\ ~mishap =>
       Recorded(run, "started") /\ Recorded(run, "stopped")

\* A shutdown signal received while serving ends the process.
SignalEndsTheRun == (handlers /\ stopping) ~> pc \in {"ended", "down"}

\* What app/runtime.py promises of its entries: a started run has a matching
\* stop, unless it was killed, interrupted or told that the stop was not
\* recorded.  A start that was recorded and whose answer was lost has none.
StartHasItsStop ==
    Returned /\ ~mishap /\ Recorded(run, "started") => Recorded(run, "stopped")
=============================================================================
