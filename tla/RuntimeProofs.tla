---------------------------- MODULE RuntimeProofs ----------------------------
(***************************************************************************)
(* Proofs about Runtime, for any number of launches.                       *)
(*                                                                         *)
(* None of the properties is inductive: each speaks of what an earlier     *)
(* step did.  IInv remembers it by the await the main task stands at:      *)
(* Control says what is open, started and attempted there, Logged what the *)
(* audit log then holds of this run, and Doubt that an entry whose COMMIT  *)
(* is in doubt is later than all others, so the log stays in order if it   *)
(* is recorded after all.                                                  *)
(***************************************************************************)
EXTENDS Runtime, SequenceTheorems, TLAPS

\* What has been opened, started, attempted and decided where the task stands.
Control ==
    /\ pc # "down" => run > 0
    /\ pc \in {"timescale", "tables", "ping", "append_started", "serve", "wait", "drain"} =>
          pool = "open"
    /\ pc \in {"append_started", "serve", "wait", "drain"} => redis = "open"
    /\ pc \in {"down"} \cup Starting \cup {"close_redis", "close_database"} => ~started
    /\ pc \in {"serve", "wait", "drain", "append_stopped"} => started
    /\ pc \in {"down", "serve"} \cup Starting => server = "none"
    /\ server = "running" =>
          pc \in {"wait", "drain", "ended"} /\ started /\ pool = "open" /\ redis = "open"
    /\ pc \in {"down", "serve", "wait", "drain"} \cup Starting => outcome = "none"
    /\ pc = "close_database" => "redis" \in attempted
    /\ Returned => attempted = {"redis", "database"}

InCall == call[App] \in {"open", "recorded"}

\* Where a call of the audit log may be open, and for which entry.
Calling ==
    /\ InCall => pc \in {"append_started", "append_stopped"}
    /\ InCall /\ pc = "append_started" => body[App] = Entry("started")
    /\ InCall /\ pc = "append_stopped" => body[App] = Entry("stopped")
    /\ call[App] = "recorded" => Recorded(run, body[App].action)

\* What the audit log holds of this run.
Logged ==
    /\ \A i \in 1..Len(ledger) : ledger[i].run <= run
    /\ pc \in Starting /\ call[App] # "recorded" => \A i \in 1..Len(ledger) : ledger[i].run # run
    /\ started => Recorded(run, "started")
    /\ pc = "append_stopped" /\ call[App] # "recorded" => ~Recorded(run, "stopped")
    /\ pc \in Starting \cup {"serve", "wait", "drain"} => ~Recorded(run, "stopped")
    /\ pc \in {"close_redis", "close_database", "ended"} /\ outcome = "0" =>
          Recorded(run, "started") /\ (mishap \/ Recorded(run, "stopped"))

\* An earlier entry and a later one.
InOrder(e, f) ==
    \/ e.run < f.run
    \/ e.run = f.run /\ e.action = "started" /\ f.action = "stopped"

\* When an entry may be in doubt, and that it fits behind those there are.
Fits(e) ==
    /\ \A i \in 1..Len(ledger) : InOrder(ledger[i], e)
    /\ e.action = "stopped" => Recorded(e.run, "started")

Doubt ==
    call[App] = "doubtful" =>
       /\ pc \notin {"serve", "wait", "drain", "append_stopped"}
       /\ body[App].run <= run
       /\ pc \in Starting => body[App].run < run
       /\ Fits(body[App])

IInv == TypeOK /\ Control /\ Calling /\ Logged /\ Doubt /\ RunsAreBracketed

-----------------------------------------------------------------------------
\* Before the first run the log is empty and nothing is open.
LEMMA InitInv == Init => IInv
    <1> SUFFICES ASSUME Init PROVE IInv
      OBVIOUS
    <1>1. [run |-> 1, action |-> "started"] \in Entries
      BY RunsAssumption DEF Entries
    <1>2. Log!TypeOK
      BY <1>1 DEF Init, Log!TypeOK
    <1>3. /\ started \in BOOLEAN /\ stopping \in BOOLEAN
          /\ handlers \in BOOLEAN /\ mishap \in BOOLEAN
      BY Zenon DEF Init, Fresh
    <1>4. pc = "down" /\ outcome = "none" /\ run \in 0..MaxRuns
      BY RunsAssumption DEF Init, Fresh
    <1>5. /\ pool \in {"none", "open"} /\ redis \in {"idle", "open"}
          /\ server \in {"none", "running", "finished", "failed"} /\ attempted = {}
      BY DEF Init, Fresh
    <1>6. TypeOK
      BY <1>2, <1>3, <1>4, <1>5 DEF TypeOK
    <1> QED
      BY <1>6 DEF Init, Fresh, IInv, Control, Calling, InCall, Logged, Doubt, RunsAreBracketed,
            Returned, Starting, Recorded, App

\* RunsAreBracketed, of the log's entries pair by pair.
LEMMA Bracketing ==
    RunsAreBracketed <=>
       /\ \A i, j \in 1..Len(ledger) : i < j => InOrder(ledger[i], ledger[j])
       /\ \A j \in 1..Len(ledger) :
             ledger[j].action = "stopped" => Recorded(ledger[j].run, "started")
    BY DEF RunsAreBracketed, InOrder

\* A step that leaves the audit log, the run and the call alone keeps what is
\* known of them.
LEMMA SameLog ==
    ASSUME UNCHANGED <<log, run>>
    PROVE  /\ \A r, action : Recorded(r, action)' <=> Recorded(r, action)
           /\ RunsAreBracketed' <=> RunsAreBracketed
           /\ Log!TypeOK' <=> Log!TypeOK
           /\ \A e : Fits(e)' <=> Fits(e)
    BY DEF log, Recorded, RunsAreBracketed, Log!TypeOK, Fits

\* The steps of start, serve and stop that do not write to the audit log.
LEMMA QuietStep ==
    ASSUME IInv,
           Connect \/ CheckTimescale \/ CheckTables \/ Ping \/ DependencyFails \/ Serve
           \/ Signal \/ ServerEnds \/ Wake \/ Drain \/ CloseRedis \/ CloseDatabase \/ Restart
    PROVE  IInv'
    <1>1. UNCHANGED <<log, run>>
      BY DEF Connect, CheckTimescale, CheckTables, Ping, DependencyFails, StartFails, Serve,
             Signal, ServerEnds, Wake, Drain, CloseRedis, CloseDatabase, Restart
    <1>2. TypeOK' /\ Control'
      <2> USE <1>1, SameLog DEF IInv, TypeOK, Control, Returned, Starting, Stopping
      <2>1. CASE Connect
        BY <2>1 DEF Connect
      <2>2. CASE CheckTimescale
        BY <2>2 DEF CheckTimescale
      <2>3. CASE CheckTables
        BY <2>3 DEF CheckTables
      <2>4. CASE Ping
        BY <2>4 DEF Ping
      <2>5. CASE DependencyFails
        BY <2>5 DEF DependencyFails, StartFails, FirstStopStep
      <2>6. CASE Serve
        BY <2>6 DEF Serve
      <2>7. CASE Signal
        BY <2>7 DEF Signal
      <2>8. CASE ServerEnds
        BY <2>8 DEF ServerEnds
      <2>9. CASE Wake
        BY <2>9 DEF Wake
      <2>10. CASE Drain
        BY <2>10 DEF Drain, FirstStopStep, ServerIsDone
      <2>11. CASE CloseRedis
        BY <2>11 DEF CloseRedis
      <2>12. CASE CloseDatabase
        BY <2>12 DEF CloseDatabase
      <2>13. CASE Restart
        BY <2>13 DEF Restart
      <2> QED
        BY <2>1, <2>2, <2>3, <2>4, <2>5, <2>6, <2>7, <2>8, <2>9, <2>10, <2>11, <2>12, <2>13
    <1>3. Calling'
      BY <1>1, SameLog DEF IInv, Control, Calling, InCall, Entry, log, Connect, CheckTimescale,
             CheckTables, Ping, DependencyFails, StartFails, FirstStopStep, Serve, Signal,
             ServerEnds, Wake, Drain, CloseRedis, CloseDatabase, Restart, Starting, Stopping
    <1>4. Logged'
      BY <1>1, SameLog DEF IInv, Control, Calling, InCall, Logged, log, Connect, CheckTimescale,
             CheckTables, Ping, DependencyFails, StartFails, FirstStopStep, Serve, Signal,
             ServerEnds, Wake, Drain, CloseRedis, CloseDatabase, Restart, Starting, Stopping
    <1>5. Doubt'
      <2>1. call[App] = "doubtful" => pc' \notin {"serve", "wait", "drain", "append_stopped"}
        BY DEF IInv, Control, Doubt, Starting, Connect, CheckTimescale, CheckTables, Ping,
              DependencyFails, StartFails, FirstStopStep, Serve, Signal, ServerEnds, Wake, Drain,
              CloseRedis, CloseDatabase, Restart
      <2>2. pc' \in Starting => pc \in Starting
        BY DEF IInv, Control, Starting, Connect, CheckTimescale, CheckTables, Ping,
              DependencyFails, StartFails, FirstStopStep, Serve, Signal, ServerEnds, Wake, Drain,
              CloseRedis, CloseDatabase, Restart
      <2> QED
        BY <1>1, <2>1, <2>2, SameLog DEF IInv, Doubt, log
    <1> QED
      BY <1>1, <1>2, <1>3, <1>4, <1>5, SameLog DEF IInv

\* main starts: it is a new run, of which the audit log holds nothing.
LEMMA LaunchStep ==
    ASSUME IInv, Launch
    PROVE  IInv'
    <1>1. run \in 0..MaxRuns /\ run' = run + 1 /\ run' \in 0..MaxRuns
      BY RunsAssumption DEF IInv, TypeOK, Launch
    <1>2. ledger \in Seq(Entries) /\ Len(ledger) \in Nat
      BY DEF IInv, TypeOK, Log!TypeOK
    <1>3. \A i \in 1..Len(ledger) : ledger[i].run \in Nat /\ ledger[i].run <= run
      <2> SUFFICES ASSUME NEW i \in 1..Len(ledger)
                   PROVE  ledger[i].run \in Nat /\ ledger[i].run <= run
        OBVIOUS
      <2>1. ledger[i] \in Entries
        BY <1>2
      <2> QED
        BY <2>1 DEF IInv, Logged, Entries
    <1>4. TypeOK' /\ Control' /\ Calling' /\ Doubt' /\ RunsAreBracketed'
      <2> USE DEF IInv, Launch, log
      <2>1. TypeOK'
        BY <1>1 DEF TypeOK, Log!TypeOK, Starting
      <2>2. Control'
        BY <1>1 DEF Control, Returned, Starting
      <2>3. Calling'
        BY DEF Calling, InCall
      <2>4. RunsAreBracketed'
        BY DEF RunsAreBracketed, Recorded
      <2>5. call[App] = "doubtful" => body[App] \in Entries /\ body[App].run \in Nat
        BY DEF TypeOK, Log!TypeOK, Entries
      <2>6. Doubt'
        BY <1>1, <2>5 DEF Doubt, Fits, Recorded
      <2> QED
        BY <2>1, <2>2, <2>3, <2>4, <2>6
    <1>5. Logged'
      <2>1. UNCHANGED ledger /\ ~started' /\ pc' \in {"connect", "ended"} /\ outcome' # "0"
        BY DEF IInv, Control, Launch, log
      <2>2. ~Recorded(run, "stopped")'
        BY <2>1, <1>1, <1>2, <1>3 DEF Recorded
      <2> QED
        BY <2>1, <2>2, <1>1, <1>2, <1>3 DEF Logged, Starting
    <1> QED
      BY <1>4, <1>5 DEF IInv

\* The call of the audit log that start or stop makes.
LEMMA CallStep ==
    ASSUME IInv, NEW action \in {"started", "stopped"}, NEW at,
           \/ at = "append_started" /\ action = "started"
           \/ at = "append_stopped" /\ action = "stopped",
           pc = at, Log!Call(App), body' = [body EXCEPT ![App] = Entry(action)],
           UNCHANGED <<pc, started, pool, redis, server, stopping, handlers, attempted, outcome,
                       mishap, run>>
    PROVE  IInv'
    <1> USE DEF Log!Call
    <1>1. run \in 1..MaxRuns
      BY DEF IInv, TypeOK, Control
    <1>2. Entry(action) \in Entries
      BY <1>1 DEF Entry, Entries
    <1>3. TypeOK'
      BY <1>2 DEF IInv, TypeOK, Log!TypeOK
    <1>4. call[App] = "none" /\ call'[App] = "open" /\ body'[App] = Entry(action)
      BY DEF IInv, TypeOK, Log!TypeOK
    <1>5. \A r, a : Recorded(r, a)' <=> Recorded(r, a)
      BY DEF Recorded
    <1>6. Control' /\ RunsAreBracketed'
      BY <1>5 DEF IInv, Control, Returned, RunsAreBracketed
    <1>7. Calling' /\ Doubt'
      BY <1>4 DEF IInv, Calling, InCall, Entry, Doubt
    <1>8. Logged'
      BY <1>4, <1>5 DEF IInv, Logged
    <1> QED
      BY <1>3, <1>6, <1>7, <1>8 DEF IInv

\* An entry that is being appended comes after every entry there is: the start, if
\* it is the stop, is of this run, and any other entry of an earlier one.
LEMMA OpenFits ==
    ASSUME IInv, call[App] = "open"
    PROVE  body[App] \in Entries /\ body[App].run = run /\ Fits(body[App])
    <1> DEFINE e == body[App]
    <1>1. ledger \in Seq(Entries) /\ e \in Entries /\ Len(ledger) \in Nat
      BY DEF IInv, TypeOK, Log!TypeOK
    <1>2. /\ pc \in {"append_started", "append_stopped"}
          /\ e = Entry(IF pc = "append_started" THEN "started" ELSE "stopped")
      BY DEF IInv, Calling, InCall
    <1>3. e.run = run /\ e.action \in {"started", "stopped"} /\ run \in Nat
      BY <1>2, RunsAssumption DEF Entry, IInv, TypeOK
    <1>4. ASSUME NEW i \in 1..Len(ledger)
          PROVE  InOrder(ledger[i], e)
      <2>1. ledger[i] \in Entries /\ ledger[i].run \in Nat /\ ledger[i].run <= run
        <3>1. ledger[i] \in Entries
          BY <1>1
        <3> QED
          BY <3>1 DEF IInv, Logged, Entries
      <2>2. CASE pc = "append_started"
        BY <2>1, <2>2, <1>3 DEF IInv, Logged, Starting, InOrder
      <2>3. CASE pc = "append_stopped"
        <3>1. ~Recorded(run, "stopped")
          BY <2>3 DEF IInv, Logged
        <3>2. /\ ledger[i] = [run |-> ledger[i].run, action |-> ledger[i].action]
              /\ ledger[i].action \in {"started", "stopped"}
          BY <2>1 DEF Entries
        <3>3. ledger[i].run = run => ledger[i].action = "started"
          BY <3>1, <3>2 DEF Recorded
        <3> QED
          BY <2>1, <2>3, <3>3, <1>2, <1>3 DEF Entry, InOrder
      <2> QED
        BY <2>2, <2>3, <1>2
    <1>5. e.action = "stopped" => Recorded(e.run, "started")
      BY <1>2, <1>3 DEF Entry, IInv, Control, Logged
    <1> QED
      BY <1>1, <1>3, <1>4, <1>5 DEF Fits

\* What becomes of the log when an entry that fits is recorded.
LEMMA AppendKeepsOrder ==
    ASSUME ledger \in Seq(Entries), RunsAreBracketed, NEW e \in Entries, Fits(e),
           ledger' = Append(ledger, e)
    PROVE  /\ RunsAreBracketed'
           /\ ledger' \in Seq(Entries) /\ Len(ledger) \in Nat /\ Len(ledger') = Len(ledger) + 1
           /\ ledger'[Len(ledger) + 1] = e
           /\ \A i \in 1..Len(ledger) : ledger'[i] = ledger[i] /\ ledger[i] \in Entries
           /\ \A r, action : Recorded(r, action) => Recorded(r, action)'
           /\ \A r, action : Recorded(r, action)' =>
                 Recorded(r, action) \/ e = [run |-> r, action |-> action]
           /\ Recorded(e.run, e.action)'
    <1> DEFINE n == Len(ledger)
    <1>1. n \in Nat /\ ledger' \in Seq(Entries) /\ Len(ledger') = n + 1 /\ ledger'[n + 1] = e
      OBVIOUS
    <1>2. \A i \in 1..n : ledger'[i] = ledger[i] /\ ledger[i] \in Entries
      OBVIOUS
    <1>3. \A r, action : Recorded(r, action) => Recorded(r, action)'
      BY <1>1, <1>2 DEF Recorded
    <1>4. ASSUME NEW r, NEW action, Recorded(r, action)'
          PROVE  Recorded(r, action) \/ e = [run |-> r, action |-> action]
      BY <1>1, <1>2, <1>4 DEF Recorded
    <1>5. Recorded(e.run, e.action)'
      <2>1. e = [run |-> e.run, action |-> e.action]
        BY DEF Entries
      <2> QED
        BY <2>1, <1>1 DEF Recorded
    <1> HIDE DEF n
    <1>6. \A i, j \in 1..(n + 1) : i < j => InOrder(ledger'[i], ledger'[j])
      <2> SUFFICES ASSUME NEW i \in 1..(n + 1), NEW j \in 1..(n + 1), i < j
                   PROVE  InOrder(ledger'[i], ledger'[j])
        OBVIOUS
      <2>1. i \in 1..n
        BY <1>1
      <2>2. CASE j \in 1..n
        BY <2>1, <2>2, <1>2, Bracketing DEF n
      <2>3. CASE j = n + 1
        BY <2>1, <2>3, <1>1, <1>2 DEF Fits, n
      <2> QED
        BY <2>2, <2>3, <1>1
    <1>7. ASSUME NEW j \in 1..(n + 1), ledger'[j].action = "stopped"
          PROVE  \E k \in 1..(n + 1) :
                    ledger'[k] = [run |-> ledger'[j].run, action |-> "started"]
      <2>1. \E k \in 1..n : ledger[k] = [run |-> ledger'[j].run, action |-> "started"]
        <3>1. CASE j \in 1..n
          BY <3>1, <1>2, <1>7, Bracketing DEF Recorded, n
        <3>2. CASE j = n + 1
          BY <3>2, <1>1, <1>7 DEF Fits, Recorded, n
        <3> QED
          BY <3>1, <3>2, <1>1
      <2> QED
        BY <2>1, <1>1, <1>2
    <1>8. RunsAreBracketed'
      BY <1>1, <1>6, <1>7 DEF RunsAreBracketed, InOrder, Recorded
    <1> QED
      BY <1>1, <1>2, <1>3, <1>4, <1>5, <1>8 DEF n

\* The recording of the call under way.
LEMMA RecordStep ==
    ASSUME IInv, Log!Record(App), pc \in {"append_started", "append_stopped"},
           UNCHANGED <<pc, started, pool, redis, server, stopping, handlers, attempted, outcome,
                       mishap, run>>
    PROVE  IInv'
    <1> DEFINE n == Len(ledger)
               e == body[App]
    <1>1. /\ call[App] = "open" /\ call'[App] = "recorded" /\ UNCHANGED <<body, answers>>
          /\ call' \in [{App} -> {"none", "open", "recorded", "doubtful"}]
          /\ ledger \in Seq(Entries) /\ ledger' = Append(ledger, e)
      BY DEF IInv, TypeOK, Log!TypeOK, Log!Record
    <1>2. e \in Entries /\ e.run = run /\ Fits(e) /\ run \in Nat
      BY <1>1, OpenFits, RunsAssumption DEF IInv, TypeOK
    <1>3. e = Entry(IF pc = "append_started" THEN "started" ELSE "stopped")
      BY <1>1 DEF IInv, Calling, InCall
    <1>4. /\ RunsAreBracketed'
          /\ ledger' \in Seq(Entries) /\ n \in Nat /\ Len(ledger') = n + 1 /\ ledger'[n + 1] = e
          /\ \A i \in 1..n : ledger'[i] = ledger[i] /\ ledger[i] \in Entries
          /\ \A r, action : Recorded(r, action) => Recorded(r, action)'
          /\ \A r, action : Recorded(r, action)' =>
                Recorded(r, action) \/ e = [run |-> r, action |-> action]
          /\ Recorded(e.run, e.action)'
      BY <1>1, <1>2, AppendKeepsOrder DEF IInv
    <1> HIDE DEF n, e
    <1>5. TypeOK'
      BY <1>1, <1>4 DEF IInv, TypeOK, Log!TypeOK
    <1>6. Control' /\ Doubt'
      BY <1>1 DEF IInv, Control, Returned, Doubt
    <1>7. Calling'
      BY <1>1, <1>2, <1>4 DEF IInv, Calling, InCall, Entry, e
    <1>8. Logged'
      <2>1. \A i \in 1..(n + 1) : ledger'[i].run <= run
        BY <1>2, <1>4 DEF IInv, Logged, n
      <2>2. pc = "append_started" => ~Recorded(run, "stopped")'
        <3>1. pc = "append_started" => e.action = "started"
          BY <1>3 DEF Entry
        <3>2. pc = "append_started" => ~Recorded(run, "stopped")
          BY DEF IInv, Logged, Starting
        <3>3. e # [run |-> run, action |-> "stopped"] \/ e.action = "stopped"
          OBVIOUS
        <3> QED
          BY <3>1, <3>2, <3>3, <1>4
      <2> QED
        BY <2>1, <2>2, <1>1, <1>4 DEF IInv, Logged, Starting
    <1> QED
      BY <1>4, <1>5, <1>6, <1>7, <1>8 DEF IInv

\* A COMMIT in doubt takes effect or does not.  It is of an earlier run, or this
\* run has nothing more to record.
LEMMA SettleStep ==
    ASSUME IInv, Settle
    PROVE  IInv'
    <1> DEFINE e == body[App]
    <1>1. /\ call[App] = "doubtful" /\ call'[App] = "none" /\ UNCHANGED <<body, answers>>
          /\ call' \in [{App} -> {"none", "open", "recorded", "doubtful"}]
          /\ ledger \in Seq(Entries) /\ e \in Entries
          /\ UNCHANGED <<pc, started, pool, redis, server, stopping, handlers, attempted,
                         outcome, mishap, run>>
      BY DEF IInv, TypeOK, Log!TypeOK, Settle, Log!RecordLate, Log!Forget
    <1>2. Control' /\ Doubt'
      BY <1>1 DEF IInv, Control, Returned, Doubt
    <1>3. CASE UNCHANGED ledger
      <2>1. \A r, action : Recorded(r, action)' <=> Recorded(r, action)
        BY <1>3 DEF Recorded
      <2>2. TypeOK' /\ RunsAreBracketed'
        BY <1>1, <1>3, <2>1 DEF IInv, TypeOK, Log!TypeOK, RunsAreBracketed
      <2>3. Calling' /\ Logged'
        BY <1>1, <1>3, <2>1 DEF IInv, Calling, InCall, Logged
      <2> QED
        BY <1>2, <2>2, <2>3 DEF IInv
    <1>4. CASE ledger' = Append(ledger, e)
      <2> DEFINE n == Len(ledger)
      <2>1. /\ Fits(e) /\ e.run \in Nat /\ run \in Nat /\ e.run <= run
            /\ pc \in Starting => e.run < run
            /\ pc \notin {"serve", "wait", "drain", "append_stopped"}
        BY <1>1, RunsAssumption DEF IInv, TypeOK, Doubt, Entries
      <2>2. /\ RunsAreBracketed'
            /\ ledger' \in Seq(Entries) /\ n \in Nat /\ Len(ledger') = n + 1
            /\ ledger'[n + 1] = e
            /\ \A i \in 1..n : ledger'[i] = ledger[i] /\ ledger[i] \in Entries
            /\ \A r, action : Recorded(r, action) => Recorded(r, action)'
            /\ \A r, action : Recorded(r, action)' =>
                  Recorded(r, action) \/ e = [run |-> r, action |-> action]
        BY <1>1, <1>4, <2>1, AppendKeepsOrder DEF IInv
      <2> HIDE DEF n, e
      <2>3. TypeOK'
        BY <1>1, <2>2 DEF IInv, TypeOK, Log!TypeOK
      <2>4. Calling'
        BY <1>1 DEF IInv, Calling, InCall
      <2>5. \A i \in 1..(n + 1) : ledger'[i].run <= run
        BY <2>1, <2>2 DEF IInv, Logged, n
      <2>6. pc \in Starting => \A i \in 1..(n + 1) : ledger'[i].run # run
        BY <1>1, <2>1, <2>2 DEF IInv, Logged, n
      <2>7. pc \in Starting => ~Recorded(run, "stopped")'
        BY <1>1, <2>1, <2>2 DEF IInv, Logged
      <2>8. Logged'
        BY <1>1, <2>1, <2>2, <2>5, <2>6, <2>7 DEF IInv, Logged
      <2> QED
        BY <1>2, <2>2, <2>3, <2>4, <2>8 DEF IInv
    <1> QED
      BY <1>3, <1>4 DEF Settle, Log!RecordLate, Log!Forget

\* The end of the call: an answer, or an exception, which does not say whether the
\* entry was recorded.
LEMMA AnswerStep ==
    ASSUME IInv, StartedAnswered \/ StartedRaises \/ StoppedAnswered
    PROVE  IInv'
    <1>1. /\ call'[App] \in {"none", "doubtful"}
          /\ call' \in [{App} -> {"none", "open", "recorded", "doubtful"}]
          /\ UNCHANGED <<ledger, body, run>>
      <2>1. call \in [{App} -> {"none", "open", "recorded", "doubtful"}]
        BY DEF IInv, TypeOK, Log!TypeOK
      <2>2. UNCHANGED run
        BY DEF StartedAnswered, StartedRaises, StoppedAnswered, StartFails
      <2>3. CASE Log!Answer(App)
        BY <2>1, <2>2, <2>3 DEF Log!Answer
      <2>4. CASE Log!Raise(App)
        BY <2>1, <2>2, <2>4 DEF Log!Raise
      <2>5. CASE call[App] = "doubtful" /\ UNCHANGED log
        BY <2>1, <2>2, <2>5 DEF log
      <2> QED
        BY <2>3, <2>4, <2>5 DEF StartedAnswered, StartedRaises, StoppedAnswered
    <1>2. ledger \in Seq(Entries) /\ body \in [{App} -> Entries] /\ App \in {App}
      BY DEF IInv, TypeOK, Log!TypeOK
    <1>3. answers' \subseteq [sequence : Nat \ {0}, body : Entries]
      <2>1. CASE Log!Raise(App) \/ UNCHANGED log
        BY <2>1 DEF Log!Raise, log, IInv, TypeOK, Log!TypeOK
      <2>2. CASE Log!Answer(App)
        <3>1. PICK i \in 1..Len(ledger) :
                 answers' = answers \cup {[sequence |-> i, body |-> body[App]]}
          BY <2>2 DEF Log!Answer
        <3>2. i \in Nat \ {0} /\ body[App] \in Entries
          BY <1>2
        <3> QED
          BY <3>1, <3>2 DEF IInv, TypeOK, Log!TypeOK
      <2> QED
        BY <2>1, <2>2 DEF StartedAnswered, StartedRaises, StoppedAnswered
    <1>4. \A r, action : Recorded(r, action)' <=> Recorded(r, action)
      BY <1>1 DEF Recorded
    <1>5. Log!TypeOK' /\ RunsAreBracketed'
      BY <1>1, <1>2, <1>3 DEF IInv, Log!TypeOK, RunsAreBracketed, Recorded
    <1>9. Doubt'
      <2>1. CASE Log!Answer(App)
        BY <2>1, <1>1 DEF IInv, TypeOK, Log!TypeOK, Log!Answer, Doubt
      <2>2. CASE Log!Raise(App) /\ call'[App] = "doubtful"
        <3>1. call[App] = "open"
          BY <2>2 DEF IInv, TypeOK, Log!TypeOK, Log!Raise
        <3>2. body[App].run = run /\ run \in Nat /\ Fits(body[App])'
          BY <1>1, <1>4, <3>1, OpenFits, RunsAssumption DEF Fits, IInv, TypeOK
        <3>3. pc' = "close_redis"
          BY <2>2, <3>1 DEF StartedAnswered, StartedRaises, StoppedAnswered, StartFails,
                FirstStopStep, IInv, Control, Starting, Log!Answer
        <3> QED
          BY <3>2, <3>3, <1>1 DEF Doubt, Starting
      <2>3. CASE StartedRaises /\ UNCHANGED log
        BY <2>3, <1>1, <1>4 DEF StartedRaises, StartFails, FirstStopStep, log, IInv, Control,
              Doubt, Fits, Starting
      <2> QED
        BY <2>1, <2>2, <2>3, <1>1 DEF StartedAnswered, StartedRaises, StoppedAnswered, Doubt
    <1>6. CASE StartedAnswered
      <2>1. Recorded(run, "started")
        BY <1>6 DEF StartedAnswered, Log!Answer, IInv, Calling, InCall, Entry
      <2>2. TypeOK' /\ Control' /\ Calling'
        BY <1>1, <1>5, <1>6 DEF IInv, TypeOK, Control, Calling, InCall, Returned, Starting, Stopping,
              StartedAnswered
      <2>3. ~Recorded(run, "stopped")
        BY <1>6 DEF IInv, Logged, Starting, StartedAnswered
      <2>4. Logged'
        BY <1>1, <1>4, <1>6, <2>1, <2>3 DEF IInv, Logged, Starting, StartedAnswered
      <2> QED
        BY <1>5, <1>9, <2>2, <2>4 DEF IInv
    <1>7. CASE StartedRaises
      <2>1. pc' = "close_redis" /\ outcome' = "1"
        BY <1>7 DEF StartedRaises, StartFails, FirstStopStep, IInv, Control, Starting
      <2>2. TypeOK' /\ Control' /\ Calling' /\ Logged'
        BY <1>1, <1>4, <1>5, <1>7, <2>1 DEF IInv, TypeOK, Control, Calling, InCall, Logged, Returned,
              Starting, Stopping, StartedRaises, StartFails
      <2> QED
        BY <1>5, <1>9, <2>2 DEF IInv
    <1>8. CASE StoppedAnswered
      <2>1. mishap' \in BOOLEAN
        BY <1>8 DEF IInv, TypeOK, StoppedAnswered
      <2>2. TypeOK'
        BY <1>1, <1>5, <1>8, <2>1 DEF IInv, TypeOK, Stopping, StoppedAnswered
      <2>3. Control' /\ Calling'
        BY <1>1, <1>5, <1>8 DEF IInv, TypeOK, Control, Calling, InCall, Returned, Starting, Stopping,
              StoppedAnswered
      <2>4. Recorded(run, "started") /\ (mishap' \/ Recorded(run, "stopped"))
        BY <1>8 DEF IInv, Control, Calling, InCall, Logged, Entry, StoppedAnswered, Log!Answer
      <2>5. Logged'
        BY <1>1, <1>4, <1>8, <2>4 DEF IInv, Logged, Starting, StoppedAnswered
      <2> QED
        BY <1>5, <1>9, <2>2, <2>3, <2>5 DEF IInv
    <1> QED
      BY <1>6, <1>7, <1>8

\* An interrupt or a kill: the append under way is abandoned, and no other step of
\* this run comes.
LEMMA CutShort ==
    ASSUME IInv, Interrupt \/ Kill
    PROVE  IInv'
    <1>1. /\ pc # "down" /\ pc' = "ended" /\ outcome' \in {"interrupted", "killed"} /\ Abandon
          /\ UNCHANGED <<started, pool, redis, server, stopping, handlers, attempted, mishap, run>>
      BY DEF Interrupt, Kill, Starting, Stopping
    <1>2. call'[App] \in {"none", "doubtful"} /\ UNCHANGED <<ledger, body, answers>>
      BY <1>1 DEF Abandon, log, Log!Raise, IInv, TypeOK, Log!TypeOK
    <1>3. call' \in [{App} -> {"none", "open", "recorded", "doubtful"}]
      BY <1>1 DEF Abandon, log, Log!Raise, IInv, TypeOK, Log!TypeOK
    <1>4. \A r, action : Recorded(r, action)' <=> Recorded(r, action)
      BY <1>2 DEF Recorded
    <1>5. TypeOK'
      BY <1>1, <1>2, <1>3 DEF IInv, TypeOK, Log!TypeOK
    <1>6. Control'
      BY <1>1 DEF IInv, Control, Returned, Starting
    <1>7. Calling' /\ Logged'
      BY <1>1, <1>2, <1>4 DEF IInv, Calling, InCall, Logged, Starting
    <1>8. RunsAreBracketed'
      BY <1>2 DEF IInv, RunsAreBracketed, Recorded
    <1>9. Doubt'
      <2>1. CASE call[App] = "open"
        <3>1. body[App].run = run /\ run \in Nat /\ Fits(body[App])'
          BY <1>2, <1>4, <2>1, OpenFits, RunsAssumption DEF Fits, IInv, TypeOK
        <3> QED
          BY <3>1, <1>1, <1>2 DEF Doubt, Starting
      <2>2. CASE call[App] = "doubtful"
        BY <2>2, <1>1, <1>2, <1>4 DEF IInv, Doubt, Fits, Starting
      <2>3. CASE call[App] \in {"none", "recorded"}
        <3>1. call'[App] = "none"
          BY <2>3, <1>1 DEF Abandon, log, Log!Raise, IInv, TypeOK, Log!TypeOK
        <3> QED
          BY <3>1 DEF Doubt
      <2> QED
        BY <2>1, <2>2, <2>3 DEF IInv, TypeOK, Log!TypeOK
    <1> QED
      BY <1>5, <1>6, <1>7, <1>8, <1>9 DEF IInv

\* Every step keeps the invariant.
LEMMA NextInv == IInv /\ [Next]_vars => IInv'
    <1> SUFFICES ASSUME IInv, [Next]_vars PROVE IInv'
      OBVIOUS
    <1>1. CASE Launch
      BY <1>1, LaunchStep
    <1>2. CASE AppendStarted
      <2>1. CASE Log!Record(App)
        BY <1>2, <2>1, RecordStep DEF AppendStarted, Appends
      <2>2. CASE ~Log!Record(App)
        BY <1>2, <2>2, CallStep DEF AppendStarted, Appends
      <2> QED
        BY <2>1, <2>2
    <1>3. CASE AppendStopped
      <2>1. CASE Log!Record(App)
        BY <1>3, <2>1, RecordStep DEF AppendStopped, Appends
      <2>2. CASE ~Log!Record(App)
        BY <1>3, <2>2, CallStep DEF AppendStopped, Appends
      <2> QED
        BY <2>1, <2>2
    <1>4. CASE StartedAnswered \/ StartedRaises \/ StoppedAnswered
      BY <1>4, AnswerStep
    <1>5. CASE Interrupt \/ Kill
      BY <1>5, CutShort
    <1>8. CASE Settle
      BY <1>8, SettleStep
    <1>6. CASE \/ Connect \/ CheckTimescale \/ CheckTables \/ Ping \/ DependencyFails \/ Serve
               \/ Signal \/ ServerEnds \/ Wake \/ Drain \/ CloseRedis \/ CloseDatabase \/ Restart
      BY <1>6, QuietStep
    <1>7. CASE UNCHANGED vars
      BY <1>7 DEF vars, log, IInv, TypeOK, Log!TypeOK, Control, Calling, InCall, Logged, Doubt,
            Fits, Returned, Entry, RunsAreBracketed, Recorded
    <1> QED
      BY <1>1, <1>2, <1>3, <1>4, <1>5, <1>6, <1>7, <1>8 DEF Next, Step

-----------------------------------------------------------------------------
\* IInv is an invariant, however often the process is launched, signalled,
\* interrupted and killed: what is open, started and recorded at every await of
\* Application.run.
THEOREM Invariance == Spec => []IInv
    BY InitInv, NextInv, PTL DEF Spec

\* Every state is of its type (app/runtime.py's attributes and the audit log).
THEOREM TypeCorrect == Spec => []TypeOK
    <1>1. IInv => TypeOK
      BY DEF IInv
    <1> QED
      BY <1>1, Invariance, PTL

\* A run that comes to its own end has tried to close both dependencies, whichever
\* step failed before (Application.stop).
THEOREM ClosesAreAttempted == Spec => []EveryCloseAttempted
    <1>1. IInv => EveryCloseAttempted
      BY DEF IInv, Control, EveryCloseAttempted
    <1> QED
      BY <1>1, Invariance, PTL

\* The server runs on open dependencies, and stop() begins after its last request
\* (Application.serve, stop).
THEOREM DrainsBeforeClose == Spec => []DrainBeforeClose
    <1>1. IInv => DrainBeforeClose
      BY DEF IInv, Control, DrainBeforeClose, Stopping
    <1> QED
      BY <1>1, Invariance, PTL

\* No process serves before its own start is in the audit log (Application.start).
THEOREM ServesRecorded == Spec => []NeverServesUnrecorded
    <1>1. IInv => NeverServesUnrecorded
      BY DEF IInv, Control, Logged, NeverServesUnrecorded
    <1> QED
      BY <1>1, Invariance, PTL

\* The log tells the runs apart: one start, then at most one stop, and the runs in
\* their order (Application.start, stop).
THEOREM LogTellsRunsApart == Spec => []RunsAreBracketed
    <1>1. IInv => RunsAreBracketed
      BY DEF IInv
    <1> QED
      BY <1>1, Invariance, PTL

\* A run that ended with exit code 0, and whose stop entry met no error, has both
\* its entries (Application.run).
THEOREM CleanRunIsRecorded == Spec => []CleanRunHasBoth
    <1>1. IInv => CleanRunHasBoth
      BY DEF IInv, Logged, CleanRunHasBoth, Returned
    <1> QED
      BY <1>1, Invariance, PTL
=============================================================================
