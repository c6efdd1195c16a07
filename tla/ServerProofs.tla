---------------------------- MODULE ServerProofs -----------------------------
(***************************************************************************)
(* Proofs about Readiness and OperationalServer, for every number of       *)
(* requests, of other users of the pool, and of connections.               *)
(*                                                                         *)
(* A step of the server is one of the readiness registry or leaves it      *)
(* alone, so what holds of the registry holds of the server.               *)
(***************************************************************************)
EXTENDS OperationalServer, FiniteSetTheorems, TLAPS

-----------------------------------------------------------------------------
\* The registry.

Typed ==
    /\ condition \in [Checks -> {"up", "down", "silent"}]
    /\ changes \in 0..MaxChanges
    /\ phase \in [Evaluations -> {"new", "running", "pass", "fail"}]
    /\ probe \in [Evaluations -> [Checks -> {"none", "acquiring", "asked", "pass", "fail"}]]
    /\ wasUp \in [Evaluations -> SUBSET Checks]
    /\ ready \in {0, 1}

\* Connections are with the statements and with the database checks that have asked,
\* and they are no more than the pool has.
Lent ==
    /\ holders \subseteq Evaluations \cup Statements
    /\ IsFiniteSet(holders) /\ Cardinality(holders) <= MaxPool
    /\ \A e \in Evaluations : e \in holders <=> probe[e]["database"] = "asked"

\* Checks run within their evaluation, which knows what is and was up: a check that
\* passes was answered, and what answers is up.
Earned ==
    \A e \in Evaluations :
       /\ phase[e] = "pass" => wasUp[e] = Checks
       /\ phase[e] # "running" => \A d \in Checks : probe[e][d] = "none"
       /\ phase[e] = "running" =>
             \A d \in Checks : condition[d] = "up" \/ probe[e][d] = "pass" => d \in wasUp[e]

RegistryInv == Typed /\ Lent /\ Earned

\* No evaluation runs yet.
LEMMA RegistryInit == Init => RegistryInv
    <1> SUFFICES ASSUME Init PROVE RegistryInv
      OBVIOUS
    <1>1. Typed
      BY PoolAssumption DEF Init, Typed, Checks
    <1>2. Lent
      BY PoolAssumption, FS_EmptySet DEF Init, Lent, Checks
    <1>3. Earned
      BY DEF Init, Earned
    <1> QED
      BY <1>1, <1>2, <1>3 DEF RegistryInv

\* A connection that is lent while one is free leaves at most the whole pool lent.
LEMMA LendOne ==
    ASSUME Lent, HasFreeConnection, NEW x
    PROVE  IsFiniteSet(holders \cup {x}) /\ Cardinality(holders \cup {x}) <= MaxPool
    <1>1. /\ IsFiniteSet(holders) /\ Cardinality(holders) \in Nat
          /\ Cardinality(holders) < MaxPool
      BY FS_CardinalityType DEF Lent, HasFreeConnection
    <1>2. /\ IsFiniteSet(holders \cup {x})
          /\ Cardinality(holders \cup {x}) =
                IF x \in holders THEN Cardinality(holders) ELSE Cardinality(holders) + 1
      BY <1>1, FS_AddElement
    <1> QED
      BY <1>1, <1>2, PoolAssumption

\* A probe that ends gives its connection back.
LEMMA GiveOneBack ==
    ASSUME Lent, NEW x
    PROVE  IsFiniteSet(holders \ {x}) /\ Cardinality(holders \ {x}) <= MaxPool
    <1>1. IsFiniteSet(holders) /\ Cardinality(holders) \in Nat /\ Cardinality(holders) <= MaxPool
      BY FS_CardinalityType DEF Lent
    <1>2. /\ IsFiniteSet(holders \ {x})
          /\ Cardinality(holders \ {x}) =
                IF x \in holders THEN Cardinality(holders) - 1 ELSE Cardinality(holders)
      BY <1>1, FS_RemoveElement
    <1> QED
      BY <1>1, <1>2, PoolAssumption

\* An evaluation concludes from the answers of its own probes.
LEMMA ConcludeStep ==
    ASSUME RegistryInv, NEW e \in Evaluations, NEW d \in Checks,
           NEW result \in {"pass", "fail"}, Conclude(e, d, result),
           probe[e][d] \in {"acquiring", "asked"},
           result = "pass" => condition[d] = "up"
    PROVE  RegistryInv'
    <1>1. /\ probe' = [probe EXCEPT ![e][d] = result]
          /\ holders' = IF d = "database" THEN holders \ {e} ELSE holders
          /\ condition' = condition /\ changes' = changes /\ phase' = phase
          /\ wasUp' = wasUp /\ ready' = ready
      BY DEF Conclude
    <1>2. Typed /\ Lent /\ Earned
      BY DEF RegistryInv
    <1>3. Typed'
      BY <1>1, <1>2 DEF Typed
    <1>4. \A f \in Evaluations, c \in Checks :
             probe'[f][c] = IF f = e /\ c = d THEN result ELSE probe[f][c]
      BY <1>1, <1>2 DEF Typed
    <1>5. Lent'
      <2>1. IsFiniteSet(holders') /\ Cardinality(holders') <= MaxPool
        BY <1>1, <1>2, GiveOneBack DEF Lent
      <2> QED
        BY <1>1, <1>2, <1>4, <2>1 DEF Lent, Checks
    <1>6. Earned'
      BY <1>1, <1>2, <1>4 DEF Earned
    <1> QED
      BY <1>3, <1>5, <1>6 DEF RegistryInv

\* Every step of the registry keeps its invariant.
LEMMA RegistryNext == RegistryInv /\ [Next]_vars => RegistryInv'
    <1> SUFFICES ASSUME RegistryInv, [Next]_vars PROVE RegistryInv'
      OBVIOUS
    <1>1. Typed /\ Lent /\ Earned
      BY DEF RegistryInv
    <1>2. ASSUME NEW d \in Checks, Change(d) PROVE RegistryInv'
      <2>1. PICK c \in {"up", "down", "silent"} : condition' = [condition EXCEPT ![d] = c]
        BY <1>2 DEF Change
      <2>2. /\ changes < MaxChanges /\ changes' = changes + 1
            /\ wasUp' = [e \in Evaluations |->
                            IF phase[e] = "running" /\ condition'[d] = "up"
                            THEN wasUp[e] \cup {d} ELSE wasUp[e]]
            /\ holders' = holders /\ phase' = phase /\ probe' = probe /\ ready' = ready
        BY <1>2 DEF Change
      <2>3. condition' \in [Checks -> {"up", "down", "silent"}] /\ changes' \in 0..MaxChanges
        BY <1>1, <2>1, <2>2, PoolAssumption DEF Typed
      <2>4. wasUp' \in [Evaluations -> SUBSET Checks]
        BY <1>1, <2>2 DEF Typed
      <2>5. Typed' /\ Lent'
        BY <1>1, <2>2, <2>3, <2>4 DEF Typed, Lent
      <2>6. \A b \in Checks : b # d => condition'[b] = condition[b]
        BY <1>1, <2>1 DEF Typed
      <2>7. Earned'
        BY <1>1, <2>2, <2>6 DEF Earned, Typed
      <2> QED
        BY <2>5, <2>7 DEF RegistryInv
    <1>3. ASSUME NEW s \in Statements, Borrow(s) PROVE RegistryInv'
      <2>1. IsFiniteSet(holders') /\ Cardinality(holders') <= MaxPool
        BY <1>1, <1>3, LendOne DEF Borrow
      <2> QED
        BY <1>1, <1>3, <2>1, PoolAssumption DEF RegistryInv, Borrow, Typed, Lent, Earned
    <1>4. ASSUME NEW s \in Statements, GiveBack(s) PROVE RegistryInv'
      <2>1. IsFiniteSet(holders') /\ Cardinality(holders') <= MaxPool
        BY <1>1, <1>4, GiveOneBack DEF GiveBack
      <2> QED
        BY <1>1, <1>4, <2>1, PoolAssumption DEF RegistryInv, GiveBack, Typed, Lent, Earned
    <1>5. ASSUME NEW e \in Evaluations, Evaluate(e) PROVE RegistryInv'
      <2>1. /\ phase[e] = "new" /\ phase' = [phase EXCEPT ![e] = "running"]
            /\ probe' = [probe EXCEPT ![e] = [database |-> "acquiring", redis |-> "asked"]]
            /\ wasUp' = [wasUp EXCEPT ![e] = Up]
            /\ condition' = condition /\ changes' = changes /\ holders' = holders
            /\ ready' = ready
        BY <1>5 DEF Evaluate
      <2>2. [database |-> "acquiring", redis |-> "asked"] \in
               [Checks -> {"none", "acquiring", "asked", "pass", "fail"}]
        BY DEF Checks
      <2>3. Typed'
        BY <1>1, <2>1, <2>2 DEF Typed, Up
      <2>4. \A f \in Evaluations, d \in Checks :
               /\ f # e => probe'[f][d] = probe[f][d]
               /\ probe'[e][d] = IF d = "database" THEN "acquiring" ELSE "asked"
        BY <1>1, <2>1 DEF Typed, Checks
      <2>5. Lent'
        BY <1>1, <2>1, <2>4 DEF Lent, Earned, Checks
      <2>6. Earned'
        BY <1>1, <2>1, <2>4 DEF Earned, Typed, Up
      <2> QED
        BY <2>3, <2>5, <2>6 DEF RegistryInv
    <1>6. ASSUME NEW e \in Evaluations, Acquire(e) PROVE RegistryInv'
      <2>1. /\ probe[e]["database"] = "acquiring"
            /\ holders' = holders \cup {e}
            /\ probe' = [probe EXCEPT ![e]["database"] = "asked"]
            /\ condition' = condition /\ changes' = changes /\ phase' = phase
            /\ wasUp' = wasUp /\ ready' = ready
        BY <1>6 DEF Acquire
      <2>2. IsFiniteSet(holders') /\ Cardinality(holders') <= MaxPool
        BY <1>1, <1>6, LendOne DEF Acquire
      <2>3. \A f \in Evaluations, d \in Checks :
               probe'[f][d] = IF f = e /\ d = "database" THEN "asked" ELSE probe[f][d]
        BY <1>1, <2>1 DEF Typed, Checks
      <2>4. Typed'
        BY <1>1, <2>1 DEF Typed, Checks
      <2>5. Lent'
        BY <1>1, <2>1, <2>2, <2>3 DEF Lent, Checks
      <2>6. Earned'
        BY <1>1, <2>1, <2>3 DEF Earned, Checks
      <2> QED
        BY <2>4, <2>5, <2>6 DEF RegistryInv
    <1>7. ASSUME NEW e \in Evaluations, Finish(e) PROVE RegistryInv'
      <2>1. /\ phase[e] = "running" /\ \A d \in Checks : probe[e][d] \in {"pass", "fail"}
            /\ phase' = [phase EXCEPT ![e] = Status(e)]
            /\ probe' = [probe EXCEPT ![e] = [d \in Checks |-> "none"]]
            /\ wasUp' = IF Status(e) = "pass" THEN wasUp ELSE [wasUp EXCEPT ![e] = {}]
            /\ ready' \in {0, 1}
            /\ condition' = condition /\ changes' = changes /\ holders' = holders
        BY <1>7 DEF Finish
      <2>2. /\ Status(e) \in {"pass", "fail"}
            /\ Status(e) = "pass" => \A d \in Checks : probe[e][d] = "pass"
        BY DEF Status
      <2>3. Typed'
        BY <1>1, <2>1, <2>2 DEF Typed
      <2>4. \A f \in Evaluations, d \in Checks :
               probe'[f][d] = IF f = e THEN "none" ELSE probe[f][d]
        BY <1>1, <2>1 DEF Typed
      <2>5. Lent'
        BY <1>1, <2>1, <2>4 DEF Lent, Checks
      <2>6. Status(e) = "pass" => wasUp[e] = Checks
        <3>1. wasUp[e] \subseteq Checks
          BY <1>1 DEF Typed
        <3>2. Status(e) = "pass" => \A d \in Checks : d \in wasUp[e]
          BY <1>1, <2>1, <2>2 DEF Earned
        <3> QED
          BY <3>1, <3>2
      <2>7. Earned'
        BY <1>1, <2>1, <2>2, <2>4, <2>6 DEF Earned, Typed
      <2> QED
        BY <2>3, <2>5, <2>7 DEF RegistryInv
    <1>8. ASSUME NEW e \in Evaluations, NEW d \in Checks, Answer(e, d) PROVE RegistryInv'
      BY <1>8, ConcludeStep DEF Answer
    <1>9. ASSUME NEW e \in Evaluations, NEW d \in Checks, Deadline(e, d) PROVE RegistryInv'
      BY <1>9, ConcludeStep DEF Deadline
    <1>10. CASE UNCHANGED vars
      BY <1>1, <1>10 DEF RegistryInv, Typed, Lent, Earned, vars
    <1> QED
      BY <1>2, <1>3, <1>4, <1>5, <1>6, <1>7, <1>8, <1>9, <1>10 DEF Next, Proceed

-----------------------------------------------------------------------------
\* The server.

\* The id that request r is to be found under.
Own(r) == IF request[r].inbound # None THEN request[r].inbound ELSE r

\* The task of an open request has its id bound, whatever it inherited; a trace that
\* was left holds no other.
Traced ==
    /\ DOMAIN context = Tasks /\ DOMAIN request = Requests
    /\ DOMAIN response = Requests /\ DOMAIN checked = Requests
    /\ \A r \in Requests :
          /\ IsOpen(r) => context[r] = Own(r)
          /\ \A id \in checked[r] : id = Own(r)
          /\ response[r].status \notin {None, "500"} => response[r].id = Own(r)
          /\ request[r] = NoRequest => checked[r] = {} /\ response[r] = NoResponse
          /\ request[r] # NoRequest => request[r].path \in Paths

\* What may be bound while the stream consumes its message: what the message arrived
\* with or, once there is a decision, what the first one generated.
Bound ==
    CASE ~message.open -> {None}
      [] message.open /\ message.inbound # None -> {message.inbound}
      [] message.open /\ message.inbound = None /\ message.decisions = 0 -> {None}
      [] OTHER -> {message.of} \X (1..MaxDecisions)

\* The ids that a decision on a message may be recorded under.
Ids(of, inbound) == IF inbound # None THEN {inbound} ELSE {of} \X (1..MaxDecisions)

\* What was recorded of the stream: of the message being consumed, under the id that
\* is bound; of a message to come, nothing.
Recorded ==
    /\ message.of \in Nat /\ message.decisions \in 0..MaxDecisions
    /\ message = [of |-> message.of, inbound |-> message.inbound, open |-> message.open,
                  decisions |-> message.decisions]
    /\ message.open \in BOOLEAN /\ (message.open => message.of > 0)
    /\ context[Consumer] \in Bound
    /\ \A e \in entries :
          /\ e.of \in 1..message.of
          /\ e.id \in Ids(e.of, e.inbound)
          /\ \A other \in entries : other.of = e.of => other.id = e.id
          /\ message.open /\ e.of = message.of =>
                message.decisions > 0 /\ e.id = context[Consumer]

IInv == RegistryInv /\ Traced /\ Recorded

\* The server's steps are the registry's.
LEMMA ServerSteps == [ServerNext]_allVars => [Next]_vars
    <1> SUFFICES ASSUME [ServerNext]_allVars PROVE [Next]_vars
      OBVIOUS
    <1>1. ASSUME NEW r \in Requests, StartChecks(r) PROVE Next
      BY <1>1 DEF StartChecks, Next, Requests
    <1>2. ASSUME NEW r \in Requests, Receive(r) \/ Respond(r) \/ Raise(r) PROVE UNCHANGED vars
      BY <1>2 DEF Receive, Respond, Raise
    <1>3. CASE Take \/ Record \/ Done \/ UNCHANGED allVars
      BY <1>3 DEF Take, Record, Done, allVars
    <1>4. CASE Proceed
      BY <1>4 DEF Next
    <1> QED
      BY <1>1, <1>2, <1>3, <1>4 DEF ServerNext

\* No request, no message, and no id is bound.
LEMMA ServerStart == ServerInit => IInv
    <1> SUFFICES ASSUME ServerInit PROVE IInv
      OBVIOUS
    <1>1. RegistryInv
      BY RegistryInit DEF ServerInit
    <1>2. Traced
      BY DEF ServerInit, Traced, Tasks, Requests, IsOpen, NoResponse
    <1>3. Recorded
      BY ServerAssumption DEF ServerInit, Recorded, Bound, NoMessage, Tasks
    <1> QED
      BY <1>1, <1>2, <1>3 DEF IInv

\* A request arrives: nothing has been done for it yet.
LEMMA ReceiveStep ==
    ASSUME Traced, NEW r \in Requests, Receive(r)
    PROVE  Traced' /\ context'[Consumer] = context[Consumer]
    <1>1. PICK path \in Paths, inbound \in Inbound \cup {None} :
             \E inherited :
                /\ request' = [request EXCEPT ![r] = [path |-> path, inbound |-> inbound]]
                /\ context' = [context EXCEPT ![r] = incoming(r, inbound, inherited)]
      BY DEF Receive, bind_correlation_id
    <1>2. /\ request[r] = NoRequest
          /\ response' = response /\ checked' = checked /\ message' = message
      BY DEF Receive
    <1>3. \A q \in Requests : q # r => request'[q] = request[q] /\ context'[q] = context[q]
      BY <1>1 DEF Traced, Tasks
    <1>4. /\ request'[r] = [path |-> path, inbound |-> inbound]
          /\ context'[r] = IF inbound # None THEN inbound ELSE r
      BY <1>1 DEF Traced, Tasks, incoming
    <1>5. context'[Consumer] = context[Consumer]
      BY <1>1, ServerAssumption DEF Traced, Tasks, Requests
    <1>6. checked[r] = {} /\ response[r] = NoResponse
      BY <1>2 DEF Traced
    <1> QED
      BY <1>1, <1>2, <1>3, <1>4, <1>5, <1>6 DEF Traced, IsOpen, Own, NoResponse

\* The tasks of the checks are created with the id of their request.
LEMMA StartStep ==
    ASSUME Traced, NEW r \in Requests, StartChecks(r)
    PROVE  Traced' /\ context'[Consumer] = context[Consumer]
    <1>1. /\ IsOpen(r) /\ checked' = [checked EXCEPT ![r] = {context[r]}]
          /\ context' = context /\ request' = request /\ response' = response
          /\ message' = message
      BY DEF StartChecks
    <1>2. \A q \in Requests : checked'[q] = IF q = r THEN {Own(r)} ELSE checked[q]
      BY <1>1 DEF Traced
    <1> QED
      BY <1>1, <1>2 DEF Traced, IsOpen, Own

\* An answer carries the id of its request, an error none; the block that bound the
\* id ends, and with it the request.
LEMMA CloseStep ==
    ASSUME Traced, NEW r \in Requests, Respond(r) \/ Raise(r)
    PROVE  Traced' /\ context'[Consumer] = context[Consumer]
    <1>1. /\ IsOpen(r) /\ context' = [context EXCEPT ![r] = None]
          /\ request' = request /\ checked' = checked /\ message' = message
      BY DEF Respond, Raise
    <1>2. PICK answer :
             /\ response' = [response EXCEPT ![r] = answer]
             /\ \/ answer.status \in {"200", "503"} /\ answer.id = context[r]
                \/ answer.status = "500"
      <2>1. CASE Respond(r)
        <3>1. PICK status \in StatusOf(r) :
                 response' = [response EXCEPT ![r] = [status |-> status, id |-> context[r]]]
          BY <2>1 DEF Respond
        <3>2. request[r].path \in {"health", "ready", "metrics"}
          BY <1>1, ServerAssumption DEF Traced, IsOpen
        <3>3. StatusOf(r) \subseteq {"200", "503"}
          BY <3>2 DEF StatusOf, health_status, ready_status
        <3> DEFINE answer == [status |-> status, id |-> context[r]]
        <3>4. answer.status \in {"200", "503"} /\ answer.id = context[r]
          BY <3>3
        <3> WITNESS answer
        <3> QED
          BY <3>1, <3>4
      <2>2. CASE Raise(r)
        <3> DEFINE answer == [status |-> "500", id |-> None]
        <3>1. response' = [response EXCEPT ![r] = answer] /\ answer.status = "500"
          BY <2>2 DEF Raise
        <3> WITNESS answer
        <3> QED
          BY <3>1
      <2> QED
        BY <2>1, <2>2
    <1>3. \A q \in Requests : q # r => response'[q] = response[q] /\ context'[q] = context[q]
      BY <1>1, <1>2 DEF Traced, Tasks
    <1>4. response'[r] = answer /\ answer # NoResponse
      BY <1>2, ServerAssumption DEF Traced, NoResponse
    <1>5. context'[Consumer] = context[Consumer]
      BY <1>1, ServerAssumption DEF Traced, Tasks, Requests
    <1>6. context[r] = Own(r)
      BY <1>1 DEF Traced
    <1> QED
      BY <1>1, <1>2, <1>3, <1>4, <1>5, <1>6 DEF Traced, IsOpen, Own

\* A message is taken: nothing is bound, and nothing recorded of it.
LEMMA TakeStep ==
    ASSUME Traced, Recorded, Take
    PROVE  Recorded'
    <1>1. PICK id \in Inbound \cup {None} :
             /\ message' = [of |-> message.of + 1, inbound |-> id, open |-> TRUE,
                            decisions |-> 0]
             /\ IF id # None THEN context' = [context EXCEPT ![Consumer] = id]
                ELSE context' = context
      BY DEF Take, bind_correlation_id
    <1>2. ~message.open /\ entries' = entries
      BY DEF Take
    <1>3. context[Consumer] = None
      BY <1>2 DEF Recorded, Bound
    <1>4. context'[Consumer] = id
      BY <1>1, <1>3 DEF Traced, Tasks
    <1>5. context'[Consumer] \in Bound'
      BY <1>1, <1>4 DEF Bound
    <1>6. /\ message'.of = message.of + 1 /\ message'.of \in Nat /\ message'.decisions = 0
          /\ \A e \in entries : e.of \in 1..message.of /\ e.of \in 1..message'.of
                               /\ e.of # message'.of
      BY <1>1 DEF Recorded
    <1>7. 0 \in 0..MaxDecisions
      BY ServerAssumption
    <1> QED
      BY <1>1, <1>2, <1>5, <1>6, <1>7 DEF Recorded

\* A decision: the first one of a message without an id binds what it generates, and
\* the others find it bound.
LEMMA RecordStep ==
    ASSUME Traced, Recorded, Record
    PROVE  Recorded'
    <1> DEFINE n == message.decisions + 1
               id == context'[Consumer]
               new == [of |-> message.of, inbound |-> message.inbound, id |-> id]
    <1>1. /\ message.open /\ message.decisions < MaxDecisions
          /\ message' = [message EXCEPT !.decisions = n]
          /\ IF context[Consumer] # None THEN context' = context
             ELSE context' = [context EXCEPT ![Consumer] = <<message.of, n>>]
          /\ entries' = entries \cup {new}
      BY DEF Record, require_correlation_id, bind_correlation_id
    <1>2. /\ message.of \in Nat /\ message.decisions \in Nat /\ MaxDecisions \in Nat
          /\ message = [of |-> message.of, inbound |-> message.inbound, open |-> message.open,
                        decisions |-> message.decisions]
      BY ServerAssumption DEF Recorded
    <1>3. /\ n \in 1..MaxDecisions /\ n > 0
          /\ message' = [of |-> message.of, inbound |-> message.inbound, open |-> TRUE,
                         decisions |-> n]
      <2>1. n \in 1..MaxDecisions /\ n > 0
        BY <1>1, <1>2
      <2>2. message.open = TRUE
        BY <1>1 DEF Recorded
      <2> HIDE DEF n
      <2>3. message' = [of |-> message.of, inbound |-> message.inbound, open |-> message.open,
                        decisions |-> n]
        BY <1>1, <1>2
      <2> QED
        BY <2>1, <2>2, <2>3
    <1>4. id \in Ids(message.of, message.inbound)
      <2>1. CASE message.inbound # None
        BY <1>1, <2>1 DEF Recorded, Bound, Ids
      <2>2. CASE message.inbound = None /\ message.decisions = 0
        <3>1. context[Consumer] = None
          BY <1>1, <2>2 DEF Recorded, Bound
        <3>2. id = <<message.of, n>>
          BY <1>1, <3>1 DEF Traced, Tasks
        <3> QED
          BY <1>3, <2>2, <3>2 DEF Ids
      <2>3. CASE message.inbound = None /\ message.decisions # 0
        <3>1. context[Consumer] \in {message.of} \X (1..MaxDecisions)
          BY <1>1, <2>3 DEF Recorded, Bound
        <3>2. context[Consumer] \in Nat \X Nat
          BY <1>2, <3>1
        <3>3. context[Consumer] # None
          BY <3>2, ServerAssumption
        <3> QED
          BY <1>1, <2>3, <3>1, <3>3 DEF Ids
      <2> QED
        BY <2>1, <2>2, <2>3
    <1>5. id \in Bound'
      BY <1>2, <1>3, <1>4 DEF Bound, Ids
    <1>6. ASSUME NEW e \in entries, e.of = message.of
          PROVE  e.id = id
      <2>1. message.decisions > 0 /\ e.id = context[Consumer] /\ e.id \in Ids(e.of, e.inbound)
        BY <1>1, <1>6 DEF Recorded
      <2>2. context[Consumer] # None
        <3>1. CASE message.inbound # None
          BY <1>1, <3>1 DEF Recorded, Bound
        <3>2. CASE message.inbound = None
          <4>1. context[Consumer] \in {message.of} \X (1..MaxDecisions)
            BY <1>1, <2>1, <3>2, <1>2 DEF Recorded, Bound
          <4>2. context[Consumer] \in Nat \X Nat
            BY <1>2, <4>1
          <4> QED
            BY <4>2, ServerAssumption
        <3> QED
          BY <3>1, <3>2
      <2> QED
        BY <1>1, <2>1, <2>2
    <1>7. /\ message'.of = message.of /\ message'.decisions = n /\ message'.open = TRUE
          /\ message'.inbound = message.inbound
      BY <1>3
    <1>8. \A e \in entries :
             /\ e.of \in 1..message.of /\ e.id \in Ids(e.of, e.inbound)
             /\ \A other \in entries : other.of = e.of => other.id = e.id
      BY DEF Recorded
    <1>9. new.of = message.of /\ new.id = id /\ new.inbound = message.inbound
      OBVIOUS
    <1>10. message.of \in 1..message.of
      BY <1>1, <1>2 DEF Recorded
    <1> HIDE DEF new, id, n
    <1>11. \A e \in entries' :
             /\ e.of \in 1..message.of /\ e.id \in Ids(e.of, e.inbound)
             /\ \A other \in entries' : other.of = e.of => other.id = e.id
             /\ e.of = message.of => e.id = id
      BY <1>1, <1>4, <1>6, <1>8, <1>9, <1>10
    <1>12. /\ message'.of \in Nat /\ message'.decisions \in 0..MaxDecisions
           /\ message'.open \in BOOLEAN
           /\ message' = [of |-> message'.of, inbound |-> message'.inbound,
                          open |-> message'.open, decisions |-> message'.decisions]
      BY <1>2, <1>3, <1>7
    <1>13. /\ message'.open => message'.of > 0 /\ n > 0
           /\ context'[Consumer] \in Bound'
      <2>1. message.of > 0
        BY <1>1 DEF Recorded
      <2> QED
        BY <1>3, <1>5, <1>7, <2>1 DEF id
    <1>14. \A e \in entries' :
              /\ e.of \in 1..message'.of /\ e.id \in Ids(e.of, e.inbound)
              /\ \A other \in entries' : other.of = e.of => other.id = e.id
              /\ message'.open /\ e.of = message'.of =>
                    message'.decisions > 0 /\ e.id = context'[Consumer]
      BY <1>3, <1>7, <1>11 DEF id
    <1>15. \A of, inbound : Ids(of, inbound)' = Ids(of, inbound)
      BY DEF Ids
    <1> QED
      BY <1>12, <1>13, <1>14, <1>15 DEF Recorded

\* The message is done with, and its id unbound.
LEMMA DoneStep ==
    ASSUME Traced, Recorded, Done
    PROVE  Recorded'
    <1>1. /\ message' = [NoMessage EXCEPT !.of = message.of]
          /\ context' = [context EXCEPT ![Consumer] = None]
          /\ entries' = entries
      BY DEF Done, clear_correlation_id
    <1>2. message' = [of |-> message.of, inbound |-> None, open |-> FALSE, decisions |-> 0]
      BY <1>1 DEF NoMessage
    <1>3. context'[Consumer] = None
      BY <1>1 DEF Traced, Tasks
    <1>4. context'[Consumer] \in Bound'
      BY <1>2, <1>3 DEF Bound
    <1>5. 0 \in 0..MaxDecisions
      BY ServerAssumption
    <1>6. /\ message'.of = message.of /\ message'.inbound = None /\ message'.open = FALSE
          /\ message'.decisions = 0
      BY <1>2
    <1>7. \A e \in entries :
             /\ e.of \in 1..message.of /\ e.id \in Ids(e.of, e.inbound)
             /\ \A other \in entries : other.of = e.of => other.id = e.id
      BY DEF Recorded
    <1>8. message.of \in Nat
      BY DEF Recorded
    <1> QED
      BY <1>1, <1>2, <1>4, <1>5, <1>6, <1>7, <1>8 DEF Recorded

\* The stream binds and clears in its own task only.
LEMMA StreamStep ==
    ASSUME Traced, Take \/ Record \/ Done
    PROVE  Traced'
    <1>1. /\ request' = request /\ response' = response /\ checked' = checked
          /\ DOMAIN context' = Tasks
          /\ \A q \in Requests : context'[q] = context[q]
      BY ServerAssumption
         DEF Take, Record, Done, require_correlation_id, bind_correlation_id,
             clear_correlation_id, Traced, Tasks, Requests
    <1> QED
      BY <1>1 DEF Traced, IsOpen, Own

-----------------------------------------------------------------------------
\* The theorems.

\* Every step keeps the invariant.
LEMMA ServerStep == IInv /\ [ServerNext]_allVars => IInv'
    <1> SUFFICES ASSUME IInv, [ServerNext]_allVars PROVE IInv'
      OBVIOUS
    <1>1. RegistryInv'
      BY ServerSteps, RegistryNext DEF IInv
    <1>2. Traced /\ Recorded
      BY DEF IInv
    <1>3. ASSUME NEW r \in Requests, Receive(r) \/ StartChecks(r) \/ Respond(r) \/ Raise(r)
          PROVE  Traced' /\ Recorded'
      <2>1. entries' = entries /\ message' = message
        BY <1>3 DEF Receive, StartChecks, Respond, Raise
      <2>2. Traced' /\ context'[Consumer] = context[Consumer]
        BY <1>2, <1>3, ReceiveStep, StartStep, CloseStep
      <2> QED
        BY <1>2, <2>1, <2>2 DEF Recorded, Bound
    <1>4. CASE Take \/ Record \/ Done
      BY <1>1, <1>2, <1>4, StreamStep, TakeStep, RecordStep, DoneStep DEF IInv
    <1>5. CASE UNCHANGED serverVars
      BY <1>1, <1>2, <1>5 DEF IInv, Traced, Recorded, Bound, IsOpen, Own, serverVars
    <1> QED
      BY <1>1, <1>3, <1>4, <1>5 DEF IInv, ServerNext, allVars

\* Whatever requests, checks, dependencies and the stream do in whatever order, the
\* pool, the evaluations and the contexts of the tasks fit together.
THEOREM Invariance == ServerSpec => []IInv
    BY ServerStart, ServerStep, PTL DEF ServerSpec

\* The checks of every request together never have more connections than the pool.
THEOREM TypeCorrect == ServerSpec => []TypeOK
    <1>1. IInv => TypeOK
      BY DEF IInv, RegistryInv, Typed, Lent, TypeOK
    <1> QED
      BY Invariance, <1>1, PTL

\* A process is reported ready only if each dependency was up during the request
\* that asked (health.py evaluate).
THEOREM ReadyWasEarned == ServerSpec => []ReadyIsEarned
    <1>1. IInv => ReadyIsEarned
      BY DEF IInv, RegistryInv, Earned, ReadyIsEarned
    <1> QED
      BY Invariance, <1>1, PTL

\* Every id that is found on an answer, in a check or on a recorded message is that
\* of its own request or message (correlation.py).
THEOREM TracesApart == ServerSpec => []NoTraceIsShared
    <1>1. IInv => NoTraceIsShared
      BY DEF IInv, Traced, Recorded, Ids, NoTraceIsShared, Own
    <1> QED
      BY Invariance, <1>1, PTL
=============================================================================
