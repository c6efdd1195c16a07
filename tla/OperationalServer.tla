------------------------- MODULE OperationalServer --------------------------
(***************************************************************************)
(* The operational endpoints of observability/server.py and the            *)
(* correlation ids of observability/correlation.py, over the readiness     *)
(* registry.  Every request has a task, and every check that it evaluates  *)
(* has one; each task has a context of its own, copied from the one it was *)
(* created in.  Beside them a task consumes a stream of messages, and      *)
(* binds ids without a scope, as the docstrings of the module prescribe.   *)
(*                                                                         *)
(* The HTTP server is external: it creates the task of a request in its    *)
(* own context or, on a connection kept alive, in that of the request      *)
(* before.  An id that is generated for a request is the request's name,   *)
(* for a message the number of the message and of the decision on it.      *)
(***************************************************************************)
EXTENDS Readiness

CONSTANTS Paths,        \* the endpoints that are asked for
          Consumer,     \* the task of the stream
          MaxMessages,  \* bound: messages of the stream
          MaxDecisions, \* bound: decisions recorded of each
          None,         \* no id
          Inbound       \* ids that requests and messages may arrive with

ASSUME ServerAssumption ==
    /\ Paths \subseteq {"health", "ready", "metrics"}
    /\ MaxMessages \in Nat /\ MaxDecisions \in Nat
    /\ Consumer \notin Evaluations
    /\ None \notin {"200", "500", "503"} /\ None \notin Nat \X Nat

Requests == Evaluations

VARIABLES context,    \* context[task]: the id bound in it, or None
          request,    \* request[r]: its path and the id it arrived with
          response,   \* response[r]: its status and the id it carries
          checked,    \* checked[r]: the ids that its checks' tasks were created with
          message,    \* the latest message: its number, the id it arrived with,
                      \* whether it is being consumed, how many decisions it led to
          entries     \* decisions: of which message, recorded under which id

serverVars == <<context, request, response, checked, message, entries>>
allVars == <<vars, serverVars>>

Tasks == Requests \cup {Consumer}
NoRequest == [path |-> None, inbound |-> None]
NoResponse == [status |-> None, id |-> None]
NoMessage == [of |-> 0, inbound |-> None, open |-> FALSE, decisions |-> 0]

ServerInit ==
    /\ Init
    /\ context = [t \in Tasks |-> None]
    /\ request = [r \in Requests |-> NoRequest]
    /\ response = [r \in Requests |-> NoResponse]
    /\ checked = [r \in Requests |-> {}]
    /\ message = NoMessage
    /\ entries = {}

-----------------------------------------------------------------------------
\* correlation.py, in the task t.

bind_correlation_id(t, id) == context' = [context EXCEPT ![t] = id]

clear_correlation_id(t) == context' = [context EXCEPT ![t] = None]

\* It returns the id that is then bound: where none was, the one it generates.
require_correlation_id(t, generated) ==
    IF context[t] # None THEN UNCHANGED context ELSE bind_correlation_id(t, generated)

-----------------------------------------------------------------------------
\* A request.

IsOpen(r) == request[r] # NoRequest /\ response[r] = NoResponse

\* Mutant: an id is generated only where none is bound.
adopt_bound(r, inbound, inherited) ==
    IF inbound # None THEN inbound ELSE IF inherited # None THEN inherited ELSE r

\* CorrelationIdMiddleware binds the id that the request arrived with, or a new
\* one, whatever the task inherited.
incoming(r, inbound, inherited) == IF inbound # None THEN inbound ELSE r

Receive(r) ==
    /\ request[r] = NoRequest
    /\ \E path \in Paths, inbound \in Inbound \cup {None},
          inherited \in {None} \cup {context[q] : q \in {p \in Requests : IsOpen(p)}} :
          /\ request' = [request EXCEPT ![r] = [path |-> path, inbound |-> inbound]]
          /\ bind_correlation_id(r, incoming(r, inbound, inherited))
    /\ UNCHANGED <<vars, response, checked, message, entries>>

\* ready() evaluates the registry; gather creates the checks' tasks.
StartChecks(r) ==
    /\ IsOpen(r) /\ request[r].path = "ready"
    /\ Evaluate(r)
    /\ checked' = [checked EXCEPT ![r] = {context[r]}]
    /\ UNCHANGED <<context, request, response, message, entries>>

\* The statuses of the answers that r's handler may have ready.
health_status(r) == {"200"}

ready_status(r) ==
    CASE phase[r] = "pass" -> {"200"} [] phase[r] = "fail" -> {"503"} [] OTHER -> {}

StatusOf(r) ==
    CASE request[r].path = "health" -> health_status(r)
      [] request[r].path = "ready" -> ready_status(r)
      [] request[r].path = "metrics" -> {"200"}

\* The handler answers, send_with_header adds the id, the block and the task end.
Respond(r) ==
    /\ IsOpen(r)
    /\ \E status \in StatusOf(r) :
          response' = [response EXCEPT ![r] =
                          [status |-> status, id |-> context[r]]]
    /\ context' = [context EXCEPT ![r] = None]
    /\ UNCHANGED <<vars, request, checked, message, entries>>

\* A handler that raises leaves the block as well; the framework answers outside
\* of the middleware, without the header.
Raise(r) ==
    /\ IsOpen(r) /\ StatusOf(r) # {} /\ request[r].path \in {"ready", "metrics"}
    /\ response' = [response EXCEPT ![r] = [status |-> "500", id |-> None]]
    /\ context' = [context EXCEPT ![r] = None]
    /\ UNCHANGED <<vars, request, checked, message, entries>>

-----------------------------------------------------------------------------
\* The stream: a message with an id of its own binds it; every decision on it is
\* recorded under the id that is then bound, and the loop clears it.

Take ==
    /\ ~message.open /\ message.of < MaxMessages
    /\ \E id \in Inbound \cup {None} :
          /\ message' = [of |-> message.of + 1, inbound |-> id, open |-> TRUE, decisions |-> 0]
          /\ IF id # None THEN bind_correlation_id(Consumer, id) ELSE UNCHANGED context
    /\ UNCHANGED <<vars, request, response, checked, entries>>

\* A decision is recorded under an id, which is mandatory.
Record ==
    /\ message.open /\ message.decisions < MaxDecisions
    /\ message' = [message EXCEPT !.decisions = @ + 1]
    /\ require_correlation_id(Consumer, <<message.of, message.decisions + 1>>)
    /\ entries' = entries \cup {[of |-> message.of, inbound |-> message.inbound,
                                id |-> context'[Consumer]]}
    /\ UNCHANGED <<vars, request, response, checked>>

Done ==
    /\ message.open /\ message.decisions > 0
    /\ message' = [NoMessage EXCEPT !.of = message.of]
    /\ clear_correlation_id(Consumer)
    /\ UNCHANGED <<vars, request, response, checked, entries>>

-----------------------------------------------------------------------------
ServerNext ==
    \/ \E r \in Requests : Receive(r) \/ StartChecks(r) \/ Respond(r) \/ Raise(r)
    \/ Proceed /\ UNCHANGED serverVars
    \/ Take \/ Record \/ Done

ServerSpec == ServerInit /\ [][ServerNext]_allVars

\* The event loop runs the tasks, and its timer ends a check that does not
\* answer.  No dependency has to answer, nor a statement to give its connection
\* back.
Fairness ==
    \A r \in Requests :
        /\ WF_allVars(StartChecks(r))
        /\ WF_allVars(Finish(r) /\ UNCHANGED serverVars)
        /\ \A d \in Checks : WF_allVars(Deadline(r, d) /\ UNCHANGED serverVars)
        /\ WF_allVars(Respond(r))

FairSpec == ServerSpec /\ Fairness

-----------------------------------------------------------------------------
\* Properties.

\* What happened for one request or message is found under one id, and nothing
\* else is: an answer and the checks of its request carry the id that the request
\* arrived with or one of its own, and all that is recorded of a message carries
\* the message's or one that was generated for it.
NoTraceIsShared ==
    /\ \A r \in Requests :
          \A id \in checked[r] \cup
                   (IF response[r].status \in {None, "500"} THEN {} ELSE {response[r].id}) :
              id = IF request[r].inbound # None THEN request[r].inbound ELSE r
    /\ \A e \in entries :
          /\ e.id \in IF e.inbound # None THEN {e.inbound} ELSE {e.of} \X (1..MaxDecisions)
          /\ \A other \in entries : other.of = e.of => other.id = e.id

\* Every request is answered, whatever hangs: an exhausted pool, a silent
\* dependency.  The liveness endpoint answers 200, whatever the readiness one says.
EveryRequestIsAnswered ==
    \A r \in Requests :
        request[r] # NoRequest ~>
            /\ response[r] # NoResponse
            /\ request[r].path = "health" => response[r].status = "200"
=============================================================================
