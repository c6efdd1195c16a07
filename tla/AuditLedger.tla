---------------------------- MODULE AuditLedger -----------------------------
(***************************************************************************)
(* What the audit log promises its callers, with no table, no lock and no  *)
(* connection: one growing list of decisions.  A call is recorded at most  *)
(* once, and before its answer: an answer without an error says where in   *)
(* the list the decision is.  An error does not say whether it was         *)
(* recorded, nor that it will not be: a COMMIT under way when the caller   *)
(* was told takes effect later, or never.                                  *)
(*                                                                         *)
(* The writers in Ordered never overtake one another: while such a COMMIT  *)
(* of one of them is in doubt, none of the others is recorded.             *)
(***************************************************************************)
EXTENDS Naturals, Sequences

CONSTANTS Writers, Ordered, Bodies

VARIABLES ledger,   \* the recorded decisions, oldest first
          call,     \* call[w]: where the one call w has in progress stands
          body,     \* body[w]: the decision w's latest call records
          answers   \* what calls without an error were told

vars == <<ledger, call, body, answers>>

TypeOK ==
    /\ ledger \in Seq(Bodies)
    /\ call \in [Writers -> {"none", "open", "recorded", "doubtful"}]
    /\ body \in [Writers -> Bodies]
    /\ answers \subseteq [sequence : Nat \ {0}, body : Bodies]

Init ==
    /\ ledger = <<>>
    /\ call = [w \in Writers |-> "none"]
    /\ body \in [Writers -> Bodies]
    /\ answers = {}

Call(w) ==
    /\ call[w] = "none"
    /\ call' = [call EXCEPT ![w] = "open"]
    /\ \E b \in Bodies : body' = [body EXCEPT ![w] = b]
    /\ UNCHANGED <<ledger, answers>>

Record(w) ==
    /\ call[w] = "open"
    /\ w \in Ordered => \A v \in Ordered : call[v] # "doubtful"
    /\ call' = [call EXCEPT ![w] = "recorded"]
    /\ ledger' = Append(ledger, body[w])
    /\ UNCHANGED <<body, answers>>

\* The answer names a position that holds the call's own decision.
Answer(w) ==
    /\ call[w] = "recorded"
    /\ call' = [call EXCEPT ![w] = "none"]
    /\ \E i \in 1..Len(ledger) :
          /\ ledger[i] = body[w]
          /\ answers' = answers \cup {[sequence |-> i, body |-> body[w]]}
    /\ UNCHANGED <<ledger, body>>

Raise(w) ==
    /\ \/ call[w] \in {"open", "recorded"} /\ call' = [call EXCEPT ![w] = "none"]
       \/ call[w] = "open" /\ call' = [call EXCEPT ![w] = "doubtful"]
    /\ UNCHANGED <<ledger, body, answers>>

RecordLate(w) ==
    /\ call[w] = "doubtful"
    /\ call' = [call EXCEPT ![w] = "none"]
    /\ ledger' = Append(ledger, body[w])
    /\ UNCHANGED <<body, answers>>

Forget(w) ==
    /\ call[w] = "doubtful"
    /\ call' = [call EXCEPT ![w] = "none"]
    /\ UNCHANGED <<ledger, body, answers>>

Next ==
    \E w \in Writers :
       Call(w) \/ Record(w) \/ Answer(w) \/ Raise(w) \/ RecordLate(w) \/ Forget(w)

Spec == Init /\ [][Next]_vars
=============================================================================
