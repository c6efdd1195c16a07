--------------------------- MODULE MCAuditVerify ----------------------------
(***************************************************************************)
(* Model values for AuditVerify: payloads of kinds whose JSON form         *)
(* survives the database, and of every kind.                               *)
(***************************************************************************)
EXTENDS AuditVerify

PlainPayloads ==
    {[kind |-> "Decimal", value |-> 1], [kind |-> "float", value |-> 2]}

AllPayloads == [kind : Kinds, value : {1}]
=============================================================================
