----------------------------- MODULE MCAccounts -----------------------------
(* Two addresses with one local part, so that the upload makes the same id   *)
(* of both, and one id for accounts made elsewhere, whose roles are edited.  *)
EXTENDS Accounts

CONSTANTS local, techops

MCLocalId == [e \in Emails |-> local]
MCTypeOf  == [g \in Groups |-> techops]
=============================================================================
