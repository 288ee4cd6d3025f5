------------------------------- MODULE MCAudit --------------------------------
(***************************************************************************)
(* Two processes and a ledger of four events, two of which may be altered. *)
(***************************************************************************)
EXTENDS AuditChain

CONSTANTS server, shell
=============================================================================
