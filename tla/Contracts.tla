------------------------------- MODULE Contracts ------------------------------
(***************************************************************************)
(* contracts/models.py and contracts/library.py: the terms of a call.      *)
(*                                                                         *)
(* The workflow builds one kind of contract (community_resource_           *)
(* verification) with the default update and escalation policies, so a     *)
(* contract is the set of fields it asks about.                            *)
(***************************************************************************)
EXTENDS Naturals, FiniteSets

CONSTANTS
  Fields,         \* the fields a contract may ask about
  Values,         \* the values a field may hold
  NeverAutoApply  \* update_policy.never_auto_apply_fields: status, eligibility

ASSUME ContractAssumption == NeverAutoApply \subseteq Fields

\* may_auto_apply; every other field is in auto_apply_fields.
MayAutoApply(field) == field \in Fields \ NeverAutoApply
=============================================================================
