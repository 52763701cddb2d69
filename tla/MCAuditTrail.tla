----------------------------- MODULE MCAuditTrail -----------------------------
(***************************************************************************)
(* The audit store with two writers, three events and one damaged row.      *)
(***************************************************************************)
EXTENDS AuditChain, TLC
MCSymmetry == Permutations(Writers)
=============================================================================
