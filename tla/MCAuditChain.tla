---------------------------- MODULE MCAuditChain ----------------------------
(* Instances of AuditChain for TLC. *)
EXTENDS AuditChain, TLC

\* Requests of one kind are interchangeable.
Symmetry == Permutations(Gateways) \cup Permutations(Reviewers)
=============================================================================
