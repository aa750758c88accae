--------------------------- MODULE MCUserBehavior ---------------------------
(* Instances of UserBehavior for TLC. *)
EXTENDS UserBehavior, TLC

\* Requests are interchangeable, and so are the users.
Symmetry == Permutations(Requests) \cup Permutations(Users)
=============================================================================
