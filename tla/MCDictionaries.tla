--------------------------- MODULE MCDictionaries ---------------------------
(* Instances of Dictionaries for TLC. *)
EXTENDS Dictionaries, TLC

\* Workers are interchangeable, and so are threads and primary keys.
Symmetry == Permutations(Workers) \cup Permutations(Admins) \cup Permutations(Ids)
=============================================================================
