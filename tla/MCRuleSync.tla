----------------------------- MODULE MCRuleSync -----------------------------
(* Instances of RuleSync for TLC. *)
EXTENDS RuleSync, TLC

\* Workers are interchangeable, and so are the threads.
Symmetry == Permutations(Workers) \cup Permutations(Admins)

AllOps  == {"create", "update", "toggle", "delete", "delete_sdk",
            "import", "import_new", "import_sdk"}

\* Smaller choices: for two requests at the same time, and for the restart.
ThreadOps  == {"create", "update", "delete", "toggle", "import_sdk"}
ToggleOnly == {"toggle"}
=============================================================================
