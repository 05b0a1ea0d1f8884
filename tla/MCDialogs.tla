----------------------------- MODULE MCDialogs -----------------------------
(* A small instance of Dialogs.                                             *)
EXTENDS Dialogs, TLC
CONSTANTS t1, t2, ann, bob
MCKinds == {"service", "automation", "action", "clarify", "alias", "pick",
            "permission", "plan"}
Symmetry == Permutations({t1, t2}) \cup Permutations({ann, bob})
============================================================================
