---------------------------- MODULE MCDatabasePool ----------------------------
(* Instances of DatabasePool: worker threads beside the wizard. *)
EXTENDS DatabasePool, TLC

CONSTANTS t1, t2, t3

MCThreads == {t1, t2, t3}

\* The threads may be exchanged; the properties are invariants.
MCSymmetry == Permutations(MCThreads)
=============================================================================
