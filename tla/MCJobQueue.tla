---------------------------- MODULE MCJobQueue ----------------------------
(* Small instances of JobQueue for TLC. *)
EXTENDS SessionStatus, TLC

\* Everything may go wrong once.
FaultyBudget == [k \in Kinds |-> 1]

\* Only a `retry` beside the daemon.
CliBudget == [k \in Kinds |-> IF k = "cliRetry" THEN 1 ELSE 0]

\* One crash.
CrashBudget == [k \in Kinds |-> IF k = "crash" THEN 1 ELSE 0]

Symmetry == Permutations(Chunks) \cup Permutations(Permits)
=============================================================================
