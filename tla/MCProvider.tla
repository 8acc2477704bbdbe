----------------------------- MODULE MCProvider -----------------------------
(* Small instances of Provider for TLC. *)
EXTENDS Provider

\* Two attempts, the first of which the daemon may not survive.
MCBudget == [k \in Kinds |-> IF k = "attempt" THEN 2 ELSE 1]
=============================================================================
