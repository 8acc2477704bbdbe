--------------------------- MODULE MCRecording ---------------------------
(* Small instances of Recording for TLC. *)
EXTENDS Recording, TLC

\* Two starts; a stop, a crash, a low disk, a renaming, a deletion, a cleanup, and a failed
\* call while opening and while finalizing.
FullBudget == [k \in Kinds |-> CASE k = "start" -> 2
                                 [] k = "shutdown" -> 0
                                 [] OTHER -> 1]

\* Two starts, a stop, a shutdown and a low disk; no call fails.
LiveBudget == [k \in Kinds |-> CASE k = "start" -> 2
                                 [] k \in {"stop", "disk", "shutdown"} -> 1
                                 [] OTHER -> 0]

\* One meeting that is stopped and renamed.
RenameBudget == [k \in Kinds |-> IF k \in {"start", "stop", "rename"} THEN 1 ELSE 0]

\* One meeting that is stopped and cleaned up.
CleanupBudget == [k \in Kinds |-> IF k \in {"start", "stop", "cleanup"} THEN 1 ELSE 0]

Symmetry == Permutations(Sessions) \cup Permutations(Clients) \cup Permutations(Sources)
=============================================================================
