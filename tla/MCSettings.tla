---------------------------- MODULE MCSettings ----------------------------
(* Small instances of Settings for TLC. *)
EXTENDS Settings

\* Two edits, a start or a stop, and one disturbance.
EditBudget == [k \in Kinds |-> IF k = "edit" THEN 2 ELSE 1]

\* One edit and one start.
StartBudget == [k \in Kinds |-> IF k = "disturbance" THEN 0 ELSE 1]
=============================================================================
