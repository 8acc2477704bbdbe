------------------------------ MODULE MCSpool ------------------------------
(* Small instances of Spool for TLC. *)
EXTENDS Spool

Sound(len, speech) == [len |-> len, speech |-> speech]

\* Speech too short for an utterance, speech long enough, and silence.
MCSounds == {Sound(1, TRUE), Sound(2, TRUE), Sound(2, FALSE)}

\* One pause with its end, a lost stream and a failed call.
FaultyBudget == [k \in Kinds |-> 1]

\* Only a pause with its end.
PauseBudget == [k \in Kinds |-> IF k \in {"pause", "resume"} THEN 1 ELSE 0]
=============================================================================
