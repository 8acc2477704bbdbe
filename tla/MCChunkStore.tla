--------------------------- MODULE MCChunkStore ---------------------------
(* Small instances of ChunkStore for TLC. *)
EXTENDS ChunkStore, TLC

\* Two crashes, a failed call, a second process and a new stream.
FaultyBudget == [k \in Kinds |-> IF k = "crash" THEN 2 ELSE 1]

\* Only a second process.
SecondBudget == [k \in Kinds |-> IF k = "manual" THEN 1 ELSE 0]
=============================================================================
