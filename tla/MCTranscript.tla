---------------------------- MODULE MCTranscript ----------------------------
(* Small instances of Transcript for TLC. *)
EXTENDS Transcript, TLC

CONSTANTS c1, c2, t1, t2

\* The window of c1 begins first, the speech in it last.
MCInfo ==
  c1 :> [source |-> "system", sequence |-> 1, window |-> 1, speech |-> 4, words |-> TRUE]
  @@
  c2 :> [source |-> "mic", sequence |-> 1, window |-> 2, speech |-> 3, words |-> TRUE]

SymmetricTitles == Permutations(Titles)

OnceEach    == [k \in Kinds |-> 1]
NothingElse == [k \in Kinds |-> 0]
=============================================================================
