------------------------------ MODULE Chunker ------------------------------
(***************************************************************************)
(* The algorithm that cuts a stream of frames into utterances, as          *)
(* operators on its state.  A frame is a record with its number, its       *)
(* length in samples and whether it is loud enough to be speech; the       *)
(* samples themselves are not kept, an utterance is its frames and its     *)
(* length after trimming.                                                  *)
(***************************************************************************)
EXTENDS Integers, Sequences

\* All in samples: 11200, 3200, 1600, 480000 and 1600 in the code.
CONSTANTS Silence, PreRoll, PostRoll, MaxTurn, MinSpeech

ASSUME CutAssumption ==
  /\ {Silence, PreRoll, PostRoll, MaxTurn, MinSpeech} \subseteq Nat \ {0}
  /\ PostRoll < Silence
  /\ Silence < MaxTurn /\ PreRoll < MaxTurn /\ MinSpeech <= MaxTurn

(* started is started_at.is_some(). *)
Fresh == [pre |-> <<>>, preLen |-> 0, active |-> <<>>, len |-> 0,
          started |-> FALSE, silence |-> 0, speech |-> 0]

(* The result of push and finish: the next state and at most one utterance. *)
Nothing(c)     == [chunker |-> c, out |-> <<>>]
Utterance(c, n) == [chunker |-> Fresh, out |-> <<[frames |-> c.active, len |-> n]>>]

(* An utterance with too little speech is dropped; the buffers are cleared *)
(* either way.                                                             *)
Finish(c, trim) ==
  LET n == IF 0 < trim /\ trim < c.len THEN c.len - trim ELSE c.len
  IN  IF c.speech < MinSpeech \/ n = 0 THEN Nothing(Fresh) ELSE Utterance(c, n)

Flush(c) == Finish(c, 0)

Sums(w) ==
  LET sum[i \in 0 .. Len(w)] == IF i = 0 THEN 0 ELSE sum[i - 1] + w[i] IN sum

(* Where each frame ends; the end of none is 0. *)
Ends(q)   == Sums([i \in 1 .. Len(q) |-> q[i].len])
Length(q) == Ends(q)[Len(q)]

(* The longest end of the frames before speech that is no longer than      *)
(* PreRoll; empty after a frame that is longer itself.                     *)
Recent(q) ==
  LET fits == {k \in 1 .. Len(q) + 1 : Length(q) - Ends(q)[k - 1] <= PreRoll}
  IN  SubSeq(q, CHOOSE k \in fits : \A j \in fits : k <= j, Len(q))

PushPreRoll(c, f) ==
  LET q == Recent(Append(c.pre, f))
  IN  [c EXCEPT !.pre = q, !.preLen = Length(q)]

(* Mutant: the frames from before stay in the pre-roll too. *)
BeginKept(c) ==
  [c EXCEPT !.started = TRUE, !.active = c.pre, !.len = c.preLen]

(* Speech begins: what was kept from before it comes first. *)
Begin(c) ==
  [c EXCEPT !.started = TRUE, !.active = c.pre, !.len = c.preLen,
            !.pre = <<>>, !.preLen = 0]

Extend(c, f) ==
  [c EXCEPT !.active = Append(@, f), !.len = @ + f.len,
            !.speech = IF f.speech THEN @ + f.len ELSE @,
            !.silence = IF f.speech THEN 0 ELSE @ + f.len]

(* Mutant: the silence that ends a turn is kept. *)
CutUntrimmed(c) ==
  IF c.silence >= Silence \/ c.len >= MaxTurn THEN Finish(c, 0) ELSE Nothing(c)

(* A turn ends with enough silence, of which PostRoll is kept, or when it  *)
(* is too long.                                                            *)
Cut(c) ==
  CASE c.silence >= Silence -> Finish(c, c.silence - PostRoll)
    [] c.silence < Silence /\ c.len >= MaxTurn -> Finish(c, 0)
    [] OTHER -> Nothing(c)

Push(c, f) ==
  IF ~c.started /\ ~f.speech
  THEN Nothing(PushPreRoll(c, f))
  ELSE Cut(Extend(IF c.started THEN c ELSE Begin(c), f))
=============================================================================
