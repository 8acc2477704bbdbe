---------------------------- MODULE SessionStatus ----------------------------
(***************************************************************************)
(* What the panel says of a meeting: session_status.rs derives one word    *)
(* from the session row, its chunks, jobs and transcripts, which the       *)
(* queue, the recording and the command line change meanwhile.             *)
(***************************************************************************)
EXTENDS JobQueue

Ends     == {"completed", "interrupted"}   \* sessions.state after the recording
OpenJobs == InState("pending") \cup InState("processing")

(* Mutant: every chunk row needs its file, transcribed or not. *)
AttentionForEveryFile(engine) ==
  \/ ~ Persisted \subseteq audio
  \/ OpenJobs # {} /\ ~engine

\* attention_reason: an utterance without transcript lost its file, or a job
\* waits for an engine that is not installed.
Attention(engine) ==
  \/ \E c \in Persisted : ~Transcribed(c) /\ c \notin audio
  \/ OpenJobs # {} /\ ~engine

\* derive_ui_status: the first of these that applies.
Status(ended, engine) ==
  IF running THEN "recording"
  ELSE IF Attention(engine) THEN "attention"
  ELSE IF InState("processing") # {} THEN "transcribing"
  ELSE IF ~ InState("pending") \subseteq due THEN "waiting_retry"
  ELSE IF InState("pending") # {} THEN "transcribing"
  ELSE IF \A c \in Persisted : Transcribed(c) THEN "complete"
  ELSE IF ended = "interrupted" THEN "interrupted" ELSE "transcribing"

\* derive_ui_status: with the engine at hand a meeting that is not recorded is
\* complete or has a job that will change that: none asks for attention, is left
\* "interrupted" or is "transcribing" with nothing queued, after any sequence of
\* crashes, retries, retranscriptions and deletions.
StatusHasReason ==
  \A ended \in Ends :
    \/ Status(ended, TRUE) \in {"recording", "complete"}
    \/ Status(ended, TRUE) \in {"transcribing", "waiting_retry"} /\ OpenJobs # {}

\* derive_ui_status: once its sources have ended a meeting that was complete stays
\* complete until it is transcribed anew, unless `retry` ran beside the daemon.
CompleteStays ==
  [][ \A ended \in Ends, engine \in BOOLEAN :
        /\ Status(ended, engine) = "complete"
        /\ ~capturing /\ lastRun' = lastRun /\ spent["cliRetry"] = 0
        => Status(ended, engine)' = "complete" ]_vars
=============================================================================
