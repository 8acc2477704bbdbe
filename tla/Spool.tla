------------------------------- MODULE Spool -------------------------------
(***************************************************************************)
(* What of a source's sound reaches the store: the stream of the audio     *)
(* server sends frames to a bounded channel, the spool reads them, asks    *)
(* whether the meeting is paused, cuts them into utterances and stores     *)
(* these.  Pausing, stopping, a lost stream and a failing store come at    *)
(* any moment.                                                             *)
(*                                                                         *)
(* A frame that is read and what the spool does with it are one step: the  *)
(* code awaits nothing between them, and a frame or a pause that comes     *)
(* meanwhile is as good as one that comes after.                           *)
(***************************************************************************)
EXTENDS Chunker

CONSTANTS
  Sounds,     \* what a frame may be, by length and loudness
  MaxFrames,  \* bound: number of frames
  Capacity,   \* of the channel between stream and spool: 256 in the code
  Budget      \* bound: how often each event of Kinds may happen

Kinds == {"pause", "resume", "lose", "fault"}

ASSUME SoundsAssumption  == Sounds \subseteq [len : Nat \ {0}, speech : BOOLEAN]
ASSUME SizesAssumption   == MaxFrames \in Nat /\ Capacity \in Nat \ {0}
ASSUME BudgetAssumption  == Budget \in [Kinds -> Nat]

VARIABLES
  said,     \* all frames so far, with `quiet`: captured while paused
  stream,   \* the audio server has a stream that sends to the channel
  queue,    \* the channel
  spool,    \* where the spool is
  chunker,  \* its chunker
  noticed,  \* was_paused
  paused,   \* capture_paused
  stop,     \* capture_stop
  stored,   \* the utterances in the store
  dropped,  \* numbers of frames that were lost on the way
  skipped,  \* numbers of frames read while paused, or spoken between two streams
  late,     \* those read while paused after the loop was left
  spent     \* how often each event of Kinds has happened

buffers == <<queue, chunker, stored>>
history == <<said, dropped, skipped, late>>
flags   == <<paused, stop>>
vars    == <<stream, buffers, spool, noticed, flags, history, spent>>

-----------------------------------------------------------------------------
Frames == [id : 1 .. MaxFrames, len : Nat \ {0}, speech : BOOLEAN, quiet : BOOLEAN]
Frame(sound) == [id |-> Len(said) + 1, len |-> sound.len, speech |-> sound.speech,
                 quiet |-> paused]
Steps  == {"running", "draining", "ended", "failed"}

Spend(kind) == /\ spent[kind] < Budget[kind]
               /\ spent' = [spent EXCEPT ![kind] = @ + 1]

(* The spool takes the result of its chunker and stores what it completed. *)
Take(result) ==
  /\ chunker' = result.chunker
  /\ stored' = stored \o result.out

Ids(q) == {q[i].id : i \in 1 .. Len(q)}

Listening == spool \in {"running", "draining"}

Init ==
  /\ said = <<>> /\ dropped = {} /\ skipped = {} /\ late = {}
  /\ stream = TRUE /\ queue = <<>>
  /\ spool = "running" /\ chunker = Fresh /\ noticed = FALSE
  /\ paused = FALSE /\ stop = FALSE
  /\ stored = <<>>
  /\ spent = [k \in Kinds |-> 0]

-----------------------------------------------------------------------------
(* drain_stream: try_send; a frame that finds the channel full or without  *)
(* a receiver is dropped.                                                  *)
Capture(sound) ==
  /\ stream /\ Len(said) < MaxFrames
  /\ LET f == Frame(sound) IN
     /\ said' = Append(said, f)
     /\ IF Listening /\ Len(queue) < Capacity
        THEN queue' = Append(queue, f) /\ UNCHANGED dropped
        ELSE dropped' = dropped \cup {f.id} /\ UNCHANGED queue
  /\ UNCHANGED <<stream, spool, chunker, stored, noticed, flags, skipped, late, spent>>

(* The stream ends: its device is gone or changed, the server is lost, or  *)
(* the recording stops.                                                    *)
StreamEnds ==
  /\ stream
  /\ IF stop THEN UNCHANGED spent ELSE Spend("lose")
  /\ stream' = FALSE
  /\ UNCHANGED <<buffers, spool, noticed, flags, history>>

(* When stream and spool have ended the source task opens new ones; a      *)
(* moment passes in between, unheard.                                      *)
Reopen ==
  /\ ~stream /\ ~Listening /\ ~stop /\ Len(said) < MaxFrames
  /\ stream' = TRUE /\ spool' = "running"
  /\ queue' = <<>> /\ chunker' = Fresh /\ noticed' = FALSE
  /\ said' = Append(said, Frame([len |-> 1, speech |-> FALSE]))
  /\ skipped' = skipped \cup {Len(said) + 1}
  /\ UNCHANGED <<stored, flags, dropped, late, spent>>

-----------------------------------------------------------------------------
(* The loop of spool_until_end.                                            *)

(* Mutant: nothing is flushed at a pause. *)
ReadPausedUnflushed ==
  /\ spool = "running" /\ queue # <<>> /\ paused
  /\ queue' = Tail(queue)
  /\ noticed' = TRUE
  /\ skipped' = skipped \cup {Head(queue).id}
  /\ UNCHANGED <<stream, chunker, stored, spool, flags, said, dropped, late, spent>>

(* A frame while paused: the first one flushes the chunker. *)
ReadPaused ==
  /\ spool = "running" /\ queue # <<>> /\ paused
  /\ queue' = Tail(queue)
  /\ IF noticed THEN UNCHANGED <<chunker, stored>> ELSE Take(Flush(chunker))
  /\ noticed' = TRUE
  /\ skipped' = skipped \cup {Head(queue).id}
  /\ UNCHANGED <<stream, spool, flags, said, dropped, late, spent>>

Read ==
  /\ spool = "running" /\ queue # <<>> /\ ~paused
  /\ queue' = Tail(queue)
  /\ Take(Push(chunker, Head(queue)))
  /\ noticed' = FALSE
  /\ UNCHANGED <<stream, spool, flags, history, spent>>

(* The loop is left when the recording stops, whatever is queued, or when  *)
(* all senders are gone.                                                   *)
LeaveLoop ==
  /\ spool = "running"
  /\ stop \/ (~stream /\ queue = <<>>)
  /\ spool' = "draining"
  /\ UNCHANGED <<stream, buffers, noticed, flags, history, spent>>

(* The frames left in the channel; a paused one is skipped without a flush. *)
Drain ==
  /\ spool = "draining" /\ queue # <<>>
  /\ queue' = Tail(queue)
  /\ IF paused
     THEN /\ skipped' = skipped \cup {Head(queue).id}
          /\ late' = late \cup {Head(queue).id}
          /\ UNCHANGED <<chunker, stored>>
     ELSE /\ Take(Push(chunker, Head(queue)))
          /\ UNCHANGED <<skipped, late>>
  /\ UNCHANGED <<stream, spool, noticed, flags, said, dropped, spent>>

(* Mutant: what the chunker still holds is forgotten. *)
EndSpoolUnflushed ==
  /\ spool = "draining" /\ queue = <<>>
  /\ chunker' = Fresh
  /\ spool' = "ended"
  /\ UNCHANGED <<stream, queue, stored, noticed, flags, history, spent>>

EndSpool ==
  /\ spool = "draining" /\ queue = <<>>
  /\ Take(Flush(chunker))
  /\ spool' = "ended"
  /\ UNCHANGED <<stream, queue, noticed, flags, history, spent>>

(* An error of the database or a file: the spool ends, and what it holds   *)
(* is lost.                                                                *)
SpoolFails ==
  /\ Listening /\ Spend("fault")
  /\ spool' = "failed"
  /\ queue' = <<>> /\ chunker' = Fresh
  /\ dropped' = dropped \cup Ids(queue) \cup Ids(chunker.active) \cup Ids(chunker.pre)
  /\ UNCHANGED <<stream, stored, noticed, flags, said, skipped, late>>

-----------------------------------------------------------------------------
(* set_paused; until the sources are joined it is not refused. *)
Pause ==
  /\ ~paused /\ (stream \/ Listening) /\ Spend("pause")
  /\ paused' = TRUE
  /\ UNCHANGED <<stream, buffers, spool, noticed, stop, history>>

Resume ==
  /\ paused /\ (stream \/ Listening) /\ Spend("resume")
  /\ paused' = FALSE
  /\ UNCHANGED <<stream, buffers, spool, noticed, stop, history>>

Stop ==
  /\ ~stop
  /\ stop' = TRUE
  /\ UNCHANGED <<stream, buffers, spool, noticed, paused, history, spent>>

-----------------------------------------------------------------------------
Serve == ReadPaused \/ Read \/ LeaveLoop \/ Drain \/ EndSpool

Next ==
  \/ \E sound \in Sounds : Capture(sound)
  \/ StreamEnds \/ Reopen \/ Serve \/ SpoolFails
  \/ Pause \/ Resume \/ Stop

Spec == Init /\ [][Next]_vars

-----------------------------------------------------------------------------
(* All frames that were not lost, from the first that was stored to the    *)
(* newest in the channel, in their pieces.                                 *)
Pieces == [n \in 1 .. Len(stored) |-> stored[n].frames]
            \o <<chunker.active, chunker.pre, queue>>

StoredIds == UNION {Ids(stored[n].frames) : n \in 1 .. Len(stored)}

SpeechIn(q) ==
  Sums([i \in 1 .. Len(q) |-> IF q[i].speech THEN q[i].len ELSE 0])[Len(q)]

(* Types of the variables. *)
TypeOK ==
  /\ said \in Seq(Frames) /\ queue \in Seq(Frames)
  /\ Len(said) <= MaxFrames /\ Len(queue) <= Capacity
  /\ stream \in BOOLEAN /\ spool \in Steps
  /\ chunker \in [pre : Seq(Frames), preLen : 0 .. PreRoll, active : Seq(Frames),
                  len : 0 .. MaxTurn - 1, started : BOOLEAN,
                  silence : 0 .. Silence - 1, speech : Nat]
  /\ noticed \in BOOLEAN /\ paused \in BOOLEAN /\ stop \in BOOLEAN
  /\ stored \in Seq([frames : Seq(Frames), len : Nat])
  /\ dropped \subseteq 1 .. MaxFrames /\ skipped \subseteq 1 .. MaxFrames
  /\ late \subseteq skipped
  /\ spent \in [Kinds -> Nat]

(* Every frame goes the whole way once and in order: pre-roll, cuts,       *)
(* pauses and new streams neither repeat a frame nor swap two.             *)
OnceInOrder ==
  \A m, n \in 1 .. Len(Pieces) :
    \A i \in 1 .. Len(Pieces[m]), j \in 1 .. Len(Pieces[n]) :
      m < n \/ (m = n /\ i < j) => Pieces[m][i].id < Pieces[n][j].id

(* "Split speech into utterances after 700 ms of silence, with a 30-second *)
(* safety maximum": an utterance has enough speech, little silence before  *)
(* it, no long one in it or after it, and exceeds the maximum by less than *)
(* the frame that reached it.                                              *)
WellCut(u) ==
  LET q      == u.frames
      spoken == {i \in 1 .. Len(q) : q[i].speech}
      end    == Ends(q)
  IN  /\ SpeechIn(q) >= MinSpeech
      /\ \E i \in spoken : end[i - 1] <= PreRoll
      /\ \A i \in spoken : \/ u.len - end[i] < Silence
                           \/ \E j \in spoken : i < j /\ end[j - 1] - end[i] < Silence
      /\ u.len - q[Len(q)].len < MaxTurn

UtterancesWellCut == \A i \in 1 .. Len(stored) : WellCut(stored[i])

(* Speech is not lost: of frames that were neither dropped nor paused, all *)
(* are stored or on the way, except fewer than MinSpeech samples in a row, *)
(* or in two rows that meet where a turn was cut for its length.           *)
SpeechKept ==
  LET kept == StoredIds \cup Ids(chunker.active) \cup Ids(queue)
      gone == {i \in 1 .. Len(said) : said[i].speech} \ (kept \cup dropped \cup skipped)
      end  == Ends(said)
  IN  \A i, j \in gone : i <= j /\ i .. j \subseteq gone =>
        end[j] - end[i - 1] < 2 * MinSpeech

(* An utterance reaches neither over a pause that was noticed nor over a   *)
(* change of streams: what is missing in it was dropped by a full channel, *)
(* or skipped after the stop.                                              *)
UtterancesUnbroken ==
  \A n \in 1 .. Len(stored) :
    LET q == stored[n].frames
    IN  \A i \in 1 .. Len(q) - 1 :
          q[i].id + 1 .. q[i + 1].id - 1 \subseteq dropped \cup late

(* What is stored are whole utterances: cut where the rules of the chunker *)
(* say, and of frames that were heard one after the other.                 *)
UtterancesWhole == TypeOK /\ UtterancesWellCut /\ UtterancesUnbroken

(* "Paused audio is drained and discarded ... so it cannot appear later in *)
(* the transcript": no frame captured while paused is stored.              *)
PausedAudioDiscarded ==
  \A n \in 1 .. Len(stored) :
    \A i \in 1 .. Len(stored[n].frames) : ~stored[n].frames[i].quiet
=============================================================================
