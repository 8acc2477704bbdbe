------------------------------ MODULE JobQueue ------------------------------
(***************************************************************************)
(* The transcription queue of one meeting: the rows of transcription_jobs  *)
(* and transcript_events, the FLAC files they are about, the dispatcher    *)
(* and the tasks of transcription/worker.rs, and the other writers of      *)
(* those tables: the capture side, the control socket, the command line    *)
(* (a process of its own on the same database) and startup recovery.       *)
(*                                                                         *)
(* A job is named by its chunk and its transcription run: run 0 is the run *)
(* of the recording, every later run is one retranscription.  Times are    *)
(* kept only as far as the queue tells them apart: which pending rows have *)
(* next_retry_at <= now, and in which order.                               *)
(***************************************************************************)
EXTENDS Integers, FiniteSets

CONSTANTS
  Chunks,     \* the audio chunks the meeting may persist
  MaxRun,     \* bound: number of retranscriptions
  Permits,    \* the semaphore's permits: max_concurrent_jobs when it started
  Budget      \* bound: how often each event of Kinds may happen

Kinds == {"crash", "stop", "cliRetry", "sessionRetry", "dbFault"}

ASSUME PermitAssumption == IsFiniteSet(Permits) /\ Permits # {}
ASSUME RunAssumption    == MaxRun \in Nat
ASSUME BudgetAssumption == Budget \in [Kinds -> Nat]

Jobs  == Chunks \X (0 .. MaxRun)
Limit == Cardinality(Permits)

ChunkOf(j) == j[1]

VARIABLES
  jobState,   \* transcription_jobs.state, "absent" before the row exists
  event,      \* the transcript_events row of a job
  due,        \* pending rows with next_retry_at <= now
  older,      \* <<j, k>>: due rows, next_retry_at of j before that of k
  audio,      \* chunks whose FLAC file is on disk
  lastRun,    \* the newest transcription_runs row
  running,    \* sessions.state = 'running'
  capturing,  \* the source tasks of the meeting are alive
  retain,     \* the retain-audio marker of the session directory
  daemon,     \* the service process
  batch,      \* ids claimed by run_workers and not yet given a task
  tasks,      \* the spawned tasks, one per semaphore permit
  cliMidway,  \* `retry` has reset rows and not yet made them due
  spent       \* how often each event of Kinds has happened

rows      == <<jobState, event, due, older>>
session   == <<lastRun, running, capturing, retain>>
workers   == <<batch, tasks>>
vars      == <<rows, audio, session, daemon, workers, cliMidway, spent>>

-----------------------------------------------------------------------------
InState(st)    == {j \in Jobs : jobState[j] = st}
Persisted      == {c \in Chunks : jobState[<<c, 0>>] # "absent"}
HasEvent(j)    == event[j] # "none"
Transcribed(c) == \E j \in Jobs : ChunkOf(j) = c /\ HasEvent(j)

Idle    == [pc |-> "idle"]
Task(pc, j) == [pc |-> pc, job |-> j]
Steps   == {"spawned", "reading", "inferring", "succeeded", "failed", "recorded"}
At(s, pc) == tasks[s].pc = pc
JobOf(s)  == tasks[s].job
Move(s, pc) == tasks' = [tasks EXCEPT ![s] = Task(pc, JobOf(s))]
Finish(s)   == tasks' = [tasks EXCEPT ![s] = Idle]

Spend(kind) == /\ spent[kind] < Budget[kind]
               /\ spent' = [spent EXCEPT ![kind] = @ + 1]

Among(S) == older \cap (S \X S)

(* Rows that enter the due set after every row already in it. *)
EnterLast(S) == /\ due' = due \cup S
                /\ older' = older \cup ((due \ S) \X S)

(* Rows that leave the due set: claimed, completed or postponed. *)
Leave(S) == /\ due' = due \ S
            /\ older' = Among(due \ S)

-----------------------------------------------------------------------------
Init ==
  /\ jobState = [j \in Jobs |-> "absent"]
  /\ event = [j \in Jobs |-> "none"]
  /\ due = {} /\ older = {}
  /\ audio = {}
  /\ lastRun = 0
  /\ running = TRUE /\ capturing = TRUE
  /\ retain \in BOOLEAN
  /\ daemon = "up"
  /\ batch = {}
  /\ tasks = [s \in Permits |-> Idle]
  /\ cliMidway = FALSE
  /\ spent = [k \in Kinds |-> 0]

-----------------------------------------------------------------------------
(* The recording side.                                                     *)

(* persist_recorded_chunk: the file is complete before the chunk row and   *)
(* its first job are inserted in one transaction.                          *)
PersistChunk(c) ==
  /\ daemon # "down" /\ capturing
  /\ c \notin Persisted
  /\ audio' = audio \cup {c}
  /\ jobState' = [jobState EXCEPT ![<<c, 0>>] = "pending"]
  /\ EnterLast({<<c, 0>>})
  /\ UNCHANGED <<event, session, daemon, workers, cliMidway, spent>>

(* watch_disk ends the session while the source tasks still flush. *)
DiskStop ==
  /\ daemon # "down" /\ capturing /\ running
  /\ running' = FALSE
  /\ UNCHANGED <<rows, audio, lastRun, capturing, retain, daemon, workers,
                 cliMidway, spent>>

(* The source tasks have ended and finalize_session has run. *)
EndCapture ==
  /\ daemon # "down" /\ capturing
  /\ capturing' = FALSE /\ running' = FALSE
  /\ UNCHANGED <<rows, audio, lastRun, retain, daemon, workers, cliMidway,
                 spent>>

-----------------------------------------------------------------------------
(* The dispatcher, run_workers.                                            *)

(* A retry delay has elapsed. *)
BecomeDue(j) ==
  /\ jobState[j] = "pending" /\ j \notin due
  /\ EnterLast({j})
  /\ UNCHANGED <<jobState, event, audio, session, daemon, workers, cliMidway,
                 spent>>

(* Mutant: the claimed rows are selected and never marked 'processing'. *)
ClaimUnmarked ==
  /\ daemon = "up" /\ batch = {}
  /\ \E ids \in SUBSET due :
       /\ ids # {} /\ Cardinality(ids) <= Limit
       /\ batch' = ids
  /\ UNCHANGED <<rows, audio, session, daemon, tasks, cliMidway, spent>>

(* claim_due_jobs: as many due rows as the limit leaves room for beside    *)
(* the rows already 'processing', oldest next_retry_at first (the model    *)
(* leaves equal times, which the code orders by created_at, open).         *)
Claim ==
  /\ daemon = "up" /\ batch = {}
  /\ LET free == Limit - Cardinality(InState("processing"))
     IN  \E ids \in SUBSET due :
           /\ ids # {}
           /\ Cardinality(ids) <= free
           /\ Cardinality(ids) = free \/ ids = due
           /\ \A j \in ids, k \in due \ ids : <<k, j>> \notin older
           /\ batch' = ids
           /\ jobState' = [j \in Jobs |-> IF j \in ids THEN "processing"
                                                       ELSE jobState[j]]
           /\ Leave(ids)
  /\ UNCHANGED <<event, audio, session, daemon, tasks, cliMidway, spent>>

(* A permit is free: the next claimed id gets a task. *)
Spawn(s) ==
  /\ daemon # "down"
  /\ At(s, "idle")
  /\ \E j \in batch : /\ batch' = batch \ {j}
                      /\ tasks' = [tasks EXCEPT ![s] = Task("spawned", j)]
  /\ UNCHANGED <<rows, audio, session, daemon, cliMidway, spent>>

-----------------------------------------------------------------------------
(* One task: process_job.                                                  *)

(* The job, its chunk and its provider are loaded. *)
StartJob(s) ==
  /\ daemon = "up" /\ At(s, "spawned")
  /\ Move(s, "reading")
  /\ UNCHANGED <<rows, audio, session, daemon, batch, cliMidway, spent>>

(* provider_for_job refuses the stored provider or model. *)
ProviderUnavailable(s) ==
  /\ daemon = "up" /\ At(s, "spawned")
  /\ Move(s, "failed")
  /\ UNCHANGED <<rows, audio, session, daemon, batch, cliMidway, spent>>

(* The task first runs after shutdown was requested and returns. *)
SkipAfterShutdown(s) ==
  /\ daemon \in {"stopping", "grace"} /\ At(s, "spawned")
  /\ Finish(s)
  /\ UNCHANGED <<rows, audio, session, daemon, batch, cliMidway, spent>>

(* transcribe decodes the FLAC file, which may be gone. *)
ReadAudio(s) ==
  /\ daemon # "down" /\ At(s, "reading")
  /\ IF ChunkOf(JobOf(s)) \in audio THEN Move(s, "inferring")
                                    ELSE Move(s, "failed")
  /\ UNCHANGED <<rows, audio, session, daemon, batch, cliMidway, spent>>

(* The engine returns a transcript ... *)
InferOk(s) ==
  /\ daemon # "down" /\ At(s, "inferring")
  /\ Move(s, "succeeded")
  /\ UNCHANGED <<rows, audio, session, daemon, batch, cliMidway, spent>>

(* ... or fails, times out or exceeds its output limit. *)
InferFail(s) ==
  /\ daemon # "down" /\ At(s, "inferring")
  /\ Move(s, "failed")
  /\ UNCHANGED <<rows, audio, session, daemon, batch, cliMidway, spent>>

(* Mutant: the earlier canonical event of the chunk is not demoted. *)
RecordSuccessBesideOld(s) ==
  LET j == JobOf(s) IN
  /\ daemon # "down" /\ At(s, "succeeded")
  /\ event' = [event EXCEPT ![j] = "canonical"]
  /\ jobState' = [jobState EXCEPT ![j] = "completed"]
  /\ Leave({j})
  /\ Move(s, "recorded")
  /\ UNCHANGED <<audio, session, daemon, batch, cliMidway, spent>>

(* record_transcription_success: one transaction.  A job that already has  *)
(* its event is only completed; otherwise the chunk's canonical event is   *)
(* demoted, the new one inserted as canonical and the job completed.       *)
RecordSuccess(s) ==
  LET j == JobOf(s) IN
  /\ daemon # "down" /\ At(s, "succeeded")
  /\ event' = IF HasEvent(j) THEN event
              ELSE [k \in Jobs |->
                      IF k = j THEN "canonical"
                      ELSE IF ChunkOf(k) = ChunkOf(j) /\ event[k] = "canonical"
                           THEN "superseded" ELSE event[k]]
  /\ jobState' = [jobState EXCEPT ![j] = "completed"]
  /\ Leave({j})
  /\ Move(s, "recorded")
  /\ UNCHANGED <<audio, session, daemon, batch, cliMidway, spent>>

(* After the transcript files are rewritten the audio goes, unless the     *)
(* session keeps it.                                                       *)
RemoveAudio(s) ==
  /\ daemon # "down" /\ At(s, "recorded")
  /\ audio' = IF retain THEN audio ELSE audio \ {ChunkOf(JobOf(s))}
  /\ Finish(s)
  /\ UNCHANGED <<rows, session, daemon, batch, cliMidway, spent>>

(* Mutant: a fourth state, which the table's CHECK clause does not know. *)
ScheduleRetryAsFailed(s) ==
  LET j == JobOf(s) IN
  /\ daemon # "down" /\ At(s, "failed")
  /\ jobState' = [jobState EXCEPT ![j] = "failed"]
  /\ Leave({j})
  /\ Finish(s)
  /\ UNCHANGED <<event, audio, session, daemon, batch, cliMidway, spent>>

(* schedule_retry and mark_job_retry: the row becomes pending, with a      *)
(* later next_retry_at, whatever state it has.                             *)
ScheduleRetry(s) ==
  LET j == JobOf(s) IN
  /\ daemon # "down" /\ At(s, "failed")
  /\ jobState' = [jobState EXCEPT ![j] = "pending"]
  /\ Leave({j})
  /\ Finish(s)
  /\ UNCHANGED <<event, audio, session, daemon, batch, cliMidway, spent>>

(* A database call of process_job fails and `?` ends the task. *)
TaskError(s) ==
  /\ daemon # "down"
  /\ tasks[s].pc \in {"spawned", "succeeded", "failed"}
  /\ Spend("dbFault")
  /\ Finish(s)
  /\ UNCHANGED <<rows, audio, session, daemon, batch, cliMidway>>

-----------------------------------------------------------------------------
(* The control socket and the command line.                                *)

(* Every pending row is due now: retry_session_pending and retry_pending. *)
MakeDue == /\ due' = InState("pending")
           /\ older' = {}

(* Mutant: every row of the session is queued, not only the pending ones. *)
RetrySessionAll ==
  /\ daemon = "up" /\ Spend("sessionRetry")
  /\ jobState' = [j \in Jobs |-> IF jobState[j] = "absent" THEN "absent"
                                                          ELSE "pending"]
  /\ due' = Jobs \ InState("absent") /\ older' = {}
  /\ UNCHANGED <<event, audio, session, daemon, workers, cliMidway>>

RetrySession ==
  /\ daemon = "up" /\ Spend("sessionRetry")
  /\ MakeDue
  /\ UNCHANGED <<jobState, event, audio, session, daemon, workers, cliMidway>>

(* reset_processing_without_event: the rows keep their next_retry_at,      *)
(* which is no later than that of any due row.                             *)
Orphaned == {j \in InState("processing") : ~HasEvent(j)}

ResetProcessing ==
  /\ jobState' = [j \in Jobs |-> IF j \in Orphaned THEN "pending"
                                                   ELSE jobState[j]]
  /\ due' = due \cup Orphaned
  /\ older' = older \cup (Orphaned \X due)

(* cmd_retry, in a process of its own, with or without a daemon. *)
CliResetProcessing ==
  /\ ~cliMidway /\ Spend("cliRetry")
  /\ ResetProcessing
  /\ cliMidway' = TRUE
  /\ UNCHANGED <<event, audio, session, daemon, workers>>

CliRetryPending ==
  /\ cliMidway /\ cliMidway' = FALSE
  /\ MakeDue
  /\ UNCHANGED <<jobState, event, audio, session, daemon, workers, spent>>

(* queue_retranscribe, from the socket or the command line: a new run with *)
(* one pending job for every chunk row.                                    *)
Retranscribe ==
  LET run == lastRun + 1
      new == {<<c, run>> : c \in Persisted}
  IN /\ lastRun < MaxRun
     /\ lastRun' = run
     /\ jobState' = [j \in Jobs |-> IF j \in new THEN "pending"
                                                 ELSE jobState[j]]
     /\ EnterLast(new)
     /\ UNCHANGED <<event, audio, running, capturing, retain, daemon, workers,
                    cliMidway, spent>>

(* Mutant: the transcripts are not asked for. *)
DeleteSessionAudioUnchecked ==
  /\ daemon = "up" /\ ~running
  /\ audio' = audio \ Persisted
  /\ UNCHANGED <<rows, session, daemon, workers, cliMidway, spent>>

(* delete_session_audio: refused for a running session and until every     *)
(* chunk has an event.                                                     *)
DeleteSessionAudio ==
  /\ daemon = "up" /\ ~running
  /\ Persisted # {} /\ \A c \in Persisted : Transcribed(c)
  /\ Persisted \cap audio # {}
  /\ audio' = audio \ Persisted
  /\ UNCHANGED <<rows, session, daemon, workers, cliMidway, spent>>

-----------------------------------------------------------------------------
(* The life of the process.                                                *)

(* SIGTERM, SIGINT or the socket's `stop`: one token stops the dispatcher, *)
(* the recording and the main loop.                                        *)
RequestShutdown ==
  /\ daemon = "up"
  /\ Spend("stop")
  /\ daemon' = "stopping"
  /\ UNCHANGED <<rows, audio, session, workers, cliMidway>>

(* The main loop has left: a first reset, then the grace period in which   *)
(* tasks may still finish.                                                 *)
ResetBeforeGrace ==
  /\ daemon = "stopping" /\ ~capturing
  /\ daemon' = "grace"
  /\ ResetProcessing
  /\ UNCHANGED <<event, audio, session, workers, cliMidway, spent>>

(* The grace period is over: the last reset, and the tasks die. *)
Exit ==
  /\ daemon = "grace"
  /\ daemon' = "down"
  /\ ResetProcessing
  /\ batch' = {} /\ tasks' = [s \in Permits |-> Idle]
  /\ UNCHANGED <<event, audio, session, cliMidway, spent>>

Crash ==
  /\ daemon # "down"
  /\ Spend("crash")
  /\ daemon' = "down"
  /\ capturing' = FALSE
  /\ batch' = {} /\ tasks' = [s \in Permits |-> Idle]
  /\ UNCHANGED <<rows, audio, lastRun, running, retain, cliMidway>>

(* Mutant: recovery completes the leftover rows instead of queueing them. *)
StartupCompletesAll ==
  /\ daemon = "down"
  /\ daemon' = "up"
  /\ running' = FALSE
  /\ jobState' = [j \in Jobs |-> IF jobState[j] = "processing" THEN "completed"
                                                              ELSE jobState[j]]
  /\ UNCHANGED <<event, due, older, audio, lastRun, capturing, retain, workers,
                 cliMidway, spent>>

(* Mutant: recovery forgets reset_processing_without_event. *)
StartupKeepsProcessing ==
  /\ daemon = "down"
  /\ daemon' = "up"
  /\ running' = FALSE
  /\ UNCHANGED <<rows, audio, lastRun, capturing, retain, workers, cliMidway,
                 spent>>

(* recover_on_startup: leftover sessions are interrupted, 'processing'     *)
(* rows that have their event are completed, the others are pending again. *)
Startup ==
  /\ daemon = "down"
  /\ daemon' = "up"
  /\ running' = FALSE
  /\ jobState' = [j \in Jobs |->
                    IF jobState[j] # "processing" THEN jobState[j]
                    ELSE IF HasEvent(j) THEN "completed" ELSE "pending"]
  /\ due' = due \cup Orphaned
  /\ older' = older \cup (Orphaned \X due)
  /\ UNCHANGED <<event, audio, lastRun, capturing, retain, workers, cliMidway,
                 spent>>

-----------------------------------------------------------------------------
Dispatch == Claim \/ \E s \in Permits : Spawn(s)

WorkerStep(s) ==
  \/ StartJob(s) \/ ProviderUnavailable(s) \/ SkipAfterShutdown(s)
  \/ ReadAudio(s) \/ InferOk(s) \/ InferFail(s)
  \/ RecordSuccess(s) \/ RemoveAudio(s) \/ ScheduleRetry(s) \/ TaskError(s)

Capture == DiskStop \/ EndCapture \/ \E c \in Chunks : PersistChunk(c)

Operator ==
  RetrySession \/ CliResetProcessing \/ CliRetryPending \/ Retranscribe
  \/ DeleteSessionAudio

Lifecycle ==
  RequestShutdown \/ ResetBeforeGrace \/ Exit \/ Crash \/ Startup

Next ==
  \/ Capture
  \/ \E j \in Jobs : BecomeDue(j)
  \/ Dispatch
  \/ \E s \in Permits : WorkerStep(s)
  \/ Operator
  \/ Lifecycle

Spec == Init /\ [][Next]_vars

(* The daemon's own steps are taken when they can be: systemd restarts it, *)
(* the runtime polls every ready task, the dispatcher ticks every second   *)
(* and retry delays are finite.  A provider that is tried again and again  *)
(* is assumed to be available, and to return a transcript, at last: this   *)
(* is an assumption on the engine, not on the code.                        *)
Fairness ==
  /\ WF_vars(Dispatch) /\ WF_vars(Startup)
  /\ WF_vars(ResetBeforeGrace) /\ WF_vars(Exit)
  /\ WF_vars(daemon = "stopping" /\ EndCapture)
  /\ \A j \in Jobs : WF_vars(BecomeDue(j))
  /\ \A s \in Permits : WF_vars(WorkerStep(s))
  /\ \A j \in Jobs :
       /\ SF_vars(\E s \in Permits : StartJob(s) /\ JobOf(s) = j)
       /\ SF_vars(\E s \in Permits : InferOk(s) /\ JobOf(s) = j)

FairSpec == Spec /\ Fairness
-----------------------------------------------------------------------------
(* The promise of TranscriptStore, kept by the tables and the files. *)
TranscribedChunks == {c \in Chunks : Transcribed(c)}

TS == INSTANCE TranscriptStore
        WITH stored <- Persisted, transcribed <- TranscribedChunks

(* The queue implements TranscriptStore: in every step, a crash, a retry   *)
(* or a deletion included, an utterance gets its transcript from audio     *)
(* that is still there, keeps it, and loses its audio only afterwards.     *)
ImplementsTranscriptStore == TS!StoreSpec

-----------------------------------------------------------------------------
(* Types of the variables. *)
TypeOK ==
  /\ jobState \in [Jobs -> {"absent", "pending", "processing", "completed"}]
  /\ event \in [Jobs -> {"none", "canonical", "superseded"}]
  /\ due \subseteq Jobs
  /\ older \subseteq Jobs \X Jobs
  /\ audio \subseteq Chunks
  /\ lastRun \in 0 .. MaxRun
  /\ running \in BOOLEAN /\ capturing \in BOOLEAN /\ retain \in BOOLEAN
  /\ daemon \in {"up", "stopping", "grace", "down"}
  /\ batch \subseteq Jobs
  /\ tasks \in [Permits -> {Idle} \cup [pc : Steps, job : Jobs]]
  /\ cliMidway \in BOOLEAN
  /\ spent \in [Kinds -> Nat]

(* "delete each audio chunk only after its transcript is durably stored":  *)
(* a stored chunk whose FLAC is gone has an event row, through every       *)
(* interleaving of workers, deletions, retries and crashes.                *)
AudioUntilTranscribed ==
  \A c \in Persisted : c \notin audio => Transcribed(c)

(* Every transcribed chunk has exactly one canonical event, so a           *)
(* retranscription neither duplicates nor loses a line of the transcript.  *)
OneCanonicalEvent ==
  \A c \in Chunks : Transcribed(c) =>
    \E j \in Jobs : /\ ChunkOf(j) = c /\ event[j] = "canonical"
                    /\ \A k \in Jobs : ChunkOf(k) = c /\ event[k] = "canonical"
                                        => k = j

(* A row is 'completed' only with its event; and until somebody runs       *)
(* `retry` beside a working daemon, a row with an event is 'completed', so *)
(* no transcript is ever made twice for one job.                           *)
CompletedIffRecorded ==
  \A j \in Jobs :
    /\ jobState[j] = "completed" => HasEvent(j)
    /\ HasEvent(j) /\ spent["cliRetry"] = 0 => jobState[j] = "completed"

(* The tasks and the claimed ids that will still decide a row's fate. *)
Working(s) == tasks[s].pc \notin {"idle", "recorded"}
Owned(j) == j \in batch \/ \E s \in Permits : Working(s) /\ JobOf(s) = j

(* While the daemon serves the queue and no database call has failed, a    *)
(* row in 'processing' is in the hands of the dispatcher or of a task:     *)
(* nothing else would ever take it out of that state again.                *)
NoStrandedRow ==
  daemon = "up" /\ spent["dbFault"] = 0 =>
    \A j \in InState("processing") : Owned(j)

(* Until somebody runs `retry` beside a working daemon, one job is never   *)
(* worked on twice at the same time.                                       *)
ExclusiveJob ==
  spent["cliRetry"] = 0 =>
    /\ \A s, t \in Permits :
         tasks[s] # Idle /\ tasks[t] # Idle /\ JobOf(s) = JobOf(t) => s = t
    /\ \A s \in Permits : tasks[s] # Idle => JobOf(s) \notin batch

(* A job the command line has not touched never leaves 'completed'. *)
CompletedIsFinal ==
  [][ \A j \in InState("completed") :
        spent["cliRetry"] = 0 => jobState'[j] = "completed" ]_vars

(* Every stored chunk is transcribed in the end, whatever fails or is      *)
(* restarted on the way.                                                   *)
EveryChunkTranscribed ==
  \A c \in Chunks : c \in Persisted ~> Transcribed(c)

(* "Retry incomplete transcription jobs": a completed job stays completed. *)
RetryLeavesCompletedJobs ==
  [][ \A j \in InState("completed") : jobState'[j] = "completed" ]_vars
=============================================================================
