--------------------------- MODULE JobQueueProofs ---------------------------
(***************************************************************************)
(* Theorems about JobQueue for every set of chunks, number of workers,     *)
(* number of retranscriptions and number of faults, and about what         *)
(* SessionStatus derives from it.                                          *)
(***************************************************************************)
EXTENDS SessionStatus, TLAPS

USE RunAssumption, BudgetAssumption

(* The fault counters stay natural numbers. *)
LEMMA SpendType ==
  ASSUME spent \in [Kinds -> Nat], NEW kind \in Kinds, Spend(kind)
  PROVE  spent' \in [Kinds -> Nat]
BY DEF Spend

(* A reset keeps the types of the rows. *)
LEMMA ResetType ==
  ASSUME TypeOK, ResetProcessing
  PROVE  /\ jobState' \in [Jobs -> {"absent", "pending", "processing", "completed"}]
         /\ due' \subseteq Jobs /\ older' \subseteq Jobs \X Jobs
<1>1. Orphaned \subseteq Jobs  BY DEF Orphaned, InState
<1> QED  BY <1>1 DEF ResetProcessing, TypeOK

(* Every step keeps the types. *)
LEMMA TypeStep == TypeOK /\ [Next]_vars => TypeOK'
<1> SUFFICES ASSUME TypeOK, [Next]_vars PROVE TypeOK'
  OBVIOUS
<1> USE DEF TypeOK
<1>1. ASSUME NEW c \in Chunks, PersistChunk(c) PROVE TypeOK'
  <2>1. <<c, 0>> \in Jobs  BY DEF Jobs
  <2> QED  BY <1>1, <2>1 DEF PersistChunk, EnterLast, session, workers
<1>2. ASSUME DiskStop \/ EndCapture PROVE TypeOK'
  BY <1>2 DEF DiskStop, EndCapture, rows, workers
<1>3. ASSUME NEW j \in Jobs, BecomeDue(j) PROVE TypeOK'
  BY <1>3 DEF BecomeDue, EnterLast, session, workers
<1>4. CASE Claim
  BY <1>4 DEF Claim, Leave, Among, session
<1>5. ASSUME NEW s \in Permits, Spawn(s) PROVE TypeOK'
  BY <1>5 DEF Spawn, Task, Steps, rows, session
<1>6. ASSUME NEW s \in Permits, WorkerStep(s) PROVE TypeOK'
  <2> USE DEF At, Move, Finish, JobOf, Task, Steps, Idle, rows, session
  <2>1. CASE tasks[s] = Idle
    BY <1>6, <2>1 DEF WorkerStep, StartJob, ProviderUnavailable,
      SkipAfterShutdown, ReadAudio, InferOk, InferFail, RecordSuccess,
      RemoveAudio, ScheduleRetry, TaskError
  <2>2. CASE JobOf(s) \in Jobs
    <3>1. CASE StartJob(s) \/ ProviderUnavailable(s) \/ SkipAfterShutdown(s)
               \/ ReadAudio(s) \/ InferOk(s) \/ InferFail(s)
      BY <2>2, <3>1 DEF StartJob, ProviderUnavailable, SkipAfterShutdown,
           ReadAudio, InferOk, InferFail
    <3>2. CASE RecordSuccess(s)
      BY <2>2, <3>2 DEF RecordSuccess, Leave, Among
    <3>3. CASE RemoveAudio(s)
      BY <2>2, <3>3 DEF RemoveAudio
    <3>4. CASE ScheduleRetry(s)
      BY <2>2, <3>4 DEF ScheduleRetry, Leave, Among
    <3>5. CASE TaskError(s)
      <4>1. spent' \in [Kinds -> Nat]
        BY <3>5, SpendType DEF TaskError, Kinds
      <4> QED  BY <3>5, <4>1 DEF TaskError
    <3> QED  BY <1>6, <3>1, <3>2, <3>3, <3>4, <3>5 DEF WorkerStep
  <2> QED  BY <2>1, <2>2
<1>7. CASE Operator
  <2> USE DEF rows, session, workers
  <2>1. CASE RetrySession
    <3>1. spent' \in [Kinds -> Nat]  BY <2>1, SpendType DEF RetrySession, Kinds
    <3> QED  BY <2>1, <3>1 DEF RetrySession, MakeDue, InState
  <2>2. CASE CliResetProcessing
    <3>1. spent' \in [Kinds -> Nat]
      BY <2>2, SpendType DEF CliResetProcessing, Kinds
    <3> QED  BY <2>2, <3>1, ResetType DEF CliResetProcessing
  <2>3. CASE CliRetryPending
    BY <2>3 DEF CliRetryPending, MakeDue, InState
  <2>4. CASE Retranscribe
    <3> DEFINE new == {<<c, lastRun + 1>> : c \in Persisted}
    <3>1. lastRun + 1 \in 0 .. MaxRun  BY <2>4 DEF Retranscribe
    <3>2. ASSUME NEW c \in Persisted PROVE <<c, lastRun + 1>> \in Jobs
      BY <3>1 DEF Jobs, Persisted
    <3>3. new \subseteq Jobs  BY <3>2
    <3> HIDE DEF new
    <3>4. jobState' = [j \in Jobs |-> IF j \in new THEN "pending"
                                                    ELSE jobState[j]]
          /\ due' = due \cup new /\ older' = older \cup ((due \ new) \X new)
          /\ lastRun' = lastRun + 1
      BY <2>4 DEF Retranscribe, EnterLast, new
    <3> QED  BY <2>4, <3>1, <3>3, <3>4 DEF Retranscribe
  <2>5. CASE DeleteSessionAudio
    BY <2>5 DEF DeleteSessionAudio
  <2> QED  BY <1>7, <2>1, <2>2, <2>3, <2>4, <2>5 DEF Operator
<1>8. CASE Lifecycle
  <2> USE DEF rows, session, workers
  <2>1. CASE RequestShutdown
    <3>1. spent' \in [Kinds -> Nat]
      BY <2>1, SpendType DEF RequestShutdown, Kinds
    <3> QED  BY <2>1, <3>1 DEF RequestShutdown
  <2>2. CASE ResetBeforeGrace
    BY <2>2, ResetType DEF ResetBeforeGrace
  <2>3. CASE Exit
    BY <2>3, ResetType DEF Exit
  <2>4. CASE Crash
    <3>1. spent' \in [Kinds -> Nat]  BY <2>4, SpendType DEF Crash, Kinds
    <3> QED  BY <2>4, <3>1 DEF Crash
  <2>5. CASE Startup
    <3>1. Orphaned \subseteq Jobs  BY DEF Orphaned, InState
    <3> QED  BY <2>5, <3>1 DEF Startup
  <2> QED  BY <1>8, <2>1, <2>2, <2>3, <2>4, <2>5 DEF Lifecycle
<1>9. CASE UNCHANGED vars
  BY <1>9 DEF vars, rows, session, workers
<1> QED  BY <1>1, <1>2, <1>3, <1>4, <1>5, <1>6, <1>7, <1>8, <1>9
           DEF Next, Capture, Dispatch

(* Every variable keeps its type: in particular the states written to      *)
(* transcription_jobs are those its CHECK clause allows.                   *)
THEOREM TypeCorrect == Spec => []TypeOK
<1>1. Init => TypeOK
  <2> SUFFICES ASSUME Init PROVE TypeOK
    OBVIOUS
  <2> USE DEF Init
  <2>1. jobState \in [Jobs -> {"absent", "pending", "processing", "completed"}] OBVIOUS
  <2>2. event \in [Jobs -> {"none", "canonical", "superseded"}] OBVIOUS
  <2>3. due \subseteq Jobs /\ older \subseteq Jobs \X Jobs /\ audio \subseteq Chunks /\ batch \subseteq Jobs OBVIOUS
  <2>4. lastRun \in 0 .. MaxRun OBVIOUS
  <2>5. running \in BOOLEAN /\ capturing \in BOOLEAN /\ retain \in BOOLEAN /\ cliMidway \in BOOLEAN OBVIOUS
  <2>6. tasks \in [Permits -> {Idle} \cup [pc : Steps, job : Jobs]] OBVIOUS
  <2>7. spent \in [Kinds -> Nat] OBVIOUS
  <2>8. daemon \in {"up", "stopping", "grace", "down"} OBVIOUS
  <2> QED BY <2>1, <2>2, <2>3, <2>4, <2>5, <2>6, <2>7, <2>8 DEF TypeOK
<1> QED  BY <1>1, TypeStep, PTL DEF Spec

-----------------------------------------------------------------------------
(* Which actions write what.                                               *)

(* Only record_transcription_success writes transcript_events. *)
LEMMA EventWriters ==
  ASSUME [Next]_vars
  PROVE  event' = event \/ \E s \in Permits : RecordSuccess(s)
<1> USE DEF rows, session, workers
<1>1. CASE Capture
  BY <1>1 DEF Capture, DiskStop, EndCapture, PersistChunk
<1>2. CASE \E j \in Jobs : BecomeDue(j)
  BY <1>2 DEF BecomeDue
<1>3. CASE Dispatch
  BY <1>3 DEF Dispatch, Claim, Spawn
<1>4. CASE \E s \in Permits : WorkerStep(s)
  BY <1>4 DEF WorkerStep, StartJob, ProviderUnavailable, SkipAfterShutdown,
     ReadAudio, InferOk, InferFail, RemoveAudio, ScheduleRetry, TaskError
<1>5. CASE Operator
  BY <1>5 DEF Operator, RetrySession, CliResetProcessing, CliRetryPending,
     Retranscribe, DeleteSessionAudio
<1>6. CASE Lifecycle
  BY <1>6 DEF Lifecycle, RequestShutdown, ResetBeforeGrace, Exit, Crash, Startup
<1> QED  BY <1>1, <1>2, <1>3, <1>4, <1>5, <1>6 DEF Next, vars

(* Only these actions write or delete FLAC files. *)
LEMMA AudioWriters ==
  ASSUME [Next]_vars
  PROVE  \/ audio' = audio
         \/ \E c \in Chunks : PersistChunk(c)
         \/ \E s \in Permits : RemoveAudio(s)
         \/ DeleteSessionAudio
<1> USE DEF rows, session, workers
<1>1. CASE Capture
  BY <1>1 DEF Capture, DiskStop, EndCapture
<1>2. CASE \E j \in Jobs : BecomeDue(j)
  BY <1>2 DEF BecomeDue
<1>3. CASE Dispatch
  BY <1>3 DEF Dispatch, Claim, Spawn
<1>4. CASE \E s \in Permits : WorkerStep(s)
  BY <1>4 DEF WorkerStep, StartJob, ProviderUnavailable, SkipAfterShutdown,
     ReadAudio, InferOk, InferFail, RecordSuccess, ScheduleRetry, TaskError
<1>5. CASE Operator
  BY <1>5 DEF Operator, RetrySession, CliResetProcessing, CliRetryPending,
     Retranscribe
<1>6. CASE Lifecycle
  BY <1>6 DEF Lifecycle, RequestShutdown, ResetBeforeGrace, Exit, Crash, Startup
<1> QED  BY <1>1, <1>2, <1>3, <1>4, <1>5, <1>6 DEF Next, vars

(* A transcript that is stored stays stored. *)
LEMMA EventsKept ==
  ASSUME TypeOK, [Next]_vars, NEW j \in Jobs, HasEvent(j)
  PROVE  HasEvent(j)'
<1>1. CASE event' = event
  BY <1>1 DEF HasEvent
<1>2. ASSUME NEW s \in Permits, RecordSuccess(s) PROVE HasEvent(j)'
  BY <1>2 DEF RecordSuccess, HasEvent, TypeOK
<1> QED  BY <1>1, <1>2, EventWriters

(* So a chunk that is transcribed stays transcribed. *)
LEMMA TranscribedKept ==
  ASSUME TypeOK, [Next]_vars, NEW c \in Chunks, Transcribed(c)
  PROVE  Transcribed(c)'
BY EventsKept DEF Transcribed, ChunkOf

-----------------------------------------------------------------------------
(* One canonical event per transcribed chunk.  The property is inductive:  *)
(* the transaction that inserts an event demotes the chunk's earlier one.  *)
THEOREM OneCanonical == Spec => []OneCanonicalEvent
<1>1. Init => OneCanonicalEvent
  BY DEF Init, OneCanonicalEvent, Transcribed, HasEvent
<1>2. TypeOK /\ OneCanonicalEvent /\ [Next]_vars => OneCanonicalEvent'
  <2> SUFFICES ASSUME TypeOK, OneCanonicalEvent, [Next]_vars
               PROVE  OneCanonicalEvent'
    OBVIOUS
  <2>1. CASE event' = event
    BY <2>1 DEF OneCanonicalEvent, Transcribed, HasEvent
  <2>2. ASSUME NEW s \in Permits, RecordSuccess(s) PROVE OneCanonicalEvent'
    <3> DEFINE j == JobOf(s)
    <3>1. CASE HasEvent(j)
      <4>1. event' = event  BY <2>2, <3>1 DEF RecordSuccess
      <4> QED  BY <2>1, <4>1
    <3>2. CASE ~HasEvent(j)
      <4>1. event' = [k \in Jobs |->
                        IF k = j THEN "canonical"
                        ELSE IF ChunkOf(k) = ChunkOf(j) /\ event[k] = "canonical"
                             THEN "superseded" ELSE event[k]]
        BY <2>2, <3>2 DEF RecordSuccess
      <4>2. j \in Jobs
        BY <2>2 DEF RecordSuccess, At, JobOf, TypeOK, Idle
      <4> SUFFICES ASSUME NEW c \in Chunks, Transcribed(c)'
                   PROVE  \E i \in Jobs :
                            /\ ChunkOf(i) = c /\ event'[i] = "canonical"
                            /\ \A k \in Jobs :
                                 ChunkOf(k) = c /\ event'[k] = "canonical" => k = i
        BY DEF OneCanonicalEvent
      <4> HIDE DEF j
      <4>3. CASE c = ChunkOf(j)
        BY <4>1, <4>2, <4>3
      <4>4. CASE c # ChunkOf(j)
        <5>1. \A k \in Jobs : ChunkOf(k) = c => event'[k] = event[k]
          BY <4>1, <4>4
        <5>2. Transcribed(c)  BY <5>1 DEF Transcribed, HasEvent
        <5> QED  BY <5>1, <5>2 DEF OneCanonicalEvent
      <4> QED  BY <4>3, <4>4
    <3> QED  BY <3>1, <3>2
  <2> QED  BY <2>1, <2>2, EventWriters
<1> QED  BY <1>1, <1>2, TypeCorrect, PTL DEF Spec

-----------------------------------------------------------------------------
(* A task that is about to delete audio has stored its transcript: on the  *)
(* way from one transaction to the deletion nothing takes the event away.  *)
RecordedFirst == \A s \in Permits : At(s, "recorded") => HasEvent(JobOf(s))

(* How one task may move in a step. *)
LEMMA TaskMoves ==
  ASSUME TypeOK, [Next]_vars, NEW s \in Permits, At(s, "recorded")'
  PROVE  tasks'[s] = tasks[s] \/ RecordSuccess(s)
<1> USE DEF TypeOK, rows, session, workers, At, Move, Finish, Task, Idle
<1>1. CASE Capture
  BY <1>1 DEF Capture, DiskStop, EndCapture, PersistChunk
<1>2. CASE \E j \in Jobs : BecomeDue(j)
  BY <1>2 DEF BecomeDue
<1>3. CASE Dispatch
  BY <1>3 DEF Dispatch, Claim, Spawn
<1>4. ASSUME NEW t \in Permits, WorkerStep(t)
      PROVE  tasks'[s] = tasks[s] \/ RecordSuccess(s)
  <2>1. CASE RecordSuccess(t)
    BY <2>1 DEF RecordSuccess
  <2>2. CASE StartJob(t) \/ ProviderUnavailable(t) \/ ReadAudio(t) \/ InferOk(t)
             \/ InferFail(t)
    BY <2>2 DEF StartJob, ProviderUnavailable, ReadAudio, InferOk, InferFail
  <2>3. CASE SkipAfterShutdown(t) \/ RemoveAudio(t) \/ ScheduleRetry(t)
             \/ TaskError(t)
    BY <2>3 DEF SkipAfterShutdown, RemoveAudio, ScheduleRetry, TaskError
  <2> QED  BY <1>4, <2>1, <2>2, <2>3 DEF WorkerStep
<1>5. CASE Operator
  BY <1>5 DEF Operator, RetrySession, CliResetProcessing, CliRetryPending,
     Retranscribe, DeleteSessionAudio
<1>6. CASE Lifecycle
  BY <1>6 DEF Lifecycle, RequestShutdown, ResetBeforeGrace, Exit, Crash, Startup
<1> QED  BY <1>1, <1>2, <1>3, <1>4, <1>5, <1>6 DEF Next, vars

(* A task that has recorded its transcript finds its event. *)
LEMMA RecordedInv == Spec => []RecordedFirst
<1>1. Init => RecordedFirst
  BY DEF Init, RecordedFirst, At, Idle
<1>2. TypeOK /\ RecordedFirst /\ [Next]_vars => RecordedFirst'
  <2> SUFFICES ASSUME TypeOK, RecordedFirst, [Next]_vars,
                      NEW s \in Permits, At(s, "recorded")'
               PROVE  HasEvent(JobOf(s))'
    BY DEF RecordedFirst
  <2>1. CASE tasks'[s] = tasks[s]
    <3>1. JobOf(s)' = JobOf(s) /\ At(s, "recorded")  BY <2>1 DEF JobOf, At
    <3>2. JobOf(s) \in Jobs  BY <3>1 DEF JobOf, At, TypeOK, Idle
    <3>3. HasEvent(JobOf(s))  BY <3>1 DEF RecordedFirst
    <3>4. \A j \in Jobs : HasEvent(j) => HasEvent(j)'  BY EventsKept
    <3> QED  BY <3>1, <3>2, <3>3, <3>4 DEF HasEvent
  <2>2. CASE RecordSuccess(s)
    <3>1. JobOf(s) \in Jobs  BY <2>2 DEF RecordSuccess, JobOf, At, TypeOK, Idle
    <3>2. JobOf(s)' = JobOf(s)
      BY <2>2 DEF RecordSuccess, Move, Task, JobOf, TypeOK
    <3>3. event'[JobOf(s)] # "none"
      BY <2>2, <3>1 DEF RecordSuccess, HasEvent, TypeOK
    <3> QED  BY <3>2, <3>3 DEF HasEvent
  <2> QED  BY <2>1, <2>2, TaskMoves
<1> QED  BY <1>1, <1>2, TypeCorrect, PTL DEF Spec

-----------------------------------------------------------------------------
(* Rows, claimed ids and tasks fit together: only pending rows are due,    *)
(* nothing claimed or worked on lacks its row, and no row precedes the row *)
(* of its chunk's first job or its run.                                    *)
Exists(j) == jobState[j] # "absent"

RowsInv ==
  /\ \A j \in due : jobState[j] = "pending"
  /\ \A j \in Jobs : Exists(j) => j[2] <= lastRun /\ ChunkOf(j) \in Persisted
  /\ \A j \in batch : Exists(j)
  /\ \A s \in Permits : tasks[s] # Idle => JobOf(s) \in Jobs /\ Exists(JobOf(s))

(* A step that adds no row and no run keeps the second part. *)
LEMMA SameRows ==
  ASSUME TypeOK, RowsInv, lastRun' = lastRun,
         \A j \in Jobs : Exists(j)' <=> Exists(j)
  PROVE  /\ Persisted' = Persisted
         /\ \A j \in Jobs : Exists(j)' => j[2] <= lastRun' /\ ChunkOf(j) \in Persisted'
<1>1. \A c \in Chunks : <<c, 0>> \in Jobs  BY DEF Jobs
<1>2. Persisted' = Persisted  BY <1>1 DEF Persisted, Exists
<1> QED  BY <1>2 DEF RowsInv

(* A step of a task that leaves the rows alone keeps RowsInv. *)
LEMMA QuietStep ==
  ASSUME TypeOK, RowsInv, UNCHANGED <<jobState, due, lastRun, batch>>,
         \A s \in Permits : tasks'[s] = Idle \/ /\ tasks[s] # Idle
                                                /\ JobOf(s)' = JobOf(s)
  PROVE  RowsInv'
BY DEF RowsInv, Exists, Persisted

(* Every step keeps RowsInv. *)
LEMMA RowsStep == TypeOK /\ RowsInv /\ [Next]_vars => RowsInv'
<1> SUFFICES ASSUME TypeOK, RowsInv, [Next]_vars PROVE RowsInv'
  OBVIOUS
<1> USE DEF rows, session, workers
<1>1. ASSUME NEW c \in Chunks, PersistChunk(c) PROVE RowsInv'
  <2>1. <<c, 0>> \in Jobs  BY DEF Jobs
  <2>2. /\ jobState' = [jobState EXCEPT ![<<c, 0>>] = "pending"]
        /\ due' = due \cup {<<c, 0>>}
        /\ UNCHANGED <<lastRun, batch, tasks>>
    BY <1>1 DEF PersistChunk, EnterLast
  <2>3. jobState'[<<c, 0>>] = "pending" /\ \A j \in Jobs : j # <<c, 0>> => jobState'[j] = jobState[j]
    BY <2>1, <2>2 DEF TypeOK
  <2>4. \A d \in Chunks : <<d, 0>> \in Jobs  BY DEF Jobs
  <2>5. c \in Persisted' /\ \A d \in Persisted : d \in Persisted'
    BY <2>3, <2>4 DEF Persisted
  <2>6. \A j \in Jobs : Exists(j)' => j[2] <= lastRun' /\ ChunkOf(j) \in Persisted'
    <3> SUFFICES ASSUME NEW j \in Jobs, Exists(j)'
                 PROVE  j[2] <= lastRun' /\ ChunkOf(j) \in Persisted'
      OBVIOUS
    <3>1. CASE j = <<c, 0>>
      BY <2>2, <2>5, <3>1 DEF ChunkOf, TypeOK
    <3>2. CASE j # <<c, 0>>
      BY <2>2, <2>3, <2>5, <3>2 DEF RowsInv, Exists
    <3> QED  BY <3>1, <3>2
  <2>7. \A j \in due' : jobState'[j] = "pending"
    BY <2>1, <2>2, <2>3 DEF RowsInv, TypeOK
  <2>8. \A j \in batch' : Exists(j)'
    BY <2>1, <2>2, <2>3 DEF RowsInv, TypeOK, Exists
  <2>9. \A s \in Permits : tasks'[s] # Idle => JobOf(s)' \in Jobs /\ Exists(JobOf(s))'
    BY <2>1, <2>2, <2>3 DEF RowsInv, Exists, JobOf
  <2> QED  BY <2>6, <2>7, <2>8, <2>9 DEF RowsInv
<1>2. CASE DiskStop \/ EndCapture
  BY <1>2 DEF DiskStop, EndCapture, RowsInv, Exists, Persisted, JobOf
<1>3. ASSUME NEW j \in Jobs, BecomeDue(j) PROVE RowsInv'
  BY <1>3 DEF BecomeDue, EnterLast, RowsInv, Exists, Persisted, JobOf
<1>4. CASE Claim
  <2>1. PICK ids \in SUBSET due :
          /\ batch' = ids
          /\ jobState' = [j \in Jobs |-> IF j \in ids THEN "processing"
                                                      ELSE jobState[j]]
          /\ due' = due \ ids
          /\ UNCHANGED <<lastRun, tasks>>
    BY <1>4 DEF Claim, Leave
  <2>2. \A j \in Jobs : Exists(j)' <=> Exists(j)
    BY <2>1 DEF RowsInv, Exists
  <2>3. ids \subseteq Jobs  BY DEF TypeOK
  <2>4. \A s \in Permits : tasks'[s] # Idle => JobOf(s)' \in Jobs /\ Exists(JobOf(s))'
    BY <2>1, <2>2 DEF RowsInv, JobOf, Exists
  <2>5. \A j \in due' : jobState'[j] = "pending"
    BY <2>1 DEF RowsInv, TypeOK
  <2>6. \A j \in batch' : Exists(j)'
    BY <2>1, <2>3 DEF Exists
  <2> QED  BY <2>1, <2>2, <2>4, <2>5, <2>6, SameRows DEF RowsInv
<1>5. ASSUME NEW s \in Permits, Spawn(s) PROVE RowsInv'
  <2>1. PICK j \in batch : batch' = batch \ {j}
                           /\ tasks' = [tasks EXCEPT ![s] = Task("spawned", j)]
    BY <1>5 DEF Spawn
  <2>2. j \in Jobs /\ Exists(j)  BY DEF RowsInv, TypeOK
  <2>3. UNCHANGED <<jobState, due, lastRun>>  BY <1>5 DEF Spawn
  <2>4. \A t \in Permits : tasks'[t] # Idle => JobOf(t)' \in Jobs /\ Exists(JobOf(t))'
    BY <2>1, <2>2, <2>3 DEF RowsInv, JobOf, Exists, Task, TypeOK
  <2> QED  BY <2>1, <2>3, <2>4 DEF RowsInv, Exists, Persisted
<1>6. ASSUME NEW s \in Permits, WorkerStep(s) PROVE RowsInv'
  <2> USE DEF At, Move, Finish, Task, Idle
  <2>1. CASE \/ StartJob(s) \/ ProviderUnavailable(s) \/ SkipAfterShutdown(s)
             \/ ReadAudio(s) \/ InferOk(s) \/ InferFail(s) \/ RemoveAudio(s)
             \/ TaskError(s)
    <3>1. UNCHANGED <<jobState, due, lastRun, batch>>
      BY <2>1 DEF StartJob, ProviderUnavailable, SkipAfterShutdown, ReadAudio,
         InferOk, InferFail, RemoveAudio, TaskError
    <3>2. \A t \in Permits : tasks'[t] = Idle \/ /\ tasks[t] # Idle
                                                 /\ JobOf(t)' = JobOf(t)
      <4>1. CASE SkipAfterShutdown(s) \/ RemoveAudio(s) \/ TaskError(s)
        BY <4>1 DEF SkipAfterShutdown, RemoveAudio, TaskError, JobOf, TypeOK
      <4>2. CASE StartJob(s) \/ ProviderUnavailable(s) \/ ReadAudio(s)
                 \/ InferOk(s) \/ InferFail(s)
        BY <4>2 DEF StartJob, ProviderUnavailable, ReadAudio, InferOk,
           InferFail, JobOf, TypeOK
      <4> QED  BY <2>1, <4>1, <4>2
    <3> QED  BY <3>1, <3>2, QuietStep
  <2>2. CASE RecordSuccess(s) \/ ScheduleRetry(s)
    <3> DEFINE j == JobOf(s)
    <3>1. j \in Jobs /\ Exists(j) /\ tasks[s] # Idle
      BY <2>2 DEF RowsInv, RecordSuccess, ScheduleRetry
    <3>2. PICK st \in {"completed", "pending"} :
            jobState' = [jobState EXCEPT ![j] = st]
      BY <2>2 DEF RecordSuccess, ScheduleRetry
    <3>3. UNCHANGED <<lastRun, batch>> /\ due' = due \ {j}
      BY <2>2 DEF RecordSuccess, ScheduleRetry, Leave
    <3>4. tasks' = [tasks EXCEPT ![s] = Task("recorded", j)]
          \/ tasks' = [tasks EXCEPT ![s] = Idle]
      BY <2>2 DEF RecordSuccess, ScheduleRetry
    <3>5. \A k \in Jobs : (Exists(k)' <=> Exists(k))
                          /\ (k # j => jobState'[k] = jobState[k])
      BY <3>1, <3>2 DEF Exists, TypeOK
    <3>6. \A t \in Permits : tasks'[t] # Idle => /\ JobOf(t)' \in Jobs
                                                 /\ Exists(JobOf(t))'
      <4> SUFFICES ASSUME NEW t \in Permits, tasks'[t] # Idle
                   PROVE  JobOf(t)' \in Jobs /\ Exists(JobOf(t))'
        OBVIOUS
      <4>1. CASE t = s
        BY <3>1, <3>4, <3>5, <4>1 DEF JobOf, TypeOK
      <4>2. CASE t # s
        BY <3>4, <3>5, <4>2 DEF RowsInv, JobOf, TypeOK
      <4> QED  BY <4>1, <4>2
    <3>7. \A k \in due' : jobState'[k] = "pending"
      BY <3>3, <3>5 DEF RowsInv, TypeOK
    <3>8. \A k \in batch' : Exists(k)'
      BY <3>3, <3>5 DEF RowsInv, TypeOK
    <3> QED  BY <3>3, <3>5, <3>6, <3>7, <3>8, SameRows DEF RowsInv
  <2> QED  BY <1>6, <2>1, <2>2 DEF WorkerStep
<1>7. CASE RetrySession \/ CliRetryPending
  BY <1>7 DEF RetrySession, CliRetryPending, MakeDue, InState, RowsInv, Exists,
     Persisted, JobOf
<1>8. CASE CliResetProcessing \/ ResetBeforeGrace \/ Exit \/ Startup
  <2>1. Orphaned = {j \in Jobs : jobState[j] = "processing" /\ ~HasEvent(j)}
    BY DEF Orphaned, InState
  <2>2. due' = due \cup Orphaned /\ lastRun' = lastRun
    BY <1>8 DEF CliResetProcessing, ResetBeforeGrace, Exit, Startup, ResetProcessing
  <2>3. \A j \in Jobs :
          jobState'[j] = IF j \in Orphaned THEN "pending"
                         ELSE IF Startup /\ jobState[j] = "processing"
                              THEN "completed" ELSE jobState[j]
    <3>1. CASE Startup
      BY <2>1, <3>1 DEF Startup
    <3>2. CASE ~Startup
      BY <1>8, <3>2 DEF CliResetProcessing, ResetBeforeGrace, Exit, ResetProcessing
    <3> QED  BY <3>1, <3>2
  <2>4. \A j \in Jobs : Exists(j)' <=> Exists(j)
    BY <2>1, <2>3 DEF Exists
  <2>5. \A j \in due' : jobState'[j] = "pending"
    BY <2>1, <2>2, <2>3 DEF RowsInv, TypeOK
  <2>6. batch' \subseteq batch /\ \A s \in Permits : tasks'[s] = Idle \/ tasks'[s] = tasks[s]
    BY <1>8 DEF CliResetProcessing, ResetBeforeGrace, Exit, Startup
  <2>7. \A j \in batch' : Exists(j)'
    BY <2>4, <2>6 DEF RowsInv, TypeOK
  <2>8. \A s \in Permits : tasks'[s] # Idle => JobOf(s)' \in Jobs /\ Exists(JobOf(s))'
    BY <2>4, <2>6 DEF RowsInv, JobOf, Exists
  <2> QED  BY <2>2, <2>4, <2>5, <2>7, <2>8, SameRows DEF RowsInv
<1>9. CASE Retranscribe
  <2> DEFINE run == lastRun + 1
             new == {<<c, run>> : c \in Persisted}
  <2>1. /\ run \in 0 .. MaxRun /\ lastRun' = run /\ due' = due \cup new
        /\ jobState' = [j \in Jobs |-> IF j \in new THEN "pending" ELSE jobState[j]]
        /\ UNCHANGED <<batch, tasks>>
    BY <1>9 DEF Retranscribe, EnterLast, TypeOK
  <2>2. ASSUME NEW c \in Persisted PROVE <<c, run>> \in Jobs
    BY <2>1 DEF Jobs, Persisted
  <2>3. new \subseteq Jobs  BY <2>2
  <2>4. ASSUME NEW j \in new PROVE j[2] = run /\ ChunkOf(j) \in Persisted
    BY DEF ChunkOf
  <2>5. run # 0 /\ lastRun < run  BY DEF TypeOK
  <2>6. \A c \in Chunks : <<c, 0>> \in Jobs /\ <<c, 0>> \notin new
    BY <2>5 DEF Jobs
  <2> HIDE DEF new, run
  <2>7. Persisted' = Persisted  BY <2>1, <2>6 DEF Persisted
  <2>8. \A j \in Jobs : Exists(j)' <=> Exists(j) \/ j \in new
    BY <2>1 DEF Exists
  <2>9. \A j \in Jobs : Exists(j)' => j[2] <= lastRun' /\ ChunkOf(j) \in Persisted'
    <3> SUFFICES ASSUME NEW j \in Jobs, Exists(j)'
                 PROVE  j[2] <= lastRun' /\ ChunkOf(j) \in Persisted'
      OBVIOUS
    <3>1. CASE j \in new
      BY <2>1, <2>4, <2>7, <3>1
    <3>2. CASE Exists(j)
      <4>1. j[2] \in Nat /\ j[2] <= lastRun  BY <3>2 DEF RowsInv, Jobs
      <4> QED  BY <2>1, <2>5, <2>7, <3>2, <4>1 DEF RowsInv, TypeOK
    <3> QED  BY <2>8, <3>1, <3>2
  <2>10. \A j \in due' : jobState'[j] = "pending"
    BY <2>1, <2>3 DEF RowsInv, TypeOK
  <2>11. \A j \in batch' : Exists(j)'
    BY <2>1, <2>8 DEF RowsInv, TypeOK
  <2>12. \A s \in Permits : tasks'[s] # Idle => JobOf(s)' \in Jobs /\ Exists(JobOf(s))'
    BY <2>1, <2>8 DEF RowsInv, JobOf, Exists
  <2> QED  BY <2>9, <2>10, <2>11, <2>12 DEF RowsInv
<1>10. CASE DeleteSessionAudio \/ RequestShutdown \/ Crash
  BY <1>10 DEF DeleteSessionAudio, RequestShutdown, Crash, RowsInv, Exists,
     Persisted, JobOf
<1>11. CASE UNCHANGED vars
  BY <1>11 DEF vars, RowsInv, Exists, Persisted, JobOf
<1> QED  BY <1>1, <1>2, <1>3, <1>4, <1>5, <1>6, <1>7, <1>8, <1>9, <1>10, <1>11
         DEF Next, Capture, Dispatch, Operator, Lifecycle

(* RowsInv in every reachable state. *)
LEMMA RowsInvariant == Spec => []RowsInv
<1>1. Init => RowsInv
  BY DEF Init, RowsInv, Exists, Idle
<1> QED  BY <1>1, RowsStep, TypeCorrect, PTL DEF Spec

-----------------------------------------------------------------------------
(* Chunk rows appear only in persist_recorded_chunk and never disappear.   *)
LEMMA PersistedWriters ==
  ASSUME TypeOK, RowsInv, [Next]_vars
  PROVE  \/ Persisted' = Persisted
         \/ \E c \in Chunks : PersistChunk(c) /\ Persisted' = Persisted \cup {c}
<1> USE DEF rows, session, workers
<1>1. \A c \in Chunks : <<c, 0>> \in Jobs  BY DEF Jobs
<1>2. (\A j \in Jobs : Exists(j)' <=> Exists(j)) => Persisted' = Persisted
  BY <1>1 DEF Persisted, Exists
<1>3. jobState' = jobState => Persisted' = Persisted
  BY DEF Persisted
<1>4. CASE Capture
  <2>1. ASSUME NEW c \in Chunks, PersistChunk(c)
        PROVE  Persisted' = Persisted \cup {c}
    BY <1>1, <2>1 DEF PersistChunk, Persisted, TypeOK
  <2>2. CASE DiskStop \/ EndCapture
    BY <1>3, <2>2 DEF DiskStop, EndCapture
  <2> QED  BY <1>4, <2>1, <2>2 DEF Capture
<1>5. CASE \E j \in Jobs : BecomeDue(j)
  BY <1>3, <1>5 DEF BecomeDue
<1>6. CASE Dispatch
  <2>1. CASE Claim
    BY <1>2, <2>1 DEF Claim, RowsInv, Exists
  <2>2. CASE \E s \in Permits : Spawn(s)
    BY <1>3, <2>2 DEF Spawn
  <2> QED  BY <1>6, <2>1, <2>2 DEF Dispatch
<1>7. ASSUME NEW s \in Permits, WorkerStep(s) PROVE Persisted' = Persisted
  <2>1. CASE RecordSuccess(s) \/ ScheduleRetry(s)
    <3>1. JobOf(s) \in Jobs /\ Exists(JobOf(s))
      BY <2>1 DEF RowsInv, RecordSuccess, ScheduleRetry, At, Idle
    <3> QED  BY <1>2, <2>1, <3>1 DEF RecordSuccess, ScheduleRetry, Exists, TypeOK
  <2>2. CASE jobState' = jobState
    BY <1>3, <2>2
  <2> QED  BY <1>7, <2>1, <2>2 DEF WorkerStep, StartJob, ProviderUnavailable,
           SkipAfterShutdown, ReadAudio, InferOk, InferFail, RemoveAudio, TaskError
<1>8. CASE Operator
  <2>1. CASE Retranscribe
    <3>1. \A c \in Chunks : <<c, 0>> \notin {<<d, lastRun + 1>> : d \in Persisted}
      BY DEF TypeOK
    <3>2. \A c \in Chunks : jobState'[<<c, 0>>] = jobState[<<c, 0>>]
      BY <1>1, <2>1, <3>1 DEF Retranscribe
    <3> QED  BY <3>2 DEF Persisted
  <2>2. CASE CliResetProcessing
    BY <1>2, <2>2 DEF CliResetProcessing, ResetProcessing, Orphaned, InState, Exists
  <2>3. CASE RetrySession \/ CliRetryPending \/ DeleteSessionAudio
    BY <1>3, <2>3 DEF RetrySession, CliRetryPending, DeleteSessionAudio
  <2> QED  BY <1>8, <2>1, <2>2, <2>3 DEF Operator
<1>9. CASE Lifecycle
  <2>1. CASE RequestShutdown \/ Crash
    BY <1>3, <2>1 DEF RequestShutdown, Crash
  <2>2. CASE ResetBeforeGrace \/ Exit
    BY <1>2, <2>2 DEF ResetBeforeGrace, Exit, ResetProcessing, Orphaned, InState, Exists
  <2>3. CASE Startup
    BY <1>2, <2>3 DEF Startup, Exists
  <2> QED  BY <1>9, <2>1, <2>2, <2>3 DEF Lifecycle
<1> QED  BY <1>3, <1>4, <1>5, <1>6, <1>7, <1>8, <1>9 DEF Next, vars, Capture

-----------------------------------------------------------------------------
(* No audio is lost before its transcript is stored: worker.rs deletes the *)
(* file of a chunk after the transaction, delete_session_audio asks for an *)
(* event of every chunk, and no event ever goes away.                      *)
LEMMA AudioStep ==
  TypeOK /\ RowsInv /\ RecordedFirst /\ AudioUntilTranscribed /\ [Next]_vars
    => AudioUntilTranscribed'
<1> SUFFICES ASSUME TypeOK, RowsInv, RecordedFirst, AudioUntilTranscribed,
                    [Next]_vars, NEW c \in Chunks, c \in Persisted', c \notin audio'
             PROVE  Transcribed(c)'
  BY DEF AudioUntilTranscribed, Persisted
<1>1. Transcribed(c) => Transcribed(c)'  BY TranscribedKept
<1>2. c \in Persisted
  BY PersistedWriters DEF PersistChunk
<1>3. CASE c \notin audio
  BY <1>1, <1>2, <1>3 DEF AudioUntilTranscribed
<1>4. CASE c \in audio
  <2>1. CASE DeleteSessionAudio
    BY <1>1, <1>2, <2>1 DEF DeleteSessionAudio
  <2>2. ASSUME NEW s \in Permits, RemoveAudio(s) PROVE Transcribed(c)'
    <3>1. c = ChunkOf(JobOf(s)) /\ At(s, "recorded")
      BY <1>4, <2>2 DEF RemoveAudio
    <3>2. JobOf(s) \in Jobs
      BY <3>1 DEF RowsInv, At, Idle
    <3> QED  BY <1>1, <3>1, <3>2 DEF RecordedFirst, Transcribed
  <2> QED  BY <1>4, <2>1, <2>2, AudioWriters DEF PersistChunk
<1> QED  BY <1>3, <1>4

(* Stored and not yet transcribed implies that the FLAC file is there. *)
THEOREM AudioSafe == Spec => []AudioUntilTranscribed
<1>1. Init => AudioUntilTranscribed
  BY DEF Init, AudioUntilTranscribed, Persisted, Jobs
<1> QED  BY <1>1, AudioStep, TypeCorrect, RowsInvariant, RecordedInv, PTL DEF Spec

-----------------------------------------------------------------------------
(* The tables and files implement TranscriptStore: a transcript is made    *)
(* only of a stored chunk whose file is there or which already has one.    *)
THEOREM StoreRefinement == Spec => ImplementsTranscriptStore
<1>1. Init => TS!StoreInit
  BY DEF Init, TS!StoreInit, Persisted, TranscribedChunks, Transcribed, HasEvent, Jobs
<1>2. TypeOK /\ RowsInv /\ RecordedFirst /\ AudioUntilTranscribed /\ [Next]_vars
        => [TS!StoreNext]_(TS!storeVars)
  <2> SUFFICES ASSUME TypeOK, RowsInv, RecordedFirst, AudioUntilTranscribed,
                      [Next]_vars
               PROVE  TS!StoreNext
                      \/ UNCHANGED <<Persisted, audio, TranscribedChunks>>
    BY DEF TS!storeVars
  <2>1. event' = event => TranscribedChunks' = TranscribedChunks
    BY DEF TranscribedChunks, Transcribed, HasEvent
  <2>2. ASSUME NEW c \in Chunks, PersistChunk(c) PROVE TS!Store(c)
    <3>1. audio' = audio \cup {c} /\ event' = event /\ c \notin Persisted
      BY <2>2 DEF PersistChunk
    <3>2. Persisted' = Persisted \cup {c}
      <4>1. <<c, 0>> \in Jobs /\ \A d \in Chunks : <<d, 0>> \in Jobs
        BY DEF Jobs
      <4> QED  BY <2>2, <4>1 DEF PersistChunk, Persisted, TypeOK
    <3> QED  BY <2>1, <3>1, <3>2 DEF TS!Store
  <2>3. ASSUME NEW s \in Permits, RecordSuccess(s)
        PROVE  TS!StoreNext \/ UNCHANGED <<Persisted, audio, TranscribedChunks>>
    <3> DEFINE c == ChunkOf(JobOf(s))
    <3>1. JobOf(s) \in Jobs /\ Exists(JobOf(s)) /\ c \in Chunks
      BY <2>3 DEF RowsInv, RecordSuccess, At, Idle, Jobs, ChunkOf
    <3>2. c \in Persisted /\ audio' = audio
      BY <2>3, <3>1 DEF RowsInv, RecordSuccess
    <3>3. Persisted' = Persisted
      BY <2>3, <3>1, PersistedWriters, <3>2 DEF PersistChunk, RecordSuccess, Exists, TypeOK, Persisted, Jobs
    <3>4. TranscribedChunks' = TranscribedChunks \cup {c}
      <4>1. ASSUME NEW k \in Jobs PROVE HasEvent(k)' <=> HasEvent(k) \/ k = JobOf(s)
        BY <2>3, <3>1 DEF RecordSuccess, HasEvent, TypeOK
      <4> QED  BY <3>1, <4>1 DEF TranscribedChunks, Transcribed
    <3>5. CASE c \in TranscribedChunks
      BY <3>2, <3>3, <3>4, <3>5
    <3>6. CASE c \notin TranscribedChunks
      <4>1. c \in audio
        BY <3>1, <3>2, <3>6 DEF AudioUntilTranscribed, TranscribedChunks
      <4> QED  BY <3>1, <3>2, <3>3, <3>4, <4>1 DEF TS!StoreNext, TS!Transcribe
    <3> QED  BY <3>5, <3>6
  <2>4. ASSUME NEW s \in Permits, RemoveAudio(s), Persisted' = Persisted
        PROVE  TS!StoreNext \/ UNCHANGED <<Persisted, audio, TranscribedChunks>>
    <3> DEFINE c == ChunkOf(JobOf(s))
    <3>1. JobOf(s) \in Jobs /\ HasEvent(JobOf(s)) /\ c \in Chunks
      BY <2>4 DEF RowsInv, RecordedFirst, RemoveAudio, At, Idle, Jobs, ChunkOf
    <3>2. {c} \in SUBSET Chunks /\ {c} \subseteq TranscribedChunks
      BY <3>1 DEF TranscribedChunks, Transcribed
    <3>3. event' = event /\ (audio' = audio \/ audio' = audio \ {c})
      BY <2>4 DEF RemoveAudio, rows
    <3> QED  BY <2>1, <2>4, <3>2, <3>3 DEF TS!StoreNext, TS!Discard
  <2>5. ASSUME DeleteSessionAudio, Persisted' = Persisted PROVE TS!StoreNext
    <3>1. Persisted \in SUBSET Chunks /\ Persisted \subseteq TranscribedChunks
      BY <2>5 DEF DeleteSessionAudio, TranscribedChunks, Persisted
    <3>2. event' = event /\ audio' = audio \ Persisted
      BY <2>5 DEF DeleteSessionAudio, rows
    <3> QED  BY <2>1, <2>5, <3>1, <3>2 DEF TS!StoreNext, TS!Discard
  <2>6. CASE \E c \in Chunks : PersistChunk(c)
    BY <2>2, <2>6 DEF TS!StoreNext
  <2>7. CASE Persisted' = Persisted
    <3>1. CASE audio' = audio
      BY <2>1, <2>3, <2>7, <3>1, EventWriters
    <3> QED  BY <2>4, <2>5, <2>6, <2>7, <3>1, AudioWriters
  <2> QED  BY <2>6, <2>7, PersistedWriters
<1> QED
  BY <1>1, <1>2, TypeCorrect, RowsInvariant, RecordedInv, AudioSafe, PTL
     DEF Spec, ImplementsTranscriptStore, TS!StoreSpec

-----------------------------------------------------------------------------
(* The counters of the bounded events never fall. *)
LEMMA SpentGrows ==
  ASSUME TypeOK, [Next]_vars, NEW k \in Kinds, spent'[k] = 0
  PROVE  spent[k] = 0
<1> USE DEF rows, session, workers
<1>1. ASSUME NEW kind \in Kinds, Spend(kind) PROVE spent[k] = 0
  BY <1>1 DEF Spend, TypeOK
<1>2. CASE Capture \/ Dispatch \/ \E j \in Jobs : BecomeDue(j)
  BY <1>2 DEF Capture, DiskStop, EndCapture, PersistChunk, Dispatch, Claim,
     Spawn, BecomeDue
<1>3. CASE \E s \in Permits : WorkerStep(s)
  BY <1>1, <1>3 DEF WorkerStep, StartJob, ProviderUnavailable,
     SkipAfterShutdown, ReadAudio, InferOk, InferFail, RecordSuccess,
     RemoveAudio, ScheduleRetry, TaskError, Kinds
<1>4. CASE Operator
  BY <1>1, <1>4 DEF Operator, RetrySession, CliResetProcessing,
     CliRetryPending, Retranscribe, DeleteSessionAudio, Kinds
<1>5. CASE Lifecycle
  BY <1>1, <1>5 DEF Lifecycle, RequestShutdown, ResetBeforeGrace, Exit, Crash,
     Startup, Kinds
<1> QED  BY <1>2, <1>3, <1>4, <1>5 DEF Next, vars

(* No row is left in 'processing' without an owner: the property is        *)
(* inductive by itself.  While the daemon serves the queue, only a claim   *)
(* enters the state, and every way out of a task changes the row first.    *)
THEOREM NoStranded == Spec => []NoStrandedRow
<1>1. Init => NoStrandedRow
  BY DEF Init, NoStrandedRow, InState
<1>2. TypeOK /\ RowsInv /\ NoStrandedRow /\ [Next]_vars => NoStrandedRow'
  <2> SUFFICES ASSUME TypeOK, RowsInv, NoStrandedRow, [Next]_vars,
                      daemon' = "up", spent'["dbFault"] = 0,
                      NEW j \in Jobs, jobState'[j] = "processing"
               PROVE  Owned(j)'
    BY DEF NoStrandedRow, InState
  <2> USE DEF rows, session, workers
  <2>1. spent["dbFault"] = 0  BY SpentGrows DEF Kinds
  <2>2. (daemon = "up" /\ jobState[j] = "processing") => Owned(j)
    BY <2>1 DEF NoStrandedRow, InState
  <2>3. CASE Capture
    <3>1. UNCHANGED <<batch, tasks, daemon>>
      BY <2>3 DEF Capture, DiskStop, EndCapture, PersistChunk
    <3>2. jobState[j] = "processing"
      BY <2>3 DEF Capture, DiskStop, EndCapture, PersistChunk, TypeOK
    <3> QED  BY <2>2, <3>1, <3>2 DEF Owned, Working, JobOf
  <2>4. CASE \E k \in Jobs : BecomeDue(k)
    BY <2>2, <2>4 DEF BecomeDue, Owned, Working, JobOf
  <2>5. CASE Claim
    BY <2>2, <2>5 DEF Claim, Owned, Working, JobOf
  <2>6. ASSUME NEW s \in Permits, Spawn(s) PROVE Owned(j)'
    <3>1. jobState[j] = "processing" /\ daemon = "up"
      BY <2>6 DEF Spawn
    <3>2. PICK k \in batch : batch' = batch \ {k}
                             /\ tasks' = [tasks EXCEPT ![s] = Task("spawned", k)]
      BY <2>6 DEF Spawn
    <3>3. Working(s)' /\ JobOf(s)' = k
      BY <3>2 DEF Working, JobOf, Task, TypeOK
    <3>4. \A t \in Permits : Working(t) => t # s /\ Working(t)' /\ JobOf(t)' = JobOf(t)
      BY <2>6, <3>2 DEF Spawn, Working, JobOf, At, TypeOK
    <3> QED  BY <2>2, <3>1, <3>2, <3>3, <3>4 DEF Owned
  <2>7. ASSUME NEW s \in Permits, WorkerStep(s) PROVE Owned(j)'
    <3> USE DEF At, Move, Finish, Task
    <3>1. CASE StartJob(s) \/ ProviderUnavailable(s) \/ ReadAudio(s)
               \/ InferOk(s) \/ InferFail(s)
      <4>1. UNCHANGED <<jobState, daemon, batch>>
        BY <3>1 DEF StartJob, ProviderUnavailable, ReadAudio, InferOk, InferFail
      <4>2. \A t \in Permits : Working(t) => Working(t)' /\ JobOf(t)' = JobOf(t)
        BY <3>1 DEF StartJob, ProviderUnavailable, ReadAudio, InferOk, InferFail,
           Working, JobOf, TypeOK
      <4> QED  BY <2>2, <4>1, <4>2 DEF Owned
    <3>2. CASE RemoveAudio(s)
      <4>1. \A t \in Permits : Working(t) => Working(t)' /\ JobOf(t)' = JobOf(t)
        BY <3>2 DEF RemoveAudio, Working, JobOf, TypeOK
      <4> QED  BY <2>2, <3>2, <4>1 DEF RemoveAudio, Owned
    <3>3. CASE RecordSuccess(s) \/ ScheduleRetry(s)
      <4>1. JobOf(s) \in Jobs
        BY <3>3 DEF RowsInv, RecordSuccess, ScheduleRetry, Idle
      <4>2. jobState'[JobOf(s)] # "processing"
        BY <3>3, <4>1 DEF RecordSuccess, ScheduleRetry, TypeOK
      <4>3. j # JobOf(s) /\ jobState[j] = "processing" /\ UNCHANGED <<daemon, batch>>
        BY <3>3, <4>2 DEF RecordSuccess, ScheduleRetry, TypeOK
      <4>4. \A t \in Permits : t # s /\ Working(t) => Working(t)' /\ JobOf(t)' = JobOf(t)
        BY <3>3 DEF RecordSuccess, ScheduleRetry, Working, JobOf, TypeOK
      <4> QED  BY <2>2, <4>3, <4>4 DEF Owned
    <3>4. CASE SkipAfterShutdown(s) \/ TaskError(s)
      <4>1. CASE SkipAfterShutdown(s)
        BY <4>1 DEF SkipAfterShutdown
      <4>2. CASE TaskError(s)
        BY <4>2 DEF TaskError, Spend, TypeOK, Kinds
      <4> QED  BY <3>4, <4>1, <4>2
    <3> QED  BY <2>7, <3>1, <3>2, <3>3, <3>4 DEF WorkerStep
  <2>8. CASE Operator
    <3>1. UNCHANGED <<daemon, batch, tasks>>
      BY <2>8 DEF Operator, RetrySession, CliResetProcessing, CliRetryPending,
         Retranscribe, DeleteSessionAudio
    <3>2. jobState[j] = "processing"
      BY <2>8 DEF Operator, RetrySession, CliResetProcessing, CliRetryPending,
         Retranscribe, DeleteSessionAudio, ResetProcessing
    <3> QED  BY <2>2, <3>1, <3>2 DEF Owned, Working, JobOf
  <2>9. CASE Lifecycle
    <3>1. CASE Startup
      BY <3>1 DEF Startup
    <3>2. CASE ~Startup
      BY <2>9, <3>2 DEF Lifecycle, RequestShutdown, ResetBeforeGrace, Exit, Crash
    <3> QED  BY <3>1, <3>2
  <2>10. CASE UNCHANGED vars
    BY <2>2, <2>10 DEF vars, Owned, Working, JobOf
  <2> QED  BY <2>3, <2>4, <2>5, <2>6, <2>7, <2>8, <2>9, <2>10 DEF Next, Dispatch
<1> QED  BY <1>1, <1>2, TypeCorrect, RowsInvariant, PTL DEF Spec

-----------------------------------------------------------------------------
(* Until the command line resets rows beside the daemon, a row with an     *)
(* event is completed, and everything claimed or worked on is a row of its *)
(* own that is not yet completed ('processing', as long as the daemon has  *)
(* not begun to shut down).                                                *)
CompletedRecorded ==
  \A j \in Jobs : jobState[j] = "completed" => HasEvent(j)

DownIdle == daemon = "down" => batch = {} /\ \A s \in Permits : tasks[s] = Idle

Held(j) == /\ jobState[j] \in {"pending", "processing"}
           /\ daemon = "up" => jobState[j] = "processing"

Calm ==
  spent["cliRetry"] = 0 =>
    /\ \A j \in Jobs : HasEvent(j) => jobState[j] = "completed"
    /\ \A j \in batch : Held(j)
    /\ \A s \in Permits : Working(s) => Held(JobOf(s))

(* A row is completed in the transaction that inserts its event, or by     *)
(* recovery, which looks for the event.                                    *)
LEMMA CompletedStep ==
  TypeOK /\ RowsInv /\ CompletedRecorded /\ [Next]_vars => CompletedRecorded'
<1> SUFFICES ASSUME TypeOK, RowsInv, CompletedRecorded, [Next]_vars,
                    NEW j \in Jobs, jobState'[j] = "completed"
             PROVE  HasEvent(j)'
  BY DEF CompletedRecorded
<1> USE DEF rows, session, workers
<1>1. CASE jobState[j] = "completed"
  BY <1>1, EventsKept DEF CompletedRecorded
<1>2. CASE jobState[j] # "completed"
  <2>1. (\E s \in Permits : RecordSuccess(s) /\ JobOf(s) = j) \/ Startup
    <3>1. CASE Capture \/ Dispatch \/ \E k \in Jobs : BecomeDue(k)
      BY <1>2, <3>1 DEF Capture, DiskStop, EndCapture, PersistChunk, Dispatch,
         Claim, Spawn, BecomeDue, TypeOK
    <3>2. CASE \E s \in Permits : WorkerStep(s)
      BY <1>2, <3>2 DEF WorkerStep, StartJob, ProviderUnavailable,
         SkipAfterShutdown, ReadAudio, InferOk, InferFail, RecordSuccess,
         RemoveAudio, ScheduleRetry, TaskError, TypeOK
    <3>3. CASE Operator
      BY <1>2, <3>3 DEF Operator, RetrySession, CliResetProcessing,
         CliRetryPending, Retranscribe, DeleteSessionAudio, ResetProcessing
    <3>4. CASE Lifecycle
      BY <1>2, <3>4 DEF Lifecycle, RequestShutdown, ResetBeforeGrace, Exit,
         Crash, ResetProcessing
    <3> QED  BY <1>2, <3>1, <3>2, <3>3, <3>4 DEF Next, vars
  <2>2. ASSUME NEW s \in Permits, RecordSuccess(s), JobOf(s) = j PROVE HasEvent(j)'
    BY <2>2 DEF RecordSuccess, HasEvent, TypeOK
  <2>3. CASE Startup
    <3>1. HasEvent(j)  BY <1>2, <2>3 DEF Startup
    <3> QED  BY <3>1, EventsKept
  <2> QED  BY <2>1, <2>2, <2>3
<1> QED  BY <1>1, <1>2

(* CompletedRecorded in every reachable state. *)
LEMMA CompletedInvariant == Spec => []CompletedRecorded
<1>1. Init => CompletedRecorded
  BY DEF Init, CompletedRecorded
<1> QED  BY <1>1, CompletedStep, TypeCorrect, RowsInvariant, PTL DEF Spec

(* A process that is down holds no job; every step keeps it so. *)
LEMMA DownStep == TypeOK /\ DownIdle /\ [Next]_vars => DownIdle'
<1> SUFFICES ASSUME TypeOK, DownIdle, [Next]_vars PROVE DownIdle'
  OBVIOUS
<1> USE DEF rows, session, workers, DownIdle
<1>1. CASE Capture \/ Dispatch \/ \E k \in Jobs : BecomeDue(k)
  BY <1>1 DEF Capture, DiskStop, EndCapture, PersistChunk, Dispatch, Claim,
     Spawn, BecomeDue
<1>2. CASE \E s \in Permits : WorkerStep(s)
  BY <1>2 DEF WorkerStep, StartJob, ProviderUnavailable, SkipAfterShutdown,
     ReadAudio, InferOk, InferFail, RecordSuccess, RemoveAudio, ScheduleRetry,
     TaskError
<1>3. CASE Operator
  BY <1>3 DEF Operator, RetrySession, CliResetProcessing, CliRetryPending,
     Retranscribe, DeleteSessionAudio
<1>4. CASE Lifecycle
  BY <1>4 DEF Lifecycle, RequestShutdown, ResetBeforeGrace, Exit, Crash, Startup
<1> QED  BY <1>1, <1>2, <1>3, <1>4 DEF Next, vars

(* DownIdle in every reachable state. *)
LEMMA DownInvariant == Spec => []DownIdle
<1>1. Init => DownIdle
  BY DEF Init, DownIdle
<1> QED  BY <1>1, DownStep, TypeCorrect, PTL DEF Spec

(* In calm, a step never takes a row out of 'completed'. *)
LEMMA CalmRows ==
  ASSUME TypeOK, RowsInv, CompletedRecorded, Calm, [Next]_vars,
         spent["cliRetry"] = 0, NEW j \in Jobs, jobState[j] = "completed"
  PROVE  jobState'[j] = "completed"
<1> USE DEF rows, session, workers
<1>1. CASE Capture
  <2>1. ASSUME NEW c \in Chunks, PersistChunk(c) PROVE jobState'[j] = "completed"
    <3>1. j # <<c, 0>>  BY <2>1 DEF PersistChunk, Persisted
    <3> QED  BY <2>1, <3>1 DEF PersistChunk, TypeOK
  <2> QED  BY <1>1, <2>1 DEF Capture, DiskStop, EndCapture
<1>2. CASE \E k \in Jobs : BecomeDue(k)
  BY <1>2 DEF BecomeDue
<1>3. CASE Dispatch
  BY <1>3 DEF Dispatch, Claim, Spawn, RowsInv
<1>4. ASSUME NEW s \in Permits, WorkerStep(s) PROVE jobState'[j] = "completed"
  <2>1. CASE ScheduleRetry(s)
    <3>1. JobOf(s) # j
      BY <2>1 DEF ScheduleRetry, Calm, Working, At, Held
    <3> QED  BY <2>1, <3>1 DEF ScheduleRetry, TypeOK
  <2>2. CASE RecordSuccess(s)
    BY <2>2 DEF RecordSuccess, TypeOK
  <2> QED  BY <1>4, <2>1, <2>2 DEF WorkerStep, StartJob, ProviderUnavailable,
           SkipAfterShutdown, ReadAudio, InferOk, InferFail, RemoveAudio, TaskError
<1>5. CASE Operator
  <2>1. CASE Retranscribe
    <3>1. j[2] <= lastRun /\ j[2] \in Nat  BY DEF RowsInv, Exists, Jobs
    <3>2. j[2] # lastRun + 1  BY <3>1 DEF TypeOK
    <3>3. j \notin {<<c, lastRun + 1>> : c \in Persisted}  BY <3>2
    <3> QED  BY <2>1, <3>3 DEF Retranscribe
  <2>2. CASE ~Retranscribe
    BY <1>5, <2>2 DEF Operator, RetrySession, CliResetProcessing,
       CliRetryPending, DeleteSessionAudio, ResetProcessing, Orphaned, InState
  <2> QED  BY <2>1, <2>2
<1>6. CASE Lifecycle
  BY <1>6 DEF Lifecycle, RequestShutdown, ResetBeforeGrace, Exit, Crash, Startup,
     ResetProcessing, Orphaned, InState
<1> QED  BY <1>1, <1>2, <1>3, <1>4, <1>5, <1>6 DEF Next, vars

(* A row that is held stays held, unless its own task ends its work on it  *)
(* or recovery starts over.                                                *)
LEMMA HeldKept ==
  ASSUME TypeOK, RowsInv, [Next]_vars, ~CliResetProcessing, ~Startup,
         NEW j \in Jobs, Held(j),
         \A s \in Permits : RecordSuccess(s) \/ ScheduleRetry(s) => JobOf(s) # j
  PROVE  Held(j)'
<1> USE DEF rows, session, workers, Held
<1>1. CASE Capture
  <2>1. ASSUME NEW c \in Chunks, PersistChunk(c) PROVE Held(j)'
    <3>1. j # <<c, 0>>  BY <2>1 DEF PersistChunk, Persisted
    <3> QED  BY <2>1, <3>1 DEF PersistChunk, TypeOK
  <2> QED  BY <1>1, <2>1 DEF Capture, DiskStop, EndCapture
<1>2. CASE \E k \in Jobs : BecomeDue(k)
  BY <1>2 DEF BecomeDue
<1>3. CASE Dispatch
  BY <1>3 DEF Dispatch, Claim, Spawn
<1>4. ASSUME NEW s \in Permits, WorkerStep(s) PROVE Held(j)'
  <2>1. CASE RecordSuccess(s) \/ ScheduleRetry(s)
    <3>1. JobOf(s) # j  BY <2>1
    <3>2. jobState'[j] = jobState[j] /\ daemon' = daemon
      BY <2>1, <3>1 DEF RecordSuccess, ScheduleRetry, TypeOK
    <3> QED  BY <3>2
  <2>2. CASE jobState' = jobState /\ daemon' = daemon
    BY <2>2
  <2> QED  BY <1>4, <2>1, <2>2 DEF WorkerStep, StartJob, ProviderUnavailable,
           SkipAfterShutdown, ReadAudio, InferOk, InferFail, RemoveAudio, TaskError
<1>5. CASE Operator
  <2>1. CASE Retranscribe
    <3>1. j[2] <= lastRun /\ j[2] \in Nat  BY DEF RowsInv, Exists, Jobs
    <3>2. j[2] # lastRun + 1  BY <3>1 DEF TypeOK
    <3>3. j \notin {<<c, lastRun + 1>> : c \in Persisted}  BY <3>2
    <3> QED  BY <2>1, <3>3 DEF Retranscribe
  <2> QED  BY <1>5, <2>1 DEF Operator, RetrySession, CliRetryPending,
           DeleteSessionAudio
<1>6. CASE Lifecycle
  BY <1>6 DEF Lifecycle, RequestShutdown, ResetBeforeGrace, Exit, Crash,
     ResetProcessing
<1> QED  BY <1>1, <1>2, <1>3, <1>4, <1>5, <1>6 DEF Next, vars

(* The job of a task does not change, except that an idle permit takes a   *)
(* claimed job; and only claims add to the batch.                          *)
LEMMA WorkMoves ==
  ASSUME TypeOK, [Next]_vars
  PROVE  /\ batch' \subseteq batch \/ Claim
         /\ \A t \in Permits :
              \/ tasks'[t] = Idle
              \/ /\ tasks[t] # Idle /\ JobOf(t)' = JobOf(t)
                 /\ Working(t)' => Working(t) /\ ~RecordSuccess(t) /\ ~ScheduleRetry(t)
              \/ /\ Spawn(t) /\ JobOf(t)' \in batch /\ batch' = batch \ {JobOf(t)'}
                 /\ Working(t)'
<1> USE DEF rows, session, workers, At, Move, Finish, Task, Idle, Working, JobOf
<1>1. CASE Capture \/ Claim \/ \E j \in Jobs : BecomeDue(j)
  <2>1. tasks' = tasks /\ (batch' = batch \/ Claim)
    BY <1>1 DEF Capture, DiskStop, EndCapture, PersistChunk, Claim, BecomeDue
  <2>2. \A t \in Permits : ~RecordSuccess(t) /\ ~ScheduleRetry(t)
    BY <2>1 DEF RecordSuccess, ScheduleRetry, TypeOK
  <2> QED  BY <2>1, <2>2
<1>2. ASSUME NEW s \in Permits, Spawn(s)
      PROVE  /\ batch' \subseteq batch
             /\ \A t \in Permits :
                  \/ tasks'[t] = tasks[t] /\ ~RecordSuccess(t) /\ ~ScheduleRetry(t)
                  \/ /\ Spawn(t) /\ JobOf(t)' \in batch
                     /\ batch' = batch \ {JobOf(t)'} /\ Working(t)'
  <2>1. PICK j \in batch : batch' = batch \ {j}
                           /\ tasks' = [tasks EXCEPT ![s] = [pc |-> "spawned", job |-> j]]
    BY <1>2 DEF Spawn
  <2>2. tasks'[s].job = j /\ tasks'[s].pc = "spawned"
    BY <2>1 DEF TypeOK
  <2>3. \A t \in Permits : t # s => tasks'[t] = tasks[t]
    BY <2>1 DEF TypeOK
  <2>4. \A t \in Permits : RecordSuccess(t) \/ ScheduleRetry(t) => tasks'[t] # tasks[t]
    BY DEF RecordSuccess, ScheduleRetry, TypeOK
  <2>5. \A t \in Permits : t # s => ~RecordSuccess(t) /\ ~ScheduleRetry(t)
    BY <2>3, <2>4
  <2> QED  BY <1>2, <2>1, <2>2, <2>3, <2>5
<1>3. ASSUME NEW s \in Permits, WorkerStep(s)
      PROVE  /\ batch' = batch
             /\ \A t \in Permits :
                  \/ tasks'[t] = Idle
                  \/ /\ tasks[t] # Idle /\ JobOf(t)' = JobOf(t)
                     /\ Working(t)' => Working(t) /\ ~RecordSuccess(t)
                                       /\ ~ScheduleRetry(t)
  <2>1. CASE StartJob(s) \/ ProviderUnavailable(s) \/ ReadAudio(s)
             \/ InferOk(s) \/ InferFail(s)
    BY <2>1 DEF StartJob, ProviderUnavailable, ReadAudio, InferOk, InferFail,
       RecordSuccess, ScheduleRetry, TypeOK
  <2>2. CASE SkipAfterShutdown(s) \/ RemoveAudio(s) \/ TaskError(s)
    BY <2>2 DEF SkipAfterShutdown, RemoveAudio, TaskError, RecordSuccess,
       ScheduleRetry, TypeOK
  <2>3. CASE RecordSuccess(s) \/ ScheduleRetry(s)
    BY <2>3 DEF RecordSuccess, ScheduleRetry, TypeOK
  <2> QED  BY <1>3, <2>1, <2>2, <2>3 DEF WorkerStep
<1>4. CASE Operator
  <2>1. tasks' = tasks /\ batch' = batch
    BY <1>4 DEF Operator, RetrySession, CliResetProcessing, CliRetryPending,
       Retranscribe, DeleteSessionAudio
  <2>2. \A t \in Permits : ~RecordSuccess(t) /\ ~ScheduleRetry(t)
    BY <2>1 DEF RecordSuccess, ScheduleRetry, TypeOK
  <2> QED  BY <2>1, <2>2
<1>5. CASE Lifecycle
  <2>1. \/ tasks' = tasks /\ batch' = batch
        \/ batch' = {} /\ tasks' = [s \in Permits |-> Idle]
    BY <1>5 DEF Lifecycle, RequestShutdown, ResetBeforeGrace, Exit, Crash, Startup
  <2>2. tasks' = tasks => \A t \in Permits : ~RecordSuccess(t) /\ ~ScheduleRetry(t)
    BY DEF RecordSuccess, ScheduleRetry, TypeOK
  <2> QED  BY <2>1, <2>2
<1>6. CASE UNCHANGED vars
  <2>1. tasks' = tasks /\ batch' = batch  BY <1>6 DEF vars
  <2>2. \A t \in Permits : ~RecordSuccess(t) /\ ~ScheduleRetry(t)
    BY <2>1 DEF RecordSuccess, ScheduleRetry, TypeOK
  <2> QED  BY <2>1, <2>2
<1>7. CASE \E s \in Permits : Spawn(s) \/ WorkerStep(s)
  <2>1. CASE \E s \in Permits : Spawn(s)
    <3>1. \A t \in Permits : tasks[t] = Idle => ~Working(t)  OBVIOUS
    <3> QED  BY <1>2, <2>1, <3>1
  <2>2. CASE \E s \in Permits : WorkerStep(s)
    BY <1>3, <2>2
  <2> QED  BY <1>7, <2>1, <2>2
<1> QED  BY <1>1, <1>4, <1>5, <1>6, <1>7 DEF Next, Dispatch

(* Exclusive ownership and calm support each other: a claim takes pending  *)
(* rows only, and what a task works on is never pending in a serving       *)
(* daemon; a row leaves the hands of its task only through the task.       *)
LEMMA CalmStep ==
  TypeOK /\ RowsInv /\ CompletedRecorded /\ RecordedFirst /\ DownIdle /\ Calm
     /\ ExclusiveJob /\ [Next]_vars => Calm' /\ ExclusiveJob'
<1> SUFFICES ASSUME TypeOK, RowsInv, CompletedRecorded, RecordedFirst, DownIdle,
                    Calm, ExclusiveJob, [Next]_vars, spent'["cliRetry"] = 0
             PROVE  Calm' /\ ExclusiveJob'
  BY DEF Calm, ExclusiveJob
<1>1. spent["cliRetry"] = 0  BY SpentGrows DEF Kinds
<1>2. ~CliResetProcessing
  BY <1>1 DEF CliResetProcessing, Spend, TypeOK, Kinds
<1>3. ASSUME NEW j \in Jobs, HasEvent(j)' PROVE jobState'[j] = "completed"
  <2>1. CASE HasEvent(j)
    <3>1. jobState[j] = "completed"  BY <1>1, <2>1 DEF Calm
    <3> QED  BY <1>1, <3>1, CalmRows
  <2>2. CASE ~HasEvent(j)
    <3>1. PICK s \in Permits : RecordSuccess(s)
      BY <1>3, <2>2, EventWriters DEF HasEvent
    <3>2. JobOf(s) = j
      BY <1>3, <2>2, <3>1 DEF RecordSuccess, HasEvent, TypeOK
    <3> QED  BY <3>1, <3>2 DEF RecordSuccess, TypeOK
  <2> QED  BY <2>1, <2>2
\* What a claim takes is pending: nobody holds it and nobody works on it.
<1>4. ASSUME Claim
      PROVE  /\ tasks' = tasks
             /\ \A j \in batch' : /\ Held(j)'
                                  /\ \A s \in Permits : tasks[s] # Idle => JobOf(s) # j
  <2>1. PICK ids \in SUBSET due :
          /\ batch' = ids
          /\ jobState' = [j \in Jobs |-> IF j \in ids THEN "processing"
                                                      ELSE jobState[j]]
    BY <1>4 DEF Claim
  <2>2. tasks' = tasks /\ daemon = "up"  BY <1>4 DEF Claim
  <2>3. \A j \in ids : j \in Jobs /\ jobState[j] = "pending"
    BY DEF RowsInv, TypeOK
  <2>4. ASSUME NEW s \in Permits, tasks[s] # Idle PROVE jobState[JobOf(s)] # "pending"
    <3>1. CASE Working(s)
      BY <1>1, <2>2, <3>1 DEF Calm, Held
    <3>2. CASE At(s, "recorded")
      BY <1>1, <2>4, <3>2 DEF RecordedFirst, RowsInv, Calm
    <3> QED  BY <2>4, <3>1, <3>2 DEF Working, At, Idle, TypeOK, Steps
  <2> QED  BY <2>1, <2>2, <2>3, <2>4 DEF Held
<1>5. ExclusiveJob'
  <2>1. \A s, t \in Permits :
          tasks[s] # Idle /\ tasks[t] # Idle /\ JobOf(s) = JobOf(t) => s = t
    BY <1>1 DEF ExclusiveJob
  <2>2. \A s \in Permits : tasks[s] # Idle => JobOf(s) \notin batch
    BY <1>1 DEF ExclusiveJob
  <2>3. CASE Claim
    BY <1>4, <2>1, <2>3 DEF ExclusiveJob, JobOf
  <2>4. CASE ~Claim
    <3>1. batch' \subseteq batch  BY <2>4, WorkMoves
    <3>2. ASSUME NEW t \in Permits, tasks'[t] # Idle
          PROVE  \/ tasks[t] # Idle /\ JobOf(t)' = JobOf(t)
                 \/ /\ Spawn(t) /\ JobOf(t)' \in batch
                    /\ batch' = batch \ {JobOf(t)'}
      BY <3>2, WorkMoves
    <3>3. \A s, t \in Permits : Spawn(s) /\ Spawn(t) => s = t
      <4>1. \A s \in Permits : Spawn(s) => tasks[s] = Idle /\ tasks'[s] # Idle
        BY DEF Spawn, Task, Idle, At, TypeOK, Steps
      <4>2. \A s, t \in Permits : Spawn(s) /\ t # s => tasks'[t] = tasks[t]
        BY DEF Spawn, TypeOK
      <4> QED  BY <4>1, <4>2
    <3>4. ASSUME NEW s \in Permits, NEW t \in Permits,
                 tasks'[s] # Idle, tasks'[t] # Idle, JobOf(s)' = JobOf(t)'
          PROVE  s = t
      BY <2>1, <2>2, <3>2, <3>3, <3>4
    <3>5. ASSUME NEW s \in Permits, tasks'[s] # Idle PROVE JobOf(s)' \notin batch'
      BY <2>2, <3>1, <3>2, <3>5
    <3> QED  BY <3>4, <3>5 DEF ExclusiveJob
  <2> QED  BY <2>3, <2>4
<1>6. CASE Startup
  <2>1. batch' = {} /\ \A s \in Permits : ~Working(s)'
    BY <1>6 DEF Startup, DownIdle, Working, workers, Idle
  <2> QED  BY <1>3, <1>5, <2>1 DEF Calm
<1>7. CASE ~Startup
  <2>1. ASSUME NEW j \in Jobs, Held(j),
               \A s \in Permits : RecordSuccess(s) \/ ScheduleRetry(s) => JobOf(s) # j
        PROVE  Held(j)'
    BY <1>2, <1>7, <2>1, HeldKept
  <2>2. \A s \in Permits : RecordSuccess(s) \/ ScheduleRetry(s) => tasks[s] # Idle
    BY DEF RecordSuccess, ScheduleRetry, At, Idle
  <2>3. ASSUME NEW j \in batch PROVE Held(j) => Held(j)'
    <3>1. \A s \in Permits : tasks[s] # Idle => JobOf(s) # j
      BY <1>1 DEF ExclusiveJob
    <3>2. j \in Jobs  BY DEF TypeOK
    <3> QED  BY <2>1, <2>2, <3>1, <3>2
  <2>4. \A j \in batch : Held(j)  BY <1>1 DEF Calm
  <2>5. ASSUME NEW j \in batch' PROVE Held(j)'
    <3>1. CASE Claim
      BY <1>4, <2>5, <3>1
    <3>2. CASE ~Claim
      BY <2>3, <2>4, <2>5, <3>2, WorkMoves
    <3> QED  BY <3>1, <3>2
  <2>6. ASSUME NEW t \in Permits, Working(t)' PROVE Held(JobOf(t))'
    <3>1. tasks'[t] # Idle  BY <2>6 DEF Working, Idle
    <3>2. CASE /\ tasks[t] # Idle /\ JobOf(t)' = JobOf(t)
               /\ Working(t) /\ ~RecordSuccess(t) /\ ~ScheduleRetry(t)
      <4>1. Held(JobOf(t)) /\ JobOf(t) \in Jobs
        BY <1>1, <3>2 DEF Calm, RowsInv
      <4>2. \A s \in Permits : RecordSuccess(s) \/ ScheduleRetry(s)
                                 => JobOf(s) # JobOf(t)
        BY <1>1, <2>2, <3>2 DEF ExclusiveJob
      <4> DEFINE j == JobOf(t)
      <4>3. Held(j)  BY <4>1
      <4>4. j \in Jobs /\ \A s \in Permits : RecordSuccess(s) \/ ScheduleRetry(s)
                                              => JobOf(s) # j
        BY <4>1, <4>2
      <4>5. jobState'[j] \in {"pending", "processing"}
            /\ (daemon' = "up" => jobState'[j] = "processing")
        <5> HIDE DEF j
        <5>1. \A k \in Jobs :
                Held(k) /\ (\A s \in Permits : RecordSuccess(s) \/ ScheduleRetry(s)
                                                 => JobOf(s) # k) => Held(k)'
          BY <2>1
        <5> QED  BY <4>3, <4>4, <5>1 DEF Held
      <4> QED  BY <3>2, <4>5 DEF Held
    <3>3. CASE JobOf(t)' \in batch
      <4>1. PICK j \in batch : JobOf(t)' = j  BY <3>3
      <4> QED  BY <2>3, <2>4, <4>1 DEF Held
    <3> QED  BY <2>6, <3>1, <3>2, <3>3, WorkMoves
  <2> QED  BY <1>3, <1>5, <2>5, <2>6 DEF Calm
<1> QED  BY <1>5, <1>6, <1>7

(* Both in every reachable state. *)
LEMMA CalmInvariant == Spec => [](Calm /\ ExclusiveJob)
<1>1. Init => Calm /\ ExclusiveJob
  BY DEF Init, Calm, ExclusiveJob, HasEvent, Working, Idle
<1> QED
  BY <1>1, CalmStep, TypeCorrect, RowsInvariant, CompletedInvariant, RecordedInv,
     DownInvariant, PTL DEF Spec

(* One job is never in two hands: neither two tasks nor a task and the     *)
(* dispatcher's claimed ids share a row, until `retry` is run.             *)
THEOREM Exclusive == Spec => []ExclusiveJob
BY CalmInvariant, PTL

(* A row is completed exactly when its transcript is stored.               *)
THEOREM CompletedMeansRecorded == Spec => []CompletedIffRecorded
<1>1. CompletedRecorded /\ Calm => CompletedIffRecorded
  BY DEF CompletedRecorded, Calm, CompletedIffRecorded
<1> QED  BY <1>1, CompletedInvariant, CalmInvariant, PTL

(* No step reopens a completed job.                                        *)
THEOREM CompletedStays == Spec => CompletedIsFinal
<1>1. TypeOK /\ RowsInv /\ CompletedRecorded /\ Calm /\ [Next]_vars
        => [\A j \in InState("completed") :
              spent["cliRetry"] = 0 => jobState'[j] = "completed"]_vars
  BY CalmRows DEF InState
<1> QED
  BY <1>1, TypeCorrect, RowsInvariant, CompletedInvariant, CalmInvariant, PTL
     DEF Spec, CompletedIsFinal

-----------------------------------------------------------------------------
(* What the panel says of a meeting follows from what is proved of the     *)
(* queue: audio is kept until its transcript is stored, a completed row    *)
(* has its event, and in calm no completed row is reopened.                *)

(* attention_reason is silent while the engine is there: the file of an    *)
(* utterance without a transcript is on disk.                              *)
LEMMA NoAttention == AudioUntilTranscribed => ~Attention(TRUE)
BY DEF AudioUntilTranscribed, Attention

(* A chunk without a transcript has a job that is still open: its first    *)
(* row, which cannot be completed without an event.                        *)
LEMMA OpenJob ==
  ASSUME TypeOK, CompletedRecorded, NEW c \in Persisted, ~Transcribed(c)
  PROVE  OpenJobs # {}
<1>1. <<c, 0>> \in Jobs /\ ChunkOf(<<c, 0>>) = c
  BY RunAssumption DEF Persisted, Jobs, ChunkOf
<1>2. jobState[<<c, 0>>] \in {"pending", "processing"}
  BY <1>1 DEF TypeOK, CompletedRecorded, Transcribed, Persisted
<1> QED  BY <1>1, <1>2 DEF OpenJobs, InState

(* With the engine at hand a meeting that is not recorded is complete, or  *)
(* a job is open that will change that: nothing else is ever shown.        *)
THEOREM ReasonForStatus == Spec => []StatusHasReason
<1>1. TypeOK /\ CompletedRecorded /\ AudioUntilTranscribed => StatusHasReason
  <2> SUFFICES ASSUME TypeOK, CompletedRecorded, AudioUntilTranscribed,
                      NEW ended \in Ends, ~running
               PROVE  \/ Status(ended, TRUE) = "complete"
                      \/ /\ Status(ended, TRUE) \in {"transcribing", "waiting_retry"}
                         /\ OpenJobs # {}
    BY DEF StatusHasReason, Status
  <2>1. ~Attention(TRUE)  BY NoAttention
  <2>2. CASE OpenJobs # {}
    BY <2>1, <2>2 DEF Status, OpenJobs
  <2>3. CASE OpenJobs = {}
    <3>1. \A c \in Persisted : Transcribed(c)  BY <2>3, OpenJob
    <3> QED  BY <2>1, <2>3, <3>1 DEF Status, OpenJobs
  <2> QED  BY <2>2, <2>3
<1> QED  BY <1>1, TypeCorrect, CompletedInvariant, AudioSafe, PTL

-----------------------------------------------------------------------------
(* What "complete" means. *)
Finished == /\ ~running
            /\ OpenJobs = {}
            /\ \A c \in Persisted : Transcribed(c)

(* "complete" is shown exactly of a finished meeting, whatever ended the   *)
(* recording and whether or not the engine is installed.                   *)
LEMMA CompleteIsFinished ==
  ASSUME NEW ended \in Ends, NEW engine \in BOOLEAN
  PROVE  Status(ended, engine) = "complete" <=> Finished
<1>1. CASE Finished
  BY <1>1 DEF Finished, Status, Attention, OpenJobs
<1>2. ASSUME Status(ended, engine) = "complete" PROVE Finished
  <2>1. ~running /\ ~Attention(engine)  BY <1>2 DEF Status
  <2>2. OpenJobs = {}  BY <1>2, <2>1 DEF Status, OpenJobs
  <2>3. \A c \in Persisted : Transcribed(c)  BY <1>2, <2>1, <2>2 DEF Status, OpenJobs, Ends
  <2> QED  BY <2>1, <2>2, <2>3 DEF Finished
<1> QED  BY <1>1, <1>2

(* No step of the program makes a meeting 'running' again. *)
LEMMA NeverRunsAgain == [Next]_vars /\ ~running => ~running'
<1> SUFFICES ASSUME [Next]_vars, ~running PROVE ~running'
  OBVIOUS
<1> USE DEF session
<1>1. CASE Capture \/ Dispatch \/ \E k \in Jobs : BecomeDue(k)
  BY <1>1 DEF Capture, DiskStop, EndCapture, PersistChunk, Dispatch, Claim,
     Spawn, BecomeDue
<1>2. CASE \E s \in Permits : WorkerStep(s)
  BY <1>2 DEF WorkerStep, StartJob, ProviderUnavailable, SkipAfterShutdown,
     ReadAudio, InferOk, InferFail, RecordSuccess, RemoveAudio, ScheduleRetry,
     TaskError
<1>3. CASE Operator
  BY <1>3 DEF Operator, RetrySession, CliResetProcessing, CliRetryPending,
     Retranscribe, DeleteSessionAudio
<1>4. CASE Lifecycle
  BY <1>4 DEF Lifecycle, RequestShutdown, ResetBeforeGrace, Exit, Crash, Startup
<1> QED  BY <1>1, <1>2, <1>3, <1>4 DEF Next, vars

(* A row is inserted only for a new chunk or a new run. *)
LEMMA RowInserts ==
  ASSUME TypeOK, RowsInv, [Next]_vars, ~capturing, lastRun' = lastRun,
         NEW j \in Jobs, ~Exists(j)
  PROVE  ~Exists(j)'
<1> USE DEF rows, session, workers
<1>1. CASE Capture
  BY <1>1 DEF Capture, DiskStop, EndCapture, PersistChunk
<1>2. CASE Dispatch \/ \E k \in Jobs : BecomeDue(k)
  BY <1>2 DEF Dispatch, Claim, Spawn, BecomeDue, RowsInv, Exists
<1>3. ASSUME NEW s \in Permits, WorkerStep(s) PROVE ~Exists(j)'
  <2>1. CASE RecordSuccess(s) \/ ScheduleRetry(s)
    <3>1. JobOf(s) \in Jobs /\ Exists(JobOf(s))
      BY <2>1 DEF RowsInv, RecordSuccess, ScheduleRetry, At, Idle
    <3> QED  BY <2>1, <3>1 DEF RecordSuccess, ScheduleRetry, Exists, TypeOK
  <2>2. CASE jobState' = jobState
    BY <2>2 DEF Exists
  <2> QED  BY <1>3, <2>1, <2>2 DEF WorkerStep, StartJob, ProviderUnavailable,
           SkipAfterShutdown, ReadAudio, InferOk, InferFail, RemoveAudio, TaskError
<1>4. CASE Operator
  BY <1>4 DEF Operator, RetrySession, CliResetProcessing, CliRetryPending,
     Retranscribe, DeleteSessionAudio, ResetProcessing, Orphaned, InState, Exists,
     TypeOK
<1>5. CASE Lifecycle
  BY <1>5 DEF Lifecycle, RequestShutdown, ResetBeforeGrace, Exit, Crash, Startup,
     ResetProcessing, Orphaned, InState, Exists
<1> QED  BY <1>1, <1>2, <1>3, <1>4, <1>5 DEF Next, vars, Exists

(* In calm nothing opens a job of a finished meeting: a row that is not    *)
(* there is inserted only with a chunk or a run, and a completed one is    *)
(* left alone.                                                             *)
LEMMA FinishedStep ==
  ASSUME TypeOK, RowsInv, CompletedRecorded, Calm, [Next]_vars, Finished,
         ~capturing, lastRun' = lastRun, spent["cliRetry"] = 0
  PROVE  Finished'
<1>1. ~running'  BY NeverRunsAgain DEF Finished
<1>2. OpenJobs' = {}
  <2> SUFFICES ASSUME NEW j \in Jobs, jobState'[j] \in {"pending", "processing"}
               PROVE  FALSE
    BY DEF OpenJobs, InState
  <2>1. CASE jobState[j] = "completed"
    BY <2>1, CalmRows
  <2>2. CASE ~Exists(j)
    BY <2>2, RowInserts DEF Exists
  <2> QED  BY <2>1, <2>2 DEF Finished, OpenJobs, InState, Exists, TypeOK
<1>3. Persisted' = Persisted
  BY PersistedWriters DEF PersistChunk
<1>4. \A c \in Persisted' : Transcribed(c)'
  <2> SUFFICES ASSUME NEW c \in Persisted PROVE Transcribed(c)'
    BY <1>3
  <2>1. c \in Chunks /\ Transcribed(c)  BY DEF Persisted, Finished
  <2> QED  BY <2>1, TranscribedKept
<1> QED  BY <1>1, <1>2, <1>4 DEF Finished

(* A meeting that was shown as complete is shown as complete after every   *)
(* step, unless it is transcribed anew or `retry` ran beside the daemon.   *)
THEOREM CompleteRemains == Spec => CompleteStays
<1>1. TypeOK /\ RowsInv /\ CompletedRecorded /\ Calm /\ [Next]_vars
        => [ \A ended \in Ends, engine \in BOOLEAN :
               /\ Status(ended, engine) = "complete"
               /\ ~capturing /\ lastRun' = lastRun /\ spent["cliRetry"] = 0
               => Status(ended, engine)' = "complete" ]_vars
  <2> SUFFICES ASSUME TypeOK, RowsInv, CompletedRecorded, Calm, [Next]_vars,
                      NEW ended \in Ends, NEW engine \in BOOLEAN,
                      Status(ended, engine) = "complete",
                      ~capturing, lastRun' = lastRun, spent["cliRetry"] = 0
               PROVE  Status(ended, engine)' = "complete"
    OBVIOUS
  <2>1. Finished'  BY CompleteIsFinished, FinishedStep
  <2> QED  BY <2>1 DEF Finished, Status, Attention, OpenJobs, InState
<1> QED
  BY <1>1, TypeCorrect, RowsInvariant, CompletedInvariant, CalmInvariant, PTL
     DEF Spec, CompleteStays
=============================================================================
