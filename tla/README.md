# Voxtype meeting transcriber: TLA+ models and proofs

This directory keeps TLA+ specifications of the meeting service in `src/`: a
daemon that records meetings, stores the audio in chunks and transcribes them in
the background, and the programs around it. The specifications are translated
from the Rust source. TLC checks them on small instances, TLAPS proves the
theorems listed below for every value of the constants. `PROJECT.json` names the
source lines each definition stands for.

## The system

| Part | State | Operations |
|---|---|---|
| **Main loop** (`daemon.rs`) | the start and stop channels (capacity 4), the session it runs, the shutdown token | accept or refuse starts and stops, run one session at a time, shut down |
| **Recording** (`capture/mod.rs`) | the session's directory, its row in `sessions`, `session.json`, the cancellation token of the capture, the shared `RuntimeStatus` | open, wait for the end, join the source tasks, finalize, reset the status; `watch_disk` ends it from a task of its own |
| **Source task** (`capture/source_task.rs`), one for the microphone, one for the system output | a frame channel, a chunker, a next sequence number | capture from a device until the token is cancelled, reconnect, flush |
| **Chunker** (`capture/chunker.rs`) | samples, pre-roll, silence counter | cut the stream into utterances of at most 30 s |
| **Chunk storage** (`encode`, `storage/mod.rs`, `storage/chunks.rs`) | FLAC files, rows of `audio_chunks` and `transcription_jobs` | write to `.tmp`, rename, insert row and job |
| **Transcription queue** (`transcription/worker.rs`, `storage/jobs.rs`, `storage/events.rs`) | `transcription_jobs`, `transcript_events`, a semaphore, claimed ids, spawned tasks | claim due jobs, transcribe, record, delete the audio, retry with delays, retranscribe |
| **Recovery** (`storage/recovery.rs`) | all tables and directories | at every start: interrupt running sessions, complete or reset jobs, delete temporary files, import orphan FLACs |
| **Transcript files** (`transcript/mod.rs`) | `transcript.md`, `transcript.jsonl`, one temporary name for each | move events onto the speech in their audio, render them in time order, replace atomically |
| **Control socket** (`control/`) | the bound socket, one task per connection, a broadcast channel of events | all requests of the UI: start, stop, pause, rename, delete, retry, retranscribe, configuration, status |
| **Configuration** (`config.rs`) | the file and the live copy | read, patch, validate, save, publish |
| **Audio backend** (`audio/pulse.rs`) | a PulseAudio thread with a command channel, device lists, streams | connect, reconnect, start and stop streams, report changes |
| **External commands** (`transcription/bounded.rs`, `voxtype.rs`, `whisper_cpp.rs`) | a child process with a deadline and output limits | run, kill, read the answer |
| **Command line** (`commands.rs`) | none: a second process on the same database | `retry`, `retranscribe`, `rebuild` |
| **Session status** (`session_status.rs`) | none | derive one word for a meeting from rows and files |
| **UI** (`Panel.qml`, `Backend.qml`, `CappedProcess.qml`, `bin/voxtype-meeting-tray`) | the last snapshot, drafts, pending settings, at most one helper process of each kind | poll, send options and actions, export, install |

What makes each part correct:

* main loop: every request is answered, one session at a time, a shutdown ends the process;
* recording: status, row and files tell the same story, and a deleted meeting stays deleted;
* source task and audio backend: whatever devices do, what is configured is captured
  again, and nothing after the meeting;
* chunker: utterances are in order, well cut, and no speech is lost;
* chunk storage and recovery: a file becomes one row, in the order of speech, after any
  crash or error;
* queue: each utterance is transcribed once, and its audio is kept until then;
* transcript files: a reader finds a whole rendering, what was damaged is repaired by the
  next lone regeneration, and times are those of the speech;
* session status: a meeting that asks for attention has a reason, a complete one stays so;
* configuration: the file loads and is what the daemon works with;
* external commands: each ends by its deadline, with one verdict, the whole words of its
  own chunk, and no process or file left;
* UI: what it shows and what it saves follow the latest snapshot and the user's last
  choice.

**Interaction.** `main` is a multi-threaded tokio runtime. The socket's tasks hand
`start` and `stop` to the main loop through channels with a reply channel in each
message; everything else they do themselves on the database and the file system,
beside the main loop, the source tasks, the disk watcher and the transcription
tasks. SQLite serializes transactions and nothing larger. The source tasks wake the
queue through a channel; the queue also polls. The process can be killed at any
moment, systemd starts it again, and `recover_on_startup` repairs what it finds. The
`retry` command runs in a process of its own on the same tables.

**What is hard here.** Between a check and the act there is nearly always another
task (deleting, renaming, the disk watcher), another process (`retry`, a second
instance) or a crash. The status is shared memory, the row is in the database, the
file is on disk, and the three are updated one after the other. `PROJECT.json` lists
the hazards with their lines and the properties aimed at them.

## Modules

| Module | Models |
|---|---|
| `TranscriptStore` | abstract: an utterance is stored with its audio, transcribed only from audio that is still there, and loses its audio only afterwards |
| `JobQueue` | the tables, files, dispatcher and tasks of the transcription queue with every other writer; implements `TranscriptStore` |
| `Recording` | the main loop, a session from start to end, its disk watcher, and pausing, renaming, deleting and cleaning up beside it |
| `ChunkStore` | how an utterance becomes a file and a row, what recovery does with what a crash or an error left, and a second process; implements `TranscriptStore` |
| `Chunker` | operators: the algorithm that cuts frames into utterances |
| `Spool` | the frame channel, the spool around `Chunker`, pauses, stops and lost streams |
| `AudioCapture` | the loop of a source task with the PulseAudio thread: commands, answers, events, streams, reconnection |
| `SessionStatus` | extends `JobQueue` by the word that is shown for the meeting |
| `Provider` | one attempt at a transcription: both providers, the command they run, its readers, limit and deadline, and the processes of the command |
| `Transcript` | the times of the events and the two transcript files, written by worker, rename and rebuild at once |
| `Settings` | the panel's capture options, its helper processes, the daemon's `update_config` requests and `config.toml` |
| `JobQueueProofs` | theorems about `JobQueue` and `SessionStatus` |
| `SpoolProofs` | theorems about `Spool` and `Chunker` |
| `ChunkStoreProofs`, `RecordingProofs`, `ProviderProofs`, `SettingsProofs`, `AudioCaptureProofs`, `TranscriptProofs` | theorems about the module of that name |
| `MCJobQueue`, `MCRecording`, `MCChunkStore`, `MCSpool`, `MCAudioCapture`, `MCProvider`, `MCTranscript`, `MCSettings` | small instances for TLC |

A frame passes `Spool` (from the stream to a complete utterance), `ChunkStore` (from
there to the row), `JobQueue` (from the row to the transcript, with `Provider` as the
attempt in the middle of it) and `Transcript` (from the transcript to the file). `AudioCapture` says
when there is a stream for it, `Recording` is the frame around them. Each module takes its
neighbours by what they may do at any
moment: `JobQueue` lets chunks appear while the session runs, `ChunkStore` lets any
chunk be transcribed and its audio deleted afterwards, `Spool` ends a spool by an
error. Both stores implement the same abstract `TranscriptStore`.

### JobQueue

A job is a pair of a chunk and a transcription run (run 0 belongs to the recording,
each later run to one retranscription); `jobState` is `transcription_jobs.state`,
`event` the job's row in `transcript_events` with its `canonical` flag, `audio` the
set of chunks whose FLAC is on disk. Times are kept as far as the queue tells them
apart: `due` holds the pending rows with `next_retry_at <= now` and `older` their
order. `batch` and `tasks` are the claimed ids and the tasks that hold a permit;
each `await` and each transaction of `process_job` is a step (`spawned`, `reading`,
`inferring`, `succeeded` or `failed`, `recorded`). The transaction in
`record_transcription_success` inserts the event, demotes the chunk's old one and
completes the job in one step; the audio is deleted in the next, and a crash fits
between them. `cmd_retry` is two steps of another process.

`Crash` empties the process and leaves tables and files; `Startup` is
`recover_on_startup`. `ResetBeforeGrace` and `Exit` are the two resets around the
bounded wait for the worker in `cmd_run`. `TaskError` is a database error inside
`process_job`: the row stays 'processing'.

### Recording

`main` is the place of the main loop. `idle` is the outer `select!`; `opening` and
`opened` lie before and after the insertion of the row in `run_session`; in
`serving` both selects may take a branch (`owner` is the client that still waits for
the start reply, `cause` what ended the session); from `reading` to `clearing`
`finalize_session` and the reset of the status run. What happens between two awaits
is several steps here, because other threads of the runtime run between them. `row`
is `sessions.state`, `dirs` and `tmp` the session directories and
`session.json.tmp` files, `status` the part of `RuntimeStatus` that control
decisions read. `watch[s]` follows `watch_disk`: once free space was found low its
body runs to the end whatever `abort()` does, since it has no await.
`rename_session`, `delete_session` and `cleanup_apply` are sequences of steps of their own;
`cleaner.todo` is the list a cleanup made at its start, of any of the completed meetings.

Not kept: the content of `session.json` (the service never reads it), the emitted
events, device names and the capacity of the channels (4, more than the clients of
the instances). One assumption restricts the requests: nobody asks for the deletion
of a session whose start has not been answered.

### ChunkStore

One source of one session (the two sources share nothing here: the sequence is
counted per source). `spool.pc` is the place in `persist_recorded_chunk`: `numbered`
after `next_sequence`, `written` and `renamed` within `write_flac_atomic`, then the
transaction. A file is named by its sequence number and its utterance, which stands
for the timestamp in the code's names, so that two files with one number are told
apart, as on disk. An error at any of these places ends the spool (`PersistFails`),
the stream goes on without one (`Miss`) until a new stream gets a new spool
(`Reopen`).

`inst` follows `cmd_run` of two processes, the one systemd starts and one started by
hand: `Interrupt`, `RemoveTmp`, `ListFiles`, `CheckFile`, `InsertOrphan`, `Bind` are
the statements of `recover_on_startup` and `bind_or_fail` in their order; a listing
is a snapshot (`todo`), and between the check for a row and the insertion another
process may insert (`checked`). Any of them may die or fail half way.

Not kept: the 30 s that recovery assumes for an orphan's duration, the content of a
file. A graceful stop is `EndSession` followed by `Crash`.

### Chunker and Spool

A frame is its number, its length in samples and whether it is loud enough; an
utterance is its frames and its length after trimming. The counters are those of the
code (`len` is `active.len()`, `preLen` `pre_roll_samples`). Timestamps and the
chunker's own sequence number, which `persist_recorded_chunk` replaces, are left out.

`Spool` has one step per received frame: the code awaits nothing between `recv` and
the stored utterance. `said`, `dropped`, `skipped` and `late` are history: all frames
that were captured and why some went no further. Between two streams one frame
passes unheard.

`SpeechKept` bounds the speech that is lost in a row by `2 * MinSpeech`, not by the
`MinSpeech` of one turn that `finish` drops: where a turn is cut because it is too long
(`chunker.rs:90`), the little speech at its end and the little speech that begins the next
turn may be dropped one after the other. An instance of five frames with `MaxTurn = 6`
and `MinSpeech = 3` reaches it. With the limits of the code it takes a turn of 30 s that
never pauses for 0.7 s and yet has less than 0.1 s of speech, in more than forty pieces:
nothing that people say.

### AudioCapture

One source with the thread that serves it; `source` decides how `capture_should_stop`
reads an event. `task` is the place in `run_source_task` and `capture_from`: each `rpc`
is a command in `commands` and a wait for `reply`, with `live` saying that its sender
still waits. `joining` is the await of the spool, which ends with the meeting or when
the frame channel's `sender` is dropped; `sender` follows it from the command to the
read callback and to the leak. `link` is the place of the thread: in a connected
session, in one whose context has failed but is not torn down, or in
`wait_reconnect`. Events reach a task that has subscribed; `woken` is its verdict on
what it received, `missed` remembers one that came while it did not listen.

Assumed of PulseAudio: the stream of a device that is gone fails, and is not moved to
another device (the code does not ask for that, nor does it notice it). Not kept: the
other source, which has a task and a stream of its own and shares only the thread; the
lists of devices; the 250 ms of the thread's poll, except that it refreshes only when
no command waits.

### SessionStatus

`Attention` and `Status` are `attention_reason` and `derive_ui_status` as operators on
the state of `JobQueue`; `ended` (how the session row ended) and `engine` (whether
`voxtype --version` can be run) are parameters over which the properties quantify.
Rows and files are taken from one state; the code reads them one after the other.

### Provider

`attempt` is the place in `transcribe` and `run_capped_command`: `prepare`, `spawn`,
`collect` (the loop of the `select!`), `reap`, `conclude`, for whisper also `decode`, the
way to the second try on a WAV. `reader` are the two tasks that read the pipes, `got`
what the loop has taken from them and from `wait`, `verdict` the answer. The processes
are external: a child, a helper in its group and a loose process outside it may fork,
close pipes and exit as they like, and nothing says that they ever do. `wav` and `json`
say whose sound and words the files of a temporary directory hold, so that words of
another chunk are told apart.

Not kept: the texts, the conversion of the configuration, the `Openai` provider
(refused at the choice), `snapshot_config`.

### Transcript

`task[t]` is a regeneration of the worker, of a rename or of the `rebuild` command, from
`restamp` (one event per step: the audio is read outside any transaction) over `title`
and `events` (two reads) to `create`, `write` and `publish` of each file. Inodes keep
what is shared: two writers of one temporary name write into one file, also after one of
them has renamed it. `Torn` stands for any mixture of two texts. A text is the title and
the sequence of its blocks; `SortEvents` is the one sequence that lists them in the order
of `CmpEvents`, which has no ties: the schema numbers the utterances of a source
differently. No rendering is `Torn` or missing (`NoneAssumption`). `alone` remembers
whether another regeneration was under way at any time.

Not kept: wording and layout, the display of durations, the headers beyond
`omit_single_source_headers`, and how speech is found in samples (`Info.speech`).

### Settings

One panel: `panel.options` and `panel.active` are what the last snapshot or the last edit
made them, `draft` the settings page, `pending` the values that wait for a running
helper. `settings`, `snapshot` and `action` are the helper processes; a snapshot makes two
requests, and gives `DefaultConfig` when the daemon is away. `update` are the
`update_config` requests, each a task: `read`, `open`, `write`, `rename`, `publish`, with
no lock between them, on one temporary file (inodes as in `Transcript`). A panel of
another screen is the request it sends. `chosen` is the value the user last chose for each
option, forgotten when edits race or one is lost to a failure; `overlapped` remembers that
two updates shared the temporary file.

Two options stand for all: `source`, which has its chip outside the settings page, and
`device`, which stands for those that have not.

## Runs

All runs say `CHECK_DEADLOCK FALSE`: the daemon rests when nothing is requested, and
the models bound the requests.

| Run | Instance | Shows |
|---|---|---|
| `queue_safety` | 1 chunk, 1 retranscription, 2 permits, every fault once | rows, events and audio agree; `TranscriptStore` is implemented; completed jobs stay completed |
| `queue_liveness` | 2 chunks, 1 retranscription, 1 permit, a crash, any number of failing transcriptions | every stored chunk is transcribed in the end |
| `recording_safety` | 2 sessions, 2 clients, 2 sources; a stop, crash, low disk, renaming, deletion, cleanup, errors while opening and finalizing | one capture at a time; status, row and files agree; deletions last; stops are answered after the end |
| `recording_liveness` | 2 sessions, 2 clients, 1 source; a stop, a shutdown, a low disk | every request is answered; low disk and shutdown take effect |
| `store_faults` | 3 utterances, 2 crashes, an error, a new stream, a second process | rows follow the order of speech and have their audio; every finished file gets its row |
| `speech_to_store` | 4 frames of 3 sorts, a channel of 2; a pause, resume, stop, lost stream, error | stored utterances are in order, well cut, unbroken and lose no speech |
| `reconnecting` | 2 devices, either source; two changes of devices or server restarts, another configuration, a failed start or a late answer | a source comes back to capturing what is configured, knows when its stream is dead, and ends with the meeting |
| `transcript_files` | 2 utterances of two sources whose speech is in the other order than their windows; a rename or a rebuild, a failing step, a crash | times are those of the speech; only overlapping regenerations damage a file, the next lone one repairs it, and none takes an utterance away |
| `provider_attempts` | 2 attempts at 2 chunks by either provider; a failing preparation, another failing step, a crash | attempts end, leave no process of the group and no file, and answer with the whole words of their own chunk |
| `capture_options` | 2 edits here or on another screen, a start or a stop, a killed helper, a failing save or a crash | the file loads and is what the daemon works with; the last edit wins; the panel ends up showing what is in force |
| `rename_beside_stop`, `times_move_back` | violations | the findings below |

`queue_safety` checks the word of `SessionStatus` in every state of the queue.

An invariant named for what it means (`StatusTruthful`, `StreamsAccounted`,
`UtterancesWhole`, `TimesRight`, `NothingLeft`, `OutputRight`, `FileServesDaemon`) is the
conjunction of named parts that are stated one by one in their module; the mutants in
`PROJECT.json` break the parts one by one.

**Bounds.** `Budget` says how often each kind of fault or request may happen.
The properties speak of one chunk, one job or two holders of one job, and of one
session against its successor, so one or two of everything let the interesting
cases meet: two permits for double work, two chunks for the order of the queue, a
retranscription for the canonical event, two sessions for what leaks from one into
the next, two sources for a join that waits for only one, three utterances and two
crashes for a crash during the recovery from a crash with an utterance before and
one after it. In `Spool` the limits are scaled down (silence 3, pre-roll 2, post-roll
1, turn 5, speech 2 samples; frames of 1 and 2), keeping their order in the code
(post-roll < pre-roll < silence < turn) so that four frames reach every branch: a
pre-roll, a cut by silence, a cut by length that exceeds it, an utterance too short,
and one on either side of a pause. In `AudioCapture` two devices give a default, a
pinned and a lost device in every combination, and two changes of the world a second
one while the first is dealt with; since the devices are alike, the run starts with one
of them as the default. In `Transcript` two
utterances are enough for a wrong order, a lost and a moved one, and any two of the
three writers overlap. In `Provider` one process in the group and one outside it stand
for all descendants, and the second attempt meets what the first left. In `Settings` two
updates are the fewest that overlap, and two edits an earlier and a later choice; pages
are turned only while an edit is left. The theorems have no bounds.

**Fairness.** In `JobQueue` the dispatcher, each permit's task, the end of the
capture and the restart are weakly fair (the runtime polls ready tasks, a retry
delay elapses, systemd restarts the process); that a transcription succeeds is
strongly fair: a provider that is tried again and again answers at last. Faults,
requests and deletions are not fair. In `Recording` the branches of the selects
are fair one by one (tokio picks a ready branch at random), as are the steps of the
session, the ends of the source tasks (`capture_from` returns when its token is
cancelled) and the watcher's steps once free space is low. In `ChunkStore` systemd's
restart, the steps of a recovery and the steps of storing an utterance are weakly
fair; speaking, transcribing and the second process are not. In `AudioCapture`
the thread takes its commands, polls its connection and tries again every five seconds,
and the task's steps are weakly fair; what happens to devices and server is not. In
`Provider` the daemon's side is fair as a whole (`WF_vars(Parent)`: it is never blocked,
since the deadline is one of its steps); the processes and even the readers are not. In
`Settings` the steps of a snapshot are fair (the panel polls, a helper ends) and so are
those of the other helpers, of the requests and the restart taken together, which cannot
repeat without a new edit or action.

## Findings

The violation runs show disagreements between the code and what its messages and
documentation say; `PROJECT.json` quotes both sides.

* A rename and the end of the meeting share one temporary file; the loser's error
  leaves the daemon refusing every start (`sessions.rs:178`, `capture/mod.rs:397`).
* `restamp_canonical_events_from_audio` looks at every event at every regeneration and
  takes the window of the chunk for those whose audio is gone (`events.rs:150`). Since the
  audio goes after each transcription, the transcription of an utterance moves the times
  of the earlier ones from their speech back to their windows.

Further counterexamples have a configuration of their own and are not among the runs of
`PROJECT.json` (`tlc -config <configuration> <module>`):

| Configuration | Module | Property | What happens |
|---|---|---|---|
| `JobQueueRetry.cfg` | `MCJobQueue` | `RetryLeavesCompletedJobs` | `retry` beside a live daemon resets rows that are being worked on (`commands.rs:19`), and a job that completed meanwhile is reopened |
| `ChunkStoreSecond.cfg` | `MCChunkStore` | `LeftoverFilesOnly` | a second process recovers before it finds the socket taken and deletes the temporary file the first is writing (`daemon.rs:42`) |
| `RecordingCleanup.cfg` | `MCRecording` | `CleanedUpWhole` | `cleanup_apply` does not ask the status (`cleanup.rs:70`) and removes a meeting between the end of its row and the saving of `session.json`: its directory comes back without a row, and the next start imports it as interrupted |
| `SpoolPause.cfg` | `MCSpool` | `PausedAudioDiscarded` | audio that was captured while paused is stored when the user resumes before the spool reads it (`source_task.rs:228`); `docs/features.md:24` says it is discarded |
| `AudioStartFails.cfg` | `MCAudioCapture` | `EndedStreamIsRetried` | a stream that fails to start is never freed; its source waits for the spool until the meeting ends and records nothing more (`pulse.rs:986`) |
| `SettingsInMeeting.cfg` | `MCSettings` | `OptionsFixedInMeeting` | only the panel looks whether a meeting is active, and at its last snapshot (`Backend.qml:123`): an edit may reach a daemon that records, which `docs/features.md:46` rules out |

What the properties take an exception for was met on the way and has no run of its own:
`watch_disk` overwrites the end of a meeting that was stopped just before
(`capture/mod.rs:485`), and a meeting can be deleted while it flushes after a low disk
(`capture/mod.rs:481`), hence the exceptions of `StatusMatchesCapture` and `DeletedForGood`;
a cleanup takes away the `session.json.tmp` of a meeting that ends, as a rename does, hence
that of `IdleIsReady`; an
event that comes before the task subscribes is lost (`pulse.rs:203`), and a default that
changes and changes back unseen leaves the task on the other device (`pulse.rs:771`);
a job queued by a retranscription whose audio is gone is retried for ever
(`jobs.rs:67`); a start that fails after inserting its row leaves the row 'running'
until the next start of the daemon (`capture/mod.rs:257`); a file whose insertion
failed loses its number to the next stream's first utterance and is then skipped by
every recovery (`recovery.rs:119`), hence `FileGetsRow` and `FilesKnown` speak of runs
without a failed call.

## Proofs

`tlapm <module>.tla` checks every step of the modules of theorems. They have no bounds:
any set of chunks, sessions, clients, devices or requests and any number of faults.
Assumed are only the named assumptions of the modules:

* what exists at all: a finite nonempty set of permits, two different processes, natural
  numbers of utterances and of events, the two providers, a finite set of
  `update_config` requests;
* what the schema and the code say: sequence numbers of a source differ
  (`InfoAssumption` in `Transcript`);
* what the constants of `chunker.rs:6` say of each other (`CutAssumption` in `Chunker`):
  all are positive, the post-roll is shorter than the silence that ends a turn, and
  silence, pre-roll and the least speech fit into a turn;
* that values which stand for "nothing" or for damage are no real ones: `None` is no
  session, chunk, device or title, and what is empty or torn is no configuration and no
  rendering.

Each module has one inductive invariant `IInv` (in `JobQueueProofs` and `ChunkStoreProofs`
several that build on each other), a conjunction of named parts. The properties alone are
not inductive: they say what may be seen, and the parts say why, by who holds what at
which place. TLC checked the parts on the small instances before they were proved.

**JobQueue**

* `TypeCorrect`: `TypeStep` has one step per action.
* `OneCanonical` is inductive with the types: the transaction that inserts an
  event demotes the one before it.
* `AudioSafe`: a file is deleted by a task that has recorded its event
  (`RecordedFirst`: nothing takes an event away in between) or by
  `delete_session_audio`, which asked for the events (`EventsKept`). `AudioWriters`
  and `EventWriters` say that no other action matters.
* `StoreRefinement` needs `RowsInv`: due rows are pending, and whatever is claimed or
  worked on has a row whose chunk is persisted. Then every step is a `Store`,
  `Transcribe`, `Discard` or a stutter.
* `NoStranded` is inductive with the types.
* `CompletedMeansRecorded`, `Exclusive` and `CompletedStays` rest on one joint
  invariant, `Calm /\ ExclusiveJob`: until `retry` runs beside the daemon, what a task
  or the batch holds is 'processing', and a claim takes pending rows only; neither
  half is inductive without the other.

**SessionStatus** (also in `JobQueueProofs`). `ReasonForStatus` and `CompleteRemains` follow
from the theorems about `JobQueue`: which rows are open, that a completed job has its event and stays completed,
and that audio without an event is kept.

**ChunkStore**, with crashes, errors and a second process at any time:

* `TypeCorrect` adds to the types that whatever is written or inserted has a name (`Busy`).
* `SpeechOrder` rests on `NumberInv`: below the number of every row and of every file that
  exists, is listed or is about to be inserted, all numbers are taken by earlier
  utterances. `NamesGrow` and `RowWriters` say that only `Number` makes names and that
  rows only fill free numbers of such names; the order alone is not inductive, because
  recovery inserts files that were named long before.
* `StoreRefinement` needs two more: an utterance that is not yet renamed is in no row,
  file or list (`Fresh`), and a file that may still be inserted is there (`Kept`), since
  only files with rows are deleted. `InsertStores` shows that an insertion, by the spool
  or by recovery, is a `Store` of a new utterance.
* `NumberingHolds` and `FilesHaveRows` speak of one process. `Alone` says that the other
  one has never touched anything and that a spool runs only in a process that serves;
  `Tidy` that every file without a row is either the one the spool is about to insert or
  still ahead of the recovery that is under way (`Awaited`), which ends before the socket
  is bound.

**Recording**

* `TypeCorrect` and `OneAtATime` come from `Structure`: a session is run exactly inside
  `run_session` (`Placed`), and every id that is held anywhere was given out (`KnownIds`),
  so a new one is new to all.
* `Truthful` takes the rest of `IInv`. `Quiet` says that until free space is low only
  `run_session` writes status and row; `Flagged` and `Barred` that the watcher and a
  deletion get at the session that is served only after its status was cleared;
  `RowEnded`, `Named`, `TmpKept` and `Ready` follow the end of the meeting to the idle
  daemon.
* `StaysDeleted` is an invariant (`Gone`): what was removed is not the current session,
  and nothing of it is left. It depends on `Barred` and on `RowEnded`, which keeps a
  cleanup away from the session that runs.
* `StopsAfterEnd` is an action property, from the places at which a client is answered.

**AudioCapture**

* `TypeCorrect`: the command channel is a sequence, so a command that is taken away is
  dealt with in a lemma of its own (`Taken`).
* `EveryStreamMinded` needs to know what is in the channel when the thread comes to
  it. `Queue`: at most the newest command has a sender that still waits, it is the one of
  the task's present place, and an answer leaves the channel empty. `Fed`: who holds the
  sender of the frame channel at each place. `Minded`: a stream that runs is minded by
  the task that asked for it, by a stop on its way, or by an answer that came too late.

**Provider**

* `TypeCorrect`, `CleanEnd` and `WholeAnswers` share `IInv`: an attempt has its equipment
  exactly while it runs (`Equipped`), only a killing verdict leads to `reap_group`
  (`Judged`), an output is read to its end only when no process holds the pipe
  (`Collected`), and a directory holds words and sound of its own chunk only (`OwnFiles`),
  until a crash or a failing preparation of no other chunk than the current one
  (`NoOthers`).

**Transcript**

* `TimesFromSpeech` is inductive with the types: a `restamp` reads audio that is there.
* `WholeUnlessOverlap` and `LoneOneHeals` rest on `LoneWorks`: what a regeneration without
  company has read is what the database has (`Knows`), and what it has opened, written and
  published is at the place it thinks (`Holds`). `Separate` (no two names for one inode)
  and `Solitary` (a lone one is the only one) carry this over the steps of the others, and
  `FreeInode` counts that there is always an inode to create.
* `NothingTakenAway` adds `Own`: what the names of a file hold is a rendering of chunks
  that have an event, and events are never lost (`SpokenGrows`). That the new rendering
  lists them needs a fact about data, `SortedAll`: any finite set of events can be put in
  the order of `CmpEvents` and appears in it whole. It is proved without induction, by
  counting for each event those before it.

**Settings**

* `TypeCorrect` and `FileServes`: a request has a file open exactly while it writes
  (`Holding`), the two names lead to different files (`Named`), an update that was always
  alone is (`Single`), and what a lone one has reached is in the file it says (`Reached`).
  From these, without an overlap the file is whole and what the daemon works with, except
  between the rename and the publication (`Served`).
* `LastChoiceWins` adds `Waiting` and `Underway`: while the last choice is known it is the
  last thing on its way, in the values that wait, in the helper, or in the only request
  there is.

**Chunker and Spool**, for frames of any length:

* The lengths of frames are summed by a recursive function (`Sums`). The library's
  induction theorems take a predicate, which the provers cannot instantiate; `Climb` states
  induction up to a number for a set instead, and follows from the least number outside of
  it. `SumsValue`, `SumsAgree` and `SumsGrow` rest on it, all else about lengths on these.
* `PushCases` and `FinishCases` say what one call of the chunker can do: keep the frame
  before or in the turn, or end the turn, with an utterance that is cut well (`CutWell`) or
  with less speech than `MinSpeech` dropped. `Valid` is what the chunker's counters mean:
  they are the sums over the frames it holds.
* `Whole` follows from `Valid`, `StoreTypes` and `Unbroken`: from the first frame held to
  the last one said, only dropped and late frames are not held (`Covered`), and a pause or
  the end of a spool leaves the chunker empty (`Working`).
* `InOrder` follows from `InLine` and `InStock`: the numbers grow through the store, the
  chunker and the channel, in this order. `Authentic` ties each frame to what was said.
* `NotLost` follows from `LittleLost`. `SpeechKept` alone is not inductive: as long as the
  spool works, the speech that was lost right before the first frame held is below
  `MinSpeech` (`LostNothing`, `LostTurn`), so that what the next turn loses cannot make it
  more than twice that. `RunSum` adds up the speech in a row of frames.

**Only model-checked.** The liveness properties of `JobQueue`, `Recording`, `ChunkStore`,
`AudioCapture`, `Provider` and `Settings`: fairness and `ENABLED` are out of the prover's
reach. Every invariant and every action property of the passing runs, and both
refinements, are stated by a theorem.

## Plan

Every module of the plan is written, and all that the runs check is proved except liveness.
What is left is the part of it that needs no fairness: that an attempt, a recovery or the
end of a meeting cannot go round in circles, as an action property about what is still to
do; and theorems across two modules that model one thing from two sides, such as an attempt
of `Provider` and the steps `reading` and `inferring` of a task in `JobQueue`.

## Not modelled

* Subscriptions to the broadcast channel (`control/mod.rs:153`): no program of the
  repository sends `subscribe`. The acknowledgement comes before the subscription, and a
  subscriber that lags skips events.
* Binding the socket (`control/mod.rs:48`) beyond `ChunkStore`'s refused second instance:
  two instances that both find a stale socket may remove each other's.
* The three reads behind a session's status and the look at its files are one here
  (`session_status.rs:114`): an utterance that is transcribed and removed between them is
  shown as missing until the next snapshot.
* `audio/speech.rs`, `audio/convert.rs`: arithmetic on samples. Their result is an input
  of `Transcript`.
* `disk.rs`, `doctor.rs`, `distro.rs`, `cli.rs`, `service.rs`, `logging.rs`,
  `paths.rs`, `timeutil.rs`: probes, paths, messages and calls to systemctl. Their effect
  on the modelled state (low space, restart) are steps of
  `Recording` and `JobQueue`.
* `cleanup --apply` on the command line: the steps of `cleanup_apply` in another process.
* Of the interface: installation, exports, the language helper, notifications, drawing.
