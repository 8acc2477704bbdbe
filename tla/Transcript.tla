----------------------------- MODULE Transcript -----------------------------
(***************************************************************************)
(* The readable transcript of one meeting: the times of its utterances in  *)
(* the database and the files transcript.md and transcript.jsonl, which    *)
(* are written anew after every transcription (the worker), when the       *)
(* meeting is renamed (a task of the daemon) and by `rebuild` (a process   *)
(* of its own).  All of them write through one temporary name per file,    *)
(* and the audio the times are taken from is deleted meanwhile.            *)
(***************************************************************************)
EXTENDS Integers, FiniteSets

CONSTANTS
  Chunks,
  Info,       \* of each chunk: source, sequence, start, start of its speech, words or silence
  OmitHeaders,  \* transcript.omit_single_source_headers
  Titles,     \* what the meeting may be called
  None,       \* no event, no file, no text
  Torn,       \* a text that is the start of one rendering and the end of another
  Budget      \* bound: how often each event of Kinds may happen

Kinds == {"call", "fault", "crash"}   \* a call is a rename or a rebuild
Files == {"md", "jsonl"}
Tasks == {"worker", "rename", "rebuild"}

\* UNIQUE (session_id, source, sequence) in audio_chunks.
ASSUME InfoAssumption ==
  /\ IsFiniteSet(Chunks)
  /\ Info \in [Chunks -> [source : {"mic", "system"}, sequence : Nat, window : Nat,
                          speech : Nat, words : BOOLEAN]]
  /\ \A a, b \in Chunks : a # b /\ Info[a].source = Info[b].source =>
                         Info[a].sequence # Info[b].sequence
ASSUME OptionsAssumption == OmitHeaders \in BOOLEAN
ASSUME BudgetAssumption  == Budget \in [Kinds -> Nat]

VARIABLES
  title,    \* sessions.title
  event,    \* start of each chunk's canonical event, or None
  audio,    \* the chunks whose file exists
  retain,   \* the session's retain-audio marker
  tmp,      \* inode of each file's temporary name
  dest,     \* inode of each file's own name
  content,  \* text of each inode
  task,     \* the regenerations under way
  current,  \* chunk the worker transcribes
  spent     \* how often each event of Kinds has happened

database == <<title, event>>
files    == <<tmp, dest, content>>
vars     == <<database, audio, retain, files, task, current, spent>>

-----------------------------------------------------------------------------
(* A regeneration: where it is, the rows it still has to time, what it has *)
(* read, the file it writes and whether another one ran at the same time.  *)
Steps == {"idle", "restamp", "events", "create", "write", "publish", "after"}
Idle  == [at |-> "idle", rows |-> {}, title |-> None, times |-> None, file |-> "md",
          fd |-> None, alone |-> TRUE]

\* Enough for two names of each file and one open file of each task.
Inodes == 1 .. 7
Used   == ({tmp[f] : f \in Files} \cup {dest[f] : f \in Files}
             \cup {task[t].fd : t \in Tasks}) \ {None}

Spend(kind) == /\ spent[kind] < Budget[kind]
               /\ spent' = [spent EXCEPT ![kind] = @ + 1]

Go(t, next) == task' = [task EXCEPT ![t] = next]

\* Task t enters a regeneration: it is no longer alone if another one runs.
Enter(t) ==
  LET others == {u \in Tasks \ {t} : task[u].at \notin {"idle", "after"}} IN
  task' = [u \in Tasks |->
    IF u = t THEN [Idle EXCEPT !.at = "restamp", !.alone = others = {},
                               !.rows = {c \in Chunks : event'[c] # None}]
    ELSE IF u \in others THEN [task[u] EXCEPT !.alone = FALSE]
    ELSE task[u]]

-----------------------------------------------------------------------------
(* Times and texts *)

\* Speech that was found in the file; without it the window of the chunk.
AlignedTime(c) ==
  IF Info[c].words /\ c \in audio THEN Info[c].speech ELSE Info[c].window

CmpEvents(times, a, b) ==
  \/ times[a] < times[b]
  \/ times[a] = times[b] /\ <<Info[a].source, Info[b].source>> = <<"mic", "system">>
  \/ /\ times[a] = times[b] /\ Info[a].source = Info[b].source
     /\ Info[a].sequence < Info[b].sequence

\* The chunks of S in their order, which has no ties.
SortEvents(S, times) ==
  CHOOSE sorted \in [1 .. Cardinality(S) -> S] :
    \A i, j \in DOMAIN sorted : i < j => CmpEvents(times, sorted[i], sorted[j])

SourcesWithText(S) == {Info[c].source : c \in {d \in S : Info[d].words}}

HideHeaders(S) == OmitHeaders /\ Cardinality(SourcesWithText(S)) <= 1

RenderMarkdown(name, times) ==
  LET S     == DOMAIN times
      lines == SortEvents({c \in S : HideHeaders(S) => Info[c].words}, times)
  IN  [title |-> name,
       lines |-> [i \in DOMAIN lines |->
                    [chunk |-> lines[i],
                     start |-> IF HideHeaders(S) THEN None ELSE times[lines[i]]]]]

RenderJsonl(times) ==
  LET lines == SortEvents(DOMAIN times, times)
  IN  [title |-> None,
       lines |-> [i \in DOMAIN lines |-> [chunk |-> lines[i], start |-> times[lines[i]]]]]

Render(f, name, times) ==
  IF f = "md" THEN RenderMarkdown(name, times) ELSE RenderJsonl(times)

(* Mutant: the join asks for the chunk's file. *)
CanonicalOnDisk == [c \in {d \in audio : event[d] # None} |-> event[c]]

\* The canonical events of the database.
Canonical == [c \in {d \in Chunks : event[d] # None} |-> event[c]]

\* What writing a text at the start of a file leaves: a longer one keeps its end.
ChunksOf(text) == {text.lines[i].chunk : i \in DOMAIN text.lines}
NoShorter(text, old) == old \notin {None, Torn} => /\ text.title = old.title
                                                   /\ ChunksOf(old) \subseteq ChunksOf(text)
Written(text, old) ==
  IF old # Torn /\ NoShorter(text, old) THEN {text} ELSE {text, Torn}

\* What a regeneration may read from the database, and what it may write.
Moments == {Info[c].window : c \in Chunks} \cup {Info[c].speech : c \in Chunks}
Stamps  == UNION {[S -> Moments] : S \in SUBSET Chunks}
Texts   == {Render(f, name, times) : f \in Files, name \in Titles \cup {None}, times \in Stamps}

ASSUME NoneAssumption ==
  /\ None \notin Titles \cup Moments \cup Inodes /\ None # Torn
  /\ {None, Torn} \cap Texts = {}

-----------------------------------------------------------------------------
Regenerations ==
  [at : Steps, rows : SUBSET Chunks, title : Titles \cup {None}, times : Stamps \cup {None},
   file : Files, fd : Inodes \cup {None}, alone : BOOLEAN]

TypeOK ==
  /\ title \in Titles
  /\ event \in [Chunks -> Moments \cup {None}]
  /\ audio \subseteq Chunks /\ retain \in BOOLEAN
  /\ tmp \in [Files -> Inodes \cup {None}] /\ dest \in [Files -> Inodes \cup {None}]
  /\ content \in [Inodes -> Texts \cup {None, Torn}]
  /\ task \in [Tasks -> Regenerations]
  /\ \A t \in Tasks : (task[t].at = "write") <=> (task[t].fd # None)
  /\ current \in Chunks \cup {None}
  /\ spent \in [Kinds -> Nat]

\* A meeting with its chunks stored and nothing transcribed.
Init ==
  /\ title \in Titles
  /\ event = [c \in Chunks |-> None]
  /\ audio = Chunks
  /\ retain \in BOOLEAN
  /\ tmp = [f \in Files |-> None] /\ dest = [f \in Files |-> None]
  /\ content = [i \in Inodes |-> None]
  /\ task = [t \in Tasks |-> Idle]
  /\ current = None
  /\ spent = [k \in Kinds |-> 0]

-----------------------------------------------------------------------------
(* What starts a regeneration *)

(* Mutant: the text is recorded with the times of its chunk. *)
RecordSuccessUnaligned(c) ==
  /\ task["worker"].at = "idle"
  /\ event[c] = None
  /\ event' = [event EXCEPT ![c] = Info[c].window]
  /\ current' = c
  /\ Enter("worker")
  /\ UNCHANGED <<title, audio, retain, files, spent>>

\* process_job: the provider has answered, its text is recorded with its time.
RecordSuccess(c) ==
  /\ task["worker"].at = "idle"
  /\ event[c] = None
  /\ event' = [event EXCEPT ![c] = AlignedTime(c)]
  /\ current' = c
  /\ Enter("worker")
  /\ UNCHANGED <<title, audio, retain, files, spent>>

\* rename_session: the new title is in the row before anything is written.
Rename(name) ==
  /\ task["rename"].at = "idle"
  /\ Spend("call")
  /\ title' = name
  /\ UNCHANGED event
  /\ Enter("rename")
  /\ UNCHANGED <<audio, retain, files, current>>

Rebuild ==
  /\ task["rebuild"].at = "idle"
  /\ Spend("call")
  /\ UNCHANGED database
  /\ Enter("rebuild")
  /\ UNCHANGED <<audio, retain, files, current>>

-----------------------------------------------------------------------------
(* regenerate_session_transcripts *)

\* One row after the other, each with a statement of its own.
Restamp(t) ==
  /\ task[t].at = "restamp"
  /\ \E c \in task[t].rows :
       /\ event' = [event EXCEPT ![c] = AlignedTime(c)]
       /\ Go(t, [task[t] EXCEPT !.rows = @ \ {c}])
  /\ UNCHANGED <<title, audio, retain, files, current, spent>>

ReadTitle(t) ==
  /\ task[t].at = "restamp" /\ task[t].rows = {}
  /\ Go(t, [task[t] EXCEPT !.at = "events", !.title = title])
  /\ UNCHANGED <<database, audio, retain, files, current, spent>>

ReadEvents(t) ==
  /\ task[t].at = "events"
  /\ Go(t, [task[t] EXCEPT !.at = "create", !.times = Canonical])
  /\ UNCHANGED <<database, audio, retain, files, current, spent>>

(* atomic_replace, once for each file *)

(* Mutant: the file is opened without emptying it. *)
CreateUntruncated(t) ==
  LET f     == task[t].file
      inode == IF tmp[f] # None THEN tmp[f] ELSE CHOOSE i \in Inodes \ Used : TRUE
  IN  /\ task[t].at = "create"
      /\ tmp' = [tmp EXCEPT ![f] = inode]
      /\ Go(t, [task[t] EXCEPT !.at = "write", !.fd = inode])
      /\ UNCHANGED <<database, audio, retain, dest, content, current, spent>>

\* The temporary name is opened and emptied; another task may hold it open.
Create(t) ==
  LET f     == task[t].file
      inode == IF tmp[f] # None THEN tmp[f] ELSE CHOOSE i \in Inodes \ Used : TRUE
  IN  /\ task[t].at = "create"
      /\ tmp' = [tmp EXCEPT ![f] = inode]
      /\ content' = [content EXCEPT ![inode] = None]
      /\ Go(t, [task[t] EXCEPT !.at = "write", !.fd = inode])
      /\ UNCHANGED <<database, audio, retain, dest, current, spent>>

WriteAll(t) ==
  LET text == Render(task[t].file, task[t].title, task[t].times)
  IN  /\ task[t].at = "write"
      /\ \E result \in Written(text, content[task[t].fd]) :
           content' = [content EXCEPT ![task[t].fd] = result]
      /\ Go(t, [task[t] EXCEPT !.at = "publish", !.fd = None, !.title = None,
                               !.times = IF task[t].file = "md" THEN @ ELSE None])
      /\ UNCHANGED <<database, audio, retain, tmp, dest, current, spent>>

\* The worker goes on to the audio, after an error too; the others are done.
Finished(t) == IF t = "worker" THEN [Idle EXCEPT !.at = "after"] ELSE Idle

\* The rename fails when another task has taken the temporary name away.
Publish(t) ==
  LET f == task[t].file IN
  /\ task[t].at = "publish"
  /\ IF tmp[f] = None
     THEN /\ Go(t, Finished(t))
          /\ UNCHANGED files
     ELSE /\ dest' = [dest EXCEPT ![f] = tmp[f]]
          /\ tmp' = [tmp EXCEPT ![f] = None]
          /\ content' = [i \in Inodes |->   \* a text without a name is gone
               IF i = dest[f] /\ \A u \in Tasks : task[u].fd # i THEN None ELSE content[i]]
          /\ IF f = "md" THEN Go(t, [task[t] EXCEPT !.at = "create", !.file = "jsonl"])
                         ELSE Go(t, Finished(t))
  /\ UNCHANGED <<database, audio, retain, current, spent>>

(* Mutant: an error of write_all is ignored. *)
FailIgnored(t) ==
  /\ task[t].at \in {"restamp", "events", "create", "write", "publish"}
  /\ Spend("fault")
  /\ IF task[t].at = "write" THEN Go(t, [task[t] EXCEPT !.at = "publish", !.fd = None])
                             ELSE Go(t, Finished(t))
  /\ UNCHANGED <<database, audio, retain, files, current>>

\* The database or the disk fails: the caller logs it or ignores it.
Fail(t) ==
  /\ task[t].at \in {"restamp", "events", "create", "write", "publish"}
  /\ Spend("fault")
  /\ Go(t, Finished(t))
  /\ UNCHANGED <<database, audio, retain, files, current>>

-----------------------------------------------------------------------------
\* process_job goes on: the audio goes unless the session keeps it.
RemoveAudio ==
  /\ task["worker"].at = "after"
  /\ audio' = IF retain THEN audio ELSE audio \ {current}
  /\ current' = None
  /\ Go("worker", Idle)
  /\ UNCHANGED <<database, retain, files, spent>>

\* delete_session_audio: one file after the other, once all is transcribed.
DeleteSessionAudio(c) ==
  /\ \A d \in Chunks : event[d] # None
  /\ c \in audio
  /\ audio' = audio \ {c}
  /\ UNCHANGED <<database, retain, files, task, current, spent>>

\* The daemon dies and is started again; a rebuild is a process of its own.
Crash ==
  /\ Spend("crash")
  /\ task' = [t \in Tasks |-> IF t = "rebuild" THEN task[t] ELSE Idle]
  /\ current' = None
  /\ UNCHANGED <<database, audio, retain, files>>

Regenerate(t) ==
  \/ Restamp(t) \/ ReadTitle(t) \/ ReadEvents(t)
  \/ Create(t) \/ WriteAll(t) \/ Publish(t) \/ Fail(t)

Next ==
  \/ \E c \in Chunks : RecordSuccess(c) \/ DeleteSessionAudio(c)
  \/ \E name \in Titles : Rename(name)
  \/ Rebuild
  \/ \E t \in Tasks : Regenerate(t)
  \/ RemoveAudio
  \/ Crash

Spec == Init /\ [][Next]_vars
-----------------------------------------------------------------------------
(* What is in a file's own name, and what a regeneration would write now. *)
Shown(f)   == IF dest[f] = None THEN None ELSE content[dest[f]]
Current(f) == Render(f, title, Canonical)

\* A regeneration that has met no other one is about to publish its last file.
LastPublish(t) ==
  /\ task[t].at = "publish" /\ task[t].file = "jsonl" /\ task[t].alone
  /\ task'[t].at \in {"idle", "after"} /\ dest' # dest

(* A regeneration that ran alone and to its end leaves both files whole and  *)
(* as the database is, whatever earlier regenerations that failed, died or   *)
(* ran into each other left under the temporary and the final names.         *)
HealsAlone ==
  [][\A t \in Tasks : LastPublish(t) =>
       \A f \in Files : Shown(f)' = Current(f)']_vars

(* A reader of transcript.md or transcript.jsonl finds a whole rendering, at *)
(* any moment and after any crash, as long as no two regenerations overlap:  *)
(* a file that is published while it is empty or half written takes two.     *)
TornByOverlapOnly ==
  [][\A f \in Files : \/ Shown(f)' \notin {None, Torn}
                      \/ Shown(f)' = Shown(f)
                      \/ \E t \in Tasks : ~task[t].alone]_vars

(* As long as an utterance's audio is there, its event has the time of the   *)
(* speech in it: no regeneration, whatever it had read before, moves it away *)
(* (restamp_canonical_events_from_audio).                                    *)
TimedBySpeech ==
  \A c \in audio : event[c] # None /\ Info[c].words => event[c] = Info[c].speech

(* The events and the files have their types, and the times of those whose   *)
(* audio is still there come from it.                                        *)
TimesRight == TypeOK /\ TimedBySpeech

(* Whoever publishes: a transcript that is replaced by a regeneration that   *)
(* ran alone never loses an utterance it showed.                             *)
ShownStays ==
  [][\A t \in Tasks, f \in Files :
       (/\ task[t].at = "publish" /\ task[t].file = f /\ task[t].alone
        /\ dest'[f] # dest[f] /\ Shown(f) \notin {None, Torn})
       => ChunksOf(Shown(f)) \subseteq ChunksOf(Shown(f)')]_vars

(* events.rs:132 says that times move from the chunk window onto the speech  *)
(* and README.md:3 that utterance timestamps are preserved: a time that was  *)
(* taken from the speech stays.                                              *)
SpeechTimesKept ==
  [][\A c \in Chunks : event[c] # None => event'[c] = event[c]]_vars
=============================================================================
