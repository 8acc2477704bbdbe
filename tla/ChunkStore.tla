------------------------------ MODULE ChunkStore ------------------------------
(***************************************************************************)
(* How the utterances of one source of one meeting come into the store:    *)
(* the spool gives each a sequence number from the database, writes it to  *)
(* a temporary file, renames that and inserts a row, and may fail or die   *)
(* after each of these steps.  A process that starts recovers first: it    *)
(* ends the running session, deletes temporary files, gives rows to files  *)
(* that have none, and only then looks whether another process serves.     *)
(*                                                                         *)
(* A file is named by its sequence number and the utterance in it, which   *)
(* stands for the timestamp in the name of the code's files.               *)
(***************************************************************************)
EXTENDS Integers, FiniteSets

CONSTANTS
  MaxUtterance,  \* bound: number of utterances spoken
  Service,       \* the process that systemd starts
  Manual,        \* a process started by hand beside it
  None,
  Budget         \* bound: how often each event of Kinds may happen

Kinds == {"crash", "manual", "fault", "reopen"}

ASSUME UtteranceAssumption == MaxUtterance \in Nat
ASSUME NamesAssumption     == Service # Manual /\ None \notin 1 .. MaxUtterance
ASSUME BudgetAssumption    == Budget \in [Kinds -> Nat]

VARIABLES
  row,      \* audio_chunks: the utterance in the row of a sequence number
  files,    \* finished .flac files, <<sequence, utterance>>
  tmps,     \* .flac.tmp files
  done,     \* sequence numbers whose chunk is transcribed
  open,     \* the session's row says 'running'
  heard,    \* number of utterances spoken so far
  spool,    \* where the spool is, with the chunk it persists
  inst,     \* where each process is
  todo,     \* the files a recovering process has listed and not handled
  checked,  \* the file it is about to insert
  spent     \* how often each event of Kinds has happened

store    == <<row, files, tmps, done, open>>
recovery == <<todo, checked>>
vars     == <<store, heard, spool, inst, recovery, spent>>

-----------------------------------------------------------------------------
Utterances == 1 .. MaxUtterance
Sequences  == 1 .. MaxUtterance
Chunks     == Sequences \X Utterances
Processes  == {Service, Manual}
Phases     == {"off", "interrupting", "clearing", "importing", "inserting", "serving"}
Steps      == {"off", "ready", "numbered", "written", "renamed", "dead"}

Numbered  == {s \in Sequences : row[s] # None}
Chunk     == spool.chunk
Spool(pc) == spool' = [spool EXCEPT !.pc = pc]

(* next_sequence: one more than the greatest number in the table. *)
NextSequence(n) ==
  /\ \A s \in Numbered : s < n
  /\ n = 1 \/ n - 1 \in Numbered

Spend(kind) == /\ spent[kind] < Budget[kind]
               /\ spent' = [spent EXCEPT ![kind] = @ + 1]

Init ==
  /\ row = [s \in Sequences |-> None]
  /\ files = {} /\ tmps = {} /\ done = {}
  /\ open = TRUE /\ heard = 0
  /\ spool = [pc |-> "ready", chunk |-> None]
  /\ inst = [p \in Processes |-> IF p = Service THEN "serving" ELSE "off"]
  /\ todo = [p \in Processes |-> {}]
  /\ checked = [p \in Processes |-> None]
  /\ spent = [k \in Kinds |-> 0]

-----------------------------------------------------------------------------
(* The spool, a task of the process that began the session.                *)

(* Mutant: the greatest number in the table is used again. *)
NumberAgain ==
  /\ spool.pc = "ready" /\ heard < MaxUtterance
  /\ heard' = heard + 1
  /\ \E n \in Sequences :
       /\ \A s \in Numbered : s <= n
       /\ n = 1 \/ n \in Numbered
       /\ spool' = [pc |-> "numbered", chunk |-> <<n, heard + 1>>]
  /\ UNCHANGED <<store, inst, recovery, spent>>

(* Mutant: the numbers of an empty table begin with 0. *)
NumberFromZero ==
  /\ spool.pc = "ready" /\ heard < MaxUtterance
  /\ heard' = heard + 1
  /\ \E n \in 0 .. MaxUtterance :
       /\ \A s \in Numbered : s < n
       /\ n = 0 \/ n - 1 \in Numbered
       /\ spool' = [pc |-> "numbered", chunk |-> <<n, heard + 1>>]
  /\ UNCHANGED <<store, inst, recovery, spent>>

(* An utterance is complete and next_sequence has been read for it. *)
Number ==
  /\ spool.pc = "ready" /\ heard < MaxUtterance
  /\ heard' = heard + 1
  /\ \E n \in Sequences :
       /\ NextSequence(n)
       /\ spool' = [pc |-> "numbered", chunk |-> <<n, heard + 1>>]
  /\ UNCHANGED <<store, inst, recovery, spent>>

(* write_flac_atomic: an existing destination is an error, a left over     *)
(* temporary file is replaced.                                             *)
WriteTmp ==
  /\ spool.pc = "numbered"
  /\ IF Chunk \in files
     THEN Spool("dead") /\ UNCHANGED tmps
     ELSE Spool("written") /\ tmps' = tmps \cup {Chunk}
  /\ UNCHANGED <<row, files, done, open, heard, inst, recovery, spent>>

(* Mutant: the row is inserted although the rename failed. *)
RenameUnchecked ==
  /\ spool.pc = "written"
  /\ files' = IF Chunk \in tmps THEN files \cup {Chunk} ELSE files
  /\ tmps' = tmps \ {Chunk}
  /\ Spool("renamed")
  /\ UNCHANGED <<row, done, open, heard, inst, recovery, spent>>

Rename ==
  /\ spool.pc = "written"
  /\ IF Chunk \in tmps
     THEN /\ files' = files \cup {Chunk} /\ tmps' = tmps \ {Chunk}
          /\ Spool("renamed")
     ELSE Spool("dead") /\ UNCHANGED <<files, tmps>>
  /\ UNCHANGED <<row, done, open, heard, inst, recovery, spent>>

(* insert_chunk_and_job; a number that is taken violates UNIQUE. *)
InsertChunk ==
  /\ spool.pc = "renamed"
  /\ IF Chunk[1] \in Numbered
     THEN Spool("dead") /\ UNCHANGED row
     ELSE Spool("ready") /\ row' = [row EXCEPT ![Chunk[1]] = Chunk[2]]
  /\ UNCHANGED <<files, tmps, done, open, heard, inst, recovery, spent>>

(* A database or file error in persist_recorded_chunk ends the spool; what *)
(* it has written so far stays.                                            *)
PersistFails ==
  /\ spool.pc \in {"numbered", "written", "renamed"}
  /\ Spend("fault")
  /\ \/ spool.pc = "numbered" /\ tmps' = tmps \cup {Chunk}
     \/ UNCHANGED tmps
  /\ Spool("dead")
  /\ UNCHANGED <<row, files, done, open, heard, inst, recovery>>

(* The stream goes on without a spool: its frames are dropped. *)
Miss ==
  /\ spool.pc = "dead" /\ heard < MaxUtterance
  /\ heard' = heard + 1
  /\ UNCHANGED <<store, spool, inst, recovery, spent>>

(* The stream ends (another device, a lost server): a new one gets a spool. *)
Reopen ==
  /\ spool.pc = "dead" /\ Spend("reopen")
  /\ Spool("ready")
  /\ UNCHANGED <<store, heard, inst, recovery>>

(* The meeting is stopped. *)
EndSession ==
  /\ spool.pc \in {"ready", "dead"}
  /\ spool' = [pc |-> "off", chunk |-> None]
  /\ open' = FALSE
  /\ UNCHANGED <<row, files, tmps, done, heard, inst, recovery, spent>>

-----------------------------------------------------------------------------
(* The queue: a chunk is transcribed, and its audio may be deleted.        *)

Serving == \E p \in Processes : inst[p] = "serving"

Transcribe(s) ==
  /\ Serving
  /\ s \in Numbered \ done /\ <<s, row[s]>> \in files
  /\ done' = done \cup {s}
  /\ UNCHANGED <<row, files, tmps, open, heard, spool, inst, recovery, spent>>

DeleteAudio(s) ==
  /\ Serving
  /\ s \in done
  /\ files' = files \ {<<s, row[s]>>}
  /\ UNCHANGED <<row, tmps, done, open, heard, spool, inst, recovery, spent>>

-----------------------------------------------------------------------------
(* cmd_run up to the control socket.                                       *)

Phase(p, phase) == inst' = [inst EXCEPT ![p] = phase]

Launch(p) ==
  /\ inst[p] = "off"
  /\ IF p = Manual THEN Spend("manual") ELSE UNCHANGED spent
  /\ Phase(p, "interrupting")
  /\ UNCHANGED <<store, heard, spool, recovery>>

(* A process that gives up its recovery or its bid for the socket. *)
GiveUp(p) ==
  /\ Phase(p, "off")
  /\ todo' = [todo EXCEPT ![p] = {}] /\ checked' = [checked EXCEPT ![p] = None]

(* interrupt_running_sessions; then the temporary files are listed. *)
Interrupt(p) ==
  /\ inst[p] = "interrupting"
  /\ open' = FALSE
  /\ todo' = [todo EXCEPT ![p] = tmps]
  /\ Phase(p, "clearing")
  /\ UNCHANGED <<row, files, tmps, done, heard, spool, checked, spent>>

(* delete_tmp_files; a file that is gone is an error. *)
RemoveTmp(p, f) ==
  /\ inst[p] = "clearing" /\ f \in todo[p]
  /\ IF f \in tmps
     THEN /\ tmps' = tmps \ {f}
          /\ todo' = [todo EXCEPT ![p] = @ \ {f}]
          /\ UNCHANGED <<inst, checked>>
     ELSE GiveUp(p) /\ UNCHANGED tmps
  /\ UNCHANGED <<row, files, done, open, heard, spool, spent>>

(* reconcile_orphan_flac lists the finished files. *)
ListFiles(p) ==
  /\ inst[p] = "clearing" /\ todo[p] = {}
  /\ todo' = [todo EXCEPT ![p] = files]
  /\ Phase(p, "importing")
  /\ UNCHANGED <<store, heard, spool, checked, spent>>

(* They are handled in the order of their names. *)
First(f, S) ==
  /\ f \in S
  /\ \A g \in S : f[1] < g[1] \/ (f[1] = g[1] /\ f[2] <= g[2])

(* Mutant: an orphan gets the next free number instead of its own. *)
CheckFileRenumbered(p, f) ==
  /\ inst[p] = "importing" /\ First(f, todo[p])
  /\ todo' = [todo EXCEPT ![p] = @ \ {f}]
  /\ IF f[1] \in Numbered /\ row[f[1]] = f[2]
     THEN UNCHANGED <<inst, checked>>
     ELSE /\ Phase(p, "inserting")
          /\ \E n \in Sequences : /\ NextSequence(n)
                                  /\ checked' = [checked EXCEPT ![p] = <<n, f[2]>>]
  /\ UNCHANGED <<store, heard, spool, spent>>

(* A file that has a row, or whose number is taken, is skipped. *)
CheckFile(p, f) ==
  /\ inst[p] = "importing" /\ First(f, todo[p])
  /\ todo' = [todo EXCEPT ![p] = @ \ {f}]
  /\ IF f[1] \in Numbered
     THEN UNCHANGED <<inst, checked>>
     ELSE Phase(p, "inserting") /\ checked' = [checked EXCEPT ![p] = f]
  /\ UNCHANGED <<store, heard, spool, spent>>

InsertOrphan(p) ==
  /\ inst[p] = "inserting"
  /\ LET f == checked[p] IN
     IF f[1] \in Numbered
     THEN GiveUp(p) /\ UNCHANGED row
     ELSE /\ row' = [row EXCEPT ![f[1]] = f[2]]
          /\ Phase(p, "importing")
          /\ checked' = [checked EXCEPT ![p] = None]
          /\ UNCHANGED todo
  /\ UNCHANGED <<files, tmps, done, open, heard, spool, spent>>

(* A database error during recovery. *)
RecoveryFails(p) ==
  /\ inst[p] \in {"interrupting", "clearing", "importing", "inserting"}
  /\ Spend("fault")
  /\ GiveUp(p)
  /\ UNCHANGED <<store, heard, spool>>

(* Mutant: files without a row are left to a later start. *)
BindAtOnce(p) ==
  /\ inst[p] = "importing"
  /\ todo' = [todo EXCEPT ![p] = {}]
  /\ Phase(p, IF Serving THEN "off" ELSE "serving")
  /\ UNCHANGED <<store, heard, spool, checked, spent>>

(* bind_or_fail: refused while another process answers on the socket. *)
Bind(p) ==
  /\ inst[p] = "importing" /\ todo[p] = {}
  /\ Phase(p, IF Serving THEN "off" ELSE "serving")
  /\ UNCHANGED <<store, heard, spool, recovery, spent>>

(* A process is killed; the spool is a task of the one that serves. *)
Crash(p) ==
  /\ inst[p] # "off" /\ Spend("crash")
  /\ GiveUp(p)
  /\ spool' = IF inst[p] = "serving" THEN [pc |-> "off", chunk |-> None] ELSE spool
  /\ UNCHANGED <<store, heard>>

-----------------------------------------------------------------------------
Persist == Number \/ WriteTmp \/ Rename \/ InsertChunk

Recover(p) ==
  \/ Interrupt(p) \/ ListFiles(p) \/ InsertOrphan(p) \/ Bind(p)
  \/ \E f \in Chunks : RemoveTmp(p, f) \/ CheckFile(p, f)

Next ==
  \/ Persist \/ PersistFails \/ Miss \/ Reopen \/ EndSession
  \/ \E s \in Sequences : Transcribe(s) \/ DeleteAudio(s)
  \/ \E p \in Processes : Launch(p) \/ Recover(p) \/ RecoveryFails(p) \/ Crash(p)

Spec == Init /\ [][Next]_vars

(* systemd starts its process again, and a process that runs takes its     *)
(* steps; utterances, transcription and deletion are not promised.         *)
Fairness ==
  /\ WF_vars(Launch(Service))
  /\ \A p \in Processes : WF_vars(Recover(p))
  /\ WF_vars(WriteTmp \/ Rename \/ InsertChunk)

FairSpec == Spec /\ Fairness

-----------------------------------------------------------------------------
(* What TranscriptStore promises, by utterances. *)
Stored      == {row[s] : s \in Numbered}
WithAudio   == {row[s] : s \in {t \in Numbered : <<t, row[t]>> \in files}}
Transcribed == {row[s] : s \in done}

TS == INSTANCE TranscriptStore
        WITH Chunks <- Utterances, stored <- Stored, audio <- WithAudio,
             transcribed <- Transcribed

(* An utterance is stored in one step together with its audio, whatever    *)
(* fails, dies or recovers between the file and the row.                   *)
ImplementsTranscriptStore == TS!StoreSpec

(* Types of the variables. *)
TypeOK ==
  /\ row \in [Sequences -> Utterances \cup {None}]
  /\ files \subseteq Chunks /\ tmps \subseteq Chunks
  /\ done \subseteq Sequences
  /\ open \in BOOLEAN /\ heard \in 0 .. MaxUtterance
  /\ spool \in [pc : Steps, chunk : Chunks \cup {None}]
  /\ inst \in [Processes -> Phases]
  /\ todo \in [Processes -> SUBSET Chunks]
  /\ checked \in [Processes -> Chunks \cup {None}]
  /\ spent \in [Kinds -> Nat]

(* Sequence numbers follow the order in which the utterances were spoken,  *)
(* those that recovery imported included.                                  *)
Chronological ==
  \A s, t \in Numbered : s < t => row[s] < row[t]

(* While one process serves, after any number of crashes but no failed     *)
(* call, every finished file has its row or is in the spool's hands.       *)
FilesKnown ==
  Serving /\ spent["fault"] = 0 /\ spent["manual"] = 0 =>
    \A f \in files : row[f[1]] = f[2] \/ (spool.pc = "renamed" /\ f = Chunk)

(* The spool does not fail by its own numbering: neither an existing file  *)
(* nor a taken number ends it, after a crash or an earlier failure either. *)
OnlyFaultsKillSpool ==
  [][ spool.pc # "dead" /\ spool'.pc = "dead" /\ spent["manual"] = 0 =>
        spent'["fault"] > spent["fault"] ]_vars

(* A finished file gets its row in the end: from the spool or, if that     *)
(* dies first, from recovery; unless a database or file call fails.        *)
FileGetsRow ==
  \A f \in Chunks : f \in files ~> row[f[1]] = f[2] \/ spent["fault"] > 0

(* "removing leftover temporary audio file": none that is being written. *)
LeftoverFilesOnly ==
  spool.pc = "written" => Chunk \in tmps
=============================================================================
