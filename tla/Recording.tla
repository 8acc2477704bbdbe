------------------------------ MODULE Recording ------------------------------
(***************************************************************************)
(* The life of a meeting's recording: the daemon's main loop and its start *)
(* and stop channels, the session it runs, the two source tasks, the disk  *)
(* watcher, the runtime status they share, and the other tasks that touch  *)
(* a session's row and directory: pausing, renaming and deleting it.       *)
(*                                                                         *)
(* What run_session does between two awaits is several steps here, because *)
(* tasks on the runtime's other threads run between them.                  *)
(***************************************************************************)
EXTENDS Integers, Sequences, FiniteSets

CONSTANTS
  Sessions,   \* the session ids (fresh UUIDs) that may be given out
  Clients,    \* the connections of the control socket
  Sources,    \* the capture sources: microphone and system audio
  None,       \* no session, no client
  Budget      \* bound: how often each event of Kinds may happen (at most as
              \* many starts as there are Sessions)

Kinds == {"start", "stop", "crash", "shutdown", "disk", "rename", "delete",
          "cleanup", "startFault", "saveFault"}

ASSUME NoneAssumption   == None \notin Sessions \cup Clients
ASSUME SourceAssumption == Sources # {}
ASSUME BudgetAssumption == Budget \in [Kinds -> Nat]

VARIABLES
  row,        \* sessions.state, "none" without a row
  dirs,       \* sessions with a directory on disk
  tmp,        \* sessions with a session.json.tmp in it
  used,       \* ids already given out
  deleted,    \* sessions that were deleted or cleaned up (but see CleanupRows)
  status,     \* the shared RuntimeStatus
  startQ,     \* clients in the start channel
  stopQ,      \* clients in the stop channel
  main,       \* where the main loop is
  current,    \* the session it runs
  owner,      \* the client that still waits for the start reply
  cause,      \* why the session ends: "own", "stop" or "shutdown"
  stopper,    \* the client whose stop request ends it
  verdict,    \* the state finalize_session has decided on
  cancelled,  \* sessions whose capture_stop token is cancelled
  capturing,  \* the live source tasks of each session
  watch,      \* the disk watcher of each session
  renamer,    \* the task serving a rename_session
  deleter,    \* the task serving a delete_session
  cleaner,    \* the task serving a cleanup_apply
  shutdown,   \* the process_shutdown token
  spent       \* how often each event of Kinds has happened

disk     == <<row, dirs, tmp, used, deleted>>
queues   == <<startQ, stopQ>>
loop     == <<main, current, owner, cause, stopper, verdict>>
session  == <<cancelled, capturing, watch>>
handlers == <<renamer, deleter, cleaner>>
vars     == <<disk, status, queues, loop, session, handlers, shutdown, spent>>

-----------------------------------------------------------------------------
States   == {"none", "running", "completed", "interrupted"}
InLoop   == {"opening", "opened", "serving", "reading", "deciding", "marking",
             "saving", "renaming", "clearing"}
Places   == {"idle", "leaving", "down"} \cup InLoop
Watching == {"off", "on", "low", "flagged", "marked", "saved", "done"}
Statuses == [active : BOOLEAN, paused : BOOLEAN, session : Sessions \cup {None},
             reason : BOOLEAN]
Resting  == [pc |-> "none", session |-> None]
Cleaned  == [todo |-> {}, session |-> None, early |-> FALSE]
Renames  == {Resting} \cup [pc : {"titled", "saved"}, session : Sessions]
Deletes  == {Resting}
            \cup [pc : {"allowed", "removing", "removed"}, session : Sessions]
Cleanups == [todo : SUBSET Sessions, session : Sessions \cup {None}, early : BOOLEAN]

Spend(kind) == /\ spent[kind] < Budget[kind]
               /\ spent' = [spent EXCEPT ![kind] = @ + 1]

InQueue(q)  == {q[i] : i \in 1 .. Len(q)}
Waiting(c)  == c \in InQueue(startQ) \cup InQueue(stopQ) \cup {owner, stopper}
Stopped(s)  == shutdown \/ s \in cancelled
Alive       == main # "down"

IdleStatus == [active |-> FALSE, paused |-> FALSE, session |-> None, reason |-> FALSE]

Init ==
  /\ row = [s \in Sessions |-> "none"]
  /\ dirs = {} /\ tmp = {} /\ used = {} /\ deleted = {}
  /\ status = IdleStatus
  /\ startQ = <<>> /\ stopQ = <<>>
  /\ main = "idle" /\ current = None
  /\ owner = None /\ cause = "own" /\ stopper = None /\ verdict = "completed"
  /\ cancelled = {}
  /\ capturing = [s \in Sessions |-> {}]
  /\ watch = [s \in Sessions |-> "off"]
  /\ renamer = Resting /\ deleter = Resting /\ cleaner = Cleaned
  /\ shutdown = FALSE
  /\ spent = [k \in Kinds |-> 0]

-----------------------------------------------------------------------------
(* Requests.                                                               *)

(* await_start and await_stop: the reply channel goes to the main loop. *)
Request(c) ==
  /\ main \notin {"leaving", "down"} /\ ~Waiting(c)
  /\ \/ Spend("start") /\ startQ' = Append(startQ, c) /\ UNCHANGED stopQ
     \/ Spend("stop") /\ stopQ' = Append(stopQ, c) /\ UNCHANGED startQ
  /\ UNCHANGED <<disk, status, loop, session, handlers, shutdown>>

(* set_paused *)
SetPaused(paused) ==
  /\ Alive /\ status.active
  /\ status' = [status EXCEPT !.paused = paused]
  /\ UNCHANGED <<disk, queues, loop, session, handlers, shutdown, spent>>

(* SIGTERM, SIGINT or the socket's `stop`. *)
RequestShutdown ==
  /\ Alive /\ ~shutdown
  /\ Spend("shutdown")
  /\ shutdown' = TRUE
  /\ UNCHANGED <<disk, status, queues, loop, session, handlers>>

-----------------------------------------------------------------------------
(* The main loop while no session runs.                                    *)

RefuseIdleStop ==
  /\ main = "idle" /\ stopQ # <<>>
  /\ stopQ' = Tail(stopQ)
  /\ UNCHANGED <<disk, status, startQ, loop, session, handlers, shutdown, spent>>

RefuseIdleStart ==
  /\ main = "idle" /\ startQ # <<>> /\ status.active
  /\ startQ' = Tail(startQ)
  /\ UNCHANGED <<disk, status, stopQ, loop, session, handlers, shutdown, spent>>

(* A start is accepted: run_session makes the session's directories. *)
AcceptStart(s) ==
  /\ main = "idle" /\ startQ # <<>> /\ ~status.active
  /\ s \notin used
  /\ startQ' = Tail(startQ) /\ owner' = Head(startQ)
  /\ main' = "opening" /\ current' = s /\ cause' = "own"
  /\ used' = used \cup {s} /\ dirs' = dirs \cup {s}
  /\ UNCHANGED <<row, tmp, deleted, status, stopQ, stopper, verdict, session,
                 handlers, shutdown, spent>>

Leave ==
  /\ main = "idle" /\ shutdown
  /\ main' = "leaving"
  /\ UNCHANGED <<disk, status, queues, current, owner, cause, stopper, verdict,
                 session, handlers, shutdown, spent>>

-----------------------------------------------------------------------------
(* The beginning of run_session.                                           *)

InsertRow ==
  /\ main = "opening"
  /\ row' = [row EXCEPT ![current] = "running"]
  /\ main' = "opened"
  /\ UNCHANGED <<dirs, tmp, used, deleted, status, queues, current, owner, cause,
                 stopper, verdict, session, handlers, shutdown, spent>>

(* A step of the opening fails (the directory, the row, the snapshot of    *)
(* the voxtype configuration, the run, session.json) and `?` ends it: the  *)
(* row, if it was inserted, stays.                                         *)
StartFails ==
  /\ main \in {"opening", "opened"}
  /\ Spend("startFault")
  /\ main' = IF cause = "shutdown" THEN "leaving" ELSE "idle"
  /\ current' = None /\ owner' = None
  /\ UNCHANGED <<disk, status, queues, cause, stopper, verdict, session,
                 handlers, shutdown>>

(* Mutant: the status keeps the id of the last session. *)
OpenSessionUnnamed ==
  /\ main = "opened"
  /\ status' = [status EXCEPT !.active = TRUE, !.paused = FALSE, !.reason = FALSE]
  /\ \E on \in SUBSET Sources : capturing' = [capturing EXCEPT ![current] = on]
  /\ watch' = [watch EXCEPT ![current] = "on"]
  /\ main' = "serving"
  /\ UNCHANGED <<disk, queues, current, owner, cause, stopper, verdict,
                 cancelled, handlers, shutdown, spent>>

(* The status is set and the tasks of the enabled sources and the disk     *)
(* watcher are spawned.                                                    *)
OpenSession ==
  /\ main = "opened"
  /\ status' = [active |-> TRUE, paused |-> FALSE, session |-> current, reason |-> FALSE]
  /\ \E on \in SUBSET Sources : capturing' = [capturing EXCEPT ![current] = on]
  /\ watch' = [watch EXCEPT ![current] = "on"]
  /\ main' = "serving"
  /\ UNCHANGED <<disk, queues, current, owner, cause, stopper, verdict,
                 cancelled, handlers, shutdown, spent>>

(* The started branch of the first select. *)
ReplyStarted ==
  /\ main = "serving" /\ owner # None
  /\ owner' = None
  /\ UNCHANGED <<disk, status, queues, main, current, cause, stopper, verdict,
                 session, handlers, shutdown, spent>>

(* Its shutdown branch, before or after the session was first polled. *)
ShutdownWhileStarting ==
  /\ main \in {"opening", "serving"} /\ owner # None /\ shutdown
  /\ owner' = None /\ cause' = "shutdown"
  /\ cancelled' = cancelled \cup {current}
  /\ UNCHANGED <<disk, status, queues, main, current, stopper, verdict, capturing,
                 watch, handlers, shutdown, spent>>

-----------------------------------------------------------------------------
(* The inner loop: a session runs and its start has been answered.         *)

Serving == main = "serving" /\ owner = None /\ cause = "own"

(* Mutant: the inner loop leaves starts in the channel. *)
RefuseStartNever == FALSE /\ UNCHANGED vars

RefuseStart ==
  /\ Serving /\ startQ # <<>>
  /\ startQ' = Tail(startQ)
  /\ UNCHANGED <<disk, status, stopQ, loop, session, handlers, shutdown, spent>>

TakeStop ==
  /\ Serving /\ stopQ # <<>>
  /\ stopQ' = Tail(stopQ) /\ stopper' = Head(stopQ)
  /\ cause' = "stop" /\ cancelled' = cancelled \cup {current}
  /\ UNCHANGED <<disk, status, startQ, main, current, owner, verdict, capturing,
                 watch, handlers, shutdown, spent>>

TakeShutdown ==
  /\ Serving /\ shutdown
  /\ cause' = "shutdown" /\ cancelled' = cancelled \cup {current}
  /\ UNCHANGED <<disk, status, queues, main, current, owner, stopper, verdict,
                 capturing, watch, handlers, shutdown, spent>>

-----------------------------------------------------------------------------
(* The source tasks.                                                       *)

(* Audio is written; write_flac_atomic makes missing directories. *)
WriteAudio(s) ==
  /\ Alive /\ capturing[s] # {} /\ s \notin dirs
  /\ dirs' = dirs \cup {s}
  /\ UNCHANGED <<row, tmp, used, deleted, status, queues, loop, session, handlers,
                 shutdown, spent>>

(* Mutant: a paused source does not look at its token. *)
EndSourceUnpaused(s, x) ==
  /\ Alive /\ x \in capturing[s] /\ Stopped(s) /\ ~status.paused
  /\ \/ dirs' = dirs \cup {s}
     \/ UNCHANGED dirs
  /\ capturing' = [capturing EXCEPT ![s] = @ \ {x}]
  /\ UNCHANGED <<row, tmp, used, deleted, status, queues, loop, cancelled, watch,
                 handlers, shutdown, spent>>

(* The token is seen, the buffered audio flushed, the task ends. *)
EndSource(s, x) ==
  /\ Alive /\ x \in capturing[s] /\ Stopped(s)
  /\ \/ dirs' = dirs \cup {s}
     \/ UNCHANGED dirs
  /\ capturing' = [capturing EXCEPT ![s] = @ \ {x}]
  /\ UNCHANGED <<row, tmp, used, deleted, status, queues, loop, cancelled, watch,
                 handlers, shutdown, spent>>

-----------------------------------------------------------------------------
(* watch_disk.  Its body runs without an await, so an abort does not stop  *)
(* it once free space has been found to be low.                            *)

SeeLowSpace(s) ==
  /\ Alive /\ watch[s] = "on" /\ Spend("disk")
  /\ watch' = [watch EXCEPT ![s] = "low"]
  /\ UNCHANGED <<disk, status, queues, loop, cancelled, capturing, handlers,
                 shutdown>>

FlagStop(s) ==
  /\ Alive /\ watch[s] = "low"
  /\ status' = [status EXCEPT !.reason = TRUE, !.active = FALSE]
  /\ watch' = [watch EXCEPT ![s] = "flagged"]
  /\ UNCHANGED <<disk, queues, loop, cancelled, capturing, handlers, shutdown,
                 spent>>

(* set_session_state is unconditional; its error, and Db::open's, ignored. *)
MarkInterrupted(s) ==
  /\ Alive /\ watch[s] = "flagged"
  /\ \/ row' = IF row[s] = "none" THEN row ELSE [row EXCEPT ![s] = "interrupted"]
     \/ UNCHANGED row
  /\ watch' = [watch EXCEPT ![s] = "marked"]
  /\ UNCHANGED <<dirs, tmp, used, deleted, status, queues, loop, cancelled,
                 capturing, handlers, shutdown, spent>>

(* write_session_json: session.json.tmp is written, then renamed. *)
SaveTmp(s) == dirs' = dirs \cup {s} /\ tmp' = tmp \cup {s}
MoveTmp(s) == tmp' = tmp \ {s} /\ UNCHANGED dirs

WatchSave(s) ==
  /\ Alive /\ watch[s] = "marked"
  /\ IF row[s] = "none" THEN UNCHANGED <<dirs, tmp>> ELSE SaveTmp(s)
  /\ watch' = [watch EXCEPT ![s] = "saved"]
  /\ UNCHANGED <<row, used, deleted, status, queues, loop, cancelled, capturing,
                 handlers, shutdown, spent>>

(* Mutant: the recording is flagged and never told to stop. *)
WatchStopFlagOnly(s) ==
  /\ Alive /\ watch[s] = "saved"
  /\ MoveTmp(s)
  /\ watch' = [watch EXCEPT ![s] = "done"]
  /\ UNCHANGED <<row, used, deleted, status, queues, loop, cancelled, capturing,
                 handlers, shutdown, spent>>

WatchStop(s) ==
  /\ Alive /\ watch[s] = "saved"
  /\ MoveTmp(s)
  /\ cancelled' = cancelled \cup {s}
  /\ watch' = [watch EXCEPT ![s] = "done"]
  /\ UNCHANGED <<row, used, deleted, status, queues, loop, capturing, handlers,
                 shutdown, spent>>

-----------------------------------------------------------------------------
(* The end of run_session.                                                 *)

(* Mutant: only one of the source tasks is awaited. *)
JoinSourcesOne ==
  /\ main = "serving" /\ Stopped(current)
  /\ Cardinality(capturing[current]) <= 1
  /\ watch' = [watch EXCEPT ![current] = IF @ = "on" THEN "off" ELSE @]
  /\ main' = "reading"
  /\ UNCHANGED <<disk, status, queues, current, owner, cause, stopper, verdict,
                 cancelled, capturing, handlers, shutdown, spent>>

(* Both source tasks have ended; the watcher is aborted. *)
JoinSources ==
  /\ main = "serving" /\ Stopped(current)
  /\ capturing[current] = {}
  /\ watch' = [watch EXCEPT ![current] = IF @ = "on" THEN "off" ELSE @]
  /\ main' = "reading"
  /\ UNCHANGED <<disk, status, queues, current, owner, cause, stopper, verdict,
                 cancelled, capturing, handlers, shutdown, spent>>

(* Mutant: the early return of finalize_session is inverted. *)
ReadRowInverted ==
  /\ main = "reading"
  /\ main' = CASE row[current] = "none"    -> "clearing"
               [] row[current] = "running" -> "saving"
               [] OTHER                    -> "deciding"
  /\ UNCHANGED <<disk, status, queues, current, owner, cause, stopper, verdict,
                 session, handlers, shutdown, spent>>

(* finalize_session: a row that is no longer 'running' is only saved. *)
ReadRow ==
  /\ main = "reading"
  /\ main' = CASE row[current] = "none"    -> "clearing"
               [] row[current] = "running" -> "deciding"
               [] OTHER                    -> "saving"
  /\ UNCHANGED <<disk, status, queues, current, owner, cause, stopper, verdict,
                 session, handlers, shutdown, spent>>

Decide ==
  /\ main = "deciding"
  /\ verdict' = IF status.reason THEN "interrupted" ELSE "completed"
  /\ main' = "marking"
  /\ UNCHANGED <<disk, status, queues, current, owner, cause, stopper, session,
                 handlers, shutdown, spent>>

MarkEnded ==
  /\ main = "marking"
  /\ row' = IF row[current] = "none" THEN row ELSE [row EXCEPT ![current] = verdict]
  /\ main' = "saving"
  /\ UNCHANGED <<dirs, tmp, used, deleted, status, queues, current, owner, cause,
                 stopper, verdict, session, handlers, shutdown, spent>>

SaveSession ==
  /\ main = "saving"
  /\ SaveTmp(current)
  /\ main' = "renaming"
  /\ UNCHANGED <<row, used, deleted, status, queues, current, owner, cause, stopper,
                 verdict, session, handlers, shutdown, spent>>

(* What cmd_run does when run_session returns, with or without an error:   *)
(* the client that waits is answered.                                      *)
Return ==
  /\ main' = IF cause = "shutdown" THEN "leaving" ELSE "idle"
  /\ current' = None /\ owner' = None /\ stopper' = None
  /\ UNCHANGED <<cause, verdict>>

(* The rename works if the temporary file is still there; otherwise `?`    *)
(* leaves run_session before the status is reset.                          *)
RenameSaved ==
  /\ main = "renaming"
  /\ IF current \in tmp
     THEN /\ MoveTmp(current)
          /\ main' = "clearing"
          /\ UNCHANGED <<current, owner, cause, stopper, verdict>>
     ELSE Return /\ UNCHANGED <<dirs, tmp>>
  /\ UNCHANGED <<row, used, deleted, status, queues, session, handlers, shutdown,
                 spent>>

(* A database or file error in finalize_session. *)
FinalizeFails ==
  /\ main \in {"reading", "deciding", "marking", "saving"}
  /\ Spend("saveFault")
  /\ Return
  /\ UNCHANGED <<disk, status, queues, session, handlers, shutdown>>

(* Mutant: the pause flag survives the session. *)
ClearStatusPaused ==
  /\ main = "clearing"
  /\ status' = [status EXCEPT !.active = FALSE, !.session = None]
  /\ Return
  /\ UNCHANGED <<disk, queues, session, handlers, shutdown, spent>>

ClearStatus ==
  /\ main = "clearing"
  /\ status' = [status EXCEPT !.active = FALSE, !.paused = FALSE, !.session = None]
  /\ Return
  /\ UNCHANGED <<disk, queues, session, handlers, shutdown, spent>>

-----------------------------------------------------------------------------
(* rename_session: the title is set, the row read and session.json saved.  *)

RenameBegin(s) ==
  /\ main \notin {"leaving", "down"} /\ renamer = Resting
  /\ row[s] # "none" /\ Spend("rename")
  /\ renamer' = [pc |-> "titled", session |-> s]
  /\ UNCHANGED <<disk, status, queues, loop, session, deleter, cleaner,
                 shutdown>>

RenameSave ==
  /\ Alive /\ renamer.pc = "titled"
  /\ SaveTmp(renamer.session)
  /\ renamer' = [renamer EXCEPT !.pc = "saved"]
  /\ UNCHANGED <<row, used, deleted, status, queues, loop, session, deleter,
                 cleaner, shutdown, spent>>

RenameEnd ==
  /\ Alive /\ renamer.pc = "saved"
  /\ MoveTmp(renamer.session)
  /\ renamer' = Resting
  /\ UNCHANGED <<row, used, deleted, status, queues, loop, session, deleter,
                 cleaner, shutdown, spent>>

-----------------------------------------------------------------------------
(* delete_session: the status, then the row are looked at, the directory   *)
(* is removed, then the rows.  The model assumes that nobody asks for the  *)
(* deletion of a session whose start has not been answered yet.            *)

(* Mutant: the status is not asked, only the row. *)
DeleteBeginAny(s) ==
  /\ main \notin {"leaving", "down"} /\ deleter = Resting
  /\ s \in used /\ (s = current => main \notin {"opening", "opened"})
  /\ Spend("delete")
  /\ deleter' = [pc |-> "allowed", session |-> s]
  /\ UNCHANGED <<disk, status, queues, loop, session, renamer, cleaner,
                 shutdown>>

DeleteBegin(s) ==
  /\ main \notin {"leaving", "down"} /\ deleter = Resting
  /\ s \in used /\ (s = current => main \notin {"opening", "opened"})
  /\ Spend("delete")
  /\ deleter' = IF status.active /\ status.session = s THEN Resting
                ELSE [pc |-> "allowed", session |-> s]
  /\ UNCHANGED <<disk, status, queues, loop, session, renamer, cleaner,
                 shutdown>>

DeleteCheckRow ==
  /\ Alive /\ deleter.pc = "allowed"
  /\ deleter' = IF row[deleter.session] \in {"none", "running"} THEN Resting
                ELSE [deleter EXCEPT !.pc = "removing"]
  /\ UNCHANGED <<disk, status, queues, loop, session, renamer, cleaner,
                 shutdown, spent>>

DeleteDirectory ==
  /\ Alive /\ deleter.pc = "removing"
  /\ dirs' = dirs \ {deleter.session} /\ tmp' = tmp \ {deleter.session}
  /\ deleter' = [deleter EXCEPT !.pc = "removed"]
  /\ UNCHANGED <<row, used, deleted, status, queues, loop, session, renamer,
                 cleaner, shutdown, spent>>

DeleteRows ==
  /\ Alive /\ deleter.pc = "removed"
  /\ row' = [row EXCEPT ![deleter.session] = "none"]
  /\ deleted' = deleted \cup {deleter.session}
  /\ deleter' = Resting
  /\ UNCHANGED <<dirs, tmp, used, status, queues, loop, session, renamer, cleaner,
                 shutdown, spent>>

-----------------------------------------------------------------------------
(* cleanup_apply: the completed meetings that are fully transcribed are    *)
(* listed, then each is removed, its directory first.  The status is not   *)
(* asked, so that one of them may be in finalize_session still.            *)

CleanupList ==
  /\ main \notin {"leaving", "down"} /\ cleaner = Cleaned
  /\ Spend("cleanup")
  /\ \E eligible \in SUBSET {s \in Sessions : row[s] = "completed"} :
       cleaner' = [Cleaned EXCEPT !.todo = eligible]
  /\ UNCHANGED <<disk, status, queues, loop, session, renamer, deleter, shutdown>>

CleanupDirectory(s) ==
  /\ Alive /\ cleaner.session = None /\ s \in cleaner.todo
  /\ dirs' = dirs \ {s} /\ tmp' = tmp \ {s}
  /\ cleaner' = [todo |-> cleaner.todo \ {s}, session |-> s, early |-> s = current]
  /\ UNCHANGED <<row, used, deleted, status, queues, loop, session, renamer, deleter,
                 shutdown, spent>>

(* What the end of a meeting may write once more is not taken as deleted. *)
CleanupRows ==
  /\ Alive /\ cleaner.session # None
  /\ row' = [row EXCEPT ![cleaner.session] = "none"]
  /\ deleted' = IF cleaner.early THEN deleted ELSE deleted \cup {cleaner.session}
  /\ cleaner' = [cleaner EXCEPT !.session = None, !.early = FALSE]
  /\ UNCHANGED <<dirs, tmp, used, status, queues, loop, session, renamer, deleter,
                 shutdown, spent>>

-----------------------------------------------------------------------------
(* The end of the process and its next start.                              *)

ProcessEnds ==
  /\ main' = "down" /\ current' = None /\ owner' = None /\ stopper' = None
  /\ startQ' = <<>> /\ stopQ' = <<>>
  /\ cancelled' = {} /\ capturing' = [s \in Sessions |-> {}]
  /\ watch' = [s \in Sessions |-> "off"]
  /\ renamer' = Resting /\ deleter' = Resting /\ cleaner' = Cleaned
  /\ status' = IdleStatus /\ shutdown' = FALSE
  /\ UNCHANGED <<disk, cause, verdict>>

Exit == main = "leaving" /\ ProcessEnds /\ UNCHANGED spent

Crash == Alive /\ Spend("crash") /\ ProcessEnds

(* Mutant: leftover running sessions are left alone. *)
StartupForgets ==
  /\ main = "down"
  /\ main' = "idle"
  /\ row' = [s \in Sessions |->
               IF row[s] = "none" /\ s \in dirs THEN "interrupted" ELSE row[s]]
  /\ tmp' = {s \in tmp : row[s] # "none"}
  /\ UNCHANGED <<dirs, used, deleted, status, queues, current, owner, cause,
                 stopper, verdict, session, handlers, shutdown, spent>>

(* recover_on_startup interrupts leftover sessions and gives a row to      *)
(* every session directory without one, whose session.json it writes.      *)
Startup ==
  /\ main = "down"
  /\ main' = "idle"
  /\ row' = [s \in Sessions |->
               IF row[s] = "running" \/ (row[s] = "none" /\ s \in dirs)
               THEN "interrupted" ELSE row[s]]
  /\ tmp' = {s \in tmp : row[s] # "none"}
  /\ UNCHANGED <<dirs, used, deleted, status, queues, current, owner, cause,
                 stopper, verdict, session, handlers, shutdown, spent>>

-----------------------------------------------------------------------------
Dispatch == RefuseIdleStop \/ RefuseIdleStart \/ Leave
            \/ \E s \in Sessions : AcceptStart(s)

Begin == InsertRow \/ StartFails \/ OpenSession \/ ReplyStarted
         \/ ShutdownWhileStarting

Serve == RefuseStart \/ TakeStop \/ TakeShutdown

Finish == JoinSources \/ ReadRow \/ Decide \/ MarkEnded \/ SaveSession
          \/ RenameSaved \/ FinalizeFails \/ ClearStatus

Watch(s) == SeeLowSpace(s) \/ FlagStop(s) \/ MarkInterrupted(s) \/ WatchSave(s)
            \/ WatchStop(s)

Rename == RenameSave \/ RenameEnd \/ \E s \in Sessions : RenameBegin(s)

Delete == DeleteCheckRow \/ DeleteDirectory \/ DeleteRows
          \/ \E s \in Sessions : DeleteBegin(s)

Cleanup == CleanupList \/ CleanupRows \/ \E s \in Sessions : CleanupDirectory(s)

Next ==
  \/ \E c \in Clients : Request(c)
  \/ \E b \in BOOLEAN : SetPaused(b)
  \/ RequestShutdown
  \/ Dispatch \/ Begin \/ Serve \/ Finish
  \/ \E s \in Sessions : WriteAudio(s)
  \/ \E s \in Sessions, x \in Sources : EndSource(s, x)
  \/ \E s \in Sessions : Watch(s)
  \/ Rename \/ Delete \/ Cleanup
  \/ Exit \/ Crash \/ Startup

Spec == Init /\ [][Next]_vars

(* The runtime polls every ready task, tokio's select picks every branch   *)
(* that stays ready sooner or later, and capture_from returns when its     *)
(* token is cancelled.                                                     *)
Fairness ==
  /\ WF_vars(RefuseIdleStop) /\ WF_vars(Leave) /\ WF_vars(TakeStop)
  /\ WF_vars(RefuseIdleStart \/ \E s \in Sessions : AcceptStart(s))
  /\ WF_vars(RefuseStart) /\ WF_vars(TakeShutdown)
  /\ WF_vars(Begin) /\ WF_vars(Finish)
  /\ \A s \in Sessions, x \in Sources : WF_vars(EndSource(s, x))
  /\ \A s \in Sessions :
       WF_vars(FlagStop(s) \/ MarkInterrupted(s) \/ WatchSave(s) \/ WatchStop(s))
  /\ WF_vars(Exit)

FairSpec == Spec /\ Fairness

-----------------------------------------------------------------------------
(* Types of the variables. *)
TypeOK ==
  /\ row \in [Sessions -> States]
  /\ dirs \subseteq Sessions /\ tmp \subseteq Sessions
  /\ used \subseteq Sessions /\ deleted \subseteq Sessions
  /\ status \in Statuses
  /\ startQ \in Seq(Clients) /\ stopQ \in Seq(Clients)
  /\ main \in Places /\ current \in Sessions \cup {None}
  /\ owner \in Clients \cup {None} /\ stopper \in Clients \cup {None}
  /\ cause \in {"own", "stop", "shutdown"}
  /\ verdict \in {"completed", "interrupted"}
  /\ cancelled \subseteq Sessions
  /\ capturing \in [Sessions -> SUBSET Sources]
  /\ watch \in [Sessions -> Watching]
  /\ renamer \in Renames /\ deleter \in Deletes /\ cleaner \in Cleanups
  /\ shutdown \in BOOLEAN
  /\ spent \in [Kinds -> Nat]

(* Two meetings are never recorded at the same time, and what is recorded  *)
(* is the session the main loop runs: its end waits for both source tasks. *)
OneCapture ==
  \A s \in Sessions : capturing[s] # {} => s = current /\ main = "serving"

(* Unless the disk ran low, the status tells the truth about capture: what *)
(* is captured is reported active under its own id, not yet paused or      *)
(* stopped by a flag of an earlier session, and can be paused and is       *)
(* protected from deletion.                                                *)
StatusMatchesCapture ==
  spent["disk"] = 0 =>
    \A s \in Sessions : capturing[s] # {} =>
      status.active /\ status.session = s /\ ~status.reason /\ row[s] = "running"

(* A 'running' row is the session the main loop runs, unless opening or    *)
(* finalizing a session failed: the panel never shows a dead recording.    *)
RunningIsServed ==
  Alive /\ spent["startFault"] = 0 /\ spent["saveFault"] = 0 =>
    \A s \in Sessions : row[s] = "running" => s = current

(* Between meetings the daemon can start the next one, unpaused: the flags *)
(* are reset on every way out that no error, renaming or cleanup disturbs. *)
IdleIsReady ==
  main = "idle" /\ (\A k \in {"saveFault", "rename", "cleanup"} : spent[k] = 0) =>
    /\ ~status.active
    /\ spent["disk"] = 0 => status.session = None /\ ~status.paused

(* What the status and the rows say of the meeting agrees with what is     *)
(* captured, while it runs and between meetings: the two halves are written *)
(* by different tasks, at every way into and out of run_session.           *)
StatusTruthful == TypeOK /\ StatusMatchesCapture /\ RunningIsServed /\ IdleIsReady

(* A meeting that was deleted or cleaned up does not come back, neither    *)
(* now nor at a restart, unless the disk watcher, a rename or its own end  *)
(* was still at work on it.                                                *)
DeletedForGood ==
  spent["disk"] = 0 /\ spent["rename"] = 0 =>
    \A s \in deleted : row[s] = "none" /\ s \notin dirs

(* Whoever asked for the stop is answered when the meeting has ended: both *)
(* sources have flushed and, if finalizing worked, the row says so.        *)
StopAnsweredAfterEnd ==
  [][ stopper # None /\ stopper' = None /\ Alive' =>
        /\ capturing[current] = {}
        /\ spent'["saveFault"] = 0 => row[current] # "running" ]_vars

(* Every start and stop request is answered, or its connection is closed   *)
(* with the process.                                                       *)
EveryRequestAnswered == \A c \in Clients : Waiting(c) ~> ~Waiting(c)

(* Low disk space ends the recording it was found in. *)
LowSpaceEndsCapture ==
  \A s \in Sessions : watch[s] = "low" ~> capturing[s] = {}

(* A shutdown ends the process, whatever it is doing. *)
ShutdownCompletes == shutdown ~> main = "down"

(* "cleaned up completed session" (cleanup.rs:173): between meetings none  *)
(* is left of which there is a directory and no row, unless it was started *)
(* and failed.                                                             *)
CleanedUpWhole ==
  main = "idle" /\ spent["startFault"] = 0 =>
    \A s \in dirs : row[s] # "none"

(* "a recording is already active" is said only while one is. *)
RefusedOnlyWhileRecording ==
  main = "idle" => ~status.active
=============================================================================
