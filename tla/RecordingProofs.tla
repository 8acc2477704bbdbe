--------------------------- MODULE RecordingProofs ---------------------------
(***************************************************************************)
(* Theorems about Recording for every set of sessions, clients and sources *)
(* and any number of requests, crashes and failing calls.                  *)
(*                                                                         *)
(* None of the invariants the runs check is inductive: each needs to know  *)
(* what the tasks that outlive a meeting (its watcher, a renaming, a       *)
(* deletion, a cleanup) may still hold of it.  IInv says that, one named   *)
(* part per thing to know.                                                 *)
(***************************************************************************)
EXTENDS Recording, TLAPS

USE NoneAssumption, SourceAssumption, BudgetAssumption

(* The places from the first poll of both selects to the reset of the      *)
(* status, and those of them after the row was ended.                      *)
Served == {"serving", "reading", "deciding", "marking", "saving", "renaming",
           "clearing"}
After  == {"saving", "renaming", "clearing"}

Never(kind) == spent[kind] = 0

(* A session is run exactly inside run_session. *)
Placed == main \in InLoop <=> current # None

(* Whatever exists or is held of a session, its id was given out; so an id *)
(* that is given out is new to everybody.                                  *)
KnownIds ==
  /\ dirs \cup deleted \cup cleaner.todo \subseteq used
  /\ \A s \in Sessions : row[s] # "none" => s \in used
  /\ {current, renamer.session, deleter.session, cleaner.session}
       \subseteq used \cup {None}

(* The row is ended before session.json is saved, and a cleanup takes only *)
(* meetings whose row was completed.                                       *)
RowEnded ==
  /\ main \in After => row[current] # "running"
  /\ \A s \in Sessions :
       row[s] = "completed" \/ s \in cleaner.todo \/ s = cleaner.session =>
         (s = current => main \in After)

(* From the first poll on the status names the session that is served. *)
Named == main \in Served => status.session = current

(* Until free space is low nobody but run_session writes the flags, and no *)
(* row of a recording is touched.                                          *)
Quiet ==
  Never("disk") =>
    /\ ~status.reason
    /\ \A s \in Sessions : watch[s] \in {"off", "on"}
    /\ main \in Served => status.active
    /\ main \in {"opened", "serving"} => row[current] = "running"

(* The watcher and a deletion get at the session that is served only after *)
(* its status was cleared.                                                 *)
Flagged ==
  main \in Served /\ watch[current] \in {"flagged", "marked", "saved", "done"} =>
    ~status.active

Barred ==
  current # None /\ deleter.session = current => main \in Served /\ ~status.active

(* A task that was never asked for does not run. *)
Unasked ==
  /\ Never("rename") => renamer = Resting
  /\ Never("cleanup") => cleaner = Cleaned
  /\ deleter.pc = "none" => deleter.session = None

(* Only a rename, a cleanup or a deletion after low space takes away the   *)
(* session.json.tmp that finalize_session has written.                     *)
TmpKept ==
  main = "renaming" /\ Never("rename") /\ Never("cleanup") =>
    current \in tmp \/ ~status.active

(* While no session is served the status is that of an idle daemon. *)
Ready ==
  main \notin Served /\ Never("saveFault") /\ Never("rename") /\ Never("cleanup") =>
    /\ ~status.active
    /\ Never("disk") => status.session = None /\ ~status.paused

(* What was removed by a cleanup that did not overlap with the end of its  *)
(* meeting, or by a deletion, is not the session that runs, and nothing of *)
(* it is left.                                                             *)
Gone ==
  /\ cleaner.session # None /\ ~cleaner.early => cleaner.session # current
  /\ Never("disk") => current \notin deleted
  /\ Never("disk") /\ Never("rename") =>
       /\ cleaner.session # None /\ ~cleaner.early => cleaner.session \notin dirs
       /\ deleter.pc = "removed" => deleter.session \notin dirs
       /\ \A s \in deleted : row[s] = "none" /\ s \notin dirs

Structure == TypeOK /\ Placed /\ KnownIds /\ OneCapture
Holders   == RowEnded /\ Named /\ Quiet /\ Flagged /\ Barred /\ Unasked
IInv      == Structure /\ Holders /\ TmpKept /\ Ready /\ RunningIsServed /\ Gone

-----------------------------------------------------------------------------
(* What an event spends stays a natural number, and only grows. *)
LEMMA SpendOne ==
  ASSUME spent \in [Kinds -> Nat], NEW kind \in Kinds, Spend(kind)
  PROVE  /\ spent' \in [Kinds -> Nat] /\ spent'[kind] # 0
         /\ \A k \in Kinds : spent'[k] = 0 => spent[k] = 0
BY DEF Spend

(* What is put into a channel and taken out of it are clients. *)
LEMMA PutLast ==
  ASSUME NEW q \in Seq(Clients), NEW c \in Clients PROVE Append(q, c) \in Seq(Clients)
OBVIOUS

LEMMA TakeHead ==
  ASSUME NEW q \in Seq(Clients), q # <<>>
  PROVE  Head(q) \in Clients /\ Tail(q) \in Seq(Clients)
OBVIOUS

(* The tasks that rename and delete name a session while they work. *)
LEMMA HolderTypes ==
  ASSUME renamer \in Renames, deleter \in Deletes
  PROVE  /\ renamer.pc # "none" => renamer.session \in Sessions
         /\ deleter.pc # "none" => deleter.session \in Sessions
BY DEF Renames, Deletes, Resting

LEMMA RenameType == ASSUME renamer \in Renames, Rename PROVE renamer' \in Renames
<1>1. ASSUME NEW s \in Sessions, RenameBegin(s) PROVE renamer' \in Renames
  BY <1>1 DEF RenameBegin, Renames
<1>2. CASE RenameSave \/ RenameEnd
  BY <1>2 DEF RenameSave, RenameEnd, Renames, Resting
<1> QED  BY <1>1, <1>2 DEF Rename

LEMMA DeleteType == ASSUME deleter \in Deletes, Delete PROVE deleter' \in Deletes
<1>1. ASSUME NEW s \in Sessions, DeleteBegin(s) PROVE deleter' \in Deletes
  BY <1>1 DEF DeleteBegin, Deletes
<1>2. CASE DeleteCheckRow \/ DeleteDirectory \/ DeleteRows
  BY <1>2 DEF DeleteCheckRow, DeleteDirectory, DeleteRows, Deletes, Resting
<1> QED  BY <1>1, <1>2 DEF Delete

(* The end of the process keeps the types. *)
LEMMA EndType ==
  ASSUME TypeOK, ProcessEnds, spent' \in [Kinds -> Nat] PROVE TypeOK'
<1> USE DEF TypeOK, ProcessEnds
<1>1. status' \in Statuses  BY DEF IdleStatus, Statuses
<1>2. renamer' \in Renames /\ deleter' \in Deletes
  BY DEF Renames, Deletes
<1>3. cleaner' \in Cleanups  BY DEF Cleaned, Cleanups
<1>4. capturing' \in [Sessions -> SUBSET Sources] /\ watch' \in [Sessions -> Watching]
  BY DEF Watching
<1>5. main' \in Places /\ UNCHANGED <<row, dirs, tmp, used, deleted, cause, verdict>>
  BY DEF Places, disk
<1>6. startQ' \in Seq(Clients) /\ stopQ' \in Seq(Clients)  OBVIOUS
<1>7. current' = None /\ owner' = None /\ stopper' = None /\ cancelled' = {}
      /\ shutdown' = FALSE
  OBVIOUS
<1> QED  BY ONLY <1>1, <1>2, <1>3, <1>4, <1>5, <1>6, <1>7, TypeOK,
                 spent' \in [Kinds -> Nat] DEF TypeOK

(* Every step keeps the types. *)
LEMMA TypeStep == TypeOK /\ Placed /\ [Next]_vars => TypeOK'
<1> SUFFICES ASSUME TypeOK, Placed, [Next]_vars PROVE TypeOK'
  OBVIOUS
<1> USE DEF TypeOK, Placed, Places, InLoop, disk, queues, loop, session, handlers
<1>1. ASSUME NEW c \in Clients, Request(c) PROVE TypeOK'
  <2>1. startQ' \in Seq(Clients) /\ stopQ' \in Seq(Clients)
    <3>1. Append(startQ, c) \in Seq(Clients) /\ Append(stopQ, c) \in Seq(Clients)
      BY PutLast
    <3> QED  BY <1>1, <3>1 DEF Request
  <2>2. spent' \in [Kinds -> Nat]  BY <1>1, SpendOne DEF Request, Kinds
  <2> QED  BY <1>1, <2>1, <2>2 DEF Request
<1>2. ASSUME NEW b \in BOOLEAN, SetPaused(b) PROVE TypeOK'
  <2>1. status' \in Statuses  BY <1>2 DEF SetPaused, Statuses
  <2> QED  BY <1>2, <2>1 DEF SetPaused
<1>3. CASE RequestShutdown
  BY <1>3, SpendOne DEF RequestShutdown, Kinds
<1>4. CASE Dispatch
  <2>1. CASE RefuseIdleStop \/ RefuseIdleStart
    <3>1. startQ' \in Seq(Clients) /\ stopQ' \in Seq(Clients)
      <4>1. CASE RefuseIdleStop   BY <2>1, <4>1, TakeHead DEF RefuseIdleStop
      <4>2. CASE RefuseIdleStart  BY <2>1, <4>2, TakeHead DEF RefuseIdleStart
      <4> QED  BY <2>1, <4>1, <4>2
    <3> QED  BY <2>1, <3>1 DEF RefuseIdleStop, RefuseIdleStart
  <2>2. CASE Leave
    BY <2>2 DEF Leave
  <2>3. ASSUME NEW s \in Sessions, AcceptStart(s) PROVE TypeOK'
    <3>1. startQ' \in Seq(Clients) /\ owner' \in Clients
      BY <2>3, TakeHead DEF AcceptStart
    <3> QED  BY <2>3, <3>1 DEF AcceptStart
  <2> QED  BY <1>4, <2>1, <2>2, <2>3 DEF Dispatch
<1>5. CASE Begin
  <2>1. CASE InsertRow
    BY <2>1 DEF InsertRow, States
  <2>2. CASE StartFails
    BY <2>2, SpendOne DEF StartFails, Kinds
  <2>3. CASE OpenSession
    <3>1. status' \in Statuses  BY <2>3 DEF OpenSession, Statuses
    <3>2. capturing' \in [Sessions -> SUBSET Sources]
          /\ watch' \in [Sessions -> Watching]
      BY <2>3 DEF OpenSession, Watching
    <3> QED  BY <2>3, <3>1, <3>2 DEF OpenSession
  <2>4. CASE ReplyStarted \/ ShutdownWhileStarting
    BY <2>4 DEF ReplyStarted, ShutdownWhileStarting
  <2> QED  BY <1>5, <2>1, <2>2, <2>3, <2>4 DEF Begin
<1>6. CASE Serve
  <2>1. CASE RefuseStart
    <3>1. startQ' \in Seq(Clients)  BY <2>1, TakeHead DEF RefuseStart
    <3> QED  BY <2>1, <3>1 DEF RefuseStart
  <2>2. CASE TakeStop
    <3>1. stopQ' \in Seq(Clients) /\ stopper' \in Clients
      BY <2>2, TakeHead DEF TakeStop
    <3> QED  BY <2>2, <3>1 DEF TakeStop, Serving
  <2>3. CASE TakeShutdown
    BY <2>3 DEF TakeShutdown, Serving
  <2> QED  BY <1>6, <2>1, <2>2, <2>3 DEF Serve
<1>7. CASE Finish
  <2>1. CASE JoinSources
    BY <2>1 DEF JoinSources, Watching
  <2>2. CASE ReadRow \/ Decide
    BY <2>2 DEF ReadRow, Decide
  <2>3. CASE MarkEnded
    BY <2>3 DEF MarkEnded, States
  <2>4. CASE SaveSession \/ RenameSaved
    BY <2>4 DEF SaveSession, RenameSaved, SaveTmp, MoveTmp, Return
  <2>5. CASE FinalizeFails
    BY <2>5, SpendOne DEF FinalizeFails, Return, Kinds
  <2>6. CASE ClearStatus
    <3>1. status' \in Statuses  BY <2>6 DEF ClearStatus, Statuses
    <3> QED  BY <2>6, <3>1 DEF ClearStatus, Return
  <2> QED  BY <1>7, <2>1, <2>2, <2>3, <2>4, <2>5, <2>6 DEF Finish
<1>8. ASSUME NEW s \in Sessions, WriteAudio(s) PROVE TypeOK'
  BY <1>8 DEF WriteAudio
<1>9. ASSUME NEW s \in Sessions, NEW x \in Sources, EndSource(s, x) PROVE TypeOK'
  BY <1>9 DEF EndSource
<1>10. ASSUME NEW s \in Sessions, Watch(s) PROVE TypeOK'
  <2>1. CASE SeeLowSpace(s)
    BY <2>1, SpendOne DEF SeeLowSpace, Watching, Kinds
  <2>2. CASE FlagStop(s)
    <3>1. status' \in Statuses  BY <2>2 DEF FlagStop, Statuses
    <3> QED  BY <2>2, <3>1 DEF FlagStop, Watching
  <2>3. CASE MarkInterrupted(s)
    BY <2>3 DEF MarkInterrupted, Watching, States
  <2>4. CASE WatchSave(s)
    BY <2>4 DEF WatchSave, SaveTmp, Watching
  <2>5. CASE WatchStop(s)
    BY <2>5 DEF WatchStop, MoveTmp, Watching
  <2> QED  BY <1>10, <2>1, <2>2, <2>3, <2>4, <2>5 DEF Watch
<1>11. CASE Rename
  <2>1. renamer' \in Renames  BY <1>11, RenameType
  <2>2. ASSUME NEW s \in Sessions, RenameBegin(s) PROVE TypeOK'
    BY <2>1, <2>2, SpendOne DEF RenameBegin, Kinds
  <2>3. CASE RenameSave
    BY <2>1, <2>3, HolderTypes DEF RenameSave, SaveTmp
  <2>4. CASE RenameEnd
    BY <2>1, <2>4 DEF RenameEnd, MoveTmp
  <2> QED  BY <1>11, <2>2, <2>3, <2>4 DEF Rename
<1>12. CASE Delete
  <2>1. deleter' \in Deletes  BY <1>12, DeleteType
  <2>2. ASSUME NEW s \in Sessions, DeleteBegin(s) PROVE TypeOK'
    BY <2>1, <2>2, SpendOne DEF DeleteBegin, Kinds
  <2>3. CASE DeleteCheckRow \/ DeleteDirectory
    BY <2>1, <2>3 DEF DeleteCheckRow, DeleteDirectory
  <2>4. CASE DeleteRows
    BY <2>1, <2>4, HolderTypes DEF DeleteRows, States
  <2> QED  BY <1>12, <2>2, <2>3, <2>4 DEF Delete
<1>13. CASE Cleanup
  <2>1. CASE CleanupList
    <3>1. cleaner' \in Cleanups  BY <2>1 DEF CleanupList, Cleaned, Cleanups
    <3> QED  BY <2>1, <3>1, SpendOne DEF CleanupList, Kinds
  <2>2. ASSUME NEW s \in Sessions, CleanupDirectory(s) PROVE TypeOK'
    <3>1. cleaner' \in Cleanups  BY <2>2 DEF CleanupDirectory, Cleanups
    <3> QED  BY <2>2, <3>1 DEF CleanupDirectory
  <2>3. CASE CleanupRows
    <3>1. cleaner' \in Cleanups /\ cleaner.session \in Sessions
      BY <2>3 DEF CleanupRows, Cleanups
    <3> QED  BY <2>3, <3>1 DEF CleanupRows, States
  <2> QED  BY <1>13, <2>1, <2>2, <2>3 DEF Cleanup
<1>14. CASE Exit \/ Crash
  <2>1. spent' \in [Kinds -> Nat]
    BY <1>14, SpendOne DEF Exit, Crash, Kinds
  <2> QED  BY <1>14, <2>1, EndType DEF Exit, Crash
<1>15. CASE Startup
  BY <1>15 DEF Startup, States
<1>16. CASE UNCHANGED vars
  BY <1>16 DEF vars
<1> QED  BY <1>1, <1>2, <1>3, <1>4, <1>5, <1>6, <1>7, <1>8, <1>9, <1>10, <1>11,
           <1>12, <1>13, <1>14, <1>15, <1>16 DEF Next

(* A resting task names no session. *)
LEMMA RestingFields == Resting.pc = "none" /\ Resting.session = None
BY DEF Resting

(* Every step keeps what ties current to main. *)
LEMMA PlacedStep == TypeOK /\ Placed /\ [Next]_vars => Placed'
<1> SUFFICES ASSUME TypeOK, Placed, [Next]_vars PROVE Placed'
  OBVIOUS
<1> USE DEF TypeOK, Placed, InLoop, disk, queues, loop, session, handlers
<1>1. CASE (\E c \in Clients : Request(c)) \/ (\E b \in BOOLEAN : SetPaused(b))
          \/ RequestShutdown
  BY <1>1 DEF Request, SetPaused, RequestShutdown
<1>2. CASE Dispatch
  BY <1>2 DEF Dispatch, RefuseIdleStop, RefuseIdleStart, Leave, AcceptStart
<1>3. CASE Begin
  BY <1>3 DEF Begin, InsertRow, StartFails, OpenSession, ReplyStarted,
      ShutdownWhileStarting
<1>4. CASE Serve
  BY <1>4 DEF Serve, Serving, RefuseStart, TakeStop, TakeShutdown
<1>5. CASE Finish
  BY <1>5 DEF Finish, JoinSources, ReadRow, Decide, MarkEnded, SaveSession,
      RenameSaved, FinalizeFails, ClearStatus, Return, SaveTmp, MoveTmp
<1>6. CASE (\E s \in Sessions : WriteAudio(s))
          \/ \E s \in Sessions, x \in Sources : EndSource(s, x)
  BY <1>6 DEF WriteAudio, EndSource
<1>7. ASSUME NEW s \in Sessions, Watch(s) PROVE Placed'
  BY <1>7 DEF Watch, SeeLowSpace, FlagStop, MarkInterrupted, WatchSave,
      WatchStop, SaveTmp, MoveTmp
<1>8. CASE Rename
  BY <1>8 DEF Rename, RenameBegin, RenameSave, RenameEnd, SaveTmp, MoveTmp
<1>9. CASE Delete
  BY <1>9 DEF Delete, DeleteBegin, DeleteCheckRow, DeleteDirectory, DeleteRows
<1>10. CASE Cleanup
  BY <1>10 DEF Cleanup, CleanupList, CleanupDirectory, CleanupRows
<1>11. CASE Exit \/ Crash
  <2>1. ProcessEnds  BY <1>11 DEF Exit, Crash
  <2> QED  BY <2>1 DEF ProcessEnds
<1>12. CASE Startup \/ UNCHANGED vars
  BY <1>12 DEF Startup, vars
<1> QED  BY <1>1, <1>2, <1>3, <1>4, <1>5, <1>6, <1>7, <1>8, <1>9, <1>10,
    <1>11, <1>12 DEF Next

(* Every step keeps the ids known. *)
LEMMA KnownStep == TypeOK /\ Placed /\ KnownIds /\ OneCapture /\ [Next]_vars
    => KnownIds'
<1> SUFFICES ASSUME TypeOK, Placed, KnownIds, OneCapture, [Next]_vars PROVE
    KnownIds'
  OBVIOUS
<1> USE DEF TypeOK, Placed, InLoop, KnownIds, OneCapture, disk, queues, loop,
    session, handlers
<1>1. CASE (\E c \in Clients : Request(c)) \/ (\E b \in BOOLEAN : SetPaused(b))
          \/ RequestShutdown
  BY <1>1 DEF Request, SetPaused, RequestShutdown
<1>2. CASE Dispatch
  BY <1>2 DEF Dispatch, RefuseIdleStop, RefuseIdleStart, Leave, AcceptStart
<1>3. CASE Begin
  BY <1>3 DEF Begin, InsertRow, StartFails, OpenSession, ReplyStarted,
      ShutdownWhileStarting
<1>4. CASE Serve
  BY <1>4 DEF Serve, Serving, RefuseStart, TakeStop, TakeShutdown
<1>5. CASE Finish
  BY <1>5 DEF Finish, JoinSources, ReadRow, Decide, MarkEnded, SaveSession,
      RenameSaved, FinalizeFails, ClearStatus, Return, SaveTmp, MoveTmp
<1>6. CASE (\E s \in Sessions : WriteAudio(s))
          \/ \E s \in Sessions, x \in Sources : EndSource(s, x)
  <2>1. ASSUME NEW s \in Sessions, WriteAudio(s) PROVE KnownIds'
    BY <2>1 DEF WriteAudio
  <2>2. ASSUME NEW s \in Sessions, NEW x \in Sources, EndSource(s, x) PROVE
      KnownIds'
    BY <2>2 DEF EndSource
  <2> QED  BY <1>6, <2>1, <2>2
<1>7. ASSUME NEW s \in Sessions, Watch(s) PROVE KnownIds'
  BY <1>7 DEF Watch, SeeLowSpace, FlagStop, MarkInterrupted, WatchSave,
      WatchStop, SaveTmp, MoveTmp
<1>8. CASE Rename
  <2>1. ASSUME NEW s \in Sessions, RenameBegin(s) PROVE KnownIds'
    BY <2>1 DEF RenameBegin, Resting
  <2>2. CASE RenameSave
    BY <2>2, HolderTypes DEF RenameSave, SaveTmp, Resting, Renames
  <2>3. CASE RenameEnd
    BY <2>3 DEF RenameEnd, MoveTmp, Resting
  <2> QED  BY <1>8, <2>1, <2>2, <2>3 DEF Rename
<1>9. CASE Delete
  <2>1. ASSUME NEW s \in Sessions, DeleteBegin(s) PROVE KnownIds'
    BY <2>1 DEF DeleteBegin, Resting
  <2>2. CASE DeleteCheckRow
    BY <2>2, HolderTypes DEF DeleteCheckRow, Resting, Deletes
  <2>3. CASE DeleteDirectory
    BY <2>3, HolderTypes DEF DeleteDirectory, Resting, Deletes
  <2>4. CASE DeleteRows
    BY <2>4, HolderTypes DEF DeleteRows, Resting, Deletes
  <2> QED  BY <1>9, <2>1, <2>2, <2>3, <2>4 DEF Delete
<1>10. CASE Cleanup
  <2>1. CASE CleanupList
    BY <2>1 DEF CleanupList, Cleaned
  <2>2. ASSUME NEW s \in Sessions, CleanupDirectory(s) PROVE KnownIds'
    BY <2>2 DEF CleanupDirectory, Cleanups
  <2>3. CASE CleanupRows
    BY <2>3 DEF CleanupRows, Cleanups
  <2> QED  BY <1>10, <2>1, <2>2, <2>3 DEF Cleanup
<1>11. CASE Exit \/ Crash
  <2>1. ProcessEnds  BY <1>11 DEF Exit, Crash
  <2> QED  BY <2>1 DEF ProcessEnds, Resting, Cleaned
<1>12. CASE Startup \/ UNCHANGED vars
  BY <1>12 DEF Startup, vars
<1> QED  BY <1>1, <1>2, <1>3, <1>4, <1>5, <1>6, <1>7, <1>8, <1>9, <1>10,
    <1>11, <1>12 DEF Next

(* Every step keeps what is captured to the session that is served. *)
LEMMA CaptureStep == TypeOK /\ Placed /\ OneCapture /\ [Next]_vars => OneCapture'
<1> SUFFICES ASSUME TypeOK, Placed, OneCapture, [Next]_vars PROVE OneCapture'
  OBVIOUS
<1> USE DEF TypeOK, Placed, InLoop, OneCapture, disk, queues, loop, session,
    handlers
<1>1. CASE (\E c \in Clients : Request(c)) \/ (\E b \in BOOLEAN : SetPaused(b))
          \/ RequestShutdown
  BY <1>1 DEF Request, SetPaused, RequestShutdown
<1>2. CASE Dispatch
  BY <1>2 DEF Dispatch, RefuseIdleStop, RefuseIdleStart, Leave, AcceptStart
<1>3. CASE Begin
  BY <1>3 DEF Begin, InsertRow, StartFails, OpenSession, ReplyStarted,
      ShutdownWhileStarting
<1>4. CASE Serve
  BY <1>4 DEF Serve, Serving, RefuseStart, TakeStop, TakeShutdown
<1>5. CASE Finish
  BY <1>5 DEF Finish, JoinSources, ReadRow, Decide, MarkEnded, SaveSession,
      RenameSaved, FinalizeFails, ClearStatus, Return, SaveTmp, MoveTmp
<1>6. CASE (\E s \in Sessions : WriteAudio(s))
          \/ \E s \in Sessions, x \in Sources : EndSource(s, x)
  BY <1>6 DEF WriteAudio, EndSource
<1>7. ASSUME NEW s \in Sessions, Watch(s) PROVE OneCapture'
  BY <1>7 DEF Watch, SeeLowSpace, FlagStop, MarkInterrupted, WatchSave,
      WatchStop, SaveTmp, MoveTmp
<1>8. CASE Rename
  BY <1>8 DEF Rename, RenameBegin, RenameSave, RenameEnd, SaveTmp, MoveTmp
<1>9. CASE Delete
  BY <1>9 DEF Delete, DeleteBegin, DeleteCheckRow, DeleteDirectory, DeleteRows
<1>10. CASE Cleanup
  BY <1>10 DEF Cleanup, CleanupList, CleanupDirectory, CleanupRows
<1>11. CASE Exit \/ Crash
  <2>1. ProcessEnds  BY <1>11 DEF Exit, Crash
  <2> QED  BY <2>1 DEF ProcessEnds
<1>12. CASE Startup \/ UNCHANGED vars
  BY <1>12 DEF Startup, vars
<1> QED  BY <1>1, <1>2, <1>3, <1>4, <1>5, <1>6, <1>7, <1>8, <1>9, <1>10,
    <1>11, <1>12 DEF Next

(* Every step keeps the rows of ended and of listed meetings: a row is     *)
(* completed by MarkEnded alone, and an id is never given out twice.       *)
LEMMA RowEndedStep == TypeOK /\ Placed /\ KnownIds /\ RowEnded /\ [Next]_vars
    => RowEnded'
<1> SUFFICES ASSUME TypeOK, Placed, KnownIds, RowEnded, [Next]_vars PROVE RowEnded'
  OBVIOUS
<1> USE DEF TypeOK, Placed, InLoop, KnownIds, RowEnded, After, disk, queues,
    loop, session, handlers
<1>1. CASE (\E c \in Clients : Request(c)) \/ (\E b \in BOOLEAN : SetPaused(b))
          \/ RequestShutdown
  BY <1>1 DEF Request, SetPaused, RequestShutdown
<1>2. CASE Dispatch
  BY <1>2 DEF Dispatch, RefuseIdleStop, RefuseIdleStart, Leave, AcceptStart
<1>3. CASE Begin
  BY <1>3 DEF Begin, InsertRow, StartFails, OpenSession, ReplyStarted,
      ShutdownWhileStarting
<1>4. CASE Serve
  BY <1>4 DEF Serve, Serving, RefuseStart, TakeStop, TakeShutdown
<1>5. CASE Finish
  BY <1>5 DEF Finish, JoinSources, ReadRow, Decide, MarkEnded, SaveSession,
      RenameSaved, FinalizeFails, ClearStatus, Return, SaveTmp, MoveTmp
<1>6. CASE (\E s \in Sessions : WriteAudio(s))
          \/ \E s \in Sessions, x \in Sources : EndSource(s, x)
  BY <1>6 DEF WriteAudio, EndSource
<1>7. ASSUME NEW s \in Sessions, Watch(s) PROVE RowEnded'
  BY <1>7 DEF Watch, SeeLowSpace, FlagStop, MarkInterrupted, WatchSave,
      WatchStop, SaveTmp, MoveTmp
<1>8. CASE Rename
  BY <1>8 DEF Rename, RenameBegin, RenameSave, RenameEnd, SaveTmp, MoveTmp
<1>9. CASE Delete
  BY <1>9 DEF Delete, DeleteBegin, DeleteCheckRow, DeleteDirectory, DeleteRows
<1>10. CASE Cleanup
  <2>1. CASE CleanupList
    BY <2>1 DEF CleanupList, Cleaned
  <2>2. ASSUME NEW s \in Sessions, CleanupDirectory(s) PROVE RowEnded'
    BY <2>2 DEF CleanupDirectory, Cleanups
  <2>3. CASE CleanupRows
    BY <2>3 DEF CleanupRows, Cleanups
  <2> QED  BY <1>10, <2>1, <2>2, <2>3 DEF Cleanup
<1>11. CASE Exit \/ Crash
  <2>1. ProcessEnds  BY <1>11 DEF Exit, Crash
  <2> QED  BY <2>1 DEF ProcessEnds, Cleaned
<1>12. CASE Startup \/ UNCHANGED vars
  BY <1>12 DEF Startup, vars
<1> QED  BY <1>1, <1>2, <1>3, <1>4, <1>5, <1>6, <1>7, <1>8, <1>9, <1>10,
    <1>11, <1>12 DEF Next

(* Every step keeps the id in the status: only OpenSession and ClearStatus *)
(* write it.                                                               *)
LEMMA NamedStep == TypeOK /\ Placed /\ Named /\ [Next]_vars => Named'
<1> SUFFICES ASSUME TypeOK, Placed, Named, [Next]_vars PROVE Named'
  OBVIOUS
<1> USE DEF TypeOK, Placed, InLoop, Named, Served, Statuses, disk, queues,
    loop, session, handlers
<1>1. CASE (\E c \in Clients : Request(c)) \/ (\E b \in BOOLEAN : SetPaused(b))
          \/ RequestShutdown
  BY <1>1 DEF Request, SetPaused, RequestShutdown
<1>2. CASE Dispatch
  BY <1>2 DEF Dispatch, RefuseIdleStop, RefuseIdleStart, Leave, AcceptStart
<1>3. CASE Begin
  BY <1>3 DEF Begin, InsertRow, StartFails, OpenSession, ReplyStarted,
      ShutdownWhileStarting
<1>4. CASE Serve
  BY <1>4 DEF Serve, Serving, RefuseStart, TakeStop, TakeShutdown
<1>5. CASE Finish
  BY <1>5 DEF Finish, JoinSources, ReadRow, Decide, MarkEnded, SaveSession,
      RenameSaved, FinalizeFails, ClearStatus, Return, SaveTmp, MoveTmp
<1>6. CASE (\E s \in Sessions : WriteAudio(s))
          \/ \E s \in Sessions, x \in Sources : EndSource(s, x)
  BY <1>6 DEF WriteAudio, EndSource
<1>7. ASSUME NEW s \in Sessions, Watch(s) PROVE Named'
  BY <1>7 DEF Watch, SeeLowSpace, FlagStop, MarkInterrupted, WatchSave,
      WatchStop, SaveTmp, MoveTmp
<1>8. CASE Rename
  BY <1>8 DEF Rename, RenameBegin, RenameSave, RenameEnd, SaveTmp, MoveTmp
<1>9. CASE Delete
  BY <1>9 DEF Delete, DeleteBegin, DeleteCheckRow, DeleteDirectory, DeleteRows
<1>10. CASE Cleanup
  BY <1>10 DEF Cleanup, CleanupList, CleanupDirectory, CleanupRows
<1>11. CASE Exit \/ Crash
  <2>1. ProcessEnds  BY <1>11 DEF Exit, Crash
  <2> QED  BY <2>1 DEF ProcessEnds
<1>12. CASE Startup \/ UNCHANGED vars
  BY <1>12 DEF Startup, vars
<1> QED  BY <1>1, <1>2, <1>3, <1>4, <1>5, <1>6, <1>7, <1>8, <1>9, <1>10,
    <1>11, <1>12 DEF Next

(* Every step keeps unasked tasks at rest. *)
LEMMA UnaskedStep == TypeOK /\ Unasked /\ [Next]_vars => Unasked'
<1> SUFFICES ASSUME TypeOK, Unasked, [Next]_vars PROVE Unasked'
  OBVIOUS
<1> USE DEF TypeOK, Unasked, Never, Kinds, disk, queues, loop, session, handlers
<1>1. CASE (\E c \in Clients : Request(c)) \/ (\E b \in BOOLEAN : SetPaused(b))
          \/ RequestShutdown
  BY <1>1, SpendOne DEF Request, SetPaused, RequestShutdown
<1>2. CASE Dispatch
  BY <1>2 DEF Dispatch, RefuseIdleStop, RefuseIdleStart, Leave, AcceptStart
<1>3. CASE Begin
  BY <1>3, SpendOne DEF Begin, InsertRow, StartFails, OpenSession,
      ReplyStarted, ShutdownWhileStarting
<1>4. CASE Serve
  BY <1>4 DEF Serve, Serving, RefuseStart, TakeStop, TakeShutdown
<1>5. CASE Finish
  BY <1>5, SpendOne DEF Finish, JoinSources, ReadRow, Decide, MarkEnded,
      SaveSession, RenameSaved, FinalizeFails, ClearStatus, Return, SaveTmp,
      MoveTmp
<1>6. CASE (\E s \in Sessions : WriteAudio(s))
          \/ \E s \in Sessions, x \in Sources : EndSource(s, x)
  BY <1>6 DEF WriteAudio, EndSource
<1>7. ASSUME NEW s \in Sessions, Watch(s) PROVE Unasked'
  BY <1>7, SpendOne DEF Watch, SeeLowSpace, FlagStop, MarkInterrupted,
      WatchSave, WatchStop, SaveTmp, MoveTmp
<1>8. CASE Rename
  <2>1. ASSUME NEW s \in Sessions, RenameBegin(s) PROVE Unasked'
    BY <2>1, SpendOne DEF RenameBegin, Resting
  <2>2. CASE RenameSave
    BY <2>2, RestingFields DEF RenameSave, SaveTmp
  <2>3. CASE RenameEnd
    BY <2>3 DEF RenameEnd, MoveTmp, Resting
  <2> QED  BY <1>8, <2>1, <2>2, <2>3 DEF Rename
<1>9. CASE Delete
  <2>1. ASSUME NEW s \in Sessions, DeleteBegin(s) PROVE Unasked'
    BY <2>1, SpendOne DEF DeleteBegin, Resting
  <2>2. CASE DeleteCheckRow
    BY <2>2 DEF DeleteCheckRow, Resting
  <2>3. CASE DeleteDirectory
    BY <2>3 DEF DeleteDirectory
  <2>4. CASE DeleteRows
    BY <2>4 DEF DeleteRows, Resting
  <2> QED  BY <1>9, <2>1, <2>2, <2>3, <2>4 DEF Delete
<1>10. CASE Cleanup
  <2>1. CASE CleanupList
    BY <2>1, SpendOne DEF CleanupList, Cleaned
  <2>2. ASSUME NEW s \in Sessions, CleanupDirectory(s) PROVE Unasked'
    BY <2>2 DEF CleanupDirectory, Cleanups, Cleaned
  <2>3. CASE CleanupRows
    BY <2>3 DEF CleanupRows, Cleanups, Cleaned
  <2> QED  BY <1>10, <2>1, <2>2, <2>3 DEF Cleanup
<1>11. CASE Exit \/ Crash
  <2>1. ProcessEnds  BY <1>11 DEF Exit, Crash
  <2> QED  BY <2>1 DEF ProcessEnds, Resting
<1>12. CASE Startup \/ UNCHANGED vars
  BY <1>12 DEF Startup, vars
<1> QED  BY <1>1, <1>2, <1>3, <1>4, <1>5, <1>6, <1>7, <1>8, <1>9, <1>10,
    <1>11, <1>12 DEF Next

(* Every step keeps deletions off the served session: DeleteBegin refuses  *)
(* it as long as its status is active, and no flag is raised again.        *)
LEMMA BarredStep == TypeOK /\ Placed /\ KnownIds /\ Named /\ Barred /\ Unasked
    /\ [Next]_vars => Barred'
<1> SUFFICES ASSUME TypeOK, Placed, KnownIds, Named, Barred, Unasked,
    [Next]_vars PROVE Barred'
  OBVIOUS
<1> USE DEF TypeOK, Placed, InLoop, KnownIds, Named, Barred, Unasked, Served,
    Statuses, disk, queues, loop, session, handlers
<1>1. CASE (\E c \in Clients : Request(c)) \/ (\E b \in BOOLEAN : SetPaused(b))
          \/ RequestShutdown
  BY <1>1 DEF Request, SetPaused, RequestShutdown
<1>2. CASE Dispatch
  BY <1>2 DEF Dispatch, RefuseIdleStop, RefuseIdleStart, Leave, AcceptStart
<1>3. CASE Begin
  BY <1>3 DEF Begin, InsertRow, StartFails, OpenSession, ReplyStarted,
      ShutdownWhileStarting
<1>4. CASE Serve
  BY <1>4 DEF Serve, Serving, RefuseStart, TakeStop, TakeShutdown
<1>5. CASE Finish
  BY <1>5 DEF Finish, JoinSources, ReadRow, Decide, MarkEnded, SaveSession,
      RenameSaved, FinalizeFails, ClearStatus, Return, SaveTmp, MoveTmp
<1>6. CASE (\E s \in Sessions : WriteAudio(s))
          \/ \E s \in Sessions, x \in Sources : EndSource(s, x)
  BY <1>6 DEF WriteAudio, EndSource
<1>7. ASSUME NEW s \in Sessions, Watch(s) PROVE Barred'
  BY <1>7 DEF Watch, SeeLowSpace, FlagStop, MarkInterrupted, WatchSave,
      WatchStop, SaveTmp, MoveTmp
<1>8. CASE Rename
  BY <1>8 DEF Rename, RenameBegin, RenameSave, RenameEnd, SaveTmp, MoveTmp
<1>9. CASE Delete
  BY <1>9 DEF Delete, DeleteBegin, DeleteCheckRow, DeleteDirectory,
      DeleteRows, Deletes, Resting
<1>10. CASE Cleanup
  BY <1>10 DEF Cleanup, CleanupList, CleanupDirectory, CleanupRows
<1>11. CASE Exit \/ Crash
  <2>1. ProcessEnds  BY <1>11 DEF Exit, Crash
  <2> QED  BY <2>1 DEF ProcessEnds, Resting, IdleStatus
<1>12. CASE Startup \/ UNCHANGED vars
  BY <1>12 DEF Startup, vars
<1> QED  BY <1>1, <1>2, <1>3, <1>4, <1>5, <1>6, <1>7, <1>8, <1>9, <1>10,
    <1>11, <1>12 DEF Next

(* Every step keeps the watcher behind the flag it clears. *)
LEMMA FlaggedStep == TypeOK /\ Placed /\ Flagged /\ [Next]_vars => Flagged'
<1> SUFFICES ASSUME TypeOK, Placed, Flagged, [Next]_vars PROVE Flagged'
  OBVIOUS
<1> USE DEF TypeOK, Placed, InLoop, Flagged, Served, Statuses, disk, queues,
    loop, session, handlers
<1>1. CASE (\E c \in Clients : Request(c)) \/ (\E b \in BOOLEAN : SetPaused(b))
          \/ RequestShutdown
  BY <1>1 DEF Request, SetPaused, RequestShutdown
<1>2. CASE Dispatch
  BY <1>2 DEF Dispatch, RefuseIdleStop, RefuseIdleStart, Leave, AcceptStart
<1>3. CASE Begin
  BY <1>3 DEF Begin, InsertRow, StartFails, OpenSession, ReplyStarted,
      ShutdownWhileStarting
<1>4. CASE Serve
  BY <1>4 DEF Serve, Serving, RefuseStart, TakeStop, TakeShutdown
<1>5. CASE Finish
  BY <1>5 DEF Finish, JoinSources, ReadRow, Decide, MarkEnded, SaveSession,
      RenameSaved, FinalizeFails, ClearStatus, Return, SaveTmp, MoveTmp
<1>6. CASE (\E s \in Sessions : WriteAudio(s))
          \/ \E s \in Sessions, x \in Sources : EndSource(s, x)
  BY <1>6 DEF WriteAudio, EndSource
<1>7. ASSUME NEW s \in Sessions, Watch(s) PROVE Flagged'
  <2>1. CASE SeeLowSpace(s)
    BY <2>1 DEF SeeLowSpace
  <2>2. CASE FlagStop(s)
    BY <2>2 DEF FlagStop
  <2>3. CASE MarkInterrupted(s)
    BY <2>3 DEF MarkInterrupted
  <2>4. CASE WatchSave(s)
    BY <2>4 DEF WatchSave, SaveTmp
  <2>5. CASE WatchStop(s)
    BY <2>5 DEF WatchStop, MoveTmp
  <2> QED  BY <1>7, <2>1, <2>2, <2>3, <2>4, <2>5 DEF Watch
<1>8. CASE Rename
  BY <1>8 DEF Rename, RenameBegin, RenameSave, RenameEnd, SaveTmp, MoveTmp
<1>9. CASE Delete
  BY <1>9 DEF Delete, DeleteBegin, DeleteCheckRow, DeleteDirectory, DeleteRows
<1>10. CASE Cleanup
  BY <1>10 DEF Cleanup, CleanupList, CleanupDirectory, CleanupRows
<1>11. CASE Exit \/ Crash
  <2>1. ProcessEnds  BY <1>11 DEF Exit, Crash
  <2> QED  BY <2>1 DEF ProcessEnds
<1>12. CASE Startup \/ UNCHANGED vars
  BY <1>12 DEF Startup, vars
<1> QED  BY <1>1, <1>2, <1>3, <1>4, <1>5, <1>6, <1>7, <1>8, <1>9, <1>10,
    <1>11, <1>12 DEF Next

(* Every step but the watcher's keeps the status and the row of a          *)
(* recording: a deletion is barred, a cleanup takes completed rows.        *)
LEMMA QuietStep == TypeOK /\ Placed /\ KnownIds /\ OneCapture /\ RowEnded /\
    Named /\ Barred /\ Unasked /\ Quiet /\ [Next]_vars => Quiet'
<1> SUFFICES ASSUME TypeOK, Placed, KnownIds, OneCapture, RowEnded, Named,
    Barred, Unasked, Quiet, [Next]_vars PROVE Quiet'
  OBVIOUS
<1> USE DEF TypeOK, Placed, InLoop, RowEnded, Named, Barred, Unasked, Quiet,
    After, Served, Never, Statuses, Kinds, disk, queues, loop, session, handlers
<1>1. CASE (\E c \in Clients : Request(c)) \/ (\E b \in BOOLEAN : SetPaused(b))
          \/ RequestShutdown
  BY <1>1, SpendOne DEF Request, SetPaused, RequestShutdown
<1>2. CASE Dispatch
  BY <1>2 DEF Dispatch, RefuseIdleStop, RefuseIdleStart, Leave, AcceptStart
<1>3. CASE Begin
  <2>1. CASE InsertRow
    BY <2>1 DEF InsertRow
  <2>2. CASE StartFails
    BY <2>2, SpendOne DEF StartFails
  <2>3. CASE OpenSession
    BY <2>3 DEF OpenSession
  <2>4. CASE ReplyStarted \/ ShutdownWhileStarting
    BY <2>4 DEF ReplyStarted, ShutdownWhileStarting
  <2> QED  BY <1>3, <2>1, <2>2, <2>3, <2>4 DEF Begin
<1>4. CASE Serve
  BY <1>4 DEF Serve, Serving, RefuseStart, TakeStop, TakeShutdown
<1>5. CASE Finish
  <2>1. CASE JoinSources
    BY <2>1 DEF JoinSources
  <2>2. CASE ReadRow
    BY <2>2 DEF ReadRow
  <2>3. CASE Decide
    BY <2>3 DEF Decide
  <2>4. CASE MarkEnded
    BY <2>4 DEF MarkEnded
  <2>5. CASE SaveSession
    BY <2>5 DEF SaveSession, SaveTmp
  <2>6. CASE RenameSaved
    BY <2>6 DEF RenameSaved, MoveTmp, Return
  <2>7. CASE FinalizeFails
    BY <2>7, SpendOne DEF FinalizeFails, Return
  <2>8. CASE ClearStatus
    BY <2>8 DEF ClearStatus, Return
  <2> QED  BY <1>5, <2>1, <2>2, <2>3, <2>4, <2>5, <2>6, <2>7, <2>8 DEF Finish
<1>6. CASE (\E s \in Sessions : WriteAudio(s))
          \/ \E s \in Sessions, x \in Sources : EndSource(s, x)
  BY <1>6 DEF WriteAudio, EndSource
<1>7. ASSUME NEW s \in Sessions, Watch(s) PROVE Quiet'
  BY <1>7, SpendOne DEF Watch, SeeLowSpace, FlagStop, MarkInterrupted,
      WatchSave, WatchStop, SaveTmp, MoveTmp
<1>8. CASE Rename
  BY <1>8, SpendOne DEF Rename, RenameBegin, RenameSave, RenameEnd, SaveTmp, MoveTmp
<1>9. CASE Delete
  <2>1. ASSUME NEW s \in Sessions, DeleteBegin(s) PROVE Quiet'
    BY <2>1, SpendOne DEF DeleteBegin
  <2>2. CASE DeleteCheckRow
    BY <2>2 DEF DeleteCheckRow
  <2>3. CASE DeleteDirectory
    BY <2>3 DEF DeleteDirectory
  <2>4. CASE DeleteRows
    BY <2>4 DEF DeleteRows, Resting, Deletes
  <2> QED  BY <1>9, <2>1, <2>2, <2>3, <2>4 DEF Delete
<1>10. CASE Cleanup
  <2>1. CASE CleanupList
    BY <2>1, SpendOne DEF CleanupList
  <2>2. ASSUME NEW s \in Sessions, CleanupDirectory(s) PROVE Quiet'
    BY <2>2 DEF CleanupDirectory
  <2>3. CASE CleanupRows
    BY <2>3 DEF CleanupRows, Cleanups
  <2> QED  BY <1>10, <2>1, <2>2, <2>3 DEF Cleanup
<1>11. CASE Exit \/ Crash
  <2>1. ProcessEnds  BY <1>11 DEF Exit, Crash
  <2> QED  BY <2>1 DEF ProcessEnds, IdleStatus
<1>12. CASE Startup \/ UNCHANGED vars
  BY <1>12 DEF Startup, vars
<1> QED  BY <1>1, <1>2, <1>3, <1>4, <1>5, <1>6, <1>7, <1>8, <1>9, <1>10,
    <1>11, <1>12 DEF Next

(* Every step keeps the temporary file that finalize_session renames. *)
LEMMA TmpStep == TypeOK /\ Placed /\ Barred /\ Flagged /\ Unasked /\ TmpKept
    /\ [Next]_vars => TmpKept'
<1> SUFFICES ASSUME TypeOK, Placed, Barred, Flagged, Unasked, TmpKept,
    [Next]_vars PROVE TmpKept'
  OBVIOUS
<1> USE DEF TypeOK, Placed, InLoop, Barred, Flagged, Unasked, TmpKept, Served,
    Never, Statuses, Resting, Cleaned, Kinds, disk, queues, loop, session,
    handlers
<1>1. CASE (\E c \in Clients : Request(c)) \/ (\E b \in BOOLEAN : SetPaused(b))
          \/ RequestShutdown
  <2>1. ASSUME NEW c \in Clients, Request(c) PROVE TmpKept'
    BY <2>1, SpendOne DEF Request
  <2>2. ASSUME NEW b \in BOOLEAN, SetPaused(b) PROVE TmpKept'
    BY <2>2 DEF SetPaused
  <2>3. CASE RequestShutdown
    BY <2>3, SpendOne DEF RequestShutdown
  <2> QED  BY <1>1, <2>1, <2>2, <2>3
<1>2. CASE Dispatch
  BY <1>2 DEF Dispatch, RefuseIdleStop, RefuseIdleStart, Leave, AcceptStart
<1>3. CASE Begin
  BY <1>3, SpendOne DEF Begin, InsertRow, StartFails, OpenSession,
      ReplyStarted, ShutdownWhileStarting
<1>4. CASE Serve
  BY <1>4 DEF Serve, Serving, RefuseStart, TakeStop, TakeShutdown
<1>5. CASE Finish
  <2>1. CASE JoinSources
    BY <2>1 DEF JoinSources
  <2>2. CASE ReadRow
    BY <2>2 DEF ReadRow
  <2>3. CASE Decide
    BY <2>3 DEF Decide
  <2>4. CASE MarkEnded
    BY <2>4 DEF MarkEnded
  <2>5. CASE SaveSession
    BY <2>5 DEF SaveSession, SaveTmp
  <2>6. CASE RenameSaved
    BY <2>6 DEF RenameSaved, MoveTmp, Return
  <2>7. CASE FinalizeFails
    BY <2>7, SpendOne DEF FinalizeFails, Return
  <2>8. CASE ClearStatus
    BY <2>8 DEF ClearStatus, Return
  <2> QED  BY <1>5, <2>1, <2>2, <2>3, <2>4, <2>5, <2>6, <2>7, <2>8 DEF Finish
<1>6. CASE (\E s \in Sessions : WriteAudio(s))
          \/ \E s \in Sessions, x \in Sources : EndSource(s, x)
  <2>1. ASSUME NEW s \in Sessions, WriteAudio(s) PROVE TmpKept'
    BY <2>1 DEF WriteAudio
  <2>2. ASSUME NEW s \in Sessions, NEW x \in Sources, EndSource(s, x) PROVE TmpKept'
    BY <2>2 DEF EndSource
  <2> QED  BY <1>6, <2>1, <2>2
<1>7. ASSUME NEW s \in Sessions, Watch(s) PROVE TmpKept'
  <2>1. CASE SeeLowSpace(s)
    BY <2>1, SpendOne DEF SeeLowSpace
  <2>2. CASE FlagStop(s)
    BY <2>2 DEF FlagStop
  <2>3. CASE MarkInterrupted(s)
    BY <2>3 DEF MarkInterrupted
  <2>4. CASE WatchSave(s)
    BY <2>4 DEF WatchSave, SaveTmp
  <2>5. CASE WatchStop(s)
    BY <2>5 DEF WatchStop, MoveTmp
  <2> QED  BY <1>7, <2>1, <2>2, <2>3, <2>4, <2>5 DEF Watch
<1>8. CASE Rename
  <2>1. ASSUME NEW s \in Sessions, RenameBegin(s) PROVE TmpKept'
    BY <2>1, SpendOne DEF RenameBegin
  <2>2. CASE RenameSave
    BY <2>2 DEF RenameSave, SaveTmp
  <2>3. CASE RenameEnd
    BY <2>3 DEF RenameEnd, MoveTmp
  <2> QED  BY <1>8, <2>1, <2>2, <2>3 DEF Rename
<1>9. CASE Delete
  <2>1. ASSUME NEW s \in Sessions, DeleteBegin(s) PROVE TmpKept'
    BY <2>1, SpendOne DEF DeleteBegin
  <2>2. CASE DeleteCheckRow
    BY <2>2 DEF DeleteCheckRow
  <2>3. CASE DeleteDirectory
    BY <2>3 DEF DeleteDirectory
  <2>4. CASE DeleteRows
    BY <2>4 DEF DeleteRows
  <2> QED  BY <1>9, <2>1, <2>2, <2>3, <2>4 DEF Delete
<1>10. CASE Cleanup
  <2>1. CASE CleanupList
    BY <2>1, SpendOne DEF CleanupList
  <2>2. ASSUME NEW s \in Sessions, CleanupDirectory(s) PROVE TmpKept'
    BY <2>2 DEF CleanupDirectory
  <2>3. CASE CleanupRows
    BY <2>3 DEF CleanupRows
  <2> QED  BY <1>10, <2>1, <2>2, <2>3 DEF Cleanup
<1>11. CASE Exit \/ Crash
  <2>1. ProcessEnds  BY <1>11 DEF Exit, Crash
  <2> QED  BY <2>1 DEF ProcessEnds
<1>12. CASE Startup \/ UNCHANGED vars
  BY <1>12 DEF Startup, vars
<1> QED  BY <1>1, <1>2, <1>3, <1>4, <1>5, <1>6, <1>7, <1>8, <1>9, <1>10,
    <1>11, <1>12 DEF Next

(* Every step keeps the status idle between meetings: ClearStatus resets   *)
(* it, and RenameSaved leaves without it only if the file was taken away.  *)
LEMMA ReadyStep == TypeOK /\ Placed /\ Quiet /\ Flagged /\ TmpKept /\ Ready /\
    [Next]_vars => Ready'
<1> SUFFICES ASSUME TypeOK, Placed, Quiet, Flagged, TmpKept, Ready,
    [Next]_vars PROVE Ready'
  OBVIOUS
<1> USE DEF TypeOK, Placed, InLoop, Quiet, TmpKept, Ready, Served, Never,
    Statuses, Kinds, disk, queues, loop, session, handlers
<1>1. CASE (\E c \in Clients : Request(c)) \/ (\E b \in BOOLEAN : SetPaused(b))
          \/ RequestShutdown
  BY <1>1, SpendOne DEF Request, SetPaused, RequestShutdown
<1>2. CASE Dispatch
  BY <1>2 DEF Dispatch, RefuseIdleStop, RefuseIdleStart, Leave, AcceptStart
<1>3. CASE Begin
  <2>1. CASE InsertRow
    BY <2>1 DEF InsertRow
  <2>2. CASE StartFails
    BY <2>2, SpendOne DEF StartFails
  <2>3. CASE OpenSession
    BY <2>3 DEF OpenSession
  <2>4. CASE ReplyStarted \/ ShutdownWhileStarting
    BY <2>4 DEF ReplyStarted, ShutdownWhileStarting
  <2> QED  BY <1>3, <2>1, <2>2, <2>3, <2>4 DEF Begin
<1>4. CASE Serve
  BY <1>4 DEF Serve, Serving, RefuseStart, TakeStop, TakeShutdown
<1>5. CASE Finish
  <2>1. CASE JoinSources
    BY <2>1 DEF JoinSources
  <2>2. CASE ReadRow
    BY <2>2 DEF ReadRow
  <2>3. CASE Decide
    BY <2>3 DEF Decide
  <2>4. CASE MarkEnded
    BY <2>4 DEF MarkEnded
  <2>5. CASE SaveSession
    BY <2>5 DEF SaveSession, SaveTmp
  <2>6. CASE RenameSaved
    BY <2>6 DEF RenameSaved, MoveTmp, Return
  <2>7. CASE FinalizeFails
    BY <2>7, SpendOne DEF FinalizeFails, Return
  <2>8. CASE ClearStatus
    BY <2>8 DEF ClearStatus, Return
  <2> QED  BY <1>5, <2>1, <2>2, <2>3, <2>4, <2>5, <2>6, <2>7, <2>8 DEF Finish
<1>6. CASE (\E s \in Sessions : WriteAudio(s))
          \/ \E s \in Sessions, x \in Sources : EndSource(s, x)
  BY <1>6 DEF WriteAudio, EndSource
<1>7. ASSUME NEW s \in Sessions, Watch(s) PROVE Ready'
  BY <1>7, SpendOne DEF Watch, SeeLowSpace, FlagStop, MarkInterrupted,
      WatchSave, WatchStop, SaveTmp, MoveTmp
<1>8. CASE Rename
  BY <1>8, SpendOne DEF Rename, RenameBegin, RenameSave, RenameEnd, SaveTmp, MoveTmp
<1>9. CASE Delete
  BY <1>9, SpendOne DEF Delete, DeleteBegin, DeleteCheckRow, DeleteDirectory,
      DeleteRows
<1>10. CASE Cleanup
  BY <1>10, SpendOne DEF Cleanup, CleanupList, CleanupDirectory, CleanupRows
<1>11. CASE Exit \/ Crash
  <2>1. ProcessEnds  BY <1>11 DEF Exit, Crash
  <2> QED  BY <2>1 DEF ProcessEnds, IdleStatus
<1>12. CASE Startup \/ UNCHANGED vars
  BY <1>12 DEF Startup, vars
<1> QED  BY <1>1, <1>2, <1>3, <1>4, <1>5, <1>6, <1>7, <1>8, <1>9, <1>10,
    <1>11, <1>12 DEF Next

(* Every step keeps 'running' rows to the session that is run. *)
LEMMA RunningStep == TypeOK /\ Placed /\ RowEnded /\ RunningIsServed /\
    [Next]_vars => RunningIsServed'
<1> SUFFICES ASSUME TypeOK, Placed, RowEnded, RunningIsServed, [Next]_vars
    PROVE RunningIsServed'
  OBVIOUS
<1> USE DEF TypeOK, Placed, InLoop, RowEnded, RunningIsServed, After, Alive,
    Kinds, disk, queues, loop, session, handlers
<1>1. CASE (\E c \in Clients : Request(c)) \/ (\E b \in BOOLEAN : SetPaused(b))
          \/ RequestShutdown
  BY <1>1, SpendOne DEF Request, SetPaused, RequestShutdown
<1>2. CASE Dispatch
  BY <1>2 DEF Dispatch, RefuseIdleStop, RefuseIdleStart, Leave, AcceptStart
<1>3. CASE Begin
  <2>1. CASE InsertRow
    BY <2>1 DEF InsertRow
  <2>2. CASE StartFails
    BY <2>2, SpendOne DEF StartFails
  <2>3. CASE OpenSession
    BY <2>3 DEF OpenSession
  <2>4. CASE ReplyStarted \/ ShutdownWhileStarting
    BY <2>4 DEF ReplyStarted, ShutdownWhileStarting
  <2> QED  BY <1>3, <2>1, <2>2, <2>3, <2>4 DEF Begin
<1>4. CASE Serve
  BY <1>4 DEF Serve, Serving, RefuseStart, TakeStop, TakeShutdown
<1>5. CASE Finish
  <2>1. CASE JoinSources
    BY <2>1 DEF JoinSources
  <2>2. CASE ReadRow
    BY <2>2 DEF ReadRow
  <2>3. CASE Decide
    BY <2>3 DEF Decide
  <2>4. CASE MarkEnded
    BY <2>4 DEF MarkEnded
  <2>5. CASE SaveSession
    BY <2>5 DEF SaveSession, SaveTmp
  <2>6. CASE RenameSaved
    BY <2>6 DEF RenameSaved, MoveTmp, Return
  <2>7. CASE FinalizeFails
    BY <2>7, SpendOne DEF FinalizeFails, Return
  <2>8. CASE ClearStatus
    BY <2>8 DEF ClearStatus, Return
  <2> QED  BY <1>5, <2>1, <2>2, <2>3, <2>4, <2>5, <2>6, <2>7, <2>8 DEF Finish
<1>6. CASE (\E s \in Sessions : WriteAudio(s))
          \/ \E s \in Sessions, x \in Sources : EndSource(s, x)
  BY <1>6 DEF WriteAudio, EndSource
<1>7. ASSUME NEW s \in Sessions, Watch(s) PROVE RunningIsServed'
  BY <1>7, SpendOne DEF Watch, SeeLowSpace, FlagStop, MarkInterrupted,
      WatchSave, WatchStop, SaveTmp, MoveTmp
<1>8. CASE Rename
  BY <1>8, SpendOne DEF Rename, RenameBegin, RenameSave, RenameEnd, SaveTmp, MoveTmp
<1>9. CASE Delete
  <2>1. ASSUME NEW s \in Sessions, DeleteBegin(s) PROVE RunningIsServed'
    BY <2>1, SpendOne DEF DeleteBegin
  <2>2. CASE DeleteCheckRow
    BY <2>2 DEF DeleteCheckRow
  <2>3. CASE DeleteDirectory
    BY <2>3 DEF DeleteDirectory
  <2>4. CASE DeleteRows
    BY <2>4 DEF DeleteRows
  <2> QED  BY <1>9, <2>1, <2>2, <2>3, <2>4 DEF Delete
<1>10. CASE Cleanup
  <2>1. CASE CleanupList
    BY <2>1, SpendOne DEF CleanupList
  <2>2. ASSUME NEW s \in Sessions, CleanupDirectory(s) PROVE RunningIsServed'
    BY <2>2 DEF CleanupDirectory
  <2>3. CASE CleanupRows
    BY <2>3 DEF CleanupRows
  <2> QED  BY <1>10, <2>1, <2>2, <2>3 DEF Cleanup
<1>11. CASE Exit \/ Crash
  <2>1. ProcessEnds  BY <1>11 DEF Exit, Crash
  <2> QED  BY <2>1 DEF ProcessEnds
<1>12. CASE Startup \/ UNCHANGED vars
  <2>1. CASE Startup
    BY <2>1 DEF Startup
  <2>2. CASE UNCHANGED vars
    BY <2>2 DEF vars
  <2> QED  BY <1>12, <2>1, <2>2
<1> QED  BY <1>1, <1>2, <1>3, <1>4, <1>5, <1>6, <1>7, <1>8, <1>9, <1>10,
    <1>11, <1>12 DEF Next

(* Every step leaves what is deleted deleted. *)
LEMMA GoneStep == TypeOK /\ Placed /\ KnownIds /\ OneCapture /\ Quiet /\
    Barred /\ Unasked /\ Gone /\ [Next]_vars => Gone'
<1> SUFFICES ASSUME TypeOK, Placed, KnownIds, OneCapture, Quiet, Barred,
    Unasked, Gone, [Next]_vars PROVE Gone'
  OBVIOUS
<1> USE DEF TypeOK, Placed, InLoop, KnownIds, OneCapture, Quiet, Barred,
    Unasked, Gone, Served, Never, Kinds, disk, queues, loop, session, handlers
<1>1. CASE (\E c \in Clients : Request(c)) \/ (\E b \in BOOLEAN : SetPaused(b))
          \/ RequestShutdown
  <2>1. ASSUME NEW c \in Clients, Request(c) PROVE Gone'
    BY <2>1, SpendOne DEF Request
  <2>2. ASSUME NEW b \in BOOLEAN, SetPaused(b) PROVE Gone'
    BY <2>2 DEF SetPaused
  <2>3. CASE RequestShutdown
    BY <2>3, SpendOne DEF RequestShutdown
  <2> QED  BY <1>1, <2>1, <2>2, <2>3
<1>2. CASE Dispatch
  <2>1. CASE RefuseIdleStop \/ RefuseIdleStart \/ Leave
    BY <2>1 DEF RefuseIdleStop, RefuseIdleStart, Leave
  <2>2. ASSUME NEW s \in Sessions, AcceptStart(s) PROVE Gone'
    BY <2>2 DEF AcceptStart
  <2> QED  BY <1>2, <2>1, <2>2 DEF Dispatch
<1>3. CASE Begin
  <2>1. CASE InsertRow
    BY <2>1 DEF InsertRow
  <2>2. CASE StartFails
    BY <2>2, SpendOne DEF StartFails
  <2>3. CASE OpenSession
    BY <2>3 DEF OpenSession
  <2>4. CASE ReplyStarted \/ ShutdownWhileStarting
    BY <2>4 DEF ReplyStarted, ShutdownWhileStarting
  <2> QED  BY <1>3, <2>1, <2>2, <2>3, <2>4 DEF Begin
<1>4. CASE Serve
  BY <1>4 DEF Serve, Serving, RefuseStart, TakeStop, TakeShutdown
<1>5. CASE Finish
  <2>1. CASE JoinSources
    BY <2>1 DEF JoinSources
  <2>2. CASE ReadRow
    BY <2>2 DEF ReadRow
  <2>3. CASE Decide
    BY <2>3 DEF Decide
  <2>4. CASE MarkEnded
    BY <2>4 DEF MarkEnded
  <2>5. CASE SaveSession
    BY <2>5 DEF SaveSession, SaveTmp
  <2>6. CASE RenameSaved
    BY <2>6 DEF RenameSaved, MoveTmp, Return
  <2>7. CASE FinalizeFails
    BY <2>7, SpendOne DEF FinalizeFails, Return
  <2>8. CASE ClearStatus
    BY <2>8 DEF ClearStatus, Return
  <2> QED  BY <1>5, <2>1, <2>2, <2>3, <2>4, <2>5, <2>6, <2>7, <2>8 DEF Finish
<1>6. CASE (\E s \in Sessions : WriteAudio(s))
          \/ \E s \in Sessions, x \in Sources : EndSource(s, x)
  <2>1. ASSUME NEW s \in Sessions, WriteAudio(s) PROVE Gone'
    BY <2>1 DEF WriteAudio
  <2>2. ASSUME NEW s \in Sessions, NEW x \in Sources, EndSource(s, x) PROVE Gone'
    BY <2>2 DEF EndSource
  <2> QED  BY <1>6, <2>1, <2>2
<1>7. ASSUME NEW s \in Sessions, Watch(s) PROVE Gone'
  <2>1. CASE SeeLowSpace(s)
    BY <2>1, SpendOne DEF SeeLowSpace
  <2>2. CASE FlagStop(s)
    BY <2>2 DEF FlagStop
  <2>3. CASE MarkInterrupted(s)
    BY <2>3 DEF MarkInterrupted
  <2>4. CASE WatchSave(s)
    BY <2>4 DEF WatchSave, SaveTmp
  <2>5. CASE WatchStop(s)
    BY <2>5 DEF WatchStop, MoveTmp
  <2> QED  BY <1>7, <2>1, <2>2, <2>3, <2>4, <2>5 DEF Watch
<1>8. CASE Rename
  <2>1. ASSUME NEW s \in Sessions, RenameBegin(s) PROVE Gone'
    BY <2>1, SpendOne DEF RenameBegin
  <2>2. CASE RenameSave
    BY <2>2, RestingFields DEF RenameSave, SaveTmp
  <2>3. CASE RenameEnd
    BY <2>3 DEF RenameEnd, MoveTmp, Renames, Resting
  <2> QED  BY <1>8, <2>1, <2>2, <2>3 DEF Rename
<1>9. CASE Delete
  <2>1. ASSUME NEW s \in Sessions, DeleteBegin(s) PROVE Gone'
    BY <2>1, SpendOne DEF DeleteBegin, Resting, Deletes
  <2>2. CASE DeleteCheckRow
    BY <2>2 DEF DeleteCheckRow, Resting, Deletes
  <2>3. CASE DeleteDirectory
    BY <2>3 DEF DeleteDirectory, Resting, Deletes
  <2>4. CASE DeleteRows
    <3>1. deleter.session \in Sessions /\ deleter' = Resting /\ deleter.pc = "removed"
      BY <2>4, HolderTypes DEF DeleteRows
    <3>2. UNCHANGED <<current, cleaner, dirs, spent>>
          /\ deleted' = deleted \cup {deleter.session}
      BY <2>4 DEF DeleteRows
    <3>3. \A s \in Sessions : row'[s] = IF s = deleter.session THEN "none" ELSE row[s]
      BY <2>4 DEF DeleteRows
    <3>4. Never("disk") => deleter.session # current  BY <3>1
    <3>5. (cleaner.session # None /\ ~cleaner.early => cleaner.session # current)'  BY <3>2
    <3>6. (Never("disk") => current \notin deleted)'  BY <3>2, <3>4
    <3>7. (Never("disk") /\ Never("rename") =>
             (cleaner.session # None /\ ~cleaner.early => cleaner.session \notin dirs))'
      BY <3>2
    <3>8. (deleter.pc # "removed")'  BY <3>1, RestingFields
    <3>9. (Never("disk") /\ Never("rename") =>
             \A s \in deleted : row[s] = "none" /\ s \notin dirs)'
      BY <3>1, <3>2, <3>3
    <3> HIDE DEF TypeOK, KnownIds, OneCapture, Quiet, Barred, Unasked
    <3> QED  BY <3>5, <3>6, <3>7, <3>8, <3>9
  <2> QED  BY <1>9, <2>1, <2>2, <2>3, <2>4 DEF Delete
<1>10. CASE Cleanup
  <2>1. CASE CleanupList
    BY <2>1, SpendOne DEF CleanupList, Cleaned
  <2>2. ASSUME NEW s \in Sessions, CleanupDirectory(s) PROVE Gone'
    BY <2>2 DEF CleanupDirectory, Cleanups
  <2>3. CASE CleanupRows
    <3>1. cleaner'.session = None /\ cleaner.session \in Sessions
      BY <2>3 DEF CleanupRows, Cleanups
    <3>2. /\ UNCHANGED <<current, deleter, dirs, spent>>
          /\ deleted' = IF cleaner.early THEN deleted ELSE deleted \cup {cleaner.session}
      BY <2>3 DEF CleanupRows
    <3>3. \A s \in Sessions : row'[s] = IF s = cleaner.session THEN "none" ELSE row[s]
      BY <2>3 DEF CleanupRows
    <3>4. (Never("disk") => current \notin deleted)'  BY <3>1, <3>2
    <3>5. (Never("disk") /\ Never("rename") =>
             \A s \in deleted : row[s] = "none" /\ s \notin dirs)'
      BY <3>1, <3>2, <3>3
    <3> QED  BY <3>1, <3>2, <3>4, <3>5
  <2> QED  BY <1>10, <2>1, <2>2, <2>3 DEF Cleanup
<1>11. CASE Exit \/ Crash
  <2>1. ProcessEnds  BY <1>11 DEF Exit, Crash
  <2>2. current' = None /\ deleter'.pc = "none" /\ cleaner'.session = None
    BY <2>1 DEF ProcessEnds, Cleaned, Resting
  <2>3. \A k \in Kinds : spent'[k] = 0 => spent[k] = 0
    BY <1>11, SpendOne DEF Exit, Crash
  <2>4. deleted' = deleted /\ dirs' = dirs /\ row' = row  BY <2>1 DEF ProcessEnds
  <2>5. None \notin deleted  OBVIOUS
  <2> QED  BY <2>2, <2>3, <2>4, <2>5
<1>12. CASE Startup \/ UNCHANGED vars
  <2>1. CASE Startup
    BY <2>1 DEF Startup
  <2>2. CASE UNCHANGED vars
    BY <2>2 DEF vars
  <2> QED  BY <1>12, <2>1, <2>2
<1> QED  BY <1>1, <1>2, <1>3, <1>4, <1>5, <1>6, <1>7, <1>8, <1>9, <1>10,
    <1>11, <1>12 DEF Next

-----------------------------------------------------------------------------
(* The invariant holds at the start and every step keeps it. *)
LEMMA InitInv == Init => IInv
<1> SUFFICES ASSUME Init PROVE IInv
  OBVIOUS
<1> USE DEF Init
<1>1. TypeOK
  <2>1. status \in Statuses  BY DEF IdleStatus, Statuses
  <2>2. renamer \in Renames /\ deleter \in Deletes  BY DEF Renames, Deletes
  <2>3. cleaner \in Cleanups  BY DEF Cleaned, Cleanups
  <2>4. row \in [Sessions -> States] /\ watch \in [Sessions -> Watching]
    BY DEF States, Watching
  <2>5. startQ \in Seq(Clients) /\ stopQ \in Seq(Clients)  OBVIOUS
  <2>6. capturing \in [Sessions -> SUBSET Sources] /\ spent \in [Kinds -> Nat]
    OBVIOUS
  <2> QED  BY <2>1, <2>2, <2>3, <2>4, <2>5, <2>6 DEF TypeOK, Places
<1>2. Placed /\ OneCapture  BY DEF Placed, InLoop, OneCapture
<1>3. KnownIds /\ RowEnded
  BY RestingFields DEF KnownIds, RowEnded, After, Cleaned
<1>4. Named /\ Quiet /\ Flagged /\ TmpKept
  BY DEF Named, Quiet, Flagged, TmpKept, Served, Never, IdleStatus
<1>5. Barred /\ Unasked  BY RestingFields DEF Barred, Unasked
<1>6. Ready /\ RunningIsServed
  BY DEF Ready, RunningIsServed, Served, Never, IdleStatus
<1>7. Gone  BY RestingFields DEF Gone, Cleaned
<1> QED  BY <1>1, <1>2, <1>3, <1>4, <1>5, <1>6, <1>7
           DEF IInv, Structure, Holders

LEMMA StepInv == IInv /\ [Next]_vars => IInv'
BY TypeStep, PlacedStep, KnownStep, CaptureStep, RowEndedStep, NamedStep,
   UnaskedStep, BarredStep, FlaggedStep, QuietStep, TmpStep, ReadyStep,
   RunningStep, GoneStep
   DEF IInv, Structure, Holders

LEMMA Inductive == Spec => []IInv
BY InitInv, StepInv, PTL DEF Spec

(* Every variable keeps its type. *)
THEOREM TypeCorrect == Spec => []TypeOK
<1>1. IInv => TypeOK  BY DEF IInv, Structure
<1> QED  BY <1>1, Inductive, PTL

(* What is captured is the session the main loop runs, and a second one is *)
(* not opened before both sources of the first have flushed.               *)
THEOREM OneAtATime == Spec => []OneCapture
<1>1. IInv => OneCapture  BY DEF IInv, Structure
<1> QED  BY <1>1, Inductive, PTL

(* Status and rows tell the truth about capture, during a meeting and      *)
(* between two, whatever deletions, renames and cleanups run beside it.    *)
THEOREM Truthful == Spec => []StatusTruthful
<1>1. IInv => TypeOK /\ RunningIsServed  BY DEF IInv, Structure
<1>2. IInv => StatusMatchesCapture
  BY DEF IInv, Structure, Holders, OneCapture, Named, Quiet, Served,
         StatusMatchesCapture, Never
<1>3. IInv => IdleIsReady
  BY DEF IInv, Ready, IdleIsReady, Served, Never
<1> QED  BY <1>1, <1>2, <1>3, Inductive, PTL DEF StatusTruthful

(* A deleted or cleaned up meeting does not come back, at a restart        *)
(* neither, unless its watcher, a rename or its own end was at work on it. *)
THEOREM StaysDeleted == Spec => []DeletedForGood
<1>1. IInv => DeletedForGood  BY DEF IInv, Gone, DeletedForGood, Never
<1> QED  BY <1>1, Inductive, PTL

(* A client that asked for the stop is answered after both sources have    *)
(* flushed and, unless finalizing failed, after the row was ended.         *)
THEOREM StopsAfterEnd == Spec => StopAnsweredAfterEnd
<1> DEFINE Answered == stopper # None /\ stopper' = None /\ Alive' =>
                         /\ capturing[current] = {}
                         /\ spent'["saveFault"] = 0 => row[current] # "running"
<1>1. IInv /\ [Next]_vars => [Answered]_vars
  <2> SUFFICES ASSUME IInv, Next, stopper # None, stopper' = None, Alive'
               PROVE  /\ capturing[current] = {}
                      /\ spent'["saveFault"] = 0 => row[current] # "running"
    OBVIOUS
  <2>1. RenameSaved \/ FinalizeFails \/ ClearStatus
    <3>1. CASE Finish
      BY <3>1 DEF Finish, JoinSources, ReadRow, Decide, MarkEnded, SaveSession, loop
    <3>2. CASE Dispatch \/ Begin \/ Serve
      BY <3>2, TakeHead DEF Dispatch, RefuseIdleStop, RefuseIdleStart, Leave, AcceptStart,
           Begin, InsertRow, StartFails, OpenSession, ReplyStarted,
           ShutdownWhileStarting, Serve, Serving, RefuseStart, TakeStop, TakeShutdown,
           loop, IInv, Structure, TypeOK
    <3>3. CASE (\E c \in Clients : Request(c)) \/ (\E b \in BOOLEAN : SetPaused(b))
               \/ RequestShutdown \/ Startup
      BY <3>3 DEF Request, SetPaused, RequestShutdown, Startup, loop
    <3>4. CASE (\E s \in Sessions : WriteAudio(s) \/ Watch(s))
               \/ \E s \in Sessions, x \in Sources : EndSource(s, x)
      BY <3>4 DEF WriteAudio, EndSource, Watch, SeeLowSpace, FlagStop,
           MarkInterrupted, WatchSave, WatchStop, loop
    <3>5. CASE Rename \/ Delete \/ Cleanup
      BY <3>5 DEF Rename, RenameBegin, RenameSave, RenameEnd, Delete, DeleteBegin,
           DeleteCheckRow, DeleteDirectory, DeleteRows, Cleanup, CleanupList,
           CleanupDirectory, CleanupRows, loop
    <3>6. CASE Exit \/ Crash
      BY <3>6 DEF Exit, Crash, ProcessEnds, Alive
    <3> QED  BY <3>1, <3>2, <3>3, <3>4, <3>5, <3>6 DEF Next
  <2> USE DEF IInv, Structure, Holders, TypeOK, Placed, InLoop, OneCapture, RowEnded,
              After
  <2>2. current \in Sessions /\ main # "serving"
    BY <2>1 DEF RenameSaved, FinalizeFails, ClearStatus
  <2>3. capturing[current] = {}  BY <2>2
  <2>4. CASE FinalizeFails
    BY <2>3, <2>4, SpendOne DEF FinalizeFails, Kinds
  <2>5. CASE RenameSaved \/ ClearStatus
    BY <2>3, <2>5 DEF RenameSaved, ClearStatus
  <2> QED  BY <2>1, <2>4, <2>5
<1> QED  BY <1>1, Inductive, PTL DEF StopAnsweredAfterEnd, Spec

=============================================================================
