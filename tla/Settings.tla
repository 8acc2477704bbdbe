------------------------------ MODULE Settings ------------------------------
(***************************************************************************)
(* The capture options: a panel of the shell that shows and edits them, the *)
(* helper processes it starts (settings, snapshot, action), the daemon's   *)
(* update_config requests, which run one per connection without a lock     *)
(* between them, and config.toml with its temporary file.  A helper may be *)
(* killed while the daemon goes on with its request.  Panels on further    *)
(* screens are the requests they send.                                     *)
(***************************************************************************)
EXTENDS Integers, FiniteSets

CONSTANTS
  Updates,   \* bound: update_config requests the daemon has under way
  Values,    \* of an option
  Default,   \* the one DEFAULT_CONFIG_TOML and a snapshot without answers give
  None,
  Empty,     \* a file that was truncated and not yet written
  Torn,      \* the start of one text and the end of a longer one
  Budget     \* bound: how often each event of Kinds may happen

Kinds   == {"edit", "action", "disturbance"}
Options == {"source", "device"}   \* "device" stands for every option with no chip
Configs == [Options -> Values]
DefaultConfig == [o \in Options |-> Default]

Inodes == 1 .. 2 + Cardinality(Updates)

ASSUME UpdatesAssumption == IsFiniteSet(Updates)
ASSUME ValuesAssumption  == Default \in Values
ASSUME TextsAssumption   == /\ None \notin Configs \cup Inodes
                            /\ Empty \notin Configs \cup {None}
                            /\ Torn \notin Configs \cup {None, Empty}
ASSUME BudgetAssumption  == Budget \in [Kinds -> Nat]

VARIABLES
  up,         \* the daemon runs
  live,       \* its configuration (ControlExtras.config)
  recording,  \* it has a meeting
  update,     \* the update_config requests under way
  tmp,        \* inode of config.toml.tmp
  dest,       \* inode of config.toml
  content,    \* text of each inode
  panel,      \* what the panel shows and what its user is editing
  settings, snapshot, action,  \* its helper processes
  chosen,      \* the value the user last chose for each option, None after two
               \* edits raced, one failed, or one was made on other options
  overlapped,  \* two updates overlapped and no lone one has finished since
  spent        \* how often each event of Kinds has happened

files   == <<tmp, dest, content>>
daemon  == <<up, live, recording, update, files>>
helpers == <<settings, snapshot, action>>
ghosts  == <<chosen, overlapped>>
vars    == <<daemon, panel, helpers, ghosts, spent>>

-----------------------------------------------------------------------------
NoUpdate   == [at |-> "idle", next |-> None, fd |-> None, awaited |-> FALSE, alone |-> TRUE]
NoSettings == [at |-> "none", values |-> None]
Answered   == [at |-> "done", values |-> None]
NoSnapshot == [at |-> "none", active |-> FALSE, options |-> DefaultConfig]
NewSnapshot == [NoSnapshot EXCEPT !.at = "started"]

Spend(kind) == /\ spent[kind] < Budget[kind]
               /\ spent' = [spent EXCEPT ![kind] = @ + 1]

Active(u) == update[u].at # "idle"

\* The panel saves nothing; nothing of any save is under way.
QuietPanel == panel.pending = None /\ settings.at = "none"
Quiet      == up /\ QuietPanel /\ \A u \in Updates : ~Active(u)

Written(text, old) == IF old \in {Empty, text} THEN {text} ELSE {text, Torn}

-----------------------------------------------------------------------------
Requests  == [at : {"idle", "read", "open", "write", "rename", "publish"},
              next : Configs \cup {None}, fd : Inodes \cup {None},
              awaited : BOOLEAN, alone : BOOLEAN]
Panels    == [options : Configs, draft : Configs \cup {None}, active : BOOLEAN,
              pending : Configs \cup {None}]
Saves     == [at : {"none", "started", "sent", "done"}, values : Configs \cup {None}]
Snapshots == [at : {"none", "started", "config", "done"}, active : BOOLEAN,
              options : Configs]

TypeOK ==
  /\ up \in BOOLEAN /\ recording \in BOOLEAN
  /\ live \in Configs
  /\ update \in [Updates -> Requests]
  /\ tmp \in Inodes \cup {None} /\ dest \in Inodes \cup {None}
  /\ content \in [Inodes -> Configs \cup {None, Empty, Torn}]
  /\ panel \in Panels
  /\ settings \in Saves /\ snapshot \in Snapshots
  /\ action \in {"none", "start", "stop", "done"}
  /\ chosen \in Configs \cup {None}
  /\ overlapped \in BOOLEAN
  /\ spent \in [Kinds -> Nat] /\ \A k \in Kinds : spent[k] <= Budget[k]

\* The panel was just made: after an installation, with no daemon and no file,
\* or after the shell was reloaded during a meeting.  There is a draft while the
\* settings page is shown.
Init ==
  /\ up \in BOOLEAN /\ recording = up /\ live = DefaultConfig
  /\ update = [u \in Updates |-> NoUpdate]
  /\ tmp = None /\ dest = (IF up THEN 1 ELSE None)
  /\ content = [i \in Inodes |-> IF i = dest THEN DefaultConfig ELSE None]
  /\ panel = [options |-> DefaultConfig, draft |-> None, active |-> FALSE, pending |-> None]
  /\ settings = NoSettings /\ snapshot = NoSnapshot /\ action = "none"
  /\ chosen = DefaultConfig /\ overlapped = FALSE
  /\ spent = [k \in Kinds |-> 0]

-----------------------------------------------------------------------------
(* The panel *)

\* Bound: pages are turned only while an edit is left.
ShowSettings ==
  /\ panel.draft = None /\ spent["edit"] < Budget["edit"]
  /\ panel' = [panel EXCEPT !.draft = panel.options]
  /\ UNCHANGED <<daemon, helpers, ghosts, spent>>

ShowMeeting ==
  /\ panel.draft # None /\ spent["edit"] < Budget["edit"]
  /\ panel' = [panel EXCEPT !.draft = None]
  /\ UNCHANGED <<daemon, helpers, ghosts, spent>>

\* The panel becomes "shown", and the values wait for the helper that runs.
FlushSettings(values, shown) ==
  IF settings.at # "none"
    THEN panel' = [shown EXCEPT !.pending = values] /\ UNCHANGED settings
    ELSE /\ panel' = [shown EXCEPT !.pending = None]
         /\ settings' = [at |-> "started", values |-> values]

\* The draft is saved whole when it differs from what the panel shows.
SaveMeetingOptions(draft) ==
  LET shown == [panel EXCEPT !.draft = IF @ = None THEN None ELSE draft] IN
  IF draft = panel.options
    THEN panel' = shown /\ UNCHANGED settings
    ELSE FlushSettings(draft, [shown EXCEPT !.options = draft])

\* The user gives option o the value v, on top of "base".
Edit(base, o, v) ==
  LET draft == [base EXCEPT ![o] = v] IN
  /\ ~panel.active /\ action = "none"
  /\ v # base[o]
  /\ Spend("edit")
  /\ SaveMeetingOptions(draft)
  /\ chosen' = IF /\ draft # panel.options
                  /\ \/ Quiet /\ draft = [live EXCEPT ![o] = v]
                     \/ /\ chosen # None /\ draft = [chosen EXCEPT ![o] = v]
                        /\ \A u \in Updates : Active(u) => update[u].awaited
                 THEN draft ELSE None
  /\ UNCHANGED <<daemon, snapshot, action, overlapped>>

EditOption == /\ panel.draft # None
              /\ \E o \in Options, v \in Values : Edit(panel.draft, o, v)

\* The chips of the meeting page take the shown options as the draft.
ToggleCaptureSource == /\ panel.draft = None
                       /\ \E v \in Values : Edit(panel.options, "source", v)

\* One snapshot at a time.
Refresh == snapshot' = IF snapshot.at = "none" THEN NewSnapshot ELSE snapshot

Tick ==
  /\ snapshot.at = "none"
  /\ Refresh
  /\ UNCHANGED <<daemon, panel, settings, action, ghosts, spent>>

RunAction(name) ==
  /\ action = "none"
  /\ panel.active = (name = "stop")
  /\ Spend("action")
  /\ action' = name
  /\ UNCHANGED <<daemon, panel, settings, snapshot, ghosts>>

(* Mutant: an edit that waited is forgotten when the helper ends. *)
SettingsExitedForgets ==
  /\ settings.at = "done"
  /\ settings' = NoSettings
  /\ panel' = [panel EXCEPT !.pending = None]
  /\ Refresh
  /\ UNCHANGED <<daemon, action, ghosts, spent>>

SettingsExited ==
  /\ settings.at = "done"
  /\ IF panel.pending # None
       THEN /\ settings' = [at |-> "started", values |-> panel.pending]
            /\ panel' = [panel EXCEPT !.pending = None]
            /\ UNCHANGED snapshot
       ELSE settings' = NoSettings /\ Refresh /\ UNCHANGED panel
  /\ UNCHANGED <<daemon, action, ghosts, spent>>

ActionExited ==
  /\ action = "done"
  /\ action' = "none"
  /\ Refresh
  /\ UNCHANGED <<daemon, panel, settings, ghosts, spent>>

(* Mutant: an open settings page keeps its options. *)
ApplySnapshotToMeeting ==
  [panel EXCEPT !.active = snapshot.active,
                !.options = IF panel.draft # None THEN @ ELSE snapshot.options]

\* Shown over whatever the panel showed, an edit that is on its way included.
ApplySnapshot == [panel EXCEPT !.active = snapshot.active, !.options = snapshot.options]

SnapshotExited ==
  /\ snapshot.at = "done"
  /\ panel' = ApplySnapshot
  /\ snapshot' = NoSnapshot
  /\ UNCHANGED <<daemon, settings, action, ghosts, spent>>

-----------------------------------------------------------------------------
(* The helper processes *)

\* get_state, and get_config in a request of its own; without an answer the
\* options are those of a new installation.
SnapshotState ==
  /\ snapshot.at = "started"
  /\ snapshot' = IF up THEN [snapshot EXCEPT !.at = "config", !.active = recording]
                       ELSE [snapshot EXCEPT !.at = "done"]
  /\ UNCHANGED <<daemon, panel, settings, action, ghosts, spent>>

SnapshotConfig ==
  /\ snapshot.at = "config"
  /\ snapshot' = [snapshot EXCEPT !.at = "done", !.options = IF up THEN live ELSE DefaultConfig]
  /\ UNCHANGED <<daemon, panel, settings, action, ghosts, spent>>

\* Its deadline passes: the panel shows an error and keeps the rest.
KillSnapshot ==
  /\ snapshot.at \in {"started", "config"}
  /\ Spend("disturbance")
  /\ snapshot' = NoSnapshot
  /\ UNCHANGED <<daemon, panel, settings, action, ghosts>>

\* The daemon accepts a connection and starts a task for its request.
BeginUpdate(values, awaited) ==
  LET others == {u \in Updates : Active(u)}
      new    == CHOOSE u \in Updates : u \notin others
  IN
  /\ others # Updates
  /\ update' = [u \in Updates |->
       IF u = new THEN [NoUpdate EXCEPT !.at = "read", !.next = values,
                                        !.awaited = awaited, !.alone = others = {}]
       ELSE IF u \in others THEN [update[u] EXCEPT !.alone = FALSE] ELSE NoUpdate]
  /\ overlapped' = (overlapped \/ others # {})

SendUpdate ==
  /\ settings.at = "started" /\ up
  /\ BeginUpdate(settings.values, TRUE)
  /\ settings' = [at |-> "sent", values |-> None]
  /\ UNCHANGED <<up, live, recording, files, panel, snapshot, action, chosen, spent>>

NotRunning ==
  /\ settings.at = "started" /\ ~up
  /\ settings' = Answered
  /\ chosen' = None
  /\ UNCHANGED <<daemon, panel, snapshot, action, overlapped, spent>>

\* Its deadline passes; a request it has sent is carried out all the same.
KillSettings ==
  /\ settings.at \in {"started", "sent"}
  /\ Spend("disturbance")
  /\ settings' = Answered
  /\ update' = [u \in Updates |-> [update[u] EXCEPT !.awaited = FALSE]]
  /\ chosen' = None
  /\ UNCHANGED <<up, live, recording, files, panel, snapshot, action, overlapped>>

\* The panel of another screen saves its draft, in which one option is new.
EditElsewhere ==
  /\ up /\ Spend("edit")
  /\ \E base \in {live, DefaultConfig}, o \in Options, v \in Values :
       /\ base[o] # v
       /\ BeginUpdate([base EXCEPT ![o] = v], FALSE)
       /\ chosen' = IF Quiet /\ base = live THEN [base EXCEPT ![o] = v] ELSE None
  /\ UNCHANGED <<up, live, recording, files, panel, helpers>>

ServeAction ==
  /\ action \in {"start", "stop"}
  /\ action' = "done"
  /\ recording' = IF up THEN action = "start" ELSE recording
  /\ UNCHANGED <<up, live, update, files, panel, settings, snapshot, ghosts, spent>>

-----------------------------------------------------------------------------
(* update_config *)

Rest == <<up, recording, panel, snapshot, action>>

Step(u, from, to) == /\ update[u].at = from
                     /\ update' = [update EXCEPT ![u] = to]

\* The request ends, and the helper that still waits gets its answer.
EndUpdate(u) ==
  /\ update' = [update EXCEPT ![u] = NoUpdate]
  /\ settings' = IF update[u].awaited THEN Answered ELSE settings

\* The fields of the patch over those of the configuration it read.
Patched(base, patch) ==
  [o \in Options |-> IF o \in DOMAIN patch THEN patch[o] ELSE base[o]]

ApplyPatch(u) ==
  /\ Step(u, "read", [update[u] EXCEPT !.at = "open", !.next = Patched(live, @)])
  /\ UNCHANGED <<Rest, live, files, settings, chosen, overlapped, spent>>

(* Mutant: the text goes straight into config.toml. *)
OpenTmpInPlace(u) ==
  /\ Step(u, "open", [update[u] EXCEPT !.at = "write", !.fd = dest])
  /\ tmp' = dest
  /\ content' = [content EXCEPT ![dest] = Empty]
  /\ UNCHANGED <<Rest, live, dest, settings, chosen, overlapped, spent>>

\* fs::write opens and truncates; the name may be another request's.
OpenTmp(u) ==
  LET used == {dest} \cup {update[w].fd : w \in Updates}
      i    == IF tmp # None THEN tmp ELSE CHOOSE j \in Inodes : j \notin used
  IN
  /\ Step(u, "open", [update[u] EXCEPT !.at = "write", !.fd = i])
  /\ tmp' = i
  /\ content' = [content EXCEPT ![i] = Empty]
  /\ UNCHANGED <<Rest, live, dest, settings, chosen, overlapped, spent>>

WriteTmp(u) ==
  /\ Step(u, "write", [update[u] EXCEPT !.at = "rename"])
  /\ \E text \in Written(update[u].next, content[update[u].fd]) :
       content' = [content EXCEPT ![update[u].fd] = text]
  /\ UNCHANGED <<Rest, live, tmp, dest, settings, chosen, overlapped, spent>>

Rename(u) ==
  /\ tmp # None
  /\ Step(u, "rename", [update[u] EXCEPT !.at = "publish", !.fd = None])
  /\ dest' = tmp /\ tmp' = None
  /\ content' = [i \in Inodes |-> IF i = dest /\ \A w \in Updates : update[w].fd # i
                                    THEN None ELSE content[i]]
  /\ UNCHANGED <<Rest, live, settings, chosen, overlapped, spent>>

Publish(u) ==
  /\ update[u].at = "publish"
  /\ live' = update[u].next
  /\ EndUpdate(u)
  /\ overlapped' = (overlapped /\ ~update[u].alone)
  /\ UNCHANGED <<Rest, files, chosen, spent>>

\* Another request took the temporary file away.
RenameFails(u) ==
  /\ update[u].at = "rename" /\ tmp = None
  /\ EndUpdate(u)
  /\ chosen' = None
  /\ UNCHANGED <<Rest, live, files, overlapped, spent>>

(* Mutant: the configuration is published whether or not it was saved. *)
FailAfterPublish(u) ==
  /\ update[u].at \in {"read", "open", "write"}
  /\ Spend("disturbance")
  /\ live' = update[u].next
  /\ EndUpdate(u)
  /\ chosen' = None
  /\ UNCHANGED <<Rest, files, overlapped>>

\* The patch is refused, or the file cannot be opened or written.
Fail(u) ==
  /\ update[u].at \in {"read", "open", "write"}
  /\ Spend("disturbance")
  /\ EndUpdate(u)
  /\ chosen' = None
  /\ UNCHANGED <<Rest, live, files, overlapped>>

-----------------------------------------------------------------------------
(* The daemon's life *)

\* Requests and helpers that wait for an answer find their connection closed.
Crash ==
  /\ up /\ Spend("disturbance")
  /\ up' = FALSE /\ live' = DefaultConfig /\ recording' = FALSE
  /\ update' = [u \in Updates |-> NoUpdate]
  /\ settings' = IF settings.at = "sent" THEN Answered ELSE settings
  /\ chosen' = IF Quiet THEN chosen ELSE None
  /\ UNCHANGED <<files, panel, snapshot, action, overlapped>>

\* load_or_write_default; with a torn file the daemon does not start.
Startup ==
  /\ ~up
  /\ IF dest = None
       THEN /\ dest' = CHOOSE i \in Inodes : i # tmp
            /\ content' = [content EXCEPT ![dest'] = DefaultConfig]
            /\ live' = DefaultConfig
       ELSE /\ content[dest] # Torn
            /\ live' = IF content[dest] = Empty THEN DefaultConfig ELSE content[dest]
            /\ UNCHANGED <<dest, content>>
  /\ up' = TRUE
  /\ overlapped' = (content'[dest'] = Empty)
  /\ UNCHANGED <<recording, update, tmp, panel, helpers, chosen, spent>>

-----------------------------------------------------------------------------
SnapshotStep == Tick \/ SnapshotState \/ SnapshotConfig \/ SnapshotExited
SettingsStep == SendUpdate \/ NotRunning \/ SettingsExited
ActionStep   == ServeAction \/ ActionExited
UpdateStep(u) == ApplyPatch(u) \/ OpenTmp(u) \/ WriteTmp(u) \/ Rename(u) \/ Publish(u)
                   \/ RenameFails(u)
UserStep == ShowSettings \/ ShowMeeting \/ EditOption \/ ToggleCaptureSource
              \/ RunAction("start") \/ RunAction("stop")

Next == \/ SnapshotStep \/ SettingsStep \/ ActionStep \/ UserStep
        \/ KillSnapshot \/ KillSettings \/ EditElsewhere
        \/ \E u \in Updates : UpdateStep(u) \/ Fail(u)
        \/ Crash \/ Startup

Spec == Init /\ [][Next]_vars

\* The shell and its helpers, the daemon's tasks and systemd go on; what a user
\* does, a deadline and a failure need not happen.  No step of Progress repeats
\* without a new edit or action, so that fairness of any one of them is enough.
Progress == SettingsStep \/ ActionStep \/ Startup \/ \E u \in Updates : UpdateStep(u)
Fairness == WF_vars(SnapshotStep) /\ WF_vars(Progress)

FairSpec == Spec /\ Fairness

-----------------------------------------------------------------------------
(* Properties *)

\* write_atomic: whenever the daemon dies, a restart finds a whole configuration,
\* unless two updates shared the temporary file and no lone one repaired it since.
AlwaysLoads == ~overlapped /\ dest # None => content[dest] \in Configs

\* update_config: with no update under way the daemon works with what a restart
\* would load, also after an update that failed halfway; again only overlapping
\* updates leave the file and the running daemon apart.
FileIsLive ==
  up /\ ~overlapped /\ (\A u \in Updates : ~Active(u)) => content[dest] = live

\* What the file holds serves the daemon, the running one and the next one.
FileServesDaemon == TypeOK /\ AlwaysLoads /\ FileIsLive

\* Backend.saveOptions: when every edit has been carried out, each option has the
\* value the user last chose for it, whatever waited behind a running helper and
\* whatever older snapshot came between, unless edits raced or failed, or a
\* panel saved a draft of options that were not those in force.
LastEditWins == Quiet /\ chosen # None => live = chosen

\* Backend.refresh: in the end the panel saves nothing any more and shows the
\* options and the meeting of the daemon.
PanelConverges ==
  <>[](QuietPanel /\ (up => panel.options = live /\ panel.active = recording))

\* "Prevent capture-option edits while a meeting is active" (docs/features.md).
OptionsFixedInMeeting == [][up /\ recording /\ recording' => live' = live]_vars
=============================================================================
