--------------------------- MODULE SettingsProofs ---------------------------
(***************************************************************************)
(* Theorems about Settings for any number of requests, values and events.  *)
(* One invariant follows an edit from the panel to the file: who waits for *)
(* whom, what a request has reached, and what of that the file holds.      *)
(***************************************************************************)
EXTENDS Settings, FiniteSetTheorems, TLAPS

-----------------------------------------------------------------------------
(* The inductive invariant *)

\* A request that has ended left nothing behind, and one is under way only in
\* a running daemon.
Resting == \A u \in Updates : /\ ~Active(u) => update[u] = NoUpdate
                              /\ Active(u) => up

\* What is on its way is a whole configuration.
Carried == /\ \A u \in Updates : Active(u) => update[u].next \in Configs
           /\ settings.at = "started" => settings.values \in Configs

\* A request has a file open exactly while it writes and renames it.
Holding == \A u \in Updates : update[u].at \in {"write", "rename"} <=> update[u].fd # None

\* The two names lead to different files, which have been opened, and a daemon
\* that runs has its file.
Named == /\ tmp # None => tmp # dest /\ content[tmp] # None
         /\ dest # None => content[dest] # None
         /\ up => dest # None

\* A request that was always alone is; any other makes the updates overlapped.
Single == \A u \in Updates : Active(u) =>
            /\ ~update[u].alone => overlapped
            /\ update[u].alone => \A w \in Updates \ {u} : ~Active(w)

\* What a lone request has reached is in the file it says.
Reached == \A u \in Updates : Active(u) /\ update[u].alone =>
             /\ update[u].at \in {"write", "rename"} => update[u].fd = tmp
             /\ update[u].at = "write" => content[tmp] = Empty
             /\ update[u].at = "rename" => content[tmp] = update[u].next
             /\ update[u].at = "publish" => content[dest] = update[u].next

\* Without an overlap the file is whole, and it is the daemon's configuration
\* except between the rename and the publication.
Served == ~overlapped =>
            /\ dest # None => content[dest] \in Configs
            /\ up /\ (\A u \in Updates : update[u].at # "publish") => content[dest] = live

\* The helper waits for the one request it sent, and values wait for the helper.
Waiting == /\ \A u \in Updates : update[u].awaited =>
                /\ settings.at = "sent"
                /\ \A w \in Updates \ {u} : ~update[w].awaited
           /\ panel.pending # None => settings.at # "none"

\* No values wait to be sent.
AllSent == panel.pending = None /\ settings.at # "started"

\* While the last choice is known it is the last thing on its way: it waits
\* behind the helper, or in the helper, or in the only request there is, or it
\* has arrived, and then the file holds it too.
Underway == chosen # None =>
  /\ \A u \in Updates : Active(u) => /\ update[u].alone
                                     /\ settings.at \notin {"started", "done"}
                                     /\ AllSent => update[u].next = chosen
  /\ panel.pending # None => panel.pending = chosen
  /\ panel.pending = None /\ settings.at = "started" => settings.values = chosen
  /\ AllSent /\ (\A u \in Updates : ~Active(u)) =>
       /\ ~overlapped
       /\ up => live = chosen
       /\ dest # None => content[dest] = chosen
       /\ dest = None => chosen = DefaultConfig

IInv == /\ TypeOK /\ Resting /\ Carried /\ Holding /\ Named /\ Single /\ Reached
        /\ Served /\ Waiting /\ Underway

USE UpdatesAssumption, ValuesAssumption, TextsAssumption, BudgetAssumption

-----------------------------------------------------------------------------
(* The pieces of a step *)

\* The configuration of a new installation is one.
LEMMA DefaultIsConfig == DefaultConfig \in Configs
BY DEF DefaultConfig, Configs

\* What a request that is not under way holds.
LEMMA NoUpdateFields ==
  /\ NoUpdate \in Requests /\ NoUpdate.at = "idle" /\ NoUpdate.fd = None
  /\ NoUpdate.next = None /\ ~NoUpdate.awaited /\ NoUpdate.alone
BY DEF NoUpdate, Requests

\* Spending keeps within the budget.
LEMMA SpendOne ==
  ASSUME spent \in [Kinds -> Nat], \A k \in Kinds : spent[k] <= Budget[k],
         NEW kind \in Kinds, Spend(kind)
  PROVE  spent' \in [Kinds -> Nat] /\ \A k \in Kinds : spent'[k] <= Budget[k]
BY DEF Spend

\* Two files more than requests: one is free while every request holds one and
\* config.toml another.
LEMMA FreeInode ==
  ASSUME update \in [Updates -> Requests]
  PROVE  \E j \in Inodes : j \notin {dest} \cup {update[w].fd : w \in Updates}
<1> DEFINE used == {dest} \cup {update[w].fd : w \in Updates}
<1>0. Cardinality(Updates) \in Nat
  BY FS_CardinalityType
<1>1. /\ IsFiniteSet({update[w].fd : w \in Updates})
      /\ Cardinality({update[w].fd : w \in Updates}) <= Cardinality(Updates)
  <2> DEFINE fds == {update[w].fd : w \in Updates}
             f   == [w \in Updates |-> update[w].fd]
  <2>1. f \in Surjection(Updates, fds)
    BY DEF Surjection
  <2> HIDE DEF fds, f
  <2>2. IsFiniteSet(fds) /\ Cardinality(fds) <= Cardinality(Updates)
    BY <2>1, FS_Surjection
  <2> QED  BY <2>2 DEF fds
<1>2. /\ IsFiniteSet(used)
      /\ Cardinality(used) <= 1 + Cardinality(Updates)
  <2> DEFINE fds == {update[w].fd : w \in Updates}
  <2>1. used = fds \cup {dest}
    OBVIOUS
  <2>2. IsFiniteSet(fds) /\ Cardinality(fds) <= Cardinality(Updates)
    BY <1>1
  <2> HIDE DEF fds, used
  <2>3. Cardinality(fds) \in Nat
    BY <2>2, FS_CardinalityType
  <2>4. /\ IsFiniteSet(fds \cup {dest})
        /\ Cardinality(fds \cup {dest}) = Cardinality(fds)
             \/ Cardinality(fds \cup {dest}) = Cardinality(fds) + 1
    BY <2>2, FS_AddElement
  <2> QED  BY <1>0, <2>1, <2>2, <2>3, <2>4
<1>3. IsFiniteSet(Inodes) /\ Cardinality(Inodes) = 2 + Cardinality(Updates)
  BY <1>0, FS_Interval DEF Inodes
<1> SUFFICES ASSUME Inodes \subseteq used PROVE FALSE
  OBVIOUS
<1> HIDE DEF used
<1>4. Cardinality(Inodes) <= Cardinality(used)
  BY <1>2, FS_Subset
<1> QED  BY <1>0, <1>2, <1>3, <1>4, FS_CardinalityType

\* A new config.toml does not take the temporary file's place.
LEMMA InodeBesideTmp == \E i \in Inodes : i # tmp
<1>1. Cardinality(Updates) \in Nat
  BY FS_CardinalityType
<1>2. 1 \in Inodes /\ 2 \in Inodes
  BY <1>1 DEF Inodes
<1> QED  BY <1>2

\* A request that begins takes a free place; with others under way none is alone.
Begun(new, values, awaited) ==
  /\ ~Active(new) /\ update' \in [Updates -> Requests]
  /\ update'[new].at = "read" /\ update'[new].next = values
  /\ update'[new].fd = None /\ update'[new].awaited = awaited
  /\ update'[new].alone <=> \A w \in Updates : ~Active(w)
  /\ \A u \in Updates \ {new} :
       /\ Active(u) => /\ update'[u].at = update[u].at /\ update'[u].next = update[u].next
                       /\ update'[u].fd = update[u].fd /\ ~update'[u].alone
                       /\ update'[u].awaited = update[u].awaited
       /\ ~Active(u) => update'[u] = NoUpdate
  /\ overlapped' \in BOOLEAN
  /\ overlapped' <=> overlapped \/ \E w \in Updates : Active(w)

\* A new request is such a one.
LEMMA Begins ==
  ASSUME update \in [Updates -> Requests],
         NEW values \in Configs, NEW awaited \in BOOLEAN, BeginUpdate(values, awaited)
  PROVE  \E new \in Updates : Begun(new, values, awaited)
<1> DEFINE others == {u \in Updates : Active(u)}
           new == CHOOSE u \in Updates : u \notin others
           lone == others = {}
           begun == [NoUpdate EXCEPT !.at = "read", !.next = values,
                                     !.awaited = awaited, !.alone = lone]
<1>0. /\ others # Updates
      /\ update' = [u \in Updates |-> IF u = new THEN begun
            ELSE IF u \in others THEN [update[u] EXCEPT !.alone = FALSE] ELSE NoUpdate]
      /\ overlapped' = (overlapped \/ others # {})
  BY Zenon DEF BeginUpdate
<1>1. new \in Updates /\ new \notin others
  <2>0. others # Updates
    BY <1>0, Zenon
  <2>1. others \subseteq Updates
    OBVIOUS
  <2> HIDE DEF others
  <2>2. \E u \in Updates : u \notin others
    BY <2>0, <2>1, Zenon
  <2> QED  BY <2>2, Zenon
<1> HIDE DEF lone
<1>2. /\ begun \in Requests
      /\ begun.at = "read" /\ begun.next = values
      /\ begun.fd = None /\ begun.awaited = awaited /\ begun.alone = lone
  <2>1. lone \in BOOLEAN
    BY DEF lone
  <2> QED  BY <2>1 DEF NoUpdate, Requests
<1> HIDE DEF new, begun
<1>3. update'[new] = begun
  BY <1>0, <1>1
<1>4. \A u \in Updates \ {new} :
        /\ Active(u) => update'[u] = [update[u] EXCEPT !.alone = FALSE]
        /\ ~Active(u) => update'[u] = NoUpdate
  BY <1>0
<1>11. \A u \in Updates \ {new} :
         Active(u) => /\ update'[u].at = update[u].at /\ update'[u].next = update[u].next
                      /\ update'[u].fd = update[u].fd /\ ~update'[u].alone
                      /\ update'[u].awaited = update[u].awaited
  <2> SUFFICES ASSUME NEW u \in Updates \ {new}, Active(u)
               PROVE  /\ update'[u].at = update[u].at /\ update'[u].next = update[u].next
                      /\ update'[u].fd = update[u].fd /\ ~update'[u].alone
                      /\ update'[u].awaited = update[u].awaited
    OBVIOUS
  <2>1. update'[u] = [update[u] EXCEPT !.alone = FALSE] /\ update[u] \in Requests
    BY <1>4
  <2> QED  BY <2>1 DEF Requests
<1>6. ASSUME NEW u \in Updates PROVE [update[u] EXCEPT !.alone = FALSE] \in Requests
  BY DEF Requests
<1>7. update' \in [Updates -> Requests]
  BY <1>0, <1>2, <1>6, NoUpdateFields
<1>8. /\ update'[new].at = "read" /\ update'[new].next = values
      /\ update'[new].fd = None /\ update'[new].awaited = awaited
      /\ update'[new].alone = lone
  BY <1>2, <1>3
<1>9. lone <=> \A w \in Updates : ~Active(w)
  BY DEF lone
<1>10. lone <=> ~(others # {})
  BY DEF lone
<1> QED  BY <1>0, <1>1, <1>4, <1>7, <1>8, <1>9, <1>10,
             <1>11 DEF Begun

\* A step of one request leaves the others alone.
LEMMA Steps ==
  ASSUME update \in [Updates -> Requests], NEW u \in Updates, NEW from, NEW to \in Requests,
         Step(u, from, to)
  PROVE  /\ update' \in [Updates -> Requests] /\ update'[u] = to /\ update[u].at = from
         /\ \A w \in Updates \ {u} : update'[w] = update[w]
BY DEF Step

\* A request that ends leaves nothing, and answers the helper that waits for it.
LEMMA Ends ==
  ASSUME update \in [Updates -> Requests], settings \in Saves, NEW u \in Updates, EndUpdate(u)
  PROVE  /\ update' \in [Updates -> Requests] /\ update'[u] = NoUpdate
         /\ \A w \in Updates \ {u} : update'[w] = update[w]
         /\ settings' \in Saves
         /\ update[u].awaited => settings'.at = "done"
         /\ ~update[u].awaited => settings' = settings
BY NoUpdateFields DEF EndUpdate, Answered, Saves, Requests

\* The patch of the panel names every option.
LEMMA WholePatch == ASSUME NEW f \in Configs, NEW g \in Configs PROVE Patched(g, f) = f
BY DEF Configs, Patched

\* saveOptions: a new draft goes to a new helper or waits for the one that runs.
LEMMA Saved ==
  ASSUME panel \in Panels, settings \in Saves, NEW draft \in Configs,
         SaveMeetingOptions(draft)
  PROVE  /\ panel' \in Panels /\ settings' \in Saves
         /\ draft = panel.options => panel'.pending = panel.pending /\ settings' = settings
         /\ draft # panel.options /\ settings.at # "none" =>
              panel'.pending = draft /\ settings' = settings
         /\ draft # panel.options /\ settings.at = "none" =>
              /\ panel'.pending = None
              /\ settings'.at = "started" /\ settings'.values = draft
<1>1. CASE draft = panel.options
  BY <1>1 DEF SaveMeetingOptions, Panels
<1>2. CASE draft # panel.options
  <2> DEFINE shown == [panel EXCEPT !.draft = IF @ = None THEN None ELSE draft,
                                    !.options = draft]
  <2>1. shown \in Panels
    BY DEF Panels
  <2>2. FlushSettings(draft, shown)
    BY <1>2 DEF SaveMeetingOptions
  <2> HIDE DEF shown
  <2>3. CASE settings.at # "none"
    BY <1>2, <2>1, <2>2, <2>3 DEF FlushSettings, Panels
  <2>4. CASE settings.at = "none"
    BY <1>2, <2>1, <2>2, <2>4 DEF FlushSettings, Panels, Saves
  <2> QED  BY <2>3, <2>4
<1> QED  BY <1>1, <1>2

\* Request u goes from one stage to the next.
Moves(u, from, to) ==
  /\ update' \in [Updates -> Requests]
  /\ update[u].at = from /\ update'[u].at = to
  /\ update'[u].next = update[u].next
  /\ update'[u].awaited = update[u].awaited /\ update'[u].alone = update[u].alone
  /\ \A w \in Updates \ {u} : update'[w] = update[w]

\* What each stage of update_config changes in its request.
LEMMA Applied ==
  ASSUME TypeOK, Carried, NEW u \in Updates, ApplyPatch(u)
  PROVE  Moves(u, "read", "open") /\ update'[u].fd = update[u].fd
<1> DEFINE to == [update[u] EXCEPT !.at = "open", !.next = Patched(live, @)]
<1>0. update \in [Updates -> Requests] /\ live \in Configs
  BY DEF TypeOK
<1>1. update[u].next \in Configs /\ Patched(live, update[u].next) = update[u].next
  BY <1>0, WholePatch DEF Carried, Active, ApplyPatch, Step
<1>2. /\ to \in Requests /\ to.at = "open" /\ to.next = update[u].next /\ to.fd = update[u].fd
      /\ to.awaited = update[u].awaited /\ to.alone = update[u].alone
  BY <1>0, <1>1 DEF Requests
<1>3. Step(u, "read", to)
  BY DEF ApplyPatch
<1> HIDE DEF to
<1> QED  BY <1>0, <1>2, <1>3, Steps DEF Moves

\* It opens the temporary file that is there, or a new one.
LEMMA Opened ==
  ASSUME update \in [Updates -> Requests], tmp \in Inodes \cup {None}, NEW u \in Updates,
         OpenTmp(u)
  PROVE  /\ Moves(u, "open", "write") /\ update'[u].fd = tmp' /\ tmp' \in Inodes
         /\ tmp # None => tmp' = tmp
         /\ tmp = None => tmp' # dest /\ \A w \in Updates : update[w].fd # tmp'
         /\ content' = [content EXCEPT ![tmp'] = Empty]
<1> DEFINE used == {dest} \cup {update[w].fd : w \in Updates}
           free == CHOOSE j \in Inodes : j \notin used
           i == IF tmp # None THEN tmp ELSE free
           to == [update[u] EXCEPT !.at = "write", !.fd = i]
<1>1. free \in Inodes /\ free \notin used
  BY FreeInode, Zenon
<1>2. /\ Step(u, "open", to) /\ tmp' = i
      /\ content' = [content EXCEPT ![i] = Empty]
  BY Zenon DEF OpenTmp
<1> HIDE DEF free
<1>3. i \in Inodes
  BY <1>1
<1>4. /\ tmp # None => i = tmp
      /\ tmp = None => i # dest /\ \A w \in Updates : update[w].fd # i
  BY <1>1
<1> HIDE DEF i
<1>5. /\ to \in Requests /\ to.at = "write" /\ to.next = update[u].next /\ to.fd = i
      /\ to.awaited = update[u].awaited /\ to.alone = update[u].alone
  BY <1>3 DEF Requests
<1> HIDE DEF to
<1> QED  BY <1>2, <1>3, <1>4, <1>5, Steps DEF Moves

\* It keeps the file open.
LEMMA Wrote ==
  ASSUME update \in [Updates -> Requests], NEW u \in Updates, WriteTmp(u)
  PROVE  Moves(u, "write", "rename") /\ update'[u].fd = update[u].fd
<1> DEFINE to == [update[u] EXCEPT !.at = "rename"]
<1>1. /\ to \in Requests /\ to.at = "rename" /\ to.next = update[u].next
      /\ to.fd = update[u].fd
      /\ to.awaited = update[u].awaited /\ to.alone = update[u].alone
  BY DEF Requests
<1>2. Step(u, "write", to)
  BY DEF WriteTmp
<1> HIDE DEF to
<1> QED  BY <1>1, <1>2, Steps DEF Moves

\* It closes the file.
LEMMA Renamed ==
  ASSUME update \in [Updates -> Requests], NEW u \in Updates, Rename(u)
  PROVE  Moves(u, "rename", "publish") /\ update'[u].fd = None
<1> DEFINE to == [update[u] EXCEPT !.at = "publish", !.fd = None]
<1>1. /\ to \in Requests /\ to.at = "publish" /\ to.next = update[u].next /\ to.fd = None
      /\ to.awaited = update[u].awaited /\ to.alone = update[u].alone
  BY DEF Requests
<1>2. Step(u, "rename", to)
  BY DEF Rename
<1> HIDE DEF to
<1> QED  BY <1>1, <1>2, Steps DEF Moves

-----------------------------------------------------------------------------
(* Type correctness *)

\* A request that nobody waits for any more is still one.
LEMMA Unawaited == ASSUME NEW r \in Requests PROVE [r EXCEPT !.awaited = FALSE] \in Requests
BY DEF Requests

\* Every step keeps the types.
LEMMA TypeStep == TypeOK /\ Carried /\ Named /\ [Next]_vars => TypeOK'
<1> SUFFICES ASSUME TypeOK, Carried, Named, [Next]_vars PROVE TypeOK'
  OBVIOUS
<1> USE DefaultIsConfig DEF TypeOK, vars, daemon, files, helpers, ghosts
<1>1. CASE ShowSettings \/ ShowMeeting
  BY <1>1 DEF ShowSettings, ShowMeeting, Panels
<1>2. ASSUME NEW base \in Configs, NEW o \in Options, NEW v \in Values, Edit(base, o, v)
      PROVE  TypeOK'
  <2> DEFINE draft == [base EXCEPT ![o] = v]
  <2>1. draft \in Configs
    BY DEF Configs
  <2>2. panel' \in Panels /\ settings' \in Saves
    BY <1>2, <2>1, Saved DEF Edit
  <2>3. chosen' \in Configs \cup {None}
    BY <1>2, <2>1, Zenon DEF Edit
  <2>4. spent' \in [Kinds -> Nat] /\ \A k \in Kinds : spent'[k] <= Budget[k]
    BY <1>2, SpendOne DEF Edit, Kinds
  <2> QED  BY <1>2, <2>2, <2>3, <2>4 DEF Edit
<1>3. CASE EditOption \/ ToggleCaptureSource
  <2>1. panel.options \in Configs /\ (panel.draft # None => panel.draft \in Configs)
    BY DEF Panels
  <2> QED  BY <1>2, <1>3, <2>1 DEF EditOption, ToggleCaptureSource, Options
<1>4. CASE SnapshotStep
  <2>1. CASE Tick
    BY <2>1 DEF Tick, Refresh, NewSnapshot, NoSnapshot, Snapshots
  <2>2. CASE SnapshotState
    BY <2>2 DEF SnapshotState, Snapshots
  <2>3. CASE SnapshotConfig
    BY <2>3 DEF SnapshotConfig, Snapshots
  <2>4. CASE SnapshotExited
    <3>1. panel' \in Panels
      BY <2>4 DEF SnapshotExited, ApplySnapshot, Snapshots, Panels
    <3>2. snapshot' \in Snapshots
      BY <2>4 DEF SnapshotExited, NoSnapshot, Snapshots
    <3> QED  BY <2>4, <3>1, <3>2 DEF SnapshotExited
  <2> QED  BY <1>4, <2>1, <2>2, <2>3, <2>4 DEF SnapshotStep
<1>5. CASE SettingsExited
  <2>1. panel' \in Panels
    BY <1>5 DEF SettingsExited, Panels
  <2>2. settings' \in Saves
    BY <1>5 DEF SettingsExited, NoSettings, Panels, Saves
  <2>3. snapshot' \in Snapshots
    BY <1>5 DEF SettingsExited, Refresh, NewSnapshot, NoSnapshot, Snapshots
  <2> QED  BY <1>5, <2>1, <2>2, <2>3 DEF SettingsExited
<1>6. CASE ActionExited \/ ServeAction
  BY <1>6 DEF ActionExited, ServeAction, Refresh, NewSnapshot, NoSnapshot, Snapshots
<1>7. ASSUME NEW name \in {"start", "stop"}, RunAction(name) PROVE TypeOK'
  BY <1>7, SpendOne DEF RunAction, Kinds
<1>8. CASE KillSnapshot
  BY <1>8, SpendOne DEF KillSnapshot, Kinds, NoSnapshot, Snapshots
<1>9. CASE SendUpdate
  <2>1. settings.values \in Configs
    BY <1>9 DEF SendUpdate, Carried
  <2>2. update' \in [Updates -> Requests] /\ overlapped' \in BOOLEAN
    BY <1>9, <2>1, Begins DEF SendUpdate, Begun
  <2>3. settings' \in Saves
    BY <1>9 DEF SendUpdate, Saves
  <2> QED  BY <1>9, <2>2, <2>3 DEF SendUpdate
<1>10. CASE NotRunning
  BY <1>10 DEF NotRunning, Answered, Saves
<1>11. CASE KillSettings
  <2>1. update' \in [Updates -> Requests]
    <3>1. ASSUME NEW u \in Updates PROVE [update[u] EXCEPT !.awaited = FALSE] \in Requests
      <4>1. update[u] \in Requests
        OBVIOUS
      <4> QED  BY <4>1, Unawaited
    <3> QED  BY <1>11, <3>1 DEF KillSettings
  <2> QED  BY <1>11, <2>1, SpendOne DEF KillSettings, Kinds, Answered, Saves
<1>12. CASE EditElsewhere
  <2>1. PICK base \in {live, DefaultConfig}, o \in Options, v \in Values :
          /\ BeginUpdate([base EXCEPT ![o] = v], FALSE)
          /\ chosen' = IF Quiet /\ base = live THEN [base EXCEPT ![o] = v] ELSE None
    BY <1>12 DEF EditElsewhere
  <2>2. [base EXCEPT ![o] = v] \in Configs
    BY DEF Configs
  <2>3. update' \in [Updates -> Requests] /\ overlapped' \in BOOLEAN
    BY <2>1, <2>2, Begins DEF Begun
  <2>4. spent' \in [Kinds -> Nat] /\ \A k \in Kinds : spent'[k] <= Budget[k]
    BY <1>12, SpendOne DEF EditElsewhere, Kinds
  <2>5. chosen' \in Configs \cup {None}
    BY <2>1, <2>2
  <2> QED  BY <1>12, <2>3, <2>4, <2>5 DEF EditElsewhere
<1>13. ASSUME NEW u \in Updates, ApplyPatch(u) PROVE TypeOK'
  <2>2. update' \in [Updates -> Requests]
    BY <1>13, Applied DEF Moves
  <2> QED  BY <1>13, <2>2 DEF ApplyPatch, Rest
<1>14. ASSUME NEW u \in Updates, OpenTmp(u) PROVE TypeOK'
  <2>1. /\ update' \in [Updates -> Requests] /\ tmp' \in Inodes
        /\ content' = [content EXCEPT ![tmp'] = Empty]
    BY <1>14, Opened, Zenon DEF Moves
  <2> QED  BY <1>14, <2>1 DEF OpenTmp, Rest
<1>15. ASSUME NEW u \in Updates, WriteTmp(u) PROVE TypeOK'
  <2>1. update[u].next \in Configs
    BY <1>15 DEF WriteTmp, Step, Carried, Active
  <2>3. update' \in [Updates -> Requests]
    BY <1>15, Wrote DEF Moves
  <2>4. content' \in [Inodes -> Configs \cup {None, Empty, Torn}]
    BY <1>15, <2>1 DEF WriteTmp, Written
  <2> QED  BY <1>15, <2>3, <2>4 DEF WriteTmp, Rest
<1>16. ASSUME NEW u \in Updates, Rename(u) PROVE TypeOK'
  <2>2. update' \in [Updates -> Requests]
    BY <1>16, Renamed, Zenon DEF Moves
  <2>3. content' \in [Inodes -> Configs \cup {None, Empty, Torn}]
    BY <1>16 DEF Rename
  <2> QED  BY <1>16, <2>2, <2>3 DEF Rename, Rest
<1>17. ASSUME NEW u \in Updates, Publish(u) PROVE TypeOK'
  <2>1. update[u].next \in Configs
    BY <1>17 DEF Publish, Carried, Active
  <2> QED  BY <1>17, <2>1, Ends DEF Publish, Rest
<1>18. ASSUME NEW u \in Updates, RenameFails(u) PROVE TypeOK'
  BY <1>18, Ends DEF RenameFails, Rest
<1>19. ASSUME NEW u \in Updates, Fail(u) PROVE TypeOK'
  BY <1>19, Ends, SpendOne DEF Fail, Rest, Kinds
<1>20. CASE Crash
  <2>1. update' \in [Updates -> Requests] /\ settings' \in Saves
    BY <1>20, NoUpdateFields DEF Crash, Answered, Saves
  <2>2. spent' \in [Kinds -> Nat] /\ \A k \in Kinds : spent'[k] <= Budget[k]
    BY <1>20, SpendOne DEF Crash, Kinds
  <2> QED  BY <1>20, <2>1, <2>2 DEF Crash
<1>21. CASE Startup
  <2>1. CASE dest = None
    <3>1. dest' \in Inodes
      BY <1>21, <2>1, InodeBesideTmp, Zenon DEF Startup
    <3>2. content' = [content EXCEPT ![dest'] = DefaultConfig] /\ live' = DefaultConfig
      BY <1>21, <2>1 DEF Startup
    <3> QED  BY <1>21, <3>1, <3>2 DEF Startup
  <2>2. CASE dest # None
    <3>1. ASSUME content[dest] = None PROVE FALSE
      BY <3>1, <2>2 DEF Named
    <3> QED  BY <1>21, <2>2, <3>1 DEF Startup
  <2> QED  BY <2>1, <2>2
<1>22. CASE UNCHANGED vars
  BY <1>22
<1> QED
  BY <1>1, <1>3, <1>4, <1>5, <1>6, <1>7, <1>8, <1>9, <1>10, <1>11, <1>12, <1>13, <1>14,
     <1>15, <1>16, <1>17, <1>18, <1>19, <1>20, <1>21, <1>22
     DEF Next, SettingsStep, ActionStep, UserStep, UpdateStep

-----------------------------------------------------------------------------
(* The kinds of step *)

\* Nothing the daemon has, or that its requests have done, changes.
Elsewhere == UNCHANGED <<up, live, update, files, overlapped>>

\* Neither does any edit that is on its way.
Aside == Elsewhere /\ UNCHANGED <<settings, chosen>> /\ panel'.pending = panel.pending

Edited == \E base \in Configs, o \in Options, v \in Values : Edit(base, o, v)

Beginning(values, awaited) == /\ up /\ UNCHANGED <<up, live, files>>
                              /\ BeginUpdate(values, awaited)

Handled == \/ \E u \in Updates : UpdateStep(u) \/ Fail(u)
           \/ KillSettings \/ Crash \/ Startup

\* The steps, those together that leave every edit where it is.
LEMMA Cases ==
  TypeOK /\ [Next]_vars =>
    Aside \/ Edited \/ SettingsExited \/ SendUpdate \/ NotRunning \/ EditElsewhere \/ Handled
<1> SUFFICES ASSUME TypeOK, [Next]_vars
             PROVE  Aside \/ Edited \/ SettingsExited \/ SendUpdate \/ NotRunning
                      \/ EditElsewhere \/ Handled
  OBVIOUS
<1> USE DEF Aside, Elsewhere, daemon, files, helpers, ghosts
<1>1. CASE ShowSettings \/ ShowMeeting
  BY <1>1 DEF ShowSettings, ShowMeeting, TypeOK, Panels
<1>2. CASE EditOption \/ ToggleCaptureSource
  <2>1. panel.options \in Configs /\ (panel.draft # None => panel.draft \in Configs)
    BY DEF TypeOK, Panels
  <2> QED  BY <1>2, <2>1 DEF EditOption, ToggleCaptureSource, Edited, Options
<1>3. CASE Tick \/ SnapshotState \/ SnapshotConfig
  BY <1>3 DEF Tick, SnapshotState, SnapshotConfig
<1>4. CASE SnapshotExited
  BY <1>4 DEF SnapshotExited, ApplySnapshot, TypeOK, Panels
<1>5. CASE ActionExited \/ ServeAction
  BY <1>5 DEF ActionExited, ServeAction
<1>6. ASSUME NEW name, RunAction(name) PROVE Aside
  BY <1>6 DEF RunAction
<1>7. CASE KillSnapshot
  BY <1>7 DEF KillSnapshot
<1>8. CASE UNCHANGED vars
  BY <1>8 DEF vars
<1> QED
  BY <1>1, <1>2, <1>3, <1>4, <1>5, <1>6, <1>7, <1>8
     DEF Next, SnapshotStep, SettingsStep, ActionStep, UserStep, Handled

\* The steps, those together that the daemon does not notice.
LEMMA DaemonCases ==
  TypeOK /\ Carried /\ [Next]_vars =>
    \/ Elsewhere
    \/ \E values \in Configs, awaited \in BOOLEAN : Beginning(values, awaited)
    \/ Handled
<1> SUFFICES ASSUME TypeOK, Carried, [Next]_vars
             PROVE  \/ Elsewhere
                    \/ \E values \in Configs, awaited \in BOOLEAN : Beginning(values, awaited)
                    \/ Handled
  OBVIOUS
<1>1. CASE Aside \/ NotRunning
  BY <1>1 DEF Aside, NotRunning, Elsewhere, daemon
<1>2. CASE Edited
  BY <1>2 DEF Edited, Edit, Elsewhere, daemon
<1>3. CASE SettingsExited
  BY <1>3 DEF SettingsExited, Elsewhere, daemon, ghosts
<1>4. CASE SendUpdate
  <2>1. settings.values \in Configs
    BY <1>4 DEF SendUpdate, Carried
  <2> QED  BY <1>4, <2>1 DEF SendUpdate, Beginning
<1>5. CASE EditElsewhere
  <2>1. PICK base \in {live, DefaultConfig}, o \in Options, v \in Values :
          BeginUpdate([base EXCEPT ![o] = v], FALSE)
    BY <1>5 DEF EditElsewhere
  <2>2. [base EXCEPT ![o] = v] \in Configs
    BY DefaultIsConfig DEF Configs, TypeOK
  <2>3. Beginning([base EXCEPT ![o] = v], FALSE)
    BY <1>5, <2>1 DEF EditElsewhere, Beginning
  <2> QED  BY <2>2, <2>3
<1> QED  BY <1>1, <1>2, <1>3, <1>4, <1>5, Cases

\* A killed helper leaves its request as it is.
LEMMA Killed ==
  ASSUME update \in [Updates -> Requests], KillSettings
  PROVE  /\ \A u \in Updates : /\ update'[u].at = update[u].at /\ update'[u].next = update[u].next
                               /\ update'[u].fd = update[u].fd /\ ~update'[u].awaited
                               /\ update'[u].alone = update[u].alone
                               /\ update[u] = NoUpdate => update'[u] = NoUpdate
         /\ UNCHANGED <<up, live, files, overlapped>>
<1> SUFFICES ASSUME NEW u \in Updates
             PROVE  /\ update'[u].at = update[u].at /\ update'[u].next = update[u].next
                    /\ update'[u].fd = update[u].fd /\ ~update'[u].awaited
                    /\ update'[u].alone = update[u].alone
                    /\ update[u] = NoUpdate => update'[u] = NoUpdate
  BY DEF KillSettings
<1>1. update'[u] = [update[u] EXCEPT !.awaited = FALSE] /\ update[u] \in Requests
  BY DEF KillSettings
<1>2. ASSUME NEW r \in Requests, ~r.awaited PROVE [r EXCEPT !.awaited = FALSE] = r
  BY <1>2 DEF Requests
<1>3. update[u] = NoUpdate => update'[u] = NoUpdate
  BY <1>1, <1>2, NoUpdateFields
<1> QED  BY <1>1, <1>3 DEF Requests

-----------------------------------------------------------------------------
(* The requests and the files *)

\* Every step keeps what the requests hold and what the files hold.
LEMMA DaemonStep ==
  TypeOK /\ Carried /\ Resting /\ Holding /\ Single /\ Named /\ Reached /\ Served /\ [Next]_vars
    => (Resting /\ Holding /\ Single /\ Named /\ Reached /\ Served)'
<1> SUFFICES ASSUME TypeOK, Carried, Resting, Holding, Single, Named, Reached, Served,
                    [Next]_vars
             PROVE  (Resting /\ Holding /\ Single /\ Named /\ Reached /\ Served)'
  OBVIOUS
<1> USE NoUpdateFields
<1>0. update \in [Updates -> Requests]
  BY DEF TypeOK
<1>13. content \in [Inodes -> Configs \cup {None, Empty, Torn}]
  BY DEF TypeOK
<1>1. CASE Elsewhere
  BY <1>1 DEF Elsewhere, files, Active, Resting, Holding, Single, Named, Reached, Served
<1>2. ASSUME NEW values \in Configs, NEW awaited \in BOOLEAN,
            Beginning(values, awaited)
      PROVE  (Resting /\ Holding /\ Single /\ Named /\ Reached /\ Served)'
  <2>1. PICK new \in Updates : Begun(new, values, awaited)
    BY <1>0, <1>2, Begins DEF Beginning
  <2>2. up /\ UNCHANGED <<up, live, files>>
    BY <1>2 DEF Beginning
  <2>4. Resting'
    BY <1>0, <2>1, <2>2 DEF Resting, Active, Begun, files
  <2>5. Holding'
    BY <1>0, <2>1, <2>2 DEF Holding, Active, Begun, files
  <2>6. Single'
    BY <1>0, <2>1, <2>2 DEF Single, Resting, Begun, Active, files
  <2>7. Named'
    BY <1>0, <2>1, <2>2 DEF Named, Active, Begun, files
  <2>8. Reached'
    BY <1>0, <2>1, <2>2 DEF Reached, Resting, Begun, Active, files
  <2>9. Served'
    BY <1>0, <2>1, <2>2 DEF Served, Active, Begun, files
  <2> QED  BY <2>4, <2>5, <2>6, <2>7, <2>8, <2>9
<1>3. CASE KillSettings
  <2>1. /\ \A u \in Updates :
             /\ update'[u].at = update[u].at /\ update'[u].next = update[u].next
             /\ update'[u].fd = update[u].fd /\ ~update'[u].awaited
             /\ update'[u].alone = update[u].alone
             /\ update[u] = NoUpdate => update'[u] = NoUpdate
        /\ UNCHANGED <<up, live, files, overlapped>>
    BY <1>3, Killed DEF TypeOK
  <2> QED  BY <1>0, <2>1 DEF files, Active, Resting, Holding, Single, Named, Reached, Served
<1>4. ASSUME NEW u \in Updates, ApplyPatch(u)
      PROVE  (Resting /\ Holding /\ Single /\ Named /\ Reached /\ Served)'
  <2>1. Moves(u, "read", "open") /\ update'[u].fd = update[u].fd
    BY <1>4, Applied
  <2>2. UNCHANGED <<up, live, files, overlapped>>
    BY <1>4 DEF ApplyPatch, Rest, files
  <2>3. \A w \in Updates \ {u} : Active(w) => ~update[w].alone
    BY <2>1 DEF Single, Active, Moves
  <2>4. Resting'
    BY <1>0, <2>1, <2>2, <2>3 DEF Resting, Active, files, Moves
  <2>5. Holding'
    BY <1>0, <2>1, <2>2, <2>3 DEF Holding, Active, files, Moves
  <2>6. Single'
    BY <1>0, <2>1, <2>2, <2>3 DEF Single, Active, files, Moves
  <2>7. Named'
    BY <1>0, <2>1, <2>2, <2>3 DEF Named, Active, files, Moves
  <2>8. Reached'
    BY <1>0, <2>1, <2>2, <2>3 DEF Reached, Active, files, Moves
  <2>9. Served'
    BY <1>0, <2>1, <2>2, <2>3 DEF Served, Active, files, Moves
  <2> QED  BY <2>4, <2>5, <2>6, <2>7, <2>8, <2>9
<1>5. ASSUME NEW u \in Updates, OpenTmp(u)
      PROVE  (Resting /\ Holding /\ Single /\ Named /\ Reached /\ Served)'
  <2>1. /\ Moves(u, "open", "write") /\ update'[u].fd = tmp' /\ tmp' \in Inodes
        /\ tmp # None => tmp' = tmp
        /\ tmp = None => tmp' # dest /\ \A w \in Updates : update[w].fd # tmp'
        /\ content' = [content EXCEPT ![tmp'] = Empty]
    BY <1>5, Opened DEF TypeOK
  <2>2. UNCHANGED <<up, live, dest, overlapped>>
    BY <1>5 DEF OpenTmp, Rest, files
  <2>3. \A w \in Updates \ {u} : Active(w) => ~update[w].alone
    BY <2>1 DEF Single, Active, Moves
  <2>4. Resting'
    BY <1>0, <2>1, <2>2, <2>3 DEF Resting, Active, files, Moves
  <2>5. Holding'
    BY <1>0, <2>1, <2>2, <2>3 DEF Holding, Active, files, Moves
  <2>6. Single'
    BY <1>0, <2>1, <2>2, <2>3 DEF Single, Active, files, Moves
  <2>7. Named'
    <3>1. tmp' # dest
      BY <2>1 DEF Named
    <3> QED  BY <1>13, <2>1, <2>2, <3>1 DEF Named
  <2>8. Reached'
    <3>1. content'[tmp'] = Empty
      BY <1>13, <2>1
    <3> QED  BY <1>0, <2>1, <2>2, <2>3, <3>1 DEF Reached, Active, Moves
  <2>9. Served'
    <3>1. tmp' # dest
      BY <2>1 DEF Named
    <3>2. content'[dest] = content[dest]
      BY <1>13, <2>1, <3>1
    <3> QED  BY <1>0, <2>1, <2>2, <3>2 DEF Served, Moves
  <2> QED  BY <2>4, <2>5, <2>6, <2>7, <2>8, <2>9
<1>6. ASSUME NEW u \in Updates, WriteTmp(u)
      PROVE  (Resting /\ Holding /\ Single /\ Named /\ Reached /\ Served)'
  <2>1. Moves(u, "write", "rename") /\ update'[u].fd = update[u].fd
    BY <1>6, Wrote DEF TypeOK
  <2>2. UNCHANGED <<up, live, tmp, dest, overlapped>>
    BY <1>6 DEF WriteTmp, Rest, files
  <2>3. \A w \in Updates \ {u} : Active(w) => ~update[w].alone
    BY <2>1 DEF Single, Active, Moves
  <2>4. Resting'
    BY <1>0, <2>1, <2>2, <2>3 DEF Resting, Active, files, Moves
  <2>5. Holding'
    BY <1>0, <2>1, <2>2, <2>3 DEF Holding, Active, files, Moves
  <2>6. Single'
    BY <1>0, <2>1, <2>2, <2>3 DEF Single, Active, files, Moves
  <2>7. Named'
    <3>1. update[u].next \in Configs
      BY <2>1 DEF Carried, Active, Moves
    <3>2. PICK text : /\ text \in Written(update[u].next, content[update[u].fd])
                      /\ content' = [content EXCEPT ![update[u].fd] = text]
      BY <1>6 DEF WriteTmp
    <3>3. text \in Configs \cup {Torn}
      BY <3>1, <3>2 DEF Written
    <3> QED  BY <1>13, <2>2, <3>2, <3>3 DEF Named
  <2>8. Reached'
    <3>1. update[u].next \in Configs
      BY <2>1 DEF Carried, Active, Moves
    <3>2. PICK text : /\ text \in Written(update[u].next, content[update[u].fd])
                      /\ content' = [content EXCEPT ![update[u].fd] = text]
      BY <1>6 DEF WriteTmp
    <3>3. CASE update[u].alone
      <4>1. update[u].fd = tmp /\ content[tmp] = Empty
        BY <2>1, <3>3 DEF Moves, Reached, Active
      <4>2. text = update[u].next
        BY <3>2, <4>1 DEF Written
      <4>3. tmp \in Inodes
        BY <2>1, <4>1 DEF TypeOK, Holding, Moves
      <4>4. content'[tmp] = update[u].next
        BY <1>13, <3>2, <4>1, <4>2, <4>3
      <4> QED  BY <1>0, <2>1, <2>2, <2>3, <4>1, <4>4 DEF Moves, Reached, Active
    <3>4. CASE ~update[u].alone
      BY <1>0, <2>1, <2>2, <2>3, <3>4 DEF Moves, Reached, Active
    <3> QED  BY <3>3, <3>4
  <2>9. Served'
    <3>1. CASE update[u].alone
      <4>1. update[u].fd # dest
        BY <2>1, <3>1 DEF Moves, Reached, Active, Named, Holding
      <4>2. content'[dest] = content[dest]
        BY <1>6, <1>13, <4>1 DEF WriteTmp
      <4> QED  BY <1>0, <2>1, <2>2, <4>2 DEF Moves, Served
    <3>2. CASE ~update[u].alone
      BY <2>1, <2>2, <3>2 DEF Moves, Single, Active, Served
    <3> QED  BY <3>1, <3>2
  <2> QED  BY <2>4, <2>5, <2>6, <2>7, <2>8, <2>9
<1>7. ASSUME NEW u \in Updates, Rename(u)
      PROVE  (Resting /\ Holding /\ Single /\ Named /\ Reached /\ Served)'
  <2>1. Moves(u, "rename", "publish") /\ update'[u].fd = None
    BY <1>7, Renamed DEF TypeOK
  <2>2. UNCHANGED <<up, live, overlapped>>
    BY <1>7 DEF Rename, Rest, files
  <2>3. \A w \in Updates \ {u} : Active(w) => ~update[w].alone
    BY <2>1 DEF Single, Active, Moves
  <2>4. Resting'
    BY <1>0, <2>1, <2>2, <2>3 DEF Resting, Active, files, Moves
  <2>5. Holding'
    BY <1>0, <2>1, <2>2, <2>3 DEF Holding, Active, files, Moves
  <2>6. Single'
    BY <1>0, <2>1, <2>2, <2>3 DEF Single, Active, files, Moves
  <2>7. Named'
    <3>1. tmp \in Inodes /\ tmp # dest /\ dest' = tmp /\ tmp' = None
      BY <1>7 DEF Rename, TypeOK, Named
    <3>2. content'[tmp] = content[tmp]
      BY <1>7, <3>1 DEF Rename
    <3> QED  BY <2>2, <3>1, <3>2 DEF Named
  <2>8. Reached'
    <3>1. tmp \in Inodes /\ tmp # dest /\ dest' = tmp /\ tmp' = None
      BY <1>7 DEF Rename, TypeOK, Named
    <3>2. content'[tmp] = content[tmp]
      BY <1>7, <3>1 DEF Rename
    <3> QED  BY <1>0, <2>1, <2>2, <2>3, <3>1, <3>2 DEF Reached, Active, Moves
  <2>9. Served'
    <3> SUFFICES ASSUME ~overlapped PROVE Served'
      BY <2>2 DEF Served
    <3>1. tmp \in Inodes /\ tmp # dest /\ dest' = tmp /\ tmp' = None
      BY <1>7 DEF Rename, TypeOK, Named
    <3>2. content'[tmp] = content[tmp]
      BY <1>7, <3>1 DEF Rename
    <3>3. content[tmp] = update[u].next /\ update[u].next \in Configs
      BY <2>1 DEF Moves, Single, Reached, Carried, Active
    <3> QED  BY <2>1, <3>1, <3>2, <3>3 DEF Moves, Served
  <2> QED  BY <2>4, <2>5, <2>6, <2>7, <2>8, <2>9
<1>8. ASSUME NEW u \in Updates, Publish(u)
      PROVE  (Resting /\ Holding /\ Single /\ Named /\ Reached /\ Served)'
  <2>1. /\ update'[u] = NoUpdate /\ update' \in [Updates -> Requests]
        /\ \A w \in Updates \ {u} : update'[w] = update[w]
    BY <1>8, Ends DEF TypeOK, Publish
  <2>2. UNCHANGED <<up, files>>
    BY <1>8 DEF Publish, Rest, files
  <2>3. \A w \in Updates \ {u} : Active(w) => ~update[w].alone
    BY <1>8 DEF Single, Active, Publish
  <2>4. Resting'
    BY <1>0, <2>1, <2>2, <2>3 DEF Resting, Active, files
  <2>5. Holding'
    BY <1>0, <2>1, <2>2, <2>3 DEF Holding, Active, files
  <2>6. Single'
    <3>1. update[u].at = "publish" /\ overlapped' = (overlapped /\ ~update[u].alone)
      BY <1>8 DEF Publish
    <3>2. CASE update[u].alone
      BY <1>0, <2>1, <3>1, <3>2 DEF Single, Active
    <3>3. CASE ~update[u].alone
      BY <1>0, <2>1, <2>3, <3>1, <3>3 DEF Single, Active
    <3> QED  BY <3>2, <3>3
  <2>7. Named'
    BY <1>0, <2>1, <2>2, <2>3 DEF Named, Active, files
  <2>8. Reached'
    BY <1>0, <2>1, <2>2, <2>3 DEF Reached, Active, files
  <2>9. Served'
    <3> SUFFICES ASSUME ~overlapped' PROVE Served'
      BY DEF Served
    <3>1. update[u].alone
      BY <1>8 DEF Publish, Single, Active
    <3>2. content[dest] = update[u].next /\ update[u].next \in Configs
      BY <1>8, <3>1 DEF Publish, Reached, Carried, Active
    <3> QED  BY <1>8, <2>2, <3>2 DEF Publish, Served, files
  <2> QED  BY <2>4, <2>5, <2>6, <2>7, <2>8, <2>9
<1>9. ASSUME NEW u \in Updates, RenameFails(u)
      PROVE  (Resting /\ Holding /\ Single /\ Named /\ Reached /\ Served)'
  <2>1. /\ update'[u] = NoUpdate /\ update' \in [Updates -> Requests]
        /\ \A w \in Updates \ {u} : update'[w] = update[w]
    BY <1>9, Ends DEF TypeOK, RenameFails
  <2>2. UNCHANGED <<up, live, files, overlapped>>
    BY <1>9 DEF RenameFails, Rest, files
  <2>3. \A w \in Updates \ {u} : Active(w) => ~update[w].alone
    BY <1>9 DEF Single, Active, RenameFails
  <2>4. Resting'
    BY <1>0, <2>1, <2>2, <2>3 DEF Resting, Active, files
  <2>5. Holding'
    BY <1>0, <2>1, <2>2, <2>3 DEF Holding, Active, files
  <2>6. Single'
    BY <1>0, <2>1, <2>2, <2>3 DEF Single, Active, files
  <2>7. Named'
    BY <1>0, <2>1, <2>2, <2>3 DEF Named, Active, files
  <2>8. Reached'
    BY <1>0, <2>1, <2>2, <2>3 DEF Reached, Active, files
  <2>9. Served'
    <3>1. overlapped
      BY <1>9 DEF RenameFails, Single, Reached, Holding, Active
    <3> QED  BY <2>2, <3>1 DEF Served
  <2> QED  BY <2>4, <2>5, <2>6, <2>7, <2>8, <2>9
<1>10. ASSUME NEW u \in Updates, Fail(u)
      PROVE  (Resting /\ Holding /\ Single /\ Named /\ Reached /\ Served)'
  <2>1. /\ update'[u] = NoUpdate /\ update' \in [Updates -> Requests]
        /\ \A w \in Updates \ {u} : update'[w] = update[w]
    BY <1>10, Ends DEF TypeOK, Fail
  <2>2. UNCHANGED <<up, live, files, overlapped>>
    BY <1>10 DEF Fail, Rest, files
  <2>3. \A w \in Updates \ {u} : Active(w) => ~update[w].alone
    BY <1>10 DEF Single, Active, Fail
  <2>4. Resting'
    BY <1>0, <2>1, <2>2, <2>3 DEF Resting, Active, files
  <2>5. Holding'
    BY <1>0, <2>1, <2>2, <2>3 DEF Holding, Active, files
  <2>6. Single'
    BY <1>0, <2>1, <2>2, <2>3 DEF Single, Active, files
  <2>7. Named'
    BY <1>0, <2>1, <2>2, <2>3 DEF Named, Active, files
  <2>8. Reached'
    BY <1>0, <2>1, <2>2, <2>3 DEF Reached, Active, files
  <2>9. Served'
    <3>1. update[u].at # "publish"
      BY <1>10 DEF Fail
    <3> QED  BY <1>0, <2>1, <2>2, <3>1 DEF Served, files
  <2> QED  BY <2>4, <2>5, <2>6, <2>7, <2>8, <2>9
<1>11. CASE Crash
  BY <1>11 DEF Crash, files, Active, Resting, Holding, Single, Named, Reached, Served
<1>12. CASE Startup
  <2>1. \A u \in Updates : update[u] = NoUpdate
    BY <1>12 DEF Startup, Resting
  <2>2. up' /\ UNCHANGED <<update, tmp>>
    BY <1>12 DEF Startup
  <2>3. Resting' /\ Holding' /\ Single' /\ Reached'
    BY <2>1, <2>2 DEF Resting, Holding, Single, Reached, Active
  <2>4. CASE dest = None
    <3>1. dest' \in Inodes /\ dest' # tmp
      BY <1>12, <2>4, InodeBesideTmp, Zenon DEF Startup
    <3>2. content' = [content EXCEPT ![dest'] = DefaultConfig] /\ live' = DefaultConfig
      BY <1>12, <2>4 DEF Startup
    <3> QED  BY <1>13, <2>2, <2>3, <3>1, <3>2, DefaultIsConfig DEF Named, Served
  <2>5. CASE dest # None
    <3>1. content[dest] \in Configs \cup {Empty}
      BY <1>12, <1>13, <2>5 DEF Startup, Named, TypeOK
    <3> QED  BY <1>12, <2>3, <2>5, <3>1 DEF Startup, Named, Served
  <2> QED  BY <2>4, <2>5
<1> QED  BY <1>1, <1>2, <1>3, <1>4, <1>5, <1>6, <1>7, <1>8, <1>9, <1>10, <1>11, <1>12,
             DaemonCases DEF Handled, UpdateStep

-----------------------------------------------------------------------------
(* The edits on their way *)

\* Every step keeps the configurations on their way whole.
LEMMA CarriedStep == TypeOK /\ Carried /\ [Next]_vars => Carried'
<1> SUFFICES ASSUME TypeOK, Carried, [Next]_vars PROVE Carried'
  OBVIOUS
<1> USE NoUpdateFields DEF Carried, Active
<1>0. update \in [Updates -> Requests]
  BY DEF TypeOK
<1>17. panel \in Panels /\ settings \in Saves
  BY DEF TypeOK
<1>1. CASE Aside
  BY <1>1 DEF Aside, Elsewhere, files
<1>2. ASSUME NEW base \in Configs, NEW o \in Options, NEW v \in Values,
            Edit(base, o, v)
      PROVE  Carried'
  <2> DEFINE draft == [base EXCEPT ![o] = v]
  <2>1. draft \in Configs /\ SaveMeetingOptions(draft)
    BY <1>2 DEF Edit, Configs
  <2> HIDE DEF draft
  <2>2. /\ settings' \in Saves
        /\ draft = panel.options => panel'.pending = panel.pending /\ settings' = settings
        /\ draft # panel.options /\ settings.at # "none" =>
             panel'.pending = draft /\ settings' = settings
        /\ draft # panel.options /\ settings.at = "none" =>
             /\ panel'.pending = None
             /\ settings'.at = "started" /\ settings'.values = draft
    BY <1>17, <2>1, Saved
  <2>3. UNCHANGED <<daemon, overlapped>>
    BY <1>2 DEF Edit
  <2> QED  BY <1>0, <1>17, <2>1, <2>2, <2>3 DEF daemon
<1>3. CASE SettingsExited
  <2>1. panel.pending # None => settings'.values = panel.pending /\ panel.pending \in Configs
    BY <1>3, <1>17 DEF SettingsExited, Panels
  <2>2. panel.pending = None => settings'.at = "none"
    BY <1>3 DEF SettingsExited, NoSettings
  <2>3. UNCHANGED update
    BY <1>3 DEF SettingsExited, daemon
  <2> QED  BY <1>0, <2>1, <2>2, <2>3
<1>4. CASE SendUpdate
  <2>8. settings.values \in Configs
    BY <1>4 DEF SendUpdate, Carried
  <2>9. BeginUpdate(settings.values, TRUE)
    BY <1>4 DEF SendUpdate
  <2>1. PICK new \in Updates : Begun(new, settings.values, TRUE)
    BY <1>0, <2>8, <2>9, Begins, Zenon
  <2>2. /\ settings.at = "started" /\ settings'.at = "sent" /\ settings'.values = None
        /\ up /\ UNCHANGED <<up, live, files, panel, chosen>>
    BY <1>4 DEF SendUpdate
  <2> QED  BY <1>0, <2>1, <2>2, <2>8 DEF Begun
<1>5. CASE NotRunning
  BY <1>5 DEF NotRunning, daemon, Answered
<1>6. CASE EditElsewhere
  <2>3. PICK from \in {live, DefaultConfig}, o \in Options, v \in Values :
          /\ BeginUpdate([from EXCEPT ![o] = v], FALSE)
          /\ chosen' = IF Quiet /\ from = live THEN [from EXCEPT ![o] = v] ELSE None
    BY <1>6 DEF EditElsewhere
  <2> DEFINE draft == [from EXCEPT ![o] = v]
  <2>8. draft \in Configs
    BY DefaultIsConfig DEF Configs, TypeOK
  <2>9. BeginUpdate(draft, FALSE)
    BY <2>3
  <2>5. chosen' = IF Quiet /\ from = live THEN draft ELSE None
    BY <2>3
  <2> HIDE DEF draft
  <2>1. PICK new \in Updates : Begun(new, draft, FALSE)
    BY <1>0, <2>8, <2>9, Begins, Zenon
  <2>2. up /\ UNCHANGED <<up, live, files, panel, settings>>
    BY <1>6 DEF EditElsewhere, helpers
  <2> QED  BY <1>0, <2>1, <2>2, <2>8 DEF Begun
<1>7. CASE KillSettings
  <2>1. /\ \A u \in Updates :
             /\ update'[u].at = update[u].at /\ update'[u].next = update[u].next
             /\ ~update'[u].awaited
        /\ UNCHANGED <<up, live, files, overlapped>>
    BY <1>7, Killed DEF TypeOK
  <2>2. /\ settings'.at = "done" /\ settings' \in Saves /\ chosen' = None
        /\ UNCHANGED panel
    BY <1>7 DEF KillSettings, Answered, Saves
  <2> QED  BY <1>0, <2>1, <2>2
<1>8. ASSUME NEW u \in Updates, ApplyPatch(u)
      PROVE  Carried'
  <2>1. Moves(u, "read", "open") /\ update'[u].fd = update[u].fd
    BY <1>8, Applied DEF TypeOK
  <2>2. UNCHANGED <<panel, settings, chosen, up, live, files, overlapped>>
    BY <1>8 DEF ApplyPatch, Rest, files
  <2> QED  BY <1>0, <2>1, <2>2 DEF Moves
<1>9. ASSUME NEW u \in Updates, OpenTmp(u)
      PROVE  Carried'
  <2>1. Moves(u, "open", "write")
    BY <1>9, Opened DEF TypeOK
  <2>2. UNCHANGED <<panel, settings, chosen, up, live, dest, overlapped>>
    BY <1>9 DEF OpenTmp, Rest, files
  <2> QED  BY <1>0, <2>1, <2>2 DEF Moves
<1>10. ASSUME NEW u \in Updates, WriteTmp(u)
      PROVE  Carried'
  <2>1. Moves(u, "write", "rename")
    BY <1>10, Wrote DEF TypeOK
  <2>2. UNCHANGED <<panel, settings, chosen, up, live, dest, overlapped>>
    BY <1>10 DEF WriteTmp, Rest, files
  <2> QED  BY <1>0, <2>1, <2>2 DEF Moves
<1>11. ASSUME NEW u \in Updates, Rename(u)
      PROVE  Carried'
  <2>1. Moves(u, "rename", "publish")
    BY <1>11, Renamed DEF TypeOK
  <2>2. UNCHANGED <<panel, settings, chosen, up, live, overlapped>>
    BY <1>11 DEF Rename, Rest, files
  <2> QED  BY <1>0, <2>1, <2>2 DEF Moves
<1>12. ASSUME NEW u \in Updates, Publish(u)
      PROVE  Carried'
  <2>1. /\ update'[u] = NoUpdate /\ update' \in [Updates -> Requests]
        /\ \A w \in Updates \ {u} : update'[w] = update[w]
        /\ update[u].awaited => settings'.at = "done"
        /\ ~update[u].awaited => settings' = settings
    BY <1>12, Ends DEF TypeOK, Publish
  <2>2. UNCHANGED <<panel, chosen, up, files>>
    BY <1>12 DEF Publish, Rest, files
  <2> QED  BY <1>0, <2>1, <2>2
<1>13. ASSUME NEW u \in Updates, RenameFails(u)
      PROVE  Carried'
  <2>1. /\ update'[u] = NoUpdate /\ update' \in [Updates -> Requests]
        /\ \A w \in Updates \ {u} : update'[w] = update[w]
        /\ update[u].awaited => settings'.at = "done"
        /\ ~update[u].awaited => settings' = settings
    BY <1>13, Ends DEF TypeOK, RenameFails
  <2>2. UNCHANGED <<panel, up, files>>
    BY <1>13 DEF RenameFails, Rest, files
  <2> QED  BY <1>0, <2>1, <2>2
<1>14. ASSUME NEW u \in Updates, Fail(u)
      PROVE  Carried'
  <2>1. /\ update'[u] = NoUpdate /\ update' \in [Updates -> Requests]
        /\ \A w \in Updates \ {u} : update'[w] = update[w]
        /\ update[u].awaited => settings'.at = "done"
        /\ ~update[u].awaited => settings' = settings
    BY <1>14, Ends DEF TypeOK, Fail
  <2>2. UNCHANGED <<panel, up, files>>
    BY <1>14 DEF Fail, Rest, files
  <2> QED  BY <1>0, <2>1, <2>2
<1>15. CASE Crash
  BY <1>15 DEF Crash, Answered
<1>16. CASE Startup
  BY <1>16 DEF Startup, helpers
<1> QED  BY <1>1, <1>2, <1>3, <1>4, <1>5, <1>6, <1>7, <1>8, <1>9, <1>10,
    <1>11, <1>12, <1>13, <1>14, <1>15, <1>16, Cases DEF Handled, UpdateStep,
    Edited

\* Every step keeps the helper with one request at most.
LEMMA WaitingStep == TypeOK /\ Carried /\ Resting /\ Waiting /\ [Next]_vars =>
    Waiting'
<1> SUFFICES ASSUME TypeOK, Carried, Resting, Waiting, [Next]_vars PROVE Waiting'
  OBVIOUS
<1> USE NoUpdateFields DEF Waiting
<1>0. update \in [Updates -> Requests]
  BY DEF TypeOK
<1>17. panel \in Panels /\ settings \in Saves
  BY DEF TypeOK
<1>1. CASE Aside
  BY <1>1 DEF Aside, Elsewhere, files
<1>2. ASSUME NEW base \in Configs, NEW o \in Options, NEW v \in Values,
            Edit(base, o, v)
      PROVE  Waiting'
  <2> DEFINE draft == [base EXCEPT ![o] = v]
  <2>1. draft \in Configs /\ SaveMeetingOptions(draft)
    BY <1>2 DEF Edit, Configs
  <2> HIDE DEF draft
  <2>2. /\ settings' \in Saves
        /\ draft = panel.options => panel'.pending = panel.pending /\ settings' = settings
        /\ draft # panel.options /\ settings.at # "none" =>
             panel'.pending = draft /\ settings' = settings
        /\ draft # panel.options /\ settings.at = "none" =>
             /\ panel'.pending = None
             /\ settings'.at = "started" /\ settings'.values = draft
    BY <1>17, <2>1, Saved
  <2>3. UNCHANGED <<daemon, overlapped>>
    BY <1>2 DEF Edit
  <2> QED  BY <1>0, <1>17, <2>1, <2>2, <2>3 DEF daemon
<1>3. CASE SettingsExited
  <2>1. /\ settings.at = "done" /\ panel'.pending = None
        /\ UNCHANGED update
    BY <1>3, <1>17 DEF SettingsExited, daemon, Panels
  <2> QED  BY <1>0, <2>1
<1>4. CASE SendUpdate
  <2>8. settings.values \in Configs
    BY <1>4 DEF SendUpdate, Carried
  <2>9. BeginUpdate(settings.values, TRUE)
    BY <1>4 DEF SendUpdate
  <2>1. PICK new \in Updates : Begun(new, settings.values, TRUE)
    BY <1>0, <2>8, <2>9, Begins, Zenon
  <2>2. /\ settings.at = "started" /\ settings'.at = "sent" /\ settings'.values = None
        /\ up /\ UNCHANGED <<up, live, files, panel, chosen>>
    BY <1>4 DEF SendUpdate
  <2> QED  BY <1>0, <2>1, <2>2 DEF Begun
<1>5. CASE NotRunning
  <2>1. \A u \in Updates : ~update[u].awaited
    BY <1>5 DEF NotRunning, Resting
  <2>2. settings'.at = "done" /\ UNCHANGED <<update, panel>>
    BY <1>5 DEF NotRunning, daemon, Answered
  <2> QED  BY <1>0, <2>1, <2>2
<1>6. CASE EditElsewhere
  <2>3. PICK from \in {live, DefaultConfig}, o \in Options, v \in Values :
          /\ BeginUpdate([from EXCEPT ![o] = v], FALSE)
          /\ chosen' = IF Quiet /\ from = live THEN [from EXCEPT ![o] = v] ELSE None
    BY <1>6 DEF EditElsewhere
  <2> DEFINE draft == [from EXCEPT ![o] = v]
  <2>8. draft \in Configs
    BY DefaultIsConfig DEF Configs, TypeOK
  <2>9. BeginUpdate(draft, FALSE)
    BY <2>3
  <2>5. chosen' = IF Quiet /\ from = live THEN draft ELSE None
    BY <2>3
  <2> HIDE DEF draft
  <2>1. PICK new \in Updates : Begun(new, draft, FALSE)
    BY <1>0, <2>8, <2>9, Begins, Zenon
  <2>2. up /\ UNCHANGED <<up, live, files, panel, settings>>
    BY <1>6 DEF EditElsewhere, helpers
  <2> QED  BY <1>0, <2>1, <2>2 DEF Begun
<1>7. CASE KillSettings
  <2>1. /\ \A u \in Updates :
             /\ update'[u].at = update[u].at /\ update'[u].next = update[u].next
             /\ ~update'[u].awaited
        /\ UNCHANGED <<up, live, files, overlapped>>
    BY <1>7, Killed DEF TypeOK
  <2>2. /\ settings'.at = "done" /\ settings' \in Saves /\ chosen' = None
        /\ UNCHANGED panel
    BY <1>7 DEF KillSettings, Answered, Saves
  <2> QED  BY <1>0, <2>1, <2>2
<1>8. ASSUME NEW u \in Updates, ApplyPatch(u)
      PROVE  Waiting'
  <2>1. Moves(u, "read", "open") /\ update'[u].fd = update[u].fd
    BY <1>8, Applied DEF TypeOK
  <2>2. UNCHANGED <<panel, settings, chosen, up, live, files, overlapped>>
    BY <1>8 DEF ApplyPatch, Rest, files
  <2> QED  BY <1>0, <2>1, <2>2 DEF Moves
<1>9. ASSUME NEW u \in Updates, OpenTmp(u)
      PROVE  Waiting'
  <2>1. Moves(u, "open", "write")
    BY <1>9, Opened DEF TypeOK
  <2>2. UNCHANGED <<panel, settings, chosen, up, live, dest, overlapped>>
    BY <1>9 DEF OpenTmp, Rest, files
  <2> QED  BY <1>0, <2>1, <2>2 DEF Moves
<1>10. ASSUME NEW u \in Updates, WriteTmp(u)
      PROVE  Waiting'
  <2>1. Moves(u, "write", "rename")
    BY <1>10, Wrote DEF TypeOK
  <2>2. UNCHANGED <<panel, settings, chosen, up, live, dest, overlapped>>
    BY <1>10 DEF WriteTmp, Rest, files
  <2> QED  BY <1>0, <2>1, <2>2 DEF Moves
<1>11. ASSUME NEW u \in Updates, Rename(u)
      PROVE  Waiting'
  <2>1. Moves(u, "rename", "publish")
    BY <1>11, Renamed DEF TypeOK
  <2>2. UNCHANGED <<panel, settings, chosen, up, live, overlapped>>
    BY <1>11 DEF Rename, Rest, files
  <2> QED  BY <1>0, <2>1, <2>2 DEF Moves
<1>12. ASSUME NEW u \in Updates, Publish(u)
      PROVE  Waiting'
  <2>1. /\ update'[u] = NoUpdate /\ update' \in [Updates -> Requests]
        /\ \A w \in Updates \ {u} : update'[w] = update[w]
        /\ update[u].awaited => settings'.at = "done"
        /\ ~update[u].awaited => settings' = settings
    BY <1>12, Ends DEF TypeOK, Publish
  <2>2. UNCHANGED <<panel, chosen, up, files>>
    BY <1>12 DEF Publish, Rest, files
  <2> QED  BY <1>0, <2>1, <2>2
<1>13. ASSUME NEW u \in Updates, RenameFails(u)
      PROVE  Waiting'
  <2>1. /\ update'[u] = NoUpdate /\ update' \in [Updates -> Requests]
        /\ \A w \in Updates \ {u} : update'[w] = update[w]
        /\ update[u].awaited => settings'.at = "done"
        /\ ~update[u].awaited => settings' = settings
    BY <1>13, Ends DEF TypeOK, RenameFails
  <2>2. UNCHANGED <<panel, up, files>>
    BY <1>13 DEF RenameFails, Rest, files
  <2> QED  BY <1>0, <2>1, <2>2
<1>14. ASSUME NEW u \in Updates, Fail(u)
      PROVE  Waiting'
  <2>1. /\ update'[u] = NoUpdate /\ update' \in [Updates -> Requests]
        /\ \A w \in Updates \ {u} : update'[w] = update[w]
        /\ update[u].awaited => settings'.at = "done"
        /\ ~update[u].awaited => settings' = settings
    BY <1>14, Ends DEF TypeOK, Fail
  <2>2. UNCHANGED <<panel, up, files>>
    BY <1>14 DEF Fail, Rest, files
  <2> QED  BY <1>0, <2>1, <2>2
<1>15. CASE Crash
  BY <1>15 DEF Crash, Answered
<1>16. CASE Startup
  BY <1>16 DEF Startup, helpers
<1> QED  BY <1>1, <1>2, <1>3, <1>4, <1>5, <1>6, <1>7, <1>8, <1>9, <1>10,
    <1>11, <1>12, <1>13, <1>14, <1>15, <1>16, Cases DEF Handled, UpdateStep,
    Edited

\* Every step keeps the last choice the last thing on its way.
LEMMA UnderwayStep == TypeOK /\ Carried /\ Resting /\ Named /\ Single /\
    Reached /\ Served /\ Waiting /\ Underway /\ [Next]_vars => Underway'
<1> SUFFICES ASSUME TypeOK, Carried, Resting, Named, Single, Reached, Served, Waiting,
                    Underway, [Next]_vars
             PROVE  Underway'
  OBVIOUS
<1> USE NoUpdateFields DEF Underway
<1>0. update \in [Updates -> Requests]
  BY DEF TypeOK
<1>17. panel \in Panels /\ settings \in Saves
  BY DEF TypeOK
<1>1. CASE Aside
  BY <1>1 DEF Aside, Elsewhere, files, AllSent, Active
<1>2. ASSUME NEW base \in Configs, NEW o \in Options, NEW v \in Values,
            Edit(base, o, v)
      PROVE  Underway'
  <2> DEFINE draft == [base EXCEPT ![o] = v]
  <2>1. draft \in Configs /\ SaveMeetingOptions(draft)
    BY <1>2 DEF Edit, Configs
  <2> HIDE DEF draft
  <2>2. /\ settings' \in Saves
        /\ draft = panel.options => panel'.pending = panel.pending /\ settings' = settings
        /\ draft # panel.options /\ settings.at # "none" =>
             panel'.pending = draft /\ settings' = settings
        /\ draft # panel.options /\ settings.at = "none" =>
             /\ panel'.pending = None
             /\ settings'.at = "started" /\ settings'.values = draft
    BY <1>17, <2>1, Saved
  <2>3. UNCHANGED <<daemon, overlapped>>
    BY <1>2 DEF Edit
  <2>4. SUFFICES ASSUME chosen' # None PROVE Underway'
    BY DEF Underway
  <2>5. /\ draft # panel.options /\ chosen' = draft
        /\ \/ Quiet
           \/ chosen # None /\ \A u \in Updates : Active(u) => update[u].awaited
    BY <1>2, <2>4, Zenon DEF Edit, draft
  <2>6. CASE settings.at # "none"
    <3>1. chosen # None
      BY <2>5, <2>6 DEF Quiet, QuietPanel
    <3>2. panel'.pending = chosen' /\ settings' = settings /\ panel'.pending # None
      BY <2>1, <2>2, <2>5, <2>6
    <3> QED  BY <2>3, <3>1, <3>2 DEF daemon, AllSent, Active
  <2>7. CASE settings.at = "none"
    <3>1. \A u \in Updates : ~Active(u)
      BY <2>5, <2>7 DEF Quiet, Waiting
    <3>2. panel'.pending = None /\ settings'.at = "started" /\ settings'.values = chosen'
      BY <2>2, <2>5, <2>7
    <3> QED  BY <2>3, <3>1, <3>2 DEF daemon, AllSent, Active
  <2> QED  BY <2>6, <2>7
<1>3. CASE SettingsExited
  <2>4. SUFFICES ASSUME chosen' # None PROVE Underway'
    BY DEF Underway
  <2>1. /\ settings.at = "done" /\ panel'.pending = None
        /\ panel.pending # None => settings'.at = "started" /\ settings'.values = panel.pending
        /\ panel.pending = None => settings'.at = "none"
    BY <1>3, <1>17 DEF SettingsExited, NoSettings, Panels
  <2>2. UNCHANGED <<up, live, update, dest, content, overlapped, chosen>>
    BY <1>3 DEF SettingsExited, daemon, files, ghosts
  <2>3. \A u \in Updates : ~Active(u)
    BY <2>1, <2>2, <2>4
  <2> QED  BY <2>1, <2>2, <2>3, <2>4 DEF AllSent, Active
<1>4. CASE SendUpdate
  <2>4. SUFFICES ASSUME chosen' # None PROVE Underway'
    BY DEF Underway
  <2>8. settings.values \in Configs
    BY <1>4 DEF SendUpdate, Carried
  <2>9. BeginUpdate(settings.values, TRUE)
    BY <1>4 DEF SendUpdate
  <2>1. PICK new \in Updates : Begun(new, settings.values, TRUE)
    BY <1>0, <2>8, <2>9, Begins, Zenon
  <2>2. /\ settings.at = "started" /\ settings'.at = "sent" /\ settings'.values = None
        /\ up /\ UNCHANGED <<up, live, files, panel, chosen>>
    BY <1>4 DEF SendUpdate
  <2>3. \A u \in Updates : ~Active(u)
    BY <2>2, <2>4
  <2> QED  BY <2>1, <2>2, <2>3, <2>4 DEF Begun, AllSent, Active, NoUpdate
<1>5. CASE NotRunning
  BY <1>5 DEF NotRunning
<1>6. CASE EditElsewhere
  <2>3. PICK from \in {live, DefaultConfig}, o \in Options, v \in Values :
          /\ BeginUpdate([from EXCEPT ![o] = v], FALSE)
          /\ chosen' = IF Quiet /\ from = live THEN [from EXCEPT ![o] = v] ELSE None
    BY <1>6 DEF EditElsewhere
  <2> DEFINE draft == [from EXCEPT ![o] = v]
  <2>8. draft \in Configs
    BY DefaultIsConfig DEF Configs, TypeOK
  <2>9. BeginUpdate(draft, FALSE)
    BY <2>3
  <2>5. chosen' = IF Quiet /\ from = live THEN draft ELSE None
    BY <2>3
  <2> HIDE DEF draft
  <2>1. PICK new \in Updates : Begun(new, draft, FALSE)
    BY <1>0, <2>8, <2>9, Begins, Zenon
  <2>2. up /\ UNCHANGED <<up, live, files, panel, settings>>
    BY <1>6 DEF EditElsewhere, helpers
  <2>4. SUFFICES ASSUME chosen' # None PROVE Underway'
    BY DEF Underway
  <2>6. chosen' = draft /\ Quiet
    BY <2>4, <2>5
  <2> QED  BY <2>1, <2>2, <2>6 DEF Begun, Quiet, QuietPanel, AllSent, Active,
      NoUpdate
<1>7. CASE KillSettings
  BY <1>7 DEF KillSettings
<1>8. ASSUME NEW u \in Updates, ApplyPatch(u)
      PROVE  Underway'
  <2>1. Moves(u, "read", "open") /\ update'[u].fd = update[u].fd
    BY <1>8, Applied DEF TypeOK
  <2>2. UNCHANGED <<panel, settings, chosen, up, live, files, overlapped>>
    BY <1>8 DEF ApplyPatch, Rest, files
  <2> QED  BY <1>0, <2>1, <2>2 DEF Moves, AllSent, Active, files
<1>9. ASSUME NEW u \in Updates, OpenTmp(u)
      PROVE  Underway'
  <2>1. Moves(u, "open", "write")
    BY <1>9, Opened DEF TypeOK
  <2>2. UNCHANGED <<panel, settings, chosen, up, live, dest, overlapped>>
    BY <1>9 DEF OpenTmp, Rest, files
  <2>3. Active(u)
    BY <2>1 DEF Moves, Active
  <2> QED  BY <1>0, <2>1, <2>2, <2>3 DEF Moves, AllSent, Active, files
<1>10. ASSUME NEW u \in Updates, WriteTmp(u)
      PROVE  Underway'
  <2>1. Moves(u, "write", "rename")
    BY <1>10, Wrote DEF TypeOK
  <2>2. UNCHANGED <<panel, settings, chosen, up, live, dest, overlapped>>
    BY <1>10 DEF WriteTmp, Rest, files
  <2>3. Active(u)
    BY <2>1 DEF Moves, Active
  <2> QED  BY <1>0, <2>1, <2>2, <2>3 DEF Moves, AllSent, Active, files
<1>11. ASSUME NEW u \in Updates, Rename(u)
      PROVE  Underway'
  <2>1. Moves(u, "rename", "publish")
    BY <1>11, Renamed DEF TypeOK
  <2>2. UNCHANGED <<panel, settings, chosen, up, live, overlapped>>
    BY <1>11 DEF Rename, Rest, files
  <2>3. Active(u)
    BY <2>1 DEF Moves, Active
  <2> QED  BY <1>0, <2>1, <2>2, <2>3 DEF Moves, AllSent, Active, files
<1>12. ASSUME NEW u \in Updates, Publish(u)
      PROVE  Underway'
  <2>1. /\ update'[u] = NoUpdate /\ update' \in [Updates -> Requests]
        /\ \A w \in Updates \ {u} : update'[w] = update[w]
        /\ update[u].awaited => settings'.at = "done"
        /\ ~update[u].awaited => settings' = settings
    BY <1>12, Ends DEF TypeOK, Publish
  <2>2. UNCHANGED <<panel, chosen, up, files>>
    BY <1>12 DEF Publish, Rest, files
  <2>4. SUFFICES ASSUME chosen' # None PROVE Underway'
    BY DEF Underway
  <2>5. chosen # None /\ update[u].at = "publish" /\ live' = update[u].next
        /\ overlapped' = (overlapped /\ ~update[u].alone)
    BY <1>12, <2>2, <2>4 DEF Publish
  <2>6. update[u].alone /\ settings.at \notin {"started", "done"} /\ up
    BY <2>5 DEF Active, Resting
  <2>7. \A w \in Updates : update'[w].at = "idle"
    BY <2>1, <2>5, <2>6 DEF Active, Single
  <2>8. content[dest] = update[u].next /\ dest # None /\ ~overlapped'
    BY <2>5, <2>6 DEF Active, Reached, Named
  <2>9. AllSent' => AllSent
    BY <2>2, <2>6 DEF AllSent
  <2>10. AllSent' => update[u].next = chosen'
    BY <2>2, <2>5, <2>9 DEF Active
  <2>11. settings'.at # "started"
    BY <2>1, <2>6
  <2> QED  BY <2>2, <2>4, <2>5, <2>7, <2>8, <2>10, <2>11 DEF files, Active
<1>13. ASSUME NEW u \in Updates, RenameFails(u)
      PROVE  Underway'
  BY <1>13 DEF RenameFails
<1>14. ASSUME NEW u \in Updates, Fail(u)
      PROVE  Underway'
  BY <1>14 DEF Fail
<1>15. CASE Crash
  <2>4. SUFFICES ASSUME chosen' # None PROVE Underway'
    BY DEF Underway
  <2>1. Quiet /\ UNCHANGED <<chosen, panel, settings, dest, content, overlapped>>
    BY <1>15, <2>4 DEF Crash, Quiet, QuietPanel, files
  <2>2. ~up' /\ \A u \in Updates : update'[u].at = "idle"
    BY <1>15, NoUpdateFields DEF Crash
  <2> QED  BY <2>1, <2>2, <2>4 DEF Quiet, QuietPanel, AllSent, Active
<1>16. CASE Startup
  <2>4. SUFFICES ASSUME chosen' # None PROVE Underway'
    BY DEF Underway
  <2>1. ~up /\ UNCHANGED <<chosen, panel, settings, update>> /\ \A u \in Updates : ~Active(u)
    BY <1>16 DEF Startup, helpers, Resting
  <2>2. ASSUME AllSent
        PROVE  live' = chosen /\ content'[dest'] = chosen /\ dest' # None /\ ~overlapped'
    <3>1. CASE dest = None
      <4>1. dest' \in Inodes
        BY <1>16, <3>1, InodeBesideTmp, Zenon DEF Startup
      <4>2. /\ content' = [content EXCEPT ![dest'] = DefaultConfig] /\ live' = DefaultConfig
            /\ overlapped' = (content'[dest'] = Empty)
        BY <1>16, <3>1 DEF Startup
      <4>3. content'[dest'] = DefaultConfig
        BY <4>1, <4>2 DEF TypeOK
      <4> QED  BY <2>1, <2>2, <2>4, <3>1, <4>1, <4>2, <4>3, DefaultIsConfig
    <3>2. CASE dest # None
      <4>1. content[dest] = chosen /\ chosen \in Configs
        BY <2>1, <2>2, <2>4, <3>2 DEF TypeOK
      <4> QED  BY <1>16, <3>2, <4>1 DEF Startup
    <3> QED  BY <3>1, <3>2
  <2> QED  BY <2>1, <2>2, <2>4 DEF AllSent, Active
<1> QED  BY <1>1, <1>2, <1>3, <1>4, <1>5, <1>6, <1>7, <1>8, <1>9, <1>10,
    <1>11, <1>12, <1>13, <1>14, <1>15, <1>16, Cases DEF Handled, UpdateStep,
    Edited

-----------------------------------------------------------------------------
(* The theorems *)

\* The invariant holds at first.
LEMMA Initially == Init => IInv
<1> SUFFICES ASSUME Init PROVE IInv
  OBVIOUS
<1> USE NoUpdateFields, DefaultIsConfig DEF Init
<1>1. Cardinality(Updates) \in Nat /\ 1 \in Inodes
  BY FS_CardinalityType DEF Inodes
<1>2. update \in [Updates -> Requests] /\ \A u \in Updates : update[u] = NoUpdate
  OBVIOUS
<1>3. /\ content \in [Inodes -> Configs \cup {None, Empty, Torn}]
      /\ dest # None => content[dest] = DefaultConfig
  BY <1>1
<1>4. TypeOK
  <2>1. panel \in Panels
    BY DEF Panels
  <2>2. settings \in Saves /\ snapshot \in Snapshots
    BY DEF NoSettings, NoSnapshot, Saves, Snapshots
  <2>3. up \in BOOLEAN /\ recording \in BOOLEAN /\ overlapped \in BOOLEAN
    OBVIOUS
  <2>4. spent \in [Kinds -> Nat] /\ \A k \in Kinds : spent[k] <= Budget[k]
    OBVIOUS
  <2>5. tmp \in Inodes \cup {None} /\ dest \in Inodes \cup {None}
    BY <1>1
  <2>6. live \in Configs /\ chosen \in Configs /\ action = "none"
    OBVIOUS
  <2> HIDE DEF Init
  <2> QED  BY <1>2, <1>3, <2>1, <2>2, <2>3, <2>4, <2>5, <2>6 DEF TypeOK
<1>5. Resting /\ Holding /\ Single /\ Reached
  BY <1>2 DEF Resting, Holding, Single, Reached, Active
<1>6. Named /\ Served
  BY <1>1, <1>3 DEF Named, Served
<1>7. settings.at = "none" /\ panel.pending = None
  BY DEF NoSettings
<1>8. Carried /\ Waiting
  BY <1>2, <1>7 DEF Carried, Waiting, Active
<1>9. Underway
  BY <1>2, <1>3, <1>7 DEF Underway, Active
<1> QED  BY <1>4, <1>5, <1>6, <1>8, <1>9 DEF IInv

\* Every step keeps the invariant.
LEMMA Inductive == IInv /\ [Next]_vars => IInv'
BY TypeStep, CarriedStep, DaemonStep, WaitingStep, UnderwayStep DEF IInv

\* The invariant holds always.
LEMMA Invariant == Spec => []IInv
BY Initially, Inductive, PTL DEF Spec

\* Every variable keeps its type.
THEOREM TypeCorrect == Spec => []TypeOK
BY Invariant, PTL DEF IInv

\* write_atomic and update_config: the file is whole and is the configuration of
\* the daemon whenever no update is under way, as long as updates do not overlap.
THEOREM FileServes == Spec => []FileServesDaemon
<1>1. IInv => FileServesDaemon
  BY DEF IInv, FileServesDaemon, Served, AlwaysLoads, FileIsLive, Named, Active
<1> QED  BY <1>1, Invariant, PTL

\* saveOptions, flushSettings and update_config: the last choice wins.
THEOREM LastChoiceWins == Spec => []LastEditWins
<1>1. IInv => LastEditWins
  BY DEF IInv, LastEditWins, Underway, Quiet, QuietPanel, AllSent
<1> QED  BY <1>1, Invariant, PTL
=============================================================================
