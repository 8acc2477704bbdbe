-------------------------- MODULE ChunkStoreProofs --------------------------
(***************************************************************************)
(* Theorems about ChunkStore for any number of utterances and of faults,   *)
(* with a second process at any time.                                      *)
(***************************************************************************)
EXTENDS ChunkStore, TLAPS

USE UtteranceAssumption, NamesAssumption, BudgetAssumption

(* The fault counters stay natural numbers. *)
LEMMA SpendType ==
  ASSUME spent \in [Kinds -> Nat], NEW kind \in Kinds, Spend(kind)
  PROVE  spent' \in [Kinds -> Nat]
BY DEF Spend

(* What is about to be written or inserted has a name. *)
Busy ==
  /\ spool.pc \in {"numbered", "written", "renamed"} => Chunk \in Chunks
  /\ \A p \in Processes : inst[p] = "inserting" => checked[p] \in Chunks

Types == TypeOK /\ Busy

(* The steps of the spool keep the types. *)
LEMMA SpoolTypes ==
  ASSUME Types, Persist \/ PersistFails \/ Miss \/ Reopen \/ EndSession
  PROVE  Types'
<1> USE DEF Types, TypeOK, Busy, Spool, Chunk, Steps, store, recovery
<1>1. CASE Number
  BY <1>1 DEF Number, Chunks, Sequences, Utterances
<1>2. CASE WriteTmp
  BY <1>2 DEF WriteTmp
<1>3. CASE Rename
  BY <1>3 DEF Rename
<1>4. CASE InsertChunk
  BY <1>4 DEF InsertChunk, Chunks
<1>5. CASE PersistFails
  <2>1. spent' \in [Kinds -> Nat]  BY <1>5, SpendType DEF PersistFails, Kinds
  <2> QED  BY <1>5, <2>1 DEF PersistFails
<1>6. CASE Miss
  BY <1>6 DEF Miss
<1>7. CASE Reopen
  <2>1. spent' \in [Kinds -> Nat]  BY <1>7, SpendType DEF Reopen, Kinds
  <2> QED  BY <1>7, <2>1 DEF Reopen
<1>8. CASE EndSession
  BY <1>8 DEF EndSession
<1> QED  BY <1>1, <1>2, <1>3, <1>4, <1>5, <1>6, <1>7, <1>8 DEF Persist

(* The steps of a process that starts keep the types. *)
LEMMA ProcessTypes ==
  ASSUME Types, NEW p \in Processes,
         Launch(p) \/ Recover(p) \/ RecoveryFails(p) \/ Crash(p)
  PROVE  Types'
<1> USE DEF Types, TypeOK, Busy, Chunk, Phase, GiveUp, Phases, Steps, store, recovery
<1>1. CASE Launch(p)
  <2>1. spent' \in [Kinds -> Nat]  BY <1>1, SpendType DEF Launch, Kinds
  <2> QED  BY <1>1, <2>1 DEF Launch
<1>2. CASE Interrupt(p)
  BY <1>2 DEF Interrupt
<1>3. ASSUME NEW f \in Chunks, RemoveTmp(p, f) PROVE Types'
  BY <1>3 DEF RemoveTmp
<1>4. CASE ListFiles(p)
  BY <1>4 DEF ListFiles
<1>5. ASSUME NEW f \in Chunks, CheckFile(p, f) PROVE Types'
  BY <1>5 DEF CheckFile
<1>6. CASE InsertOrphan(p)
  BY <1>6 DEF InsertOrphan, Chunks
<1>7. CASE Bind(p)
  BY <1>7 DEF Bind
<1>8. CASE RecoveryFails(p)
  <2>1. spent' \in [Kinds -> Nat]  BY <1>8, SpendType DEF RecoveryFails, Kinds
  <2> QED  BY <1>8, <2>1 DEF RecoveryFails
<1>9. CASE Crash(p)
  <2>1. spent' \in [Kinds -> Nat]  BY <1>9, SpendType DEF Crash, Kinds
  <2> QED  BY <1>9, <2>1 DEF Crash
<1> QED  BY <1>1, <1>2, <1>3, <1>4, <1>5, <1>6, <1>7, <1>8, <1>9 DEF Recover

(* Every step keeps them. *)
LEMMA TypesStep == Types /\ [Next]_vars => Types'
<1> SUFFICES ASSUME Types, [Next]_vars PROVE Types'
  OBVIOUS
<1>1. ASSUME NEW s \in Sequences, Transcribe(s) \/ DeleteAudio(s) PROVE Types'
  BY <1>1 DEF Types, TypeOK, Busy, Chunk, Transcribe, DeleteAudio, recovery
<1>2. CASE UNCHANGED vars
  BY <1>2 DEF Types, TypeOK, Busy, Chunk, vars, store, recovery
<1> QED  BY <1>1, <1>2, SpoolTypes, ProcessTypes DEF Next

(* The types in every reachable state. *)
LEMMA TypesInvariant == Spec => []Types
<1>1. Init => Types
  BY DEF Init, Types, TypeOK, Busy, Chunk, Kinds, Steps, Phases, Sequences, Utterances
<1> QED  BY <1>1, TypesStep, PTL DEF Spec

(* Every variable keeps its type: no number outside the table's range, no  *)
(* file without a number and an utterance.                                 *)
THEOREM TypeCorrect == Spec => []TypeOK
BY TypesInvariant, PTL DEF Types

-----------------------------------------------------------------------------
(* A file that exists, is written, listed or about to be inserted. *)
Named(f) ==
  \/ f \in files \/ f \in tmps
  \/ spool.pc \in {"numbered", "written", "renamed"} /\ f = Chunk
  \/ \E p \in Processes : f \in todo[p]
  \/ \E p \in Processes : inst[p] = "inserting" /\ f = checked[p]

(* A new name is made only by Number, from the next sequence number. *)
LEMMA NamesGrow ==
  ASSUME Types, [Next]_vars, NEW f \in Chunks, Named(f)', ~Number
  PROVE  Named(f)
<1> USE DEF Types, TypeOK, Busy, Named, Chunk, Spool, store, recovery
<1>1. CASE WriteTmp \/ Rename \/ InsertChunk \/ PersistFails \/ Miss \/ Reopen \/ EndSession
  BY <1>1 DEF WriteTmp, Rename, InsertChunk, PersistFails, Miss, Reopen, EndSession
<1>2. ASSUME NEW s \in Sequences, Transcribe(s) \/ DeleteAudio(s) PROVE Named(f)
  BY <1>2 DEF Transcribe, DeleteAudio
<1>3. ASSUME NEW p \in Processes, Launch(p) \/ RecoveryFails(p) \/ Crash(p)
      PROVE  Named(f)
  BY <1>3 DEF Launch, RecoveryFails, Crash, Phase, GiveUp
<1>4. ASSUME NEW p \in Processes, Recover(p) PROVE Named(f)
  <2> USE DEF Phase, GiveUp
  <2>1. CASE Interrupt(p) \/ ListFiles(p) \/ Bind(p)
    BY <2>1 DEF Interrupt, ListFiles, Bind
  <2>2. CASE InsertOrphan(p)
    BY <2>2 DEF InsertOrphan
  <2>3. ASSUME NEW g \in Chunks, RemoveTmp(p, g) PROVE Named(f)
    BY <2>3 DEF RemoveTmp
  <2>4. ASSUME NEW g \in Chunks, CheckFile(p, g) PROVE Named(f)
    BY <2>4 DEF CheckFile, First
  <2> QED  BY <1>4, <2>1, <2>2, <2>3, <2>4 DEF Recover
<1>5. CASE UNCHANGED vars
  BY <1>5 DEF vars
<1> QED  BY <1>1, <1>2, <1>3, <1>4, <1>5 DEF Next, Persist

(* A row is inserted for a named file whose number is free, and none is    *)
(* changed or removed.                                                     *)
LEMMA RowWriters ==
  ASSUME Types, [Next]_vars
  PROVE  \/ row' = row
         \/ /\ \E f \in Chunks : /\ Named(f) /\ f[1] \notin Numbered
                                 /\ row' = [row EXCEPT ![f[1]] = f[2]]
            /\ heard' = heard /\ ~Number
<1> USE DEF Types, TypeOK, Busy, Chunk, Spool, store, recovery
<1>1. CASE Persist \/ PersistFails \/ Miss \/ Reopen \/ EndSession
  BY <1>1 DEF Persist, Number, WriteTmp, Rename, InsertChunk, PersistFails, Miss,
              Reopen, EndSession, Named
<1>2. ASSUME NEW s \in Sequences, Transcribe(s) \/ DeleteAudio(s) PROVE row' = row
  BY <1>2 DEF Transcribe, DeleteAudio
<1>3. ASSUME NEW p \in Processes, Launch(p) \/ RecoveryFails(p) \/ Crash(p)
      PROVE  row' = row
  BY <1>3 DEF Launch, RecoveryFails, Crash
<1>4. ASSUME NEW p \in Processes, Recover(p), ~InsertOrphan(p) PROVE row' = row
  BY <1>4 DEF Recover, Interrupt, ListFiles, Bind, RemoveTmp, CheckFile
<1>5. ASSUME NEW p \in Processes, InsertOrphan(p), row' # row
      PROVE  /\ \E f \in Chunks : /\ Named(f) /\ f[1] \notin Numbered
                                  /\ row' = [row EXCEPT ![f[1]] = f[2]]
             /\ heard' = heard /\ ~Number
  BY <1>5 DEF InsertOrphan, Named, GiveUp, Phase, Number
<1>6. CASE UNCHANGED vars
  BY <1>6 DEF vars
<1> QED  BY <1>1, <1>2, <1>3, <1>4, <1>5, <1>6 DEF Next

(* The count of utterances never falls. *)
LEMMA HeardGrows ==
  ASSUME Types, [Next]_vars
  PROVE  heard' >= heard
<1>1. heard' = heard \/ heard' = heard + 1
  BY DEF Next, Persist, Number, WriteTmp, Rename, InsertChunk, PersistFails, Miss,
         Reopen, EndSession, Transcribe, DeleteAudio, Launch, Recover, Interrupt,
         ListFiles, Bind, RemoveTmp, CheckFile, InsertOrphan, RecoveryFails, Crash, vars
<1> QED  BY <1>1 DEF Types, TypeOK

(* Below the number of a file, and of a row, every number is taken by an   *)
(* earlier utterance.                                                      *)
Below(n, u) == \A s \in Sequences : s < n => s \in Numbered /\ row[s] < u

NumberInv ==
  /\ \A s \in Numbered : row[s] <= heard /\ Below(s, row[s])
  /\ \A f \in Chunks : Named(f) => f[2] <= heard /\ Below(f[1], f[2])

(* Every step keeps it: rows only fill the next free number. *)
LEMMA NumberStep == Types /\ NumberInv /\ [Next]_vars => NumberInv'
<1> SUFFICES ASSUME Types, NumberInv, [Next]_vars PROVE NumberInv'
  OBVIOUS
<1> USE DEF Sequences, Utterances
<1>1. heard \in Nat /\ heard' >= heard /\ Types'
  BY HeardGrows, TypesStep DEF Types, TypeOK
<1>2. heard' \in Nat  BY <1>1 DEF Types, TypeOK
<1>3. \A s \in Numbered : row[s] \in 1 .. MaxUtterance
  BY DEF Types, TypeOK, Numbered
<1>4. CASE row' = row /\ ~Number
  <2>1. Numbered' = Numbered /\ \A n, u : Below(n, u)' <=> Below(n, u)
    BY <1>4 DEF Numbered, Below
  <2>2. \A f \in Chunks : Named(f)' => Named(f)  BY <1>4, NamesGrow
  <2>3. \A f \in Chunks : f[2] \in 1 .. MaxUtterance  BY DEF Chunks
  <2> QED  BY <1>1, <1>2, <1>3, <1>4, <2>1, <2>2, <2>3 DEF NumberInv
<1>5. CASE Number
  <2>1. PICK n \in Sequences :
          NextSequence(n) /\ spool' = [pc |-> "numbered", chunk |-> <<n, heard + 1>>]
    BY <1>5 DEF Number
  <2>2. row' = row /\ heard' = heard + 1 /\ UNCHANGED <<store, inst, recovery>>
    BY <1>5 DEF Number, store
  <2>3. Numbered' = Numbered /\ \A m, u : Below(m, u)' <=> Below(m, u)
    BY <2>2 DEF Numbered, Below
  <2>4. \A f \in Chunks : Named(f)' => Named(f) \/ f = <<n, heard + 1>>
    BY <2>1, <2>2 DEF Named, Chunk, store, recovery
  <2>5. Below(n, heard + 1)
    <3>1. ASSUME NEW s \in Sequences, s < n PROVE s \in Numbered
      <4>1. n # 1 /\ n - 1 \in Numbered  BY <2>1, <3>1 DEF NextSequence
      <4>2. CASE s = n - 1  BY <4>1, <4>2
      <4>3. CASE s < n - 1
        BY <4>1, <4>3 DEF NumberInv, Below
      <4> QED  BY <3>1, <4>2, <4>3
    <3> QED  BY <1>1, <1>3, <3>1 DEF Below, NumberInv
  <2>6. \A f \in Chunks : f[2] \in 1 .. MaxUtterance  BY DEF Chunks
  <2> QED  BY <1>1, <1>3, <2>2, <2>3, <2>4, <2>5, <2>6 DEF NumberInv
<1>6. CASE row' # row
  <2>1. PICK g \in Chunks : /\ Named(g) /\ g[1] \notin Numbered
                            /\ row' = [row EXCEPT ![g[1]] = g[2]]
    BY <1>6, RowWriters
  <2>2. heard' = heard /\ \A f \in Chunks : Named(f)' => Named(f)
    BY <1>6, RowWriters, NamesGrow
  <2>3. g[1] \in Sequences /\ g[2] \in Utterances /\ g[2] <= heard /\ Below(g[1], g[2])
    BY <2>1 DEF NumberInv, Chunks
  <2>4. Numbered' = Numbered \cup {g[1]} /\ row'[g[1]] = g[2]
        /\ \A s \in Numbered : row'[s] = row[s]
    BY <2>1, <2>3 DEF Numbered, Types, TypeOK
  <2>5. \A n, u : Below(n, u) => Below(n, u)'
    BY <2>4 DEF Below
  <2> QED  BY <2>2, <2>3, <2>4, <2>5 DEF NumberInv
<1> QED  BY <1>4, <1>5, <1>6

(* In every reachable state. *)
LEMMA NumberInvariant == Spec => []NumberInv
<1>1. Init => NumberInv
  BY DEF Init, NumberInv, Named, Numbered
<1> QED  BY <1>1, NumberStep, TypesInvariant, PTL DEF Spec

(* The order of the sequence numbers is the order of speech, even with     *)
(* recoveries beside the recording.                                        *)
THEOREM SpeechOrder == Spec => []Chronological
<1>1. NumberInv => Chronological
  BY DEF NumberInv, Chronological, Below, Numbered
<1> QED  BY <1>1, NumberInvariant, PTL

-----------------------------------------------------------------------------
Importing(p) == inst[p] \in {"importing", "inserting"}

(* The utterance that is not renamed yet is in no row, in no finished file *)
(* and on no list of them.                                                 *)
Fresh ==
  spool.pc \in {"numbered", "written"} =>
    /\ \A s \in Numbered : row[s] # Chunk[2]
    /\ \A f \in files : f[2] # Chunk[2]
    /\ \A p \in Processes : Importing(p) => \A f \in todo[p] : f[2] # Chunk[2]
    /\ \A p \in Processes : inst[p] = "inserting" => checked[p][2] # Chunk[2]

(* What may still be inserted is there: only files with a row are deleted. *)
Kept ==
  /\ done \subseteq Numbered
  /\ spool.pc = "renamed" /\ Chunk[1] \notin Numbered => Chunk \in files
  /\ \A p \in Processes : Importing(p) =>
       \A f \in todo[p] : f[1] \notin Numbered => f \in files
  /\ \A p \in Processes : inst[p] = "inserting" =>
       (checked[p][1] \notin Numbered => checked[p] \in files)

(* A number once taken stays taken. *)
LEMMA NumbersStay ==
  ASSUME Types, [Next]_vars
  PROVE  Numbered \subseteq Numbered'
<1>1. CASE row' = row
  BY <1>1 DEF Numbered
<1>2. CASE row' # row
  <2>1. PICK g \in Chunks : g[1] \notin Numbered /\ row' = [row EXCEPT ![g[1]] = g[2]]
    BY <1>2, RowWriters
  <2> QED  BY <2>1 DEF Numbered, Types, TypeOK
<1> QED  BY <1>1, <1>2

(* Every step keeps an unwritten utterance out of rows, files and lists. *)
LEMMA FreshStep == Types /\ NumberInv /\ Fresh /\ [Next]_vars => Fresh'
<1> SUFFICES ASSUME Types, NumberInv, Fresh, [Next]_vars PROVE Fresh'
  OBVIOUS
<1> USE DEF Types, TypeOK, Busy, Fresh, Importing, Chunk, Spool, store, recovery
<1>1. CASE Number
  <2>1. PICK n \in Sequences : spool' = [pc |-> "numbered", chunk |-> <<n, heard + 1>>]
    BY <1>1 DEF Number
  <2>2. \A f \in Chunks : Named(f) => f[2] <= heard
    BY DEF NumberInv
  <2>3. \A f \in Chunks : Named(f) => f[2] # heard + 1
    BY <2>2 DEF Chunks, Utterances
  <2>4. \A s \in Numbered : row[s] # heard + 1
    BY DEF NumberInv, Numbered, Utterances
  <2> QED  BY <1>1, <2>1, <2>3, <2>4 DEF Number, Named, Numbered
<1>2. CASE WriteTmp \/ Rename \/ InsertChunk \/ PersistFails \/ Miss \/ Reopen \/ EndSession
  BY <1>2 DEF WriteTmp, Rename, InsertChunk, PersistFails, Miss, Reopen, EndSession, Numbered
<1>3. ASSUME NEW s \in Sequences, Transcribe(s) \/ DeleteAudio(s) PROVE Fresh'
  BY <1>3 DEF Transcribe, DeleteAudio, Numbered
<1>4. ASSUME NEW p \in Processes, Launch(p) \/ RecoveryFails(p) \/ Crash(p)
      PROVE  Fresh'
  BY <1>4 DEF Launch, RecoveryFails, Crash, Phase, GiveUp, Numbered
<1>5. ASSUME NEW p \in Processes, Recover(p) PROVE Fresh'
  <2> USE DEF Phase, GiveUp
  <2>1. CASE Interrupt(p) \/ ListFiles(p) \/ Bind(p)
    BY <2>1 DEF Interrupt, ListFiles, Bind, Numbered
  <2>2. CASE InsertOrphan(p)
    BY <2>2 DEF InsertOrphan, Numbered, Chunks
  <2>3. ASSUME NEW g \in Chunks, RemoveTmp(p, g) PROVE Fresh'
    BY <2>3 DEF RemoveTmp, Numbered
  <2>4. ASSUME NEW g \in Chunks, CheckFile(p, g) PROVE Fresh'
    BY <2>4 DEF CheckFile, First, Numbered
  <2> QED  BY <1>5, <2>1, <2>2, <2>3, <2>4 DEF Recover
<1>6. CASE UNCHANGED vars
  BY <1>6 DEF vars, Numbered
<1> QED  BY <1>1, <1>2, <1>3, <1>4, <1>5, <1>6 DEF Next, Persist

(* Every step keeps what may still be inserted. *)
LEMMA KeptStep == Types /\ Kept /\ [Next]_vars => Kept'
<1> SUFFICES ASSUME Types, Kept, [Next]_vars PROVE Kept'
  OBVIOUS
<1>0. Numbered \subseteq Numbered'  BY NumbersStay
<1> USE DEF Types, TypeOK, Busy, Kept, Importing, Chunk, Spool, store, recovery
<1>1. CASE Persist \/ PersistFails \/ Miss \/ Reopen \/ EndSession
  BY <1>0, <1>1 DEF Persist, Number, WriteTmp, Rename, InsertChunk, PersistFails, Miss,
                    Reopen, EndSession
<1>2. ASSUME NEW s \in Sequences, Transcribe(s) PROVE Kept'
  BY <1>0, <1>2 DEF Transcribe
<1>3. ASSUME NEW s \in Sequences, DeleteAudio(s) PROVE Kept'
  BY <1>0, <1>3 DEF DeleteAudio
<1>4. ASSUME NEW p \in Processes, Launch(p) \/ RecoveryFails(p) \/ Crash(p)
      PROVE  Kept'
  BY <1>0, <1>4 DEF Launch, RecoveryFails, Crash, Phase, GiveUp
<1>5. ASSUME NEW p \in Processes, Recover(p) PROVE Kept'
  <2> USE DEF Phase, GiveUp
  <2>1. CASE Interrupt(p) \/ ListFiles(p) \/ Bind(p)
    BY <1>0, <2>1 DEF Interrupt, ListFiles, Bind
  <2>2. CASE InsertOrphan(p)
    BY <1>0, <2>2 DEF InsertOrphan
  <2>3. ASSUME NEW g \in Chunks, RemoveTmp(p, g) PROVE Kept'
    BY <1>0, <2>3 DEF RemoveTmp
  <2>4. ASSUME NEW g \in Chunks, CheckFile(p, g) PROVE Kept'
    BY <1>0, <2>4 DEF CheckFile, First
  <2> QED  BY <1>5, <2>1, <2>2, <2>3, <2>4 DEF Recover
<1>6. CASE UNCHANGED vars
  BY <1>0, <1>6 DEF vars
<1> QED  BY <1>1, <1>2, <1>3, <1>4, <1>5, <1>6 DEF Next

(* Both in every reachable state. *)
LEMMA FreshKeptInvariant == Spec => [](Fresh /\ Kept)
<1>1. Init => Fresh /\ Kept
  BY DEF Init, Fresh, Kept, Importing
<1> QED
  BY <1>1, FreshStep, KeptStep, TypesInvariant, NumberInvariant, PTL DEF Spec

(* An inserted row stores a new utterance, with its audio. *)
LEMMA InsertStores ==
  ASSUME Types, NumberInv, NEW f \in Chunks, Named(f), f[1] \notin Numbered,
         f \in files, row' = [row EXCEPT ![f[1]] = f[2]], UNCHANGED <<files, done>>,
         done \subseteq Numbered
  PROVE  TS!Store(f[2])
<1> USE DEF Types, TypeOK, Sequences, Utterances, Chunks
<1>1. f[1] \in Sequences /\ f[2] \in Utterances /\ f = <<f[1], f[2]>>
  OBVIOUS
<1>2. Numbered' = Numbered \cup {f[1]} /\ row'[f[1]] = f[2]
      /\ \A s \in Numbered : row'[s] = row[s]
  BY <1>1 DEF Numbered
<1>3. \A s \in Numbered : row[s] # f[2]
  <2> SUFFICES ASSUME NEW s \in Numbered, row[s] = f[2] PROVE FALSE
    OBVIOUS
  <2>1. Below(f[1], f[2]) /\ Below(s, row[s])  BY DEF NumberInv
  <2>2. s \in Sequences /\ s # f[1] /\ row[s] \in Utterances  BY DEF Numbered
  <2>3. CASE s < f[1]  BY <2>1, <2>2, <2>3 DEF Below
  <2>4. CASE f[1] < s  BY <1>1, <2>1, <2>4 DEF Below
  <2> QED  BY <1>1, <2>2, <2>3, <2>4
<1>4. f[2] \notin Stored  BY <1>3 DEF Stored
<1>5. Stored' = Stored \cup {f[2]}  BY <1>2 DEF Stored
<1>6. WithAudio' = WithAudio \cup {f[2]}
  <2>1. files' = files  OBVIOUS
  <2>2. \A s \in Numbered : <<s, row'[s]>> \in files' <=> <<s, row[s]>> \in files
    BY <1>2, <2>1
  <2>3. <<f[1], row'[f[1]]>> \in files'  BY <1>1, <1>2, <2>1
  <2> DEFINE Has == {t \in Numbered : <<t, row[t]>> \in files}
  <2>4. Has' = Has \cup {f[1]}  BY <1>2, <2>2, <2>3
  <2>5. \A t \in Has : row'[t] = row[t]  BY <1>2
  <2>6. WithAudio = {row[t] : t \in Has} /\ WithAudio' = {row'[t] : t \in Has'}
    BY DEF WithAudio
  <2> HIDE DEF Has
  <2> QED  BY <1>2, <2>4, <2>5, <2>6
<1>7. Transcribed' = Transcribed  BY <1>2 DEF Transcribed
<1> QED  BY <1>4, <1>5, <1>6, <1>7 DEF TS!Store

(* Steps that change neither rows nor transcripts nor the audio of rows. *)
LEMMA NothingStored ==
  ASSUME row' = row, done' = done,
         \A t \in Numbered : <<t, row[t]>> \in files' <=> <<t, row[t]>> \in files
  PROVE  UNCHANGED <<Stored, WithAudio, Transcribed>>
BY DEF Stored, WithAudio, Transcribed, Numbered

(* The mapped step of each action. *)
LEMMA StoreStep ==
  ASSUME Types, NumberInv, Fresh, Kept, [Next]_vars
  PROVE  [TS!StoreNext]_<<Stored, WithAudio, Transcribed>>
<1> DEFINE Mapped == [TS!StoreNext]_<<Stored, WithAudio, Transcribed>>
<1> USE DEF Types, TypeOK, Busy, Chunk, Spool, store, recovery
<1>1. CASE Number \/ WriteTmp \/ PersistFails \/ Miss \/ Reopen \/ EndSession
  <2>1. row' = row /\ done' = done /\ files' = files
    BY <1>1 DEF Number, WriteTmp, PersistFails, Miss, Reopen, EndSession
  <2> QED  BY <2>1, NothingStored
<1>2. CASE Rename
  <2>1. row' = row /\ done' = done /\ (files' = files \/ files' = files \cup {Chunk})
    BY <1>2 DEF Rename
  <2>2. \A t \in Numbered : <<t, row[t]>> # Chunk
    BY <1>2 DEF Rename, Fresh
  <2> QED  BY <2>1, <2>2, NothingStored
<1>3. CASE InsertChunk
  <2>1. CASE row' = row
    <3>1. done' = done /\ files' = files  BY <1>3 DEF InsertChunk
    <3> QED  BY <2>1, <3>1, NothingStored
  <2>2. CASE row' # row
    <3>1. /\ Chunk \in Chunks /\ Named(Chunk) /\ Chunk[1] \notin Numbered
          /\ row' = [row EXCEPT ![Chunk[1]] = Chunk[2]] /\ UNCHANGED <<files, done>>
      BY <1>3, <2>2 DEF InsertChunk, Named
    <3>2. Chunk \in files /\ done \subseteq Numbered
      BY <1>3, <3>1 DEF InsertChunk, Kept
    <3>3. TS!Store(Chunk[2]) /\ Chunk[2] \in Utterances
      BY <3>1, <3>2, InsertStores DEF Chunks
    <3> QED  BY <3>3 DEF TS!StoreNext
  <2> QED  BY <2>1, <2>2
<1>4. ASSUME NEW s \in Sequences, Transcribe(s) PROVE Mapped
  <2>1. /\ s \in Numbered /\ <<s, row[s]>> \in files /\ done' = done \cup {s}
        /\ row' = row /\ files' = files
    BY <1>4 DEF Transcribe
  <2>2. row[s] \in Utterances /\ row[s] \in Stored \cap WithAudio
    BY <2>1 DEF Numbered, Stored, WithAudio
  <2>3. Transcribed' = Transcribed \cup {row[s]}
        /\ UNCHANGED <<Stored, WithAudio>>
    BY <2>1 DEF Transcribed, Stored, WithAudio, Numbered
  <2> QED  BY <2>2, <2>3 DEF TS!StoreNext, TS!Transcribe
<1>5. ASSUME NEW s \in Sequences, DeleteAudio(s) PROVE Mapped
  <2>1. s \in done /\ s \in Numbered /\ row' = row /\ done' = done
        /\ files' = files \ {<<s, row[s]>>}
    BY <1>5 DEF DeleteAudio, Kept
  <2>2. row[s] \in Utterances /\ row[s] \in Transcribed
    BY <2>1 DEF Numbered, Transcribed
  <2>3. \A t \in Numbered : row[t] = row[s] => t = s
    <3> SUFFICES ASSUME NEW t \in Numbered, row[t] = row[s], t # s PROVE FALSE
      OBVIOUS
    <3>1. Below(t, row[t]) /\ Below(s, row[s])  BY <2>1 DEF NumberInv
    <3>2. t < s \/ s < t  BY <2>1 DEF Numbered, Sequences
    <3> QED  BY <2>1, <2>2, <3>1, <3>2 DEF Below, Numbered, Utterances
  <2>4. WithAudio' = WithAudio \ {row[s]} /\ UNCHANGED <<Stored, Transcribed>>
    BY <2>1, <2>3 DEF WithAudio, Stored, Transcribed, Numbered
  <2>5. TS!Discard({row[s]})
    BY <2>2, <2>4 DEF TS!Discard
  <2>6. {row[s]} \in SUBSET Utterances  BY <2>2
  <2> QED  BY <2>5, <2>6 DEF TS!StoreNext
<1>6. ASSUME NEW p \in Processes, Launch(p) \/ RecoveryFails(p) \/ Crash(p)
      PROVE  Mapped
  <2>1. row' = row /\ done' = done /\ files' = files
    BY <1>6 DEF Launch, RecoveryFails, Crash
  <2> QED  BY <2>1, NothingStored
<1>7. ASSUME NEW p \in Processes, Recover(p), ~InsertOrphan(p) PROVE Mapped
  <2>1. row' = row /\ done' = done /\ files' = files
    BY <1>7 DEF Recover, Interrupt, ListFiles, Bind, RemoveTmp, CheckFile
  <2> QED  BY <2>1, NothingStored
<1>8. ASSUME NEW p \in Processes, InsertOrphan(p) PROVE Mapped
  <2>1. CASE row' = row
    <3>1. done' = done /\ files' = files  BY <1>8 DEF InsertOrphan
    <3> QED  BY <2>1, <3>1, NothingStored
  <2>2. CASE row' # row
    <3> DEFINE f == checked[p]
    <3>1. /\ f \in Chunks /\ Named(f) /\ f[1] \notin Numbered
          /\ row' = [row EXCEPT ![f[1]] = f[2]] /\ UNCHANGED <<files, done>>
      BY <1>8, <2>2 DEF InsertOrphan, Named
    <3>2. f \in files /\ done \subseteq Numbered
      BY <1>8, <3>1 DEF InsertOrphan, Kept
    <3>3. TS!Store(f[2]) /\ f[2] \in Utterances
      BY <3>1, <3>2, InsertStores DEF Chunks
    <3> QED  BY <3>3 DEF TS!StoreNext
  <2> QED  BY <2>1, <2>2
<1>9. CASE UNCHANGED vars
  BY <1>9, NothingStored DEF vars
<1> QED  BY <1>1, <1>2, <1>3, <1>4, <1>5, <1>6, <1>7, <1>8, <1>9 DEF Next, Persist

(* The file protocol implements TranscriptStore: an utterance is stored    *)
(* once and with its audio, whichever of spool and recovery inserts it.    *)
THEOREM StoreRefinement == Spec => ImplementsTranscriptStore
<1>1. Init => TS!StoreInit
  BY DEF Init, TS!StoreInit, Stored, WithAudio, Transcribed, Numbered
<1> QED
  BY <1>1, StoreStep, TypesInvariant, NumberInvariant, FreshKeptInvariant, PTL
     DEF Spec, ImplementsTranscriptStore, TS!StoreSpec, TS!storeVars

-----------------------------------------------------------------------------
(* A fault that has not happened by the end of a step did not happen in it *)
(* or before.                                                              *)
LEMMA SpentGrows ==
  ASSUME Types, [Next]_vars, NEW k \in Kinds
  PROVE  spent[k] \in Nat /\ spent'[k] \in Nat /\ spent'[k] >= spent[k]
<1>0. spent \in [Kinds -> Nat]  BY DEF Types, TypeOK
<1>1. spent' = spent \/ \E kind \in Kinds : Spend(kind)
  BY DEF Next, Persist, Number, WriteTmp, Rename, InsertChunk, PersistFails, Miss,
         Reopen, EndSession, Transcribe, DeleteAudio, Launch, Recover, Interrupt,
         ListFiles, Bind, RemoveTmp, CheckFile, InsertOrphan, RecoveryFails, Crash,
         vars, Kinds
<1> QED  BY <1>0, <1>1 DEF Spend

(* Without a second process nobody else clears the temporary files or      *)
(* takes a number while the spool is at work: it is a task of the process  *)
(* that serves, and recovery is over by then.                              *)
Alone ==
  spent["manual"] = 0 =>
    /\ inst[Manual] = "off"
    /\ spool.pc # "off" => inst[Service] = "serving"
    /\ spool.pc \in {"numbered", "written", "renamed"} => Chunk[1] \notin Numbered
    /\ spool.pc = "written" => Chunk \in tmps

(* Every step keeps it. *)
LEMMA AloneStep == Types /\ Alone /\ [Next]_vars => Alone'
<1> SUFFICES ASSUME Types, Alone, [Next]_vars, spent'["manual"] = 0 PROVE Alone'
  BY DEF Alone
<1>0. spent["manual"] = 0  BY SpentGrows DEF Kinds
<1> USE DEF Types, TypeOK, Busy, Alone, Chunk, Spool, Processes, store, recovery
<1>1. CASE Number
  <2>1. PICK n \in Sequences :
          NextSequence(n) /\ spool' = [pc |-> "numbered", chunk |-> <<n, heard + 1>>]
    BY <1>1 DEF Number
  <2>2. n \notin Numbered  BY <2>1 DEF NextSequence, Numbered, Sequences
  <2> QED  BY <1>0, <1>1, <2>1, <2>2 DEF Number, Numbered
<1>2. CASE WriteTmp \/ Rename \/ InsertChunk \/ PersistFails \/ Miss \/ Reopen \/ EndSession
  BY <1>0, <1>2 DEF WriteTmp, Rename, InsertChunk, PersistFails, Miss, Reopen,
                    EndSession, Numbered
<1>3. ASSUME NEW s \in Sequences, Transcribe(s) \/ DeleteAudio(s) PROVE Alone'
  BY <1>0, <1>3 DEF Transcribe, DeleteAudio, Numbered
<1>4. ASSUME NEW p \in Processes, Launch(p) PROVE Alone'
  <2>1. p = Service
    BY <1>0, <1>4 DEF Launch, Spend, Kinds
  <2> QED  BY <1>0, <1>4, <2>1 DEF Launch, Phase, Numbered
<1>5. ASSUME NEW p \in Processes, RecoveryFails(p) \/ Crash(p) PROVE Alone'
  BY <1>0, <1>5 DEF RecoveryFails, Crash, Phase, GiveUp, Numbered
<1>6. ASSUME NEW p \in Processes, Recover(p) PROVE Alone'
  <2>1. p = Service /\ spool.pc = "off" /\ spool' = spool
    BY <1>0, <1>6 DEF Recover, Interrupt, ListFiles, Bind, RemoveTmp, CheckFile,
                      InsertOrphan
  <2>2. inst'[Manual] = "off"
    BY <1>0, <1>6, <2>1 DEF Recover, Interrupt, ListFiles, Bind, RemoveTmp, CheckFile,
                      InsertOrphan, GiveUp, Phase
  <2> QED  BY <2>1, <2>2
<1>7. CASE UNCHANGED vars
  BY <1>0, <1>7 DEF vars, Numbered
<1> QED  BY <1>1, <1>2, <1>3, <1>4, <1>5, <1>6, <1>7 DEF Next, Persist

(* Alone in every reachable state. *)
LEMMA AloneInvariant == Spec => []Alone
<1>1. Init => Alone
  BY DEF Init, Alone, Processes, Chunk
<1> QED  BY <1>1, AloneStep, TypesInvariant, PTL DEF Spec

(* Without a second process the spool ends only by a failed call: its      *)
(* file is new, its temporary file is still there, its number still free.  *)
LEMMA SpoolSurvives ==
  ASSUME Types, Fresh, Alone, [Next]_vars,
         spool.pc # "dead", spool'.pc = "dead", spent["manual"] = 0
  PROVE  spent'["fault"] > spent["fault"]
<1> USE DEF Types, TypeOK, Busy, Chunk, Spool, Processes, store, recovery
<1>1. CASE PersistFails
  BY <1>1 DEF PersistFails, Spend, Kinds
<1>2. ~WriteTmp  BY DEF WriteTmp, Fresh
<1>3. ~Rename  BY DEF Rename, Alone
<1>4. ~InsertChunk  BY DEF InsertChunk, Alone
<1>5. ~(Number \/ Miss \/ Reopen \/ EndSession)
  BY DEF Number, Miss, Reopen, EndSession
<1>6. ~ \E s \in Sequences : Transcribe(s) \/ DeleteAudio(s)
  BY DEF Transcribe, DeleteAudio
<1>7. ~ \E p \in Processes : Launch(p) \/ Recover(p) \/ RecoveryFails(p) \/ Crash(p)
  BY DEF Launch, Recover, Interrupt, ListFiles, Bind, RemoveTmp, CheckFile,
         InsertOrphan, RecoveryFails, Crash
<1>8. ~ UNCHANGED vars  BY DEF vars
<1> QED  BY <1>1, <1>2, <1>3, <1>4, <1>5, <1>6, <1>7, <1>8 DEF Next, Persist

(* The numbering never ends a spool, whatever crashes and failed calls     *)
(* have left on the disk.                                                  *)
THEOREM NumberingHolds == Spec => OnlyFaultsKillSpool
<1>1. Types /\ Fresh /\ Alone /\ [Next]_vars
        => [ spool.pc # "dead" /\ spool'.pc = "dead" /\ spent["manual"] = 0 =>
               spent'["fault"] > spent["fault"] ]_vars
  BY SpoolSurvives
<1> QED
  BY <1>1, TypesInvariant, FreshKeptInvariant, AloneInvariant, PTL
     DEF Spec, OnlyFaultsKillSpool

-----------------------------------------------------------------------------
(* A finished file without its row. *)
Orphan(f) == f \in files /\ row[f[1]] # f[2]

(* Its number is free, and whoever runs will still insert it. *)
Awaited(f) ==
  /\ row[f[1]] = None
  /\ inst[Service] = "serving" => spool.pc = "renamed" /\ f = Chunk
  /\ inst[Service] = "importing" => f \in todo[Service]
  /\ inst[Service] = "inserting" => f \in todo[Service] \/ f = checked[Service]

(* Without failed calls no two files compete for one number, so that no    *)
(* file is skipped because its number is taken.                            *)
Tidy ==
  spent["fault"] = 0 /\ spent["manual"] = 0 =>
    /\ spool.pc # "dead"
    /\ \A f, g \in files : f[1] = g[1] => f = g
    /\ spool.pc \in {"numbered", "written"} => \A f \in files : f[1] # Chunk[1]
    /\ \A f \in files : Orphan(f) => Awaited(f)

(* The steps of the spool keep it. *)
LEMMA TidySpool ==
  ASSUME Types, Alone, Fresh, Tidy, Persist, spent["fault"] = 0, spent["manual"] = 0
  PROVE  Tidy'
<1> USE DEF Types, TypeOK, Busy, Chunk, Spool, Processes, store, recovery
<1>0. inst[Service] = "serving" /\ inst' = inst
  BY DEF Alone, Persist, Number, WriteTmp, Rename, InsertChunk
<1>1. CASE Number
  <2>1. PICK n \in Sequences :
          NextSequence(n) /\ spool' = [pc |-> "numbered", chunk |-> <<n, heard + 1>>]
    BY <1>1 DEF Number
  <2>2. n \notin Numbered  BY <2>1 DEF NextSequence, Numbered, Sequences
  <2>3. \A f \in files : ~Orphan(f)
    BY <1>0, <1>1 DEF Tidy, Awaited, Number
  <2>4. \A f \in files : f[1] \in Numbered
    BY <2>3 DEF Orphan, Numbered, Chunks, Utterances
  <2> QED  BY <1>1, <2>1, <2>2, <2>3, <2>4 DEF Tidy, Number, Orphan
<1>2. CASE WriteTmp
  <2>1. spool' = [spool EXCEPT !.pc = "written"] /\ UNCHANGED <<row, files, todo, checked>>
    BY <1>2 DEF WriteTmp, Fresh
  <2> QED  BY <1>0, <1>2, <2>1 DEF Tidy, WriteTmp, Orphan, Awaited
<1>3. CASE Rename
  <2>1. /\ spool' = [spool EXCEPT !.pc = "renamed"] /\ files' = files \cup {Chunk}
        /\ UNCHANGED <<row, todo, checked>>
    BY <1>3 DEF Rename, Alone
  <2>2. spool.pc = "written" /\ Chunk \in Chunks  BY <1>3 DEF Rename
  <2>3. row[Chunk[1]] = None  BY <2>2 DEF Alone, Numbered, Chunks
  <2>4. \A f \in files : ~Orphan(f)
    BY <1>0, <2>2 DEF Tidy, Awaited
  <2> QED  BY <1>0, <2>1, <2>2, <2>3, <2>4 DEF Tidy, Orphan, Awaited
<1>4. CASE InsertChunk
  <2>1. /\ spool' = [spool EXCEPT !.pc = "ready"] /\ files' = files
        /\ row' = [row EXCEPT ![Chunk[1]] = Chunk[2]]
    BY <1>4 DEF InsertChunk, Alone
  <2>2. spool.pc = "renamed" /\ Chunk \in Chunks  BY <1>4 DEF InsertChunk
  <2>3. row'[Chunk[1]] = Chunk[2] /\ row[Chunk[1]] = None
    BY <2>1, <2>2 DEF Alone, Numbered, Chunks
  <2>4. \A f \in files : f[1] = Chunk[1] => f = Chunk
    <3> SUFFICES ASSUME NEW f \in files, f[1] = Chunk[1] PROVE f = Chunk
      OBVIOUS
    <3>1. f[2] # None  BY DEF Chunks, Utterances
    <3>2. Orphan(f)  BY <2>3, <3>1 DEF Orphan
    <3> QED  BY <1>0, <3>2 DEF Tidy, Awaited
  <2>5. \A f \in files : f[1] # Chunk[1] => row'[f[1]] = row[f[1]]
    BY <2>1, <2>2 DEF Chunks
  <2>6. \A f \in files : ~Orphan(f)'
    BY <1>0, <2>1, <2>3, <2>4, <2>5 DEF Orphan, Tidy, Awaited
  <2> QED  BY <2>1, <2>6 DEF Tidy
<1> QED  BY <1>1, <1>2, <1>3, <1>4 DEF Persist

(* The steps of recovery keep it: what it lists, it inserts. *)
LEMMA TidyRecovery ==
  ASSUME Types, Alone, Kept, Tidy, Recover(Service),
         spent["fault"] = 0, spent["manual"] = 0
  PROVE  Tidy'
<1> USE DEF Types, TypeOK, Busy, Chunk, Phase, GiveUp, Processes, store, recovery
<1>0. spool.pc = "off" /\ spool' = spool /\ files' = files /\ inst[Manual] = "off"
  BY DEF Alone, Recover, Interrupt, ListFiles, Bind, RemoveTmp, CheckFile, InsertOrphan
<1>1. CASE Interrupt(Service) \/ ListFiles(Service)
  BY <1>0, <1>1 DEF Interrupt, ListFiles, Tidy, Orphan, Awaited
<1>2. CASE Bind(Service)
  <2>1. \A f \in files : ~Orphan(f)
    BY <1>2 DEF Bind, Tidy, Awaited
  <2> QED  BY <1>0, <1>2, <2>1 DEF Bind, Tidy, Orphan
<1>3. ASSUME NEW f \in Chunks, RemoveTmp(Service, f) PROVE Tidy'
  BY <1>0, <1>3 DEF RemoveTmp, Tidy, Orphan, Awaited
<1>4. ASSUME NEW f \in Chunks, CheckFile(Service, f) PROVE Tidy'
  <2>1. \A g \in files : Orphan(g) /\ g = f => f[1] \notin Numbered
    BY DEF Tidy, Awaited, Numbered
  <2> QED  BY <1>0, <1>4, <2>1 DEF CheckFile, Tidy, Orphan, Awaited
<1>5. CASE InsertOrphan(Service)
  <2> DEFINE f == checked[Service]
  <2>0. f \in Chunks /\ inst[Service] = "inserting"  BY <1>5 DEF InsertOrphan
  <2>1. CASE f[1] \in Numbered
    BY <1>0, <1>5, <2>1 DEF InsertOrphan, Tidy, Orphan, Awaited
  <2>2. CASE f[1] \notin Numbered
    <3>1. /\ row' = [row EXCEPT ![f[1]] = f[2]] /\ inst'[Service] = "importing"
          /\ todo' = todo /\ f \in files
      BY <1>5, <2>0, <2>2 DEF InsertOrphan, Kept
    <3>2. row'[f[1]] = f[2] /\ \A g \in files : g[1] # f[1] => row'[g[1]] = row[g[1]]
      BY <2>0, <3>1 DEF Chunks
    <3>3. \A g \in files : Orphan(g)' => Orphan(g) /\ g # f /\ g[1] # f[1]
      BY <1>0, <3>1, <3>2 DEF Orphan, Tidy
    <3> QED  BY <1>0, <2>0, <3>1, <3>2, <3>3 DEF Tidy, Awaited
  <2> QED  BY <2>1, <2>2
<1> QED  BY <1>1, <1>2, <1>3, <1>4, <1>5 DEF Recover

(* Every step keeps it. *)
LEMMA TidyStep ==
  Types /\ Alone /\ Fresh /\ Kept /\ Tidy /\ [Next]_vars => Tidy'
<1> SUFFICES ASSUME Types, Alone, Fresh, Kept, Tidy, [Next]_vars,
                    spent'["fault"] = 0, spent'["manual"] = 0
             PROVE  Tidy'
  BY DEF Tidy
<1>0. spent["fault"] = 0 /\ spent["manual"] = 0  BY SpentGrows DEF Kinds
<1> USE DEF Types, TypeOK, Busy, Chunk, Spool, Processes, store, recovery
<1>1. ~PersistFails /\ ~Miss /\ ~Reopen
  BY <1>0 DEF PersistFails, Miss, Reopen, Spend, Kinds, Tidy
<1>2. CASE EndSession
  BY <1>0, <1>2 DEF EndSession, Tidy, Orphan, Awaited
<1>3. ASSUME NEW s \in Sequences, Transcribe(s) \/ DeleteAudio(s) PROVE Tidy'
  <2>1. /\ files' \subseteq files
        /\ UNCHANGED <<row, spool, inst, todo, checked>>
    BY <1>3 DEF Transcribe, DeleteAudio
  <2> QED  BY <1>0, <2>1 DEF Tidy, Orphan, Awaited
<1>4. ASSUME NEW p \in Processes, Launch(p) \/ RecoveryFails(p) \/ Crash(p)
      PROVE  Tidy'
  <2>1. ~RecoveryFails(p)  BY <1>0 DEF RecoveryFails, Spend, Kinds
  <2>2. p = Service  BY <1>0, <1>4, <2>1 DEF Launch, Crash, Spend, Kinds, Alone
  <2>3. CASE Launch(Service)
    BY <1>0, <2>3 DEF Launch, Phase, Tidy, Orphan, Awaited
  <2>4. CASE Crash(Service)
    BY <1>0, <2>4 DEF Crash, GiveUp, Phase, Tidy, Orphan, Awaited
  <2> QED  BY <1>4, <2>1, <2>2, <2>3, <2>4
<1>5. ASSUME NEW p \in Processes, Recover(p) PROVE Tidy'
  <2>1. p = Service
    BY <1>0, <1>5 DEF Alone, Recover, Interrupt, ListFiles, Bind, RemoveTmp,
                      CheckFile, InsertOrphan
  <2> QED  BY <1>0, <1>5, <2>1, TidyRecovery
<1>6. CASE UNCHANGED vars
  BY <1>6 DEF vars, Tidy, Orphan, Awaited
<1> QED  BY <1>0, <1>1, <1>2, <1>3, <1>4, <1>5, <1>6, TidySpool DEF Next

(* Tidy in every reachable state. *)
LEMMA TidyInvariant == Spec => []Tidy
<1>1. Init => Tidy
  BY DEF Init, Tidy
<1> QED
  BY <1>1, TidyStep, TypesInvariant, AloneInvariant, FreshKeptInvariant, PTL DEF Spec

(* While the service runs alone and no call has failed, every finished     *)
(* file has its row or is being given one by the spool, after any number   *)
(* of crashes at any place.                                                *)
THEOREM FilesHaveRows == Spec => []FilesKnown
<1>1. Alone /\ Tidy => FilesKnown
  <2> SUFFICES ASSUME Alone, Tidy, Serving, spent["fault"] = 0, spent["manual"] = 0,
                      NEW f \in files, row[f[1]] # f[2]
               PROVE  spool.pc = "renamed" /\ f = Chunk
    BY DEF FilesKnown
  <2>1. inst[Service] = "serving"  BY DEF Serving, Alone, Processes
  <2> QED  BY <2>1 DEF Tidy, Orphan, Awaited
<1> QED  BY <1>1, AloneInvariant, TidyInvariant, PTL
=============================================================================
