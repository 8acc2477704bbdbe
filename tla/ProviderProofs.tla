--------------------------- MODULE ProviderProofs ---------------------------
(***************************************************************************)
(* Theorems about Provider for every set of chunks, either provider or     *)
(* both, and any number of attempts and faults.  What the child and the    *)
(* processes it starts do is not restricted.                               *)
(***************************************************************************)
EXTENDS Provider, TLAPS

USE ProvidersAssumption, NoneAssumption, BudgetAssumption

(* An attempt knows its chunk, its provider and its input, voxtype's is    *)
(* always a WAV, and the last result is that of the attempt.               *)
Equipped ==
  /\ attempt.at = "idle" => attempt = Idle
  /\ attempt.at # "idle" =>
       /\ attempt.chunk \in Chunks /\ attempt.provider \in Providers
       /\ attempt.input \in {"flac", "wav"} /\ result.chunk = attempt.chunk
       /\ attempt.provider = "voxtype" => attempt.input = "wav"

(* A verdict is reached at the end of the command and forgotten before the *)
(* next one; only a killing verdict leads to reap_group.                   *)
Judged ==
  /\ attempt.at \in {"idle", "prepare", "collect"} => verdict = None
  /\ attempt.at = "reap" => verdict \in Killing

(* What the loop has collected is complete: an output is read to its end   *)
(* only when nobody can write it any more.                                 *)
Collected ==
  attempt.at = "collect" =>
    /\ \A p \in Pipes : reader[p] = "bytes" => holds[p] = {}
    /\ \A p \in Pipes \cap got : reader[p] = "bytes"
    /\ "status" \in got => exit # None

(* A directory holds sound and words of its own chunk only. *)
OwnFiles == \A d \in Chunks : wav[d] \in {d, None} /\ json[d] \in {d, None}

(* Until a crash or a failing preparation only the chunk that is worked on *)
(* has files.                                                              *)
NoOthers ==
  spent["crash"] = 0 /\ spent["prepare"] = 0 =>
    \A d \in Chunks : d # attempt.chunk => wav[d] = None /\ json[d] = None

IInv == /\ TypeOK /\ Equipped /\ Judged /\ Collected /\ OwnFiles /\ NoOthers
        /\ GroupGone /\ WholeOutput /\ WordsOfItsChunk

(* What an event spends stays a natural number, and only grows. *)
LEMMA SpendOne ==
  ASSUME spent \in [Kinds -> Nat], NEW kind \in Kinds, Spend(kind)
  PROVE  /\ spent' \in [Kinds -> Nat] /\ spent'[kind] # 0
         /\ \A k \in Kinds : spent'[k] = 0 => spent[k] = 0
BY DEF Spend

(* An attempt that goes on keeps its chunk, provider and input. *)
LEMMA GoOn ==
  ASSUME attempt \in Attempts, NEW state \in States, Go(state)
  PROVE  /\ attempt' \in Attempts /\ attempt'.at = state
         /\ attempt'.chunk = attempt.chunk /\ attempt'.provider = attempt.provider
         /\ attempt'.input = attempt.input
BY DEF Attempts, Go

(* An idle attempt has neither. *)
LEMMA IdleFields ==
  Idle \in Attempts /\ Idle.at = "idle" /\ Idle.chunk = None
BY DEF Idle, Attempts, States

LEMMA ForgetType ==
  ASSUME Forget
  PROVE  /\ alive' = {} /\ holds' \in [Pipes -> SUBSET alive'] /\ exit' = None
         /\ reader' \in [Pipes -> {"off", "reading", "bytes", "overflow", "error"}]
         /\ got' = {} /\ verdict' = None
BY DEF Forget

(* An answer ends the attempt and empties its directory. *)
LEMMA AnswerEnds ==
  ASSUME TypeOK, attempt.chunk \in Chunks, NEW words \in Chunks \cup {None}, Answer(words)
  PROVE  /\ attempt' = Idle /\ Forget
         /\ result' \in Results /\ result'.words = words
         /\ result'.chunk = attempt.chunk
         /\ wav' \in [Chunks -> Chunks \cup {None}]
         /\ json' \in [Chunks -> Chunks \cup {None}]
         /\ \A d \in Chunks : wav'[d] = IF d = attempt.chunk THEN None ELSE wav[d]
         /\ \A d \in Chunks : json'[d] = IF d = attempt.chunk THEN None ELSE json[d]
BY DEF Answer, Results, TypeOK, Here, Dir

(* The words of a command come from the directory of its chunk. *)
LEMMA WordsType ==
  ASSUME TypeOK, attempt.chunk \in Chunks
  PROVE  Words \in {None, wav[attempt.chunk], json[attempt.chunk]}
         /\ Words \in Chunks \cup {None}
BY DEF Words, TypeOK, Here, Dir


(* Every step keeps the types. *)
LEMMA TypeStep == TypeOK /\ Equipped /\ [Next]_vars => TypeOK'
<1> SUFFICES ASSUME TypeOK, Equipped, [Next]_vars PROVE TypeOK'
  OBVIOUS
<1> USE DEF TypeOK, Equipped, Here, Dir, States, disk, processes, command,
    Pipes, Group, Procs, Verdicts, Killing
<1>1. ASSUME NEW c \in Chunks, NEW provider \in Providers, Begin(c, provider)
    PROVE TypeOK'
  BY <1>1, SpendOne DEF Begin, Attempts, Results, Kinds
<1>2. CASE Parent
  <2>1. CASE Prepare
    BY <2>1, GoOn DEF Prepare
  <2>2. CASE Decode
    BY <2>2 DEF Decode, Attempts
  <2>3. CASE Conclude
    <3>1. CASE Go("decode") /\ UNCHANGED <<result, disk, processes, command>>
      BY <2>3, <3>1, GoOn DEF Conclude
    <3>2. CASE Answer(Words)
      BY <2>3, <3>2, AnswerEnds, WordsType, ForgetType, IdleFields DEF Conclude
    <3> QED  BY <2>3, <3>1, <3>2 DEF Conclude
  <2>4. CASE Spawn
    BY <2>4, GoOn DEF Spawn
  <2>5. ASSUME NEW p \in Pipes, CollectOutput(p) PROVE TypeOK'
    <3>1. CASE reader[p] = "bytes"
      BY <2>5, <3>1 DEF CollectOutput
    <3>2. CASE reader[p] = "overflow"
      BY <2>5, <3>2, GoOn DEF CollectOutput, Reap
    <3>3. CASE reader[p] = "error"
      <4>1. attempt' \in Attempts /\ verdict' = "unread"
        BY <2>5, <3>3, GoOn DEF CollectOutput, Leave
      <4>2. alive' = alive \ {"child"} /\ holds' \in [Pipes -> SUBSET alive']
            /\ UNCHANGED <<result, wav, json, reader, exit, got, spent>>
        BY <2>5, <3>3 DEF CollectOutput, DropChild
      <4> QED  BY <4>1, <4>2
    <3> QED  BY <2>5, <3>1, <3>2, <3>3 DEF CollectOutput
  <2>6. CASE CollectStatus
    BY <2>6 DEF CollectStatus
  <2>7. CASE Deadline \/ AllCollected
    BY <2>7, GoOn DEF Deadline, AllCollected, Leave, Reap
  <2>8. CASE ReapGroup
    BY <2>8, GoOn DEF ReapGroup
  <2> QED  BY <1>2, <2>1, <2>2, <2>3, <2>4, <2>5, <2>6, <2>7, <2>8 DEF Parent
<1>3. ASSUME NEW p \in Pipes, Read(p) PROVE TypeOK'
  BY <1>3, SpendOne DEF Read, Running, Kinds
<1>4. CASE Fork \/ ClosePipe
  <2>1. CASE Fork
    BY <2>1 DEF Fork, Running
  <2>2. CASE ClosePipe
    BY <2>2 DEF ClosePipe, Running
  <2> QED  BY <1>4, <2>1, <2>2
<1>5. CASE Exit
  BY <1>5 DEF Exit, Running
<1>6. CASE Faults
  <2>1. CASE PrepareFails
    BY <2>1, SpendOne, IdleFields DEF PrepareFails, Kinds
  <2>2. CASE DecodeFails
    BY <2>2, SpendOne, AnswerEnds, ForgetType, IdleFields DEF DecodeFails, Kinds
  <2>3. CASE Reject
    <3> USE SpendOne DEF Kinds
    <3>1. CASE Go("decode") /\ UNCHANGED <<result, disk, processes, command>>
      BY <2>3, <3>1, GoOn DEF Reject
    <3>2. CASE Answer(None)
      BY <2>3, <3>2, AnswerEnds, ForgetType, IdleFields DEF Reject
    <3> QED  BY <2>3, <3>1, <3>2 DEF Reject
  <2>4. CASE SpawnFails \/ WaitFails
    BY <2>4, SpendOne, GoOn DEF SpawnFails, WaitFails, Kinds, Reap
  <2>5. CASE Crash
    BY <2>5, SpendOne, ForgetType, IdleFields DEF Crash, Kinds
  <2> QED  BY <1>6, <2>1, <2>2, <2>3, <2>4, <2>5 DEF Faults
<1>7. CASE UNCHANGED vars
  BY <1>7 DEF vars
<1> QED  BY <1>1, <1>2, <1>3, <1>4, <1>5, <1>6, <1>7 DEF Next

(* Every step keeps what an attempt works with. *)
LEMMA EquippedStep == TypeOK /\ Equipped /\ [Next]_vars => Equipped'
<1> SUFFICES ASSUME TypeOK, Equipped, [Next]_vars PROVE Equipped'
  OBVIOUS
<1> USE DEF TypeOK, Equipped, States, disk, processes, command, Pipes,
    Verdicts, Killing
<1>1. ASSUME NEW c \in Chunks, NEW provider \in Providers, Begin(c, provider)
    PROVE Equipped'
  BY <1>1 DEF Begin, Results, Attempts
<1>2. CASE Parent
  <2>1. CASE Prepare
    BY <2>1, GoOn DEF Prepare
  <2>2. CASE Decode
    BY <2>2 DEF Decode, Attempts
  <2>3. CASE Conclude
    BY <2>3, GoOn, AnswerEnds, WordsType, IdleFields DEF Conclude
  <2>4. CASE Spawn
    BY <2>4, GoOn DEF Spawn
  <2>5. ASSUME NEW p \in Pipes, CollectOutput(p) PROVE Equipped'
    BY <2>5, GoOn DEF CollectOutput, Leave, Reap
  <2>6. CASE CollectStatus
    BY <2>6 DEF CollectStatus
  <2>7. CASE Deadline \/ AllCollected
    BY <2>7, GoOn DEF Deadline, AllCollected, Leave, Reap
  <2>8. CASE ReapGroup
    BY <2>8, GoOn DEF ReapGroup
  <2> QED  BY <1>2, <2>1, <2>2, <2>3, <2>4, <2>5, <2>6, <2>7, <2>8 DEF Parent
<1>3. ASSUME NEW p \in Pipes, Read(p) PROVE Equipped'
  BY <1>3 DEF Read, Running
<1>4. CASE Fork \/ ClosePipe
  <2>1. CASE Fork
    BY <2>1 DEF Fork, Running
  <2>2. CASE ClosePipe
    BY <2>2 DEF ClosePipe, Running
  <2> QED  BY <1>4, <2>1, <2>2
<1>5. CASE Exit
  BY <1>5 DEF Exit, Running
<1>6. CASE Faults
  <2>1. CASE PrepareFails
    BY <2>1, IdleFields DEF PrepareFails
  <2>2. CASE DecodeFails
    BY <2>2, AnswerEnds, IdleFields DEF DecodeFails
  <2>3. CASE Reject
    BY <2>3, GoOn, AnswerEnds, IdleFields DEF Reject
  <2>4. CASE SpawnFails \/ WaitFails
    BY <2>4, GoOn DEF SpawnFails, WaitFails, Reap
  <2>5. CASE Crash
    BY <2>5, IdleFields DEF Crash
  <2> QED  BY <1>6, <2>1, <2>2, <2>3, <2>4, <2>5 DEF Faults
<1>7. CASE UNCHANGED vars
  BY <1>7 DEF vars
<1> QED  BY <1>1, <1>2, <1>3, <1>4, <1>5, <1>6, <1>7 DEF Next

(* Every step keeps verdicts to their places. *)
LEMMA JudgedStep == TypeOK /\ Equipped /\ Judged /\ [Next]_vars => Judged'
<1> SUFFICES ASSUME TypeOK, Equipped, Judged, [Next]_vars PROVE Judged'
  OBVIOUS
<1> USE DEF TypeOK, Equipped, Judged, States, disk, processes, command, Pipes,
    Verdicts, Killing
<1>1. ASSUME NEW c \in Chunks, NEW provider \in Providers, Begin(c, provider)
    PROVE Judged'
  BY <1>1 DEF Begin, Attempts
<1>2. CASE Parent
  <2>1. CASE Prepare
    BY <2>1, GoOn DEF Prepare
  <2>2. CASE Decode
    BY <2>2 DEF Decode, Attempts
  <2>3. CASE Conclude
    BY <2>3, GoOn, AnswerEnds, WordsType, IdleFields DEF Conclude, Forget
  <2>4. CASE Spawn
    BY <2>4, GoOn DEF Spawn
  <2>5. ASSUME NEW p \in Pipes, CollectOutput(p) PROVE Judged'
    BY <2>5, GoOn DEF CollectOutput, Leave, Reap
  <2>6. CASE CollectStatus
    BY <2>6 DEF CollectStatus
  <2>7. CASE Deadline \/ AllCollected
    BY <2>7, GoOn DEF Deadline, AllCollected, Leave, Reap
  <2>8. CASE ReapGroup
    BY <2>8, GoOn DEF ReapGroup
  <2> QED  BY <1>2, <2>1, <2>2, <2>3, <2>4, <2>5, <2>6, <2>7, <2>8 DEF Parent
<1>3. ASSUME NEW p \in Pipes, Read(p) PROVE Judged'
  BY <1>3 DEF Read, Running
<1>4. CASE Fork \/ ClosePipe
  <2>1. CASE Fork
    BY <2>1 DEF Fork, Running
  <2>2. CASE ClosePipe
    BY <2>2 DEF ClosePipe, Running
  <2> QED  BY <1>4, <2>1, <2>2
<1>5. CASE Exit
  BY <1>5 DEF Exit, Running
<1>6. CASE Faults
  <2>1. CASE PrepareFails
    BY <2>1, IdleFields DEF PrepareFails
  <2>2. CASE DecodeFails
    BY <2>2, AnswerEnds, IdleFields DEF DecodeFails, Forget
  <2>3. CASE Reject
    BY <2>3, GoOn, AnswerEnds, IdleFields DEF Reject, Forget
  <2>4. CASE SpawnFails \/ WaitFails
    BY <2>4, GoOn DEF SpawnFails, WaitFails, Reap
  <2>5. CASE Crash
    BY <2>5, IdleFields DEF Crash, Forget
  <2> QED  BY <1>6, <2>1, <2>2, <2>3, <2>4, <2>5 DEF Faults
<1>7. CASE UNCHANGED vars
  BY <1>7 DEF vars
<1> QED  BY <1>1, <1>2, <1>3, <1>4, <1>5, <1>6, <1>7 DEF Next

(* Every step keeps the collected outputs complete: a pipe nobody holds is  *)
(* not opened again, since only a holder can hand it on.                   *)
LEMMA CollectedStep == TypeOK /\ Equipped /\ Collected /\ [Next]_vars => Collected'
<1> SUFFICES ASSUME TypeOK, Equipped, Collected, [Next]_vars PROVE Collected'
  OBVIOUS
<1> USE DEF TypeOK, Equipped, Collected, States, disk, processes, command,
    Pipes, Verdicts, Killing
<1>1. ASSUME NEW c \in Chunks, NEW provider \in Providers, Begin(c, provider)
    PROVE Collected'
  BY <1>1 DEF Begin, Attempts
<1>2. CASE Parent
  <2>1. CASE Prepare
    BY <2>1, GoOn DEF Prepare
  <2>2. CASE Decode
    BY <2>2 DEF Decode, Attempts
  <2>3. CASE Conclude
    BY <2>3, GoOn, AnswerEnds, WordsType, IdleFields DEF Conclude
  <2>4. CASE Spawn
    BY <2>4, GoOn DEF Spawn
  <2>5. ASSUME NEW p \in Pipes, CollectOutput(p) PROVE Collected'
    BY <2>5, GoOn DEF CollectOutput, Leave, Reap, DropChild
  <2>6. CASE CollectStatus
    BY <2>6 DEF CollectStatus
  <2>7. CASE Deadline \/ AllCollected
    BY <2>7, GoOn DEF Deadline, AllCollected, Leave, Reap
  <2>8. CASE ReapGroup
    BY <2>8, GoOn DEF ReapGroup
  <2> QED  BY <1>2, <2>1, <2>2, <2>3, <2>4, <2>5, <2>6, <2>7, <2>8 DEF Parent
<1>3. ASSUME NEW p \in Pipes, Read(p) PROVE Collected'
  BY <1>3 DEF Read, Running
<1>4. CASE Fork \/ ClosePipe
  <2>1. CASE Fork
    BY <2>1 DEF Fork, Running
  <2>2. CASE ClosePipe
    BY <2>2 DEF ClosePipe, Running
  <2> QED  BY <1>4, <2>1, <2>2
<1>5. CASE Exit
  <2>1. UNCHANGED <<attempt, reader, got>>  BY <1>5 DEF Exit, Running
  <2>2. \A p \in Pipes : holds[p] = {} => holds'[p] = {}  BY <1>5 DEF Exit, Running
  <2>3. exit # None => exit' # None  BY <1>5 DEF Exit, Running
  <2> QED  BY <2>1, <2>2, <2>3
<1>6. CASE Faults
  <2>1. CASE PrepareFails
    BY <2>1, IdleFields DEF PrepareFails
  <2>2. CASE DecodeFails
    BY <2>2, AnswerEnds, IdleFields DEF DecodeFails
  <2>3. CASE Reject
    BY <2>3, GoOn, AnswerEnds, IdleFields DEF Reject
  <2>4. CASE SpawnFails \/ WaitFails
    BY <2>4, GoOn DEF SpawnFails, WaitFails, Reap
  <2>5. CASE Crash
    BY <2>5, IdleFields DEF Crash
  <2> QED  BY <1>6, <2>1, <2>2, <2>3, <2>4, <2>5 DEF Faults
<1>7. CASE UNCHANGED vars
  BY <1>7 DEF vars
<1> QED  BY <1>1, <1>2, <1>3, <1>4, <1>5, <1>6, <1>7 DEF Next

(* Every step writes only what was said in the chunk. *)
LEMMA OwnFilesStep == TypeOK /\ Equipped /\ OwnFiles /\ [Next]_vars => OwnFiles'
<1> SUFFICES ASSUME TypeOK, Equipped, OwnFiles, [Next]_vars PROVE OwnFiles'
  OBVIOUS
<1> USE DEF TypeOK, Equipped, OwnFiles, Here, Dir, disk, processes, command,
    Pipes, Verdicts, Killing
<1>1. ASSUME NEW c \in Chunks, NEW provider \in Providers, Begin(c, provider)
    PROVE OwnFiles'
  BY <1>1 DEF Begin
<1>2. CASE Parent
  <2>1. CASE Prepare
    BY <2>1 DEF Prepare
  <2>2. CASE Decode
    BY <2>2 DEF Decode
  <2>3. CASE Conclude
    BY <2>3, AnswerEnds, WordsType DEF Conclude
  <2>4. CASE Spawn
    BY <2>4 DEF Spawn
  <2>5. ASSUME NEW p \in Pipes, CollectOutput(p) PROVE OwnFiles'
    BY <2>5 DEF CollectOutput
  <2>6. CASE CollectStatus
    BY <2>6 DEF CollectStatus
  <2>7. CASE Deadline \/ AllCollected
    BY <2>7 DEF Deadline, AllCollected
  <2>8. CASE ReapGroup
    BY <2>8 DEF ReapGroup
  <2> QED  BY <1>2, <2>1, <2>2, <2>3, <2>4, <2>5, <2>6, <2>7, <2>8 DEF Parent
<1>3. ASSUME NEW p \in Pipes, Read(p) PROVE OwnFiles'
  BY <1>3 DEF Read, Running
<1>4. CASE Fork \/ ClosePipe
  <2>1. CASE Fork
    BY <2>1 DEF Fork, Running
  <2>2. CASE ClosePipe
    BY <2>2 DEF ClosePipe, Running
  <2> QED  BY <1>4, <2>1, <2>2
<1>5. CASE Exit
  BY <1>5 DEF Exit, Running
<1>6. CASE Faults
  <2>1. CASE PrepareFails
    BY <2>1 DEF PrepareFails
  <2>2. CASE DecodeFails
    BY <2>2, AnswerEnds DEF DecodeFails
  <2>3. CASE Reject
    BY <2>3, AnswerEnds DEF Reject
  <2>4. CASE SpawnFails \/ WaitFails
    BY <2>4 DEF SpawnFails, WaitFails
  <2>5. CASE Crash
    BY <2>5 DEF Crash
  <2> QED  BY <1>6, <2>1, <2>2, <2>3, <2>4, <2>5 DEF Faults
<1>7. CASE UNCHANGED vars
  BY <1>7 DEF vars
<1> QED  BY <1>1, <1>2, <1>3, <1>4, <1>5, <1>6, <1>7 DEF Next

(* Every step keeps the directories of other chunks empty. *)
LEMMA NoOthersStep == TypeOK /\ Equipped /\ NoOthers /\ [Next]_vars => NoOthers'
<1> SUFFICES ASSUME TypeOK, Equipped, NoOthers, [Next]_vars PROVE NoOthers'
  OBVIOUS
<1> USE DEF TypeOK, Equipped, NoOthers, Here, Dir, States, Kinds, disk,
    processes, command, Pipes, Verdicts, Killing
<1>1. ASSUME NEW c \in Chunks, NEW provider \in Providers, Begin(c, provider)
    PROVE NoOthers'
  BY <1>1, IdleFields, SpendOne DEF Begin, Attempts
<1>2. CASE Parent
  <2>1. CASE Prepare
    BY <2>1, GoOn DEF Prepare
  <2>2. CASE Decode
    BY <2>2 DEF Decode, Attempts
  <2>3. CASE Conclude
    BY <2>3, GoOn, AnswerEnds, WordsType, IdleFields DEF Conclude
  <2>4. CASE Spawn
    BY <2>4, GoOn DEF Spawn
  <2>5. ASSUME NEW p \in Pipes, CollectOutput(p) PROVE NoOthers'
    BY <2>5, GoOn DEF CollectOutput, Leave, Reap
  <2>6. CASE CollectStatus
    BY <2>6 DEF CollectStatus
  <2>7. CASE Deadline \/ AllCollected
    BY <2>7, GoOn DEF Deadline, AllCollected, Leave, Reap
  <2>8. CASE ReapGroup
    BY <2>8, GoOn DEF ReapGroup
  <2> QED  BY <1>2, <2>1, <2>2, <2>3, <2>4, <2>5, <2>6, <2>7, <2>8 DEF Parent
<1>3. ASSUME NEW p \in Pipes, Read(p) PROVE NoOthers'
  BY <1>3, SpendOne DEF Read, Running
<1>4. CASE Fork \/ ClosePipe
  <2>1. CASE Fork
    BY <2>1 DEF Fork, Running
  <2>2. CASE ClosePipe
    BY <2>2 DEF ClosePipe, Running
  <2> QED  BY <1>4, <2>1, <2>2
<1>5. CASE Exit
  BY <1>5 DEF Exit, Running
<1>6. CASE Faults
  <2>1. CASE PrepareFails
    BY <2>1, IdleFields, SpendOne DEF PrepareFails
  <2>2. CASE DecodeFails
    BY <2>2, AnswerEnds, IdleFields, SpendOne DEF DecodeFails
  <2>3. CASE Reject
    BY <2>3, GoOn, AnswerEnds, IdleFields, SpendOne DEF Reject
  <2>4. CASE SpawnFails \/ WaitFails
    BY <2>4, GoOn, SpendOne DEF SpawnFails, WaitFails, Reap
  <2>5. CASE Crash
    BY <2>5, IdleFields, SpendOne DEF Crash, Forget
  <2> QED  BY <1>6, <2>1, <2>2, <2>3, <2>4, <2>5 DEF Faults
<1>7. CASE UNCHANGED vars
  BY <1>7 DEF vars
<1> QED  BY <1>1, <1>2, <1>3, <1>4, <1>5, <1>6, <1>7 DEF Next

(* Every step keeps the group of a given up command gone: a killing verdict *)
(* passes reap_group, and the loop that lets processes act is over then.   *)
LEMMA GroupStep == TypeOK /\ Equipped /\ Judged /\ GroupGone /\ [Next]_vars =>
    GroupGone'
<1> SUFFICES ASSUME TypeOK, Equipped, Judged, GroupGone, [Next]_vars PROVE
    GroupGone'
  OBVIOUS
<1> USE DEF TypeOK, Equipped, Judged, GroupGone, States, disk, processes,
    command, Pipes, Verdicts, Killing
<1>1. ASSUME NEW c \in Chunks, NEW provider \in Providers, Begin(c, provider)
    PROVE GroupGone'
  BY <1>1 DEF Begin, Attempts
<1>2. CASE Parent
  <2>1. CASE Prepare
    <3>1. verdict' = verdict /\ verdict = None  BY <2>1 DEF Prepare
    <3> QED  BY <3>1
  <2>2. CASE Decode
    BY <2>2 DEF Decode, Attempts
  <2>3. CASE Conclude
    BY <2>3, GoOn, AnswerEnds, WordsType, IdleFields DEF Conclude, Forget
  <2>4. CASE Spawn
    BY <2>4, GoOn DEF Spawn
  <2>5. ASSUME NEW p \in Pipes, CollectOutput(p) PROVE GroupGone'
    BY <2>5, GoOn DEF CollectOutput, Leave, Reap
  <2>6. CASE CollectStatus
    BY <2>6 DEF CollectStatus
  <2>7. CASE Deadline \/ AllCollected
    BY <2>7, GoOn DEF Deadline, AllCollected, Leave, Reap
  <2>8. CASE ReapGroup
    BY <2>8, GoOn DEF ReapGroup
  <2> QED  BY <1>2, <2>1, <2>2, <2>3, <2>4, <2>5, <2>6, <2>7, <2>8 DEF Parent
<1>3. ASSUME NEW p \in Pipes, Read(p) PROVE GroupGone'
  BY <1>3 DEF Read, Running
<1>4. CASE Fork \/ ClosePipe
  <2>1. CASE Fork
    BY <2>1 DEF Fork, Running
  <2>2. CASE ClosePipe
    BY <2>2 DEF ClosePipe, Running
  <2> QED  BY <1>4, <2>1, <2>2
<1>5. CASE Exit
  BY <1>5 DEF Exit, Running
<1>6. CASE Faults
  <2>1. CASE PrepareFails
    BY <2>1, IdleFields DEF PrepareFails
  <2>2. CASE DecodeFails
    BY <2>2, AnswerEnds, IdleFields DEF DecodeFails, Forget
  <2>3. CASE Reject
    BY <2>3, GoOn, AnswerEnds, IdleFields DEF Reject, Forget
  <2>4. CASE SpawnFails \/ WaitFails
    BY <2>4, GoOn DEF SpawnFails, WaitFails, Reap
  <2>5. CASE Crash
    BY <2>5, IdleFields DEF Crash, Forget
  <2> QED  BY <1>6, <2>1, <2>2, <2>3, <2>4, <2>5 DEF Faults
<1>7. CASE UNCHANGED vars
  BY <1>7 DEF vars
<1> QED  BY <1>1, <1>2, <1>3, <1>4, <1>5, <1>6, <1>7 DEF Next

(* Every step keeps the outputs that a verdict of output stands for. *)
LEMMA WholeStep == TypeOK /\ Equipped /\ Judged /\ Collected /\ WholeOutput /\
    [Next]_vars => WholeOutput'
<1> SUFFICES ASSUME TypeOK, Equipped, Judged, Collected, WholeOutput,
    [Next]_vars PROVE WholeOutput'
  OBVIOUS
<1> USE DEF TypeOK, Judged, Collected, WholeOutput, States, disk, processes,
    command, Pipes, Verdicts, Killing
<1>1. ASSUME NEW c \in Chunks, NEW provider \in Providers, Begin(c, provider)
    PROVE WholeOutput'
  BY <1>1 DEF Begin, Attempts
<1>2. CASE Parent
  <2>1. CASE Prepare
    BY <2>1, GoOn DEF Prepare
  <2>2. CASE Decode
    BY <2>2 DEF Decode, Attempts
  <2>3. CASE Conclude
    <3>1. verdict' = None \/ UNCHANGED <<verdict, processes, command>>
      BY <2>3, ForgetType DEF Conclude, Answer
    <3> QED  BY <3>1
  <2>4. CASE Spawn
    <3>1. verdict' = None \/ UNCHANGED <<verdict, processes, command>>
      BY <2>4 DEF Spawn
    <3> QED  BY <3>1
  <2>5. ASSUME NEW p \in Pipes, CollectOutput(p) PROVE WholeOutput'
    BY <2>5, GoOn DEF CollectOutput, Leave, Reap
  <2>6. CASE CollectStatus
    BY <2>6 DEF CollectStatus
  <2>7. CASE Deadline \/ AllCollected
    BY <2>7, GoOn DEF Deadline, AllCollected, Leave, Reap
  <2>8. CASE ReapGroup
    BY <2>8, GoOn DEF ReapGroup
  <2> QED  BY <1>2, <2>1, <2>2, <2>3, <2>4, <2>5, <2>6, <2>7, <2>8 DEF Parent
<1>3. ASSUME NEW p \in Pipes, Read(p) PROVE WholeOutput'
  BY <1>3 DEF Read, Running
<1>4. CASE Fork \/ ClosePipe
  <2>1. CASE Fork
    BY <2>1 DEF Fork, Running
  <2>2. CASE ClosePipe
    BY <2>2 DEF ClosePipe, Running
  <2> QED  BY <1>4, <2>1, <2>2
<1>5. CASE Exit
  BY <1>5 DEF Exit, Running
<1>6. CASE Faults
  <2>1. CASE PrepareFails
    BY <2>1, IdleFields DEF PrepareFails
  <2>2. CASE DecodeFails
    <3>1. verdict' = None \/ UNCHANGED <<verdict, processes, command>>
      BY <2>2, ForgetType DEF DecodeFails, Answer
    <3> QED  BY <3>1
  <2>3. CASE Reject
    <3>1. verdict' = None \/ UNCHANGED <<verdict, processes, command>>
      BY <2>3, ForgetType DEF Reject, Answer
    <3> QED  BY <3>1
  <2>4. CASE SpawnFails \/ WaitFails
    BY <2>4, GoOn DEF SpawnFails, WaitFails, Reap
  <2>5. CASE Crash
    <3>1. verdict' = None \/ UNCHANGED <<verdict, processes, command>>
      BY <2>5, ForgetType DEF Crash
    <3> QED  BY <3>1
  <2> QED  BY <1>6, <2>1, <2>2, <2>3, <2>4, <2>5 DEF Faults
<1>7. CASE UNCHANGED vars
  BY <1>7 DEF vars
<1> QED  BY <1>1, <1>2, <1>3, <1>4, <1>5, <1>6, <1>7 DEF Next

(* Every step answers with the words of the chunk. *)
LEMMA OwnWordsStep == TypeOK /\ Equipped /\ OwnFiles /\ WordsOfItsChunk /\
    [Next]_vars => WordsOfItsChunk'
<1> SUFFICES ASSUME TypeOK, Equipped, OwnFiles, WordsOfItsChunk, [Next]_vars
    PROVE WordsOfItsChunk'
  OBVIOUS
<1> USE DEF TypeOK, Equipped, OwnFiles, WordsOfItsChunk, disk, processes,
    command, Pipes, Verdicts, Killing
<1>1. ASSUME NEW c \in Chunks, NEW provider \in Providers, Begin(c, provider)
    PROVE WordsOfItsChunk'
  BY <1>1 DEF Begin, Results
<1>2. CASE Parent
  <2>1. CASE Prepare
    BY <2>1 DEF Prepare
  <2>2. CASE Decode
    BY <2>2 DEF Decode
  <2>3. CASE Conclude
    BY <2>3, AnswerEnds, WordsType DEF Conclude
  <2>4. CASE Spawn
    BY <2>4 DEF Spawn
  <2>5. ASSUME NEW p \in Pipes, CollectOutput(p) PROVE WordsOfItsChunk'
    BY <2>5 DEF CollectOutput
  <2>6. CASE CollectStatus
    BY <2>6 DEF CollectStatus
  <2>7. CASE Deadline \/ AllCollected
    BY <2>7 DEF Deadline, AllCollected
  <2>8. CASE ReapGroup
    BY <2>8 DEF ReapGroup
  <2> QED  BY <1>2, <2>1, <2>2, <2>3, <2>4, <2>5, <2>6, <2>7, <2>8 DEF Parent
<1>3. ASSUME NEW p \in Pipes, Read(p) PROVE WordsOfItsChunk'
  BY <1>3 DEF Read, Running
<1>4. CASE Fork \/ ClosePipe
  <2>1. CASE Fork
    BY <2>1 DEF Fork, Running
  <2>2. CASE ClosePipe
    BY <2>2 DEF ClosePipe, Running
  <2> QED  BY <1>4, <2>1, <2>2
<1>5. CASE Exit
  BY <1>5 DEF Exit, Running
<1>6. CASE Faults
  <2>1. CASE PrepareFails
    BY <2>1 DEF PrepareFails
  <2>2. CASE DecodeFails
    BY <2>2, AnswerEnds DEF DecodeFails
  <2>3. CASE Reject
    BY <2>3, AnswerEnds DEF Reject
  <2>4. CASE SpawnFails \/ WaitFails
    BY <2>4 DEF SpawnFails, WaitFails
  <2>5. CASE Crash
    BY <2>5 DEF Crash
  <2> QED  BY <1>6, <2>1, <2>2, <2>3, <2>4, <2>5 DEF Faults
<1>7. CASE UNCHANGED vars
  BY <1>7 DEF vars
<1> QED  BY <1>1, <1>2, <1>3, <1>4, <1>5, <1>6, <1>7 DEF Next

-----------------------------------------------------------------------------
(* The invariant holds at the start and every step keeps it. *)
LEMMA InitInv == Init => IInv
<1> SUFFICES ASSUME Init PROVE IInv
  OBVIOUS
<1> USE IdleFields DEF Init
<1>1. TypeOK  BY DEF TypeOK, Results
<1>2. Equipped /\ Judged /\ Collected  BY DEF Equipped, Judged, Collected
<1>3. OwnFiles /\ NoOthers  BY DEF OwnFiles, NoOthers
<1>4. GroupGone /\ WholeOutput /\ WordsOfItsChunk
  BY DEF GroupGone, WholeOutput, WordsOfItsChunk, Verdicts
<1> QED  BY <1>1, <1>2, <1>3, <1>4 DEF IInv

LEMMA StepInv == IInv /\ [Next]_vars => IInv'
BY TypeStep, EquippedStep, JudgedStep, CollectedStep, OwnFilesStep, NoOthersStep,
   GroupStep, WholeStep, OwnWordsStep DEF IInv

LEMMA Inductive == Spec => []IInv
BY InitInv, StepInv, PTL DEF Spec

(* Every variable keeps its type. *)
THEOREM TypeCorrect == Spec => []TypeOK
<1>1. IInv => TypeOK  BY DEF IInv
<1> QED  BY <1>1, Inductive, PTL

(* A command that was given up leaves no process of its group, and an      *)
(* attempt that got to its command leaves no file, for the next attempt to *)
(* meet, whatever the processes did.                                       *)
THEOREM CleanEnd == Spec => []NothingLeft
<1>1. IInv => TypeOK /\ GroupGone  BY DEF IInv
<1>2. IInv => NoFilesLeft
  BY IdleFields DEF IInv, TypeOK, Equipped, NoOthers, NoFilesLeft, Kinds
<1> QED  BY <1>1, <1>2, Inductive, PTL DEF NothingLeft

(* What an attempt answers was said in its own chunk, by a command whose   *)
(* outputs were read to their ends.                                        *)
THEOREM WholeAnswers == Spec => []OutputRight
<1>1. IInv => OutputRight  BY DEF IInv, OutputRight
<1> QED  BY <1>1, Inductive, PTL

=============================================================================
