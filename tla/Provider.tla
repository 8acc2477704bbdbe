------------------------------ MODULE Provider ------------------------------
(***************************************************************************)
(* One attempt at a transcription: the provider prepares its input in a    *)
(* temporary directory, runs voxtype or whisper-cli as a child process in  *)
(* a group of its own (run_capped_command) and reads what it says, with a  *)
(* limit on time and on output.  The child may start processes that keep   *)
(* its pipes open, in its group or out of it, and may exit, hang, fail or  *)
(* talk without end.  Whisper is tried again on a WAV when FLAC fails.     *)
(*                                                                         *)
(* Attempts follow one another, the one worker of the daemon makes them;   *)
(* the processes are those of the command that runs or ran last.           *)
(***************************************************************************)
EXTENDS Integers, FiniteSets

CONSTANTS
  Chunks,
  Providers,    \* those the attempts may use, of "voxtype" and "whisper"
  None,         \* no chunk, provider, input, exit or verdict
  Budget        \* bound: how often each event of Kinds may happen

Kinds == {"attempt", "prepare", "fault", "crash"}
Pipes == {"out", "err"}
Group == {"child", "helper"}   \* the process group of the command
Procs == Group \cup {"loose"}  \* and a process that left it

ASSUME ProvidersAssumption == Providers \subseteq {"voxtype", "whisper"}
ASSUME BudgetAssumption    == Budget \in [Kinds -> Nat]

VARIABLES
  attempt,  \* where the attempt is, its provider, chunk and input
  result,   \* of the last attempt: its chunk and the chunk whose words it got
  wav,      \* whose sound is in the WAV of each temporary directory
  json,     \* whose words are in its out.json
  alive,    \* the processes that run
  holds,    \* who has each pipe open for writing
  exit,     \* how the child ended
  reader,   \* the two tasks that read the pipes
  got,      \* what the loop of run_capped_command has collected
  verdict,  \* of the last command
  spent     \* how often each event of Kinds has happened

disk      == <<wav, json>>
processes == <<alive, holds, exit>>
command   == <<reader, got, verdict>>
vars      == <<attempt, result, disk, processes, command, spent>>

-----------------------------------------------------------------------------
States   == {"idle", "prepare", "decode", "spawn", "collect", "reap", "conclude"}
Verdicts == {"output", "timeout", "overflow", "unread", "failed"}
Killing  == {"timeout", "overflow", "failed"}  \* verdicts that reap the group
ASSUME NoneAssumption ==
  None \notin Chunks \cup Providers \cup Verdicts \cup {"flac", "wav", "ok", "bad"}
Attempts == [at : States, provider : Providers \cup {None}, chunk : Chunks \cup {None},
             input : {"flac", "wav", None}]
Results  == [chunk : Chunks \cup {None}, words : Chunks \cup {None}]
Idle     == [at |-> "idle", provider |-> None, chunk |-> None, input |-> None]

Spend(kind) == /\ spent[kind] < Budget[kind]
               /\ spent' = [spent EXCEPT ![kind] = @ + 1]

Go(state) == attempt' = [attempt EXCEPT !.at = state]

(* Mutant: one directory for all. *)
SharedDir(c) == CHOOSE d \in Chunks : TRUE

\* The temporary directory is named after the chunk.
Dir(c) == c
Here   == Dir(attempt.chunk)

\* Processes that are left are not followed any further.
Forget ==
  /\ alive' = {} /\ holds' = [p \in Pipes |-> {}] /\ exit' = None
  /\ reader' = [p \in Pipes |-> "off"]
  /\ got' = {} /\ verdict' = None

\* The directory is removed and the attempt answers its worker.
Answer(words) ==
  /\ result' = [chunk |-> attempt.chunk, words |-> words]
  /\ wav' = [wav EXCEPT ![Here] = None]
  /\ json' = [json EXCEPT ![Here] = None]
  /\ attempt' = Idle
  /\ Forget

TypeOK ==
  /\ attempt \in Attempts /\ result \in Results
  /\ wav \in [Chunks -> Chunks \cup {None}] /\ json \in [Chunks -> Chunks \cup {None}]
  /\ alive \subseteq Procs /\ holds \in [Pipes -> SUBSET alive]
  /\ exit \in {None, "ok", "bad"}
  /\ reader \in [Pipes -> {"off", "reading", "bytes", "overflow", "error"}]
  /\ got \subseteq Pipes \cup {"status"}
  /\ verdict \in Verdicts \cup {None}
  /\ spent \in [Kinds -> Nat]

Init ==
  /\ attempt = Idle
  /\ result = [chunk |-> None, words |-> None]
  /\ wav = [c \in Chunks |-> None] /\ json = [c \in Chunks |-> None]
  /\ alive = {} /\ holds = [p \in Pipes |-> {}] /\ exit = None
  /\ reader = [p \in Pipes |-> "off"]
  /\ got = {} /\ verdict = None
  /\ spent = [k \in Kinds |-> 0]

-----------------------------------------------------------------------------
(* transcribe of the two providers *)

Begin(c, provider) ==
  /\ attempt.at = "idle"
  /\ Spend("attempt")
  /\ attempt' = [at |-> "prepare", provider |-> provider, chunk |-> c,
                 input |-> IF provider = "voxtype" THEN "wav" ELSE "flac"]
  /\ result' = [chunk |-> c, words |-> None]
  /\ UNCHANGED <<disk, processes, command>>

\* voxtype reads a WAV that is made first, whisper-cli the FLAC of the chunk.
Prepare ==
  /\ attempt.at = "prepare"
  /\ wav' = IF attempt.input = "wav" THEN [wav EXCEPT ![Here] = attempt.chunk] ELSE wav
  /\ Go("spawn")
  /\ UNCHANGED <<result, json, processes, command, spent>>

\* Snapshot, audio, executable or model is missing or too big, or the WAV cannot
\* be written to its end: the directory stays.
PrepareFails ==
  /\ attempt.at = "prepare"
  /\ Spend("prepare")
  /\ wav' \in {wav, IF attempt.input = "wav" THEN [wav EXCEPT ![Here] = attempt.chunk] ELSE wav}
  /\ attempt' = Idle
  /\ UNCHANGED <<result, json, processes, command>>

\* decode_and_retry_wav: the first error counts when this one fails too.
Decode ==
  /\ attempt.at = "decode"
  /\ wav' = [wav EXCEPT ![Here] = attempt.chunk]
  /\ attempt' = [attempt EXCEPT !.at = "spawn", !.input = "wav"]
  /\ UNCHANGED <<result, json, processes, command, spent>>

DecodeFails ==
  /\ attempt.at = "decode"
  /\ Spend("fault")
  /\ Answer(None)

\* The words of a command that ended well: on its output, or in its file.
Words ==
  CASE ~(verdict = "output" /\ exit = "ok") -> None
    [] attempt.provider = "voxtype"         -> wav[Here]
    [] OTHER                                -> json[Here]

(* Mutant: voxtype's directory stays after an error. *)
ConcludeUntidy ==
  /\ attempt.at = "conclude"
  /\ IF Words = None /\ attempt.provider = "voxtype"
     THEN attempt' = Idle /\ Forget /\ UNCHANGED <<result, disk>>
     ELSE IF Words = None /\ attempt.input = "flac"
     THEN Go("decode") /\ UNCHANGED <<result, disk, processes, command>>
     ELSE Answer(Words)
  /\ UNCHANGED spent

Conclude ==
  /\ attempt.at = "conclude"
  /\ IF Words = None /\ attempt.input = "flac"
     THEN Go("decode") /\ UNCHANGED <<result, disk, processes, command>>
     ELSE Answer(Words)
  /\ UNCHANGED spent

\* Too long, or a file that is too big, no UTF-8, no JSON or has no words in it.
Reject ==
  /\ attempt.at = "conclude" /\ Words # None
  /\ Spend("fault")
  /\ IF attempt.input = "flac"
     THEN Go("decode") /\ UNCHANGED <<result, disk, processes, command>>
     ELSE Answer(None)

-----------------------------------------------------------------------------
(* run_capped_command *)

Spawn ==
  /\ attempt.at = "spawn"
  /\ alive' = {"child"} /\ holds' = [p \in Pipes |-> {"child"}] /\ exit' = None
  /\ reader' = [p \in Pipes |-> "reading"]
  /\ got' = {} /\ verdict' = None
  /\ Go("collect")
  /\ UNCHANGED <<result, disk, spent>>

SpawnFails ==
  /\ attempt.at = "spawn"
  /\ Spend("fault")
  /\ verdict' = "unread"
  /\ Go("conclude")
  /\ UNCHANGED <<result, disk, processes, reader, got>>

\* The child and its files are dropped with the future: only itself is killed.
DropChild ==
  /\ alive' = alive \ {"child"}
  /\ holds' = [p \in Pipes |-> holds[p] \ {"child"}]

Leave(v) == verdict' = v /\ Go("conclude")
Reap(v)  == verdict' = v /\ Go("reap") /\ got' = {}

(* Mutant: what was read of a too long output is taken for all of it. *)
CollectOutputCut(p) ==
  /\ attempt.at = "collect" /\ p \notin got
  /\ reader[p] \in {"bytes", "overflow", "error"}
  /\ IF reader[p] = "error" THEN Leave("unread") /\ DropChild /\ UNCHANGED <<exit, got>>
     ELSE got' = got \cup {p} /\ UNCHANGED <<attempt, verdict, processes>>
  /\ UNCHANGED <<result, disk, reader, spent>>

\* handle_reader_result
CollectOutput(p) ==
  /\ attempt.at = "collect" /\ p \notin got
  /\ \/ /\ reader[p] = "bytes"
        /\ got' = got \cup {p}
        /\ UNCHANGED <<attempt, verdict, processes>>
     \/ /\ reader[p] = "overflow"
        /\ Reap("overflow")
        /\ UNCHANGED processes
     \/ /\ reader[p] = "error"
        /\ Leave("unread") /\ DropChild
        /\ UNCHANGED <<exit, got>>
  /\ UNCHANGED <<result, disk, reader, spent>>

CollectStatus ==
  /\ attempt.at = "collect" /\ "status" \notin got
  /\ exit # None
  /\ got' = got \cup {"status"}
  /\ UNCHANGED <<attempt, result, disk, processes, reader, verdict, spent>>

WaitFails ==
  /\ attempt.at = "collect" /\ "status" \notin got
  /\ Spend("fault")
  /\ Reap("failed")
  /\ UNCHANGED <<result, disk, processes, reader>>

(* Mutant: only the wait for the child is limited. *)
DeadlineOfWait ==
  /\ attempt.at = "collect" /\ "status" \notin got
  /\ Reap("timeout")
  /\ UNCHANGED <<result, disk, processes, reader, spent>>

\* However long the limit is, what happens before it may be anything.
Deadline ==
  /\ attempt.at = "collect"
  /\ Reap("timeout")
  /\ UNCHANGED <<result, disk, processes, reader, spent>>

AllCollected ==
  /\ attempt.at = "collect"
  /\ got = Pipes \cup {"status"}
  /\ Leave("output")
  /\ UNCHANGED <<result, disk, processes, reader, got, spent>>

(* Mutant: the child is killed, its group is not. *)
ReapChild ==
  /\ attempt.at = "reap"
  /\ alive' = alive \ {"child"}
  /\ holds' = [p \in Pipes |-> holds[p] \ {"child"}]
  /\ exit' = IF exit = None THEN "bad" ELSE exit
  /\ reader' = [p \in Pipes |-> "off"]
  /\ Go("conclude")
  /\ UNCHANGED <<result, disk, got, verdict, spent>>

\* reap_group: the whole group is killed, then both readers are let go.
ReapGroup ==
  /\ attempt.at = "reap"
  /\ alive' = alive \ Group
  /\ holds' = [p \in Pipes |-> holds[p] \ Group]
  /\ exit' = IF exit = None THEN "bad" ELSE exit
  /\ reader' = [p \in Pipes |-> "off"]
  /\ Go("conclude")
  /\ UNCHANGED <<result, disk, got, verdict, spent>>

\* What readers and processes do once the loop was left matters to nobody.
Running == attempt.at = "collect"

\* read_capped: to the end of the pipe, to the limit (also when its writers are
\* gone and the last of their output is in the pipe), or to an error.
Read(p) ==
  /\ Running /\ reader[p] = "reading"
  /\ \/ /\ holds[p] = {}
        /\ reader' = [reader EXCEPT ![p] = "bytes"]
        /\ UNCHANGED spent
     \/ /\ reader' = [reader EXCEPT ![p] = "overflow"]
        /\ UNCHANGED spent
     \/ /\ Spend("fault")
        /\ reader' = [reader EXCEPT ![p] = "error"]
  /\ UNCHANGED <<attempt, result, disk, processes, got, verdict>>

-----------------------------------------------------------------------------
(* The processes *)

\* Someone starts a process that has the pipes, in the group or out of it.
Fork ==
  \E q \in {"helper", "loose"} \ alive, parent \in alive :
    /\ Running
    /\ q = "helper" => parent \in Group
    /\ alive' = alive \cup {q}
    /\ holds' = [p \in Pipes |-> IF parent \in holds[p] THEN holds[p] \cup {q} ELSE holds[p]]
    /\ UNCHANGED <<attempt, result, disk, exit, command, spent>>

ClosePipe ==
  \E q \in alive, p \in Pipes :
    /\ Running
    /\ q \in holds[p]
    /\ holds' = [holds EXCEPT ![p] = @ \ {q}]
    /\ UNCHANGED <<attempt, result, disk, alive, exit, command, spent>>

\* The child ends; whisper-cli ends well without a file when it cannot read its input.
Exit ==
  \E q \in alive, how \in {"ok", "bad"} :
    /\ Running
    /\ alive' = alive \ {q}
    /\ holds' = [p \in Pipes |-> holds[p] \ {q}]
    /\ exit' = IF q = "child" THEN how ELSE exit
    /\ \/ UNCHANGED json
       \/ /\ q = "child" /\ how = "ok" /\ attempt.provider = "whisper"
          /\ json' = [json EXCEPT ![Here] = attempt.chunk]
    /\ UNCHANGED <<attempt, result, wav, command, spent>>

\* The daemon dies: nothing is tidied up, its service manager ends the processes.
Crash ==
  /\ attempt.at # "idle"
  /\ Spend("crash")
  /\ attempt' = Idle
  /\ Forget
  /\ UNCHANGED <<result, disk>>

Parent ==
  \/ Prepare \/ Decode \/ Conclude \/ Spawn
  \/ \E p \in Pipes : CollectOutput(p)
  \/ CollectStatus \/ Deadline \/ AllCollected \/ ReapGroup

Faults == PrepareFails \/ DecodeFails \/ Reject \/ SpawnFails \/ WaitFails \/ Crash

Next ==
  \/ \E c \in Chunks, provider \in Providers : Begin(c, provider)
  \/ Parent
  \/ \E p \in Pipes : Read(p)
  \/ Fork \/ ClosePipe \/ Exit
  \/ Faults

\* The daemon's task goes on and time passes; of the processes nothing is known.
Fairness == WF_vars(Parent)
Spec == Init /\ [][Next]_vars /\ Fairness

-----------------------------------------------------------------------------
(* An attempt ends, whatever its processes do: who hangs, talks without end, *)
(* or exits and leaves the pipes to a process nobody kills, runs into the    *)
(* deadline (run_capped_command's select).                                   *)
AttemptEnds == (attempt.at # "idle") ~> (attempt.at = "idle")

(* A command that was given up, for its time, its output or because it could *)
(* not be waited for, leaves no process of its group running.                *)
GroupGone ==
  attempt.at \in {"conclude", "decode", "spawn"} /\ verdict \in Killing
    => alive \cap Group = {}

(* Words come only from a command that ended well and whose two outputs were *)
(* read to their ends: never from one that was cut off, whichever of exit,   *)
(* limit and deadline came first.                                            *)
WholeOutput ==
  verdict = "output" =>
    /\ exit # None
    /\ \A p \in Pipes : reader[p] = "bytes" /\ holds[p] = {}

(* The words an attempt answers with were spoken in its own chunk: neither a *)
(* directory that a crash left nor an earlier attempt gives those of another.*)
WordsOfItsChunk == result.words \in {result.chunk, None}

(* An attempt that got as far as its command takes its files with it.        *)
NoFilesLeft ==
  attempt.at = "idle" /\ spent["crash"] + spent["prepare"] = 0
    => \A d \in Chunks : wav[d] = None /\ json[d] = None

(* What an attempt answers was said in its chunk and said completely.        *)
OutputRight == WholeOutput /\ WordsOfItsChunk

(* Neither processes nor files of an attempt are left behind, for the next   *)
(* attempt at the same chunk to meet.                                        *)
NothingLeft == TypeOK /\ GroupGone /\ NoFilesLeft
=============================================================================
