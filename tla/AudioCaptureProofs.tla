------------------------- MODULE AudioCaptureProofs -------------------------
(***************************************************************************)
(* Theorems about AudioCapture for any number of devices, of changes in    *)
(* the world, of failed starts and of late answers.                        *)
(***************************************************************************)
EXTENDS AudioCapture, SequenceTheorems, TLAPS

USE NamesAssumption, BudgetAssumption

Replies == {"none", "ok", "error"} \cup Devices

(* The types by groups of variables; a task with a stream to start or to   *)
(* listen to has resolved its device.                                      *)
WorldTypes ==
  /\ source \in Sources /\ present \subseteq Devices /\ server \in BOOLEAN
  /\ default \in Devices \cup {None} /\ configured \in Devices \cup {Default}
  /\ stop \in BOOLEAN /\ spent \in [Kinds -> Nat]

ThreadTypes ==
  /\ link \in {"up", "failed", "waiting"} /\ last \in Devices \cup {None}
  /\ refresh \in BOOLEAN /\ stream \in Streams \cup {None} /\ sender \in Holders

ChannelTypes == commands \in Seq(Commands) /\ reply \in Replies

TaskTypes ==
  /\ task \in Steps /\ bound \in Devices \cup {None}
  /\ task \in {"starting", "capturing"} => bound \in Devices
  /\ followed \in Devices \cup {Default} /\ failed \in BOOLEAN /\ late \in BOOLEAN

NewsTypes == woken \in BOOLEAN /\ missed \in BOOLEAN

Types == WorldTypes /\ ThreadTypes /\ ChannelTypes /\ TaskTypes /\ NewsTypes

-----------------------------------------------------------------------------
(* The command channel.                                                    *)

(* The command the task waits for, by the place where it waits. *)
Awaits(op) ==
  \/ op = "resolve" /\ task = "resolving"
  \/ op = "start" /\ task = "starting"
  \/ op = "stop" /\ task = "stopping"

(* Only the newest command can have a sender that still waits, and it is   *)
(* the task in its present place.  A command that was answered leaves the  *)
(* channel empty, so that nothing is done behind the back of a task that   *)
(* went on with an answer.                                                 *)
Queue ==
  /\ \A i \in DOMAIN commands : commands[i].live =>
       /\ i = Len(commands) /\ reply = "none"
       /\ Awaits(commands[i].op)
       /\ commands[i].op = "start" => commands[i].device = bound
  /\ reply \notin {"none", "error"} => commands = <<>>
  /\ ~late => \A i \in DOMAIN commands : commands[i].live

(* What the thread takes from the channel, and what stays. *)
LEMMA Taken ==
  ASSUME Types, commands # <<>>
  PROVE  /\ Command \in Commands /\ Command = commands[1] /\ 1 \in DOMAIN commands
         /\ Tail(commands) \in Seq(Commands)
         /\ \A i \in DOMAIN Tail(commands) :
              /\ i + 1 \in DOMAIN commands /\ Tail(commands)[i] = commands[i + 1]
              /\ i + 1 = Len(commands) => i = Len(Tail(commands))
         /\ Len(commands) = 1 => Tail(commands) = <<>>
<1>1. commands \in Seq(Commands)  BY DEF Types, ChannelTypes
<1>2. /\ Len(commands) \in Nat \ {0} /\ DOMAIN commands = 1 .. Len(commands)
  BY <1>1, EmptySeq, LenProperties
<1>3. /\ Head(commands) \in Commands /\ Tail(commands) \in Seq(Commands)
      /\ Len(Tail(commands)) = Len(commands) - 1
      /\ \A i \in 1 .. Len(Tail(commands)) : Tail(commands)[i] = commands[i + 1]
  BY <1>1, HeadTailProperties
<1>4. DOMAIN Tail(commands) = 1 .. Len(Tail(commands))  BY <1>3, LenProperties
<1>5. Len(commands) = 1 => Tail(commands) = <<>>
  <2>1. \A q \in Seq(Commands) : q # <<>> => Len(q) \in Nat \ {0}  BY EmptySeq
  <2>2. ASSUME Len(commands) = 1 PROVE Len(Tail(commands)) = 0
    BY <1>2, <1>3, <2>2
  <2> QED  BY <1>3, <2>1, <2>2
<1>6. Head(commands) = commands[1]  BY <1>1
<1> QED  BY <1>2, <1>3, <1>4, <1>5, <1>6 DEF Command

(* An answer keeps the channel in order.  It reaches the task only when    *)
(* the command was the last one, and the one it waits for.                 *)
LEMMA Answered ==
  ASSUME Types, Queue, commands # <<>>, NEW r \in Replies \ {"none"}, Answer(r)
  PROVE  /\ commands' \in Seq(Commands) /\ reply' \in Replies
         /\ Command \in Commands
         /\ \/ /\ Command.live /\ reply = "none" /\ reply' = r /\ commands' = <<>>
               /\ Awaits(Command.op)
               /\ Command.op = "start" => Command.device = bound
            \/ /\ late /\ reply' = reply /\ reply \in {"none", "error"}
               /\ ~Command.live
               /\ \A i \in DOMAIN commands' :
                    i + 1 \in DOMAIN commands /\ commands'[i] = commands[i + 1]
                    /\ (i + 1 = Len(commands) => i = Len(commands'))
<1>1. /\ Command \in Commands /\ Command = commands[1] /\ 1 \in DOMAIN commands
      /\ Tail(commands) \in Seq(Commands)
      /\ \A i \in DOMAIN Tail(commands) :
           /\ i + 1 \in DOMAIN commands /\ Tail(commands)[i] = commands[i + 1]
           /\ i + 1 = Len(commands) => i = Len(Tail(commands))
      /\ Len(commands) = 1 => Tail(commands) = <<>>
  BY Taken
<1>2. commands' = Tail(commands) /\ reply' = IF Command.live THEN r ELSE reply
  BY DEF Answer
<1>3. CASE Command.live
  <2>1. /\ Len(commands) = 1 /\ reply = "none" /\ Awaits(Command.op)
        /\ Command.op = "start" => Command.device = bound
    BY <1>1, <1>3 DEF Queue
  <2> QED  BY <1>1, <1>2, <1>3, <2>1 DEF Replies
<1>4. CASE ~Command.live
  <2>1. late /\ reply \in {"none", "error"}
    BY <1>1, <1>4 DEF Queue, Types, ChannelTypes, Replies
  <2> QED  BY <1>1, <1>2, <1>4, <2>1 DEF Replies
<1> QED  BY <1>3, <1>4

(* A step of the thread that only answers keeps Queue. *)
LEMMA AnsweredQueue ==
  ASSUME Types, Queue, commands # <<>>, NEW r \in Replies \ {"none"}, Answer(r),
         UNCHANGED <<task, bound, late>>
  PROVE  Queue'
<1>1. CASE commands' = <<>>
  BY <1>1 DEF Queue
<1>2. CASE /\ late /\ reply' = reply /\ reply \in {"none", "error"}
           /\ \A i \in DOMAIN commands' :
                /\ i + 1 \in DOMAIN commands /\ commands'[i] = commands[i + 1]
                /\ i + 1 = Len(commands) => i = Len(commands')
  BY <1>2 DEF Queue, Awaits
<1> QED  BY <1>1, <1>2, Answered

(* A task that sends a command has no other that is alive. *)
LEMMA Sent ==
  ASSUME Types, NEW op \in {"resolve", "start", "stop"},
         NEW device \in Devices \cup {Default}, Send(op, device),
         Queue, ~Awaits("resolve") \/ reply # "none",
         ~Awaits("start") \/ reply # "none", ~Awaits("stop") \/ reply # "none",
         late' = late, Awaits(op)', op = "start" => device = bound'
  PROVE  commands' \in Seq(Commands) /\ reply' = "none" /\ Queue'
<1> DEFINE c == [op |-> op, device |-> device, live |-> TRUE]
<1>1. c \in Commands /\ commands \in Seq(Commands)  BY DEF Types, ChannelTypes, Commands
<1>2. commands' = Append(commands, c) /\ reply' = "none"  BY DEF Send
<1>3. /\ commands' \in Seq(Commands) /\ Len(commands') = Len(commands) + 1
      /\ Len(commands) \in Nat
      /\ DOMAIN commands = 1 .. Len(commands) /\ DOMAIN commands' = 1 .. Len(commands')
      /\ \A i \in 1 .. Len(commands) : commands'[i] = commands[i]
      /\ commands'[Len(commands')] = c
  <2>1. Len(commands) \in Nat /\ DOMAIN commands = 1 .. Len(commands)
    BY <1>1, LenProperties
  <2>2. /\ commands' \in Seq(Commands) /\ Len(commands') = Len(commands) + 1
        /\ \A i \in 1 .. Len(commands) : commands'[i] = commands[i]
        /\ commands'[Len(commands) + 1] = c
    BY <1>1, <1>2, AppendProperties
  <2>3. DOMAIN commands' = 1 .. Len(commands')
    BY <2>2, LenProperties
  <2> QED  BY <2>1, <2>2, <2>3
<1>4. \A i \in DOMAIN commands : ~commands[i].live
  <2> SUFFICES ASSUME NEW i \in DOMAIN commands, commands[i].live PROVE FALSE
    OBVIOUS
  <2>1. Awaits(commands[i].op) /\ reply = "none"  BY DEF Queue
  <2>2. Awaits("resolve") \/ Awaits("start") \/ Awaits("stop")
    BY <2>1 DEF Awaits
  <2> QED  BY <2>1, <2>2
<1>5. \A i \in DOMAIN commands' : i \in DOMAIN commands \/ i = Len(commands')
  BY <1>3
<1>6. ASSUME NEW i \in DOMAIN commands', commands'[i].live
      PROVE  i = Len(commands') /\ commands'[i] = c
  BY <1>3, <1>4, <1>5, <1>6
<1>7. ~late => \A i \in DOMAIN commands' : commands'[i].live
  BY <1>3, <1>4, <1>5 DEF Queue
<1> QED  BY <1>2, <1>3, <1>6, <1>7 DEF Queue

-----------------------------------------------------------------------------
(* The joint invariant.                                                    *)

(* The task has, or is about to take note of, a stream of its own. *)
Listening == task = "capturing" \/ (task = "starting" /\ reply = "ok")

(* While it has, the stream is that of its device, and runs, or the task   *)
(* was told otherwise or did not listen when it was told.                  *)
Fed ==
  Listening =>
    /\ reply = "ok"
    /\ Runs => stream.device = bound
    /\ Runs \/ missed \/ (task = "capturing" /\ woken)

(* There is no stream without a connection, and as long as no answer came  *)
(* too late none without a task that has it or has asked for its end.      *)
Minded ==
  /\ link = "waiting" => stream = None
  /\ ~late /\ stream # None => Listening \/ (task = "stopping" /\ reply = "none")

IInv == Types /\ Queue /\ Fed /\ Minded

(* The fault counters stay natural numbers. *)
LEMMA SpendType ==
  ASSUME Types, NEW kind \in Kinds, Spend(kind)
  PROVE  spent' \in [Kinds -> Nat]
BY DEF Spend, Types, WorldTypes

(* A stream that fails is reported to the task that has it, or missed by   *)
(* the task that is about to listen to it.                                 *)
LEMMA Killed ==
  ASSUME Types, Queue, Fed, Minded, NEW devices \in SUBSET Devices, Kill(devices),
         UNCHANGED <<commands, task, reply, bound, late>>, link' = link \/ link' = "failed"
  PROVE  /\ stream' \in Streams \cup {None} /\ woken' \in BOOLEAN /\ missed' \in BOOLEAN
         /\ Queue' /\ Fed' /\ Minded'
<1> USE DEF Types, ThreadTypes, NewsTypes, Kill, Emit, Event, ShouldStop, Deaf, Queue, Awaits, Fed, Minded,
            Listening, Runs, Streams
<1>1. CASE UNCHANGED <<stream, news>>
  BY <1>1 DEF news
<1>2. CASE /\ stream # None /\ stream.alive /\ stream.device \in devices
           /\ stream' = [stream EXCEPT !.alive = FALSE]
           /\ Emit(Event("streamFailed", stream.device))
  <2>1. stream' \in Streams /\ ~stream'.alive /\ stream'.device = stream.device
    BY <1>2
  <2>2. woken' = (woken \/ (task = "capturing" /\ stream.device = bound))
        /\ missed' = (missed \/ (Deaf /\ stream.device = bound))
    BY <1>2
  <2>3. stream' # None  BY <2>1
  <2>4. stream \in Streams  BY <1>2
  <2>5. Fed'
    <3> SUFFICES ASSUME Listening'
                 PROVE  reply' = "ok" /\ (missed' \/ (task' = "capturing" /\ woken'))
      BY <2>1
    <3>1. Listening /\ reply = "ok" /\ stream.device = bound  BY <1>2
    <3> QED  BY <2>2, <3>1
  <2>6. Queue'  OBVIOUS
  <2>7. Minded'  BY <1>2
  <2> QED  BY <1>2, <2>1, <2>2, <2>5, <2>6, <2>7
<1> QED  BY <1>1, <1>2

(* What the server and the user do keeps the invariant. *)
LEMMA WorldStep ==
  ASSUME IInv, ChangeDevices \/ ServerDown \/ ServerUp \/ Configure \/ Stop
  PROVE  IInv'
<1> USE DEF thread, waits, news
<1>0. /\ Types /\ Queue /\ Fed /\ Minded
      /\ WorldTypes /\ ThreadTypes /\ ChannelTypes /\ TaskTypes /\ NewsTypes
  BY DEF IInv, Types
<1>1. ChangeDevices \/ ServerDown \/ Configure => spent' \in [Kinds -> Nat]
  BY <1>0, SpendType DEF ChangeDevices, ServerDown, Configure, Kinds
<1>2. WorldTypes'
  BY <1>0, <1>1 DEF WorldTypes, ChangeDevices, ServerDown, ServerUp, Configure, Stop
<1>3. /\ UNCHANGED <<commands, sender, task, reply, bound, followed, failed, last, late>>
      /\ link' = link \/ link' = "failed"
      /\ refresh' \in BOOLEAN
  BY <1>0 DEF ThreadTypes, ChangeDevices, ServerDown, ServerUp, Configure, Stop
<1>4. \/ \E devices \in SUBSET Devices : Kill(devices)
      \/ UNCHANGED <<stream, news>>
  BY DEF ChangeDevices, ServerDown, ServerUp, Configure, Stop
<1>5. /\ stream' \in Streams \cup {None} /\ woken' \in BOOLEAN /\ missed' \in BOOLEAN
      /\ Queue' /\ Fed' /\ Minded'
  <2>1. CASE \E devices \in SUBSET Devices : Kill(devices)
    BY <1>0, <1>3, <2>1, Killed
  <2>2. CASE UNCHANGED <<stream, news>>
    BY <1>0, <1>3, <2>2
       DEF ThreadTypes, NewsTypes, Queue, Awaits, Fed, Minded, Listening, Runs
  <2> QED  BY <1>4, <2>1, <2>2
<1>6. ThreadTypes' /\ ChannelTypes' /\ TaskTypes' /\ NewsTypes'
  BY <1>0, <1>3, <1>5 DEF ThreadTypes, ChannelTypes, TaskTypes, NewsTypes
<1> QED  BY <1>2, <1>5, <1>6 DEF IInv, Types

(* What a broadcast leaves of the facts about the stream. *)
LEMMA Emitted ==
  ASSUME Types, Fed, NEW event, Emit(event), UNCHANGED <<task, reply, bound, stream>>
  PROVE  NewsTypes' /\ Fed'
<1>1. (woken => woken') /\ (missed => missed')  BY DEF Emit
<1>2. NewsTypes'  BY DEF Emit, Types, NewsTypes
<1> QED  BY <1>1, <1>2 DEF Fed, Listening, Runs

(* The thread's answers keep the invariant: a stream is started for the    *)
(* task that waits for it, or for none after a late answer.                *)
LEMMA AnswerStep ==
  ASSUME IInv, Resolve \/ StartStream \/ StartFails \/ StopStream \/ Refuse
  PROVE  IInv'
<1> USE DEF thread, waits, news, world
<1>0. /\ Types /\ Queue /\ Fed /\ Minded
      /\ WorldTypes /\ ThreadTypes /\ ChannelTypes /\ TaskTypes /\ NewsTypes
  BY DEF IInv, Types
<1>1. /\ UNCHANGED <<source, present, default, server, configured, stop, link, last, refresh,
                     task, bound, followed, failed, woken, missed, late>>
      /\ spent' = spent \/ Spend("fault")
  BY DEF Resolve, StartStream, StartFails, StopStream, Refuse
<1>2. WorldTypes' /\ TaskTypes' /\ NewsTypes'
  BY <1>0, <1>1, SpendType DEF WorldTypes, TaskTypes, NewsTypes, Kinds
<1>3. /\ commands # <<>>
      /\ \E r \in Replies \ {"none"} : Answer(r)
      /\ Resolve => \E r \in {"error"} \cup Devices : Answer(r)
      /\ StartStream => Answer("ok")
      /\ StartFails => Answer("error")
      /\ StopStream => Answer("ok")
      /\ Refuse => Answer(IF Handles("stop") THEN "ok" ELSE "error")
  BY <1>0 DEF Resolve, StartStream, StartFails, StopStream, Refuse, Handles, Replies,
             WorldTypes, DropStream
<1>4. ChannelTypes' /\ Queue'
  BY <1>0, <1>1, <1>3, Answered, AnsweredQueue DEF ChannelTypes
<1>5. /\ stream' \in Streams \cup {None} /\ sender' \in Holders
      /\ StartStream => stream' \in Streams /\ Runs' /\ stream'.device = Command.device
  <2>1. CASE StartStream
    <3>1. stream' = [device |-> Command.device, alive |-> TRUE] /\ Command.device \in Devices
          /\ sender' = "stream"
      BY <1>0, <2>1 DEF StartStream, WorldTypes
    <3>2. stream' \in Streams /\ stream'.alive /\ stream'.device = Command.device
      BY <3>1 DEF Streams
    <3> QED  BY <3>1, <3>2 DEF Runs, Holders
  <2>2. CASE ~StartStream
    <3>1. /\ stream' = stream \/ stream' = None
          /\ sender' = sender \/ sender' \in {"none", "leaked"}
      BY <2>2 DEF DropStream, Resolve, StartFails, StopStream, Refuse
    <3> QED  BY <1>0, <2>2, <3>1 DEF ThreadTypes, Holders
  <2> QED  BY <2>1, <2>2
<1>6. ThreadTypes'  BY <1>0, <1>1, <1>5 DEF ThreadTypes
<1>7. ~Listening
  BY <1>0, <1>3 DEF Queue, Fed, Listening
<1>8. CASE Command.live
  <2>1. /\ reply = "none" /\ Awaits(Command.op)
        /\ Command.op = "start" => Command.device = bound
        /\ \A r \in Replies \ {"none"} : Answer(r) => reply' = r
    BY <1>0, <1>3, <1>8, Answered
  <2>2. CASE Resolve
    <3>1. task = "resolving" /\ reply' \in {"error"} \cup Devices /\ stream' = stream
      BY <1>3, <2>1, <2>2 DEF Resolve, Handles, Awaits, Replies
    <3>2. Fed' /\ Minded'
      BY <1>0, <1>1, <1>7, <2>1, <3>1 DEF Fed, Minded, Listening
    <3> QED  BY <1>2, <1>4, <1>6, <3>2 DEF IInv, Types
  <2>3. CASE StartStream
    <3>1. Command.op = "start" /\ link = "up" /\ reply' = "ok"
      BY <1>3, <2>1, <2>3 DEF StartStream, Handles, Replies
    <3>2. task = "starting" /\ Runs' /\ stream'.device = bound
      BY <1>5, <2>1, <2>3, <3>1 DEF Awaits
    <3>3. Fed' /\ Minded'
      BY <1>1, <3>1, <3>2 DEF Fed, Minded, Listening
    <3> QED  BY <1>2, <1>4, <1>6, <3>3 DEF IInv, Types
  <2>4. CASE StartFails
    <3>1. task = "starting" /\ reply' = "error" /\ stream' = None
      BY <1>3, <2>1, <2>4 DEF StartFails, Handles, Awaits, Replies
    <3>2. Fed' /\ Minded'
      BY <1>1, <3>1 DEF Fed, Minded, Listening
    <3> QED  BY <1>2, <1>4, <1>6, <3>2 DEF IInv, Types
  <2>5. CASE StopStream
    <3>1. task = "stopping" /\ stream' = None
      BY <1>3, <2>1, <2>5 DEF StopStream, Handles, Awaits, DropStream
    <3>2. Fed' /\ Minded'
      BY <1>1, <3>1 DEF Fed, Minded, Listening
    <3> QED  BY <1>2, <1>4, <1>6, <3>2 DEF IInv, Types
  <2>6. CASE Refuse
    <3>1. stream = None /\ stream' = None  BY <1>0, <2>6 DEF Refuse, Minded
    <3>2. task = "starting" => reply' = "error"
      BY <1>3, <2>1, <2>6 DEF Handles, Awaits, Replies
    <3>3. Fed' /\ Minded'
      BY <1>1, <1>7, <3>1, <3>2 DEF Fed, Minded, Listening
    <3> QED  BY <1>2, <1>4, <1>6, <3>3 DEF IInv, Types
  <2> QED  BY <2>2, <2>3, <2>4, <2>5, <2>6
<1>9. CASE ~Command.live
  <2>1. late /\ reply' = reply
    BY <1>0, <1>3, <1>9, Answered
  <2>2. link = "waiting" => stream' = None
    BY <1>0 DEF Minded, Resolve, StartStream, StartFails, StopStream, Refuse
  <2>3. Fed' /\ Minded'
    BY <1>1, <1>7, <2>1, <2>2 DEF Fed, Minded, Listening
  <2> QED  BY <1>2, <1>4, <1>6, <2>3 DEF IInv, Types
<1> QED  BY <1>8, <1>9

(* The end of the connection takes the stream with it and is reported.     *)
LEMMA TeardownStep == IInv /\ Teardown => IInv'
<1> SUFFICES ASSUME IInv, Teardown PROVE IInv'
  OBVIOUS
<1> USE DEF waits, world
<1>0. /\ Types /\ Queue /\ Fed /\ Minded
      /\ WorldTypes /\ ThreadTypes /\ ChannelTypes /\ TaskTypes /\ NewsTypes
  BY DEF IInv, Types
<1>1. /\ UNCHANGED <<source, present, default, server, configured, stop, last, refresh,
                     task, bound, followed, failed, late, spent>>
      /\ link' = "waiting" /\ stream' = None
      /\ sender' = "none" \/ sender' = sender
      /\ UNCHANGED <<commands, reply>> \/ (commands # <<>> /\ Answer("error"))
      /\ Emit(Event("serverUnavailable", None))
  BY DEF Teardown
<1>2. WorldTypes' /\ TaskTypes' /\ ThreadTypes'
  BY <1>0, <1>1 DEF WorldTypes, TaskTypes, ThreadTypes, Holders
<1>3. ChannelTypes' /\ Queue' /\ (reply' = reply \/ reply' = "error")
  <2>1. CASE UNCHANGED <<commands, reply>>
    BY <1>0, <1>1, <2>1 DEF ChannelTypes, Queue, Awaits
  <2>2. CASE commands # <<>> /\ Answer("error")
    <3>1. "error" \in Replies \ {"none"}  BY DEF Replies
    <3> QED  BY <1>0, <1>1, <2>2, <3>1, Answered, AnsweredQueue DEF ChannelTypes
  <2> QED  BY <1>1, <2>1, <2>2
<1>4. /\ woken' = (woken \/ task = "capturing")
      /\ missed' = (missed \/ Deaf)
  BY <1>1 DEF Emit, Event, ShouldStop
<1>5. NewsTypes'  BY <1>0, <1>4 DEF NewsTypes, Deaf
<1>6. Listening' => Listening  BY <1>0, <1>1, <1>3 DEF Listening
<1>7. Listening => commands = <<>>  BY <1>0 DEF Listening, Queue, Fed
<1>8. Listening' => reply' = "ok"
  BY <1>0, <1>1, <1>6, <1>7 DEF Fed
<1>9. Fed' /\ Minded'
  BY <1>0, <1>1, <1>3, <1>4, <1>6, <1>8 DEF Fed, Minded, Listening, Runs, Deaf
<1> QED  BY <1>2, <1>3, <1>5, <1>9 DEF IInv, Types

(* A new connection has no stream yet, and a look at the devices changes   *)
(* nothing but what the task is told.                                      *)
LEMMA LookStep == IInv /\ (Reconnect \/ Refresh) => IInv'
<1> SUFFICES ASSUME IInv, Reconnect \/ Refresh PROVE IInv'
  OBVIOUS
<1> USE DEF waits, world
<1>0. /\ Types /\ Queue /\ Fed /\ Minded
      /\ WorldTypes /\ ThreadTypes /\ ChannelTypes /\ TaskTypes /\ NewsTypes
  BY DEF IInv, Types
<1>1. /\ UNCHANGED <<source, present, default, server, configured, stop, stream, sender,
                     commands, reply, task, bound, followed, failed, late, spent>>
      /\ link' = link \/ link' = "up"
      /\ last' = last \/ last' = default
      /\ refresh' = refresh \/ refresh' = FALSE
  BY DEF Reconnect, Refresh
<1>2. WorldTypes' /\ TaskTypes' /\ ThreadTypes' /\ ChannelTypes'
  <2>1. WorldTypes' /\ ThreadTypes'  BY <1>0, <1>1 DEF WorldTypes, ThreadTypes
  <2>2. TaskTypes' /\ ChannelTypes'  BY <1>0, <1>1 DEF TaskTypes, ChannelTypes
  <2> QED  BY <2>1, <2>2
<1>3. Queue'  BY <1>0, <1>1 DEF Queue, Awaits
<1>4. UNCHANGED news \/ \E event : Emit(event)
  BY DEF Reconnect, Refresh
<1>5. NewsTypes' /\ Fed'
  <2>1. CASE UNCHANGED news
    BY <1>0, <1>1, <2>1 DEF news, NewsTypes, Fed, Listening, Runs
  <2>2. CASE \E event : Emit(event)
    BY <1>0, <1>1, <2>2, Emitted
  <2> QED  BY <1>4, <2>1, <2>2
<1>6. Minded'  BY <1>0, <1>1 DEF Minded, Listening
<1> QED  BY <1>2, <1>3, <1>5, <1>6 DEF IInv, Types

(* The steps in which the task sends a command keep the invariant: none    *)
(* that is alive is in the channel, and it has no stream, or asks for the  *)
(* end of the one it has.                                                  *)
LEMMA SendStep ==
  ASSUME IInv, Decide \/ Start \/ EndCapture
  PROVE  IInv'
<1> USE DEF thread, news, world
<1>0. /\ Types /\ Queue /\ Fed /\ Minded
      /\ WorldTypes /\ ThreadTypes /\ ChannelTypes /\ TaskTypes /\ NewsTypes
  BY DEF IInv, Types
<1>1. /\ UNCHANGED <<source, present, default, server, configured, stop, spent,
                     link, last, refresh, stream, late, woken>>
      /\ missed' = missed \/ missed' = FALSE
  BY DEF Decide, Start, EndCapture
<1>2. WorldTypes' /\ NewsTypes'
  BY <1>0, <1>1 DEF WorldTypes, NewsTypes
<1>3. CASE Decide
  <2>1. CASE stop
    <3>1. /\ task' = "done" /\ task = "deciding"
          /\ UNCHANGED <<commands, reply, followed, bound, failed, sender>>
      BY <1>3, <2>1 DEF Decide
    <3>2. ThreadTypes' /\ ChannelTypes' /\ TaskTypes'
      BY <1>0, <1>1, <3>1 DEF ThreadTypes, ChannelTypes, TaskTypes, Steps
    <3>3. Queue' /\ Fed' /\ Minded'
      BY <1>0, <1>1, <3>1 DEF Queue, Awaits, Fed, Minded, Listening
    <3> QED  BY <1>2, <3>2, <3>3 DEF IInv, Types
  <2>2. CASE ~stop
    <3>1. /\ task = "deciding" /\ task' = "resolving" /\ followed' = configured
          /\ UNCHANGED <<bound, failed, sender>>
          /\ Send("resolve", configured)
      BY <1>3, <2>2 DEF Decide
    <3>2. commands' \in Seq(Commands) /\ reply' = "none" /\ Queue'
      BY <1>0, <1>1, <3>1, Sent DEF WorldTypes, Awaits
    <3>3. ThreadTypes' /\ ChannelTypes' /\ TaskTypes'
      BY <1>0, <1>1, <3>1, <3>2
         DEF ThreadTypes, ChannelTypes, TaskTypes, WorldTypes, Steps, Replies
    <3>4. Fed' /\ Minded'
      BY <1>0, <1>1, <3>1 DEF Fed, Minded, Listening
    <3> QED  BY <1>2, <3>2, <3>3, <3>4 DEF IInv, Types
  <2> QED  BY <2>1, <2>2
<1>4. CASE Start
  <2>1. /\ task = "resolving" /\ task' = "starting" /\ reply \in Devices
        /\ bound' = reply /\ UNCHANGED <<followed, failed>> /\ sender' = "command"
        /\ Send("start", reply)
    BY <1>4 DEF Start
  <2>2. commands' \in Seq(Commands) /\ reply' = "none" /\ Queue'
    BY <1>0, <1>1, <2>1, Sent DEF Awaits
  <2>3. ThreadTypes' /\ ChannelTypes' /\ TaskTypes'
    BY <1>0, <1>1, <2>1, <2>2
       DEF ThreadTypes, ChannelTypes, TaskTypes, Steps, Replies, Holders
  <2>4. Fed' /\ Minded'
    BY <1>0, <1>1, <2>1, <2>2 DEF Fed, Minded, Listening
  <2> QED  BY <1>2, <2>2, <2>3, <2>4 DEF IInv, Types
<1>5. CASE EndCapture
  <2>1. /\ task = "capturing" /\ task' = "stopping"
        /\ UNCHANGED <<bound, followed, failed, sender>>
        /\ Send("stop", bound)
    BY <1>5 DEF EndCapture, waits
  <2>2. bound \in Devices \cup {Default}
    BY <1>0, <2>1 DEF TaskTypes
  <2>3. commands' \in Seq(Commands) /\ reply' = "none" /\ Queue'
    BY <1>0, <1>1, <2>1, <2>2, Sent DEF Awaits
  <2>4. ThreadTypes' /\ ChannelTypes' /\ TaskTypes'
    BY <1>0, <1>1, <2>1, <2>3 DEF ThreadTypes, ChannelTypes, TaskTypes, Steps, Replies
  <2>5. Fed' /\ Minded'
    BY <1>0, <1>1, <2>1, <2>3 DEF Fed, Minded, Listening
  <2> QED  BY <1>2, <2>3, <2>4, <2>5 DEF IInv, Types
<1> QED  BY <1>3, <1>4, <1>5

(* The other steps of the task keep it: an answer is only taken note of.   *)
LEMMA TaskMoves ==
  ASSUME IInv, Unresolved \/ Subscribe \/ NotStarted \/ Stopped \/ Join \/ Retry
  PROVE  IInv'
<1> USE DEF thread, news, world, waits
<1>0. /\ Types /\ Queue /\ Fed /\ Minded
      /\ WorldTypes /\ ThreadTypes /\ ChannelTypes /\ TaskTypes /\ NewsTypes
  BY DEF IInv, Types
<1>1. UNCHANGED <<source, present, default, server, configured, stop, spent, link, last,
                  refresh, stream, sender, commands, reply, bound, followed, missed, late>>
  BY DEF Unresolved, Subscribe, NotStarted, Stopped, Join, Retry
<1>2. /\ task' \in Steps /\ failed' \in BOOLEAN /\ woken' \in BOOLEAN
      /\ task' \in {"starting", "capturing"} => task = "starting"
  BY <1>0 DEF TaskTypes, NewsTypes, Steps, Unresolved, Subscribe, NotStarted, Stopped,
             Join, Retry
<1>3. WorldTypes' /\ ThreadTypes' /\ ChannelTypes' /\ TaskTypes' /\ NewsTypes'
  <2>1. WorldTypes' /\ ThreadTypes'  BY <1>0, <1>1 DEF WorldTypes, ThreadTypes
  <2>2. ChannelTypes' /\ TaskTypes' /\ NewsTypes'
    BY <1>0, <1>1, <1>2 DEF ChannelTypes, TaskTypes, NewsTypes
  <2> QED  BY <2>1, <2>2
<1>4. reply # "none" \/ task \in {"joining", "waiting"}
  BY DEF Unresolved, Subscribe, NotStarted, Stopped, Join, Retry
<1>5. \A i \in DOMAIN commands : ~commands[i].live
  BY <1>0, <1>4 DEF Queue, Awaits
<1>6. Queue'  BY <1>0, <1>1, <1>5 DEF Queue
<1>7. CASE Subscribe
  <2>1. task = "starting" /\ task' = "capturing" /\ reply = "ok"
    BY <1>7 DEF Subscribe
  <2>2. Fed' /\ Minded'
    BY <1>0, <1>1, <2>1 DEF Fed, Minded, Listening, Runs
  <2> QED  BY <1>3, <1>6, <2>2 DEF IInv, Types
<1>8. CASE ~Subscribe
  <2>1. ~Listening /\ ~Listening' /\ ~(task = "stopping" /\ reply = "none")
    BY <1>0, <1>1, <1>8 DEF Listening, Unresolved, NotStarted, Stopped, Join, Retry
  <2>2. Fed' /\ Minded'
    BY <1>0, <1>1, <2>1 DEF Fed, Minded
  <2> QED  BY <1>3, <1>6, <2>2 DEF IInv, Types
<1> QED  BY <1>7, <1>8

(* After a timeout the command stays in the channel with nobody behind it. *)
LEMMA TimeOutStep == IInv /\ TimeOut => IInv'
<1> SUFFICES ASSUME IInv, TimeOut PROVE IInv'
  OBVIOUS
<1> USE DEF thread, news, world, waits
<1>0. /\ Types /\ Queue /\ Fed /\ Minded
      /\ WorldTypes /\ ThreadTypes /\ ChannelTypes /\ TaskTypes /\ NewsTypes
  BY DEF IInv, Types
<1>1. /\ UNCHANGED <<source, present, default, server, configured, stop, link, last,
                      refresh, stream, sender, task, bound, followed, failed, woken, missed>>
      /\ late' = TRUE /\ reply' = "error" /\ reply = "none"
      /\ commands' = [i \in DOMAIN commands |-> [commands[i] EXCEPT !.live = FALSE]]
      /\ spent' \in [Kinds -> Nat]
  BY <1>0, SpendType DEF TimeOut, Kinds
<1>2. /\ commands' \in Seq(Commands) /\ DOMAIN commands' = DOMAIN commands
      /\ \A i \in DOMAIN commands' : ~commands'[i].live
  <2>1. /\ Len(commands) \in Nat /\ DOMAIN commands = 1 .. Len(commands)
        /\ \A i \in DOMAIN commands : commands[i] \in Commands
    BY <1>0, LenProperties DEF ChannelTypes
  <2>2. \A i \in DOMAIN commands :
          /\ [commands[i] EXCEPT !.live = FALSE] \in Commands
          /\ [commands[i] EXCEPT !.live = FALSE].live = FALSE
    BY <2>1 DEF Commands
  <2>3. commands' \in [1 .. Len(commands) -> Commands]
    BY <1>1, <2>1, <2>2
  <2>4. commands' \in Seq(Commands)
    <3>1. Seq(Commands) = UNION {[1 .. n -> Commands] : n \in Nat}  BY SeqDef
    <3> QED  BY <2>1, <2>3, <3>1
  <2>5. DOMAIN commands' = DOMAIN commands  BY <1>1
  <2>6. \A i \in DOMAIN commands' : ~commands'[i].live
    BY <1>1, <2>2, <2>5
  <2> QED  BY <2>4, <2>5, <2>6
<1>3. WorldTypes' /\ ThreadTypes' /\ ChannelTypes' /\ TaskTypes' /\ NewsTypes'
  <2>1. WorldTypes' /\ ThreadTypes'  BY <1>0, <1>1 DEF WorldTypes, ThreadTypes
  <2>2. ChannelTypes' /\ TaskTypes' /\ NewsTypes'
    BY <1>0, <1>1, <1>2 DEF ChannelTypes, TaskTypes, NewsTypes, Replies
  <2> QED  BY <2>1, <2>2
<1>4. Queue'  BY <1>1, <1>2 DEF Queue
<1>5. Fed' /\ Minded'
  BY <1>0, <1>1 DEF Fed, Minded, Listening, Runs
<1> QED  BY <1>3, <1>4, <1>5 DEF IInv, Types

(* The initial states, and every step. *)
LEMMA Inductive == Spec => []IInv
<1>1. Init => IInv
  <2> SUFFICES ASSUME Init PROVE IInv
    OBVIOUS
  <2> USE DEF Init
  <2>1. WorldTypes  BY DEF WorldTypes, Kinds
  <2>2. ThreadTypes /\ TaskTypes /\ NewsTypes
    BY DEF ThreadTypes, TaskTypes, NewsTypes, Holders, Steps
  <2>3. ChannelTypes  BY EmptySeq DEF ChannelTypes, Replies
  <2>4. Queue /\ Fed /\ Minded  BY DEF Queue, Fed, Minded, Listening
  <2> QED  BY <2>1, <2>2, <2>3, <2>4 DEF IInv, Types
<1>2. IInv /\ UNCHANGED vars => IInv'
  <2> SUFFICES ASSUME IInv, UNCHANGED vars PROVE IInv'
    OBVIOUS
  <2> USE DEF vars, world, thread, waits, news
  <2>1. WorldTypes' /\ ThreadTypes' /\ ChannelTypes' /\ TaskTypes' /\ NewsTypes'
    BY DEF IInv, Types, WorldTypes, ThreadTypes, ChannelTypes, TaskTypes, NewsTypes
  <2>2. Queue' /\ Fed' /\ Minded'
    BY DEF IInv, Queue, Awaits, Fed, Minded, Listening, Runs
  <2> QED  BY <2>1, <2>2 DEF IInv, Types
<1>3. IInv /\ [Next]_vars => IInv'
  BY <1>2, WorldStep, AnswerStep, TeardownStep, LookStep, SendStep, TaskMoves,
     TimeOutStep DEF Next, ThreadStep, TaskStep
<1> QED  BY <1>1, <1>3, PTL DEF Spec

-----------------------------------------------------------------------------
(* Every variable keeps its type: in particular no stream is asked for     *)
(* without a device.                                                       *)
THEOREM TypeCorrect == Spec => []TypeOK
<1>1. IInv => TypeOK
  BY DEF IInv, Types, WorldTypes, ThreadTypes, ChannelTypes, TaskTypes, NewsTypes,
         Replies, TypeOK
<1> QED  BY <1>1, Inductive, PTL

(* A task that captures from a dead stream has been told, unless it was    *)
(* told before it listened; and unless an answer came too late, a stream   *)
(* runs only for a task that will stop it.                                 *)
THEOREM EveryStreamMinded == Spec => []StreamsAccounted
<1>1. IInv => DeadStreamNoticed
  BY DEF IInv, Fed, Listening, DeadStreamNoticed
<1>2. IInv => NoStrayStream
  BY DEF IInv, Minded, Listening, NoStrayStream
<1> QED  BY <1>1, <1>2, Inductive, TypeCorrect, PTL DEF StreamsAccounted
=============================================================================
