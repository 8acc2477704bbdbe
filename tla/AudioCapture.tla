---------------------------- MODULE AudioCapture ----------------------------
(***************************************************************************)
(* How a source keeps capturing while devices come and go: the source task *)
(* resolves its device, starts a stream, waits for a reason to end it and  *)
(* begins again; it sends commands to the PulseAudio thread, which owns    *)
(* the connection and the streams and broadcasts events.                   *)
(*                                                                         *)
(* The sender of a task's frame channel passes from the command to the     *)
(* stream's read callback; the spool, for which the task waits before it   *)
(* begins again, ends when the sender is dropped.                          *)
(***************************************************************************)
EXTENDS Integers, Sequences

CONSTANTS
  Devices,  \* microphones, or sinks with their monitors
  Default,  \* the configuration that follows the server's default
  None,
  Budget    \* bound: how often each event of Kinds may happen

Kinds == {"world", "configure", "fault"}

Streams  == [device : Devices, alive : BOOLEAN]
Commands == [op : {"resolve", "start", "stop"}, device : Devices \cup {Default},
             live : BOOLEAN]

ASSUME NamesAssumption  == /\ Default \notin Devices /\ None \notin Devices
                           /\ {"none", "ok", "error"} \cap Devices = {}
                           /\ None \notin Streams
ASSUME BudgetAssumption == Budget \in [Kinds -> Nat]

VARIABLES
  source,      \* "mic" or "system"
  present,     \* the devices of the audio server
  default,     \* its default device
  server,      \* it runs
  link,        \* the thread's connection: "up", "failed" or "waiting"
  last,        \* last_mic or last_sink: the default the thread knows
  refresh,     \* refresh_needed
  commands,    \* the command channel
  stream,      \* the source's stream
  sender,      \* who holds the sender of the task's channel
  task,        \* where the source task is
  reply,       \* what it received for its command
  bound,       \* the device it captures from
  followed,    \* the configuration it began with
  configured,  \* the configuration now
  failed,      \* capture_from returned an error
  woken,       \* an event that ends the stream waits for it
  missed,      \* history: such an event came before it subscribed
  late,        \* history: an answer came after its sender had given up
  stop,        \* capture_stop
  spent        \* how often each event of Kinds has happened

world  == <<source, present, default, server, configured, stop>>
thread == <<link, last, refresh, stream>>
waits  == <<bound, followed, failed>>
news   == <<woken, missed>>
vars   == <<world, thread, commands, sender, task, reply, waits, news, late, spent>>

-----------------------------------------------------------------------------
Sources == {"mic", "system"}
Steps   == {"deciding", "resolving", "starting", "capturing", "stopping", "joining",
            "waiting", "done"}
Holders == {"none", "command", "stream", "leaked"}

Spend(kind) == /\ spent[kind] < Budget[kind]
               /\ spent' = [spent EXCEPT ![kind] = @ + 1]

Target(configuration) == IF configuration = Default THEN default ELSE configuration

(* Mutant: who follows the default is told by its change alone. *)
ShouldStopLess(event) ==
  CASE event.type = "serverUnavailable" -> TRUE
    [] event.type = "changed"           -> followed = Default
    [] event.type = "defaultGone"       -> source = "mic" /\ event.device = bound
    [] event.type = "streamFailed"      -> event.device = bound /\ followed # Default
    [] OTHER                            -> FALSE

(* capture_should_stop.  The thread reports a vanished default by its own  *)
(* name, which is the bound device of a microphone but never of system     *)
(* audio: that is bound to the monitor of the sink.                        *)
ShouldStop(event) ==
  CASE event.type = "serverUnavailable" -> TRUE
    [] event.type = "changed"           -> followed = Default
    [] event.type = "defaultGone"       -> source = "mic" /\ event.device = bound
    [] event.type = "streamFailed"      -> event.device = bound
    [] OTHER                            -> FALSE

Event(type, device) == [type |-> type, device |-> device]
NoEvent == Event("none", None)

(* The task has resolved a device and does not listen yet. *)
Deaf == task = "starting" \/ (task = "resolving" /\ reply # "none")

(* A broadcast reaches whoever has subscribed. *)
Emit(event) ==
  /\ woken'  = (woken  \/ (task = "capturing" /\ ShouldStop(event)))
  /\ missed' = (missed \/ (Deaf /\ ShouldStop(event)))

Init ==
  /\ source \in Sources
  /\ present = Devices /\ default \in Devices /\ server = TRUE
  /\ link = "up" /\ last = default /\ refresh = FALSE
  /\ commands = <<>> /\ stream = None /\ sender = "none"
  /\ task = "deciding" /\ reply = "none"
  /\ bound = None /\ followed = Default /\ failed = FALSE
  /\ configured = Default
  /\ woken = FALSE /\ missed = FALSE /\ late = FALSE /\ stop = FALSE
  /\ spent = [k \in Kinds |-> 0]

-----------------------------------------------------------------------------
(* The audio server and the user.                                          *)

Kill(devices) ==
  IF stream # None /\ stream.alive /\ stream.device \in devices
  THEN /\ stream' = [stream EXCEPT !.alive = FALSE]
       /\ Emit(Event("streamFailed", stream.device))
  ELSE UNCHANGED <<stream, news>>

(* Devices come, go, or another becomes the default; the thread is told to *)
(* look, the stream of a device that is gone fails.                        *)
ChangeDevices ==
  /\ server /\ Spend("world")
  /\ \E P \in SUBSET Devices, d \in Devices \cup {None} :
       /\ IF P = {} THEN d = None ELSE d \in P
       /\ <<P, d>> # <<present, default>>
       /\ present' = P /\ default' = d
       /\ Kill(Devices \ P)
  /\ refresh' = (refresh \/ link = "up")
  /\ UNCHANGED <<source, server, configured, stop, link, last, commands, sender, task,
                 reply, waits, late>>

ServerDown ==
  /\ server /\ Spend("world")
  /\ server' = FALSE
  /\ link' = IF link = "up" THEN "failed" ELSE link
  /\ Kill(Devices)
  /\ UNCHANGED <<source, present, default, configured, stop, last, refresh, commands,
                 sender, task, reply, waits, late>>

ServerUp ==
  /\ ~server
  /\ server' = TRUE
  /\ UNCHANGED <<source, present, default, configured, stop, thread, commands, sender,
                 task, reply, waits, news, late, spent>>

Configure ==
  /\ Spend("configure")
  /\ configured' \in (Devices \cup {Default}) \ {configured}
  /\ UNCHANGED <<source, present, default, server, stop, thread, commands, sender, task,
                 reply, waits, news, late>>

Stop ==
  /\ ~stop
  /\ stop' = TRUE
  /\ UNCHANGED <<source, present, default, server, configured, thread, commands, sender,
                 task, reply, waits, news, late, spent>>

-----------------------------------------------------------------------------
(* The PulseAudio thread.                                                  *)

Command == Head(commands)

(* The answer to a command, unless its sender has given up waiting. *)
Answer(r) ==
  /\ commands' = Tail(commands)
  /\ reply' = IF Command.live THEN r ELSE reply

Handles(op) == commands # <<>> /\ Command.op = op

Resolve ==
  /\ link = "up" /\ Handles("resolve")
  /\ Answer(IF Target(Command.device) \in present THEN Target(Command.device) ELSE "error")
  /\ UNCHANGED <<world, thread, sender, task, waits, news, late, spent>>

(* start_capture replaces a stream of the source. *)
StartStream ==
  /\ link = "up" /\ Handles("start") /\ Command.device \in present
  /\ stream' = [device |-> Command.device, alive |-> TRUE]
  /\ sender' = "stream"
  /\ Answer("ok")
  /\ UNCHANGED <<world, link, last, refresh, task, waits, news, late, spent>>

(* It fails after the callbacks are set: they hold the stream that holds   *)
(* them, and the sender with them.                                         *)
StartFails ==
  /\ link \in {"up", "failed"} /\ Handles("start")
  /\ IF Command.device \in present /\ link = "up" THEN Spend("fault") ELSE UNCHANGED spent
  /\ stream' = None
  /\ sender' = "leaked"
  /\ Answer("error")
  /\ UNCHANGED <<world, link, last, refresh, task, waits, news, late>>

DropStream ==
  /\ stream' = None
  /\ sender' = IF sender = "stream" THEN "none" ELSE sender

(* Mutant: the stream is forgotten but not disconnected. *)
StopStreamKept ==
  /\ link = "up" /\ Handles("stop")
  /\ sender' = IF sender = "stream" THEN "none" ELSE sender
  /\ Answer("ok")
  /\ UNCHANGED <<world, thread, task, waits, news, late, spent>>

StopStream ==
  /\ link = "up" /\ Handles("stop")
  /\ DropStream
  /\ Answer("ok")
  /\ UNCHANGED <<world, link, last, refresh, task, waits, news, late, spent>>

(* teardown_pulse; the command that found the connection failed is dropped *)
(* with all it holds, its sender gets an error.                            *)
Teardown ==
  /\ link = "failed"
  /\ link' = "waiting" /\ stream' = None
  /\ sender' = IF sender = "stream" \/ Handles("start") THEN "none" ELSE sender
  /\ IF commands = <<>> THEN UNCHANGED <<commands, reply>> ELSE Answer("error")
  /\ Emit(Event("serverUnavailable", None))
  /\ UNCHANGED <<world, last, refresh, task, waits, late, spent>>

(* reply_server_down *)
Refuse ==
  /\ link = "waiting" /\ commands # <<>>
  /\ sender' = IF Handles("start") THEN "none" ELSE sender
  /\ Answer(IF Handles("stop") THEN "ok" ELSE "error")
  /\ UNCHANGED <<world, thread, task, waits, news, late, spent>>

(* Every five seconds: connected, or another report of failure. *)
Reconnect ==
  /\ link = "waiting"
  /\ IF server
     THEN /\ link' = "up" /\ last' = default /\ refresh' = FALSE
          /\ UNCHANGED news
     ELSE /\ Emit(Event("serverUnavailable", None))
          /\ UNCHANGED <<link, last, refresh>>
  /\ UNCHANGED <<world, stream, commands, sender, task, reply, waits, late, spent>>

(* refresh_devices, when no command is waiting. *)
Refresh ==
  /\ link = "up" /\ refresh /\ commands = <<>>
  /\ refresh' = FALSE
  /\ last' = default
  /\ Emit(CASE last # None /\ default = None -> Event("defaultGone", last)
            [] last # None /\ default # None /\ last # default -> Event("changed", default)
            [] OTHER -> NoEvent)
  /\ UNCHANGED <<world, link, stream, commands, sender, task, reply, waits, late, spent>>

-----------------------------------------------------------------------------
(* The source task.                                                        *)

Send(op, device) ==
  /\ commands' = Append(commands, [op |-> op, device |-> device, live |-> TRUE])
  /\ reply' = "none"

Decide ==
  /\ task = "deciding"
  /\ IF stop
     THEN task' = "done" /\ UNCHANGED <<commands, reply, followed, missed>>
     ELSE /\ followed' = configured
          /\ Send("resolve", configured)
          /\ task' = "resolving" /\ missed' = FALSE
  /\ UNCHANGED <<world, thread, sender, bound, failed, woken, late, spent>>

(* The device is resolved: a new channel, and the command to fill it. *)
Start ==
  /\ task = "resolving" /\ reply \in Devices
  /\ bound' = reply
  /\ sender' = "command"
  /\ Send("start", reply)
  /\ task' = "starting"
  /\ UNCHANGED <<world, thread, followed, failed, news, late, spent>>

Unresolved ==
  /\ task = "resolving" /\ reply = "error"
  /\ task' = "waiting"
  /\ UNCHANGED <<world, thread, commands, sender, reply, waits, news, late, spent>>

(* capture_from subscribes only now. *)
Subscribe ==
  /\ task = "starting" /\ reply = "ok"
  /\ task' = "capturing" /\ woken' = FALSE
  /\ UNCHANGED <<world, thread, commands, sender, reply, waits, missed, late, spent>>

NotStarted ==
  /\ task = "starting" /\ reply = "error"
  /\ task' = "joining" /\ failed' = TRUE
  /\ UNCHANGED <<world, thread, commands, sender, reply, bound, followed, news, late, spent>>

EndCapture ==
  /\ task = "capturing"
  /\ stop \/ woken \/ configured # followed
  /\ Send("stop", bound)
  /\ task' = "stopping"
  /\ UNCHANGED <<world, thread, sender, waits, news, late, spent>>

Stopped ==
  /\ task = "stopping" /\ reply # "none"
  /\ task' = "joining" /\ failed' = (reply = "error")
  /\ UNCHANGED <<world, thread, commands, sender, reply, bound, followed, news, late, spent>>

(* The answer does not come within ten seconds; the command stays queued. *)
TimeOut ==
  /\ task \in {"resolving", "starting", "stopping"} /\ reply = "none"
  /\ Spend("fault")
  /\ late' = TRUE
  /\ reply' = "error"
  /\ commands' = [i \in DOMAIN commands |-> [commands[i] EXCEPT !.live = FALSE]]
  /\ UNCHANGED <<world, thread, sender, task, waits, news>>

(* Mutant: a stream that was lost is not tried again. *)
JoinForGood ==
  /\ task = "joining"
  /\ stop \/ sender = "none"
  /\ task' = IF stop \/ ~failed THEN "done" ELSE "waiting"
  /\ UNCHANGED <<world, thread, commands, sender, reply, waits, news, late, spent>>

(* Mutant: the spool does not listen to the end of the meeting. *)
JoinSender ==
  /\ task = "joining"
  /\ sender = "none"
  /\ task' = CASE stop -> "done" [] ~stop /\ failed -> "waiting" [] OTHER -> "deciding"
  /\ UNCHANGED <<world, thread, commands, sender, reply, waits, news, late, spent>>

(* The spool has ended. *)
Join ==
  /\ task = "joining"
  /\ stop \/ sender = "none"
  /\ task' = CASE stop -> "done" [] ~stop /\ failed -> "waiting" [] OTHER -> "deciding"
  /\ UNCHANGED <<world, thread, commands, sender, reply, waits, news, late, spent>>

(* wait_before_retry ends with time, with any event and with the stop. *)
Retry ==
  /\ task = "waiting"
  /\ task' = "deciding"
  /\ UNCHANGED <<world, thread, commands, sender, reply, waits, news, late, spent>>

-----------------------------------------------------------------------------
ThreadStep ==
  \/ Resolve \/ StartStream \/ StopStream \/ Teardown \/ Refuse \/ Reconnect \/ Refresh

TaskStep ==
  \/ Decide \/ Start \/ Unresolved \/ Subscribe \/ NotStarted \/ EndCapture \/ Stopped
  \/ Join \/ Retry

Next ==
  \/ ChangeDevices \/ ServerDown \/ ServerUp \/ Configure \/ Stop
  \/ ThreadStep \/ StartFails
  \/ TaskStep \/ TimeOut

Spec == Init /\ [][Next]_vars

(* The thread takes its commands and polls, the runtime runs the task.     *)
Fairness ==
  /\ WF_vars(Resolve \/ StartStream \/ StartFails \/ StopStream \/ Refuse)
  /\ WF_vars(Teardown) /\ WF_vars(Reconnect) /\ WF_vars(Refresh)
  /\ WF_vars(TaskStep)

FairSpec == Spec /\ Fairness

-----------------------------------------------------------------------------
(* Types of the variables. *)
TypeOK ==
  /\ source \in Sources /\ present \subseteq Devices /\ server \in BOOLEAN
  /\ default \in Devices \cup {None} /\ last \in Devices \cup {None}
  /\ link \in {"up", "failed", "waiting"} /\ refresh \in BOOLEAN
  /\ commands \in Seq(Commands)
  /\ stream \in Streams \cup {None} /\ sender \in Holders
  /\ task \in Steps /\ reply \in {"none", "ok", "error"} \cup Devices
  /\ bound \in Devices \cup {None}
  /\ {followed, configured} \subseteq Devices \cup {Default}
  /\ failed \in BOOLEAN /\ woken \in BOOLEAN /\ missed \in BOOLEAN
  /\ late \in BOOLEAN /\ stop \in BOOLEAN
  /\ spent \in [Kinds -> Nat]

-----------------------------------------------------------------------------
Runs == stream # None /\ stream.alive

(* The server could deliver what is configured. *)
Available == server /\ Target(configured) \in present

(* What is configured is captured; the default may have changed since. *)
Good == task = "capturing" /\ Runs /\ configured \in {Default, stream.device}

(* A task that sits on a stream which delivers nothing has been told, or   *)
(* was not listening yet when it was told (see missed).                    *)
DeadStreamNoticed == task = "capturing" /\ ~Runs => woken \/ missed

(* Unless an answer came too late, a stream runs only for a task that will *)
(* stop it: in particular none outlives the meeting.                       *)
NoStrayStream ==
  stream # None /\ ~late => task \in {"starting", "capturing", "stopping"}

(* Task and stream know of each other: no task waits on a dead stream that *)
(* it was told of, and no stream records for nobody.                       *)
StreamsAccounted == TypeOK /\ DeadStreamNoticed /\ NoStrayStream

(* Whatever happens to devices, server and configuration, the task comes   *)
(* back to capturing what is configured as soon as it is there.  Excepted  *)
(* are a missed event, an answer that came late, and a stream that failed  *)
(* to start.                                                               *)
Recovers ==
  []<>(Available => \/ Good \/ stop
                    \/ missed \/ late \/ sender = "leaked")

(* The end of the meeting ends the task, from wherever it is. *)
StopEnds == stop ~> task = "done"

(* "Whether an audio event should stop the current capture stream so the   *)
(* supervisor can reconnect" (audio/mod.rs): a source whose stream ended   *)
(* or failed to start begins again.                                        *)
EndedStreamIsRetried == task = "joining" ~> task # "joining"
=============================================================================
