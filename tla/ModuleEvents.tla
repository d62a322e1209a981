----------------------------- MODULE ModuleEvents -----------------------------
(***************************************************************************)
(* How clients learn which modules a dock has: one FlotillaDock, its       *)
(* event_queue, and the clients of the daemon.  The threads are            *)
(*                                                                         *)
(*   upc    worker_update_clients: process_command turns the dock's lines  *)
(*          into module states and queued events, get_pending_events and   *)
(*          get_pending_commands collect what is to be sent, and           *)
(*          send_to_clients sends it, message by message;                  *)
(*   spc    worker_dock_scan: FlotillaDock::disconnect and set_port;       *)
(*   apc    the asio thread: the websocket handlers and init_client.       *)
(*                                                                         *)
(* A step is one critical section, or one access to what the threads share *)
(* without a lock.  A module's state and its name are not locked: connect  *)
(* writes the name and then the state, and whoever reads the name while it *)
(* is being written reads Torn.  (Reading a std::string that is being      *)
(* assigned may also crash the daemon, and so may copying a client's       *)
(* subscriptions while the asio thread inserts one.  A crash ends the      *)
(* behaviour, and every property below is a safety property.)              *)
(***************************************************************************)
EXTENDS Integers, Sequences

CONSTANTS
  NumChannels,  (* MAX_CHANNELS                                            *)
  Names,        (* names of the modules that may be plugged in             *)
  NoName,       (* the name of a module that never connected               *)
  Torn,         (* what a name reads as while it is being written          *)
  Clients,      (* the connection handles                                  *)
  NoClient,     (* no handle                                               *)
  Unknown,      (* in a client's view: it may have missed an event         *)
  MaxQueue      (* bound: no line is read while so many events are queued  *)

ASSUME ChannelAssumption == NumChannels \in Nat \ {0}

ASSUME NameAssumption == NoName \notin Names /\ Torn \notin Names

ASSUME ClientAssumption == NoClient \notin Clients

ASSUME QueueAssumption == MaxQueue \in Nat

VARIABLES
  dock_state,   (* the DockState, Connecting counting as Disconnected      *)
  state,        (* the ModuleState of each channel                         *)
  name,         (* the name of each channel                                *)
  event_queue,  (* events queued for the clients                           *)
  upc,          (* where worker_update_clients is ...                      *)
  line,         (* ... the line it is processing                           *)
  batch,        (* ... the messages it has collected and not yet sent      *)
  todo,         (* ... the clients the first of them has not gone to yet   *)
  target,       (* ... and the client it is being sent to                  *)
  spc,          (* where worker_dock_scan is ...                           *)
  sch,          (* ... at which channel                                    *)
  smsg,         (* ... and the event it is composing                       *)
  apc,          (* where the asio thread is ...                            *)
  icl,          (* ... the client init_client serves                       *)
  ich,          (* ... the channel it has come to                          *)
  imsg,         (* ... and the event it has composed                       *)
  clients,      (* the keys of the map of clients                          *)
  ready,        (* their `ready'                                           *)
  subscribed,   (* their subscription to this dock                         *)
  announced,    (* history: the last event queued about each channel       *)
  view,         (* history: the last event a client got about a channel,   *)
                (* or Unknown once it has missed one                       *)
  overtaken     (* history: an event for icl passed imsg on the way        *)

dock == <<dock_state, state, name, event_queue>>
worker == <<upc, line, batch, todo, target>>
scan == <<spc, sch, smsg>>
asio == <<apc, icl, ich, imsg>>
registry == <<clients, ready, subscribed>>
history == <<announced, view, overtaken>>
vars == <<dock, worker, scan, asio, registry, history>>

Channels == 1 .. NumChannels

(* FlotillaDock::module_event, and the packet of get_next_command.         *)
module_event(ch) ==
  [kind    |-> IF state[ch] = "ModuleConnected" THEN "c" ELSE "d",
   channel |-> ch,
   name    |-> name[ch]]

Update(ch) == [kind |-> "u", channel |-> ch, name |-> name[ch]]

Message == [kind : {"c", "d", "u"}, channel : Channels,
            name : Names \cup {NoName, Torn}]

ASSUME UnknownAssumption == Unknown \notin Message

NoEvent == [kind |-> "d", channel |-> 1, name |-> NoName]

NoLine == [channel |-> 0, name |-> NoName]

Init ==
  /\ dock_state = "Disconnected"
  /\ state = [ch \in Channels |-> "ModuleDisconnected"]
  /\ name = [ch \in Channels |-> NoName]
  /\ event_queue = <<>>
  /\ upc = "start"
  /\ line = NoLine
  /\ batch = <<>>
  /\ todo = {}
  /\ target = NoClient
  /\ spc = "idle"
  /\ sch = 1
  /\ smsg = NoEvent
  /\ apc = "idle"
  /\ icl = NoClient
  /\ ich = 1
  /\ imsg = NoEvent
  /\ clients = {}
  /\ ready = [c \in Clients |-> FALSE]
  /\ subscribed = [c \in Clients |-> FALSE]
  /\ announced = [ch \in Channels |-> module_event(ch)]
  /\ view = [c \in Clients |-> [ch \in Channels |-> Unknown]]
  /\ overtaken = FALSE
-----------------------------------------------------------------------------
(* FlotillaDock::queue_module_event: composed and queued under the dock's  *)
(* mutex, which worker_dock_scan holds while spc = "name".                 *)
QueueEvent(event) ==
  /\ event_queue' = Append(event_queue, event)
  /\ announced' = [announced EXCEPT ![event.channel] = event]

DockMutexFree == spc # "name"

(* mutex_clients is held by send_to_clients, message by message.           *)
ClientsMutexFree == upc \notin {"clients", "send"}

(* A client is sent an event about a channel, or is passed over: either    *)
(* way what init_client has begun to read for it is no longer news.        *)
Overtakes(c, event) ==
  apc \in {"name", "send"} /\ icl = c /\ ich = event.channel

Sees(c, event, what) ==
  IF event.kind = "u"
  THEN UNCHANGED <<view, overtaken>>
  ELSE /\ view' = [view EXCEPT ![c][event.channel] = what]
       /\ overtaken' = (overtaken \/ Overtakes(c, event))
-----------------------------------------------------------------------------
(* worker_update_clients: update_docks, process_command.                   *)

(* FlotillaDock::tick looks at the state once; the lines that follow are   *)
(* read even if the dock is disconnected meanwhile.                        *)
TickStart ==
  /\ upc = "start"
  /\ upc' = IF dock_state = "Connected" THEN "lines" ELSE "events"
  /\ UNCHANGED <<dock, line, batch, todo, target, scan, asio, registry, history>>

(* Line "c": connect() returns at once for a module that is connected, and *)
(* otherwise begins to write the name.                                     *)
ReadConnect(ch, n) ==
  /\ upc = "lines"
  /\ Len(event_queue) < MaxQueue
  /\ line' = [channel |-> ch, name |-> n]
  /\ IF state[ch] = "ModuleConnected"
     THEN upc' = "queue" /\ UNCHANGED name
     ELSE upc' = "naming" /\ name' = [name EXCEPT ![ch] = Torn]
  /\ UNCHANGED <<dock_state, state, event_queue, batch, todo, target, scan, asio,
                 registry, history>>

WriteName ==
  /\ upc = "naming"
  /\ name' = [name EXCEPT ![line.channel] = line.name]
  /\ upc' = "named"
  /\ UNCHANGED <<dock_state, state, event_queue, line, batch, todo, target, scan,
                 asio, registry, history>>

SetConnected ==
  /\ upc = "named"
  /\ state' = [state EXCEPT ![line.channel] = "ModuleConnected"]
  /\ upc' = "queue"
  /\ UNCHANGED <<dock_state, name, event_queue, line, batch, todo, target, scan,
                 asio, registry, history>>

(* Line "d".                                                               *)
ReadDisconnect(ch) ==
  /\ upc = "lines"
  /\ Len(event_queue) < MaxQueue
  /\ line' = [channel |-> ch, name |-> NoName]
  /\ state' = [state EXCEPT ![ch] = "ModuleDisconnected"]
  /\ upc' = "queue"
  /\ UNCHANGED <<dock_state, name, event_queue, batch, todo, target, scan, asio,
                 registry, history>>

(* Both lines end with queue_module_event.                                 *)
QueueLineEvent ==
  /\ upc = "queue"
  /\ DockMutexFree
  /\ QueueEvent(module_event(line.channel))
  /\ upc' = "lines"
  /\ line' = NoLine
  /\ UNCHANGED <<dock_state, state, name, batch, todo, target, scan, asio,
                 registry, view, overtaken>>

(* sp_input_waiting() is 0.                                                *)
EndLines_SkipEvents ==
  /\ upc = "lines"
  /\ upc' = "commands"
  /\ UNCHANGED <<dock, line, batch, todo, target, scan, asio, registry, history>>

EndLines ==
  /\ upc = "lines"
  /\ upc' = "events"
  /\ UNCHANGED <<dock, line, batch, todo, target, scan, asio, registry, history>>
-----------------------------------------------------------------------------
(* worker_update_clients: update_clients, send_to_clients.                 *)

(* get_pending_events empties the event queue in one critical section.     *)
GetPendingEvents_Reversed ==
  /\ upc = "events"
  /\ DockMutexFree
  /\ batch' = [i \in 1 .. Len(event_queue) |->
                 event_queue[Len(event_queue) + 1 - i]]
  /\ event_queue' = <<>>
  /\ upc' = "announce"
  /\ UNCHANGED <<dock_state, state, name, line, todo, target, scan, asio,
                 registry, history>>

GetPendingEvents ==
  /\ upc = "events"
  /\ DockMutexFree
  /\ batch' = event_queue
  /\ event_queue' = <<>>
  /\ upc' = "announce"
  /\ UNCHANGED <<dock_state, state, name, line, todo, target, scan, asio,
                 registry, history>>

(* get_pending_commands: any of the connected modules may have something   *)
(* to report (FlotillaModule says which).                                  *)
GetPendingCommands ==
  /\ upc = "commands"
  /\ \E n \in 0 .. NumChannels : \E due \in [1 .. n -> Channels] :
       /\ \A i \in 1 .. n : state[due[i]] = "ModuleConnected"
       /\ \A i \in 1 .. n, j \in 1 .. n : i < j => due[i] < due[j]
       /\ dock_state # "Connected" => n = 0
       /\ batch' = [i \in 1 .. n |-> Update(due[i])]
  /\ upc' = "report"
  /\ UNCHANGED <<dock, line, todo, target, scan, asio, registry, history>>

(* send_to_clients takes mutex_clients and copies the clients one by one.  *)
BeginMessage ==
  /\ upc \in {"announce", "report"}
  /\ batch # <<>>
  /\ todo' = clients
  /\ upc' = "clients"
  /\ UNCHANGED <<dock, line, batch, target, scan, asio, registry, history>>

(* The copy is what `ready' and subscribed_to() are asked of.              *)
CopyClient(c) ==
  /\ upc = "clients"
  /\ c \in todo
  /\ IF ready[c] /\ subscribed[c]
     THEN /\ target' = c
          /\ upc' = "send"
          /\ UNCHANGED <<todo, view, overtaken>>
     ELSE /\ todo' = todo \ {c}
          /\ Sees(c, Head(batch), Unknown)
          /\ UNCHANGED <<upc, target>>
  /\ UNCHANGED <<dock, line, batch, scan, asio, registry, announced>>

Send ==
  /\ upc = "send"
  /\ Sees(target, Head(batch), Head(batch))
  /\ todo' = todo \ {target}
  /\ target' = NoClient
  /\ upc' = "clients"
  /\ UNCHANGED <<dock, line, batch, scan, asio, registry, announced>>

EndMessage ==
  /\ upc = "clients"
  /\ todo = {}
  /\ batch' = Tail(batch)
  /\ upc' = IF Head(batch).kind = "u" THEN "report" ELSE "announce"
  /\ UNCHANGED <<dock, line, todo, target, scan, asio, registry, history>>

(* The commands are only asked for once the events have been sent.         *)
MessagesDone ==
  /\ batch = <<>>
  /\ \/ upc = "announce" /\ upc' = "commands"
     \/ upc = "report" /\ upc' = "start"
  /\ UNCHANGED <<dock, line, batch, todo, target, scan, asio, registry, history>>
-----------------------------------------------------------------------------
(* worker_dock_scan: set_port, disconnect.                                 *)

(* set_port has opened the port and read the version information.          *)
ScanConnect ==
  /\ spc = "idle"
  /\ dock_state = "Disconnected"
  /\ dock_state' = "Connected"
  /\ UNCHANGED <<state, name, event_queue, worker, scan, asio, registry, history>>

(* The dock's port is gone.                                                *)
ScanDisconnect ==
  /\ spc = "idle"
  /\ dock_state = "Connected"
  /\ dock_state' = "Disconnected"
  /\ spc' = "module"
  /\ sch' = 1
  /\ UNCHANGED <<state, name, event_queue, smsg, worker, asio, registry, history>>

NextScanned ==
  IF sch < NumChannels THEN spc' = "module" /\ sch' = sch + 1
                       ELSE spc' = "idle" /\ sch' = 1

ScanModule_NoEvent ==
  /\ spc = "module"
  /\ state' = [state EXCEPT ![sch] = "ModuleDisconnected"]
  /\ NextScanned
  /\ UNCHANGED <<dock_state, name, event_queue, smsg, worker, asio, registry, history>>

ScanModule ==
  /\ spc = "module"
  /\ IF state[sch] = "ModuleConnected"
     THEN /\ state' = [state EXCEPT ![sch] = "ModuleDisconnected"]
          /\ spc' = "kind"
          /\ UNCHANGED sch
     ELSE NextScanned /\ UNCHANGED state
  /\ UNCHANGED <<dock_state, name, event_queue, smsg, worker, asio, registry, history>>

(* queue_module_event locks, then module_event reads the state and, later, *)
(* the name: process_command may be writing either.                        *)
ScanKind ==
  /\ spc = "kind"
  /\ smsg' = module_event(sch)
  /\ spc' = "name"
  /\ UNCHANGED <<dock, sch, worker, asio, registry, history>>

ScanName ==
  /\ spc = "name"
  /\ QueueEvent([smsg EXCEPT !.name = name[sch]])
  /\ NextScanned
  /\ smsg' = NoEvent
  /\ UNCHANGED <<dock_state, state, name, worker, asio, registry, view, overtaken>>
-----------------------------------------------------------------------------
(* The asio thread: one handler at a time, each to its end.                *)

(* websocket_on_open inserts a FlotillaClient(), which is not ready and    *)
(* has subscribed to nothing: what those that are not in the map are here. *)
websocket_on_open(c) ==
  /\ apc = "idle"
  /\ ClientsMutexFree
  /\ c \notin clients
  /\ clients' = clients \cup {c}
  /\ UNCHANGED <<dock, worker, scan, asio, ready, subscribed, history>>

(* websocket_on_close and websocket_on_fail.                               *)
websocket_on_close_Unlocked(c) ==
  /\ apc = "idle"
  /\ c \in clients
  /\ clients' = clients \ {c}
  /\ ready' = [ready EXCEPT ![c] = FALSE]
  /\ subscribed' = [subscribed EXCEPT ![c] = FALSE]
  /\ view' = [view EXCEPT ![c] = [ch \in Channels |-> Unknown]]
  /\ UNCHANGED <<dock, worker, scan, asio, announced, overtaken>>

websocket_on_close(c) ==
  /\ apc = "idle"
  /\ ClientsMutexFree
  /\ c \in clients
  /\ clients' = clients \ {c}
  /\ ready' = [ready EXCEPT ![c] = FALSE]
  /\ subscribed' = [subscribed EXCEPT ![c] = FALSE]
  /\ view' = [view EXCEPT ![c] = [ch \in Channels |-> Unknown]]
  /\ UNCHANGED <<dock, worker, scan, asio, announced, overtaken>>

(* "subscribe:" and "unsubscribe:".                                        *)
Subscribe(c, on) ==
  /\ apc = "idle"
  /\ c \in clients
  /\ subscribed' = [subscribed EXCEPT ![c] = on]
  /\ UNCHANGED <<dock, worker, scan, asio, clients, ready, history>>

(* "pause"                                                                 *)
Pause(c) ==
  /\ apc = "idle"
  /\ c \in clients
  /\ ready' = [ready EXCEPT ![c] = FALSE]
  /\ UNCHANGED <<dock, worker, scan, asio, clients, subscribed, history>>

(* "ready" and "hello" call init_client; only "ready" sets the flag.       *)
InitClient(c, is_ready) ==
  /\ apc = "idle"
  /\ c \in clients
  /\ ready' = [ready EXCEPT ![c] = @ \/ is_ready]
  /\ apc' = "dock"
  /\ icl' = c
  /\ UNCHANGED <<dock, worker, scan, ich, imsg, clients, subscribed, history>>

(* init_client looks at the dock's state once ...                          *)
InitDock ==
  /\ apc = "dock"
  /\ IF dock_state = "Connected"
     THEN apc' = "check" /\ UNCHANGED icl
     ELSE apc' = "idle" /\ icl' = NoClient
  /\ UNCHANGED <<dock, worker, scan, ich, imsg, registry, history>>

NextInit ==
  IF ich < NumChannels
  THEN apc' = "check" /\ ich' = ich + 1 /\ UNCHANGED icl
  ELSE apc' = "idle" /\ ich' = 1 /\ icl' = NoClient

(* ... and goes over the channels, skipping those without a module.        *)
InitCheck ==
  /\ apc = "check"
  /\ IF state[ich] = "ModuleConnected" THEN apc' = "kind" /\ UNCHANGED <<icl, ich>>
                                       ELSE NextInit
  /\ UNCHANGED <<dock, worker, scan, imsg, registry, history>>

(* It calls module_event without the dock's mutex.                         *)
InitKind ==
  /\ apc = "kind"
  /\ imsg' = module_event(ich)
  /\ overtaken' = FALSE
  /\ apc' = "name"
  /\ UNCHANGED <<dock, worker, scan, icl, ich, registry, announced, view>>

InitName ==
  /\ apc = "name"
  /\ imsg' = [imsg EXCEPT !.name = name[ich]]
  /\ apc' = "send"
  /\ UNCHANGED <<dock, worker, scan, icl, ich, registry, history>>

InitSend ==
  /\ apc = "send"
  /\ view' = [view EXCEPT ![icl][ich] = IF overtaken THEN Unknown ELSE imsg]
  /\ imsg' = NoEvent
  /\ overtaken' = FALSE
  /\ NextInit
  /\ UNCHANGED <<dock, worker, scan, registry, announced>>
-----------------------------------------------------------------------------
worker_update_clients ==
  \/ TickStart
  \/ \E ch \in Channels : ReadDisconnect(ch) \/ \E n \in Names : ReadConnect(ch, n)
  \/ WriteName \/ SetConnected \/ QueueLineEvent \/ EndLines
  \/ GetPendingEvents \/ GetPendingCommands
  \/ BeginMessage \/ (\E c \in Clients : CopyClient(c)) \/ Send
  \/ EndMessage \/ MessagesDone

worker_dock_scan ==
  ScanConnect \/ ScanDisconnect \/ ScanModule \/ ScanKind \/ ScanName

init_client ==
  \/ \E c \in Clients, is_ready \in BOOLEAN : InitClient(c, is_ready)
  \/ InitDock \/ InitCheck \/ InitKind \/ InitName \/ InitSend

websocket_handlers ==
  \/ \E c \in Clients : websocket_on_open(c) \/ websocket_on_close(c) \/ Pause(c)
  \/ \E c \in Clients, on \in BOOLEAN : Subscribe(c, on)
  \/ init_client

Next == worker_update_clients \/ worker_dock_scan \/ websocket_handlers

Spec == Init /\ [][Next]_vars
-----------------------------------------------------------------------------
DockTypeOK ==
  /\ dock_state \in {"Disconnected", "Connected"}
  /\ state \in [Channels -> {"ModuleDisconnected", "ModuleConnected"}]
  /\ name \in [Channels -> Names \cup {NoName, Torn}]
  /\ event_queue \in Seq(Message)

WorkerTypeOK ==
  /\ upc \in {"start", "lines", "naming", "named", "queue", "events", "announce",
              "commands", "report", "clients", "send"}
  /\ line \in [channel : 0 .. NumChannels, name : Names \cup {NoName}]
  /\ batch \in Seq(Message)
  /\ todo \subseteq Clients
  /\ target \in Clients \cup {NoClient}

ScanTypeOK ==
  /\ spc \in {"idle", "module", "kind", "name"}
  /\ sch \in Channels
  /\ smsg \in Message

AsioTypeOK ==
  /\ apc \in {"idle", "dock", "check", "kind", "name", "send"}
  /\ icl \in Clients \cup {NoClient}
  /\ ich \in Channels
  /\ imsg \in Message

RegistryTypeOK ==
  /\ clients \subseteq Clients
  /\ ready \in [Clients -> BOOLEAN]
  /\ subscribed \in [Clients -> BOOLEAN]

HistoryTypeOK ==
  /\ announced \in [Channels -> Message]
  /\ view \in [Clients -> [Channels -> Message \cup {Unknown}]]
  /\ overtaken \in BOOLEAN

(* Every variable keeps the shape its readers rely on: in particular no    *)
(* loop over the channels runs past the last one.                          *)
TypeOK ==
  /\ DockTypeOK
  /\ WorkerTypeOK
  /\ ScanTypeOK
  /\ AsioTypeOK
  /\ RegistryTypeOK
  /\ HistoryTypeOK

(* Who still owes the clients an event about a channel.                    *)
WorkerOwes(ch) == upc \in {"naming", "named", "queue"} /\ line.channel = ch

ScanOwes(ch) == spc \in {"kind", "name"} /\ sch = ch

OnItsWay(ch) ==
  \/ \E i \in 1 .. Len(event_queue) : event_queue[i].channel = ch
  \/ \E i \in 1 .. Len(batch) : batch[i].kind # "u" /\ batch[i].channel = ch

(* However the two workers interleave, unless one of them is about to      *)
(* queue an event, the last event queued about a channel says what the     *)
(* channel's state and name are.                                           *)
EventsConverge ==
  \A ch \in Channels :
    WorkerOwes(ch) \/ ScanOwes(ch) \/ announced[ch] = module_event(ch)

(* What makes EventsConverge inductive: what worker_dock_scan is about to  *)
(* queue changes anything only if it says that the module has gone; a line *)
(* being processed names a channel, a message being sent exists, and what  *)
(* worker_dock_scan has composed under the dock's mutex is still so, or    *)
(* the other worker is about to wait for that mutex.                       *)
ScanOwesGone(ch) ==
  /\ sch = ch
  /\ \/ spc = "kind" /\ state[ch] = "ModuleDisconnected"
     \/ spc = "name" /\ smsg.kind = "d"

Converged ==
  \A ch \in Channels :
    WorkerOwes(ch) \/ ScanOwesGone(ch) \/ announced[ch] = module_event(ch)

LineNamesChannel == upc \in {"naming", "named", "queue"} => line.channel \in Channels

MessageInHand == upc \in {"clients", "send"} => Len(batch) > 0

ComposedKindCurrent ==
  spc = "name" =>
    /\ smsg.channel = sch
    /\ smsg.kind = module_event(sch).kind \/ WorkerOwes(sch)

IInv ==
  /\ TypeOK
  /\ LineNamesChannel
  /\ MessageInHand
  /\ ComposedKindCurrent
  /\ Converged

(* A client that has been sent every event about a channel since it was    *)
(* first told about it, and whose last snapshot by init_client no event    *)
(* overtook, sees what the channel is, once no event is on its way.        *)
ViewCurrent ==
  \A c \in clients, ch \in Channels :
    \/ view[c][ch] = Unknown
    \/ WorkerOwes(ch) \/ ScanOwes(ch) \/ OnItsWay(ch)
    \/ view[c][ch] = module_event(ch)

(* Data never comes before the module: such a client gets data of a module *)
(* only after the event that says that module, by that name, is connected  *)
(* (unless init_client has already told it that the module has gone).      *)
UpdatesAfterConnect ==
  (upc = "send" /\ Head(batch).kind = "u") =>
    LET ch == Head(batch).channel
    IN \/ view[target][ch] = Unknown
       \/ view[target][ch] = [Head(batch) EXCEPT !.kind = "c"]
       \/ ScanOwes(ch)
       \/ \E i \in 1 .. Len(event_queue) :
             event_queue[i].channel = ch /\ event_queue[i].kind = "d"

(* send_to_clients iterates over the map of clients: no client it has yet  *)
(* to come to, nor the one it is sending to, is erased under it.           *)
SendsToOpenClient == upc \in {"clients", "send"} => todo \subseteq clients

(* Flotilla_Client.h:14 says that updates should not be sent unless the    *)
(* client is ready.                                                        *)
UpdateOnlyWhenReady ==
  [][upc = "send" /\ upc' = "clients" /\ Head(batch).kind = "u" => ready[target]]_vars
=============================================================================
