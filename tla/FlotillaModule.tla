---------------------------- MODULE FlotillaModule ----------------------------
(***************************************************************************)
(* One FlotillaModule (Flotilla_Module.cpp): the channel of a dock, with   *)
(* the queue of values the dock reported (command_queue, dock -> clients)  *)
(* and the queue of values the clients sent (update_queue, clients ->      *)
(* dock).  Three threads call it:                                          *)
(*                                                                         *)
(*   upc    worker_update_clients: FlotillaDock::tick (get_next_update and *)
(*          then the lines the dock sent), then get_pending_commands       *)
(*          (get_next_command);                                            *)
(*   spc    worker_dock_scan: FlotillaDock::disconnect and set_port;       *)
(*   (asio) websocket_on_message: queue_update.                            *)
(*                                                                         *)
(* A step is one critical section of the module's mutex, or one read of    *)
(* shared state made outside it: get_next_command reads                    *)
(* command_queue.size() before it locks, and disconnect() writes `state'   *)
(* before empty_queue() locks.                                             *)
(*                                                                         *)
(* Values are members of Data; a queued value also carries the number of   *)
(* its report or post, which the code does not have: the properties need   *)
(* it to tell two equal values apart, and no guard or choice of the code   *)
(* reads it.                                                               *)
(***************************************************************************)
EXTENDS Integers, Sequences

CONSTANTS
  Data,         (* the non-empty texts a dock reports or a client sends    *)
  NoData,       (* the empty string                                        *)
  Garbage,      (* what front() of an empty queue may read                 *)
  Names,        (* names of the modules that may be plugged in             *)
  MaxReports,   (* bound: values the dock reports                          *)
  MaxPosts,     (* bound: values the clients send                          *)
  MaxSessions   (* bound: times set_port succeeds                          *)

ASSUME DataAssumption ==
  /\ NoData \notin Data
  /\ Garbage \notin Data
  /\ Garbage # NoData

ASSUME BoundAssumption ==
  /\ MaxReports \in Nat
  /\ MaxPosts \in Nat
  /\ MaxSessions \in Nat

VARIABLES
  dock_state,     (* the DockState the worker checks before each phase     *)
  state,          (* the ModuleState                                       *)
  name,
  command_queue,
  update_queue,
  last_update,
  upc,            (* where worker_update_clients is                        *)
  spc,            (* where worker_dock_scan is                             *)
  sessions,       (* times set_port has succeeded                          *)
  reported,       (* values the dock has reported                          *)
  posted,         (* values the clients have sent                          *)
  session,        (* value of `reported' when the module last connected    *)
  examined,       (* the item get_next_command read last                   *)
  considered,     (* the item get_next_update read last                    *)
  client_out      (* value sent to the clients last, since connect         *)

code == <<dock_state, state, name, command_queue, update_queue, last_update,
          upc, spc>>
history == <<sessions, reported, posted, session, examined, considered,
             client_out>>
vars == <<code, history>>

Item == [seq : Nat, val : Data]
NoItem == [seq |-> 0, val |-> NoData]

Running == upc # "crashed"
Serving == dock_state = "Connected" /\ state = "ModuleConnected"

(* A module whose intermediate values matter.                              *)
is_volatile_Never == FALSE
is_volatile == name = "touch"

Init ==
  /\ dock_state = "Disconnected"
  /\ state = "ModuleDisconnected"
  /\ name = ""
  /\ command_queue = <<>>
  /\ update_queue = <<>>
  /\ last_update = NoData
  /\ upc = "update"
  /\ spc = "idle"
  /\ sessions = 0
  /\ reported = 0
  /\ posted = 0
  /\ session = 0
  /\ examined = NoItem
  /\ considered = NoItem
  /\ client_out = NoData
-----------------------------------------------------------------------------
(* Queue operations shared by both directions.                             *)

(* The last value of a queue is never popped: it stays as the current one. *)
PopUnlessLast_Always(q) == Tail(q)
PopUnlessLast_Never(q) == q
PopUnlessLast(q) == IF Len(q) > 1 THEN Tail(q) ELSE q

(* Popping until one value is left.                                        *)
KeepLatest(q) == IF q = <<>> THEN q ELSE <<q[Len(q)]>>

(* FlotillaModule::queue_command, with its early return.                   *)
queue_command(v) ==
  \/ /\ v = NoData
     /\ UNCHANGED <<command_queue, reported>>
  \/ /\ v # NoData
     /\ reported' = reported + 1
     /\ command_queue' = Append(command_queue, [seq |-> reported + 1, val |-> v])

(* FlotillaModule::queue_update, with its early return.                    *)
queue_update(v) ==
  \/ /\ v = NoData
     /\ UNCHANGED <<update_queue, posted>>
  \/ /\ v # NoData
     /\ posted' = posted + 1
     /\ update_queue' = Append(update_queue, [seq |-> posted + 1, val |-> v])

(* FlotillaModule::connect.  Neither update_queue nor last_update is reset. *)
connect_NoClear(n) ==
  \/ /\ state = "ModuleConnected"
     /\ UNCHANGED <<state, name, command_queue, session, client_out>>
  \/ /\ state # "ModuleConnected"
     /\ name' = n
     /\ state' = "ModuleConnected"
     /\ session' = reported
     /\ client_out' = NoData
     /\ UNCHANGED command_queue

connect(n) ==
  \/ /\ state = "ModuleConnected"
     /\ UNCHANGED <<state, name, command_queue, session, client_out>>
  \/ /\ state # "ModuleConnected"
     /\ name' = n
     /\ command_queue' = <<>>
     /\ state' = "ModuleConnected"
     /\ session' = reported
     /\ client_out' = NoData

(* The tail of get_next_command, after the mutex is released: the value is *)
(* handed on unless it equals last_update; an empty one is not sent.       *)
HandToClients_Forgets(v) ==
  /\ UNCHANGED last_update
  /\ client_out' = IF v \in {last_update, NoData} THEN client_out ELSE v

HandToClients(v) ==
  /\ last_update' = v
  /\ client_out' = IF v \in {last_update, NoData} THEN client_out ELSE v
-----------------------------------------------------------------------------
(* worker_update_clients, first half: FlotillaDock::tick.                  *)

(* get_next_update: nothing queued, nothing written.                       *)
NoUpdate ==
  /\ upc = "update"
  /\ Serving
  /\ update_queue = <<>>
  /\ upc' = "input"
  /\ UNCHANGED <<dock_state, state, name, command_queue, update_queue,
                 last_update, spc, history>>

(* get_next_update takes the front, pops it unless it is the last and, for *)
(* a module that is not volatile, pops down to the last.  The value is     *)
(* written to the dock unless it equals last_update.                       *)
GetNextUpdate ==
  /\ upc = "update"
  /\ Serving
  /\ update_queue # <<>>
  /\ LET update == Head(update_queue)
         rest == PopUnlessLast(update_queue)
     IN /\ update_queue' = IF is_volatile THEN rest ELSE KeepLatest(rest)
        /\ considered' = update
        /\ last_update' = update.val
  /\ upc' = "input"
  /\ UNCHANGED <<dock_state, state, name, command_queue, spc, sessions,
                 reported, posted, session, examined, client_out>>

(* tick() returns at once for a dock that is not connected and skips a     *)
(* module that is not; the lines of a connected dock are still read.       *)
SkipUpdate ==
  /\ upc = "update"
  /\ ~Serving
  /\ upc' = IF dock_state = "Connected" THEN "input" ELSE "check"
  /\ UNCHANGED <<dock_state, state, name, command_queue, update_queue,
                 last_update, spc, history>>

(* process_command, line "u": the dock reports a value.                    *)
LineUpdate(v) ==
  /\ upc = "input"
  /\ reported < MaxReports
  /\ queue_command(v)
  /\ UNCHANGED <<dock_state, state, name, update_queue, last_update, upc, spc,
                 sessions, posted, session, examined, considered, client_out>>

(* process_command, line "c": the dock found a module.                     *)
LineConnect(n) ==
  /\ upc = "input"
  /\ connect(n)
  /\ UNCHANGED <<dock_state, update_queue, last_update, upc, spc, sessions,
                 reported, posted, examined, considered>>

(* process_command, line "d": the dock lost the module.                    *)
LineDisconnect_EmptiesBoth ==
  /\ upc = "input"
  /\ state' = "ModuleDisconnected"
  /\ command_queue' = <<>>
  /\ update_queue' = <<>>
  /\ UNCHANGED <<dock_state, name, last_update, upc, spc, history>>

LineDisconnect ==
  /\ upc = "input"
  /\ state' = "ModuleDisconnected"
  /\ command_queue' = <<>>
  /\ UNCHANGED <<dock_state, name, update_queue, last_update, upc, spc, history>>

(* sp_input_waiting() is 0: the dock has nothing more to say for now.      *)
EndInput ==
  /\ upc = "input"
  /\ upc' = "check"
  /\ UNCHANGED <<dock_state, state, name, command_queue, update_queue,
                 last_update, spc, history>>
-----------------------------------------------------------------------------
(* worker_update_clients, second half: FlotillaDock::get_pending_commands. *)

(* The state checks and the read of command_queue.size(), without a lock.  *)
CheckCommands ==
  /\ upc = "check"
  /\ upc' = IF Serving /\ command_queue # <<>> THEN "take" ELSE "update"
  /\ UNCHANGED <<dock_state, state, name, command_queue, update_queue,
                 last_update, spc, history>>

(* The critical section of get_next_command, and the comparison after it.  *)
TakeCommand ==
  /\ upc = "take"
  /\ command_queue # <<>>
  /\ LET kept == IF is_volatile THEN command_queue ELSE KeepLatest(command_queue)
     IN /\ command_queue' = PopUnlessLast(kept)
        /\ examined' = Head(kept)
        /\ HandToClients(Head(kept).val)
  /\ upc' = "update"
  /\ UNCHANGED <<dock_state, state, name, update_queue, spc, sessions, reported,
                 posted, session, considered>>

(* The queue was emptied after its size was read: front() of an empty      *)
(* queue is undefined.  It crashes the daemon, reads an empty string or    *)
(* reads whatever the memory holds.                                        *)
TakeFromEmpty ==
  /\ upc = "take"
  /\ command_queue = <<>>
  /\ \/ /\ upc' = "crashed"
        /\ UNCHANGED <<last_update, client_out>>
     \/ /\ upc' = "update"
        /\ \E v \in {NoData, Garbage} : HandToClients(v)
  /\ UNCHANGED <<dock_state, state, name, command_queue, update_queue, spc,
                 sessions, reported, posted, session, examined, considered>>
-----------------------------------------------------------------------------
(* websocket_on_message, "s": a client sends a value for the module.       *)
QueueUpdate(v) ==
  /\ Running
  /\ posted < MaxPosts
  /\ queue_update(v)
  /\ UNCHANGED <<dock_state, state, name, command_queue, last_update, upc, spc,
                 sessions, reported, session, examined, considered, client_out>>
-----------------------------------------------------------------------------
(* worker_dock_scan.                                                       *)

(* FlotillaDock::set_port has completed its handshake.                     *)
ScanConnect ==
  /\ Running
  /\ spc = "idle"
  /\ dock_state = "Disconnected"
  /\ sessions < MaxSessions
  /\ dock_state' = "Connected"
  /\ sessions' = sessions + 1
  /\ UNCHANGED <<state, name, command_queue, update_queue, last_update, upc, spc,
                 reported, posted, session, examined, considered, client_out>>

(* FlotillaDock::disconnect: the dock first, ...                           *)
ScanDisconnect ==
  /\ Running
  /\ spc = "idle"
  /\ dock_state = "Connected"
  /\ dock_state' = "Disconnected"
  /\ spc' = "module"
  /\ UNCHANGED <<state, name, command_queue, update_queue, last_update, upc,
                 history>>

(* ... then each connected module: `state' is written without the lock ... *)
ScanModule ==
  /\ Running
  /\ spc = "module"
  /\ state' = "ModuleDisconnected"
  /\ spc' = IF state = "ModuleConnected" THEN "empty" ELSE "idle"
  /\ UNCHANGED <<dock_state, name, command_queue, update_queue, last_update, upc,
                 history>>

(* ... and empty_queue() takes it.                                         *)
ScanEmpty ==
  /\ Running
  /\ spc = "empty"
  /\ command_queue' = <<>>
  /\ spc' = "idle"
  /\ UNCHANGED <<dock_state, state, name, update_queue, last_update, upc, history>>
-----------------------------------------------------------------------------
Worker ==
  \/ NoUpdate \/ GetNextUpdate \/ SkipUpdate
  \/ EndInput
  \/ CheckCommands \/ TakeCommand \/ TakeFromEmpty

DockLine ==
  \/ \E v \in Data \cup {NoData} : LineUpdate(v)
  \/ \E n \in Names : LineConnect(n)
  \/ LineDisconnect

Scan == ScanConnect \/ ScanDisconnect \/ ScanModule \/ ScanEmpty

Client == \E v \in Data \cup {NoData} : QueueUpdate(v)

Next == Worker \/ DockLine \/ Scan \/ Client

(* The worker threads loop for as long as the daemon runs, and a dock      *)
(* stops sending now and then (EndInput stays possible).  Nothing makes    *)
(* docks or clients act.                                                   *)
Fairness ==
  /\ WF_vars(Worker)
  /\ WF_vars(ScanModule \/ ScanEmpty)

Spec == Init /\ [][Next]_vars

FairSpec == Spec /\ Fairness
-----------------------------------------------------------------------------
(* Types of the module's state, and the bounds.                            *)
Bounded ==
  /\ sessions \in 0 .. MaxSessions
  /\ reported \in 0 .. MaxReports
  /\ posted \in 0 .. MaxPosts
  /\ session \in 0 .. reported

TypeOK ==
  /\ dock_state \in {"Connected", "Disconnected"}   \* Connecting included
  /\ state \in {"ModuleConnected", "ModuleDisconnected"}
  /\ name \in Names \cup {""}
  /\ command_queue \in Seq(Item)
  /\ update_queue \in Seq(Item)
  /\ last_update \in Data \cup {NoData, Garbage}
  /\ upc \in {"update", "input", "check", "take", "crashed"}
  /\ spc \in {"idle", "module", "empty"}
  /\ Bounded
  /\ examined \in Item \cup {NoItem}
  /\ considered \in Item \cup {NoItem}
  /\ client_out \in Data \cup {NoData, Garbage}

(* Dock -> clients: get_next_command looks at what the dock reported in    *)
(* order, never goes back to an older report, skips reports only for       *)
(* modules that are not volatile, and never discards the newest; connect() *)
(* and disconnect() may drop all that is queued (Flotilla_Module.cpp:17-63)*)
Commands == INSTANCE Mailbox WITH
  posted <- reported,
  floor <- reported - Len(command_queue),
  taken <- examined.seq,
  lossless <- name = "touch"

CommandMailbox == Commands!Spec

(* Clients -> dock: get_next_update looks at what the clients sent in      *)
(* order, never goes back, skips only for modules that are not volatile,   *)
(* and the newest value stays queued for good: nothing empties             *)
(* update_queue, not even another module plugged into the channel          *)
(* (Flotilla_Module.cpp:17-33, 72-104).                                    *)
Updates == INSTANCE Mailbox WITH
  posted <- posted,
  floor <- posted - Len(update_queue),
  taken <- considered.seq,
  lossless <- name = "touch"

UpdateMailbox == Updates!KeepSpec

(* What a connected module has queued for the clients, it reported itself: *)
(* nothing is left over from the module that was plugged in before, even   *)
(* when worker_dock_scan disconnects the dock between any two steps of     *)
(* worker_update_clients.                                                  *)
SessionIsolation ==
  state = "ModuleConnected" \/ upc = "take" =>
    \A i \in 1 .. Len(command_queue) : command_queue[i].seq > session

(* For a module no client writes to, the value kept in the queue after it  *)
(* was sent is recognised by last_update the next time, and not sent again *)
(* on every pass of worker_update_clients.                                 *)
InputModuleNotResent ==
  posted = 0 /\ command_queue # <<>> /\ Head(command_queue).seq = examined.seq
    => last_update = examined.val

(* Of every client value, that value or a newer one is looked at, unless   *)
(* the module stops being served: the popping of get_next_update never     *)
(* leaves the newest value behind for good.                                *)
UpdatesConsidered ==
  \A n \in 1 .. MaxPosts : posted >= n ~> considered.seq >= n \/ ~Serving

(* Of every report queued for a module that is served, that report or a    *)
(* newer one is looked at, unless the module stops being served.           *)
Queued(q, n) == \E i \in 1 .. Len(q) : q[i].seq = n

CommandsExamined ==
  \A n \in 1 .. MaxReports :
    Serving /\ Queued(command_queue, n) ~> examined.seq >= n \/ ~Serving

(* No value of a touch module is passed over (Flotilla_Module.cpp:7-8): a  *)
(* value leaves its queue only in the step that looks at it.  Reports also *)
(* leave it when the module disconnects or connects, and when the          *)
(* empty_queue() of a scan comes after the module has connected again.     *)
EmptiesCommands ==
  /\ command_queue' = <<>>
  /\ "ModuleDisconnected" \in {state, state'} \/ spc = "empty"

TouchSkipsNothing ==
  [][name = "touch" =>
       /\ \A n \in 1 .. reported :
            Queued(command_queue, n) /\ ~Queued(command_queue', n)
              => examined'.seq = n \/ EmptiesCommands
       /\ \A n \in 1 .. posted :
            Queued(update_queue, n) /\ ~Queued(update_queue', n)
              => considered'.seq = n]_vars
-----------------------------------------------------------------------------
(* The inductive invariant behind these properties: a queue holds the      *)
(* values numbered n - Len(q) + 1 .. n, in that order, ...                 *)
Numbered(q, n) ==
  /\ Len(q) <= n
  /\ \A i \in 1 .. Len(q) : q[i].seq = n - Len(q) + i

(* ... what was taken last is not newer than the oldest value in the       *)
(* queue, ...                                                              *)
TakenInOrder(q, n, item) == item.seq \in 0 .. n /\ item.seq <= n - Len(q) + 1

(* ... and what a connected module has queued is of this session.          *)
OfThisSession ==
  state = "ModuleConnected" \/ upc = "take"
    => session <= reported - Len(command_queue)

IInv ==
  /\ TypeOK
  /\ Numbered(command_queue, reported)
  /\ Numbered(update_queue, posted)
  /\ TakenInOrder(command_queue, reported, examined)
  /\ TakenInOrder(update_queue, posted, considered)
  /\ OfThisSession
  /\ InputModuleNotResent
-----------------------------------------------------------------------------
(* Flotilla_Module.cpp:85 says that the outgoing buffer of a module that   *)
(* is not volatile is flushed because "only the latest data" is relevant:  *)
(* what is written to such a module is the newest value queued.            *)
OnlyLatestWritten ==
  [][upc = "update" /\ ~is_volatile /\ last_update' # last_update
       => considered'.seq = posted]_vars
=============================================================================
