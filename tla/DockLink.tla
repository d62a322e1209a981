------------------------------- MODULE DockLink -------------------------------
(***************************************************************************)
(* One slot's serial line: the version handshake set_port makes, the lines *)
(* tick() reads, and the commands for the dock, which the asio thread      *)
(* queues and tick() writes under the dock's mutex, a tenth of a second    *)
(* apart.  DockSlots has the slots' ports; here the scan does not touch a  *)
(* port that tick() uses.                                                  *)
(*                                                                         *)
(* A line is two parts and a newline.  sp_readline returns what it has     *)
(* when nothing comes for a second: the dock may pause between any two of  *)
(* them, so a line may be read in pieces, or be empty.  A piece of one     *)
(* reads like a shorter line, or makes stoi, substr or at throw, which     *)
(* nobody catches.  So may a whole line: one without a second character or *)
(* a number where there should be one ("bare"), and the data of a module   *)
(* with a shorter name than the one that the channel still has.  The lines *)
(* about modules ("c", "d", "u"; ModuleEvents and FlotillaModule say what  *)
(* else they do) are those of one channel here, and of two modules.        *)
(***************************************************************************)
EXTENDS Integers, Sequences

CONSTANTS
  Docks,
  Answers,      (* what docks send when asked: sequences of kinds of lines *)
  MaxCommands,  (* bound: commands queued                                  *)
  MaxAttempts   (* bound: calls of set_port                                *)

(* The modules of the channel, as the lengths of their names, and the      *)
(* lines of a dock that finds one and sends its data.                      *)
Modules == {"short", "long"}

Found == [m \in Modules |-> IF m = "long" THEN "c_long" ELSE "c_short"]

Data == [m \in Modules |-> IF m = "long" THEN "u_long" ELSE "u_short"]

(* What the lines are about; "d" is a module lost.                         *)
Kinds == {"ready", "version", "serial", "user", "name", "bare", "c_short", "c_long", "d",
          "u_short", "u_long"}

ASSUME AnswerAssumption == Answers \subseteq Seq(Kinds)

ASSUME DockLinkAssumption == MaxCommands \in Nat /\ MaxAttempts \in Nat

VARIABLES
  state,        (* the DockState                                           *)
  dock,         (* the dock at the other end ...                           *)
  present,      (* ... and whether it is still there                       *)
  told,         (* the lines it was to send, in this attempt               *)
  coming,       (* what of them has yet to be read                         *)
  at,           (* where the thread that uses the port is                  *)
  buffer,       (* sp_readline's                                           *)
  info_lines,   (* get_version_info has yet to read                        *)
  ident,        (* version, serial, user and name                          *)
  mutex,        (* whether tick() has the dock's mutex                     *)
  command_queue,
  module_state, (* of the channel's module ...                             *)
  module_name,  (* ... and its name, which outlives it                     *)
  asio,         (* "waiting" for the mutex, in queue_command, or "idle"    *)
  crashed,
  posted,       (* history: commands queued; command n is the n-th ...     *)
  written,      (* ... those written                                       *)
  attempts,
  cut,          (* ... whether a pause has cut a line in pieces            *)
  heard         (* ... and, if none has, what the lines that were given to *)
                (* process_command since the dock was connected are about  *)

line == <<coming, buffer>>
queue == <<mutex, command_queue, posted, written>>
dockside == <<dock, present, told, attempts>>
channel == <<module_state, module_name, heard>>
vars == <<state, dockside, line, at, info_lines, ident, queue, asio, crashed, cut, channel>>

InfoLines == 4

Newline == [k |-> "newline", part |-> 0]

(* Two parts and a newline for every line.                                 *)
Characters(kinds) ==
  [i \in 1 .. 3 * Len(kinds) |->
     IF i % 3 = 0 THEN Newline ELSE [k |-> kinds[(i + 2) \div 3], part |-> i % 3]]

(* A line that was not cut, of kind k.                                     *)
Whole(l, k) == l = <<[k |-> k, part |-> 1], [k |-> k, part |-> 2]>>

Starts(l, k) == l # <<>> /\ l[1] = [k |-> k, part |-> 1]

Init ==
  /\ state = "Disconnected" /\ dock = "none" /\ present = FALSE /\ told = <<>>
  /\ coming = <<>> /\ buffer = <<>>
  /\ at = "idle" /\ info_lines = 0
  /\ ident = [version |-> "", serial |-> "", user |-> "", name |-> ""]
  /\ mutex = FALSE /\ command_queue = <<>> /\ asio = "idle"
  /\ crashed = FALSE /\ posted = 0 /\ written = <<>> /\ attempts = 0 /\ cut = FALSE
  /\ module_state = "ModuleDisconnected" /\ module_name = "" /\ heard = <<>>
-----------------------------------------------------------------------------
(* The dock at the port is gone; so is what it sent.                       *)
Unplug ==
  /\ ~crashed
  /\ present
  /\ present' = FALSE /\ coming' = <<>>
  /\ UNCHANGED <<state, dock, told, attempts, at, buffer, info_lines, ident, queue, asio, crashed, cut, channel>>

(* set_port and the beginning of get_version_info: the dock is asked for   *)
(* its version and answers, sends something else, or nothing.              *)
SetPort(d, answer) ==
  /\ ~crashed
  /\ state = "Disconnected" /\ at = "idle" /\ attempts < MaxAttempts
  /\ attempts' = attempts + 1
  /\ state' = "Connecting" /\ at' = "wait"
  /\ dock' = d /\ present' = TRUE /\ told' = answer /\ buffer' = <<>>
  /\ coming' = (IF d = dock THEN coming ELSE <<>>) \o Characters(answer)
  /\ ident' = [ident EXCEPT !.version = "", !.user = "", !.name = ""]
  /\ cut' = FALSE
  /\ UNCHANGED <<info_lines, queue, asio, crashed, channel>>

(* sp_readline.  A read from a port that is gone returns at once.          *)
Reading == ~crashed /\ at \in {"wait", "info", "line"}

ReadCharacter ==
  /\ Reading
  /\ coming # <<>> /\ Head(coming) # Newline
  /\ buffer' = Append(buffer, Head(coming)) /\ coming' = Tail(coming)
  /\ UNCHANGED <<state, dockside, at, info_lines, ident, queue, asio, crashed, cut, channel>>

(* It returns a line: at its end, or because of a pause.                   *)
LineEnds ==
  /\ Reading
  /\ coming # <<>> /\ Head(coming) = Newline
  /\ coming' = Tail(coming) /\ buffer' = <<>>
  /\ UNCHANGED cut

Pause ==
  /\ Reading
  /\ at = "line" /\ buffer = <<>> => coming = <<>>
  /\ coming' = coming /\ buffer' = <<>>
  /\ cut' = (cut \/ buffer # <<>>)

Failed == state' = "Disconnected" /\ at' = "idle"

(* sp_wait_for: a tenth of a second at most, looked at between lines.      *)
WaitFor ==
  /\ at = "wait"
  /\ IF Whole(buffer, "ready")
       THEN (LineEnds \/ Pause) /\ at' = "info" /\ info_lines' = InfoLines /\ UNCHANGED state
       ELSE /\ \/ LineEnds /\ at' = at /\ UNCHANGED state
               \/ (LineEnds \/ Pause) /\ Failed
            /\ UNCHANGED info_lines
  /\ UNCHANGED <<dockside, ident, queue, asio, crashed, channel>>

(* What get_version_info and process_command understand of a line: a value *)
(* may be cut short, in the value or before.                               *)
Values(l, field) ==
  IF Whole(l, field) THEN {dock}
  ELSE IF Starts(l, field) THEN {"", "cut", ident[field]}
  ELSE {ident[field]}

Valid(i) == i.version # "" /\ i.serial \in Docks

(* The four lines after the banner, and what get_version_info returns.     *)
VersionInfo ==
  /\ at = "info"
  /\ LineEnds \/ Pause
  /\ \E v \in Values(buffer, "version"), s \in Values(buffer, "serial"),
       u \in Values(buffer, "user"), n \in Values(buffer, "name") :
         ident' = [version |-> v, serial |-> s, user |-> u, name |-> n]
  /\ info_lines' = info_lines - 1
  /\ IF info_lines > 1 THEN UNCHANGED <<state, at>>
     ELSE IF Valid(ident') THEN state' = "Connected" /\ at' = "idle"
     ELSE Failed
  /\ heard' = <<>>
  /\ UNCHANGED <<dockside, queue, asio, crashed, module_state, module_name>>

(* The scan finds that the port is gone and disconnects it, and its module. *)
Disconnect_KeepsModules ==
  /\ ~crashed
  /\ state = "Connected" /\ at = "idle" /\ ~present
  /\ state' = "Disconnected"
  /\ UNCHANGED <<dockside, line, at, info_lines, ident, queue, asio, crashed, cut, channel>>

Disconnect ==
  /\ ~crashed
  /\ state = "Connected" /\ at = "idle" /\ ~present
  /\ state' = "Disconnected" /\ module_state' = "ModuleDisconnected"
  /\ UNCHANGED <<dockside, line, at, info_lines, ident, queue, asio, crashed, cut,
                 module_name, heard>>
-----------------------------------------------------------------------------
(* tick().  First the commands ...                                         *)
Lock ==
  /\ ~crashed
  /\ state = "Connected" /\ at = "idle" /\ ~mutex
  /\ mutex' = TRUE /\ at' = "write"
  /\ UNCHANGED <<state, dockside, line, info_lines, ident, command_queue, posted, written,
                 asio, crashed, cut, channel>>

Write ==
  /\ ~crashed
  /\ at = "write" /\ command_queue # <<>>
  /\ written' = Append(written, Head(command_queue))
  /\ at' = "pop"
  /\ UNCHANGED <<state, dockside, line, info_lines, ident, mutex, command_queue, posted,
                 asio, crashed, cut, channel>>

Pop_All ==
  /\ at = "pop"
  /\ command_queue' = <<>>
  /\ at' = "write"
  /\ UNCHANGED <<state, dockside, line, info_lines, ident, mutex, posted, written,
                 asio, crashed, cut, channel>>

Pop ==
  /\ at = "pop"
  /\ command_queue' = Tail(command_queue)
  /\ at' = "write"
  /\ UNCHANGED <<state, dockside, line, info_lines, ident, mutex, posted, written,
                 asio, crashed, cut, channel>>

Unlock_Kept ==
  /\ ~crashed
  /\ at = "write" /\ command_queue = <<>>
  /\ at' = "read"
  /\ UNCHANGED <<state, dockside, line, info_lines, ident, mutex, command_queue, posted, written,
                 asio, crashed, cut, channel>>

Unlock ==
  /\ ~crashed
  /\ at = "write" /\ command_queue = <<>>
  /\ mutex' = FALSE /\ at' = "read"
  /\ UNCHANGED <<state, dockside, line, info_lines, ident, command_queue, posted, written,
                 asio, crashed, cut, channel>>

(* ... then, while bytes are waiting, lines.                               *)
InputWaiting ==
  /\ ~crashed
  /\ at = "read" /\ coming # <<>>
  /\ at' = "line"
  /\ UNCHANGED <<state, dockside, line, info_lines, ident, queue, asio, crashed, cut, channel>>

NoInputWaiting ==
  /\ ~crashed
  /\ at = "read"
  /\ at' = "idle"
  /\ UNCHANGED <<state, dockside, line, info_lines, ident, queue, asio, crashed, cut, channel>>

(* process_command.  A module is found: connect() of the channel's module, *)
(* which keeps the name of one that is connected ...                       *)
connect(n) ==
  IF module_state = "ModuleConnected"
    THEN UNCHANGED <<module_state, module_name>>
    ELSE module_state' = "ModuleConnected" /\ module_name' = n

(* ... or lost.  A piece of such a line may do that, with a shorter name,  *)
(* or nothing.                                                             *)
ModuleLine(l) ==
  \/ \E m \in Modules :
       /\ Starts(l, Found[m])
       /\ \E n \in IF Whole(l, Found[m]) THEN {m} ELSE {"", m} : connect(n)
  \/ /\ Starts(l, "d")
     /\ module_state' = "ModuleDisconnected" /\ UNCHANGED module_name
  \/ /\ \A k \in {"d", "c_short", "c_long"} : ~Whole(l, k)
     /\ UNCHANGED <<module_state, module_name>>

(* No whole line; data that begin where a name is taken to end that is     *)
(* longer than that of the module, perhaps beyond the end of the line.     *)
Broken(l) == \A k \in Kinds : ~Whole(l, k)

Misplaced(l) == module_name = "long" /\ Whole(l, Data["short"])

Throws(l) ==
  IF l = <<>> \/ Whole(l, "bare") THEN {TRUE}
  ELSE IF Broken(l) \/ Misplaced(l) THEN BOOLEAN
  ELSE {FALSE}

ProcessLine ==
  /\ at = "line"
  /\ LineEnds \/ Pause
  /\ ModuleLine(buffer)
  /\ crashed' \in Throws(buffer)
  /\ heard' = IF cut' THEN <<>> ELSE IF buffer = <<>> THEN heard ELSE Append(heard, buffer[1].k)
  /\ at' = "read"
  /\ UNCHANGED <<state, dockside, info_lines, queue, asio>>

ProcessCommand_Early == ProcessLine /\ UNCHANGED ident

ProcessCommand ==
  /\ ProcessLine
  /\ \E u \in Values(buffer, "user"), n \in Values(buffer, "name") :
       ident' = [ident EXCEPT !.user = u, !.name = n]
-----------------------------------------------------------------------------
(* The asio thread has a command for the dock: queue_command.              *)
QueueCommand ==
  /\ ~crashed
  /\ asio = "idle" /\ posted < MaxCommands
  /\ asio' = "waiting"
  /\ UNCHANGED <<state, dockside, line, at, info_lines, ident, queue, crashed, cut, channel>>

Push ==
  /\ ~crashed
  /\ asio = "waiting" /\ ~mutex
  /\ posted' = posted + 1
  /\ command_queue' = Append(command_queue, posted')
  /\ asio' = "idle"
  /\ UNCHANGED <<state, dockside, line, at, info_lines, ident, mutex, written, crashed, cut, channel>>

Handshake == ReadCharacter \/ WaitFor \/ VersionInfo

Tick == Lock \/ Write \/ Pop \/ Unlock \/ InputWaiting \/ NoInputWaiting \/ ProcessCommand

Next ==
  \/ Unplug
  \/ \E d \in Docks, a \in Answers : SetPort(d, a)
  \/ Handshake \/ Disconnect
  \/ Tick
  \/ QueueCommand \/ Push

(* The update thread keeps running, a write to a port returns, and a       *)
(* thread that waits for a mutex is not passed over for ever.              *)
Spec ==
  /\ Init /\ [][Next]_vars
  /\ WF_vars(Handshake) /\ WF_vars(Tick) /\ SF_vars(Push)
-----------------------------------------------------------------------------
(* The types of the variables; tick() has the mutex while it writes.       *)
TypeOK ==
  /\ state \in {"Disconnected", "Connecting", "Connected"}
  /\ dock \in Docks \cup {"none"} /\ present \in BOOLEAN /\ told \in Answers \cup {<<>>}
  /\ at \in {"idle", "wait", "info", "write", "pop", "read", "line"}
  /\ info_lines \in 0 .. InfoLines
  /\ \A f \in DOMAIN ident : ident[f] \in Docks \cup {"", "cut"}
  /\ mutex = (at \in {"write", "pop"})
  /\ posted \in 0 .. MaxCommands /\ asio \in {"idle", "waiting"}
  /\ command_queue \in Seq(1 .. MaxCommands) /\ written \in Seq(1 .. MaxCommands)
  /\ crashed \in BOOLEAN /\ cut \in BOOLEAN /\ attempts \in 0 .. MaxAttempts
  /\ module_state \in {"ModuleConnected", "ModuleDisconnected"}
  /\ module_name \in Modules \cup {""} /\ heard \in Seq(Kinds)

(* Every command is written once, in the order in which they were queued,  *)
(* whatever happens to the connection: what was queued for a dock that is  *)
(* gone is written to the next one.                                        *)
Fifo ==
  written \o (IF at = "pop" THEN Tail(command_queue) ELSE command_queue)
    = [n \in 1 .. posted |-> n]

(* A command is written as long as a dock is connected ("All commmands     *)
(* addressed at a specific dock should be processed", Flotilla.cpp).       *)
CommandsProcessed ==
  \A n \in 1 .. MaxCommands :
    posted >= n ~> Len(written) >= n \/ crashed \/ state # "Connected"

(* The asio thread, which waits for the mutex while tick() writes, and     *)
(* with it every client, goes on: the queue does not grow meanwhile.       *)
QueueCommandReturns == asio = "waiting" ~> asio = "idle" \/ crashed

(* A dock that has told its user and its name after the banner, in any of  *)
(* the four lines that get_version_info reads or later, is known by them,  *)
(* and not by those of the dock before, once all it sent has been read.    *)
Identified ==
  state = "Connected" /\ at # "line" /\ coming = <<>> /\ ~cut /\ present =>
    \A i, j \in DOMAIN told :
      i < j /\ told[i] = "ready" /\ told[j] \in {"user", "name"} => ident[told[j]] = dock

(* The c-th line found the channel's module: the first to find one since   *)
(* the last was lost, with none lost since.                                *)
Finds(h, c, m) ==
  /\ h[c] = Found[m]
  /\ \A e \in c + 1 .. Len(h) : h[e] # "d"
  /\ \A e \in 1 .. c - 1 :
       h[e] \in {"c_short", "c_long"} => \E d \in e + 1 .. c - 1 : h[d] = "d"

(* The i-th line has the data of a module that no line before it found.    *)
Unannounced(h, i) ==
  \E m \in Modules :
    /\ h[i] = Data[m]
    /\ \A c \in 1 .. i - 1 : ~Finds(SubSeq(h, 1, i - 1), c, m)

(* A line ends the daemon only if the dock paused within it or was         *)
(* unplugged, or if the dock is at fault: it sent a bare line, or data of  *)
(* a module without first saying that it found it, or that it lost the one *)
(* before.  The name a module of an earlier connection has left behind     *)
(* does no harm, and no read finds nothing (Flotilla_Dock.cpp:57-182,      *)
(* Flotilla_Module.cpp:26-36).                                             *)
CrashesOnlyOnBadLines ==
  crashed =>
    \/ cut \/ ~present
    \/ \E i \in 1 .. Len(heard) : heard[i] = "bare" \/ Unannounced(heard, i)
=============================================================================
