-------------------------------- MODULE Daemon --------------------------------
(***************************************************************************)
(* The daemon from the start of main(): how it becomes a daemon and starts *)
(* its workers, the server's life, the map of clients, and how everything  *)
(* ends.  main() runs the io_service, so the handlers of websocketpp and   *)
(* of Flotilla run on its thread, one after another; a signal interrupts   *)
(* that thread, between two handlers or while one waits for mutex_clients. *)
(*                                                                         *)
(* A connection is "handshake", "open" once websocket_on_open is due,      *)
(* "closing" when the daemon has sent a close frame, "ending" when it was  *)
(* terminated (or has answered the client's close frame) and "gone" when   *)
(* the last handler was called.  Connection has what happens in between.   *)
(***************************************************************************)
EXTENDS Discovery, FiniteSets

CONSTANTS
  Clients,
  Discover,         (* should_discover                                     *)
  Daemonize,        (* should_daemonize                                    *)
  MaxStops          (* bound: signals and "quit" messages                  *)

ASSUME DaemonAssumption ==
  /\ Discover \in BOOLEAN /\ Daemonize \in BOOLEAN /\ MaxStops \in Nat
  /\ Clients \cap {"none", "waiting", "canceled"} = {}

VARIABLES
  main,             (* where main() is                                     *)
  pid_file,         (* whose pid it has: "other", "parent", "own"; "empty"  *)
  server,           (* "uninit", then "ready" or "listening" (m_state)     *)
  accept,           (* the accept: "none", "waiting", "canceled" or the    *)
                    (* client for which its handler is to run              *)
  conn,             (* the state of each client's connection               *)
  clients,          (* the map, as its keys                                *)
  handler,          (* the handler that waits for mutex_clients            *)
  mutex,            (* whether the update thread has mutex_clients         *)
  update, scan,     (* where worker_update_clients and ..._dock_scan are   *)
  stops,            (* history: requests to stop ...                       *)
  left              (* ... and clients that went of their own accord       *)

serving == <<server, accept, conn, clients, handler>>
workers == <<mutex, update, scan>>
history == <<stops, left>>
process == <<running, pid_file>>
vars == <<main, serving, workers, history, process, notify>>

NoHandler == [kind |-> "none", of |-> "none"]

Handler(kind, c) == [kind |-> kind, of |-> c]

Init ==
  /\ main = "options" /\ pid_file \in {"none", "other"} /\ running = TRUE
  /\ server = "uninit" /\ accept = "none"
  /\ conn = [c \in Clients |-> "new"] /\ clients = {} /\ handler = NoHandler
  /\ mutex = FALSE /\ update = "idle" /\ scan = "idle"
  /\ stops = 0 /\ left = {}
  /\ NotifyInit(IF Discover THEN "idle" ELSE "done")

Ended == main \in {"failed", "exited", "aborted"}

(* Before the signal handlers are installed and the workers started.       *)
Starting == main \in {"options", "pid_file", "reopen", "fork", "fork_again", "redirect",
                      "write_pid", "workers"}
-----------------------------------------------------------------------------
Launch(from, to) ==
  /\ main = from
  /\ main' \in {to, "failed"}
  /\ UNCHANGED <<serving, workers, history, running, notify>>

(* main(), to the end of the options.                                      *)
Options ==
  /\ Launch("options", IF Daemonize THEN "pid_file" ELSE "workers")
  /\ UNCHANGED pid_file

(* The pid file can be opened and written.  What is written is the pid of  *)
(* the process that is about to fork ...                                   *)
TryPidFile ==
  /\ Launch("pid_file", "reopen")
  /\ pid_file' \in IF main' = "failed" THEN {pid_file, "empty"} ELSE {"parent"}

(* ... and truncated at once.                                              *)
ReopenPidFile ==
  /\ main = "reopen"
  /\ main' = "fork" /\ pid_file' = "empty"
  /\ UNCHANGED <<serving, workers, history, running, notify>>

(* daemonize().  Each fork leaves the child to go on, or fails.            *)
Fork ==
  /\ Launch("fork", "fork_again") \/ Launch("fork_again", "redirect")
  /\ UNCHANGED pid_file

Redirect ==
  /\ Launch("redirect", "write_pid")
  /\ UNCHANGED pid_file

WritePid ==
  /\ main = "write_pid"
  /\ main' = "workers" /\ pid_file' = "own"
  /\ UNCHANGED <<serving, workers, history, running, notify>>

(* From here on signals are handled and there are workers.                 *)
StartWorkers ==
  /\ main = "workers"
  /\ main' = "init_asio"
  /\ UNCHANGED <<serving, workers, history, process, notify>>

(* A signal before that ends the process.                                  *)
Killed ==
  /\ Starting
  /\ stops < MaxStops
  /\ stops' = stops + 1 /\ main' = "aborted"
  /\ UNCHANGED <<serving, workers, left, process, notify>>
-----------------------------------------------------------------------------
(* setup_server.  listen throws if the port is taken.                      *)
InitAsio ==
  /\ main = "init_asio"
  /\ main' = "listen" /\ server' = "ready"
  /\ UNCHANGED <<accept, conn, clients, handler, workers, history, process, notify>>

Listen ==
  /\ main = "listen"
  /\ \/ main' = "start_accept" /\ server' = "listening"
     \/ main' = "aborted" /\ UNCHANGED server
  /\ UNCHANGED <<accept, conn, clients, handler, workers, history, process, notify>>

(* start_server.  start_accept throws if a signal has stopped the server.  *)
StartAccept ==
  /\ main = "start_accept"
  /\ IF server = "listening"
       THEN main' = "run" /\ accept' = "waiting"
       ELSE main' = "aborted" /\ UNCHANGED accept
  /\ UNCHANGED <<server, conn, clients, handler, workers, history, process, notify>>

StopServer_Accepting ==
  /\ stops < MaxStops
  /\ stops' = stops + 1
  /\ IF server = "listening" /\ \A c \in clients : conn[c] = "open"
       THEN /\ server' = "ready"
            /\ conn' = [c \in Clients |-> IF c \in clients THEN "closing" ELSE conn[c]]
            /\ UNCHANGED <<main, accept>>
       ELSE main' = "aborted" /\ UNCHANGED <<server, accept, conn>>
  /\ UNCHANGED <<clients, handler, workers, left, process, notify>>

(* stop_server.  It throws what stop_listening throws, if the server does  *)
(* not listen, and what send throws, if a client in the map is not open;   *)
(* nobody catches it.                                                      *)
StopServer ==
  /\ stops < MaxStops
  /\ stops' = stops + 1
  /\ IF server = "listening" /\ \A c \in clients : conn[c] = "open"
       THEN /\ server' = "ready"
            /\ accept' = IF accept = "waiting" THEN "canceled" ELSE accept
            /\ conn' = [c \in Clients |-> IF c \in clients THEN "closing" ELSE conn[c]]
            /\ UNCHANGED main
       ELSE main' = "aborted" /\ UNCHANGED <<server, accept, conn>>
  /\ UNCHANGED <<clients, handler, workers, left, process, notify>>

(* sigint_handler.                                                         *)
Signal ==
  /\ ~Ended /\ ~Starting
  /\ StopServer

(* run() calls a handler.                                                  *)
Handle == main = "run" /\ handler = NoHandler

Quit(c) ==
  /\ Handle
  /\ conn[c] = "open" /\ c \in clients
  /\ StopServer

(* A client connects, and handle_accept starts its connection and accepts  *)
(* the next one, or finds that the server has stopped listening.           *)
Connect(c) ==
  /\ ~Ended
  /\ accept = "waiting" /\ conn[c] = "new"
  /\ accept' = c
  /\ UNCHANGED <<main, server, conn, clients, handler, workers, history, process, notify>>

HandleAccept_Registers ==
  /\ Handle
  /\ accept \notin {"none", "waiting"}
  /\ conn' = IF accept = "canceled" THEN conn ELSE [conn EXCEPT ![accept] = "handshake"]
  /\ clients' = IF accept = "canceled" THEN clients ELSE clients \cup {accept}
  /\ accept' = IF server = "listening" THEN "waiting" ELSE "none"
  /\ UNCHANGED <<main, server, handler, workers, history, process, notify>>

HandleAccept ==
  /\ Handle
  /\ accept \notin {"none", "waiting"}
  /\ conn' = IF accept = "canceled" THEN conn ELSE [conn EXCEPT ![accept] = "handshake"]
  /\ accept' = IF server = "listening" THEN "waiting" ELSE "none"
  /\ UNCHANGED <<main, server, clients, handler, workers, history, process, notify>>

Move(c, from, to) ==
  /\ Handle
  /\ conn[c] = from
  /\ conn' = [conn EXCEPT ![c] = to]
  /\ UNCHANGED <<main, server, accept, clients, workers, stops, process, notify>>

(* The handshake is completed, or fails, in the end by its timer.          *)
Open(c) == Move(c, "handshake", "open") /\ handler' = Handler("open", c) /\ UNCHANGED left

Fail(c) == Move(c, "handshake", "ending") /\ UNCHANGED <<handler, left>>

(* The client closes the connection, or loses it.                          *)
Go(c) ==
  /\ Move(c, "open", "ending")
  /\ left' = left \cup {c}
  /\ UNCHANGED handler

(* It answers the daemon's close frame, or the timer expires.              *)
Close(c) == Move(c, "closing", "ending") /\ UNCHANGED <<handler, left>>

(* The socket is shut down; the last handler is due.                       *)
Terminated(c) == Move(c, "ending", "gone") /\ handler' = Handler("close", c) /\ UNCHANGED left

(* websocket_on_open, and websocket_on_close and websocket_on_fail, when   *)
(* they have mutex_clients.                                                *)
OnOpen ==
  /\ ~Ended
  /\ handler.kind = "open" /\ ~mutex
  /\ clients' = clients \cup {handler.of} /\ handler' = NoHandler
  /\ UNCHANGED <<main, server, accept, conn, workers, history, process, notify>>

OnClose_Forgets ==
  /\ ~Ended
  /\ handler.kind = "close" /\ ~mutex
  /\ handler' = NoHandler
  /\ UNCHANGED <<clients, main, server, accept, conn, workers, history, process, notify>>

OnClose ==
  /\ ~Ended
  /\ handler.kind = "close" /\ ~mutex
  /\ clients' = clients \ {handler.of} /\ handler' = NoHandler
  /\ UNCHANGED <<main, server, accept, conn, workers, history, process, notify>>

(* run() returns when nothing is left to wait for; cleanup begins.         *)
RunReturns ==
  /\ Handle
  /\ accept = "none" /\ \A c \in Clients : conn[c] \in {"new", "gone"}
  /\ main' = "join_scan" /\ running' = FALSE
  /\ UNCHANGED <<serving, workers, history, pid_file, notify>>
-----------------------------------------------------------------------------
(* cleanup.                                                                *)
Join(from, to) ==
  /\ main = from
  /\ main' = to
  /\ UNCHANGED <<serving, workers, history, process, notify>>

JoinScan == Join("join_scan", "join_update") /\ scan = "done"

JoinUpdate == Join("join_update", "join_notify") /\ update = "done"

JoinNotify == Join("join_notify", "disconnect") /\ (Discover => npc = "done")

(* The docks are disconnected, and the pid file goes.                      *)
RemovePidFile ==
  /\ main = "disconnect"
  /\ main' = "exited"
  /\ pid_file' = IF Daemonize THEN "none" ELSE pid_file
  /\ UNCHANGED <<serving, workers, history, running, notify>>
-----------------------------------------------------------------------------
(* send_to_clients, called by the update thread when a dock has something  *)
(* to say: stopped() uses the io_service, which setup_server creates, and  *)
(* is true after run().                                                    *)
Send ==
  /\ ~Ended /\ ~Starting
  /\ update = "idle"
  /\ CASE server = "uninit" -> main' = "aborted" /\ UNCHANGED <<mutex, update>>
       [] main \in {"listen", "start_accept", "run"} ->
            ~mutex /\ mutex' = TRUE /\ update' = "sending" /\ UNCHANGED main
       [] OTHER -> FALSE
  /\ UNCHANGED <<serving, scan, history, process, notify>>

(* It has sent to every client of the map, whatever send throws.           *)
Sent ==
  /\ ~Ended
  /\ update = "sending"
  /\ mutex' = FALSE /\ update' = "idle"
  /\ UNCHANGED <<main, serving, scan, history, process, notify>>

UpdateEnds ==
  /\ ~Ended
  /\ update = "idle" /\ ~running
  /\ update' = "done"
  /\ UNCHANGED <<main, serving, mutex, scan, history, process, notify>>

ScanEnds ==
  /\ ~Ended
  /\ scan = "idle" /\ ~running
  /\ scan' = "done"
  /\ UNCHANGED <<main, serving, mutex, update, history, process, notify>>

Notify ==
  /\ ~Ended /\ ~Starting
  /\ NotifyStep
  /\ UNCHANGED <<main, pid_file, serving, workers, history>>

Terminating == Ended /\ UNCHANGED vars

Main ==
  \/ Options \/ TryPidFile \/ ReopenPidFile \/ Fork \/ Redirect \/ WritePid \/ StartWorkers
  \/ InitAsio \/ Listen \/ StartAccept
  \/ HandleAccept \/ OnOpen \/ OnClose \/ RunReturns
  \/ JoinScan \/ JoinUpdate \/ JoinNotify \/ RemovePidFile

Next ==
  \/ Main \/ Killed \/ Signal
  \/ \E c \in Clients : \/ Quit(c) \/ Connect(c) \/ Open(c) \/ Fail(c) \/ Go(c)
                        \/ Close(c) \/ Terminated(c)
  \/ Send \/ Sent \/ UpdateEnds \/ ScanEnds
  \/ Notify
  \/ Terminating

(* Threads run, timers expire and resolve() returns.  Clients and the      *)
(* registry owe nothing.  The mutex is polled, so its waiter needs the     *)
(* strong form.                                                            *)
Working(A) == ~Ended /\ ~Starting /\ A /\ UNCHANGED <<main, pid_file, serving, workers, history>>

Fairness ==
  /\ WF_vars(Main) /\ SF_vars(OnOpen \/ OnClose)
  /\ \A c \in Clients : WF_vars(Fail(c)) /\ WF_vars(Close(c)) /\ WF_vars(Terminated(c))
  /\ WF_vars(Sent) /\ WF_vars(UpdateEnds) /\ WF_vars(ScanEnds)
  /\ WF_vars(Working(Tick \/ NotifyEnds \/ NextAddress \/ Resolve))
  /\ WF_vars(Working(Return)) /\ WF_vars(Working(Elapse)) /\ WF_vars(Working(CheckDeadline))

Spec == Init /\ [][Next]_vars /\ Fairness
-----------------------------------------------------------------------------
(* The types of the variables.                                             *)
TypeOK ==
  /\ Ended \/ Starting
       \/ main \in {"init_asio", "listen", "start_accept", "run", "join_scan", "join_update",
                    "join_notify", "disconnect"}
  /\ pid_file \in {"none", "other", "parent", "empty", "own"}
  /\ server \in {"uninit", "ready", "listening"}
  /\ accept \in {"none", "waiting", "canceled"} \cup Clients
  /\ conn \in [Clients -> {"new", "handshake", "open", "closing", "ending", "gone"}]
  /\ clients \subseteq Clients
  /\ handler \in {NoHandler} \cup {Handler(k, c) : k \in {"open", "close"}, c \in Clients}
  /\ mutex \in BOOLEAN /\ running \in BOOLEAN
  /\ update \in {"idle", "sending", "done"} /\ scan \in {"idle", "done"}
  /\ mutex = (update = "sending")
  /\ stops \in 0 .. MaxStops /\ left \subseteq Clients
  /\ NotifyType

(* The map has exactly the connections that were opened and not yet taken  *)
(* leave of, but for the one whose handler waits for mutex_clients: no     *)
(* client is told anything after its end, none misses what is sent.        *)
Registered ==
  /\ \A c \in Clients : conn[c] \in {"open", "closing"} =>
                          c \in clients \/ handler = Handler("open", c)
  /\ \A c \in clients : \/ conn[c] \in {"open", "closing", "ending"}
                        \/ handler = Handler("close", c)
  /\ main \in {"join_scan", "join_update", "join_notify", "disconnect", "exited"} => clients = {}

(* A client that was connected when the server was told to stop never      *)
(* keeps run() from returning, only one whose handshake was then under     *)
(* way: it opens afterwards, and nobody tells it to go.                    *)
Stops ==
  main = "run" /\ server = "ready" ~> main # "run" \/ \E c \in Clients : conn[c] = "open"

(* Once the last connection is gone, the daemon ends, whatever its workers *)
(* are doing, since every operation of a registration has a deadline; but  *)
(* cleanup() waits for ever for a registry that never stops sending lines  *)
(* (Discovery.cpp:336-348).                                                *)
ReadsForEver == []<><<npc = "line" /\ op = "pending" /\ op' = "done">>_vars

CleansUp == (main = "join_scan" ~> Ended) \/ ReadsForEver

(* When the docks are disconnected no worker is left to use them.          *)
QuietExit == main \in {"disconnect", "exited"} => update = "done" /\ scan = "done" /\ npc = "done"

(* As long as it serves, whoever sends the daemon a signal finds its pid   *)
(* in the file, not that of a parent that is gone, and no file is left by  *)
(* a daemon that has ended without an error.                               *)
PidFileTrue ==
  Daemonize => /\ ~Starting /\ ~Ended => pid_file = "own"
               /\ main = "exited" => pid_file = "none"

(* The first request to stop a listening server throws only between the    *)
(* end of a client that left of its own accord and the handler that takes  *)
(* it off the map: whoever is long gone is no obstacle.                    *)
FirstStopIsClean ==
  main = "aborted" /\ stops = 1 /\ server = "listening" =>
    \E c \in clients : c \in left /\ (conn[c] = "ending" \/ handler = Handler("close", c))
=============================================================================
