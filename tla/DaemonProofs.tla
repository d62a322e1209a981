---------------------------- MODULE DaemonProofs ----------------------------
(***************************************************************************)
(* Proofs about Daemon and Discovery, for any number of clients, requests  *)
(* to stop, addresses and lines.                                           *)
(***************************************************************************)
EXTENDS Daemon, TLAPS

USE DEF vars, serving, workers, history, process, notify, client
-----------------------------------------------------------------------------
(* Discovery on its own.                                                   *)

(* The request is written line by line, once per connection.               *)
Writing ==
  /\ npc = "write" => sent < RequestLines
  /\ npc \in {"idle", "address", "resolve", "connect", "done"} => sent = 0

(* The deadline and the age of an operation: the deadline that runs is the *)
(* one the operation set when it began, and when check_deadline has closed *)
(* the socket the operation has had its time.                              *)
Aging == deadline # Infinite => deadline + age = Timeout

NotifyInv == NotifyType /\ Writing /\ Aging

LEMMA Period ==
  ASSUME NEW s \in 0 .. NotifyInterval + 1
  PROVE  /\ 0 \in 0 .. NotifyInterval + 1 /\ 1 \in 0 .. NotifyInterval + 1
         /\ ~(s > NotifyInterval) => s + 1 \in 0 .. NotifyInterval + 1
  BY DiscoveryAssumption

LEMMA Counting ==
  /\ 0 \in 0 .. RequestLines /\ 0 < RequestLines
  /\ \A n \in 0 .. RequestLines : n < RequestLines => n + 1 \in 0 .. RequestLines
  /\ \A n \in 0 .. MaxAddresses : n # 0 => n - 1 \in 0 .. MaxAddresses
  /\ 0 \in 0 .. MaxAddresses
  BY DiscoveryAssumption

LEMMA Ticks ==
  /\ Timeout \in 0 .. Infinite /\ Infinite \in 0 .. Infinite /\ Timeout # Infinite
  /\ 0 \in 0 .. Timeout /\ Timeout + 0 = Timeout
  BY DiscoveryAssumption DEF Infinite

LEMMA NotifyStepInv ==
  ASSUME NotifyInv, NotifyStep
  PROVE  NotifyInv'
<1> USE DEF NotifyInv, NotifyType, Writing, Aging
<1>1. ASSUME Tick
      PROVE  NotifyInv'
  <2>1. CASE seconds > NotifyInterval \/ seconds = 0
    BY <1>1, <2>1, Period, Counting DEF Tick
  <2>2. CASE ~(seconds > NotifyInterval) /\ seconds # 0
    <3>1. seconds' = seconds + 1 /\ npc' = npc /\ addresses' = addresses
      BY <1>1, <2>2 DEF Tick
    <3> QED
      BY <1>1, <2>2, <3>1, Period DEF Tick
  <2> QED
    BY <2>1, <2>2
<1>2. ASSUME NotifyEnds
      PROVE  NotifyInv'
  BY <1>2 DEF NotifyEnds
<1>3. ASSUME NextAddress
      PROVE  NotifyInv'
  BY <1>3, Period, Counting DEF NextAddress, client
<1>4. ASSUME Resolve
      PROVE  NotifyInv'
  BY <1>4, Counting, Ticks DEF Resolve, Begin, BeginUntil, Leave, Outcome
<1>5. ASSUME Complete
      PROVE  NotifyInv'
  BY <1>5 DEF Complete
<1>6. ASSUME Return
      PROVE  NotifyInv'
  <2>1. CASE Leave
    BY <1>6, <2>1, Counting, Ticks DEF Return, Leave
  <2>2. CASE ~Leave /\ npc = "write"
    BY <1>6, <2>2, Counting, Ticks DEF Return, Begin, BeginUntil, Outcome, Fails
  <2>3. CASE ~Leave /\ npc # "write"
    BY <1>6, <2>3, Counting, Ticks DEF Return, Begin, BeginUntil, Outcome, Fails
  <2> QED
    BY <2>1, <2>2, <2>3
<1>7. ASSUME Elapse
      PROVE  NotifyInv'
  <2>1. /\ deadline - 1 \in 0 .. Timeout /\ deadline # Infinite
        /\ (deadline - 1) + (age + 1) = Timeout /\ age + 1 \in 0 .. Timeout
    BY <1>7, DiscoveryAssumption DEF Elapse, Infinite
  <2>2. deadline - 1 \in 0 .. Infinite
    BY <2>1, DiscoveryAssumption DEF Infinite
  <2> QED
    BY <1>7, <2>1, <2>2 DEF Elapse
<1>8. ASSUME CheckDeadline
      PROVE  NotifyInv'
  BY <1>8, Ticks DEF CheckDeadline
<1> QED
  BY <1>1, <1>2, <1>3, <1>4, <1>5, <1>6, <1>7, <1>8 DEF NotifyStep

(* An operation is cut off when it has had all of its time.                *)
LEMMA DeadlineStep ==
  ASSUME NotifyInv, NotifyStep
  PROVE  socket = "open" /\ socket' = "closed" /\ npc' = npc => age = Timeout
<1> SUFFICES ASSUME socket = "open", socket' = "closed", npc' = npc
             PROVE  age = Timeout
  OBVIOUS
<1> USE DEF NotifyInv, NotifyType
<1>1. ~Tick /\ ~NotifyEnds /\ ~NextAddress /\ ~Complete /\ ~Elapse
  BY DEF Tick, NotifyEnds, NextAddress, Complete, Elapse, client
<1>2. ~Resolve
  BY DEF Resolve, Begin, BeginUntil, Leave
<1>3. ~Return
  BY DEF Return, Begin, BeginUntil, Leave
<1>4. CASE CheckDeadline
  <2>1. deadline = 0
    BY <1>4 DEF CheckDeadline
  <2> QED
    BY <2>1, DiscoveryAssumption DEF Aging, Infinite
<1> QED
  BY <1>1, <1>2, <1>3, <1>4 DEF NotifyStep
-----------------------------------------------------------------------------
(* The inductive invariant.  First, the map and the handler that waits:    *)
(* what is known of the connections while mutex_clients is waited for.     *)
Ending == {"join_scan", "join_update", "join_notify", "disconnect", "exited"}

MapInv ==
  /\ \A c \in Clients : conn[c] \in {"open", "closing"} =>
                          c \in clients \/ handler = Handler("open", c)
  /\ \A c \in clients : \/ conn[c] \in {"open", "closing", "ending"}
                        \/ handler = Handler("close", c)
  /\ handler.kind = "open" => conn[handler.of] = "open" /\ handler.of \notin clients
  /\ handler.kind = "close" => conn[handler.of] = "gone"
  /\ accept \in Clients => conn[accept] = "new"
  /\ main \in Ending => /\ clients = {} /\ handler = NoHandler /\ accept = "none"
                        /\ \A c \in Clients : conn[c] \in {"new", "gone"}

(* Until the first request to stop every client in the map is open, is     *)
(* ending or waits to be taken off; from then on the server does not       *)
(* listen.                                                                 *)
StopInv ==
  /\ stops = 0 => /\ \A c \in Clients : conn[c] # "closing"
                  /\ \A c \in clients : conn[c] = "open" \/ c \in left
  /\ stops > 0 /\ main # "aborted" => server = "ready"
  /\ Starting \/ main = "init_asio" => server = "uninit" /\ stops = 0
  /\ main = "listen" => server = "ready" /\ stops = 0
  /\ FirstStopIsClean

(* What cleanup has waited for stays ended.                                *)
JoinInv ==
  /\ main \in {"join_update", "join_notify", "disconnect", "exited"} => scan = "done"
  /\ main \in {"join_notify", "disconnect", "exited"} => update = "done"
  /\ main \in {"disconnect", "exited"} \/ ~Discover => npc = "done"

(* The pid in the file, from the moment it is written to its removal.      *)
PidInv ==
  /\ pid_file \in {"none", "other", "parent", "empty", "own"}
  /\ Daemonize /\ main = "workers" => pid_file = "own"
  /\ PidFileTrue

LEMMA HandlerFacts ==
  /\ NoHandler.kind = "none"
  /\ \A k \in {"open", "close"}, c \in Clients :
       Handler(k, c).kind = k /\ Handler(k, c).of = c /\ Handler(k, c) # NoHandler
  /\ \A h \in {NoHandler} \cup {Handler(k, c) : k \in {"open", "close"}, c \in Clients} :
       \/ h = NoHandler
       \/ h.kind \in {"open", "close"} /\ h.of \in Clients /\ h = Handler(h.kind, h.of)
  BY DEF NoHandler, Handler

LEMMA StopCount ==
  ASSUME NEW n \in 0 .. MaxStops, n < MaxStops
  PROVE  n + 1 \in 0 .. MaxStops /\ n + 1 > 0 /\ (n + 1 = 1 => n = 0)
  BY DaemonAssumption
-----------------------------------------------------------------------------
(* Types.                                                                  *)
ServingType ==
  /\ main \in {"options", "pid_file", "reopen", "fork", "fork_again", "redirect", "write_pid",
               "workers", "init_asio", "listen", "start_accept", "run", "join_scan",
               "join_update", "join_notify", "disconnect", "failed", "exited", "aborted"}
  /\ server \in {"uninit", "ready", "listening"}
  /\ accept \in {"none", "waiting", "canceled"} \cup Clients
  /\ conn \in [Clients -> {"new", "handshake", "open", "closing", "ending", "gone"}]
  /\ clients \subseteq Clients
  /\ handler \in {NoHandler} \cup {Handler(k, c) : k \in {"open", "close"}, c \in Clients}
  /\ stops \in 0 .. MaxStops /\ left \subseteq Clients

WorkersType ==
  /\ mutex \in BOOLEAN /\ running \in BOOLEAN
  /\ update \in {"idle", "sending", "done"} /\ scan \in {"idle", "done"}
  /\ mutex = (update = "sending")

LEMMA TypeGroups ==
  ASSUME ServingType, WorkersType, NotifyType, PidInv
  PROVE  TypeOK
  BY DEF TypeOK, ServingType, WorkersType, PidInv, Ended, Starting

(* The steps by which the process becomes a daemon.                        *)
Launching ==
  Options \/ TryPidFile \/ ReopenPidFile \/ Fork \/ Redirect \/ WritePid \/ StartWorkers \/ Killed

LEMMA LaunchingStep ==
  ASSUME Launching
  PROVE  /\ UNCHANGED <<serving, workers, left, running, notify>>
         /\ Starting /\ (Starting' \/ main' \in {"init_asio", "failed", "aborted"})
         /\ main' # "aborted" => stops' = stops
         /\ main' = "aborted" => stops < MaxStops /\ stops' = stops + 1
  BY DEF Launching, Options, TryPidFile, ReopenPidFile, Fork, Redirect, WritePid, StartWorkers,
         Killed, Launch, Starting

Worker == Send \/ Sent \/ UpdateEnds \/ ScanEnds \/ Notify

(* A step that serves leaves the workers alone.                            *)
ClientStep(c) ==
  Quit(c) \/ Connect(c) \/ Open(c) \/ Fail(c) \/ Go(c) \/ Close(c) \/ Terminated(c)

Serving ==
  \/ InitAsio \/ Listen \/ StartAccept
  \/ HandleAccept \/ OnOpen \/ OnClose \/ RunReturns
  \/ JoinScan \/ JoinUpdate \/ JoinNotify \/ RemovePidFile

LEMMA NextCases ==
  ASSUME Next
  PROVE  \/ Launching \/ Serving \/ Signal \/ (\E c \in Clients : ClientStep(c)) \/ Worker
         \/ UNCHANGED vars
  BY DEF Next, Main, Launching, Serving, ClientStep, Worker, Terminating

LEMMA ServingTypeStep ==
  ASSUME ServingType, Next
  PROVE  ServingType'
<1> USE DEF ServingType
<1>0. ASSUME Launching
      PROVE  ServingType'
  BY <1>0, LaunchingStep, StopCount DEF Starting
<1>1. ASSUME Serving
      PROVE  ServingType'
  <2> USE HandlerFacts
  <2>1. CASE InitAsio \/ Listen \/ StartAccept \/ RunReturns \/ JoinScan \/ JoinUpdate \/ JoinNotify \/ RemovePidFile
    BY <2>1 DEF InitAsio, Listen, StartAccept, RunReturns, JoinScan, JoinUpdate, JoinNotify, Join,
               RemovePidFile
  <2>2. CASE HandleAccept
    BY <2>2 DEF HandleAccept
  <2>3. CASE OnOpen
    BY <2>3 DEF OnOpen
  <2>4. CASE OnClose
    BY <2>4 DEF OnClose
  <2> QED
    BY <1>1, <2>1, <2>2, <2>3, <2>4 DEF Serving
<1>2. ASSUME StopServer
      PROVE  ServingType'
  BY <1>2, StopCount DEF StopServer
<1>3. ASSUME NEW c \in Clients, Connect(c) \/ Open(c) \/ Fail(c) \/ Go(c) \/ Close(c) \/ Terminated(c)
      PROVE  ServingType'
  BY <1>3 DEF Connect, Open, Fail, Go, Close, Terminated, Move
<1>4. ASSUME Worker
      PROVE  ServingType'
  BY <1>4 DEF Worker, Send, Sent, UpdateEnds, ScanEnds, Notify
<1> QED
  BY <1>0, <1>1, <1>2, <1>3, <1>4, NextCases DEF ClientStep, Signal, Quit

LEMMA WorkersTypeStep ==
  ASSUME WorkersType, Next
  PROVE  WorkersType'
<1> USE DEF WorkersType
<1>0. ASSUME Launching
      PROVE  WorkersType'
  BY <1>0, LaunchingStep
<1>1. ASSUME Serving
      PROVE  WorkersType'
  BY <1>1 DEF Serving, InitAsio, Listen, StartAccept, RunReturns, JoinScan, JoinUpdate, JoinNotify,
              RemovePidFile, Join, HandleAccept, OnOpen, OnClose
<1>2. ASSUME StopServer
      PROVE  WorkersType'
  BY <1>2 DEF StopServer
<1>3. ASSUME NEW c \in Clients, Connect(c) \/ Open(c) \/ Fail(c) \/ Go(c) \/ Close(c) \/ Terminated(c)
      PROVE  WorkersType'
  BY <1>3 DEF Connect, Open, Fail, Go, Close, Terminated, Move
<1>4. ASSUME Worker
      PROVE  WorkersType'
  BY <1>4 DEF Worker, Send, Sent, UpdateEnds, ScanEnds, Notify, NotifyStep, Tick, NotifyEnds,
              NextAddress, Resolve, Complete, Return, Elapse, CheckDeadline
<1> QED
  BY <1>0, <1>1, <1>2, <1>3, <1>4, NextCases DEF ClientStep, Signal, Quit

(* Every step is one of the HTTP client or leaves it alone.                *)
LEMMA NotifyOrNot ==
  ASSUME Next
  PROVE  NotifyStep \/ UNCHANGED notify
<1>0. ASSUME Launching
      PROVE  UNCHANGED notify
  BY <1>0, LaunchingStep
<1>1. ASSUME Serving
      PROVE  UNCHANGED notify
  BY <1>1 DEF Serving, InitAsio, Listen, StartAccept, RunReturns, JoinScan, JoinUpdate, JoinNotify,
              RemovePidFile, Join, HandleAccept, OnOpen, OnClose
<1>2. ASSUME StopServer
      PROVE  UNCHANGED notify
  BY <1>2 DEF StopServer
<1>3. ASSUME NEW c \in Clients, Connect(c) \/ Open(c) \/ Fail(c) \/ Go(c) \/ Close(c) \/ Terminated(c)
      PROVE  UNCHANGED notify
  BY <1>3 DEF Connect, Open, Fail, Go, Close, Terminated, Move
<1>4. ASSUME Worker
      PROVE  NotifyStep \/ UNCHANGED notify
  BY <1>4 DEF Worker, Send, Sent, UpdateEnds, ScanEnds, Notify
<1> QED
  BY <1>0, <1>1, <1>2, <1>3, <1>4, NextCases DEF ClientStep, Signal, Quit
-----------------------------------------------------------------------------
(* The map.                                                                *)
LEMMA MapStep ==
  ASSUME ServingType, MapInv, Next
  PROVE  MapInv'
<1> USE HandlerFacts DEF ServingType, MapInv, Ending
<1>0. ASSUME Launching
      PROVE  MapInv'
  BY <1>0, LaunchingStep DEF Starting
<1>1. ASSUME InitAsio \/ Listen \/ StartAccept
      PROVE  MapInv'
  BY <1>1, DaemonAssumption DEF InitAsio, Listen, StartAccept
<1>2. ASSUME HandleAccept
      PROVE  MapInv'
  BY <1>2, DaemonAssumption DEF HandleAccept, Handle
<1>3. ASSUME OnOpen
      PROVE  MapInv'
  BY <1>3 DEF OnOpen
<1>4. ASSUME OnClose
      PROVE  MapInv'
  BY <1>4 DEF OnClose
<1>5. ASSUME RunReturns
      PROVE  MapInv'
  BY <1>5 DEF RunReturns, Handle
<1>6. ASSUME JoinScan \/ JoinUpdate \/ JoinNotify \/ RemovePidFile
      PROVE  MapInv'
  BY <1>6 DEF JoinScan, JoinUpdate, JoinNotify, RemovePidFile, Join
<1>7. ASSUME StopServer
      PROVE  MapInv'
  BY <1>7, DaemonAssumption DEF StopServer
<1>8. ASSUME NEW c \in Clients, Connect(c)
      PROVE  MapInv'
  BY <1>8, DaemonAssumption DEF Connect
<1>9. ASSUME NEW c \in Clients, Open(c)
      PROVE  MapInv'
  BY <1>9 DEF Open, Move, Handle
<1>10. ASSUME NEW c \in Clients, Fail(c) \/ Go(c) \/ Close(c)
       PROVE  MapInv'
  BY <1>10 DEF Fail, Go, Close, Move, Handle
<1>11. ASSUME NEW c \in Clients, Terminated(c)
       PROVE  MapInv'
  BY <1>11 DEF Terminated, Move, Handle
<1>12. ASSUME Worker
       PROVE  MapInv'
  BY <1>12 DEF Worker, Send, Sent, UpdateEnds, ScanEnds, Notify
<1> QED
  BY <1>0, <1>1, <1>2, <1>3, <1>4, <1>5, <1>6, <1>7, <1>8, <1>9, <1>10, <1>11, <1>12, NextCases
     DEF Serving, ClientStep, Signal, Quit

(* The requests to stop.                                                   *)
LEMMA StopStep ==
  ASSUME ServingType, MapInv, StopInv, Next
  PROVE  StopInv'
<1> USE DEF ServingType, StopInv, FirstStopIsClean, Starting
<1>0. ASSUME Launching
      PROVE  StopInv'
  <2>1. /\ UNCHANGED <<serving, left>> /\ server = "uninit" /\ stops = 0
        /\ \/ Starting' /\ stops' = 0
           \/ main' \in {"init_asio", "failed"} /\ stops' = 0
           \/ main' = "aborted" /\ stops' = 1
    BY <1>0, LaunchingStep
  <2> QED
    BY <2>1
<1>1. ASSUME InitAsio \/ Listen \/ StartAccept
      PROVE  StopInv'
  BY <1>1 DEF InitAsio, Listen, StartAccept
<1>2. ASSUME HandleAccept
      PROVE  StopInv'
  BY <1>2 DEF HandleAccept, Handle, MapInv
<1>3. ASSUME OnOpen \/ OnClose
      PROVE  StopInv'
  BY <1>3, HandlerFacts DEF OnOpen, OnClose, Ended, MapInv
<1>4. ASSUME RunReturns \/ JoinScan \/ JoinUpdate \/ JoinNotify \/ RemovePidFile
      PROVE  StopInv'
  BY <1>4 DEF RunReturns, Handle, JoinScan, JoinUpdate, JoinNotify, RemovePidFile, Join
<1>5. ASSUME StopServer, ~Ended
      PROVE  StopInv'
  <2>1. CASE main' = "aborted" /\ server = "listening" /\ stops = 0
    <3>1. PICK c \in clients : conn[c] # "open"
      <4>1. main # "aborted"
        BY <1>5 DEF Ended
      <4>2. ~(\A c \in clients : conn[c] = "open")
        BY <1>5, <2>1, <4>1 DEF StopServer
      <4> QED
        BY <4>2
    <3>2. c \in left /\ (conn[c] = "ending" \/ handler = Handler("close", c))
      BY <2>1, <3>1 DEF MapInv
    <3>3. UNCHANGED <<clients, handler, server, conn, left>> /\ stops' = 1
      BY <1>5, <2>1, <3>1 DEF StopServer
    <3>4. FirstStopIsClean'
      BY <3>2, <3>3
    <3> QED
      BY ONLY <2>1, <3>3, <3>4 DEF StopInv, Starting
  <2>2. CASE ~(main' = "aborted" /\ server = "listening" /\ stops = 0)
    BY <1>5, <2>2, StopCount DEF StopServer, Ended
  <2> QED
    BY <2>1, <2>2
<1>6. ASSUME NEW c \in Clients, Connect(c)
      PROVE  StopInv'
  BY <1>6 DEF Connect
<1>7. ASSUME NEW c \in Clients, Open(c) \/ Fail(c)
      PROVE  StopInv'
  BY <1>7, HandlerFacts DEF Open, Fail, Move, Handle, MapInv
<1>8. ASSUME NEW c \in Clients, Go(c) \/ Close(c)
      PROVE  StopInv'
  BY <1>8 DEF Go, Close, Move, Handle
<1>9. ASSUME NEW c \in Clients, Terminated(c)
      PROVE  StopInv'
  BY <1>9 DEF Terminated, Move, Handle
<1>10. ASSUME Worker
       PROVE  StopInv'
  BY <1>10 DEF Worker, Send, Sent, UpdateEnds, ScanEnds, Notify, Ended
<1>11. ASSUME NEW c \in Clients, Quit(c)
       PROVE  StopServer /\ ~Ended
  BY <1>11 DEF Quit, Handle, Ended
<1> QED
  BY <1>0, <1>1, <1>2, <1>3, <1>4, <1>5, <1>6, <1>7, <1>8, <1>9, <1>10, <1>11, NextCases
     DEF Serving, ClientStep, Signal

(* The joins.                                                              *)
LEMMA JoinStep ==
  ASSUME WorkersType, NotifyType, JoinInv, Next
  PROVE  JoinInv'
<1> USE DEF JoinInv
<1>0. ASSUME Launching
      PROVE  JoinInv'
  BY <1>0, LaunchingStep DEF Starting
<1>1. ASSUME InitAsio \/ Listen \/ StartAccept \/ HandleAccept \/ OnOpen \/ OnClose \/ RunReturns
      PROVE  JoinInv'
  BY <1>1 DEF InitAsio, Listen, StartAccept, HandleAccept, Handle, OnOpen, OnClose, Ended, RunReturns
<1>2. ASSUME JoinScan \/ JoinUpdate \/ JoinNotify \/ RemovePidFile
      PROVE  JoinInv'
  BY <1>2, DaemonAssumption DEF JoinScan, JoinUpdate, JoinNotify, RemovePidFile, Join
<1>3. ASSUME StopServer
      PROVE  JoinInv'
  BY <1>3 DEF StopServer
<1>4. ASSUME NEW c \in Clients, Connect(c) \/ Open(c) \/ Fail(c) \/ Go(c) \/ Close(c) \/ Terminated(c)
      PROVE  JoinInv'
  BY <1>4 DEF Connect, Open, Fail, Go, Close, Terminated, Move
<1>5. ASSUME Send \/ Sent \/ UpdateEnds \/ ScanEnds
      PROVE  JoinInv'
  BY <1>5 DEF Send, Sent, UpdateEnds, ScanEnds, Ended
<1>6. ASSUME Notify
      PROVE  JoinInv'
  <2>1. npc # "done" /\ main # "exited"
    BY <1>6 DEF Notify, Ended, NotifyType, NotifyStep, Tick, NotifyEnds, NextAddress, Resolve,
                Complete, Return, Elapse, CheckDeadline
  <2> QED
    BY <1>6, <2>1 DEF Notify
<1> QED
  BY <1>0, <1>1, <1>2, <1>3, <1>4, <1>5, <1>6, NextCases DEF Serving, ClientStep, Worker, Signal, Quit

(* The pid file.                                                           *)
LEMMA PidStep ==
  ASSUME ServingType, PidInv, Next
  PROVE  PidInv'
<1> USE DEF PidInv, PidFileTrue
<1>0. ASSUME Launching
      PROVE  PidInv'
  BY <1>0, DaemonAssumption
     DEF Launching, Options, TryPidFile, ReopenPidFile, Fork, Redirect, WritePid, StartWorkers,
         Killed, Launch, Starting, Ended
<1>1. ASSUME Serving
      PROVE  PidInv'
  BY <1>1, DaemonAssumption
     DEF Serving, InitAsio, Listen, StartAccept, RunReturns, JoinScan, JoinUpdate, JoinNotify,
         RemovePidFile, Join, HandleAccept, Handle, OnOpen, OnClose, Starting, Ended
<1>2. ASSUME StopServer, ~Starting, ~Ended
      PROVE  PidInv'
  BY <1>2 DEF StopServer, Starting, Ended
<1>3. ASSUME NEW c \in Clients, Connect(c) \/ Open(c) \/ Fail(c) \/ Go(c) \/ Close(c) \/ Terminated(c)
      PROVE  PidInv'
  BY <1>3 DEF Connect, Open, Fail, Go, Close, Terminated, Move, Starting, Ended
<1>4. ASSUME Worker
      PROVE  PidInv'
  BY <1>4 DEF Worker, Send, Sent, UpdateEnds, ScanEnds, Notify, Starting, Ended
<1>5. ASSUME NEW c \in Clients, Quit(c)
      PROVE  StopServer /\ ~Starting /\ ~Ended
  BY <1>5 DEF Quit, Handle, Starting, Ended
<1>6. ASSUME UNCHANGED vars
      PROVE  PidInv'
  BY <1>6 DEF Starting, Ended
<1> QED
  BY <1>0, <1>1, <1>2, <1>3, <1>4, <1>5, <1>6, NextCases DEF ClientStep, Signal
-----------------------------------------------------------------------------
IInv == ServingType /\ WorkersType /\ NotifyInv /\ MapInv /\ StopInv /\ JoinInv /\ PidInv

LEMMA IInvInit ==
  ASSUME Init
  PROVE  IInv
<1> USE DEF Init, NotifyInit
<1>1. ServingType
  BY DaemonAssumption DEF ServingType, Starting
<1>2. WorkersType
  BY DEF WorkersType
<1>3. NotifyInv
  BY Counting, Period, Ticks, DiscoveryAssumption, DaemonAssumption
     DEF NotifyInv, NotifyType, Writing, Aging
<1>4. MapInv
  BY DaemonAssumption DEF MapInv, NoHandler, Ending
<1>5. StopInv
  BY DEF StopInv, FirstStopIsClean, Starting
<1>6. JoinInv
  BY DaemonAssumption DEF JoinInv
<1>7. PidInv
  BY DEF PidInv, PidFileTrue, Starting
<1> QED
  BY <1>1, <1>2, <1>3, <1>4, <1>5, <1>6, <1>7 DEF IInv

LEMMA IInvStep ==
  ASSUME IInv, [Next]_vars
  PROVE  IInv'
<1>1. CASE UNCHANGED vars
  BY <1>1 DEF IInv, ServingType, WorkersType, NotifyInv, NotifyType, Writing, Aging, MapInv, StopInv,
              FirstStopIsClean, JoinInv, PidInv, PidFileTrue, Starting, Ended
<1>2. CASE Next
  <2>1. NotifyInv'
    <3>1. CASE NotifyStep
      BY <3>1, NotifyStepInv DEF IInv
    <3>2. CASE UNCHANGED notify
      BY <3>2 DEF IInv, NotifyInv, NotifyType, Writing, Aging
    <3> QED
      BY <1>2, <3>1, <3>2, NotifyOrNot
  <2>2. ServingType' /\ WorkersType'
    BY <1>2, ServingTypeStep, WorkersTypeStep DEF IInv
  <2>3. MapInv' /\ StopInv'
    BY <1>2, MapStep, StopStep DEF IInv
  <2>4. JoinInv'
    BY <1>2, JoinStep DEF IInv, NotifyInv
  <2>5. PidInv'
    BY <1>2, PidStep DEF IInv
  <2> QED
    BY <2>1, <2>2, <2>3, <2>4, <2>5 DEF IInv
<1> QED
  BY <1>1, <1>2

LEMMA IInvAlways == Spec => []IInv
  BY IInvInit, IInvStep, PTL DEF Spec

(* Every variable has its type, and mutex_clients is held exactly while    *)
(* send_to_clients sends.                                                  *)
THEOREM TypeCorrect == Spec => []TypeOK
<1>1. IInv => TypeOK
  BY TypeGroups DEF IInv, NotifyInv
<1> QED
  BY <1>1, IInvAlways, PTL

(* The map of clients is that of the open connections, up to the handler   *)
(* that waits for mutex_clients, and empty when run() has returned.        *)
THEOREM ClientsRegistered == Spec => []Registered
<1>1. IInv => Registered
  BY DEF IInv, MapInv, Registered, Ending
<1> QED
  BY <1>1, IInvAlways, PTL

(* main() exits after all its workers: no thread uses the docks or a       *)
(* socket when they are destroyed.                                         *)
THEOREM ExitIsQuiet == Spec => []QuietExit
<1>1. IInv => QuietExit
  BY DEF IInv, JoinInv, QuietExit
<1> QED
  BY <1>1, IInvAlways, PTL

(* The pid file names the daemon while it serves and is removed when it    *)
(* exits.                                                                  *)
THEOREM PidFile == Spec => []PidFileTrue
<1>1. IInv => PidFileTrue
  BY DEF IInv, PidInv
<1> QED
  BY <1>1, IInvAlways, PTL

(* The first request to stop a listening server throws only while a client *)
(* that has left waits to be taken off the map (Flotilla.cpp:98-112).      *)
THEOREM FirstStop == Spec => []FirstStopIsClean
<1>1. IInv => FirstStopIsClean
  BY DEF IInv, StopInv
<1> QED
  BY <1>1, IInvAlways, PTL

(* check_deadline closes the socket of an operation only when the ticks    *)
(* since that operation began are all of its time.                         *)
THEOREM Deadlines == Spec => OwnDeadline
<1>1. ASSUME IInv, [Next]_vars
      PROVE  [socket = "open" /\ socket' = "closed" /\ npc' = npc => age = Timeout]_notify
  <2>1. CASE UNCHANGED vars
    BY <2>1
  <2>2. CASE Next
    <3>1. CASE NotifyStep
      BY <1>1, <3>1, DeadlineStep DEF IInv
    <3> QED
      BY <2>2, <3>1, NotifyOrNot
  <2> QED
    BY <1>1, <2>1, <2>2
<1> QED
  BY <1>1, IInvAlways, PTL DEF Spec, OwnDeadline
=============================================================================
