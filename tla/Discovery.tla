------------------------------ MODULE Discovery ------------------------------
(***************************************************************************)
(* worker_ip_notify and the HTTP client with which it registers the        *)
(* daemon's addresses.  Every operation of tcp_client starts an            *)
(* asynchronous one with a deadline and calls run_one() until its handler  *)
(* has run; check_deadline, which closes the socket, is a handler of the   *)
(* same io_service, so it runs only while an operation is waited for, and  *)
(* perhaps late: after the operation it was meant for, in the next one.    *)
(* The network and the registry are external: they may answer at any time, *)
(* or never, and the lines of an answer need not end.                      *)
(*                                                                         *)
(* Time passes in ticks; an operation is given Timeout of them.            *)
(***************************************************************************)
EXTENDS Naturals, Sequences

CONSTANTS
  NotifyInterval,   (* NOTIFY_INTERVAL, 3600 seconds                       *)
  RequestLines,     (* lines of the request, 5                             *)
  Timeout,          (* the 10 seconds of an operation, in ticks            *)
  MaxAddresses,     (* bound: how many addresses the computer has          *)
  MaxLines          (* bound: how many lines one read brings               *)

ASSUME DiscoveryAssumption ==
  /\ NotifyInterval \in Nat /\ RequestLines \in Nat \ {0} /\ Timeout \in Nat \ {0}
  /\ MaxAddresses \in Nat /\ MaxLines \in Nat

VARIABLES
  running,          (* the flag all workers look at                        *)
  seconds,
  npc,              (* where worker_ip_notify is, and http_notify_ipv4     *)
  addresses,        (* that discover_ipv4 has still to register            *)
  sent,             (* lines of the request written                        *)
  input_buffer,     (* lines of the answer that have come but are not read *)
  op,               (* the operation: "none", "pending"; "done" or         *)
                    (* "failed" when its handler is ready to run           *)
  socket,
  deadline,         (* ticks until deadline_ expires, or Infinite          *)
  actor,            (* check_deadline: "waiting" or "ready" to run         *)
  age               (* history: ticks since the operation began            *)

client == <<sent, input_buffer, op, socket, deadline, actor, age>>
notify == <<seconds, npc, addresses, client>>

Infinite == Timeout + 1

(* What a line of the answer starts with, as far as it matters.            *)
Lines == {"HTTP/", "ok", "other"}

NotifyInit(start) ==
  /\ seconds = 0 /\ npc = start /\ addresses = 0
  /\ sent = 0 /\ input_buffer = <<>> /\ op = "none"
  /\ socket = "closed" /\ deadline = Infinite /\ actor = "waiting" /\ age = 0

(* The period: the counter goes from 0 to NotifyInterval + 1.              *)
Tick ==
  /\ npc = "idle" /\ running
  /\ LET s == IF seconds > NotifyInterval THEN 0 ELSE seconds
     IN IF s = 0
          THEN \E n \in 0 .. MaxAddresses : npc' = "address" /\ addresses' = n /\ seconds' = 0
          ELSE seconds' = s + 1 /\ UNCHANGED <<npc, addresses>>
  /\ UNCHANGED <<running, client>>

NotifyEnds ==
  /\ npc = "idle" /\ ~running
  /\ npc' = "done"
  /\ UNCHANGED <<running, seconds, addresses, client>>

(* http_notify_ipv4 of the next address, with a new tcp_client ...         *)
NextAddress ==
  /\ npc = "address"
  /\ IF addresses = 0
       THEN npc' = "idle" /\ seconds' = 1 /\ UNCHANGED <<addresses, client>>
       ELSE /\ npc' = "resolve"
            /\ addresses' = addresses - 1
            /\ UNCHANGED <<seconds, client>>
  /\ UNCHANGED running

(* ... which is gone when it is done, or has caught an exception.          *)
Leave ==
  /\ npc' = "address"
  /\ sent' = 0 /\ input_buffer' = <<>> /\ op' = "none"
  /\ socket' = "closed" /\ deadline' = Infinite /\ actor' = "waiting" /\ age' = 0

Outcome(where, buffer) ==
  IF where \in {"status", "line"} /\ buffer # <<>> THEN "done"
  ELSE IF where # "connect" /\ socket = "closed" THEN "failed"
  ELSE "pending"

(* connect, write_line and read_line begin: expires_from_now, which calls  *)
(* off the wait for the last deadline, so that check_deadline is due, and  *)
(* an asynchronous operation, which a line in the buffer answers at once.  *)
BeginUntil(where, buffer, ticks) ==
  /\ npc' = where
  /\ deadline' = ticks /\ actor' = "ready" /\ age' = 0
  /\ input_buffer' = buffer
  /\ op' = Outcome(where, buffer)
  /\ socket' = IF where = "connect" THEN "open" ELSE socket

Begin_Undated(where, buffer) == BeginUntil(where, buffer, deadline)

Begin_First(where, buffer) ==
  BeginUntil(where, buffer, IF where = "connect" THEN Timeout ELSE deadline)

Begin(where, buffer) == BeginUntil(where, buffer, Timeout)

(* resolve() has no deadline.                                              *)
Resolve ==
  /\ npc = "resolve"
  /\ \/ Begin("connect", <<>>) /\ UNCHANGED sent
     \/ Leave
  /\ UNCHANGED <<running, seconds, addresses>>

(* The network ends an operation; a read may bring several lines.          *)
Complete ==
  /\ op = "pending"
  /\ \/ op' = "failed" /\ UNCHANGED input_buffer
     \/ /\ npc \in {"connect", "write"}
        /\ op' = "done" /\ UNCHANGED input_buffer
     \/ /\ npc \in {"status", "line"}
        /\ op' = "done"
        /\ \E n \in 1 .. MaxLines : \E read \in [1 .. n -> Lines] : input_buffer' = input_buffer \o read
  /\ UNCHANGED <<running, seconds, npc, addresses, sent, socket, deadline, actor, age>>

(* The operation's handler has run; http_notify_ipv4 goes on.              *)
Fails == op = "failed" \/ (npc = "connect" /\ socket = "closed")

Return ==
  /\ op \in {"done", "failed"}
  /\ CASE Fails -> Leave
       [] ~Fails /\ npc = "connect" -> Begin("write", <<>>) /\ UNCHANGED sent
       [] ~Fails /\ npc = "write" ->
            /\ sent' = sent + 1
            /\ Begin(IF sent' < RequestLines THEN "write" ELSE "status", input_buffer)
       [] ~Fails /\ npc = "status" /\ Head(input_buffer) # "HTTP/" -> Leave
       [] ~Fails /\ npc = "line" /\ Head(input_buffer) = "ok" -> Leave
       [] OTHER -> Begin("line", Tail(input_buffer)) /\ UNCHANGED sent
  /\ UNCHANGED <<running, seconds, addresses>>

(* Time passes; check_deadline is due when the deadline has passed ...     *)
Elapse ==
  /\ op # "none" /\ deadline \in 1 .. Timeout
  /\ deadline' = deadline - 1 /\ age' = age + 1
  /\ actor' = IF deadline' = 0 THEN "ready" ELSE actor
  /\ UNCHANGED <<running, seconds, npc, addresses, sent, input_buffer, op, socket>>

(* ... but the deadline may have been moved since.                         *)
CheckDeadline ==
  /\ actor = "ready" /\ op # "none"
  /\ actor' = "waiting"
  /\ IF deadline = 0
       THEN /\ socket' = "closed" /\ deadline' = Infinite
            /\ op' = IF op = "pending" THEN "failed" ELSE op
       ELSE UNCHANGED <<socket, deadline, op>>
  /\ UNCHANGED <<running, seconds, npc, addresses, sent, input_buffer, age>>

NotifyStep ==
  \/ Tick \/ NotifyEnds \/ NextAddress
  \/ Resolve \/ Complete \/ Return \/ Elapse \/ CheckDeadline

NotifyType ==
  /\ seconds \in 0 .. NotifyInterval + 1
  /\ npc \in {"idle", "address", "resolve", "connect", "write", "status", "line", "done"}
  /\ addresses \in 0 .. MaxAddresses /\ sent \in 0 .. RequestLines
  /\ op \in {"none", "pending", "done", "failed"}
  /\ socket \in {"open", "closed"}
  /\ deadline \in 0 .. Infinite /\ age \in 0 .. Timeout /\ actor \in {"waiting", "ready"}
  /\ op # "none" <=> npc \in {"connect", "write", "status", "line"}

(* check_deadline cuts an operation off when the operation has had all of  *)
(* its time, not when one before it has: although the actor runs late, and *)
(* after every expires_from_now (Discovery.cpp:275-295).                   *)
OwnDeadline ==
  [][socket = "open" /\ socket' = "closed" /\ npc' = npc => age = Timeout]_notify
=============================================================================
