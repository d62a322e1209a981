----------------------------- MODULE Connection -----------------------------
(***************************************************************************)
(* One websocket connection of the daemon: websocketpp's connection with   *)
(* its asio transport, server role, and the two threads that use it:       *)
(*                                                                         *)
(*   apc    the asio thread, which runs the connection's handlers one at a *)
(*          time: completed reads and writes, timers, write_frame; from    *)
(*          them it calls the daemon's handlers;                           *)
(*   upc    worker_update_clients in send_to_clients.                      *)
(*                                                                         *)
(* A step of the asio thread is a handler, except that it may wait for     *)
(* mutex_clients in a handler of the daemon and that it goes through the   *)
(* frames of one read one by one.  send() is split where it gives up       *)
(* m_connection_state_lock and m_write_lock.  A timer that has expired     *)
(* ("due") can no longer be cancelled: its handler is in the asio queue.   *)
(***************************************************************************)
EXTENDS Naturals, Sequences, SequencesExt

CONSTANTS
  Scripts,   (* what clients may send: a request, if any, and then frames  *)
  MaxSends   (* bound: messages the update thread tries to send            *)

(* What a client may send: a request for a websocket or one that is        *)
(* refused; then "ready", "quit", a ping, a close frame with a good or a   *)
(* bad code, or something that is not a legal frame.                       *)
Requests == {"upgrade", "refused"}
Frames == {"ready", "quit", "ping", "close", "badclose", "illegal"}

(* What is sent: data (text and binary), pongs, and close frames, of which *)
(* "final" is one with the terminal flag.                                  *)
Messages == {"data", "pong"}
Closers == {"close", "final"}

(* Timers: of the open handshake, of the close handshake, and a close      *)
(* timer whose pointer another one has replaced.                           *)
Timers == {"open", "close", "lost"}

ASSUME ConnectionAssumption ==
  /\ MaxSends \in Nat
  /\ \A s \in Scripts :
       /\ s \in Seq(Requests \cup Frames)
       /\ \A i \in DOMAIN s :
            IF i = 1 THEN s[i] \in Requests ELSE s[1] = "upgrade" /\ s[i] \in Frames

VARIABLES
  m_state, m_internal_state, m_was_clean,
  m_handshake_timer,     (* the timer it points to, or "none"              *)
  armed,                 (* timers that run                                *)
  due,                   (* timers that have expired                       *)
  m_send_queue, m_write_flag, m_current_msgs,
  posted,                (* calls of write_frame in the asio queue         *)
  wire,                  (* history: frames given to async_write           *)
  m_read_handler,        (* what an outstanding read is for, "none" = none *)
  m_write_handler,       (* the same for a write                           *)
  m_buf,                 (* frames of the last read yet to be handled      *)
  peer,                  (* what the client will send, if it lives         *)
  gone,                  (* the client has closed its socket               *)
  apc,
  upc,
  sends,                 (* sends of the update thread so far              *)
  mutex_clients,         (* its owner                                      *)
  client,                (* the daemon's entry for it in `clients'         *)
  calls                  (* history: handlers of the daemon that were run  *)

state == <<m_state, m_internal_state, m_was_clean>>
timers == <<m_handshake_timer, armed, due>>
output == <<m_send_queue, m_write_flag, m_current_msgs, posted, wire>>
transport == <<m_read_handler, m_write_handler>>
input == <<m_buf, peer, gone>>
update == <<upc, sends, mutex_clients>>
daemon == <<client, calls>>
vars == <<state, timers, output, transport, input, apc, update, daemon>>

Init ==
  /\ m_state = "connecting" /\ m_internal_state = "USER_INIT" /\ m_was_clean = FALSE
  /\ m_handshake_timer = "none" /\ armed = {} /\ due = {}
  /\ m_send_queue = <<>> /\ m_write_flag = FALSE /\ m_current_msgs = <<>>
  /\ posted = 0 /\ wire = <<>>
  /\ m_read_handler = "none" /\ m_write_handler = "none"
  /\ m_buf = <<>> /\ peer \in Scripts /\ gone = FALSE
  /\ apc = "idle" /\ upc = "idle" /\ sends = 0 /\ mutex_clients = "free"
  /\ client = "none" /\ calls = <<>>
-----------------------------------------------------------------------------
(* The client.                                                             *)
PeerLeaves ==
  /\ ~gone
  /\ gone' = TRUE
  /\ UNCHANGED <<state, timers, output, transport, m_buf, peer, apc, update, daemon>>

(* A timer of the connection expires.                                      *)
Expire(t) ==
  /\ t \in armed
  /\ armed' = armed \ {t}
  /\ due' = due \cup {t}
  /\ UNCHANGED <<state, m_handshake_timer, output, transport, input, apc, update, daemon>>
-----------------------------------------------------------------------------
(* Parts of handlers.                                                      *)

(* The asio thread begins to handle a read or a write that was for h.      *)
ReadDone(h) ==
  /\ apc = "idle"
  /\ m_read_handler = h

WriteDone(h) ==
  /\ apc = "idle"
  /\ m_write_handler = h

(* async_read_at_least: after async_shutdown it is refused, to no effect.  *)
AsyncRead(h) == m_read_handler' = IF m_state = "closed" THEN "none" ELSE h

(* async_shutdown: whatever is in progress, nobody will hear of it.        *)
AsyncShutdown ==
  /\ m_read_handler' = "none"
  /\ m_write_handler' = "none"

CancelTimer ==
  /\ armed' = armed \ {m_handshake_timer}
  /\ m_handshake_timer' = "none"

(* handle_terminate: the daemon's handler, after which the caller goes on. *)
HandleTerminate(next) ==
  CASE m_state = "connecting" -> "on_fail"
    [] m_state # "connecting" /\ next = "frames" -> "on_close_in_loop"
    [] OTHER -> "on_close"

(* terminate; handle_terminate, which async_shutdown calls at once, leads  *)
(* to a handler of the daemon, and then to `next'.                         *)
Terminate_Again(next) ==
  /\ CancelTimer
  /\ m_state' = "closed"
  /\ AsyncShutdown
  /\ apc' = IF m_state = "connecting" THEN "on_fail" ELSE "on_close"

Terminate(next) ==
  /\ CancelTimer
  /\ m_state' = "closed"
  /\ IF m_state = "closed"
       THEN apc' = next /\ UNCHANGED transport
       ELSE AsyncShutdown /\ apc' = HandleTerminate(next)

(* write_push of one or two messages, and the calls of write_frame that    *)
(* are asked for.                                                          *)
Push(msgs) ==
  /\ m_send_queue' = m_send_queue \o msgs
  /\ posted' = posted + (IF m_write_flag THEN 0 ELSE Len(msgs))
  /\ UNCHANGED <<m_write_flag, m_current_msgs, wire>>

(* send_close_frame, after `before' has been sent: the old timer, if there *)
(* is one, is forgotten but not cancelled.                                 *)
SendCloseFrame_Untimed(before, msg, ack) ==
  /\ m_state' = "closing"
  /\ m_was_clean' = (ack \/ m_was_clean)
  /\ UNCHANGED timers
  /\ Push(Append(before, msg))

SendCloseFrame(before, msg, ack) ==
  /\ m_state' = "closing"
  /\ m_was_clean' = (ack \/ m_was_clean)
  /\ m_handshake_timer' = "close"
  /\ armed' = armed \cup {"close"} \cup (IF "close" \in armed THEN {"lost"} ELSE {})
  /\ UNCHANGED due
  /\ Push(Append(before, msg))

SendCloseAck == SendCloseFrame(<<>>, "final", TRUE)
-----------------------------------------------------------------------------
(* The opening handshake.                                                  *)

(* start, init, handle_transport_init and read_handshake, called when the  *)
(* connection has been accepted.                                           *)
Start_Untimed ==
  /\ m_internal_state = "USER_INIT"
  /\ m_internal_state' = "READ_HTTP_REQUEST"
  /\ AsyncRead("handle_read_handshake")
  /\ UNCHANGED <<m_state, m_was_clean, timers, output, m_write_handler, input, apc, update,
                 daemon>>

Start ==
  /\ m_internal_state = "USER_INIT"
  /\ m_internal_state' = "READ_HTTP_REQUEST"
  /\ m_handshake_timer' = "open"
  /\ armed' = {"open"}
  /\ AsyncRead("handle_read_handshake")
  /\ UNCHANGED <<m_state, m_was_clean, due, output, m_write_handler, input, apc, update, daemon>>

(* initialize_processor and process_handshake_request, and the response.   *)
Response(request) == IF request = "upgrade" THEN "switching_protocols" ELSE "http_error"

(* handle_read_handshake when the request is complete (a part of one is    *)
(* kept and read on): what follows it stays in m_buf, the response is      *)
(* written.                                                                *)
HandleReadHandshake ==
  /\ ReadDone("handle_read_handshake")
  /\ m_state = "connecting" /\ m_internal_state = "READ_HTTP_REQUEST"
  /\ \E n \in 1 .. Len(peer) :
       /\ m_buf' = SubSeq(peer, 2, n)
       /\ peer' = SubSeq(peer, n + 1, Len(peer))
  /\ m_internal_state' = "PROCESS_HTTP_REQUEST"
  /\ m_read_handler' = "none"
  /\ m_write_handler' = Response(Head(peer))
  /\ UNCHANGED <<m_state, m_was_clean, timers, output, gone, apc, update, daemon>>

(* The end of the stream, in handle_read_handshake or handle_read_frame.   *)
HandleReadError ==
  /\ \E h \in {"handle_read_handshake", "handle_read_frame"} : ReadDone(h)
  /\ gone
  /\ Terminate("idle")
  /\ UNCHANGED <<m_internal_state, m_was_clean, due, output, input, update, daemon>>

(* handle_write_http_response.                                             *)
HandleWriteHttpResponse ==
  /\ \/ /\ WriteDone("switching_protocols")
        /\ m_state = "connecting" /\ m_internal_state = "PROCESS_HTTP_REQUEST"
        /\ CancelTimer
        /\ m_internal_state' = "PROCESS_CONNECTION"
        /\ m_state' = "open"
        /\ m_write_handler' = "none"
        /\ apc' = "on_open"
        /\ UNCHANGED m_read_handler
     \/ /\ WriteDone("http_error") \/ (WriteDone("switching_protocols") /\ gone)
        /\ Terminate("idle")
        /\ UNCHANGED m_internal_state
  /\ UNCHANGED <<m_was_clean, due, output, input, update, daemon>>

(* The timers' handlers.                                                   *)
HandleOpenHandshakeTimeout ==
  /\ apc = "idle"
  /\ "open" \in due
  /\ due' = due \ {"open"}
  /\ Terminate("idle")
  /\ UNCHANGED <<m_internal_state, m_was_clean, output, input, update, daemon>>

HandleCloseHandshakeTimeout(t) ==
  /\ apc = "idle"
  /\ t \in due \ {"open"}
  /\ due' = due \ {t}
  /\ Terminate("idle")
  /\ UNCHANGED <<m_internal_state, m_was_clean, output, input, update, daemon>>
-----------------------------------------------------------------------------
(* The daemon's handlers, once they have got mutex_clients.                *)

WebsocketOnOpen ==
  /\ apc = "on_open"
  /\ mutex_clients = "free"
  /\ client' = "paused"
  /\ calls' = Append(calls, "open")
  /\ apc' = "frames"
  /\ UNCHANGED <<state, timers, output, transport, input, update>>

WebsocketOnFail ==
  /\ apc = "on_fail"
  /\ mutex_clients = "free"
  /\ client' = "none"
  /\ calls' = Append(calls, "fail")
  /\ apc' = "idle"
  /\ UNCHANGED <<state, timers, output, transport, input, update>>

WebsocketOnClose ==
  /\ apc \in {"on_close", "on_close_in_loop"}
  /\ mutex_clients = "free"
  /\ client' = "none"
  /\ calls' = Append(calls, "close")
  /\ apc' = IF apc = "on_close" THEN "idle" ELSE "frames"
  /\ UNCHANGED <<state, timers, output, transport, input, update>>
-----------------------------------------------------------------------------
(* handle_read_frame and its loop over what has been read.                 *)

HandleReadFrame ==
  /\ ReadDone("handle_read_frame")
  /\ m_internal_state = "PROCESS_CONNECTION"
  /\ \E n \in 1 .. Len(peer) :
       /\ m_buf' = SubSeq(peer, 1, n)
       /\ peer' = SubSeq(peer, n + 1, Len(peer))
  /\ m_read_handler' = "none"
  /\ apc' = "frames"
  /\ UNCHANGED <<state, timers, output, m_write_handler, gone, update, daemon>>

Consume(f) ==
  /\ apc = "frames"
  /\ m_buf # <<>>
  /\ Head(m_buf) = f
  /\ m_buf' = Tail(m_buf)
  /\ UNCHANGED <<m_internal_state, peer, gone, update>>

(* A frame that has no effect in this state.                               *)
Ignore(f) ==
  /\ Consume(f)
  /\ \/ m_state = "closed"
     \/ m_state = "closing" /\ f \notin {"close", "badclose"}
     \/ m_state = "closing" /\ f = "close" /\ m_was_clean
  /\ f # "illegal"
  /\ UNCHANGED <<m_state, m_was_clean, timers, output, transport, apc, daemon>>

(* websocket_on_message: the client becomes ready and is sent the daemon's *)
(* greeting (init_client, of which one message stands for all).            *)
OnReady ==
  /\ Consume("ready")
  /\ m_state = "open"
  /\ client' = "ready"
  /\ Push(<<"data">>)
  /\ UNCHANGED <<m_state, m_was_clean, timers, transport, apc, calls>>

(* stop_server for this client: "bye", then close(going_away), whose frame *)
(* is not terminal.                                                        *)
StopServer ==
  /\ m_state = "open"
  /\ client # "none"
  /\ SendCloseFrame(<<"data">>, "close", FALSE)
  /\ UNCHANGED transport

OnQuit ==
  /\ Consume("quit")
  /\ StopServer
  /\ UNCHANGED <<apc, daemon>>

(* The same because of another client.  (stop_server at a moment when this *)
(* client is known but not open throws: see Daemon.)                       *)
StopServerForOther ==
  /\ apc = "idle"
  /\ StopServer
  /\ UNCHANGED <<m_internal_state, input, apc, update, daemon>>

(* process_control_frame.                                                  *)
OnPing ==
  /\ Consume("ping")
  /\ m_state = "open"
  /\ Push(<<"pong">>)
  /\ UNCHANGED <<m_state, m_was_clean, timers, transport, apc, daemon>>

OnClose ==
  /\ Consume("close")
  /\ \/ /\ m_state = "open"
        /\ SendCloseAck
        /\ UNCHANGED <<transport, apc>>
     \/ /\ m_state = "closing" /\ ~m_was_clean
        /\ m_was_clean' = TRUE
        /\ Terminate("frames")
        /\ UNCHANGED <<due, output>>
  /\ UNCHANGED daemon

OnBadClose ==
  /\ Consume("badclose")
  /\ m_state \in {"open", "closing"}
  /\ SendCloseAck
  /\ UNCHANGED <<transport, apc, daemon>>

(* consume() fails: close(), whose code is a terminal one, or terminate.   *)
(* Nothing is read after that.                                             *)
OnIllegal ==
  /\ apc = "frames"
  /\ m_buf # <<>>
  /\ Head(m_buf) = "illegal"
  /\ m_buf' = <<>>
  /\ \/ /\ m_state = "open"
        /\ SendCloseFrame(<<>>, "final", FALSE)
        /\ apc' = "idle"
        /\ UNCHANGED transport
     \/ /\ m_state # "open"
        /\ Terminate("idle")
        /\ UNCHANGED <<m_was_clean, due, output>>
  /\ UNCHANGED <<m_internal_state, peer, gone, update, daemon>>

(* read_frame.                                                             *)
ReadFrame_Paused ==
  /\ apc = "frames"
  /\ m_buf = <<>>
  /\ apc' = "idle"
  /\ UNCHANGED <<state, timers, output, transport, input, update, daemon>>

ReadFrame ==
  /\ apc = "frames"
  /\ m_buf = <<>>
  /\ AsyncRead("handle_read_frame")
  /\ apc' = "idle"
  /\ UNCHANGED <<state, timers, output, m_write_handler, input, update, daemon>>
-----------------------------------------------------------------------------
(* write_frame: everything queued up to a terminal frame.  After           *)
(* async_shutdown the write is refused and its handler only forgets it.    *)
WritePop ==
  LET end == SelectInSeq(m_send_queue, LAMBDA m : m = "final")
  IN  IF end = 0 THEN Len(m_send_queue) ELSE end

AsyncWrite(msgs) ==
  IF m_state = "closed"
    THEN UNCHANGED <<m_current_msgs, wire, m_write_handler>>
    ELSE /\ m_current_msgs' = msgs
         /\ wire' = wire \o msgs
         /\ m_write_handler' = "handle_write_frame"

WriteFrame_Unflagged ==
  /\ apc = "idle"
  /\ posted > 0
  /\ posted' = posted - 1
  /\ IF m_send_queue = <<>>
       THEN UNCHANGED <<m_send_queue, m_write_flag, m_current_msgs, wire, m_write_handler>>
       ELSE /\ m_send_queue' = SubSeq(m_send_queue, WritePop + 1, Len(m_send_queue))
            /\ m_write_flag' = TRUE
            /\ AsyncWrite(SubSeq(m_send_queue, 1, WritePop))
  /\ UNCHANGED <<state, timers, m_read_handler, input, apc, update, daemon>>

WriteFrame ==
  /\ apc = "idle"
  /\ posted > 0
  /\ posted' = posted - 1
  /\ IF m_write_flag \/ m_send_queue = <<>>
       THEN UNCHANGED <<m_send_queue, m_write_flag, m_current_msgs, wire, m_write_handler>>
       ELSE /\ m_send_queue' = SubSeq(m_send_queue, WritePop + 1, Len(m_send_queue))
            /\ m_write_flag' = TRUE
            /\ AsyncWrite(SubSeq(m_send_queue, 1, WritePop))
  /\ UNCHANGED <<state, timers, m_read_handler, input, apc, update, daemon>>

(* handle_write_frame.                                                     *)
HandleWriteFrame_Quiet ==
  /\ WriteDone("handle_write_frame")
  /\ m_current_msgs' = <<>>
  /\ \/ /\ Last(m_current_msgs) = "final" \/ gone
        /\ Terminate("idle")
        /\ UNCHANGED <<m_write_flag, posted>>
     \/ /\ Last(m_current_msgs) # "final"
        /\ m_write_flag' = FALSE
        /\ m_write_handler' = "none"
        /\ UNCHANGED <<posted, m_state, m_handshake_timer, armed, m_read_handler, apc>>
  /\ UNCHANGED <<m_internal_state, m_was_clean, due, m_send_queue, wire, input, update, daemon>>

HandleWriteFrame ==
  /\ WriteDone("handle_write_frame")
  /\ m_current_msgs' = <<>>
  /\ \/ /\ Last(m_current_msgs) = "final" \/ gone
        /\ Terminate("idle")
        /\ UNCHANGED <<m_write_flag, posted>>
     \/ /\ Last(m_current_msgs) # "final"
        /\ m_write_flag' = FALSE
        /\ posted' = posted + (IF m_send_queue = <<>> THEN 0 ELSE 1)
        /\ m_write_handler' = "none"
        /\ UNCHANGED <<m_state, m_handshake_timer, armed, m_read_handler, apc>>
  /\ UNCHANGED <<m_internal_state, m_was_clean, due, m_send_queue, wire, input, update, daemon>>
-----------------------------------------------------------------------------
(* send_to_clients for this client, under mutex_clients.                   *)

SendLock ==
  /\ upc = "idle"
  /\ sends < MaxSends
  /\ mutex_clients = "free"
  /\ client = "ready"
  /\ mutex_clients' = "update"
  /\ sends' = sends + 1
  /\ upc' = "check"
  /\ UNCHANGED <<state, timers, output, transport, input, apc, daemon>>

(* send: the state is looked at under its lock ...                         *)
SendCheck ==
  /\ upc = "check"
  /\ upc' = IF m_state = "open" THEN "push" ELSE "unlock"
  /\ UNCHANGED <<state, timers, output, transport, input, apc, sends, mutex_clients, daemon>>

(* ... the message queued under m_write_lock ...                           *)
SendPush ==
  /\ upc = "push"
  /\ m_send_queue' = Append(m_send_queue, "data")
  /\ upc' = IF m_write_flag THEN "unlock" ELSE "dispatch"
  /\ UNCHANGED <<state, timers, m_write_flag, m_current_msgs, posted, wire, transport, input,
                 apc, sends, mutex_clients, daemon>>

(* ... and write_frame asked for afterwards.                               *)
SendDispatch ==
  /\ upc = "dispatch"
  /\ posted' = posted + 1
  /\ upc' = "unlock"
  /\ UNCHANGED <<state, timers, m_send_queue, m_write_flag, m_current_msgs, wire, transport,
                 input, apc, sends, mutex_clients, daemon>>

SendUnlock ==
  /\ upc = "unlock"
  /\ mutex_clients' = "free"
  /\ upc' = "idle"
  /\ UNCHANGED <<state, timers, output, transport, input, apc, sends, daemon>>
-----------------------------------------------------------------------------
OpenHandshake ==
  \/ Start \/ HandleReadHandshake \/ HandleReadError \/ HandleWriteHttpResponse
  \/ HandleOpenHandshakeTimeout

CallBack == WebsocketOnOpen \/ WebsocketOnFail \/ WebsocketOnClose

HandleFrame ==
  \/ \E f \in Frames : Ignore(f)
  \/ OnReady \/ OnQuit \/ OnPing \/ OnClose \/ OnBadClose \/ OnIllegal
  \/ ReadFrame

Send == SendLock \/ SendCheck \/ SendPush \/ SendDispatch \/ SendUnlock

Next ==
  \/ PeerLeaves
  \/ \E t \in Timers : Expire(t) \/ HandleCloseHandshakeTimeout(t)
  \/ OpenHandshake \/ CallBack
  \/ HandleReadFrame \/ HandleFrame \/ StopServerForOther
  \/ WriteFrame \/ HandleWriteFrame
  \/ Send

Spec == Init /\ [][Next]_vars

(* Time passes, the asio thread runs what is ready and a thread that waits *)
(* for mutex_clients gets it in the end.  A client need not send, take     *)
(* what it is sent, or leave.                                              *)
Fairness ==
  /\ WF_vars(Start)
  /\ \A t \in Timers : WF_vars(Expire(t)) /\ WF_vars(HandleCloseHandshakeTimeout(t))
  /\ WF_vars(HandleOpenHandshakeTimeout)
  /\ WF_vars(HandleFrame) /\ WF_vars(WriteFrame)
  /\ SF_vars(CallBack)
  /\ WF_vars(SendCheck) /\ WF_vars(SendPush) /\ WF_vars(SendDispatch) /\ WF_vars(SendUnlock)

FairSpec == Spec /\ Fairness
-----------------------------------------------------------------------------
TypeOK ==
  /\ m_state \in {"connecting", "open", "closing", "closed"}
  /\ m_internal_state \in {"USER_INIT", "READ_HTTP_REQUEST", "PROCESS_HTTP_REQUEST",
                           "PROCESS_CONNECTION"}
  /\ m_was_clean \in BOOLEAN
  /\ m_handshake_timer \in {"none", "open", "close"}
  /\ armed \subseteq Timers /\ due \subseteq Timers
  /\ m_send_queue \in Seq(Messages \cup Closers)
  /\ m_write_flag \in BOOLEAN
  /\ m_current_msgs \in Seq(Messages \cup Closers)
  /\ posted \in Nat
  /\ wire \in Seq(Messages \cup Closers)
  /\ m_read_handler \in {"none", "handle_read_handshake", "handle_read_frame"}
  /\ m_write_handler \in {"none", "switching_protocols", "http_error", "handle_write_frame"}
  /\ m_buf \in Seq(Frames)
  /\ peer \in Seq(Requests \cup Frames)
  /\ gone \in BOOLEAN
  /\ apc \in {"idle", "frames", "on_open", "on_fail", "on_close", "on_close_in_loop"}
  /\ upc \in {"idle", "check", "push", "dispatch", "unlock"}
  /\ sends \in 0 .. MaxSends
  /\ mutex_clients \in {"free", "update"}
  /\ client \in {"none", "paused", "ready"}
  /\ calls \in Seq({"open", "fail", "close"})

(* A queued message is not forgotten: while the connection lives, either a *)
(* write is in progress, whose handler looks at the queue again, or        *)
(* write_frame has been asked for, or the thread that queued the message   *)
(* is about to ask for it.                                                 *)
NoLostWakeup ==
  m_send_queue # <<>> /\ m_state # "closed" =>
    m_write_flag \/ posted > 0 \/ upc = "dispatch"

(* A write is never started while another is in progress: both would use   *)
(* m_current_msgs, m_send_buffer and the transport's m_bufs and handler.   *)
OneWrite ==
  [][wire' # wire => m_write_handler = "none"]_vars

(* A client that stops answering does not stay: while a handshake is going *)
(* on, its timer runs or has expired and will be handled.                  *)
Supervised ==
  /\ m_state = "connecting" /\ m_internal_state # "USER_INIT" => "open" \in armed \cup due
  /\ m_state = "closing" => {"close", "lost"} \cap (armed \cup due) # {}

(* An open connection whose thread is idle listens to its client.          *)
KeepsReading ==
  m_state = "open" /\ apc = "idle" => m_read_handler = "handle_read_frame"

(* The connection implements Session.                                      *)
S == INSTANCE Session WITH
       Final <- "final", phase <- m_state, written <- wire,
       accepted <- IF m_state = "closed" THEN wire ELSE wire \o m_send_queue

ImplementsSession == S!Spec

(* The daemon is told how every attempt ended, and the end of every        *)
(* connection that began to close: whatever the client does or fails to do.*)
HandshakeEnds == m_state = "connecting" ~> calls # <<>>

ClosingEnds == m_state = "closing" ~> calls = <<"open", "close">>
=============================================================================
