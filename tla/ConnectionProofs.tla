-------------------------- MODULE ConnectionProofs --------------------------
(***************************************************************************)
(* Proofs about Connection, whatever clients send and however much the     *)
(* update thread sends: its invariants, and that it implements Session.    *)
(***************************************************************************)
EXTENDS Connection, SequenceTheorems, WellFoundedInduction, TLAPS

USE DEF vars, state, timers, output, transport, input, update, daemon

Sent == Messages \cup Closers
-----------------------------------------------------------------------------
(* Sequences of messages.                                                  *)

LEMMA EmptyFacts ==
  ASSUME NEW Elements
  PROVE  /\ <<>> \in Seq(Elements) /\ Len(<<>>) = 0
         /\ \A s \in Seq(Elements) : <<>> \o s = s /\ s \o <<>> = s
  BY EmptySeq, ConcatEmptySeq

(* The two parts in which write_frame takes the queue apart.               *)
LEMMA Parts ==
  ASSUME NEW Elements, NEW q \in Seq(Elements), NEW n \in 0 .. Len(q)
  PROVE  /\ SubSeq(q, 1, n) \in Seq(Elements) /\ Len(SubSeq(q, 1, n)) = n
         /\ \A i \in 1 .. n : SubSeq(q, 1, n)[i] = q[i]
         /\ SubSeq(q, n + 1, Len(q)) \in Seq(Elements)
         /\ SubSeq(q, 1, n) \o SubSeq(q, n + 1, Len(q)) = q
<1>1. Len(q) \in Nat /\ \A i \in 1 .. Len(q) : q[i] \in Elements
  BY LenProperties, ElementOfSeq
<1>2. /\ SubSeq(q, 1, n) \in Seq(Elements) /\ Len(SubSeq(q, 1, n)) = n
      /\ \A i \in 1 .. n : SubSeq(q, 1, n)[i] = q[i]
  BY <1>1, SubSeqProperties
<1>3. SubSeq(q, n + 1, Len(q)) \in Seq(Elements)
  BY <1>1, SubSeqProperties
<1>4. SubSeq(q, 1, n) \o SubSeq(q, n + 1, Len(q)) = SubSeq(q, 1, Len(q))
  <2>1. 1 \in 1 .. Len(q) + 1 /\ n \in 1 - 1 .. Len(q) /\ Len(q) \in n .. Len(q)
    BY <1>1
  <2> QED
    BY <2>1, ConcatAdjacentSubSeq, Zenon
<1> QED
  BY <1>2, <1>3, <1>4, SubSeqFull

(* A set of natural numbers has a least one.                               *)
LEMMA LeastExists ==
  ASSUME NEW T, T \subseteq Nat, T # {}
  PROVE  Min(T) \in T /\ \A y \in T : Min(T) <= y
<1> DEFINE R == {ss \in Nat \X Nat : ss[1] < ss[2]}
<1>1. IsWellFoundedOn(R, Nat)
  BY NatLessThanWellFounded, Zenon DEF OpToRel
<1>2. PICK x \in T : \A y \in T : <<y, x>> \notin R
  <2> HIDE DEF R
  <2> QED
    BY <1>1, WFMin
<1>3. \A y \in T : x <= y
  <2> TAKE y \in T
  <2>1. <<y, x>> \notin R /\ <<y, x>> \in Nat \X Nat
    BY <1>2
  <2>2. ~(y < x)
    BY <2>1
  <2> QED
    BY <2>2
<1> QED
  BY <1>3 DEF Min

(* What write_frame takes is not empty, and a final frame ends it.         *)
LEMMA Batch ==
  ASSUME m_send_queue \in Seq(Sent), m_send_queue # <<>>
  PROVE  /\ WritePop \in 1 .. Len(m_send_queue)
         /\ \A i \in 1 .. WritePop : m_send_queue[i] = "final" => i = WritePop
<1> DEFINE I == {i \in 1 .. Len(m_send_queue) : m_send_queue[i] = "final"}
<1>1. Len(m_send_queue) \in Nat \ {0}
  BY EmptySeq
<1>2. CASE I = {}
  BY <1>1, <1>2 DEF WritePop, SelectInSeq
<1>3. CASE I # {}
  <2>1. Min(I) \in I /\ \A y \in I : Min(I) <= y
    BY <1>1, <1>3, LeastExists
  <2>2. WritePop = Min(I)
    BY <1>1, <1>3, <2>1 DEF WritePop, SelectInSeq
  <2> QED
    BY <1>1, <2>1, <2>2
<1> QED
  BY <1>2, <1>3
-----------------------------------------------------------------------------
(* Types.                                                                  *)
ControlType ==
  /\ m_state \in {"connecting", "open", "closing", "closed"}
  /\ m_internal_state \in {"USER_INIT", "READ_HTTP_REQUEST", "PROCESS_HTTP_REQUEST",
                           "PROCESS_CONNECTION"}
  /\ m_was_clean \in BOOLEAN
  /\ m_handshake_timer \in {"none", "open", "close"}
  /\ armed \subseteq Timers /\ due \subseteq Timers
  /\ m_read_handler \in {"none", "handle_read_handshake", "handle_read_frame"}
  /\ m_write_handler \in {"none", "switching_protocols", "http_error", "handle_write_frame"}
  /\ gone \in BOOLEAN
  /\ apc \in {"idle", "frames", "on_open", "on_fail", "on_close", "on_close_in_loop"}
  /\ upc \in {"idle", "check", "push", "dispatch", "unlock"}
  /\ sends \in 0 .. MaxSends
  /\ mutex_clients \in {"free", "update"}
  /\ client \in {"none", "paused", "ready"}

OutputType ==
  /\ m_send_queue \in Seq(Sent)
  /\ m_write_flag \in BOOLEAN
  /\ m_current_msgs \in Seq(Sent)
  /\ posted \in Nat
  /\ wire \in Seq(Sent)

(* A request is the first thing a client sends, and is not read as a frame.*)
InputType ==
  /\ m_buf \in Seq(Frames)
  /\ peer \in Seq(Requests \cup Frames)
  /\ \A i \in 1 .. Len(peer) :
       i > 1 \/ m_internal_state \notin {"USER_INIT", "READ_HTTP_REQUEST"} => peer[i] \in Frames

(* The phases of the connection, and what may be going on in each.         *)
PhaseInv ==
  /\ m_state = "connecting" =>
       /\ m_internal_state # "PROCESS_CONNECTION"
       /\ apc = "idle" /\ client = "none" /\ upc = "idle"
       /\ m_send_queue = <<>> /\ wire = <<>> /\ posted = 0 /\ ~m_write_flag
  /\ m_state \in {"open", "closing"} => m_internal_state = "PROCESS_CONNECTION"
  /\ m_internal_state = "USER_INIT" =>
       m_state = "connecting" /\ armed = {} /\ due = {} /\ m_read_handler = "none"
         /\ m_write_handler = "none"
  /\ m_state = "closed" => m_read_handler = "none" /\ m_write_handler = "none"
  /\ m_read_handler = "handle_read_handshake" =>
       m_state = "connecting" /\ m_internal_state = "READ_HTTP_REQUEST"
  /\ m_read_handler = "handle_read_frame" => m_state # "connecting"
  /\ m_write_handler \in {"switching_protocols", "http_error"} =>
       m_state = "connecting" /\ m_internal_state = "PROCESS_HTTP_REQUEST"
  /\ m_write_handler = "handle_write_frame" => m_write_flag /\ m_current_msgs # <<>>
  /\ apc \in {"frames", "on_close_in_loop"} => m_read_handler = "none"
                                                /\ m_internal_state = "PROCESS_CONNECTION"
  /\ apc = "on_open" => m_state = "open" /\ m_read_handler = "none"
  /\ apc \in {"on_open", "on_fail"} => client = "none" /\ upc = "idle"
  /\ apc \in {"on_fail", "on_close", "on_close_in_loop"} => m_state = "closed"

(* What the daemon has been told.                                          *)
CallsInv ==
  /\ m_state = "connecting" => calls = <<>>
  /\ m_state = "open" => calls = IF apc = "on_open" THEN <<>> ELSE <<"open">>
  /\ m_state = "closing" => calls = <<"open">>
  /\ m_state = "closed" =>
       CASE apc = "on_fail" -> calls = <<>>
         [] apc \in {"on_close", "on_close_in_loop"} -> calls = <<"open">>
         [] OTHER -> calls \in {<<"fail">>, <<"open", "close">>}

(* A final frame is written last, and its handler ends the connection.     *)
FinalInv ==
  m_state # "closed" =>
    \A i \in 1 .. Len(wire) :
      wire[i] = "final" => m_write_handler = "handle_write_frame" /\ Last(m_current_msgs) = "final"

TypesInv == ControlType /\ OutputType /\ InputType

LEMMA TypeGroups == TypesInv /\ CallsInv => TypeOK
<1>1. {<<>>, <<"open">>, <<"fail">>, <<"open", "close">>} \subseteq Seq({"open", "fail", "close"})
  OBVIOUS
<1>2. CallsInv /\ ControlType => calls \in {<<>>, <<"open">>, <<"fail">>, <<"open", "close">>}
  BY DEF CallsInv, ControlType
<1> QED
  BY <1>1, <1>2 DEF TypesInv, ControlType, OutputType, InputType, TypeOK, Sent
-----------------------------------------------------------------------------
LEMMA CloseFrameTypes ==
  ASSUME ControlType, NEW before, NEW msg, NEW ack \in BOOLEAN, SendCloseFrame(before, msg, ack)
  PROVE  /\ m_state' = "closing" /\ m_handshake_timer' = "close" /\ due' = due
         /\ m_was_clean' \in BOOLEAN
         /\ "close" \in armed' /\ armed \subseteq armed' /\ armed' \subseteq Timers
<1>1. m_was_clean' \in BOOLEAN
  <2>1. m_was_clean' = (ack \/ m_was_clean)
    BY DEF SendCloseFrame
  <2> QED
    BY <2>1, Zenon
<1> QED
  BY <1>1 DEF SendCloseFrame, ControlType, Timers

LEMMA ControlTypeStep ==
  ASSUME ControlType, Next
  PROVE  ControlType'
<1> USE DEF ControlType
<1>1. ASSUME OpenHandshake
      PROVE  ControlType'
  BY <1>1 DEF OpenHandshake, Start, AsyncRead, HandleReadHandshake, Response, HandleReadError,
              HandleWriteHttpResponse, HandleOpenHandshakeTimeout, Terminate, CancelTimer,
              AsyncShutdown, HandleTerminate, Timers
<1>2. ASSUME CallBack \/ PeerLeaves
      PROVE  ControlType'
  BY <1>2 DEF CallBack, WebsocketOnOpen, WebsocketOnFail, WebsocketOnClose, PeerLeaves
<1>3. ASSUME NEW t \in Timers, Expire(t) \/ HandleCloseHandshakeTimeout(t)
      PROVE  ControlType'
  BY <1>3 DEF Expire, HandleCloseHandshakeTimeout, Terminate, CancelTimer, AsyncShutdown,
              HandleTerminate
<1>4. ASSUME HandleReadFrame \/ (\E f \in Frames : Ignore(f)) \/ OnReady \/ OnPing \/ ReadFrame
      PROVE  ControlType'
  BY <1>4 DEF HandleReadFrame, Ignore, OnReady, OnPing, ReadFrame, Consume, Push, AsyncRead
<1>5. ASSUME OnQuit \/ StopServerForOther
      PROVE  ControlType'
  BY <1>5, CloseFrameTypes DEF OnQuit, StopServerForOther, StopServer, Consume
<1>6. ASSUME OnClose \/ OnBadClose
      PROVE  ControlType'
  BY <1>6, CloseFrameTypes
     DEF OnClose, OnBadClose, SendCloseAck, Consume, Terminate, CancelTimer, AsyncShutdown,
         HandleTerminate
<1>7. ASSUME OnIllegal
      PROVE  ControlType'
  BY <1>7, CloseFrameTypes
     DEF OnIllegal, Terminate, CancelTimer, AsyncShutdown, HandleTerminate
<1>8. ASSUME WriteFrame \/ HandleWriteFrame
      PROVE  ControlType'
  BY <1>8 DEF WriteFrame, AsyncWrite, HandleWriteFrame, Terminate, CancelTimer, AsyncShutdown,
              HandleTerminate
<1>9. ASSUME Send
      PROVE  ControlType'
  BY <1>9, ConnectionAssumption DEF Send, SendLock, SendCheck, SendPush, SendDispatch, SendUnlock
<1> QED
  BY <1>1, <1>2, <1>3, <1>4, <1>5, <1>6, <1>7, <1>8, <1>9 DEF Next, HandleFrame
-----------------------------------------------------------------------------
LEMMA MessagesSent ==
  /\ <<"data">> \in Seq(Sent) /\ <<"pong">> \in Seq(Sent)
  /\ Append(<<>>, "final") \in Seq(Sent) /\ Append(<<"data">>, "close") \in Seq(Sent)
  /\ "data" \in Sent
  BY DEF Sent, Messages, Closers

LEMMA PushTypes ==
  ASSUME OutputType, NEW msgs \in Seq(Sent), Push(msgs)
  PROVE  OutputType'
<1>1. m_send_queue' \in Seq(Sent)
  BY ConcatProperties DEF OutputType, Push
<1>2. posted' \in Nat
  BY LenProperties DEF OutputType, Push
<1> QED
  BY <1>1, <1>2 DEF OutputType, Push

LEMMA OutputTypeStep ==
  ASSUME OutputType, Next
  PROVE  OutputType'
<1>1. ASSUME WriteFrame
      PROVE  OutputType'
  <2>1. posted' \in Nat
    BY <1>1 DEF OutputType, WriteFrame
  <2>2. CASE m_write_flag \/ m_send_queue = <<>>
    BY <1>1, <2>1, <2>2 DEF OutputType, WriteFrame
  <2>3. CASE ~m_write_flag /\ m_send_queue # <<>>
    <3> DEFINE msgs == SubSeq(m_send_queue, 1, WritePop)
    <3>1. WritePop \in 0 .. Len(m_send_queue)
      BY <2>3, Batch, LenProperties DEF OutputType
    <3>2. msgs \in Seq(Sent) /\ m_send_queue' \in Seq(Sent)
      <4>1. m_send_queue' = SubSeq(m_send_queue, WritePop + 1, Len(m_send_queue))
        BY <1>1, <2>3 DEF WriteFrame
      <4> QED
        BY <3>1, <4>1, Parts DEF OutputType
    <3>3. m_write_flag' = TRUE /\ AsyncWrite(msgs)
      BY <1>1, <2>3 DEF WriteFrame
    <3> HIDE DEF msgs
    <3>4. m_current_msgs' \in Seq(Sent) /\ wire' \in Seq(Sent)
      BY <3>2, <3>3, ConcatProperties DEF AsyncWrite, OutputType
    <3> QED
      BY <2>1, <3>2, <3>3, <3>4 DEF OutputType
  <2> QED
    BY <2>2, <2>3
<1>2. ASSUME HandleWriteFrame
      PROVE  OutputType'
  <2>1. /\ m_current_msgs' = <<>> /\ m_send_queue' = m_send_queue /\ wire' = wire
        /\ posted' = posted \/ posted' = posted + 0 \/ posted' = posted + 1
    BY <1>2, Zenon DEF HandleWriteFrame
  <2>2. m_write_flag' \in BOOLEAN
    BY <1>2, Zenon DEF HandleWriteFrame, OutputType
  <2>3. posted' \in Nat
    BY <2>1 DEF OutputType
  <2> QED
    BY <2>1, <2>2, <2>3, EmptyFacts DEF OutputType
<1>3. ASSUME OnReady \/ OnPing
      PROVE  OutputType'
  BY <1>3, PushTypes, MessagesSent DEF OnReady, OnPing
<1>4. ASSUME StopServer
      PROVE  OutputType'
  BY <1>4, PushTypes, MessagesSent DEF StopServer, SendCloseFrame
<1>5. ASSUME OnClose \/ OnBadClose
      PROVE  OutputType'
  <2>1. CASE SendCloseAck
    BY <2>1, PushTypes, MessagesSent DEF SendCloseAck, SendCloseFrame
  <2>2. CASE UNCHANGED output
    BY <2>2 DEF OutputType
  <2> QED
    BY <1>5, <2>1, <2>2 DEF OnClose, OnBadClose
<1>6. ASSUME OnIllegal
      PROVE  OutputType'
  <2>1. CASE SendCloseFrame(<<>>, "final", FALSE)
    BY <2>1, PushTypes, MessagesSent DEF SendCloseFrame
  <2>2. CASE UNCHANGED output
    BY <2>2 DEF OutputType
  <2> QED
    BY <1>6, <2>1, <2>2 DEF OnIllegal
<1>7. ASSUME SendPush \/ SendDispatch
      PROVE  OutputType'
  <2>1. CASE SendPush
    BY <2>1, AppendProperties, MessagesSent DEF SendPush, OutputType
  <2>2. CASE SendDispatch
    BY <2>2 DEF SendDispatch, OutputType
  <2> QED
    BY <1>7, <2>1, <2>2
<1>8. ASSUME UNCHANGED output
      PROVE  OutputType'
  BY <1>8 DEF OutputType
<1>9. \/ UNCHANGED output
      \/ WriteFrame \/ HandleWriteFrame \/ OnReady \/ OnPing \/ StopServer \/ OnClose \/ OnBadClose
      \/ OnIllegal \/ SendPush \/ SendDispatch
  BY DEF Next, OpenHandshake, CallBack, HandleFrame, Send, PeerLeaves, Expire, Start,
         HandleReadHandshake, HandleReadError, HandleWriteHttpResponse, HandleOpenHandshakeTimeout,
         HandleCloseHandshakeTimeout, WebsocketOnOpen, WebsocketOnFail, WebsocketOnClose,
         HandleReadFrame, Ignore, ReadFrame, OnQuit, StopServerForOther, SendLock, SendCheck,
         SendUnlock
<1> QED
  BY <1>1, <1>2, <1>3, <1>4, <1>5, <1>6, <1>7, <1>8, <1>9

(* A client's input is read piece by piece.                                *)
LEMMA Read ==
  ASSUME NEW Elements, NEW p \in Seq(Elements), NEW n \in 1 .. Len(p)
  PROVE  /\ SubSeq(p, 1, n) \in Seq(Elements)
         /\ SubSeq(p, n + 1, Len(p)) \in Seq(Elements)
         /\ \A i \in 1 .. Len(SubSeq(p, n + 1, Len(p))) :
              \E j \in 2 .. Len(p) : SubSeq(p, n + 1, Len(p))[i] = p[j]
         /\ \A i \in 1 .. Len(SubSeq(p, 2, n)) :
              \E j \in 2 .. Len(p) : SubSeq(p, 2, n)[i] = p[j]
<1>1. Len(p) \in Nat /\ \A i \in 1 .. Len(p) : p[i] \in Elements
  BY LenProperties, ElementOfSeq
<1>2. \A i \in n + 1 .. Len(p) : p[i] \in Elements
  BY <1>1
<1>3. /\ SubSeq(p, n + 1, Len(p)) \in Seq(Elements)
      /\ Len(SubSeq(p, n + 1, Len(p))) = IF n + 1 <= Len(p) THEN Len(p) - (n + 1) + 1 ELSE 0
      /\ \A i \in 1 .. Len(p) - (n + 1) + 1 : SubSeq(p, n + 1, Len(p))[i] = p[(n + 1) + i - 1]
  BY <1>1, <1>2, SubSeqProperties
<1>4. \A i \in 2 .. n : p[i] \in Elements
  BY <1>1
<1>5. /\ Len(SubSeq(p, 2, n)) = IF 2 <= n THEN n - 2 + 1 ELSE 0
      /\ \A i \in 1 .. n - 2 + 1 : SubSeq(p, 2, n)[i] = p[2 + i - 1]
  BY <1>4, SubSeqProperties
<1>6. \A i \in 1 .. Len(SubSeq(p, n + 1, Len(p))) :
        \E j \in 2 .. Len(p) : SubSeq(p, n + 1, Len(p))[i] = p[j]
  <2> TAKE i \in 1 .. Len(SubSeq(p, n + 1, Len(p)))
  <2>1. (n + 1) + i - 1 \in 2 .. Len(p) /\ i \in 1 .. Len(p) - (n + 1) + 1
    BY <1>1, <1>3
  <2> QED
    BY <1>3, <2>1
<1>7. \A i \in 1 .. Len(SubSeq(p, 2, n)) :
        \E j \in 2 .. Len(p) : SubSeq(p, 2, n)[i] = p[j]
  <2> TAKE i \in 1 .. Len(SubSeq(p, 2, n))
  <2>1. 2 + i - 1 \in 2 .. Len(p) /\ i \in 1 .. n - 2 + 1
    BY <1>1, <1>5
  <2> QED
    BY <1>5, <2>1
<1>8. SubSeq(p, 1, n) \in Seq(Elements)
  BY <1>1, SubSeqProperties
<1> QED
  BY <1>3, <1>6, <1>7, <1>8

LEMMA InputTypeStep ==
  ASSUME InputType, PhaseInv, Next
  PROVE  InputType'
<1>1. ASSUME HandleReadHandshake
      PROVE  InputType'
  <2>1. PICK n \in 1 .. Len(peer) : /\ m_buf' = SubSeq(peer, 2, n)
                                    /\ peer' = SubSeq(peer, n + 1, Len(peer))
    BY <1>1 DEF HandleReadHandshake
  <2>2. \A j \in 2 .. Len(peer) : peer[j] \in Frames
    BY LenProperties DEF InputType
  <2>3. peer' \in Seq(Requests \cup Frames) /\ \A i \in 1 .. Len(peer') : peer'[i] \in Frames
    BY <2>1, <2>2, Read DEF InputType
  <2>4. m_buf' \in Seq(Frames)
    <3>1. \A j \in 2 .. n : peer[j] \in Frames
      BY <2>2, LenProperties DEF InputType
    <3> QED
      BY <2>1, <3>1, LenProperties, SubSeqProperties DEF InputType
  <2> QED
    BY <2>3, <2>4 DEF InputType
<1>2. ASSUME HandleReadFrame
      PROVE  InputType'
  <2>1. PICK n \in 1 .. Len(peer) : /\ m_buf' = SubSeq(peer, 1, n)
                                    /\ peer' = SubSeq(peer, n + 1, Len(peer))
    BY <1>2 DEF HandleReadFrame
  <2>2. \A j \in 1 .. Len(peer) : peer[j] \in Frames
    BY <1>2 DEF InputType, HandleReadFrame
  <2>3. Len(peer) \in Nat
    BY LenProperties DEF InputType
  <2>4. m_buf' \in Seq(Frames)
    <3>1. \A j \in 1 .. n : peer[j] \in Frames
      BY <2>2, <2>3
    <3> QED
      BY <2>1, <3>1, <2>3, SubSeqProperties
  <2>5. peer' \in Seq(Requests \cup Frames) /\ \A i \in 1 .. Len(peer') : peer'[i] \in Frames
    BY <2>1, <2>2, <2>3, Read DEF InputType
  <2> QED
    BY <2>4, <2>5 DEF InputType
<1>3. ASSUME NEW f \in Frames, Consume(f)
      PROVE  InputType'
  BY <1>3, HeadTailProperties DEF Consume, InputType
<1>4. ASSUME OnIllegal
      PROVE  InputType'
  BY <1>4, EmptyFacts DEF OnIllegal, InputType
<1>5. ASSUME m_buf' = m_buf, peer' = peer,
             m_internal_state \in {"USER_INIT", "READ_HTTP_REQUEST"} =>
               m_internal_state' \in {"USER_INIT", "READ_HTTP_REQUEST"}
      PROVE  InputType'
  <2> SUFFICES ASSUME NEW i \in 1 .. Len(peer),
                      i > 1 \/ m_internal_state' \notin {"USER_INIT", "READ_HTTP_REQUEST"}
               PROVE  peer[i] \in Frames
    BY <1>5 DEF InputType
  <2>1. i > 1 \/ m_internal_state \notin {"USER_INIT", "READ_HTTP_REQUEST"}
    BY <1>5
  <2> QED
    BY <2>1 DEF InputType
<1>6. \/ HandleReadHandshake \/ HandleReadFrame \/ (\E f \in Frames : Consume(f)) \/ OnIllegal
      \/ /\ m_buf' = m_buf /\ peer' = peer
         /\ m_internal_state \in {"USER_INIT", "READ_HTTP_REQUEST"} =>
              m_internal_state' \in {"USER_INIT", "READ_HTTP_REQUEST"}
  BY DEF Next, OpenHandshake, CallBack, HandleFrame, Send, PeerLeaves, Expire, Start,
         HandleReadError, HandleWriteHttpResponse, HandleOpenHandshakeTimeout,
         HandleCloseHandshakeTimeout, WebsocketOnOpen, WebsocketOnFail, WebsocketOnClose,
         Ignore, OnReady, OnPing, OnClose, OnBadClose, OnQuit, ReadFrame, StopServerForOther,
         WriteFrame, HandleWriteFrame, SendLock, SendCheck, SendPush, SendDispatch, SendUnlock, Frames
<1> QED
  BY <1>1, <1>2, <1>3, <1>4, <1>5, <1>6
-----------------------------------------------------------------------------
(* terminate: the connection is closed, and the first time the daemon will *)
(* be told.                                                                *)
LEMMA Ends ==
  ASSUME ControlType, PhaseInv, NEW next, Terminate(next)
  PROVE  /\ m_state' = "closed" /\ m_read_handler' = "none" /\ m_write_handler' = "none"
         /\ m_state = "closed" => apc' = next
         /\ m_state = "connecting" => apc' = "on_fail"
         /\ m_state \in {"open", "closing"} =>
              apc' = IF next = "frames" THEN "on_close_in_loop" ELSE "on_close"
  BY DEF ControlType, PhaseInv, Terminate, CancelTimer, AsyncShutdown, HandleTerminate

LEMMA PushQueue ==
  ASSUME OutputType, NEW msgs \in Seq(Sent), Push(msgs)
  PROVE  /\ m_send_queue' = m_send_queue \o msgs /\ wire' = wire
         /\ m_write_flag' = m_write_flag /\ m_current_msgs' = m_current_msgs
         /\ Len(msgs) > 0 => m_write_flag \/ posted' > 0
  BY LenProperties DEF OutputType, Push

LEMMA CloseFrame ==
  ASSUME OutputType, NEW before, NEW msg, NEW ack, Append(before, msg) \in Seq(Sent),
         SendCloseFrame(before, msg, ack)
  PROVE  /\ m_state' = "closing" /\ wire' = wire
         /\ m_send_queue' = m_send_queue \o Append(before, msg)
         /\ m_write_flag' = m_write_flag /\ m_current_msgs' = m_current_msgs
  BY PushQueue DEF SendCloseFrame

LEMMA PhaseStep ==
  ASSUME TypesInv, PhaseInv, Next
  PROVE  PhaseInv'
<1> USE DEF TypesInv, ControlType, PhaseInv
<1>1. ASSUME PeerLeaves
      PROVE  PhaseInv'
  BY <1>1 DEF PeerLeaves
<1>2. ASSUME NEW t \in Timers, Expire(t)
      PROVE  PhaseInv'
  BY <1>2 DEF Expire
<1>3. ASSUME NEW t \in Timers, HandleCloseHandshakeTimeout(t)
      PROVE  PhaseInv'
  BY <1>3, Ends DEF HandleCloseHandshakeTimeout
<1>4. ASSUME Start
      PROVE  PhaseInv'
  BY <1>4 DEF Start, AsyncRead
<1>5. ASSUME HandleReadHandshake
      PROVE  PhaseInv'
  BY <1>5 DEF HandleReadHandshake, ReadDone, Response
<1>6. ASSUME HandleReadError
      PROVE  PhaseInv'
  BY <1>6, Ends DEF HandleReadError, ReadDone
<1>7. ASSUME HandleWriteHttpResponse
      PROVE  PhaseInv'
  BY <1>7, Ends DEF HandleWriteHttpResponse, WriteDone, CancelTimer
<1>8. ASSUME HandleOpenHandshakeTimeout
      PROVE  PhaseInv'
  BY <1>8, Ends DEF HandleOpenHandshakeTimeout
<1>9. ASSUME CallBack
      PROVE  PhaseInv'
  BY <1>9 DEF CallBack, WebsocketOnOpen, WebsocketOnFail, WebsocketOnClose
<1>10. ASSUME HandleReadFrame
       PROVE  PhaseInv'
  BY <1>10 DEF HandleReadFrame, ReadDone
<1>11. ASSUME NEW f \in Frames, Ignore(f)
       PROVE  PhaseInv'
  BY <1>11 DEF Ignore, Consume
<1>12. ASSUME OnReady \/ OnPing
       PROVE  PhaseInv'
  BY <1>12, PushQueue, MessagesSent DEF OnReady, OnPing, Consume
<1>13. ASSUME OnQuit
       PROVE  PhaseInv'
  BY <1>13, PushQueue, MessagesSent DEF OnQuit, StopServer, SendCloseFrame, Consume
<1>14. ASSUME StopServerForOther
       PROVE  PhaseInv'
  BY <1>14, PushQueue, MessagesSent DEF StopServerForOther, StopServer, SendCloseFrame
<1>15. ASSUME OnClose
       PROVE  PhaseInv'
  <2>1. CASE SendCloseAck
    <3>1. /\ m_state = "open" /\ apc = "frames"
          /\ UNCHANGED <<transport, apc, m_internal_state, update, client>>
      BY <1>15, <2>1, Ends DEF OnClose, Consume, SendCloseAck, SendCloseFrame
    <3>2. m_state' = "closing" /\ m_write_flag' = m_write_flag /\ m_current_msgs' = m_current_msgs
      BY <2>1, CloseFrame, MessagesSent DEF SendCloseAck
    <3> QED
      BY <3>1, <3>2
  <2>2. CASE m_state = "closing" /\ Terminate("frames") /\ UNCHANGED output
    BY <1>15, <2>2, Ends DEF OnClose, Consume
  <2> QED
    BY <1>15, <2>1, <2>2 DEF OnClose
<1>16. ASSUME OnBadClose
       PROVE  PhaseInv'
  BY <1>16, PushQueue, MessagesSent DEF OnBadClose, SendCloseAck, SendCloseFrame, Consume
<1>17. ASSUME OnIllegal
       PROVE  PhaseInv'
  <2>1. CASE m_state = "open"
    <3>1. /\ apc' = "idle" /\ UNCHANGED <<transport, m_internal_state, update, client>>
          /\ SendCloseFrame(<<>>, "final", FALSE)
      BY <1>17, <2>1 DEF OnIllegal
    <3>2. m_state' = "closing" /\ m_write_flag' = m_write_flag /\ m_current_msgs' = m_current_msgs
      BY <3>1, CloseFrame, MessagesSent
    <3> QED
      BY <2>1, <3>1, <3>2
  <2>2. CASE m_state # "open"
    <3>1. /\ m_state \in {"closing", "closed"} /\ m_internal_state = "PROCESS_CONNECTION"
          /\ Terminate("idle") /\ UNCHANGED <<m_internal_state, output, update, client>>
      BY <1>17, <2>2 DEF OnIllegal
    <3>2. /\ m_state' = "closed" /\ m_read_handler' = "none" /\ m_write_handler' = "none"
          /\ apc' \in {"idle", "on_close"}
      BY <3>1, Ends
    <3> QED
      BY <3>1, <3>2
  <2> QED
    BY <2>1, <2>2
<1>18. ASSUME ReadFrame
       PROVE  PhaseInv'
  BY <1>18 DEF ReadFrame, AsyncRead
<1>19. ASSUME WriteFrame
       PROVE  PhaseInv'
  <2>1. posted # 0
    BY <1>19 DEF WriteFrame, OutputType
  <2>2. CASE m_write_flag \/ m_send_queue = <<>>
    BY <1>19, <2>1, <2>2 DEF WriteFrame
  <2>3. CASE ~m_write_flag /\ m_send_queue # <<>>
    <3> DEFINE msgs == SubSeq(m_send_queue, 1, WritePop)
    <3>1. msgs # <<>>
      <4>1. WritePop \in 0 .. Len(m_send_queue) /\ WritePop > 0
        BY <2>3, Batch, LenProperties DEF OutputType
      <4>2. msgs \in Seq(Sent) /\ Len(msgs) = WritePop
        BY <4>1, Parts DEF OutputType
      <4> QED
        BY <4>1, <4>2, EmptySeq
    <3>2. m_write_flag' = TRUE /\ AsyncWrite(msgs) /\ UNCHANGED <<state, timers, m_read_handler, apc, update, daemon>>
      BY <1>19, <2>3 DEF WriteFrame
    <3> HIDE DEF msgs
    <3> QED
      BY <2>1, <3>1, <3>2 DEF AsyncWrite
  <2> QED
    BY <2>2, <2>3
<1>20. ASSUME HandleWriteFrame
       PROVE  PhaseInv'
  BY <1>20, Ends DEF HandleWriteFrame, WriteDone
<1>21. ASSUME Send
       PROVE  PhaseInv'
  BY <1>21 DEF Send, SendLock, SendCheck, SendPush, SendDispatch, SendUnlock
<1> QED
  BY <1>1, <1>2, <1>3, <1>4, <1>5, <1>6, <1>7, <1>8, <1>9, <1>10, <1>11, <1>12, <1>13, <1>14,
     <1>15, <1>16, <1>17, <1>18, <1>19, <1>20, <1>21 DEF Next, OpenHandshake, HandleFrame

LEMMA Told ==
  /\ Append(<<>>, "open") = <<"open">> /\ Append(<<>>, "fail") = <<"fail">>
  /\ Append(<<"open">>, "close") = <<"open", "close">>
<1> DEFINE C == {"open", "close", "fail"}
<1>1. <<>> \in Seq(C) /\ <<"open">> \in Seq(C) /\ <<"open", "close">> \in Seq(C) /\ <<"fail">> \in Seq(C)
  OBVIOUS
<1>2. \A e \in C : Append(<<>>, e) = <<e>>
  BY <1>1, AppendIsConcat, ConcatEmptySeq
<1>3. Append(<<"open">>, "close") = <<"open", "close">>
  <2>1. /\ Append(<<"open">>, "close") \in Seq(C) /\ Len(Append(<<"open">>, "close")) = 2
        /\ Append(<<"open">>, "close")[1] = "open" /\ Append(<<"open">>, "close")[2] = "close"
    BY <1>1, AppendProperties
  <2>2. \A i \in 1 .. 2 : Append(<<"open">>, "close")[i] = <<"open", "close">>[i]
    BY <2>1
  <2> HIDE DEF C
  <2> QED
    BY <1>1, <2>1, <2>2, SeqEqual
<1> QED
  BY <1>2, <1>3

LEMMA CallsStep ==
  ASSUME TypesInv, PhaseInv, CallsInv, Next
  PROVE  CallsInv'
<1> USE DEF TypesInv, ControlType, PhaseInv, CallsInv
<1>1. ASSUME OpenHandshake
      PROVE  CallsInv'
  BY <1>1, Ends DEF OpenHandshake, Start, HandleReadHandshake, HandleReadError, ReadDone,
              HandleWriteHttpResponse, WriteDone, HandleOpenHandshakeTimeout
<1>2. ASSUME WebsocketOnOpen
      PROVE  CallsInv'
  BY <1>2, Told DEF WebsocketOnOpen
<1>3. ASSUME WebsocketOnFail
      PROVE  CallsInv'
  BY <1>3, Told DEF WebsocketOnFail
<1>4. ASSUME WebsocketOnClose
      PROVE  CallsInv'
  BY <1>4, Told DEF WebsocketOnClose
<1>5. ASSUME NEW t \in Timers, HandleCloseHandshakeTimeout(t)
      PROVE  CallsInv'
  BY <1>5, Ends DEF HandleCloseHandshakeTimeout
<1>6. ASSUME OnClose
      PROVE  CallsInv'
  BY <1>6, Ends DEF OnClose, Consume, SendCloseAck, SendCloseFrame
<1>7. ASSUME OnIllegal
      PROVE  CallsInv'
  BY <1>7, Ends DEF OnIllegal, SendCloseFrame
<1>8. ASSUME HandleWriteFrame
      PROVE  CallsInv'
  BY <1>8, Ends DEF HandleWriteFrame, WriteDone
<1>9. ASSUME OnQuit \/ StopServerForOther \/ OnBadClose
      PROVE  CallsInv'
  BY <1>9 DEF OnQuit, StopServerForOther, OnBadClose, StopServer, SendCloseAck, SendCloseFrame,
              Consume
<1>10. ASSUME HandleReadFrame \/ ReadFrame \/ (\E f \in Frames : Ignore(f)) \/ OnReady \/ OnPing
       PROVE  CallsInv'
  BY <1>10 DEF HandleReadFrame, ReadDone, ReadFrame, Ignore, OnReady, OnPing, Consume
<1>11. ASSUME PeerLeaves \/ WriteFrame \/ Send \/ \E t \in Timers : Expire(t)
       PROVE  CallsInv'
  BY <1>11 DEF PeerLeaves, WriteFrame, Send, SendLock, SendCheck, SendPush, SendDispatch, SendUnlock,
               Expire
<1> QED
  BY <1>1, <1>2, <1>3, <1>4, <1>5, <1>6, <1>7, <1>8, <1>9, <1>10, <1>11
     DEF Next, CallBack, HandleFrame
-----------------------------------------------------------------------------
SameOutput ==
  wire' = wire /\ m_current_msgs' = m_current_msgs /\ m_write_flag' = m_write_flag

(* A closed connection stays closed.                                       *)
LEMMA PhaseStays ==
  ASSUME TypesInv, PhaseInv, Next, m_state = "closed"
  PROVE  m_state' = "closed"
  BY Ends
     DEF Next, OpenHandshake, CallBack, HandleFrame, Send, PeerLeaves, Expire, Start,
         HandleReadHandshake, HandleReadError, HandleWriteHttpResponse, HandleOpenHandshakeTimeout,
         HandleCloseHandshakeTimeout, WebsocketOnOpen, WebsocketOnFail, WebsocketOnClose,
         HandleReadFrame, Ignore, OnReady, OnPing, OnClose, OnBadClose, OnIllegal, OnQuit, ReadFrame,
         StopServer, StopServerForOther, WriteFrame, HandleWriteFrame, SendLock, SendCheck, SendPush,
         SendDispatch, SendUnlock, ReadDone, WriteDone, PhaseInv, TypesInv
-----------------------------------------------------------------------------
(* What write_frame writes: the part of the queue up to a final frame.     *)
LEMMA Written ==
  ASSUME OutputType, WriteFrame, ~m_write_flag, m_send_queue # <<>>, m_state # "closed"
  PROVE  \E msgs \in Seq(Sent) :
           /\ msgs \o m_send_queue' = m_send_queue
           /\ wire' = wire \o msgs /\ m_current_msgs' = msgs
           /\ Len(msgs) > 0 /\ \A i \in 1 .. Len(msgs) : msgs[i] = "final" => i = Len(msgs)
           /\ m_write_handler' = "handle_write_frame"
<1> DEFINE msgs == SubSeq(m_send_queue, 1, WritePop)
<1>1. /\ WritePop \in 0 .. Len(m_send_queue) /\ WritePop > 0
      /\ \A i \in 1 .. WritePop : m_send_queue[i] = "final" => i = WritePop
  BY Batch, LenProperties DEF OutputType
<1>2. m_send_queue' = SubSeq(m_send_queue, WritePop + 1, Len(m_send_queue)) /\ AsyncWrite(msgs)
  BY DEF WriteFrame
<1>3. /\ msgs \in Seq(Sent) /\ Len(msgs) = WritePop
      /\ \A i \in 1 .. WritePop : msgs[i] = m_send_queue[i]
      /\ msgs \o m_send_queue' = m_send_queue
  BY <1>1, <1>2, Parts DEF OutputType
<1> HIDE DEF msgs
<1>4. \A i \in 1 .. Len(msgs) : msgs[i] = "final" => i = Len(msgs)
  BY <1>1, <1>3
<1>5. wire' = wire \o msgs /\ m_current_msgs' = msgs /\ m_write_handler' = "handle_write_frame"
  BY <1>2 DEF AsyncWrite
<1> QED
  BY <1>1, <1>3, <1>4, <1>5

LEMMA NotWritten ==
  ASSUME WriteFrame, m_write_flag \/ m_send_queue = <<>> \/ m_state = "closed"
  PROVE  UNCHANGED <<wire, m_current_msgs, m_write_handler>>
  BY DEF WriteFrame, AsyncWrite

(* Nothing else writes.                                                    *)
LEMMA OnlyWriteFrame ==
  ASSUME TypesInv, PhaseInv, Next
  PROVE  \/ WriteFrame
         \/ HandleWriteFrame
         \/ SameOutput /\ (m_state' = "closed" \/ m_write_handler' = m_write_handler
                  \/ m_write_handler # "handle_write_frame")
<1> USE DEF TypesInv, SameOutput
<1>1. ASSUME OpenHandshake
      PROVE  SameOutput /\ (m_state' = "closed" \/ m_write_handler' = m_write_handler
                  \/ m_write_handler # "handle_write_frame")
  BY <1>1, Ends
     DEF OpenHandshake, Start, HandleReadHandshake, HandleReadError, HandleWriteHttpResponse,
         WriteDone, HandleOpenHandshakeTimeout, PhaseInv
<1>2. ASSUME OnReady \/ OnPing
      PROVE  SameOutput /\ m_write_handler' = m_write_handler
  BY <1>2, PushQueue, MessagesSent DEF OnReady, OnPing
<1>3. ASSUME StopServer
      PROVE  SameOutput /\ m_write_handler' = m_write_handler
  BY <1>3, CloseFrame, MessagesSent DEF StopServer
<1>4. ASSUME OnBadClose
      PROVE  SameOutput /\ m_write_handler' = m_write_handler
  BY <1>4, CloseFrame, MessagesSent DEF OnBadClose, SendCloseAck
<1>5. ASSUME OnClose
      PROVE  SameOutput /\ (m_state' = "closed" \/ m_write_handler' = m_write_handler)
  <2>1. CASE m_state = "open" /\ SendCloseAck /\ UNCHANGED transport
    BY <2>1, CloseFrame, MessagesSent DEF SendCloseAck
  <2>2. CASE Terminate("frames") /\ UNCHANGED output
    BY <2>2, Ends
  <2> QED
    BY <1>5, <2>1, <2>2 DEF OnClose
<1>6. ASSUME OnIllegal
      PROVE  SameOutput /\ (m_state' = "closed" \/ m_write_handler' = m_write_handler)
  <2>1. CASE SendCloseFrame(<<>>, "final", FALSE) /\ UNCHANGED transport
    BY <2>1, CloseFrame, MessagesSent
  <2>2. CASE Terminate("idle") /\ UNCHANGED output
    BY <2>2, Ends
  <2> QED
    BY <1>6, <2>1, <2>2 DEF OnIllegal
<1>7. ASSUME NEW t \in Timers, HandleCloseHandshakeTimeout(t)
      PROVE  SameOutput /\ m_state' = "closed"
  BY <1>7, Ends DEF HandleCloseHandshakeTimeout
<1>8. ASSUME PeerLeaves \/ CallBack \/ HandleReadFrame \/ ReadFrame \/ Send
               \/ (\E t \in Timers : Expire(t)) \/ (\E f \in Frames : Ignore(f))
      PROVE  SameOutput /\ m_write_handler' = m_write_handler
  BY <1>8 DEF PeerLeaves, CallBack, WebsocketOnOpen, WebsocketOnFail, WebsocketOnClose,
              HandleReadFrame, ReadFrame, Send, SendLock, SendCheck, SendPush, SendDispatch,
              SendUnlock, Expire, Ignore
<1> QED
  BY <1>1, <1>2, <1>3, <1>4, <1>5, <1>6, <1>7, <1>8
     DEF Next, HandleFrame, OnQuit, StopServerForOther

LEMMA FinalStep ==
  ASSUME TypesInv, PhaseInv, PhaseInv', FinalInv, Next
  PROVE  FinalInv'
<1> SUFFICES ASSUME m_state' # "closed", NEW i \in 1 .. Len(wire'), wire'[i] = "final"
             PROVE  m_write_handler' = "handle_write_frame" /\ Last(m_current_msgs') = "final"
  BY DEF FinalInv
<1> USE DEF TypesInv
<1>1. CASE WriteFrame
  <2>1. m_state # "closed"
    BY <1>1 DEF WriteFrame
  <2>2. CASE m_write_flag \/ m_send_queue = <<>>
    BY <1>1, <2>1, <2>2, NotWritten DEF FinalInv
  <2>3. CASE ~m_write_flag /\ m_send_queue # <<>>
    <3>1. PICK msgs \in Seq(Sent) :
            /\ wire' = wire \o msgs /\ m_current_msgs' = msgs
            /\ Len(msgs) > 0 /\ \A j \in 1 .. Len(msgs) : msgs[j] = "final" => j = Len(msgs)
            /\ m_write_handler' = "handle_write_frame"
      BY <1>1, <2>1, <2>3, Written
    <3>2. \A j \in 1 .. Len(wire) : wire[j] # "final"
      BY <2>1, <2>3 DEF FinalInv, PhaseInv
    <3>3. /\ Len(wire) \in Nat /\ Len(msgs) \in Nat /\ Len(wire') = Len(wire) + Len(msgs)
          /\ wire'[i] = IF i <= Len(wire) THEN wire[i] ELSE msgs[i - Len(wire)]
      BY <3>1, ConcatProperties, LenProperties DEF OutputType
    <3>4. i - Len(wire) = Len(msgs) /\ msgs[Len(msgs)] = "final"
      <4>1. ~(i <= Len(wire))
        BY <3>2, <3>3
      <4>2. i - Len(wire) \in 1 .. Len(msgs) /\ msgs[i - Len(wire)] = "final"
        BY <3>3, <4>1
      <4> QED
        BY <3>1, <4>2
    <3> QED
      BY <3>1, <3>4 DEF Last
  <2> QED
    BY <2>2, <2>3
<1>2. CASE HandleWriteFrame
  <2>1. m_state # "closed" /\ wire' = wire /\ Last(m_current_msgs) # "final"
    BY <1>2, Ends DEF HandleWriteFrame, WriteDone, PhaseInv
  <2> QED
    BY <2>1 DEF FinalInv
<1>3. CASE wire' = wire /\ m_current_msgs' = m_current_msgs
             /\ (m_write_handler' = m_write_handler \/ m_write_handler # "handle_write_frame")
  <2>1. CASE m_state = "closed"
    BY <2>1, PhaseStays
  <2>2. CASE m_state # "closed"
    BY <1>3, <2>2 DEF FinalInv
  <2> QED
    BY <2>1, <2>2
<1> QED
  BY <1>1, <1>2, <1>3, OnlyWriteFrame DEF SameOutput
-----------------------------------------------------------------------------
(* Every message queued is on its way to write_frame.                      *)
LEMMA WakeupStep ==
  ASSUME TypesInv, PhaseInv, PhaseInv', NoLostWakeup, Next
  PROVE  NoLostWakeup'
<1> SUFFICES ASSUME m_send_queue' # <<>>, m_state' # "closed"
             PROVE  m_write_flag' \/ posted' > 0 \/ upc' = "dispatch"
  BY DEF NoLostWakeup
<1> USE DEF TypesInv, NoLostWakeup
<1>1. m_state # "closed"
  BY PhaseStays
<1>2. CASE WriteFrame
  <2>1. CASE m_write_flag \/ m_send_queue = <<>>
    BY <1>1, <1>2, <2>1 DEF WriteFrame
  <2>2. CASE ~m_write_flag /\ m_send_queue # <<>>
    BY <1>1, <1>2, <2>2 DEF WriteFrame
  <2> QED
    BY <2>1, <2>2
<1>3. CASE HandleWriteFrame
  <2>1. posted' = posted + 1
    BY <1>3, Ends DEF HandleWriteFrame
  <2> QED
    BY <2>1 DEF OutputType
<1>4. CASE OnReady \/ OnPing
  <2>1. Push(<<"data">>) \/ Push(<<"pong">>)
    BY <1>4 DEF OnReady, OnPing
  <2>2. Len(<<"data">>) > 0 /\ Len(<<"pong">>) > 0
    OBVIOUS
  <2>3. PICK msgs \in Seq(Sent) : Push(msgs) /\ Len(msgs) > 0
    BY <2>1, <2>2, MessagesSent
  <2> QED
    BY <2>3, PushQueue
<1>5. CASE StopServer \/ OnClose \/ OnBadClose \/ OnIllegal
  <2>1. \/ Push(Append(<<"data">>, "close")) \/ Push(Append(<<>>, "final"))
    BY <1>5, Ends DEF StopServer, OnClose, OnBadClose, OnIllegal, SendCloseAck, SendCloseFrame
  <2>2. Len(Append(<<"data">>, "close")) > 0 /\ Len(Append(<<>>, "final")) > 0
    OBVIOUS
  <2>3. PICK msgs \in Seq(Sent) : Push(msgs) /\ Len(msgs) > 0
    BY <2>1, <2>2, MessagesSent
  <2> QED
    BY <2>3, PushQueue
<1>6. CASE SendPush
  BY <1>6 DEF SendPush
<1>7. CASE SendDispatch
  BY <1>7 DEF SendDispatch, OutputType
<1>8. CASE UNCHANGED <<output, upc>>
  BY <1>1, <1>8
<1>9. CASE SendLock \/ SendCheck \/ SendUnlock
  BY <1>1, <1>9 DEF SendLock, SendCheck, SendUnlock
<1>10. \/ UNCHANGED <<output, upc>> \/ SendLock \/ SendCheck \/ SendUnlock
       \/ WriteFrame \/ HandleWriteFrame \/ OnReady \/ OnPing \/ StopServer \/ OnClose \/ OnBadClose
       \/ OnIllegal \/ SendPush \/ SendDispatch
  BY DEF Next, OpenHandshake, CallBack, HandleFrame, Send, PeerLeaves, Expire, Start,
         HandleReadHandshake, HandleReadError, HandleWriteHttpResponse, HandleOpenHandshakeTimeout,
         HandleCloseHandshakeTimeout, WebsocketOnOpen, WebsocketOnFail, WebsocketOnClose,
         HandleReadFrame, Ignore, Consume, ReadFrame, OnQuit, StopServerForOther
<1> QED
  BY <1>2, <1>3, <1>4, <1>5, <1>6, <1>7, <1>8, <1>9, <1>10

(* A handshake keeps its timer.                                            *)
LEMMA SupervisedStep ==
  ASSUME TypesInv, PhaseInv, PhaseInv', Supervised, Next
  PROVE  Supervised'
<1> USE DEF TypesInv, Supervised
<1>1. CASE Start
  BY <1>1 DEF Start, PhaseInv
<1>2. ASSUME NEW t \in Timers, Expire(t)
      PROVE  Supervised'
  BY <1>2 DEF Expire
<1>3. CASE StopServer \/ OnClose \/ OnBadClose \/ OnIllegal
  <2>1. \/ m_state' = "closed"
        \/ m_state' = "closing" /\ "close" \in armed'
    BY <1>3, Ends DEF StopServer, OnClose, OnBadClose, OnIllegal, SendCloseAck, SendCloseFrame
  <2> QED
    BY <2>1
<1>4. CASE m_state' \in {"open", "closed"}
  BY <1>4
<1>5. CASE UNCHANGED <<m_state, armed, due>> /\ m_internal_state # "USER_INIT"
  BY <1>5
<1>6. CASE UNCHANGED <<state, armed, due>>
  BY <1>6
<1>7. \/ Start \/ (\E t \in Timers : Expire(t)) \/ StopServer \/ OnClose \/ OnBadClose \/ OnIllegal
      \/ m_state' \in {"open", "closed"}
      \/ UNCHANGED <<m_state, armed, due>> /\ m_internal_state # "USER_INIT"
      \/ UNCHANGED <<state, armed, due>>
  BY Ends
     DEF Next, OpenHandshake, CallBack, HandleFrame, Send, PeerLeaves,
         HandleReadHandshake, HandleReadError, HandleWriteHttpResponse, HandleOpenHandshakeTimeout,
         HandleCloseHandshakeTimeout, WebsocketOnOpen, WebsocketOnFail, WebsocketOnClose,
         HandleReadFrame, Ignore, Consume, OnReady, OnPing, OnQuit, ReadFrame, StopServerForOther,
         WriteFrame, HandleWriteFrame, SendLock, SendCheck, SendPush, SendDispatch, SendUnlock
<1> QED
  BY <1>1, <1>2, <1>3, <1>4, <1>5, <1>6, <1>7

(* An open connection whose thread is idle is reading.                     *)
LEMMA ReadingStep ==
  ASSUME TypesInv, PhaseInv, KeepsReading, Next
  PROVE  KeepsReading'
<1> SUFFICES ASSUME m_state' = "open", apc' = "idle"
             PROVE  m_read_handler' = "handle_read_frame"
  BY DEF KeepsReading
<1> USE DEF KeepsReading
<1>1. CASE ReadFrame
  BY <1>1 DEF ReadFrame, AsyncRead
<1>2. CASE UNCHANGED <<m_state, apc, m_read_handler>>
  BY <1>2
<1>3. ReadFrame \/ UNCHANGED <<m_state, apc, m_read_handler>>
  BY Ends
     DEF Next, OpenHandshake, CallBack, HandleFrame, Send, PeerLeaves, Start, Expire,
         HandleReadHandshake, HandleReadError, HandleWriteHttpResponse, HandleOpenHandshakeTimeout,
         HandleCloseHandshakeTimeout, WebsocketOnOpen, WebsocketOnFail, WebsocketOnClose,
         HandleReadFrame, Ignore, Consume, OnReady, OnPing, OnClose, OnBadClose, OnIllegal, OnQuit,
         StopServerForOther, StopServer, SendCloseAck, SendCloseFrame, WriteFrame, HandleWriteFrame,
         SendLock, SendCheck, SendPush, SendDispatch, SendUnlock, TypesInv, PhaseInv
<1> QED
  BY <1>1, <1>2, <1>3
-----------------------------------------------------------------------------
IInv ==
  TypesInv /\ PhaseInv /\ CallsInv /\ FinalInv /\ NoLostWakeup /\ Supervised /\ KeepsReading

LEMMA IInvInit ==
  ASSUME Init
  PROVE  IInv
<1> USE DEF Init
<1>1. ControlType
  <2>1. 0 \in 0 .. MaxSends
    BY ConnectionAssumption
  <2> QED
    BY <2>1 DEF ControlType
<1>2. OutputType
  BY EmptyFacts DEF OutputType
<1>3. InputType
  BY EmptyFacts, ConnectionAssumption, LenProperties DEF InputType
<1>4. PhaseInv /\ CallsInv
  BY DEF PhaseInv, CallsInv
<1>5. FinalInv
  BY EmptyFacts DEF FinalInv
<1>6. NoLostWakeup /\ Supervised /\ KeepsReading
  BY DEF NoLostWakeup, Supervised, KeepsReading
<1> QED
  BY <1>1, <1>2, <1>3, <1>4, <1>5, <1>6 DEF IInv, TypesInv

LEMMA IInvStep ==
  ASSUME IInv, [Next]_vars
  PROVE  IInv'
<1>1. CASE UNCHANGED vars
  BY <1>1 DEF IInv, TypesInv, ControlType, OutputType, InputType, PhaseInv, CallsInv, FinalInv,
              NoLostWakeup, Supervised, KeepsReading
<1>2. CASE Next
  <2>1. TypesInv'
    BY <1>2, ControlTypeStep, OutputTypeStep, InputTypeStep DEF IInv, TypesInv
  <2>2. PhaseInv' /\ CallsInv'
    BY <1>2, PhaseStep, CallsStep DEF IInv
  <2>3. FinalInv' /\ NoLostWakeup' /\ Supervised' /\ KeepsReading'
    BY <1>2, <2>2, FinalStep, WakeupStep, SupervisedStep, ReadingStep DEF IInv
  <2> QED
    BY <2>1, <2>2, <2>3 DEF IInv
<1> QED
  BY <1>1, <1>2

LEMMA IInvAlways == Spec => []IInv
  BY IInvInit, IInvStep, PTL DEF Spec

(* Every variable has its type.                                            *)
THEOREM TypeCorrect == Spec => []TypeOK
<1>1. IInv => TypeOK
  BY TypeGroups DEF IInv
<1> QED
  BY <1>1, IInvAlways, PTL

(* While the connection lives, whoever finds m_write_flag set when it      *)
(* queues a message may rely on somebody looking at the queue again.       *)
THEOREM NothingForgotten == Spec => []NoLostWakeup
<1>1. IInv => NoLostWakeup
  BY DEF IInv
<1> QED
  BY <1>1, IInvAlways, PTL

(* A connection that is being opened or closed has a timer that will end   *)
(* it, although write_frame and a second close frame replace timers.       *)
THEOREM HandshakesSupervised == Spec => []Supervised
<1>1. IInv => Supervised
  BY DEF IInv
<1> QED
  BY <1>1, IInvAlways, PTL

(* However a frame was handled, an open connection reads on.               *)
THEOREM ReadingGoesOn == Spec => []KeepsReading
<1>1. IInv => KeepsReading
  BY DEF IInv
<1> QED
  BY <1>1, IInvAlways, PTL

(* async_write is called only when no write is in progress.                *)
THEOREM OneWriteAtATime == Spec => OneWrite
<1>1. ASSUME IInv, [Next]_vars
      PROVE  [wire' # wire => m_write_handler = "none"]_vars
  <2>1. CASE WriteFrame
    <3>1. CASE m_write_flag \/ m_send_queue = <<>> \/ m_state = "closed"
      BY <2>1, <3>1, NotWritten
    <3>2. CASE ~m_write_flag /\ m_send_queue # <<>>
      BY <1>1, <3>2 DEF IInv, TypesInv, ControlType, PhaseInv
    <3> QED
      BY <3>1, <3>2
  <2>2. CASE HandleWriteFrame
    BY <2>2 DEF HandleWriteFrame
  <2> QED
    BY <1>1, <2>1, <2>2, OnlyWriteFrame DEF IInv, SameOutput
<1> QED
  BY <1>1, IInvAlways, PTL DEF Spec, OneWrite
-----------------------------------------------------------------------------
(* The refinement: each of the steps of Session.                           *)
accepted == IF m_state = "closed" THEN wire ELSE wire \o m_send_queue

LEMMA AcceptedTypes ==
  ASSUME OutputType
  PROVE  wire \o m_send_queue \in Seq(Sent) /\ accepted \in Seq(Sent)
  BY ConcatProperties DEF OutputType, accepted

LEMMA Accepts ==
  ASSUME OutputType, m_state \in {"open", "closing"}, m_state' = m_state,
         calls = <<"open">>, calls' = calls, wire' = wire,
         NEW m \in Messages, m_send_queue' = m_send_queue \o <<m>>
  PROVE  S!Accept
<1>1. <<m>> \in Seq(Sent) /\ m \in Sent
  BY DEF Sent
<1>2. wire \o (m_send_queue \o <<m>>) = (wire \o m_send_queue) \o <<m>>
  BY <1>1, ConcatAssociative DEF OutputType
<1>3. (wire \o m_send_queue) \o <<m>> = Append(wire \o m_send_queue, m)
  BY <1>1, AcceptedTypes, AppendIsConcat
<1> QED
  BY <1>2, <1>3 DEF S!Accept

LEMMA BeginsClose ==
  ASSUME OutputType, m_state \in {"open", "closing"}, m_state' = "closing",
         calls = <<"open">>, calls' = calls, wire' = wire,
         \/ m_send_queue' = m_send_queue \o Append(<<>>, "final")
         \/ m_send_queue' = m_send_queue \o Append(<<"data">>, "close")
  PROVE  S!BeginClose
<1>1. CASE m_send_queue' = m_send_queue \o Append(<<>>, "final")
  <2>1. Append(<<>>, "final") = <<"final">> /\ <<"final">> \in Seq(Sent) /\ "final" \in Sent
    BY EmptyFacts, AppendIsConcat DEF Sent, Closers
  <2>2. wire \o (m_send_queue \o <<"final">>) = (wire \o m_send_queue) \o <<"final">>
    BY <2>1, ConcatAssociative DEF OutputType
  <2>3. (wire \o m_send_queue) \o <<"final">> = Append(wire \o m_send_queue, "final")
    BY <2>1, AcceptedTypes, AppendIsConcat
  <2> QED
    BY <1>1, <2>1, <2>2, <2>3 DEF S!BeginClose, Closers
<1>2. CASE m_send_queue' = m_send_queue \o Append(<<"data">>, "close")
  <2>1. <<"data", "close">> \in Seq(Sent) /\ <<"data">> \in Seq(Sent) /\ "close" \in Sent
    BY DEF Sent, Messages, Closers
  <2>2. Append(<<"data">>, "close") = <<"data", "close">>
    <3>1. /\ Append(<<"data">>, "close") \in Seq(Sent) /\ Len(Append(<<"data">>, "close")) = 2
          /\ Append(<<"data">>, "close")[1] = "data" /\ Append(<<"data">>, "close")[2] = "close"
      BY <2>1, AppendProperties
    <3>2. \A i \in 1 .. 2 : Append(<<"data">>, "close")[i] = <<"data", "close">>[i]
      BY <3>1
    <3> QED
      BY <2>1, <3>1, <3>2, SeqEqual
  <2>3. wire \o (m_send_queue \o <<"data", "close">>) = (wire \o m_send_queue) \o <<"data", "close">>
    BY <2>1, ConcatAssociative DEF OutputType
  <2> QED
    BY <1>2, <2>2, <2>3 DEF S!BeginClose, Closers, Messages
<1> QED
  BY <1>1, <1>2

(* The end of the connection is that of the session.                       *)
LEMMA Closes ==
  ASSUME TypesInv, PhaseInv, CallsInv, apc \in {"idle", "frames"},
         m_state # "closed", m_state' = "closed", calls' = calls, wire' = wire
  PROVE  S!Fail \/ S!Close
<1>1. CASE m_state = "connecting"
  <2>1. wire = <<>> /\ m_send_queue = <<>>
    BY <1>1 DEF PhaseInv
  <2>2. wire \o m_send_queue = <<>>
    BY <2>1, EmptyFacts DEF TypesInv, OutputType
  <2> QED
    BY <1>1, <2>1, <2>2 DEF S!Fail
<1>2. CASE m_state \in {"open", "closing"}
  BY <1>2 DEF S!Close, CallsInv
<1> QED
  BY <1>1, <1>2 DEF TypesInv, ControlType

LEMMA WritesBatch ==
  ASSUME TypesInv, PhaseInv, FinalInv, WriteFrame, ~m_write_flag, m_send_queue # <<>>,
         m_state # "closed"
  PROVE  S!Write
<1>1. PICK msgs \in Seq(Sent) :
        /\ msgs \o m_send_queue' = m_send_queue
        /\ wire' = wire \o msgs
        /\ Len(msgs) > 0 /\ \A i \in 1 .. Len(msgs) : msgs[i] = "final" => i = Len(msgs)
  BY Written DEF TypesInv
<1>2. m_state' = m_state /\ calls' = calls
  BY DEF WriteFrame
<1>3. wire \in Seq(Sent) /\ m_send_queue \in Seq(Sent) /\ m_send_queue' \in Seq(Sent)
  <2>1. Next
    BY DEF Next
  <2>2. OutputType'
    BY <2>1, OutputTypeStep DEF TypesInv
  <2> QED
    BY <2>2 DEF TypesInv, OutputType
<1>4. wire' \in Seq(Sent) /\ wire \o m_send_queue = wire' \o m_send_queue'
  <2>1. (wire \o msgs) \o m_send_queue' = wire \o (msgs \o m_send_queue')
    BY <1>3, ConcatAssociative
  <2>2. wire \o msgs \in Seq(Sent)
    BY <1>3, ConcatProperties
  <2> QED
    BY <1>1, <2>1, <2>2
<1>5. /\ Len(wire) \in Nat /\ Len(wire') \in Nat /\ Len(m_send_queue') \in Nat
      /\ Len(wire') > Len(wire) /\ Len(wire') \in 1 .. Len(wire')
      /\ Len(wire' \o m_send_queue') = Len(wire') + Len(m_send_queue')
      /\ Len(wire') = Len(wire) + Len(msgs)
  BY <1>1, <1>3, <1>4, ConcatProperties, LenProperties
<1>6. SubSeq(wire' \o m_send_queue', 1, Len(wire')) = wire'
  <2>1. 1 \in 1 .. Len(wire')
    BY <1>5
  <2> QED
    BY <2>1, <1>3, <1>4, <1>5, SubSeqOfConcat1, SubSeqFull
<1>7. \A i \in 1 .. Len(wire) : wire[i] # "final"
  BY DEF FinalInv, PhaseInv
<1>8. "final" \notin Range(wire)
  BY <1>3, <1>7, LenProperties DEF Range
<1>9. "final" \notin Range(Front(wire'))
  <2>1. \A i \in 1 .. Len(wire') - 1 : wire'[i] # "final"
    <3> TAKE i \in 1 .. Len(wire') - 1
    <3>1. i \in 1 .. Len(wire) + Len(msgs) /\ Len(msgs) \in Nat
      BY <1>1, <1>5, LenProperties
    <3>2. wire'[i] = IF i <= Len(wire) THEN wire[i] ELSE msgs[i - Len(wire)]
      BY <1>1, <1>3, <3>1, ConcatProperties
    <3>3. ~(i <= Len(wire)) => i - Len(wire) \in 1 .. Len(msgs) /\ i - Len(wire) # Len(msgs)
      BY <1>5, <3>1
    <3> QED
      BY <1>1, <1>5, <1>7, <3>2, <3>3
  <2>2. Len(wire') - 1 \in 0 .. Len(wire')
    BY <1>5
  <2>3. /\ Front(wire') \in Seq(Sent) /\ Len(Front(wire')) = Len(wire') - 1
        /\ \A i \in 1 .. Len(wire') - 1 : Front(wire')[i] = wire'[i]
    BY <1>4, <2>2, Parts DEF Front
  <2> QED
    BY <2>1, <2>3, LenProperties DEF Range
<1>10. Len(wire') \in 1 .. Len(wire \o m_send_queue)
  BY <1>4, <1>5
<1>11. "final" \notin S!Range(wire) /\ "final" \notin S!Range(S!Front(wire'))
  BY <1>8, <1>9 DEF Range, S!Range, Front, S!Front
<1>12. wire' = SubSeq(wire \o m_send_queue, 1, Len(wire'))
  BY <1>4, <1>6
<1> QED
  BY <1>2, <1>4, <1>5, <1>10, <1>11, <1>12 DEF S!Write

(* Every step of the connection is one of Session or hidden.               *)
LEMMA SessionStep ==
  ASSUME IInv, Next
  PROVE  S!Next \/ UNCHANGED <<m_state, calls, accepted, wire>>
<1> USE DEF IInv
<1> DEFINE Hidden == UNCHANGED <<m_state, calls, accepted, wire>>
<1>1. ASSUME apc \in {"idle", "frames"}, m_state' = "closed", calls' = calls, wire' = wire
      PROVE  S!Next \/ Hidden
  <2>1. CASE m_state = "closed"
    BY <1>1, <2>1 DEF accepted
  <2>2. CASE m_state # "closed"
    BY <1>1, <2>2, Closes DEF S!Next
  <2> QED
    BY <2>1, <2>2
<1>2. ASSUME UNCHANGED <<m_state, calls, wire>>, m_state = "closed" \/ m_send_queue' = m_send_queue
      PROVE  Hidden
  BY <1>2 DEF accepted
<1>3. ASSUME SendCloseFrame(<<>>, "final", TRUE) \/ SendCloseFrame(<<>>, "final", FALSE)
               \/ SendCloseFrame(<<"data">>, "close", FALSE),
             apc \in {"idle", "frames"}, m_state \in {"open", "closing"}, calls' = calls
      PROVE  S!Next
  <2>1. /\ m_state' = "closing" /\ wire' = wire
        /\ \/ m_send_queue' = m_send_queue \o Append(<<>>, "final")
           \/ m_send_queue' = m_send_queue \o Append(<<"data">>, "close")
    BY <1>3, CloseFrame, MessagesSent DEF TypesInv
  <2>2. calls = <<"open">>
    BY <1>3 DEF CallsInv
  <2> QED
    BY <1>3, <2>1, <2>2, BeginsClose DEF TypesInv, S!Next
<1>4. ASSUME Push(<<"data">>) \/ Push(<<"pong">>), m_state = "open", m_state' = m_state,
             apc = "frames", calls' = calls
      PROVE  S!Next
  <2>1. PICK m \in Messages : m_send_queue' = m_send_queue \o <<m>> /\ wire' = wire
    BY <1>4, PushQueue, MessagesSent DEF TypesInv, Messages
  <2> QED
    BY <1>4, <2>1, Accepts DEF TypesInv, CallsInv, S!Next
<1>5. CASE HandleReadError
  BY <1>5, <1>1, Ends DEF HandleReadError, ReadDone, TypesInv
<1>6. CASE HandleWriteHttpResponse
  <2>1. CASE Terminate("idle")
    BY <1>6, <2>1, <1>1, Ends DEF HandleWriteHttpResponse, WriteDone, TypesInv
  <2>2. CASE m_state = "connecting" /\ m_state' = "open"
    BY <1>6, <2>2 DEF HandleWriteHttpResponse, S!Next, S!Open
  <2> QED
    BY <1>6, <2>1, <2>2 DEF HandleWriteHttpResponse
<1>7. CASE HandleOpenHandshakeTimeout
  BY <1>7, <1>1, Ends DEF HandleOpenHandshakeTimeout, TypesInv
<1>8. ASSUME NEW t \in Timers, HandleCloseHandshakeTimeout(t)
      PROVE  S!Next \/ Hidden
  BY <1>8, <1>1, Ends DEF HandleCloseHandshakeTimeout, TypesInv
<1>9. CASE WebsocketOnOpen
  BY <1>9, Told DEF WebsocketOnOpen, PhaseInv, CallsInv, S!Next, S!TellOpen
<1>10. CASE WebsocketOnFail
  BY <1>10, Told DEF WebsocketOnFail, PhaseInv, CallsInv, S!Next, S!TellFail
<1>11. CASE WebsocketOnClose
  BY <1>11, Told DEF WebsocketOnClose, PhaseInv, CallsInv, S!Next, S!TellClose
<1>12. CASE OnReady \/ OnPing
  BY <1>12, <1>4 DEF OnReady, OnPing, Consume
<1>13. CASE OnQuit \/ StopServerForOther
  <2>1. /\ SendCloseFrame(<<"data">>, "close", FALSE) /\ m_state = "open"
        /\ apc \in {"idle", "frames"} /\ calls' = calls
    BY <1>13 DEF OnQuit, StopServerForOther, StopServer, Consume
  <2> QED
    BY <2>1, <1>3
<1>14. CASE OnClose
  <2>1. CASE Terminate("frames") /\ UNCHANGED output
    BY <1>14, <2>1, <1>1, Ends DEF OnClose, Consume, TypesInv
  <2>2. CASE SendCloseAck /\ m_state = "open"
    BY <1>14, <2>2, <1>3 DEF OnClose, Consume, SendCloseAck
  <2> QED
    BY <1>14, <2>1, <2>2 DEF OnClose
<1>15. CASE OnBadClose
  BY <1>15, <1>3 DEF OnBadClose, Consume, SendCloseAck
<1>16. CASE OnIllegal
  <2>1. CASE Terminate("idle") /\ UNCHANGED output
    BY <1>16, <2>1, <1>1, Ends DEF OnIllegal, TypesInv
  <2>2. CASE SendCloseFrame(<<>>, "final", FALSE) /\ m_state = "open"
    BY <1>16, <2>2, <1>3 DEF OnIllegal
  <2> QED
    BY <1>16, <2>1, <2>2 DEF OnIllegal
<1>17. CASE WriteFrame
  <2>1. UNCHANGED <<m_state, calls>>
    BY <1>17 DEF WriteFrame
  <2>2. CASE m_state = "closed"
    BY <1>17, <2>1, <2>2, <1>2, NotWritten
  <2>3. CASE m_write_flag \/ m_send_queue = <<>>
    BY <1>17, <2>1, <2>3, <1>2, NotWritten DEF WriteFrame
  <2>4. CASE m_state # "closed" /\ ~m_write_flag /\ m_send_queue # <<>>
    BY <1>17, <2>4, WritesBatch DEF S!Next
  <2> QED
    BY <2>2, <2>3, <2>4
<1>18. CASE HandleWriteFrame
  <2>1. CASE Terminate("idle")
    BY <1>18, <2>1, <1>1, Ends DEF HandleWriteFrame, WriteDone, TypesInv
  <2>2. CASE m_state' = m_state
    BY <1>18, <2>2, <1>2 DEF HandleWriteFrame
  <2> QED
    BY <1>18, <2>1, <2>2 DEF HandleWriteFrame
<1>19. CASE SendPush
  <2>1. UNCHANGED <<m_state, calls, wire>> /\ m_send_queue' = Append(m_send_queue, "data")
    BY <1>19 DEF SendPush
  <2>2. CASE m_state = "closed"
    BY <2>1, <2>2, <1>2
  <2>3. CASE m_state \in {"open", "closing"}
    <3>1. calls = <<"open">>
      BY <1>19, <2>3 DEF SendPush, CallsInv, PhaseInv
    <3>2. m_send_queue' = m_send_queue \o <<"data">> /\ "data" \in Messages
      BY <2>1, MessagesSent, AppendIsConcat DEF TypesInv, OutputType, Messages
    <3> QED
      BY <2>1, <2>3, <3>1, <3>2, Accepts DEF TypesInv, S!Next
  <2> QED
    BY <1>19, <2>2, <2>3 DEF SendPush, TypesInv, ControlType, PhaseInv
<1>20. ASSUME UNCHANGED <<m_state, calls, wire, m_send_queue>>
       PROVE  Hidden
  BY <1>20, <1>2
<1>21. \/ HandleReadError \/ HandleWriteHttpResponse \/ HandleOpenHandshakeTimeout
       \/ (\E t \in Timers : HandleCloseHandshakeTimeout(t))
       \/ CallBack \/ OnReady \/ OnPing \/ OnQuit \/ StopServerForOther \/ OnClose \/ OnBadClose
       \/ OnIllegal \/ WriteFrame \/ HandleWriteFrame \/ SendPush
       \/ UNCHANGED <<m_state, calls, wire, m_send_queue>>
  BY DEF Next, OpenHandshake, HandleFrame, Send, PeerLeaves, Expire, Start, HandleReadHandshake,
         HandleReadFrame, Ignore, Consume, ReadFrame, SendLock, SendCheck, SendDispatch, SendUnlock
<1> QED
  BY <1>5, <1>6, <1>7, <1>8, <1>9, <1>10, <1>11, <1>12, <1>13, <1>14, <1>15, <1>16, <1>17, <1>18,
     <1>19, <1>20, <1>21 DEF CallBack

(* Whatever the client and the two threads do, the daemon sees a session   *)
(* of Session: its handlers once each and in order, what it sends written  *)
(* in the order it was accepted, nothing after the final frame.            *)
THEOREM SessionImplemented == Spec => ImplementsSession
<1>1. Init => S!Init
  BY EmptyFacts DEF Init, S!Init
<1>2. ASSUME IInv, [Next]_vars
      PROVE  [S!Next]_S!vars
  <2>1. CASE UNCHANGED vars
    BY <2>1 DEF S!vars
  <2>2. CASE Next
    BY <1>2, <2>2, SessionStep DEF accepted, S!vars
  <2> QED
    BY <1>2, <2>1, <2>2
<1> QED
  BY <1>1, <1>2, IInvAlways, PTL DEF Spec, ImplementsSession, S!Spec
=============================================================================
