---------------------------- MODULE Conversation ----------------------------
(***************************************************************************)
(* What a client's messages lead to: Inbound takes them out of the bytes   *)
(* that come, handle_read_frame gives each to process_control_frame or to  *)
(* Flotilla as soon as it is complete, and Outbound makes the bytes that   *)
(* go back.  Connection has what runs at the same time: the update         *)
(* thread's messages, timers, and when the bytes are written.              *)
(***************************************************************************)
EXTENDS Inbound

CONSTANTS
  Ready,       (* the texts "ready" and "hello", in short ...              *)
  Quit,        (* ... and "quit"                                           *)
  Bye,         (* "bye"                                                    *)
  Reason,      (* a reason of the server: none is longer than permitted    *)
  Greetings    (* what init_client may have to send                        *)

(* Reasons and "bye" are texts, and "quit" is another than "ready".        *)
ASSUME ConversationAssumption ==
  /\ Bye \in Seq(STRING) /\ IsUtf8(Bye) /\ Ready # Quit
  /\ Reason \in Seq(STRING) /\ Len(Reason) + 2 <= MaxBasic
  /\ \A greeting \in Greetings : greeting \in Seq([op : Data, payload : Seq(STRING)])

VARIABLES
  session,     (* the connection's m_state                                 *)
  m_was_clean,
  terminal,    (* whether a frame with the terminal flag has been queued   *)
  sent,        (* history: what was queued for the client ...              *)
  out,         (* ... and the bytes of it                                  *)
  aborted      (* an exception of send has ended the daemon                *)

conversation == <<session, m_was_clean, terminal, sent, out, aborted>>

ConversationInit ==
  /\ Init
  /\ session = "connecting" /\ m_was_clean = FALSE /\ terminal = FALSE
  /\ sent = <<>> /\ out = <<>> /\ aborted = FALSE
-----------------------------------------------------------------------------
Text(payload) == [op |-> "TEXT", payload |-> payload]

CloseMsg(code, reason) == [op |-> "CLOSE", code |-> code, reason |-> reason]

Encode(msg) ==
  LET hybi00 == GetWebsocketVersion = 0
  IN CASE msg.op \in Data -> IF hybi00 THEN PrepareDataFrame00(msg.op, msg.payload)
                                      ELSE PrepareDataFrame(msg.op, msg.payload)
       [] msg.op = "CLOSE" -> IF hybi00 THEN PrepareClose00 ELSE PrepareClose(msg.code, msg.reason)
       [] OTHER -> IF hybi00 THEN <<>> ELSE PrepareControl(msg.op, msg.payload)

Queue(msgs) ==
  /\ sent' = sent \o msgs
  /\ out' = out \o FlattenSeq([i \in DOMAIN msgs |-> Encode(msgs[i])])

(* send() of one message after the other; nobody catches what one throws.  *)
SendAll(msgs) ==
  LET refused == {i \in DOMAIN msgs : Encode(msgs[i]) = <<>>}
  IN /\ Queue(IF refused = {} THEN msgs ELSE SubSeq(msgs, 1, Min(refused) - 1))
     /\ aborted' = (refused # {})
     /\ UNCHANGED <<session, m_was_clean, terminal>>

(* pong(), for a ping.                                                     *)
Pong(payload) ==
  /\ LET pong == [op |-> "PONG", payload |-> payload]
     IN IF Encode(pong) = <<>> THEN UNCHANGED <<sent, out>> ELSE Queue(<<pong>>)
  /\ UNCHANGED <<session, m_was_clean, terminal, aborted>>

(* send_close_frame; said: what the same handler has sent before.          *)
SendCloseFrame(said, code, reason, ack, last) ==
  IF Encode(CloseMsg(code, reason)) = <<>>
    THEN Queue(said) /\ UNCHANGED <<session, m_was_clean, terminal, aborted>>
    ELSE /\ Queue(Append(said, CloseMsg(code, reason)))
         /\ session' = "closing"
         /\ m_was_clean' = (m_was_clean \/ ack)
         /\ terminal' = (terminal \/ last)
         /\ UNCHANGED aborted

SendCloseAck(code, reason) == SendCloseFrame(<<>>, code, reason, TRUE, TRUE)

(* close().                                                                *)
Close(said, code) == SendCloseFrame(said, code, Reason, FALSE, Terminal(code))

Terminate ==
  /\ session' = "closed"
  /\ UNCHANGED <<m_was_clean, terminal, sent, out, aborted>>

(* process_control_frame, for a close frame.                               *)
ProcessClose(payload) ==
  LET remote == ExtractCode(payload)
      why == ExtractReason(payload)
  IN CASE session = "closed" -> UNCHANGED conversation
       [] session # "closed" /\ (remote.bad \/ why.bad) -> SendCloseAck(1002, Reason)
       [] session = "open" /\ ~remote.bad /\ ~why.bad ->
            IF remote.code = NoStatus THEN SendCloseAck(1000, <<>>)
                                      ELSE SendCloseAck(remote.code, why.reason)
       [] session = "closing" /\ ~remote.bad /\ ~why.bad ->
            IF m_was_clean
              THEN UNCHANGED conversation
              ELSE m_was_clean' = TRUE /\ session' = "closed"
                   /\ UNCHANGED <<terminal, sent, out, aborted>>

(* websocket_on_message.                                                   *)
OnMessage(payload) ==
  IF payload = Ready THEN \E greeting \in Greetings : SendAll(greeting)
  ELSE IF payload = Quit THEN Close(<<Text(Bye)>>, 1001)
  ELSE UNCHANGED conversation

Dispatch_WhileClosing(msg) ==
  CASE msg.op = "CLOSE" -> ProcessClose(msg.payload)
    [] msg.op = "PING" /\ session # "closed" -> Pong(msg.payload)
    [] msg.op \in Data /\ session = "open" -> OnMessage(msg.payload)
    [] OTHER -> UNCHANGED conversation

(* A message, which counts only while the connection is open, except that  *)
(* a close frame also answers one of the server.                           *)
Dispatch(msg) ==
  CASE msg.op = "CLOSE" -> ProcessClose(msg.payload)
    [] msg.op = "PING" /\ session = "open" -> Pong(msg.payload)
    [] msg.op \in Data /\ session = "open" -> OnMessage(msg.payload)
    [] OTHER -> UNCHANGED conversation

(* consume() has reported an error: close(), or, too late for that, the    *)
(* end.                                                                    *)
ConsumeError(error) ==
  IF session = "open" /\ Encode(CloseMsg(ToWs(error), Reason)) # <<>>
    THEN Close(<<>>, ToWs(error))
    ELSE Terminate

(* handle_read_frame's loop.                                               *)
FrameStep ==
  /\ ~aborted
  /\ Frame
  /\ CASE ec' # "none" -> ConsumeError(ec')
       [] ec' = "none" /\ delivered' # delivered -> Dispatch(Last(delivered'))
       [] OTHER -> UNCHANGED conversation

(* A frame with the terminal flag has been written.                        *)
Drop ==
  /\ session = "closing" /\ terminal
  /\ ec # "none" \/ (chunk = <<>> /\ m_state # "READY" /\ m_bytes_needed > 0)
  /\ Terminate
  /\ UNCHANGED vars

(* The response is written, and if it is the right one, the client is      *)
(* told that the connection is open.                                       *)
OfRequest(step) ==
  /\ step
  /\ session' = IF m_response' = 101 THEN "open" ELSE session
  /\ UNCHANGED <<m_was_clean, terminal, sent, out, aborted>>

ReadMore(n) ==
  /\ session # "closed" /\ ~aborted
  /\ ReadFrames(n)
  /\ UNCHANGED conversation

ConversationNext ==
  \/ \E n \in 1 .. Min({MaxRead, Len(input)}) :
       OfRequest(ReadRequest(n)) \/ OfRequest(ReadBody(n)) \/ ReadMore(n)
  \/ OfRequest(OutOfBytes) \/ OfRequest(Process) \/ OfRequest(ProcessHeader)
  \/ OfRequest(BlankLine) \/ OfRequest(ProcessBody) \/ OfRequest(Respond)
  \/ FrameStep \/ Drop

Spec == ConversationInit /\ [][ConversationNext]_<<vars, conversation>>
          /\ WF_<<vars, conversation>>(ConversationNext)
-----------------------------------------------------------------------------
Sent == [op : Data \cup {"PONG"}, payload : Seq(STRING)]
          \cup [op : {"CLOSE"}, code : Codes, reason : Seq(STRING)]

(* The types of the variables.                                             *)
TypeOK ==
  /\ InboundType
  /\ session \in {"connecting", "open", "closing", "closed"}
  /\ m_was_clean \in BOOLEAN /\ terminal \in BOOLEAN /\ aborted \in BOOLEAN
  /\ sent \in Seq(Sent) /\ out \in Seq(ByteType)

(* What a client reads in the bytes it gets, if it is strict: it wants     *)
(* whole frames in one piece, without a mask and with sizes as short as    *)
(* they can be, and of close frames a code that may be sent.               *)
LegalCode(code) == code \in 1000 .. 1003 \cup 1007 .. 1013 \cup 3000 .. 4999

(* The frame they begin with: its size, where its text starts, whether it  *)
(* is one, and what it says.                                               *)
IsLong(bytes) == Len(bytes) > 2 /\ bytes[2].n = SizeCode

SizeOf(bytes) == IF IsLong(bytes) THEN bytes[3].n ELSE bytes[2].n

StartOf(bytes) == IF IsLong(bytes) THEN 4 ELSE 3

TextOf(bytes) == [i \in 1 .. SizeOf(bytes) |-> bytes[StartOf(bytes) + i - 1].s]

After(bytes) == SubSeq(bytes, StartOf(bytes) + SizeOf(bytes), Len(bytes))

IsFrame(bytes) ==
  /\ Len(bytes) > 1
  /\ bytes[1].k = "b0" /\ bytes[1].f /\ bytes[1].n = 0 /\ bytes[2].k = "b1" /\ ~bytes[2].f
  /\ IsLong(bytes) => bytes[3].k = "size" /\ SizeOf(bytes) > MaxBasic /\ bytes[1].s \in Data
  /\ Len(bytes) >= StartOf(bytes) + SizeOf(bytes) - 1
  /\ \A i \in StartOf(bytes) .. StartOf(bytes) + SizeOf(bytes) - 1 : bytes[i].k = "data"
  /\ bytes[1].s = "TEXT" =>
       WellFormed(TextOf(bytes)) /\ (TextOf(bytes) # <<>> => Last(TextOf(bytes)) # "lead")
  /\ bytes[1].s = "CLOSE" => SizeOf(bytes) # 1

CodeOf(text) == CHOOSE c \in Codes : CodeBytes(c) = SubSeq(text, 1, 2)

MsgOf(bytes) ==
  IF bytes[1].s # "CLOSE" THEN [op |-> bytes[1].s, payload |-> TextOf(bytes)]
  ELSE IF SizeOf(bytes) = 0 THEN CloseMsg(NoStatus, <<>>)
  ELSE CloseMsg(CodeOf(TextOf(bytes)), SubSeq(TextOf(bytes), 3, SizeOf(bytes)))

ClientReads[bytes \in Seq(ByteType)] ==
  IF bytes = <<>> THEN <<>>
  ELSE IF ~IsFrame(bytes) THEN <<[op |-> "illegal"]>>
  ELSE <<MsgOf(bytes)>> \o ClientReads[After(bytes)]

(* The same for a client of hybi00.                                        *)
Ends00(bytes) == {i \in DOMAIN bytes : bytes[i] = Mark("ff")}

TextOf00(bytes) == [i \in 1 .. Min(Ends00(bytes)) - 2 |-> bytes[i + 1].s]

IsText00(bytes) == bytes[1] = Mark("00") /\ Ends00(bytes) # {} /\ WellFormed(TextOf00(bytes))

IsClose00(bytes) == Len(bytes) > 1 /\ SubSeq(bytes, 1, 2) = PrepareClose00

ClientReads00[bytes \in Seq(ByteType)] ==
  IF bytes = <<>> THEN <<>>
  ELSE IF IsText00(bytes)
    THEN <<Text(TextOf00(bytes))>> \o ClientReads00[SubSeq(bytes, Min(Ends00(bytes)) + 1, Len(bytes))]
  ELSE IF IsClose00(bytes) THEN <<[op |-> "CLOSE"]>> \o ClientReads00[SubSeq(bytes, 3, Len(bytes))]
  ELSE <<[op |-> "illegal"]>>

(* A strict client understands all it gets, and it gets what was sent, be  *)
(* it as long as a short frame can be or longer.                           *)
Understood ==
  /\ IF GetWebsocketVersion = 0
       THEN ClientReads00[out] = [i \in DOMAIN sent |-> IF sent[i].op = "CLOSE" THEN [op |-> "CLOSE"]
                                                                            ELSE sent[i]]
       ELSE ClientReads[out] = sent
  /\ \A i \in DOMAIN sent : sent[i].op = "CLOSE" => LegalCode(sent[i].code)

Payloads(msgs, op) ==
  LET gather(texts, m) == IF m.op = op THEN Append(texts, m.payload) ELSE texts
  IN FoldLeft(gather, <<>>, msgs)

(* Messages after which nothing counts any more.                           *)
Final(m) == m.op = "CLOSE" \/ (m.op \in Data /\ m.payload = Quit)

Farewells == {i \in DOMAIN delivered : Final(delivered[i])}

Legal(payload) ==
  /\ Len(payload) > 1
  /\ \E c \in Codes : LegalCode(c) /\ SubSeq(payload, 1, 2) = CodeBytes(c)
  /\ LET reason == SubSeq(payload, 3, Len(payload))
     IN WellFormed(reason) /\ (reason # <<>> => Last(reason) # "lead")

(* The close frame that ends the conversation, when the client's messages  *)
(* do or when one of them cannot be understood.                            *)
Parting(m) ==
  IF m.op # "CLOSE" THEN CloseMsg(1001, Reason)
  ELSE IF m.payload = <<>> THEN CloseMsg(1000, <<>>)
  ELSE IF ~Legal(m.payload) THEN CloseMsg(1002, Reason)
  ELSE CloseMsg(Number(SubSeq(m.payload, 1, 2)), SubSeq(m.payload, 3, Len(m.payload)))

Refusal(error) ==
  CloseMsg(CASE error = "invalid_utf8" -> 1007 [] error = "message_too_big" -> 1009
             [] error = "non_minimal_encoding" -> 1011 [] OTHER -> 1002, Reason)

Farewell == IF Farewells = {} THEN Refusal(ec) ELSE Parting(delivered[Min(Farewells)])

(* Pings are answered, one by one and with what they say, as long as the   *)
(* conversation lasts.  It ends with a close frame that says why, and      *)
(* nothing but close frames comes after it: the client is not left without *)
(* one.                                                                    *)
Replied ==
  LET n == IF Farewells = {} THEN Len(delivered) ELSE Min(Farewells)
      closes == {i \in DOMAIN sent : sent[i].op = "CLOSE"}
      over == Farewells # {} \/ ec # "none"
  IN ~aborted =>
       /\ Payloads(sent, "PONG") = Payloads(SubSeq(delivered, 1, n), "PING")
       /\ closes = {} <=> ~over
       /\ over => sent[Min(closes)] = Farewell /\ closes = Min(closes) .. Len(sent)
       /\ session = "closed" => over

(* All that a client sends is dealt with, unless the request or a frame is *)
(* refused or the connection ends: consume never waits for bytes it does   *)
(* not need.                                                               *)
EverythingHandled ==
  <>(\/ Exhausted \/ m_response \notin {0, 101} \/ ec # "none"
     \/ session = "closed" \/ aborted)
=============================================================================
