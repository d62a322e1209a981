------------------------------- MODULE Inbound -------------------------------
(***************************************************************************)
(* All that a client sends on one connection: an HTTP request, which       *)
(* http::parser::request takes in line by line, and, if it is a websocket  *)
(* handshake, the frames of the protocol it asks for.  What a read brought *)
(* beyond the request is the first input of Frames or Hybi00.  Reads have  *)
(* any size up to MaxRead.                                                 *)
(*                                                                         *)
(* The lines of a request are bytes of kind "http"; s is a delimiter (one  *)
(* of "CR" and "LF"), a character "x", or what the line says: a method or  *)
(* a header, for example "Version8", a Sec-WebSocket-Version of 8, or      *)
(* "Length", a Content-Length of BodyLength.  The values of some headers   *)
(* are texts, kept apart from the lines: a stream has [lines, values, body, *)
(* frames, meant], values and meant being what the texts are and what the  *)
(* client meant by them.                                                   *)
(***************************************************************************)
EXTENDS Hybi00, HttpLists

CONSTANTS
  Streams,      (* what clients may send: request lines, then frames       *)
  MaxHeader,    (* max_header_size, 16000                                  *)
  MaxRead,      (* connection_read_buffer_size, 16384                      *)
  Key3Bytes,    (* of a hybi00 handshake, after the request, 8             *)
  BodyLength

(* What clients send is what the comment above says; the first marks of     *)
(* hybi00 frames are written in the place of opcodes.                      *)
Frame00 == [op : {"00", "JUNK"}, payload : Seq(STRING)]

Frame13 ==
  [op : STRING \ {"00", "JUNK"}, fin : BOOLEAN, rsv : Nat, masked : BOOLEAN, long : BOOLEAN,
   payload : Seq(STRING), key : Nat]

ASSUME StreamsAssumption ==
  \A s \in Streams :
    /\ s.lines \in Seq(Seq(STRING)) /\ s.body \in Nat
    /\ s.frames \in Seq(Frame00 \cup Frame13)
    /\ s.values \in [{"Host", "Extensions", "Subprotocols"} -> Seq(STRING)]

ASSUME InboundAssumption ==
  MaxHeader \in Nat /\ MaxRead \in Nat /\ Key3Bytes \in Nat /\ BodyLength \in Nat

VARIABLES
  stream,       (* what this client sends ...                              *)
  input,        (* ... and the bytes of it yet to come                     *)
  m_buf,        (* bytes of the request that are not a whole line yet      *)
  m_method,                     (* the request line, "" = none yet         *)
  m_headers,                    (* so far                                  *)
  m_body_bytes_needed,
  m_body,
  m_ready,
  m_response,                   (* the response's status, 0 = none         *)
  m_requested_subprotocols

request == <<m_buf, m_method, m_headers, m_body_bytes_needed, m_body, m_ready, m_response>>
asked == <<stream, m_requested_subprotocols>>
vars == <<asked, input, chunk, framing, request>>

Http(s) == [k |-> "http", s |-> s, n |-> 0, f |-> FALSE, key |-> 0]

(* The bytes of a line, a blank one being <<>>, ...                        *)
LineBytes(line) == [i \in DOMAIN line |-> Http(line[i])] \o <<Http("CR"), Http("LF")>>

(* ... of a frame [op, fin, rsv, masked, long, payload, key], and of a     *)
(* hybi00 one [op, payload], which lacks its first mark if it is "JUNK".          *)
FrameBytes00(frame) ==
  (IF frame.op = "JUNK" THEN <<>> ELSE <<Mark("00")>>) \o Payload(frame.payload) \o <<Mark("ff")>>

FrameBytes(frame) ==
  LET size == Len(frame.payload)
      byte(k, s, n, f) == [k |-> k, s |-> s, n |-> n, f |-> f, key |-> frame.key]
      keys == IF frame.masked THEN KeyBytes ELSE 0
  IN <<byte("b0", frame.op, frame.rsv, frame.fin),
       byte("b1", "none", IF frame.long THEN SizeCode ELSE size, frame.masked)>>
     \o (IF frame.long THEN <<byte("size", "none", size, FALSE)>> ELSE <<>>)
     \o [i \in 1 .. keys |-> byte("key", "none", 0, FALSE)]
     \o [i \in 1 .. size |-> byte("data", frame.payload[i], (i - 1) % KeyBytes, FALSE)]

Bytes(s) ==
  FlattenSeq([i \in DOMAIN s.lines |-> LineBytes(s.lines[i])])
    \o FlattenSeq([i \in 1 .. s.body |-> <<Http("x")>>])
    \o FlattenSeq([i \in DOMAIN s.frames |->
                     IF s.frames[i].op \in {"00", "JUNK"} THEN FrameBytes00(s.frames[i])
                                                          ELSE FrameBytes(s.frames[i])])

(* Request lines: GET and POST of HTTP/1.1, and GET of HTTP/1.0.  Headers:  *)
(* a Content-Length that is more than a body may have is "TooLong";         *)
(* "Handshake" is all that version 13 needs.                                *)
RequestLines == {"GET", "POST", "GET1.0"}

Versions == [Version7 |-> 7, Version8 |-> 8, Version9 |-> 9, Version13 |-> 13, VersionX |-> -1]

HeaderLines ==
  {"Host", "Upgrade", "Connection", "Key", "Key1", "Key2", "Extensions", "Subprotocols", "Length",
   "TooLong", "Handshake"} \cup DOMAIN Versions

HeadersOf(word) ==
  IF word = "Handshake" THEN {"Upgrade", "Connection", "Version13", "Key"} ELSE {word}

(* A client ends its request with a blank line, and sends after it no more *)
(* than a body of the length it has announced and the key of hybi00, and,  *)
(* if that is all there, frames of the protocol it has asked for.          *)
Says(s, words) == \E i \in DOMAIN s.lines : s.lines[i] # <<>> /\ s.lines[i][1] \in words

Says00(s) == ~Says(s, DOMAIN Versions \cup {"Handshake"})

BodyOf(s) ==
  (IF Says(s, {"Length"}) THEN BodyLength ELSE 0) + (IF Says00(s) THEN Key3Bytes ELSE 0)

ASSUME RequestsAssumption ==
  \A s \in Streams :
    /\ s.lines # <<>> /\ \A i \in DOMAIN s.lines : s.lines[i] = <<>> <=> i = Len(s.lines)
    /\ \A i \in DOMAIN s.lines : \A j \in 1 .. Len(s.lines[i]) - 1 :
         ~(s.lines[i][j] = "CR" /\ s.lines[i][j + 1] = "LF")
    /\ s.body <= BodyOf(s) /\ (s.frames # <<>> => s.body = BodyOf(s))
    /\ s.frames \in Seq(IF Says00(s) THEN Frame00 ELSE Frame13)
    /\ \A i \in DOMAIN s.frames :
         ~Says00(s) /\ ~s.frames[i].long => Len(s.frames[i].payload) <= MaxBasic

Init ==
  /\ stream \in Streams /\ input = Bytes(stream) /\ chunk = <<>>
  /\ m_buf = <<>> /\ m_method = "" /\ m_headers = {}
  /\ m_body_bytes_needed = 0 /\ m_body = 0
  /\ m_ready = FALSE /\ m_response = 0 /\ m_requested_subprotocols = <<>>
  /\ FramesInit
-----------------------------------------------------------------------------
(* A read.  request::consume and handle_read_frame have been through with  *)
(* what the last one brought.                                              *)
Receive(n) ==
  /\ chunk = <<>>
  /\ m_response \in {0, 101} /\ ec = "none" /\ m_state # "READY"
  /\ chunk' = SubSeq(input, 1, n)
  /\ input' = SubSeq(input, n + 1, Len(input))

ReadRequest_Fresh(n) ==
  /\ Receive(n)
  /\ m_response = 0 /\ ~m_ready /\ m_body_bytes_needed = 0
  /\ IF Len(m_buf) + n > MaxHeader
       THEN m_response' = 431 /\ UNCHANGED m_buf
       ELSE m_buf' = chunk' /\ UNCHANGED m_response
  /\ UNCHANGED <<asked, framing, m_method, m_headers, m_body_bytes_needed, m_body, m_ready>>

(* handle_read_handshake, whose request adds what was read to its buffer,  *)
(* unless it is too much.                                                  *)
ReadRequest(n) ==
  /\ Receive(n)
  /\ m_response = 0 /\ ~m_ready /\ m_body_bytes_needed = 0
  /\ IF Len(m_buf) + n > MaxHeader
       THEN m_response' = 431 /\ UNCHANGED m_buf
       ELSE m_buf' = m_buf \o chunk' /\ UNCHANGED m_response
  /\ UNCHANGED <<asked, framing, m_method, m_headers, m_body_bytes_needed, m_body, m_ready>>

ReadBody(n) ==
  /\ Receive(n)
  /\ m_response = 0 /\ m_body_bytes_needed > 0
  /\ UNCHANGED <<asked, framing, request>>

(* handle_read_frame.                                                      *)
ReadFrames(n) ==
  /\ Receive(n)
  /\ m_response = 101
  /\ UNCHANGED <<asked, framing, request>>

Delimiter(i) == m_buf[i].s = "CR" /\ m_buf[i + 1].s = "LF"

(* The length of the first line in the buffer, if it is complete.          *)
LineEnds == {i \in 1 .. Len(m_buf) - 1 : Delimiter(i)}

Request(what) ==
  /\ m_response = 0 /\ ~m_ready /\ m_body_bytes_needed = 0
  /\ chunk # <<>>
  /\ what

(* No delimiter: the rest of the buffer waits for the next read.           *)
OutOfBytes ==
  /\ Request(LineEnds = {})
  /\ chunk' = <<>>
  /\ UNCHANGED <<asked, input, framing, request>>

(* The next line of the request.                                           *)
Line ==
  /\ Request(LineEnds # {} /\ Min(LineEnds) > 1)
  /\ m_buf' = SubSeq(m_buf, Min(LineEnds) + 2, Len(m_buf))
  /\ UNCHANGED <<asked, input, chunk, framing, m_body_bytes_needed, m_body, m_ready>>

(* process.                                                                *)
Process ==
  /\ m_method = ""
  /\ Line
  /\ IF m_buf[1].s \in RequestLines
       THEN m_method' = m_buf[1].s /\ UNCHANGED m_response
       ELSE m_response' = 400 /\ UNCHANGED m_method
  /\ UNCHANGED m_headers

(* process_header and append_header.                                       *)
ProcessHeader ==
  /\ m_method # ""
  /\ Line
  /\ IF m_buf[1].s \in HeaderLines
       THEN m_headers' = m_headers \cup HeadersOf(m_buf[1].s) /\ UNCHANGED m_response
       ELSE m_response' = 400 /\ UNCHANGED m_headers
  /\ UNCHANGED m_method

(* What HttpLists makes of every text a client may send.                   *)
Values == [text \in UNION {Range(s.values) : s \in Streams} |-> StripLws(text)]
Uris == [text \in Range(Values) |-> GetUriFromHost(text)]
ParameterLists == [text \in Range(Values) \cup {<<>>} |-> ParseParameterList(text)]

(* The value of a header, empty if there is none.                          *)
GetHeader(name) == IF name \in m_headers THEN Values[stream.values[name]] ELSE <<>>

RequestError ==
  IF m_method = "" \/ GetHeader("Host") = <<>> THEN 400
  ELSE IF "TooLong" \in m_headers THEN 413
  ELSE 0

(* A blank line: the request is complete, or only its body is missing      *)
(* (prepare_body).  What follows is given back to the connection.          *)
BlankLine ==
  /\ Request(LineEnds # {} /\ Min(LineEnds) = 1)
  /\ IF RequestError # 0
       THEN m_response' = RequestError /\ UNCHANGED <<chunk, m_buf, m_body_bytes_needed, m_ready>>
       ELSE /\ chunk' = SubSeq(m_buf, 3, Len(m_buf))
            /\ m_buf' = <<>>
            /\ IF "Length" \in m_headers
                 THEN m_body_bytes_needed' = BodyLength /\ m_ready' = (BodyLength = 0)
                 ELSE m_ready' = TRUE /\ UNCHANGED m_body_bytes_needed
            /\ UNCHANGED m_response
  /\ UNCHANGED <<asked, input, framing, m_method, m_headers, m_body>>

ProcessBody_All ==
  /\ m_response = 0 /\ m_body_bytes_needed > 0 /\ chunk # <<>>
  /\ Skip(Len(chunk))
  /\ m_body' = m_body + Len(chunk)
  /\ m_body_bytes_needed' = m_body_bytes_needed - Len(chunk)
  /\ m_ready' = (m_body_bytes_needed' = 0)
  /\ UNCHANGED <<asked, input, framing, m_buf, m_method, m_headers, m_response>>

(* process_body.                                                           *)
ProcessBody ==
  /\ m_response = 0 /\ m_body_bytes_needed > 0 /\ chunk # <<>>
  /\ LET n == Min({m_body_bytes_needed, Len(chunk)})
     IN /\ Skip(n)
        /\ m_body' = m_body + n
        /\ m_body_bytes_needed' = m_body_bytes_needed - n
        /\ m_ready' = (n = m_body_bytes_needed)
  /\ UNCHANGED <<asked, input, framing, m_buf, m_method, m_headers, m_response>>

IsWebsocketHandshake == {"Upgrade", "Connection"} \subseteq m_headers

GetWebsocketVersion ==
  LET version == m_headers \cap DOMAIN Versions
  IN IF version = {} THEN 0 ELSE Versions[CHOOSE v \in version : TRUE]

(* The versions get_processor knows; 7, 8 and 13 differ in names only.     *)
VersionsSupported == {0, 7, 8, 13}

(* initialize_processor, and the key that hybi00 wants right after the     *)
(* request, in the same read.                                              *)
ProcessorError ==
  CASE ~IsWebsocketHandshake -> 0
    [] IsWebsocketHandshake /\ GetWebsocketVersion \notin VersionsSupported -> 400
    [] IsWebsocketHandshake /\ GetWebsocketVersion = 0 /\ Len(chunk) < Key3Bytes -> 500
    [] OTHER -> 0

ValidateHandshake ==
  /\ m_method = "GET"
  /\ IF GetWebsocketVersion = 0 THEN {"Key1", "Key2"} \subseteq m_headers ELSE "Key" \in m_headers

(* negotiate_extensions: hybi00 has none, the others refuse them politely. *)
NegotiateExtensions ==
  GetWebsocketVersion = 0 \/ ParameterLists[GetHeader("Extensions")].ok

(* process_handshake_request.                                              *)
ProcessHandshakeRequest ==
  CASE ~Uris[GetHeader("Host")].valid -> 400
    [] Uris[GetHeader("Host")].valid /\ ~IsWebsocketHandshake -> 426
    [] Uris[GetHeader("Host")].valid /\ IsWebsocketHandshake ->
         IF ValidateHandshake /\ NegotiateExtensions THEN 101 ELSE 400

(* The names in the list; none, with no harm, if it cannot be read.        *)
ExtractSubprotocols ==
  IF GetWebsocketVersion = 0 THEN <<>> ELSE ParameterLists[GetHeader("Subprotocols")].names

(* The response, and a processor for the frames, whose first bytes may     *)
(* have come with the request (m_buf_cursor).                              *)
Respond ==
  LET hybi00 == IsWebsocketHandshake /\ GetWebsocketVersion = 0 /\ ProcessorError = 0
  IN /\ m_ready /\ m_response = 0
     /\ m_response' = IF ProcessorError # 0 THEN ProcessorError ELSE ProcessHandshakeRequest
     /\ m_requested_subprotocols' = IF m_response' = 101 THEN ExtractSubprotocols ELSE <<>>
     /\ chunk' = IF hybi00 THEN SubSeq(chunk, Key3Bytes + 1, Len(chunk)) ELSE chunk
     /\ m_state' = IF hybi00 THEN "HEADER" ELSE m_state
     /\ UNCHANGED <<stream, input, m_bytes_needed, m_basic_header, m_extended_header, messages,
                    delivered, ec, m_buf, m_method, m_headers, m_body_bytes_needed, m_body, m_ready>>

Frame ==
  /\ m_response = 101
  /\ IF GetWebsocketVersion = 0 THEN ConsumeHybi00 ELSE ConsumeFrames
  /\ UNCHANGED <<asked, input, request>>
-----------------------------------------------------------------------------
ByteType ==
  [k : {"http", "mark", "b0", "b1", "size", "key", "data"}, s : STRING, n : Nat, f : BOOLEAN, key : Nat]

Message == [op : Data \cup Control, payload : Seq(STRING)]

InboundType ==
  /\ input \in Seq(ByteType) /\ chunk \in Seq(ByteType) /\ m_buf \in Seq(ByteType)
  /\ m_method \in RequestLines \cup {""} /\ m_headers \subseteq HeaderLines
  /\ m_body_bytes_needed \in 0 .. BodyLength /\ m_body \in 0 .. BodyLength
  /\ m_ready \in BOOLEAN /\ m_response \in {0, 101, 400, 413, 426, 431, 500}
  /\ m_requested_subprotocols \in Seq(Seq(STRING))
  /\ FramesType

(* What the whole request means: the status of the answer, 0 as long as it *)
(* is incomplete.                                                          *)
Status(s, r) ==
  LET websocket == {"Upgrade", "Connection"} \subseteq r.headers
      version == r.headers \cap DOMAIN Versions
      keys == IF version = {} THEN {"Key1", "Key2"} ELSE {"Key"}
      host == "Host" \in r.headers /\ s.meant.host # "none"
      accepted ==
        /\ r.method = "GET" /\ keys \subseteq r.headers
        /\ version \subseteq {"Version7", "Version8", "Version13"}
        /\ version # {} /\ "Extensions" \in r.headers => s.meant.extensions
  IN IF r.method = "" \/ ~host THEN 400
     ELSE IF "TooLong" \in r.headers THEN 413
     ELSE IF "Length" \in r.headers /\ s.body < BodyLength THEN 0
     ELSE IF s.meant.host # "valid" \/ (websocket /\ ~accepted) THEN 400
     ELSE IF websocket THEN 101 ELSE 426

Unread == [method |-> "", headers |-> {}, status |-> 0]

ReadLine(s, r, line) ==
  IF r.status # 0 THEN r
  ELSE IF Len(line) + 2 > MaxHeader THEN [r EXCEPT !.status = 431]
  ELSE IF line = <<>> THEN [r EXCEPT !.status = Status(s, r)]
  ELSE IF r.method = "" /\ line[1] \in RequestLines THEN [r EXCEPT !.method = line[1]]
  ELSE IF r.method # "" /\ line[1] \in HeaderLines
    THEN [r EXCEPT !.headers = @ \cup HeadersOf(line[1])]
    ELSE [r EXCEPT !.status = 400]

AnswerTo(s) == FoldLeft(LAMBDA r, line : ReadLine(s, r, line), Unread, s.lines).status

(* A client means by the values of its headers what HttpLists makes of the *)
(* whole texts, and names one version of the protocol.                     *)
Named(s) == UNION {HeadersOf(s.lines[i][1]) : i \in {j \in DOMAIN s.lines : s.lines[j] # <<>>}}

Meant(s) ==
  LET value(name) == StripLws(s.values[name])
      list(name) == ParseParameterList(value(name))
  IN /\ s.meant.host = "none" <=> value("Host") = <<>>
     /\ s.meant.host = "valid" <=> value("Host") # <<>> /\ GetUriFromHost(value("Host")).valid
     /\ s.meant.extensions = list("Extensions").ok
     /\ s.meant.subprotocols =
          IF "Subprotocols" \in Named(s) /\ ~Says00(s) THEN list("Subprotocols").names ELSE <<>>
     /\ \A v, w \in Named(s) \cap DOMAIN Versions : v = w

(* A hybi00 handshake is refused with 500 when the end of its request and  *)
(* the key do not come in one read.                                        *)
KeyCutOff == m_response = 500 /\ GetWebsocketVersion = 0 /\ IsWebsocketHandshake

(* All the client sent has been dealt with.                                *)
Exhausted ==
  /\ input = <<>> /\ chunk = <<>>
  /\ m_ready => m_response # 0
  /\ m_state # "READY" /\ m_bytes_needed > 0

(* What the client sends from the beginning of a line on, frames included. *)
Following(s, i) ==
  Len(Bytes(s)) - Len(FlattenSeq([j \in 1 .. i - 1 |-> LineBytes(s.lines[j])]))

(* What waits of a line, without its LF at most, and a read that continues *)
(* it, can be more than the limit.                                         *)
MayBeRefused(s) ==
  \E i \in DOMAIN s.lines :
    Len(s.lines[i]) + 1 + MaxRead > MaxHeader /\ Following(s, i) > MaxHeader

(* However the reads cut the request into pieces, in a line, between CR    *)
(* and LF, in the body, it gets the answer it would get in one piece.  It  *)
(* is refused as too long only if there is a line that more bytes than the *)
(* limit follow, its own included, of the header or of what comes after    *)
(* it, and a read can take so many together.  Hosts and lists are          *)
(* understood as they are meant, wherever there are blanks and whatever is *)
(* between quotes.                                                         *)
Answered ==
  /\ \/ m_response \in {0, AnswerTo(stream)}
     \/ KeyCutOff
     \/ m_response = 431 /\ MayBeRefused(stream)
  /\ Exhausted /\ m_response = 0 => AnswerTo(stream) = 0
  /\ m_response = 101 => m_requested_subprotocols = stream.meant.subprotocols

(* What the frames mean taken one by one, a text being looked at as a      *)
(* whole: the messages, up to the first frame that breaks the protocol.  A *)
(* frame does so too that ends a text within a character; cut says that it *)
(* is the last one of several.                                             *)
WellFormed(text) ==
  \A i \in DOMAIN text :
    \/ text[i] = "a"
    \/ text[i] = "lead" /\ (i = Len(text) \/ text[i + 1] = "cont")
    \/ text[i] = "cont" /\ i > 1 /\ text[i - 1] = "lead"

Acceptable(r, frame) ==
  LET op == IF frame.op = "CONTINUATION" THEN r.op ELSE frame.op
      text == (IF frame.op \in Control THEN <<>> ELSE r.text) \o frame.payload
  IN IF frame.op \in {"00", "JUNK"} THEN frame.op = "00" ELSE
     /\ frame.masked /\ frame.rsv = 0
     /\ frame.long => Len(frame.payload) > MaxBasic
     /\ CASE frame.op \in Control -> frame.fin /\ ~frame.long
          [] frame.op \in Data -> r.op = "none"
          [] frame.op = "CONTINUATION" -> r.op # "none"
          [] OTHER -> FALSE
     /\ frame.op \notin Control => Len(text) <= MaxMessage
     /\ op = "TEXT" => WellFormed(text)

EndsWithin(text) == text # <<>> /\ Last(text) = "lead"

Reference ==
  LET step(r, frame) ==
        LET op == CASE frame.op = "CONTINUATION" -> r.op
                    [] frame.op = "00" -> "TEXT"
                    [] OTHER -> frame.op
            text == (IF frame.op \in Control THEN <<>> ELSE r.text) \o frame.payload
            message == [op |-> op, payload |-> text]
        IN IF r.bad \/ ~Acceptable(r, frame) THEN [r EXCEPT !.bad = TRUE]
           ELSE IF frame.op \in Control THEN [r EXCEPT !.out = Append(@, message)]
           ELSE IF frame.op # "00" /\ op = "TEXT" /\ frame.fin /\ EndsWithin(text)
             THEN [r EXCEPT !.bad = TRUE, !.cut = (frame.op = "CONTINUATION")]
           ELSE IF frame.op = "00" \/ frame.fin
             THEN [r EXCEPT !.op = "none", !.text = <<>>, !.out = Append(@, message)]
             ELSE [r EXCEPT !.op = op, !.text = text]
  IN FoldLeft(step, [op |-> "none", text |-> <<>>, out |-> <<>>, bad |-> FALSE, cut |-> FALSE],
              stream.frames)

(* However the reads cut the frames into pieces, the messages taken out of *)
(* them, unmasked and put together, are those the client sent, in order,   *)
(* up to the first frame that breaks the protocol, which is noticed,       *)
(* unless it is the last one of several and ends a text within a character *)
(* (cut).                                                                  *)
Decoded ==
  LET meant == Reference
  IN /\ IsPrefix(delivered, meant.out) \/ (meant.cut /\ IsPrefix(meant.out, delivered))
     /\ m_response = 101 /\ (Exhausted \/ ec # "none") =>
          IF meant.cut THEN IsPrefix(meant.out, delivered)
                       ELSE delivered = meant.out /\ (ec # "none" <=> meant.bad)

(* consume's comment: "ensure that text messages end on a valid UTF8 code  *)
(* point".  The texts that reach the connection do.                        *)
TextsEndWhole ==
  GetWebsocketVersion # 0 =>
    \A i \in DOMAIN delivered : delivered[i].op = "TEXT" => ~EndsWithin(delivered[i].payload)

(* A message being read, with what its frame has announced, never exceeds  *)
(* the limit, however many frames it is made of; hybi00 has none.          *)
MessageBounded ==
  LET announced ==
        IF m_state = "APPLICATION" /\ m_current_msg = "data" THEN m_bytes_needed ELSE 0
  IN GetWebsocketVersion # 0 => Len(m_data_msg.payload) + announced <= MaxMessage
=============================================================================
