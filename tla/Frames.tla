------------------------------- MODULE Frames -------------------------------
(***************************************************************************)
(* hybi13::consume: how a connection takes messages out of what it reads.  *)
(* The client's bytes come in reads of any size; consume() handles what    *)
(* one read brought and keeps what it knows about an unfinished header,    *)
(* payload or message for the next one.  A step is one turn of its loop.   *)
(*                                                                         *)
(* A byte is a record: k says what the client meant it to be, the other    *)
(* fields what it says when it is taken for that:                          *)
(*   "b0"    s: opcode, f: FIN, n: RSV bits                                *)
(*   "b1"    n: size or SizeCode, f: MASK                                  *)
(*   "size"  n: the size               "key"   key: the key                *)
(*   "data"  s: a character, masked with byte n of the key                 *)
(* Sizes are scaled down: a size field has one byte (2 or 8 in the code),  *)
(* and 64-bit sizes are not distinguished.                                 *)
(***************************************************************************)
EXTENDS Integers, Sequences, SequencesExt, FiniteSetsExt

CONSTANTS
  MaxBasic,   (* frame::limits::payload_size_basic, 125                    *)
  KeyBytes,   (* length of a masking key, 4                                *)
  MaxMessage  (* m_max_message_size                                        *)

ASSUME FramesAssumption ==
  /\ MaxBasic \in Nat /\ KeyBytes \in Nat \ {0} /\ MaxMessage \in Nat

SizeCode == MaxBasic + 1

VARIABLES
  chunk,              (* what is left of the last read                     *)
  m_state,
  m_bytes_needed,     (* of the part of the frame m_state is about         *)
  m_basic_header, m_extended_header,  (* their bytes so far                *)
  m_data_msg, m_control_msg,          (* messages being read               *)
  m_current_msg,      (* which of them the frame belongs to                *)
  delivered,          (* messages given to the connection                  *)
  ec                  (* the error consume() has reported                  *)

headers == <<m_state, m_bytes_needed, m_basic_header, m_extended_header>>
messages == <<m_data_msg, m_control_msg, m_current_msg>>
framing == <<headers, messages, delivered, ec>>

Data == {"TEXT", "BINARY"}
Control == {"CLOSE", "PING", "PONG"}

(* What is written here in quotes is a string: the provers do not know it. *)
ASSUME StringsAssumption ==
  Data \cup Control \cup {"none", "garbage", "code", "00", "ff", "CR", "LF", "x"} \subseteq STRING

(* The headers.                                                            *)
GetOpcode(h) == h[1].s
GetRsv(h) == h[1].n
GetFin(h) == h[1].f
GetMasked(h) == h[2].f
GetBasicSize(h) == h[2].n

GetHeaderLen(h) ==
  (IF GetBasicSize(h) = SizeCode THEN 1 ELSE 0) + (IF GetMasked(h) THEN KeyBytes ELSE 0)

GetPayloadSize(h, e) == IF GetBasicSize(h) = SizeCode THEN e[1].n ELSE GetBasicSize(h)

(* The key of the frame, and the byte of it that comes next.               *)
GetMaskingKey(h, e) == [key |-> Last(e).key, next |-> 0]

NoMsg == [op |-> "none", payload |-> <<>>, utf8 |-> "accept", key |-> [key |-> 0, next |-> 0]]

(* word_mask_circ and circshift_prepared_key: n bytes further the key is   *)
(* rotated by n.                                                           *)
Rotate_Aligned(key, n) == [key EXCEPT !.next = 0]

Rotate(key, n) == [key EXCEPT !.next = (@ + n) % KeyBytes]

Unmask(bytes, key) ==
  [i \in DOMAIN bytes |->
     IF bytes[i].key = key.key /\ bytes[i].n = (key.next + i - 1) % KeyBytes
       THEN bytes[i].s ELSE "garbage"]

(* The UTF-8 decoder with an ASCII character "a" and one of two bytes,     *)
(* "lead" and "cont".                                                      *)
Utf8(state, c) ==
  CASE state = "accept" /\ c = "a" -> "accept"
    [] state = "accept" /\ c = "lead" -> "rest"
    [] state = "rest" /\ c = "cont" -> "accept"
    [] OTHER -> "reject"

Decode(state, text) == FoldLeft(Utf8, state, text)

FramesInit ==
  /\ m_state = "HEADER_BASIC" /\ m_bytes_needed = 2
  /\ m_basic_header = <<>> /\ m_extended_header = <<>>
  /\ m_data_msg = NoMsg /\ m_control_msg = NoMsg /\ m_current_msg = "data"
  /\ delivered = <<>> /\ ec = "none"
-----------------------------------------------------------------------------
ResetHeaders ==
  /\ m_state' = "HEADER_BASIC"
  /\ m_bytes_needed' = 2
  /\ m_basic_header' = <<>> /\ m_extended_header' = <<>>

(* validate_incoming_basic_header, for a server.                           *)
BasicError(h) ==
  LET op == GetOpcode(h) IN
  IF op \in Control /\ GetBasicSize(h) > MaxBasic THEN "control_too_big"
  ELSE IF GetRsv(h) # 0 THEN "invalid_rsv_bit"
  ELSE IF op \notin Data \cup Control \cup {"CONTINUATION"} THEN "invalid_opcode"
  ELSE IF op \in Control /\ ~GetFin(h) THEN "fragmented_control"
  ELSE IF op = "CONTINUATION" /\ m_data_msg = NoMsg THEN "invalid_continuation"
  ELSE IF op \in Data /\ m_data_msg # NoMsg THEN "invalid_continuation"
  ELSE IF ~GetMasked(h) THEN "masking_required"
  ELSE "none"

(* What validate_incoming_extended_header refuses, ...                     *)
NonMinimal(h, e) == GetBasicSize(h) = SizeCode /\ e[1].n <= MaxBasic

(* ... and the limit on the size of the message a frame is part of.        *)
TooBig_PerFrame(h, e) == GetOpcode(h) \notin Control /\ GetPayloadSize(h, e) > MaxMessage

TooBig(h, e) ==
  GetOpcode(h) \notin Control /\ Len(m_data_msg.payload) + GetPayloadSize(h, e) > MaxMessage

ExtendedError(h, e) ==
  IF NonMinimal(h, e) THEN "non_minimal_encoding" ELSE IF TooBig(h, e) THEN "message_too_big" ELSE "none"

(* The loop goes on while there are bytes, or nothing more is needed.      *)
Turn_IfBytes(s) == ec = "none" /\ m_state = s /\ chunk # <<>>

Turn(s) == ec = "none" /\ m_state = s /\ (chunk # <<>> \/ m_bytes_needed = 0)

Available == Min({m_bytes_needed, Len(chunk)})

Take(n) == SubSeq(chunk, 1, n)

Skip(n) == chunk' = SubSeq(chunk, n + 1, Len(chunk))

HeaderBasic ==
  /\ Turn("HEADER_BASIC")
  /\ Skip(Available)
  /\ m_basic_header' = m_basic_header \o Take(Available)
  /\ ec' = IF Available = m_bytes_needed THEN BasicError(m_basic_header') ELSE "none"
  /\ IF Available = m_bytes_needed /\ ec' = "none"
       THEN /\ m_state' = "HEADER_EXTENDED"
            /\ m_extended_header' = <<>>
            /\ m_bytes_needed' = GetHeaderLen(m_basic_header')
       ELSE /\ m_bytes_needed' = m_bytes_needed - Available
            /\ UNCHANGED <<m_state, m_extended_header>>
  /\ UNCHANGED <<messages, delivered>>

(* A message begins, or the next part of one that is being read.           *)
BeginPayload(h, e) ==
  /\ m_current_msg' = IF GetOpcode(h) \in Control THEN "control" ELSE "data"
  /\ IF GetOpcode(h) \in Control
       THEN /\ m_control_msg' = [NoMsg EXCEPT !.op = GetOpcode(h), !.key = GetMaskingKey(h, e)]
            /\ UNCHANGED m_data_msg
       ELSE /\ m_data_msg' = IF m_data_msg = NoMsg
                               THEN [NoMsg EXCEPT !.op = GetOpcode(h), !.key = GetMaskingKey(h, e)]
                               ELSE [m_data_msg EXCEPT !.key = GetMaskingKey(h, e)]
            /\ UNCHANGED m_control_msg

HeaderExtended ==
  /\ Turn("HEADER_EXTENDED")
  /\ Skip(Available)
  /\ m_extended_header' = m_extended_header \o Take(Available)
  /\ ec' = IF Available = m_bytes_needed
             THEN ExtendedError(m_basic_header, m_extended_header') ELSE "none"
  /\ IF Available = m_bytes_needed /\ ec' = "none"
       THEN /\ m_state' = "APPLICATION"
            /\ m_bytes_needed' = GetPayloadSize(m_basic_header, m_extended_header')
            /\ BeginPayload(m_basic_header, m_extended_header')
       ELSE /\ m_bytes_needed' = m_bytes_needed - Available
            /\ UNCHANGED <<m_state, messages>>
  /\ UNCHANGED <<m_basic_header, delivered>>

(* process_payload_bytes: n more bytes of a message.                       *)
ProcessPayload(msg, n) ==
  LET text == Unmask(Take(n), msg.key)
  IN [msg EXCEPT !.payload = @ \o text,
                 !.key = Rotate(@, n),
                 !.utf8 = IF msg.op = "TEXT" THEN Decode(@, text) ELSE @]

CurrentMsg == IF m_current_msg = "data" THEN m_data_msg ELSE m_control_msg

PayloadError(msg, complete) ==
  IF msg.utf8 = "reject" \/ (complete /\ GetOpcode(m_basic_header) = "TEXT" /\ msg.utf8 # "accept")
    THEN "invalid_utf8" ELSE "none"

Application ==
  LET msg == ProcessPayload(CurrentMsg, Available)
      frameEnds == Available = m_bytes_needed
      complete == frameEnds /\ GetFin(m_basic_header)
  IN /\ Turn("APPLICATION")
     /\ Skip(Available)
     /\ IF m_current_msg = "data"
          THEN m_data_msg' = msg /\ UNCHANGED m_control_msg
          ELSE m_control_msg' = msg /\ UNCHANGED m_data_msg
     /\ ec' = PayloadError(msg, complete)
     /\ IF frameEnds /\ ~complete
          THEN ResetHeaders
          ELSE /\ m_bytes_needed' = m_bytes_needed - Available
               /\ m_state' = IF complete /\ ec' = "none" THEN "READY" ELSE m_state
               /\ UNCHANGED <<m_basic_header, m_extended_header>>
     /\ UNCHANGED <<m_current_msg, delivered>>

(* get_message, which handle_read_frame calls when consume() returns.      *)
GetMessage ==
  /\ m_state = "READY"
  /\ delivered' = Append(delivered, [op |-> CurrentMsg.op, payload |-> CurrentMsg.payload])
  /\ IF m_current_msg = "data"
       THEN m_data_msg' = NoMsg /\ UNCHANGED m_control_msg
       ELSE m_control_msg' = NoMsg /\ UNCHANGED m_data_msg
  /\ ResetHeaders
  /\ UNCHANGED <<chunk, m_current_msg, ec>>

Errors ==
  {"none", "control_too_big", "invalid_rsv_bit", "invalid_opcode", "fragmented_control",
   "invalid_continuation", "masking_required", "non_minimal_encoding", "message_too_big", "invalid_utf8",
   "protocol_violation"}

MsgType ==
  [op : Data \cup Control \cup {"none"}, payload : Seq(STRING), utf8 : {"accept", "rest", "reject"},
   key : [key : Nat, next : Nat]]

FramesType ==
  /\ m_state \in {"HEADER_BASIC", "HEADER_EXTENDED", "APPLICATION", "READY", "HEADER", "PAYLOAD"}
  /\ m_bytes_needed \in Nat
  /\ Len(m_basic_header) <= 2 /\ Len(m_extended_header) <= KeyBytes + 1
  /\ m_data_msg \in MsgType /\ m_control_msg \in MsgType
  /\ m_current_msg \in {"data", "control"}
  /\ ec \in Errors

ConsumeFrames == HeaderBasic \/ HeaderExtended \/ Application \/ GetMessage
=============================================================================
