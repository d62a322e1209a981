------------------------------ MODULE Outbound ------------------------------
(***************************************************************************)
(* The frames that the server writes: hybi13's prepare_*, the headers of   *)
(* frame.hpp, and the codes of close frames.  Bytes are those of Frames; a *)
(* code's two bytes are a character "code" and the code's name.  A frame   *)
(* that is refused is <<>>.                                                *)
(***************************************************************************)
EXTENDS Frames, TLC

CONSTANT Codes   (* the codes that occur                                   *)

(* A code's two bytes, as text.                                            *)
CodeName(code) == ToString(code)

(* Those that the server sends are among them, and no two look the same.   *)
ASSUME WidthAssumption == \A c \in Codes : c \in Nat /\ c < 65536

ASSUME CodesAssumption == {1000, 1001, 1002, 1007, 1009, 1011} \subseteq Codes

ASSUME NamesAssumption ==
  \A c \in Codes : CodeName(c) \in STRING /\ \A d \in Codes : CodeName(c) = CodeName(d) => c = d
-----------------------------------------------------------------------------
NoStatus == 1005

Reserved(code) == code \in 1016 .. 2999 \cup {1004, 1014}

Invalid(code) == code <= 999 \/ code >= 5000 \/ code \in {NoStatus, 1006, 1015}

(* The frame with such a code ends the connection.                         *)
Terminal(code) == code \in {1002, 1007, 1008, 1009, 1011}

CodeBytes(code) == <<"code", CodeName(code)>>

(* Two characters of a text make a number that no code has.                *)
Number(bytes) ==
  IF \E c \in Codes : bytes = CodeBytes(c) THEN CHOOSE c \in Codes : bytes = CodeBytes(c)
                                           ELSE 65535

(* The code of a close frame that has come, and whether it may be there.   *)
ExtractCode(payload) ==
  CASE payload = <<>> -> [code |-> NoStatus, bad |-> FALSE]
    [] Len(payload) = 1 -> [code |-> 1002, bad |-> TRUE]
    [] OTHER -> LET code == Number(SubSeq(payload, 1, 2))
                IN [code |-> code, bad |-> Invalid(code) \/ Reserved(code)]

IsUtf8(text) == Decode("accept", text) = "accept"

ExtractReason(payload) ==
  LET reason == SubSeq(payload, 3, Len(payload))
  IN [reason |-> reason, bad |-> ~IsUtf8(reason)]

(* The code that tells a client what consume() found wrong.                *)
ToWs(error) ==
  CASE error \in {"protocol_violation", "control_too_big", "invalid_rsv_bit", "invalid_opcode",
                  "fragmented_control", "invalid_continuation", "masking_required"} -> 1002
    [] error = "invalid_utf8" -> 1007
    [] error = "message_too_big" -> 1009
    [] OTHER -> 1011
-----------------------------------------------------------------------------
Byte(k, s, n, f) == [k |-> k, s |-> s, n |-> n, f |-> f, key |-> 0]

BasicHeader_OffByOne(op, size, fin, mask) ==
  <<Byte("b0", op, 0, fin), Byte("b1", "none", IF size < MaxBasic THEN size ELSE SizeCode, mask)>>

BasicHeader(op, size, fin, mask) ==
  <<Byte("b0", op, 0, fin), Byte("b1", "none", IF size <= MaxBasic THEN size ELSE SizeCode, mask)>>

(* Zeros, as many as there could be, unless the size goes here.            *)
ExtendedHeader(size) == <<Byte("size", "none", IF size <= MaxBasic THEN 0 ELSE size, FALSE)>>

PrepareHeader(h, e) == h \o SubSeq(e, 1, GetHeaderLen(h))

Payload(text) == [i \in DOMAIN text |-> Byte("data", text[i], 0, FALSE)]

(* fin is set in every message that Flotilla sends.                        *)
PrepareDataFrame(op, text) ==
  IF op \in Control \/ (op = "TEXT" /\ ~IsUtf8(text))
    THEN <<>>
    ELSE PrepareHeader(BasicHeader(op, Len(text), TRUE, FALSE), ExtendedHeader(Len(text)))
           \o Payload(text)

PrepareControl(op, text) ==
  IF op \notin Control \/ Len(text) > MaxBasic
    THEN <<>>
    ELSE PrepareHeader(BasicHeader(op, Len(text), TRUE, FALSE), ExtendedHeader(Len(text)))
           \o Payload(text)

PrepareClose(code, reason) ==
  CASE Reserved(code) \/ (Invalid(code) /\ code # NoStatus) -> <<>>
    [] code = NoStatus /\ reason # <<>> -> <<>>
    [] Len(reason) + 2 > MaxBasic -> <<>>
    [] OTHER -> PrepareControl("CLOSE", IF code = NoStatus THEN <<>> ELSE CodeBytes(code) \o reason)
=============================================================================
