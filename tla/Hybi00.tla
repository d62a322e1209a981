------------------------------- MODULE Hybi00 -------------------------------
(***************************************************************************)
(* The other protocol the server speaks, hybi00: a message is a text       *)
(* between two marks, "00" and "ff", and nothing else is legal.  Its       *)
(* consume() keeps its state in variables of Frames: m_msg_ptr is          *)
(* m_data_msg here.  There is no limit to a message's size, and what is in *)
(* it is not looked at.                                                    *)
(***************************************************************************)
EXTENDS Outbound

Mark(s) == Byte("mark", s, 0, FALSE)

Hybi00Turn(s) == ec = "none" /\ m_state = s /\ chunk # <<>>

Header00 ==
  /\ Hybi00Turn("HEADER")
  /\ IF chunk[1] = Mark("00")
       THEN /\ Skip(1)
            /\ m_data_msg' = [NoMsg EXCEPT !.op = "TEXT"]
            /\ m_state' = "PAYLOAD"
            /\ UNCHANGED ec
       ELSE /\ ec' = "protocol_violation"
            /\ UNCHANGED <<chunk, m_data_msg, m_state>>
  /\ UNCHANGED <<m_bytes_needed, m_basic_header, m_extended_header, m_control_msg, m_current_msg,
                 delivered>>

(* Everything up to the mark, or all there is.                             *)
Payload00 ==
  LET ends == {i \in DOMAIN chunk : chunk[i] = Mark("ff")}
      n == IF ends = {} THEN Len(chunk) ELSE Min(ends) - 1
  IN /\ Hybi00Turn("PAYLOAD")
     /\ m_data_msg' = [m_data_msg EXCEPT !.payload = @ \o [i \in 1 .. n |-> chunk[i].s]]
     /\ IF ends = {} THEN Skip(n) /\ UNCHANGED m_state
                     ELSE Skip(n + 1) /\ m_state' = "READY"
     /\ UNCHANGED <<m_bytes_needed, m_basic_header, m_extended_header, m_control_msg, m_current_msg,
                    delivered, ec>>

GetMessage00 ==
  /\ m_state = "READY"
  /\ delivered' = Append(delivered, [op |-> m_data_msg.op, payload |-> m_data_msg.payload])
  /\ m_data_msg' = NoMsg
  /\ m_state' = "HEADER"
  /\ UNCHANGED <<chunk, m_bytes_needed, m_basic_header, m_extended_header, m_control_msg,
                 m_current_msg, ec>>

ConsumeHybi00 == Header00 \/ Payload00 \/ GetMessage00
-----------------------------------------------------------------------------
PrepareDataFrame00(op, text) ==
  IF op # "TEXT" \/ ~IsUtf8(text)
    THEN <<>>
    ELSE <<Mark("00")>> \o Payload(text) \o <<Mark("ff")>>

(* Code and reason are left out.                                           *)
PrepareClose00 == <<Mark("ff"), Mark("00")>>
=============================================================================
