------------------------------- MODULE Session -------------------------------
(***************************************************************************)
(* What a websocket connection promises to the daemon that serves it: of   *)
(* the fail and the open handler one is called, once; the close handler    *)
(* once, and only after the open handler; what was accepted for sending    *)
(* goes to the transport in that order, and nothing goes after the frame   *)
(* that ends the connection.                                               *)
(***************************************************************************)
EXTENDS Naturals, Sequences, SequencesExt

CONSTANTS
  Messages,  (* data and control frames that may be sent                   *)
  Closers,   (* close frames ...                                           *)
  Final      (* ... and the one after which the connection is ended        *)

VARIABLES
  phase,     (* "connecting", "open", "closing" or "closed"                *)
  calls,     (* handlers of the daemon that have been called, in order     *)
  accepted,  (* messages accepted for sending                              *)
  written    (* messages handed to the transport                           *)

vars == <<phase, calls, accepted, written>>

Init ==
  /\ phase = "connecting"
  /\ calls = <<>>
  /\ accepted = <<>>
  /\ written = <<>>

Open ==
  /\ phase = "connecting"
  /\ phase' = "open"
  /\ UNCHANGED <<calls, accepted, written>>

TellOpen ==
  /\ phase = "open"
  /\ calls = <<>>
  /\ calls' = <<"open">>
  /\ UNCHANGED <<phase, accepted, written>>

Fail ==
  /\ phase = "connecting"
  /\ phase' = "closed"
  /\ UNCHANGED <<calls, accepted, written>>

TellFail ==
  /\ phase = "closed"
  /\ calls = <<>>
  /\ calls' = <<"fail">>
  /\ UNCHANGED <<phase, accepted, written>>

Accept ==
  /\ phase \in {"open", "closing"}
  /\ calls = <<"open">>
  /\ \E m \in Messages : accepted' = Append(accepted, m)
  /\ UNCHANGED <<phase, calls, written>>

(* A close frame, and perhaps a last message before it.                    *)
BeginClose ==
  /\ phase \in {"open", "closing"}
  /\ calls = <<"open">>
  /\ phase' = "closing"
  /\ \E c \in Closers :
       \/ accepted' = Append(accepted, c)
       \/ \E m \in Messages : accepted' = accepted \o <<m, c>>
  /\ UNCHANGED <<calls, written>>

(* What has not been written by then is lost.                              *)
Close ==
  /\ phase \in {"open", "closing"}
  /\ calls = <<"open">>
  /\ phase' = "closed"
  /\ accepted' = written
  /\ UNCHANGED <<calls, written>>

TellClose ==
  /\ phase = "closed"
  /\ calls = <<"open">>
  /\ calls' = <<"open", "close">>
  /\ UNCHANGED <<phase, accepted, written>>

(* A batch goes to the transport.                                          *)
Write ==
  /\ phase # "closed"
  /\ Final \notin Range(written)
  /\ \E n \in 1 .. Len(accepted) :
       /\ n > Len(written)
       /\ written' = SubSeq(accepted, 1, n)
  /\ Final \notin Range(Front(written'))
  /\ UNCHANGED <<phase, calls, accepted>>

Next ==
  \/ Open \/ TellOpen \/ Fail \/ TellFail \/ Close \/ TellClose
  \/ Accept \/ BeginClose \/ Write

Spec == Init /\ [][Next]_vars
=============================================================================
