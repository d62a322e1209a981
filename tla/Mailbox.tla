------------------------------- MODULE Mailbox -------------------------------
(***************************************************************************)
(* What one direction of a FlotillaModule promises, whatever the queues    *)
(* look like inside: values are numbered 1, 2, 3, ... as they are posted,  *)
(* and the values floor+1 .. posted are pending.  Taking a value looks at  *)
(* a pending one and need not remove it: the code keeps the newest value   *)
(* as "the current one", so a value may be looked at again, but never      *)
(* after a newer one.  A lossless mailbox hands out the oldest pending     *)
(* value and discards only what it handed out; any other may skip values,  *)
(* before or after the one it hands out, but never the newest.  Drop       *)
(* empties the mailbox at once; KeepSpec is a mailbox that never does.     *)
(***************************************************************************)
EXTENDS Integers

VARIABLES
  posted,   (* how many values have been posted so far                    *)
  floor,    (* values 1 .. floor are no longer pending                    *)
  taken,    (* number of the value looked at last, 0 = none               *)
  lossless  (* TRUE while the module is a volatile one                    *)

vars == <<posted, floor, taken, lossless>>

Init ==
  /\ posted = 0
  /\ floor = 0
  /\ taken = 0
  /\ lossless \in BOOLEAN

Post ==
  /\ posted' = posted + 1
  /\ UNCHANGED <<floor, taken, lossless>>

Take ==
  /\ floor < posted
  /\ taken' \in (floor + 1) .. posted
  /\ floor' \in (taken' - 1) .. (posted - 1)
  /\ lossless => taken' = floor + 1 /\ floor' <= taken'
  /\ UNCHANGED <<posted, lossless>>

Drop ==
  /\ floor' = posted
  /\ lossless' \in BOOLEAN
  /\ UNCHANGED <<posted, taken>>

(* Another kind of module is plugged in; pending values survive.           *)
Retype ==
  /\ lossless' \in BOOLEAN
  /\ UNCHANGED <<posted, floor, taken>>

Next == Post \/ Take \/ Drop \/ Retype

Spec == Init /\ [][Next]_vars

(* A mailbox that nothing empties: the newest value stays pending.         *)
Keeping == Post \/ Take \/ Retype

KeepSpec == Init /\ [][Keeping]_vars
-----------------------------------------------------------------------------
(* The pending values are a suffix of the posted ones and the value looked *)
(* at last is at most the oldest pending one.                              *)
Inv ==
  /\ posted \in Nat
  /\ floor \in 0 .. posted
  /\ taken \in 0 .. posted
  /\ taken <= floor + 1
  /\ lossless \in BOOLEAN

(* The worker never goes back to a value older than one it has looked at.  *)
NeverBackwards == [][taken' >= taken]_vars
=============================================================================
