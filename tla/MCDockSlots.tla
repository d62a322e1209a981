----------------------------- MODULE MCDockSlots -----------------------------
(* Two slots and two ports; the dock at one of them may fail to answer, so *)
(* that its attempts and the other dock's compete for the first slot.      *)
EXTENDS DockSlots

MCNames == {"answers", "silent"}
MCGood == {"answers"}
=============================================================================
