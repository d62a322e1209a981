------------------------------ MODULE MCDockLink ------------------------------
(***************************************************************************)
(* A dock that has a module with a long name.  Two that leave out the      *)
(* serial, so that they connect only where another has been before: one    *)
(* that finds two modules in the channel and sends the data of the first,  *)
(* and tells its own name late; one that loses a module and sends a bare   *)
(* line.  get_version_info swallows what comes about modules unless the    *)
(* dock pauses before.                                                     *)
(***************************************************************************)
EXTENDS DockLink

MCAnswers ==
  {<<"ready", "version", "serial", "user", "c_long">>,
   <<"ready", "version", "c_short", "c_long", "u_short", "name">>,
   <<"ready", "version", "d", "bare">>}
=============================================================================
