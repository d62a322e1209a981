---------------------------- MODULE MCModuleEvents ----------------------------
(* ModuleEvents for TLC: a dock of two channels is the smallest in which   *)
(* disconnect() and init_client go from one channel to the next while      *)
(* process_command works on either; one name is enough, since a name that  *)
(* is kept, being written or missing can be told apart.                    *)
EXTENDS ModuleEvents

MCNumChannels == 2
MCNames == {"motor"}
=============================================================================
