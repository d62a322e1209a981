--------------------------- MODULE MCFlotillaModule ---------------------------
(***************************************************************************)
(* One channel, two values, a volatile and an ordinary module.             *)
(***************************************************************************)
EXTENDS FlotillaModule

MCNames == {"touch", "dial"}
=============================================================================
