---------------------------- MODULE MCConnection ----------------------------
(* Every frame on its own, and after a client is ready the pairs of which  *)
(* the first changes what the second one meets.                            *)
EXTENDS Connection

MCScripts ==
  {<<>>, <<"refused">>} \cup {<<"upgrade", f>> : f \in Frames}
    \cup {<<"upgrade", "ready", "ping", "close">>, <<"upgrade", "ready", "quit", "close">>,
          <<"upgrade", "ready", "quit", "badclose">>, <<"upgrade", "close", "badclose">>,
          <<"upgrade", "badclose", "close">>, <<"upgrade", "close", "illegal">>}
=============================================================================
