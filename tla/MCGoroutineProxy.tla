-------------------------- MODULE MCGoroutineProxy --------------------------
(***************************************************************************)
(* Values for the constants of GoroutineProxy: two clients, one of which   *)
(* sends a second message.                                                 *)
(***************************************************************************)
EXTENDS GoroutineProxy

CONSTANTS c1, c2

MCClients == {c1, c2}
MCMsgs == [c \in MCClients |-> IF c = c1 THEN 2 ELSE 1]
=============================================================================
