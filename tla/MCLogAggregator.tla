-------------------------- MODULE MCLogAggregator --------------------------
(***************************************************************************)
(* Values for the constants of LogAggregator: p2 makes a single entry,     *)
(* which may be too large for the receivers.                               *)
(***************************************************************************)
EXTENDS LogAggregator

CONSTANTS p1, p2

MCProducers == {p1, p2}
MCMsgs == [p \in MCProducers |-> IF p = p1 THEN 2 ELSE 1]
=============================================================================
