----------------------------- MODULE TokenRing -----------------------------
(***************************************************************************)
(* What the counter workloads of labs 0104 and 0105 promise: the counter   *)
(* moves by one at a time, and in the hand-off ring it is moved by its     *)
(* participants in turn.                                                   *)
(***************************************************************************)
EXTENDS Integers

VARIABLES
  size,     \* participants of the ring, or 0 where there is no ring
  holder,   \* the participant whose turn it is
  counter,
  who       \* the participant that counted last

Init == size \in Nat /\ holder = 0 /\ counter = 0

Count ==
  /\ counter' = counter + 1
  /\ size # 0 => who' = holder
  /\ holder' = IF size = 0 THEN holder ELSE (holder + 1) % size
  /\ UNCHANGED size

Spec == Init /\ [][Count]_<<size, holder, counter, who>>
=============================================================================
