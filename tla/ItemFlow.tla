------------------------------ MODULE ItemFlow ------------------------------
(***************************************************************************)
(* What a pipeline stage promises to whoever feeds it and drains it,       *)
(* without channels or workers: every value put into its input settles at  *)
(* most once, as a result, as a skipped error or, only after the context   *)
(* was cancelled, as a dropped result; and the output is closed only once  *)
(* nothing more can come out.                                              *)
(***************************************************************************)
CONSTANT Items

VARIABLES
  fate,         \* what has become of each value
  inputClosed,  \* no more values will be put in
  cancelled,    \* the context is cancelled
  closed        \* the output channel is closed

flowVars == <<fate, inputClosed, cancelled, closed>>

Init ==
  /\ fate = [i \in Items |-> "absent"]
  /\ inputClosed = FALSE
  /\ cancelled = FALSE
  /\ closed = FALSE

Accept(i) ==
  /\ ~inputClosed
  /\ fate[i] = "absent"
  /\ fate' = [fate EXCEPT ![i] = "accepted"]
  /\ UNCHANGED <<inputClosed, cancelled, closed>>

\* An accepted value settles, and never again, while the output is open.
Settle(i) ==
  /\ ~closed
  /\ fate[i] = "accepted"
  /\ \E f \in {"emitted", "failed"} \cup (IF cancelled THEN {"dropped"} ELSE {}) :
       fate' = [fate EXCEPT ![i] = f]
  /\ UNCHANGED <<inputClosed, cancelled, closed>>

EndInput ==
  /\ ~inputClosed
  /\ inputClosed' = TRUE
  /\ UNCHANGED <<fate, cancelled, closed>>

Cancel ==
  /\ ~cancelled
  /\ cancelled' = TRUE
  /\ UNCHANGED <<fate, inputClosed, closed>>

\* Without a cancellation nothing that was accepted may still be pending.
Close ==
  /\ ~closed
  /\ cancelled \/ (inputClosed /\ \A i \in Items : fate[i] # "accepted")
  /\ closed' = TRUE
  /\ UNCHANGED <<fate, inputClosed, cancelled>>

Next ==
  \/ EndInput \/ Cancel \/ Close
  \/ \E i \in Items : Accept(i) \/ Settle(i)

Spec == Init /\ [][Next]_flowVars
=============================================================================
