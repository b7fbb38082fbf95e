---------------------------- MODULE AtomicDedup ----------------------------
(***************************************************************************)
(* What deduplication means: documents are judged one at a time, each      *)
(* against everything indexed before it.  A document that is excused may   *)
(* enter the index beside a similar one; but none is rejected in error.    *)
(***************************************************************************)
CONSTANTS Docs, Similar(_, _)

VARIABLES index, verdict, excused

Init ==
  /\ index = {}
  /\ verdict = [d \in Docs |-> "pending"]
  /\ excused = {}

IndexNew(d) ==
  /\ verdict[d] = "pending"
  /\ d \in excused \/ \A e \in index : ~Similar(d, e)
  /\ index' = index \cup {d}
  /\ verdict' = [verdict EXCEPT ![d] = "new"]
  /\ UNCHANGED excused

RejectDuplicate(d) ==
  /\ verdict[d] = "pending"
  /\ \E e \in index : Similar(d, e)
  /\ verdict' = [verdict EXCEPT ![d] = "duplicate"]
  /\ UNCHANGED <<index, excused>>

Excuse ==
  /\ excused \subseteq excused'
  /\ UNCHANGED <<index, verdict>>

Next == Excuse \/ \E d \in Docs : IndexNew(d) \/ RejectDuplicate(d)

Spec == Init /\ [][Next]_<<index, verdict, excused>>
=============================================================================
