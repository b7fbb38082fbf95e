------------------------------ MODULE StageEnv ------------------------------
(***************************************************************************)
(* A stage (Stage.tla) between a producer that puts 1, 2, .. N into s.in   *)
(* and may close it, a consumer that drains the output, and an owner of    *)
(* the context that may cancel it at any time: the surroundings            *)
(* stage_test.go builds and main.go builds four times.  History variables  *)
(* record what became of every value.                                      *)
(***************************************************************************)
EXTENDS Stage

CONSTANTS
  N,      \* number of values the producer has
  inCap   \* capacity of s.in

ASSUME StageEnvAssumption ==
  /\ N \in Nat
  /\ inCap \in Nat \ {0}
  /\ Items = 1 .. N

VARIABLES
  sent,       \* the producer has sent the values 1 .. sent
  delivered,  \* what the consumer has received, in order
  failed,     \* values skipped because s.fn returned an error
  dropped     \* values whose result was given up on a cancelled context

history == <<sent, delivered, failed, dropped>>
vars    == <<stageVars, history>>

Init ==
  /\ StageInit
  /\ in = <<>>
  /\ inClosed = FALSE
  /\ ctxDone = FALSE
  /\ sent = 0
  /\ delivered = <<>>
  /\ failed = {}
  /\ dropped = {}

-----------------------------------------------------------------------------
Produce ==
  /\ ~inClosed
  /\ sent < N
  /\ Len(in) < inCap
  /\ in' = Append(in, sent + 1)
  /\ sent' = sent + 1
  /\ UNCHANGED <<inClosed, out, outClosed, ctxDone, workerVars, metrics,
                 delivered, failed, dropped>>

CloseIn ==
  /\ ~inClosed
  /\ inClosed' = TRUE
  /\ UNCHANGED <<in, out, outClosed, ctxDone, workerVars, metrics, history>>

CancelCtx ==
  /\ ~ctxDone
  /\ ctxDone' = TRUE
  /\ UNCHANGED <<in, inClosed, out, outClosed, workerVars, metrics, history>>

Consume ==
  /\ out # <<>>
  /\ out' = Tail(out)
  /\ delivered' = Append(delivered, Head(out))
  /\ UNCHANGED <<in, inClosed, outClosed, ctxDone, workerVars, metrics,
                 sent, failed, dropped>>

\* The steps of the stage, with the history of the value they settle.
QuietStep(w) ==
  /\ \/ Receive(w) \/ ReturnClosed(w) \/ ReturnCancelled(w)
     \/ FnReturn(w) \/ Send(w)
  /\ UNCHANGED history

FailStep(w) ==
  /\ FnError(w)
  /\ failed' = failed \cup {item[w]}
  /\ UNCHANGED <<sent, delivered, dropped>>

DropStep(w) ==
  /\ AbandonSend(w)
  /\ dropped' = dropped \cup {item[w]}
  /\ UNCHANGED <<sent, delivered, failed>>

Step(w) == QuietStep(w) \/ FailStep(w) \/ DropStep(w)

CloseStep == CloseOut /\ UNCHANGED history

\* Nothing is left to do: the consumer has seen the end of the output.
Finished ==
  /\ outClosed
  /\ out = <<>>
  /\ UNCHANGED vars

Next ==
  \/ Produce \/ CloseIn \/ CancelCtx \/ Consume \/ CloseStep \/ Finished
  \/ \E w \in Workers : Step(w)

Spec == Init /\ [][Next]_vars

\* Goroutines that can run do run, and s.fn returns.
WorkerFairness == WF_vars(CloseStep) /\ \A w \in Workers : WF_vars(Step(w))

\* Fairness of the stage alone: nobody need drain the output, produce or close.
FairSpec == Spec /\ WorkerFairness

\* The consumer keeps ranging over the output, as main.go does.
Drained == WF_vars(Consume)

-----------------------------------------------------------------------------
Emitted == Range(out) \cup Range(delivered)
Settled == Emitted \cup failed \cup dropped

Sending == {w \in Workers : pc[w] = "send"}
Gone    == {w \in Workers : pc[w] = "done"}

(***************************************************************************)
(* Type invariant of the closed system.                                    *)
(***************************************************************************)
TypeOK ==
  /\ StageTypeOK
  /\ Len(in) <= inCap
  /\ Len(out) <= BufferSize
  /\ sent \in 0 .. N
  /\ delivered \in Seq(Items)
  /\ failed \subseteq Items
  /\ dropped \subseteq Items

(***************************************************************************)
(* Conservation: what the producer has sent is always in exactly one place *)
(* (waiting in s.in, with exactly one worker, in the output channel,       *)
(* received by the consumer, skipped as an error, dropped on cancellation),*)
(* and once only.  Two workers receiving from one channel, the skip on     *)
(* error and the two ways out of the inner select must not lose or         *)
(* duplicate a value.                                                      *)
(***************************************************************************)
NoLoss == 1 .. sent = Range(in) \cup Held \cup Settled

Apart(S, T) == S \cap T = {}

OnePlace ==
  /\ Apart(Range(in), Held \cup Settled)
  /\ Apart(Held, Settled)
  /\ Apart(Range(out), Range(delivered) \cup failed \cup dropped)
  /\ Apart(Range(delivered), failed \cup dropped)
  /\ Apart(failed, dropped)

HeldOnce == \A v, w \in Busy : item[v] = item[w] => v = w

NoDuplicate ==
  /\ IsInjective(in)
  /\ IsInjective(out)
  /\ IsInjective(delivered)
  /\ HeldOnce

Conservation == NoLoss /\ OnePlace /\ NoDuplicate

(***************************************************************************)
(* No worker can reach the send once the output is closed: close(out) waits*)
(* for the whole pool, whichever way each worker left.  A send on a closed *)
(* channel would panic and take the pipeline down.                         *)
(***************************************************************************)
NoSendOnClosedChannel == outClosed => Busy = {}

(***************************************************************************)
(* An output that closes without a cancellation has swallowed nothing: the *)
(* input had ended and every value was emitted or skipped as an error.     *)
(***************************************************************************)
CleanClose ==
  (outClosed /\ ~ctxDone) => (inClosed /\ 1 .. sent = Emitted \cup failed)

(***************************************************************************)
(* A cancellation costs at most one finished result per worker; values not *)
(* yet received stay in s.in.                                              *)
(***************************************************************************)
LossBound ==
  /\ dropped # {} => ctxDone
  /\ Cardinality(dropped) <= Cardinality(Gone)

(***************************************************************************)
(* The three counters agree with what happened to the values, in every     *)
(* interleaving: stage_test.go reads them only after the stage has stopped.*)
(***************************************************************************)
MetricsBalance ==
  /\ metrics.processed = sent - Len(in)
  /\ metrics.errors = Cardinality(failed)
  /\ metrics.latencies =
       Cardinality(Sending) + Cardinality(Emitted) + Cardinality(dropped)

(***************************************************************************)
(* Workers may overtake each other, but not by more than one value each: a *)
(* value whose result is out was never overtaken in s.in, and fewer        *)
(* earlier values than there are workers are in progress or come out later.*)
(* With one worker the output keeps the order of the input, errors skipped.*)
(***************************************************************************)
Late(j) ==
  LET line == delivered \o out
  IN  {i \in 1 .. j - 1 :
        \/ i \in Range(in) \cup Held
        \/ \E p, q \in DOMAIN line : p < q /\ line[p] = j /\ line[q] = i}

BoundedOvertaking ==
  \A j \in Emitted :
    /\ Late(j) \cap Range(in) = {}
    /\ Cardinality(Late(j)) < Cardinality(Workers)

(***************************************************************************)
(* The output closes in the end, by either way out of the loop. Cancelling *)
(* the context closes it even when the consumer has stopped reading and    *)
(* the producer neither sends nor closes: neither select may block on its  *)
(* channel alone. Closing the input of a stage that is being drained       *)
(* closes it without any cancellation: the shutdown of the pipeline        *)
(* travels from stage to stage.                                            *)
(***************************************************************************)
OutputCloses ==
  /\ ctxDone ~> outClosed
  /\ Drained => (inClosed ~> outClosed)

(***************************************************************************)
(* While the output is drained every value sent is eventually emitted,     *)
(* skipped or dropped, or left in s.in by a cancellation.                  *)
(***************************************************************************)
EveryItemSettles ==
  Drained => \A i \in Items : (i \in Range(in)) ~> (i \in Settled \/ ctxDone)

-----------------------------------------------------------------------------
\* How the concrete places read as fates of the abstract specification.
FateOf(i) ==
  CASE i \in Emitted -> "emitted"
    [] i \in failed  -> "failed"
    [] i \in dropped -> "dropped"
    [] i \in (1 .. sent) \ Settled -> "accepted"
    [] OTHER -> "absent"

Flow == INSTANCE ItemFlow WITH
          fate        <- [i \in Items |-> FateOf(i)],
          inputClosed <- inClosed,
          cancelled   <- ctxDone,
          closed      <- outClosed

(***************************************************************************)
(* The stage implements the promise of ItemFlow.                           *)
(***************************************************************************)
ImplementsFlow == Flow!Spec
=============================================================================
