------------------------------- MODULE Stage -------------------------------
(***************************************************************************)
(* The worker pool of applications/doc-pipeline/internal/pipeline/stage.go. *)
(*                                                                         *)
(* A stage reads values from the channel s.in, applies s.fn to each of     *)
(* them in one of its worker goroutines and sends the results on a channel *)
(* that it owns.  This module holds the code of the stage alone: the steps *)
(* of its workers and of the goroutine that closes the output.  Who feeds  *)
(* s.in, who drains the output and who cancels the context is left to the  *)
(* modules that use this one (StageEnv, DocPipeline).                      *)
(***************************************************************************)
EXTENDS Integers, Sequences, FiniteSets, Functions

CONSTANTS
  Items,       \* the values that may flow through the stage
  None,        \* stands for "this worker holds no value"
  workers,     \* the argument of NewStage, any integer
  bufferSize,  \* the argument of NewStage, any integer
  Fallible     \* whether s.fn may return an error

ASSUME StageAssumption ==
  /\ None \notin Items
  /\ workers \in Int
  /\ bufferSize \in Int
  /\ Fallible \in BOOLEAN

DefaultBufferSize == 100

\* NewStage replaces non-positive sizes by its defaults.
Workers == 1 .. (IF workers <= 0 THEN 1 ELSE workers)
BufferSize == IF bufferSize <= 0 THEN DefaultBufferSize ELSE bufferSize

VARIABLES
  in,         \* contents of the input channel
  inClosed,   \* close(in) has been called upstream
  out,        \* contents of the output channel, of capacity BufferSize
  outClosed,  \* close(out) has been called by the stage
  ctxDone,    \* the context has been cancelled
  pc,         \* where each worker is: see Locations
  item,       \* the value each worker is busy with, or None
  metrics     \* the three instruments of the stage: see NoMetrics

workerVars == <<pc, item>>
stageVars  == <<in, inClosed, out, outClosed, ctxDone, workerVars, metrics>>

(***************************************************************************)
(* "select": blocked in the select over ctx.Done and s.in                  *)
(* "fn":     running s.fn on the value just received                       *)
(* "send":   blocked in the select over out and ctx.Done                   *)
(* "done":   returned, the deferred wg.Done has run                        *)
(***************************************************************************)
Locations == {"select", "fn", "send", "done"}

\* IncStageTotalProcessedItems, IncStageErrors and the number of
\* RecordProcessingLatency calls.
Instruments == {"processed", "errors", "latencies"}
NoMetrics == [m \in Instruments |-> 0]

StageInit ==
  /\ out = <<>>
  /\ outClosed = FALSE
  /\ pc = [w \in Workers |-> "select"]
  /\ item = [w \in Workers |-> None]
  /\ metrics = NoMetrics

-----------------------------------------------------------------------------
Count(m) == metrics' = [metrics EXCEPT ![m] = @ + 1]

GoTo(w, loc, v) ==
  /\ pc' = [pc EXCEPT ![w] = loc]
  /\ item' = [item EXCEPT ![w] = v]

(***************************************************************************)
(* Slips a change to the worker loop could make, kept to show that the     *)
(* properties of StageEnv tell them from the code.  Not part of StageNext. *)
(***************************************************************************)
\* The value is taken from the wrong end of the channel.
ReceiveNewest(w) ==
  /\ pc[w] = "select"
  /\ in # <<>>
  /\ in' = SubSeq(in, 1, Len(in) - 1)
  /\ GoTo(w, "fn", in[Len(in)])
  /\ Count("processed")
  /\ UNCHANGED <<inClosed, out, outClosed, ctxDone>>

\* The end of the input is noticed before its values are drained.
ReturnUndrained(w) ==
  /\ pc[w] = "select"
  /\ inClosed
  /\ GoTo(w, "done", None)
  /\ UNCHANGED <<in, inClosed, out, outClosed, ctxDone, metrics>>

\* The branch that logs the error lacks its continue.
ErrorFallsThrough(w) ==
  /\ Fallible
  /\ pc[w] = "fn"
  /\ GoTo(w, "send", item[w])
  /\ Count("errors")
  /\ UNCHANGED <<in, inClosed, out, outClosed, ctxDone>>

\* The branch that logs the error returns instead of continuing.
ErrorEndsWorker(w) ==
  /\ Fallible
  /\ pc[w] = "fn"
  /\ GoTo(w, "done", None)
  /\ Count("errors")
  /\ UNCHANGED <<in, inClosed, out, outClosed, ctxDone>>

\* A plain out <- outVal: cancellation is not awaited next to the send.
AbandonNever(w) ==
  /\ pc[w] = "send"
  /\ ctxDone /\ Len(out) < BufferSize
  /\ GoTo(w, "done", None)
  /\ UNCHANGED <<in, inClosed, out, outClosed, ctxDone, metrics>>

\* A break where the code returns: the worker goes on after giving up.
AbandonAndGoOn(w) ==
  /\ pc[w] = "send"
  /\ ctxDone
  /\ GoTo(w, "select", None)
  /\ UNCHANGED <<in, inClosed, out, outClosed, ctxDone, metrics>>

\* wg.Add(1) for the whole pool.
CloseAfterFirst ==
  /\ \E w \in Workers : pc[w] = "done"
  /\ ~outClosed
  /\ outClosed' = TRUE
  /\ UNCHANGED <<in, inClosed, out, ctxDone, workerVars, metrics>>

\* The closer also waits for the input to be used up.
CloseDrained ==
  /\ in = <<>>
  /\ \A w \in Workers : pc[w] = "done"
  /\ ~outClosed
  /\ outClosed' = TRUE
  /\ UNCHANGED <<in, inClosed, out, ctxDone, workerVars, metrics>>

-----------------------------------------------------------------------------
\* case in, ok := <-s.in with ok: the value is counted, then handed to s.fn.
\* A cancelled context does not disable this branch: Go picks any ready case.
Receive(w) ==
  /\ pc[w] = "select"
  /\ in # <<>>
  /\ in' = Tail(in)
  /\ GoTo(w, "fn", Head(in))
  /\ Count("processed")
  /\ UNCHANGED <<inClosed, out, outClosed, ctxDone>>

\* case in, ok := <-s.in with !ok: closed channels deliver what they hold first.
ReturnClosed(w) ==
  /\ pc[w] = "select"
  /\ in = <<>>
  /\ inClosed
  /\ GoTo(w, "done", None)
  /\ UNCHANGED <<in, inClosed, out, outClosed, ctxDone, metrics>>

\* case <-ctx.Done() of the outer select.
ReturnCancelled(w) ==
  /\ pc[w] = "select"
  /\ ctxDone
  /\ GoTo(w, "done", None)
  /\ UNCHANGED <<in, inClosed, out, outClosed, ctxDone, metrics>>

\* s.fn returned an error: the value is counted as an error and skipped.
FnError(w) ==
  /\ Fallible
  /\ pc[w] = "fn"
  /\ GoTo(w, "select", None)
  /\ Count("errors")
  /\ UNCHANGED <<in, inClosed, out, outClosed, ctxDone>>

\* s.fn returned a result: its latency is recorded before it is sent.
FnReturn(w) ==
  /\ pc[w] = "fn"
  /\ GoTo(w, "send", item[w])
  /\ Count("latencies")
  /\ UNCHANGED <<in, inClosed, out, outClosed, ctxDone>>

\* case out <- outVal.  On a closed channel this would panic: see
\* NoSendOnClosedChannel.
Send(w) ==
  /\ pc[w] = "send"
  /\ Len(out) < BufferSize
  /\ out' = Append(out, item[w])
  /\ GoTo(w, "select", None)
  /\ UNCHANGED <<in, inClosed, outClosed, ctxDone, metrics>>

\* case <-ctx.Done() of the inner select: the finished result is given up.
AbandonSend(w) ==
  /\ pc[w] = "send"
  /\ ctxDone
  /\ GoTo(w, "done", None)
  /\ UNCHANGED <<in, inClosed, out, outClosed, ctxDone, metrics>>

\* The closing goroutine: wg.Wait() returns once every worker has returned.
CloseOut ==
  /\ \A w \in Workers : pc[w] = "done"
  /\ ~outClosed
  /\ outClosed' = TRUE
  /\ UNCHANGED <<in, inClosed, out, ctxDone, workerVars, metrics>>

WorkerStep(w) ==
  \/ Receive(w) \/ ReturnClosed(w) \/ ReturnCancelled(w)
  \/ FnError(w) \/ FnReturn(w)
  \/ Send(w) \/ AbandonSend(w)

StageNext == CloseOut \/ \E w \in Workers : WorkerStep(w)

-----------------------------------------------------------------------------
Busy == {w \in Workers : pc[w] \in {"fn", "send"}}
Held == {item[w] : w \in Busy}

StageTypeOK ==
  /\ in \in Seq(Items)
  /\ inClosed \in BOOLEAN
  /\ out \in Seq(Items)
  /\ outClosed \in BOOLEAN
  /\ ctxDone \in BOOLEAN
  /\ pc \in [Workers -> Locations]
  /\ item \in [Workers -> Items \cup {None}]
  /\ \A w \in Workers : item[w] = None <=> w \notin Busy
  /\ metrics \in [Instruments -> Nat]
=============================================================================
