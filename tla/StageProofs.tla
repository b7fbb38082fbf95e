----------------------------- MODULE StageProofs -----------------------------
(***************************************************************************)
(* Theorems about a stage and its surroundings (StageEnv.tla) for every    *)
(* number of workers, every capacity and every workload.                   *)
(***************************************************************************)
EXTENDS StageEnv, ChannelLemmas, FiniteSetTheorems

USE StageAssumption, StageEnvAssumption

-----------------------------------------------------------------------------
LEMMA InitType == Init => TypeOK
<1> SUFFICES ASSUME Init
             PROVE  TypeOK
  OBVIOUS
<1> USE DEF Init, StageInit
<1>1. BufferSize \in Nat
  BY DEF BufferSize, DefaultBufferSize
<1>2. <<>> \in Seq(Items) /\ Len(<<>>) = 0
  OBVIOUS
<1>3. /\ pc \in [Workers -> Locations]
      /\ item \in [Workers -> Items \cup {None}]
      /\ \A w \in Workers : item[w] = None <=> w \notin Busy
  BY DEF Locations, Busy
<1>4. /\ Len(in) <= inCap
      /\ Len(out) <= BufferSize
      /\ sent \in 0 .. N
  BY <1>1, <1>2
<1>5. in \in Seq(Items) /\ out \in Seq(Items) /\ delivered \in Seq(Items)
  BY <1>2
<1>. QED
  BY <1>3, <1>4, <1>5 DEF TypeOK, StageTypeOK, NoMetrics

LEMMA StepType ==
  ASSUME TypeOK, [Next]_vars
  PROVE  TypeOK'
<1> USE DEF TypeOK, StageTypeOK, Locations, Busy, workerVars, history, Count,
           Instruments
<1>0. BufferSize \in Nat
  BY DEF BufferSize, DefaultBufferSize
<1>1. CASE Produce
  <2>1. sent + 1 \in Items
    BY <1>1 DEF Produce
  <2>2. /\ in' \in Seq(Items) /\ Len(in') <= inCap
        /\ sent' \in 0 .. N
    <3>1. in' \in Seq(Items) /\ Len(in') = Len(in) + 1
      BY <1>1, <2>1, AppendProperties DEF Produce
    <3>2. Len(in) \in Nat /\ inCap \in Nat /\ N \in Nat
      BY LenProperties, StageEnvAssumption
    <3>. QED
      BY <1>1, <3>1, <3>2 DEF Produce
  <2>. QED
    BY <1>1, <2>1, <2>2 DEF Produce
<1>2. CASE CloseIn
  BY <1>2 DEF CloseIn
<1>3. CASE CancelCtx
  BY <1>3 DEF CancelCtx
<1>4. CASE Consume
  <2>1. /\ out' \in Seq(Items) /\ Len(out') = Len(out) - 1
        /\ Head(out) \in Items
    BY <1>4, HeadTailProperties DEF Consume
  <2>2. delivered' \in Seq(Items)
    BY <1>4, <2>1, AppendProperties DEF Consume
  <2>. QED
    BY <1>4, <1>0, <2>1, <2>2, LenProperties DEF Consume
<1>5. CASE CloseStep
  BY <1>5 DEF CloseStep, CloseOut
<1>6. ASSUME NEW w \in Workers, Step(w)
      PROVE  TypeOK'
  <2>1. CASE Receive(w) /\ UNCHANGED history
    <3>1. /\ in' \in Seq(Items) /\ Len(in') = Len(in) - 1
          /\ Head(in) \in Items
      BY <2>1, HeadTailProperties DEF Receive
    <3>2. Len(in) \in Nat /\ inCap \in Nat
      BY LenProperties, StageEnvAssumption
    <3>3. Len(in') <= inCap
      BY <3>1, <3>2
    <3>4. /\ pc' = [pc EXCEPT ![w] = "fn"] /\ item' = [item EXCEPT ![w] = Head(in)]
          /\ pc[w] = "select" /\ Head(in) # None
      BY <2>1, <3>1, StageAssumption DEF Receive, GoTo
    <3>5. /\ pc' \in [Workers -> Locations] /\ item' \in [Workers -> Items \cup {None}]
          /\ \A u \in Workers : item'[u] = None <=> u \notin Busy'
      BY <3>1, <3>4
    <3>6. metrics' \in [Instruments -> Nat]
      BY <2>1 DEF Receive
    <3>7. UNCHANGED <<inClosed, out, outClosed, ctxDone, sent, delivered, failed, dropped>>
      BY <2>1 DEF Receive
    <3>. QED
      BY <3>1, <3>3, <3>5, <3>6, <3>7
  <2>2. CASE ReturnClosed(w) /\ UNCHANGED history
    BY <2>2 DEF ReturnClosed, GoTo
  <2>3. CASE ReturnCancelled(w) /\ UNCHANGED history
    BY <2>3 DEF ReturnCancelled, GoTo
  <2>4. CASE FailStep(w)
    <3>1. w \in Busy /\ item[w] \in Items
      BY <2>4 DEF FailStep, FnError
    <3>2. /\ pc' \in [Workers -> Locations]
          /\ item' \in [Workers -> Items \cup {None}]
          /\ \A v \in Workers : item'[v] = None <=> v \notin Busy'
      BY <2>4 DEF FailStep, FnError, GoTo
    <3>3. metrics' \in [Instruments -> Nat]
      BY <2>4 DEF FailStep, FnError
    <3>4. failed' \subseteq Items
      BY <2>4, <3>1 DEF FailStep
    <3>5. UNCHANGED <<in, inClosed, out, outClosed, ctxDone, sent, delivered,
                      dropped>>
      BY <2>4 DEF FailStep, FnError
    <3>. QED
      BY <3>2, <3>3, <3>4, <3>5
  <2>5. CASE FnReturn(w) /\ UNCHANGED history
    <3>1. w \in Busy /\ item[w] \in Items /\ item[w] # None
      BY <2>5 DEF FnReturn
    <3>2. item' = item /\ pc' = [pc EXCEPT ![w] = "send"]
      BY <2>5 DEF FnReturn, GoTo
      <3>. QED
      BY <2>5, <3>1, <3>2 DEF FnReturn
  <2>6. CASE Send(w) /\ UNCHANGED history
    <3>1. item[w] \in Items
      BY <2>6 DEF Send
    <3>2. out' \in Seq(Items) /\ Len(out') = Len(out) + 1
      BY <2>6, <3>1, AppendProperties DEF Send
    <3>. QED
      BY <1>0, <2>6, <3>2, LenProperties DEF Send, GoTo
  <2>7. CASE DropStep(w)
    BY <2>7 DEF DropStep, AbandonSend, GoTo
  <2>. QED
    BY <1>6, <2>1, <2>2, <2>3, <2>4, <2>5, <2>6, <2>7 DEF Step, QuietStep
<1>7. CASE UNCHANGED vars
  BY <1>7 DEF vars, stageVars
<1>. QED
  BY <1>1, <1>2, <1>3, <1>4, <1>5, <1>6, <1>7 DEF Next, Finished

(***************************************************************************)
(* The channels never hold more than their capacity, every worker is       *)
(* somewhere in its loop, and a worker holds a value exactly while it is   *)
(* past the receive of stage.go and has not yet sent, skipped or given up. *)
(***************************************************************************)
THEOREM StageTypeCorrect == Spec => []TypeOK
BY InitType, StepType, PTL DEF Spec

-----------------------------------------------------------------------------
(***************************************************************************)
(* What the moves of one worker do to the set of values the workers hold.  *)
(***************************************************************************)
LEMMA TakeHeld ==
  ASSUME TypeOK, HeldOnce, NEW w \in Workers, NEW v \in Items,
         pc[w] = "select", v \notin Held, GoTo(w, "fn", v)
  PROVE  /\ Held' = Held \cup {v}
         /\ HeldOnce'
<1>1. /\ pc' = [pc EXCEPT ![w] = "fn"]
      /\ item' = [item EXCEPT ![w] = v]
      /\ pc \in [Workers -> Locations]
      /\ item \in [Workers -> Items \cup {None}]
  BY DEF GoTo, TypeOK, StageTypeOK
<1>2. Busy' = Busy \cup {w} /\ w \notin Busy
  BY <1>1 DEF Busy
<1>3. /\ item'[w] = v
      /\ \A u \in Busy : u # w /\ item'[u] = item[u]
  BY <1>1, <1>2 DEF Busy
<1>4. Held' = Held \cup {v}
  BY <1>2, <1>3 DEF Held
<1>5. HeldOnce'
  BY <1>2, <1>3 DEF Held, HeldOnce
<1>. QED
  BY <1>4, <1>5

LEMMA ReleaseHeld ==
  ASSUME TypeOK, HeldOnce, NEW w \in Workers, NEW loc \in {"select", "done"},
         w \in Busy, GoTo(w, loc, None)
  PROVE  /\ item[w] \in Held
         /\ item[w] \in Items
         /\ Held' = Held \ {item[w]}
         /\ HeldOnce'
<1>1. /\ pc' = [pc EXCEPT ![w] = loc]
      /\ item' = [item EXCEPT ![w] = None]
      /\ pc \in [Workers -> Locations]
      /\ item \in [Workers -> Items \cup {None}]
      /\ item[w] # None
  BY DEF GoTo, TypeOK, StageTypeOK
<1>2. Busy' = Busy \ {w}
  BY <1>1 DEF Busy
<1>3. \A u \in Busy' : u \in Busy /\ u # w /\ item'[u] = item[u]
  BY <1>1, <1>2 DEF Busy
<1>4. Held' = Held \ {item[w]}
  BY <1>2, <1>3 DEF Held, HeldOnce
<1>5. HeldOnce'
  BY <1>3 DEF HeldOnce
<1>. QED
  BY <1>1, <1>4, <1>5 DEF Held

\* A worker that leaves the loop from the outer select, or passes from s.fn
\* to the send, holds what it held.
LEMMA KeepHeld ==
  ASSUME TypeOK, HeldOnce, NEW w \in Workers, NEW loc \in Locations,
         GoTo(w, loc, item[w]), w \in Busy <=> loc \in {"fn", "send"}
  PROVE  Busy' = Busy /\ Held' = Held /\ HeldOnce'
<1>1. /\ pc' = [pc EXCEPT ![w] = loc]
      /\ item' = item
      /\ pc \in [Workers -> Locations]
  BY DEF GoTo, TypeOK, StageTypeOK
<1>2. Busy' = Busy
  BY <1>1 DEF Busy
<1>. QED
  BY <1>1, <1>2 DEF Held, HeldOnce

-----------------------------------------------------------------------------
LEMMA InitConservation == Init => Conservation
<1> SUFFICES ASSUME Init
             PROVE  Conservation
  OBVIOUS
<1>1. Busy = {} /\ Held = {}
  BY DEF Init, StageInit, Busy, Held
<1>2. in = <<>> /\ out = <<>> /\ delivered = <<>> /\ failed = {} /\ dropped = {}
  BY DEF Init, StageInit
<1>3. 1 .. sent = {}
  BY DEF Init
<1>. QED
  BY <1>1, <1>2, <1>3, EmptyChannel
  DEF Conservation, NoLoss, OnePlace, NoDuplicate, HeldOnce, Apart, Settled,
      Emitted

(***************************************************************************)
(* Conservation is inductive: every step moves one value from one place to *)
(* the next, or none.                                                      *)
(***************************************************************************)
LEMMA StepConservation ==
  ASSUME TypeOK, Conservation, [Next]_vars
  PROVE  Conservation'
<1> USE DEF Conservation, NoLoss, OnePlace, NoDuplicate, Apart, Settled, Emitted
<1>0. /\ in \in Seq(Items)
      /\ out \in Seq(Items)
      /\ delivered \in Seq(Items)
      /\ \A w \in Workers : item[w] = None <=> w \notin Busy
      /\ sent \in 0 .. N
  BY DEF TypeOK, StageTypeOK
<1>1. CASE Produce
  <2>1. /\ sent + 1 \in Items
        /\ sent + 1 \notin 1 .. sent
        /\ 1 .. sent + 1 = 1 .. sent \cup {sent + 1}
    <3>1. sent < N /\ sent \in Nat
      BY <1>0, <1>1 DEF Produce
    <3>2. sent + 1 \in 1 .. N
      BY <3>1
    <3>3. 1 .. sent + 1 = 1 .. sent \cup {sent + 1}
      BY <3>1
    <3>. QED
      BY <3>1, <3>2, <3>3
  <2>2. Range(in') = Range(in) \cup {sent + 1} /\ IsInjective(in')
    <3>1. in' = Append(in, sent + 1) /\ sent + 1 \notin Range(in)
      BY <1>1, <2>1 DEF Produce
    <3>. QED
      BY <1>0, <2>1, <3>1, SendRange, SendInjective
  <2>3. Busy' = Busy /\ Held' = Held /\ HeldOnce'
    BY <1>1 DEF Produce, Busy, Held, HeldOnce, workerVars
  <2>4. sent' = sent + 1 /\ UNCHANGED <<out, delivered, failed, dropped>>
    BY <1>1 DEF Produce
  <2>. QED
    BY <1>0, <2>1, <2>2, <2>3, <2>4
<1>2. CASE CloseIn \/ CancelCtx \/ CloseStep \/ UNCHANGED vars
  <2>1. UNCHANGED <<pc, item, in, out, sent, delivered, failed, dropped>>
    BY <1>2 DEF CloseIn, CancelCtx, CloseStep, CloseOut, vars, stageVars,
                workerVars, history
  <2>2. Busy' = Busy /\ Held' = Held /\ HeldOnce'
    BY <2>1 DEF Busy, Held, HeldOnce
  <2>. QED
    BY <2>1, <2>2
<1>3. CASE Consume
  <2>1. /\ Head(out) \in Range(out)
        /\ Head(out) \in Items
        /\ Range(out') = Range(out) \ {Head(out)}
        /\ IsInjective(out')
    BY <1>0, <1>3, ReceiveRange DEF Consume
  <2>2. /\ Range(delivered') = Range(delivered) \cup {Head(out)}
        /\ IsInjective(delivered')
    BY <1>0, <1>3, <2>1, SendRange, SendInjective DEF Consume
  <2>3. Busy' = Busy /\ Held' = Held /\ HeldOnce'
    BY <1>3 DEF Consume, Busy, Held, HeldOnce, workerVars
  <2>4. UNCHANGED <<in, sent, failed, dropped>>
    BY <1>3 DEF Consume
  <2>. QED
    BY <1>0, <2>1, <2>2, <2>3, <2>4
<1>4. ASSUME NEW w \in Workers, Step(w)
      PROVE  Conservation'
  <2>1. CASE Receive(w) /\ UNCHANGED history
    <3>1. /\ Head(in) \in Range(in)
          /\ Head(in) \in Items
          /\ Range(in') = Range(in) \ {Head(in)}
          /\ IsInjective(in')
      BY <1>0, <2>1, ReceiveRange DEF Receive
    <3>2. Head(in) \notin Held
      BY <3>1
    <3>3. Held' = Held \cup {Head(in)} /\ HeldOnce'
      BY <2>1, <3>1, <3>2, TakeHeld DEF Receive
    <3>4. UNCHANGED <<out, sent, delivered, failed, dropped>>
      BY <2>1 DEF Receive, history
    <3>. QED
      BY <3>1, <3>2, <3>3, <3>4
  <2>2. CASE (ReturnClosed(w) \/ ReturnCancelled(w) \/ FnReturn(w))
               /\ UNCHANGED history
    <3>1. Held' = Held /\ HeldOnce'
      <4>1. CASE ReturnClosed(w) \/ ReturnCancelled(w)
        <5>1. w \notin Busy /\ item[w] = None /\ GoTo(w, "done", item[w])
          BY <1>0, <4>1 DEF ReturnClosed, ReturnCancelled, Busy
        <5>. QED
          BY <5>1, KeepHeld DEF Locations
      <4>2. CASE FnReturn(w)
        <5>1. w \in Busy /\ GoTo(w, "send", item[w])
          BY <4>2 DEF FnReturn, Busy
        <5>. QED
          BY <5>1, KeepHeld DEF Locations
      <4>. QED
        BY <2>2, <4>1, <4>2
    <3>2. UNCHANGED <<in, out, sent, delivered, failed, dropped>>
      BY <2>2 DEF ReturnClosed, ReturnCancelled, FnReturn, history
    <3>. QED
      BY <3>1, <3>2
  <2>3. CASE Send(w) /\ UNCHANGED history
    <3>1. /\ item[w] \in Held
          /\ item[w] \in Items
          /\ Held' = Held \ {item[w]}
          /\ HeldOnce'
      <4>1. w \in Busy /\ GoTo(w, "select", None)
        BY <2>3 DEF Send, Busy
      <4>. QED
        BY <4>1, ReleaseHeld
    <3>2. item[w] \notin Range(out)
      BY <3>1
    <3>3. Range(out') = Range(out) \cup {item[w]} /\ IsInjective(out')
      BY <1>0, <2>3, <3>1, <3>2, SendRange, SendInjective DEF Send
    <3>4. UNCHANGED <<in, sent, delivered, failed, dropped>>
      BY <2>3 DEF Send, history
    <3>. QED
      BY <3>1, <3>2, <3>3, <3>4
  <2>4. CASE FailStep(w) \/ DropStep(w)
    <3>1. /\ item[w] \in Held
          /\ Held' = Held \ {item[w]}
          /\ HeldOnce'
      <4>1. w \in Busy /\ (GoTo(w, "select", None) \/ GoTo(w, "done", None))
        BY <2>4 DEF FailStep, DropStep, FnError, AbandonSend, Busy
      <4>. QED
        BY <4>1, ReleaseHeld
    <3>2. /\ \/ failed' = failed \cup {item[w]} /\ dropped' = dropped
             \/ dropped' = dropped \cup {item[w]} /\ failed' = failed
          /\ UNCHANGED <<in, out, sent, delivered>>
      BY <2>4 DEF FailStep, DropStep, FnError, AbandonSend
    <3>. QED
      BY <3>1, <3>2
  <2>. QED
    BY <1>4, <2>1, <2>2, <2>3, <2>4 DEF Step, QuietStep
<1>. QED
  BY <1>1, <1>2, <1>3, <1>4 DEF Next, Finished

(***************************************************************************)
(* No value is ever lost or duplicated between the producer and the        *)
(* consumer of a stage, whatever the number of workers that race for the   *)
(* input (stage.go, the worker loop of Run).                               *)
(***************************************************************************)
THEOREM StageConserves == Spec => []Conservation
BY InitType, StepType, InitConservation, StepConservation, PTL DEF Spec

-----------------------------------------------------------------------------
(***************************************************************************)
(* Why the output closes when it does: the strengthening of                *)
(* NoSendOnClosedChannel and CleanClose that every step preserves.         *)
(***************************************************************************)
ClosedAfterAll == outClosed => \A w \in Workers : pc[w] = "done"

DoneHasReason ==
  (\E w \in Workers : pc[w] = "done") => ctxDone \/ (inClosed /\ in = <<>>)

DroppedHasReason == dropped # {} => ctxDone

ShutdownInv == ClosedAfterAll /\ DoneHasReason /\ DroppedHasReason

LEMMA InitShutdown == Init => ShutdownInv
BY DEF Init, StageInit, ShutdownInv, ClosedAfterAll, DoneHasReason,
       DroppedHasReason

LEMMA StepShutdown ==
  ASSUME TypeOK, ShutdownInv, [Next]_vars
  PROVE  ShutdownInv'
<1> USE DEF ShutdownInv, ClosedAfterAll, DoneHasReason, DroppedHasReason
<1>0. pc \in [Workers -> Locations]
  BY DEF TypeOK, StageTypeOK
<1>1. CASE Produce
  BY <1>1 DEF Produce, workerVars
<1>2. CASE CloseIn \/ CancelCtx
  BY <1>2 DEF CloseIn, CancelCtx, workerVars, history
<1>3. CASE Consume \/ UNCHANGED vars
  BY <1>3 DEF Consume, vars, stageVars, workerVars, history
<1>4. CASE CloseStep
  BY <1>4 DEF CloseStep, CloseOut, workerVars, history
<1>5. ASSUME NEW w \in Workers, Step(w)
      PROVE  ShutdownInv'
  <2>1. CASE Receive(w) /\ UNCHANGED history
    BY <1>0, <2>1 DEF Receive, GoTo, history
  <2>2. CASE (ReturnClosed(w) \/ ReturnCancelled(w)) /\ UNCHANGED history
    BY <1>0, <2>2 DEF ReturnClosed, ReturnCancelled, GoTo, history
  <2>3. CASE FnReturn(w) /\ UNCHANGED history
    BY <1>0, <2>3 DEF FnReturn, GoTo, history
  <2>4. CASE Send(w) /\ UNCHANGED history
    BY <1>0, <2>4 DEF Send, GoTo, history
  <2>5. CASE FailStep(w)
    BY <1>0, <2>5 DEF FailStep, FnError, GoTo
  <2>6. CASE DropStep(w)
    BY <1>0, <2>6 DEF DropStep, AbandonSend, GoTo
  <2>. QED
    BY <1>5, <2>1, <2>2, <2>3, <2>4, <2>5, <2>6 DEF Step, QuietStep
<1>. QED
  BY <1>1, <1>2, <1>3, <1>4, <1>5 DEF Next, Finished

LEMMA ShutdownIsSafe ==
  ASSUME Conservation, ShutdownInv
  PROVE  NoSendOnClosedChannel /\ CleanClose
<1>1. NoSendOnClosedChannel
  BY DEF NoSendOnClosedChannel, ShutdownInv, ClosedAfterAll, Busy
<1>2. CleanClose
  <2>1. SUFFICES ASSUME outClosed, ~ctxDone
                 PROVE  inClosed /\ 1 .. sent = Emitted \cup failed
    BY DEF CleanClose
  <2>2. \E w \in Workers : pc[w] = "done"
    <3>1. 1 \in Workers
      BY DEF Workers
    <3>. QED
      BY <2>1, <3>1 DEF ShutdownInv, ClosedAfterAll
  <2>3. inClosed /\ in = <<>> /\ dropped = {}
    BY <2>1, <2>2 DEF ShutdownInv, DoneHasReason, DroppedHasReason
  <2>4. Range(in) = {} /\ Held = {}
    BY <1>1, <2>1, <2>3, EmptyChannel DEF NoSendOnClosedChannel, Held
  <2>. QED
    BY <2>3, <2>4 DEF Conservation, NoLoss, Settled
<1>. QED
  BY <1>1, <1>2

(***************************************************************************)
(* No worker of a stage ever sends on its closed output, whichever of the  *)
(* three ways out of the loop the workers took (stage.go, wg and close).   *)
(***************************************************************************)
THEOREM StageNeverSendsOnClosed == Spec => []NoSendOnClosedChannel
<1>1. Init => TypeOK /\ Conservation /\ ShutdownInv
  BY InitType, InitConservation, InitShutdown
<1>2. TypeOK /\ Conservation /\ ShutdownInv /\ [Next]_vars
        => (TypeOK /\ Conservation /\ ShutdownInv)'
  BY StepType, StepConservation, StepShutdown
<1>. QED
  BY <1>1, <1>2, ShutdownIsSafe, PTL DEF Spec

(***************************************************************************)
(* An output that closes without a cancellation has swallowed nothing.     *)
(***************************************************************************)
THEOREM StageClosesCleanly == Spec => []CleanClose
<1>1. Init => TypeOK /\ Conservation /\ ShutdownInv
  BY InitType, InitConservation, InitShutdown
<1>2. TypeOK /\ Conservation /\ ShutdownInv /\ [Next]_vars
        => (TypeOK /\ Conservation /\ ShutdownInv)'
  BY StepType, StepConservation, StepShutdown
<1>. QED
  BY <1>1, <1>2, ShutdownIsSafe, PTL DEF Spec

-----------------------------------------------------------------------------
(***************************************************************************)
(* The ledger: what the counters of the stage say against what happened to *)
(* the values, and what a cancellation may cost.                           *)
(***************************************************************************)
Ledger ==
  /\ MetricsBalance
  /\ Cardinality(dropped) <= Cardinality(Gone)

LEMMA OneMore ==
  ASSUME NEW S, IsFiniteSet(S), NEW x, x \notin S
  PROVE  /\ Cardinality(S) \in Nat
         /\ Cardinality(S \cup {x}) = Cardinality(S) + 1
BY FS_AddElement, FS_CardinalityType

LEMMA OneLess ==
  ASSUME NEW S, IsFiniteSet(S), NEW x \in S
  PROVE  /\ Cardinality(S) \in Nat
         /\ Cardinality(S \ {x}) = Cardinality(S) - 1
BY FS_RemoveElement, FS_CardinalityType

LEMMA LedgerFinite ==
  ASSUME TypeOK
  PROVE  /\ IsFiniteSet(Sending) /\ Cardinality(Sending) \in Nat
         /\ IsFiniteSet(Gone) /\ Cardinality(Gone) \in Nat
         /\ IsFiniteSet(failed) /\ Cardinality(failed) \in Nat
         /\ IsFiniteSet(dropped) /\ Cardinality(dropped) \in Nat
         /\ IsFiniteSet(Emitted) /\ Cardinality(Emitted) \in Nat
<1>1. IsFiniteSet(Workers) /\ IsFiniteSet(Items)
  BY FS_Interval DEF Workers
<1>2. Sending \subseteq Workers /\ Gone \subseteq Workers
  BY DEF Sending, Gone
<1>3. failed \subseteq Items /\ dropped \subseteq Items
  BY DEF TypeOK
<1>4. Emitted \subseteq Items
  <2>1. out \in Seq(Items) /\ delivered \in Seq(Items)
    BY DEF TypeOK, StageTypeOK
  <2>2. \A s \in Seq(Items) : Range(s) \subseteq Items
    BY LenProperties, ElementOfSeq DEF Range
  <2>. QED
    BY <2>1, <2>2 DEF Emitted
<1>. QED
  BY <1>1, <1>2, <1>3, <1>4, FS_Subset, FS_CardinalityType

LEMMA ConsumeEmitted ==
  ASSUME TypeOK, Conservation, Consume
  PROVE  Emitted' = Emitted
<1>1. /\ out \in Seq(Items) /\ out # <<>> /\ IsInjective(out)
      /\ delivered \in Seq(Items)
  BY DEF Consume, TypeOK, StageTypeOK, Conservation, NoDuplicate
<1>2. /\ Head(out) \in Items /\ Head(out) \in Range(out)
      /\ Range(out') = Range(out) \ {Head(out)}
  BY <1>1, ReceiveRange DEF Consume
<1>3. Range(delivered') = Range(delivered) \cup {Head(out)}
  BY <1>1, <1>2, SendRange DEF Consume
<1>. QED
  BY <1>2, <1>3 DEF Emitted

LEMMA InitLedger == Init => Ledger
<1> SUFFICES ASSUME Init
             PROVE  Ledger
  OBVIOUS
<1>1. Sending = {} /\ Gone = {} /\ Emitted = {}
  BY EmptyChannel DEF Init, StageInit, Sending, Gone, Emitted
<1>2. /\ failed = {} /\ dropped = {} /\ sent = 0 /\ Len(in) = 0
      /\ metrics.processed = 0 /\ metrics.errors = 0 /\ metrics.latencies = 0
  BY DEF Init, StageInit, NoMetrics, Instruments
<1>. QED
  BY <1>1, <1>2, FS_EmptySet DEF Ledger, MetricsBalance

LEMMA StepLedger ==
  ASSUME TypeOK, TypeOK', Conservation, Ledger, [Next]_vars
  PROVE  Ledger'
<1> USE DEF Ledger, MetricsBalance
<1>0. /\ in \in Seq(Items) /\ Len(in) \in Nat
      /\ sent \in Nat
      /\ pc \in [Workers -> Locations]
      /\ metrics \in [Instruments -> Nat]
      /\ metrics.processed \in Nat /\ metrics.errors \in Nat
      /\ metrics.latencies \in Nat
  <2>1. in \in Seq(Items) /\ pc \in [Workers -> Locations] /\ sent \in Nat
    BY DEF TypeOK, StageTypeOK
  <2>2. metrics \in [Instruments -> Nat]
    BY DEF TypeOK, StageTypeOK
  <2>. QED
    BY <2>1, <2>2, LenProperties DEF Instruments
<1>1. /\ IsFiniteSet(Sending) /\ Cardinality(Sending) \in Nat
      /\ IsFiniteSet(Gone) /\ Cardinality(Gone) \in Nat
      /\ IsFiniteSet(failed) /\ Cardinality(failed) \in Nat
      /\ IsFiniteSet(dropped) /\ Cardinality(dropped) \in Nat
      /\ IsFiniteSet(Emitted) /\ Cardinality(Emitted) \in Nat
  BY LedgerFinite
<1>2. CASE Produce
  <2>1. Len(in') = Len(in) + 1 /\ sent' = sent + 1
    <3>1. sent + 1 \in Items
      BY <1>0, <1>2 DEF Produce
    <3>. QED
      BY <1>0, <1>1, <1>2, <3>1, AppendProperties DEF Produce
  <2>2. UNCHANGED <<metrics, failed, dropped, Sending, Gone, Emitted>>
    BY <1>2 DEF Produce, workerVars, Sending, Gone, Emitted
  <2>. QED
    BY <1>0, <1>1, <2>1, <2>2
<1>3. CASE CloseIn \/ CancelCtx \/ CloseStep \/ UNCHANGED vars
  <2>1. UNCHANGED <<in, sent, metrics, failed, dropped, Sending, Gone, Emitted>>
    BY <1>3 DEF CloseIn, CancelCtx, CloseStep, CloseOut, vars, stageVars,
                workerVars, history, Sending, Gone, Emitted
  <2>. QED
    BY <1>0, <1>1, <2>1
<1>4. CASE Consume
  <2>1. Emitted' = Emitted
    BY <1>4, ConsumeEmitted
  <2>2. UNCHANGED <<in, sent, metrics, failed, dropped, Sending, Gone>>
    BY <1>4 DEF Consume, workerVars, Sending, Gone
  <2>. QED
    BY <1>0, <1>1, <2>1, <2>2
<1>5. ASSUME NEW w \in Workers, Step(w)
      PROVE  Ledger'
  <2>0. item[w] \in Held => item[w] \notin Settled
    BY DEF Conservation, OnePlace, Apart
  <2>1. CASE Receive(w) /\ UNCHANGED history
    <3>1. Len(in') = Len(in) - 1
      BY <1>0, <2>1, HeadTailProperties DEF Receive
    <3>2. /\ metrics'.processed = metrics.processed + 1
          /\ metrics'.errors = metrics.errors
          /\ metrics'.latencies = metrics.latencies
      BY <1>0, <2>1 DEF Receive, Count, Instruments
    <3>3. UNCHANGED <<sent, failed, dropped, Sending, Gone, Emitted>>
      BY <1>0, <2>1 DEF Receive, GoTo, history, Sending, Gone, Emitted, Locations
    <3>. QED
      BY <1>0, <1>1, <3>1, <3>2, <3>3
  <2>2. CASE (ReturnClosed(w) \/ ReturnCancelled(w)) /\ UNCHANGED history
    <3>1. UNCHANGED <<in, sent, metrics, failed, dropped, Sending, Emitted>>
      BY <1>0, <2>2
      DEF ReturnClosed, ReturnCancelled, GoTo, history, Sending, Emitted, Locations
    <3>2. Gone' = Gone \cup {w} /\ w \notin Gone
      BY <1>0, <2>2 DEF ReturnClosed, ReturnCancelled, GoTo, Gone, Locations
    <3>3. Cardinality(Gone') = Cardinality(Gone) + 1
      BY <3>2, <1>1, OneMore
    <3>. QED
      BY <1>0, <1>1, <3>1, <3>3
  <2>3. CASE FnReturn(w) /\ UNCHANGED history
    <3>1. /\ metrics'.processed = metrics.processed
          /\ metrics'.errors = metrics.errors
          /\ metrics'.latencies = metrics.latencies + 1
      BY <1>0, <2>3 DEF FnReturn, Count, Instruments
    <3>2. UNCHANGED <<in, sent, failed, dropped, Gone, Emitted>>
      BY <1>0, <2>3 DEF FnReturn, GoTo, history, Gone, Emitted, Locations
    <3>3. Sending' = Sending \cup {w} /\ w \notin Sending
      BY <1>0, <2>3 DEF FnReturn, GoTo, Sending, Locations
    <3>4. Cardinality(Sending') = Cardinality(Sending) + 1
      BY <3>3, <1>1, OneMore
    <3>. QED
      BY <1>0, <1>1, <3>1, <3>2, <3>4
  <2>4. CASE Send(w) /\ UNCHANGED history
    <3>1. /\ item[w] \in Items /\ item[w] \notin Emitted
          /\ w \in Sending
      BY <2>0, <2>4 DEF Send, Busy, Held, Settled, Sending, TypeOK, StageTypeOK
    <3>2. UNCHANGED <<in, sent, metrics, failed, dropped, Gone>>
      BY <1>0, <2>4 DEF Send, GoTo, history, Gone, Locations
    <3>3. Sending' = Sending \ {w}
      BY <1>0, <2>4 DEF Send, GoTo, Sending, Locations
    <3>4. Emitted' = Emitted \cup {item[w]}
      <4>1. out' = Append(out, item[w]) /\ out \in Seq(Items) /\ delivered' = delivered
        BY <2>4 DEF Send, history, TypeOK, StageTypeOK
      <4>2. Range(out') = Range(out) \cup {item[w]}
        BY <3>1, <4>1, SendRange
      <4>. QED
        BY <4>1, <4>2 DEF Emitted
    <3>5. /\ Cardinality(Sending') = Cardinality(Sending) - 1
          /\ Cardinality(Emitted') = Cardinality(Emitted) + 1
      BY <3>1, <3>3, <3>4, <1>1, OneMore, OneLess
    <3>. QED
      BY <1>0, <1>1, <3>2, <3>5
  <2>5. CASE FailStep(w)
    <3>1. item[w] \notin failed
      BY <2>0, <2>5 DEF FailStep, FnError, Busy, Held, Settled
    <3>2. /\ metrics'.processed = metrics.processed
          /\ metrics'.errors = metrics.errors + 1
          /\ metrics'.latencies = metrics.latencies
      BY <1>0, <2>5 DEF FailStep, FnError, Count, Instruments
    <3>3. UNCHANGED <<in, sent, dropped, Sending, Gone, Emitted>>
      BY <1>0, <2>5 DEF FailStep, FnError, GoTo, Sending, Gone, Emitted, Locations
    <3>4. failed' = failed \cup {item[w]}
      BY <2>5 DEF FailStep
    <3>5. Cardinality(failed') = Cardinality(failed) + 1
      BY <3>1, <3>4, <1>1, OneMore
    <3>. QED
      BY <1>0, <1>1, <3>2, <3>3, <3>5
  <2>6. CASE DropStep(w)
    <3>1. item[w] \notin dropped /\ w \in Sending /\ w \notin Gone
      BY <2>0, <2>6 DEF DropStep, AbandonSend, Busy, Held, Settled, Sending, Gone
    <3>2. UNCHANGED <<in, sent, metrics, failed, Emitted>>
      BY <2>6 DEF DropStep, AbandonSend, Emitted
    <3>3. /\ Sending' = Sending \ {w}
          /\ Gone' = Gone \cup {w}
          /\ dropped' = dropped \cup {item[w]}
      BY <1>0, <2>6 DEF DropStep, AbandonSend, GoTo, Sending, Gone, Locations
    <3>4. /\ Cardinality(Sending') = Cardinality(Sending) - 1
          /\ Cardinality(Gone') = Cardinality(Gone) + 1
          /\ Cardinality(dropped') = Cardinality(dropped) + 1
      BY <3>1, <3>3, <1>1, OneMore, OneLess
    <3>5. MetricsBalance'
      BY <1>0, <1>1, <3>2, <3>4
    <3>6. Cardinality(dropped') <= Cardinality(Gone')
      BY <1>1, <3>4
    <3>. QED
      BY <3>5, <3>6
  <2>. QED
    BY <1>5, <2>1, <2>2, <2>3, <2>4, <2>5, <2>6 DEF Step, QuietStep
<1>. QED
  BY <1>2, <1>3, <1>4, <1>5 DEF Next, Finished

LEMMA LedgerInvariant ==
  Spec => [](TypeOK /\ Conservation /\ ShutdownInv /\ Ledger)
<1>1. Init => TypeOK /\ Conservation /\ ShutdownInv /\ Ledger
  BY InitType, InitConservation, InitShutdown, InitLedger
<1>2. TypeOK /\ Conservation /\ ShutdownInv /\ Ledger /\ [Next]_vars
        => (TypeOK /\ Conservation /\ ShutdownInv /\ Ledger)'
  BY StepType, StepConservation, StepShutdown, StepLedger
<1>. QED
  BY <1>1, <1>2, PTL DEF Spec

(***************************************************************************)
(* The three counters of a stage agree with what became of the values, in  *)
(* every interleaving of any number of workers.                            *)
(***************************************************************************)
THEOREM StageCountsRight == Spec => []MetricsBalance
BY LedgerInvariant, PTL DEF Ledger

(***************************************************************************)
(* A cancellation costs at most one finished result per worker that left.  *)
(***************************************************************************)
THEOREM StageLosesLittle == Spec => []LossBound
<1>1. ShutdownInv /\ Ledger => LossBound
  BY DEF ShutdownInv, DroppedHasReason, Ledger, LossBound, Gone
<1>. QED
  BY <1>1, LedgerInvariant, PTL

-----------------------------------------------------------------------------
(***************************************************************************)
(* Overtaking.  The input channel holds the newest values in order, so all *)
(* that have left it are earlier.  What is late for j can only become less *)
(* once j is out, and when j is sent it is what the other workers hold.    *)
(***************************************************************************)
Line == delivered \o out

InputInOrder == \A k \in 1 .. Len(in) : in[k] = sent - Len(in) + k

FewLate == \A j \in Emitted : Cardinality(Late(j)) < Cardinality(Workers)

OvertakingInv == InputInOrder /\ FewLate

LEMMA LeftEarlier ==
  ASSUME TypeOK, Conservation, InputInOrder
  PROVE  \A i \in Held \cup Settled, k \in Range(in) : i < k
<1>1. SUFFICES ASSUME NEW i \in Held \cup Settled, NEW k \in Range(in)
               PROVE  i < k
  OBVIOUS
<1>2. /\ Len(in) \in Nat /\ DOMAIN in = 1 .. Len(in)
      /\ sent \in Nat
  BY LenProperties DEF TypeOK, StageTypeOK
<1>3. PICK n \in 1 .. Len(in) : k = sent - Len(in) + n
  BY <1>1, <1>2 DEF Range, InputInOrder
<1>4. i \in 1 .. sent /\ i \notin Range(in)
  BY <1>1 DEF Conservation, NoLoss, OnePlace, Apart
<1>5. ASSUME i > sent - Len(in)
      PROVE  FALSE
  <2>1. i - (sent - Len(in)) \in 1 .. Len(in)
    BY <1>2, <1>4, <1>5
  <2>2. in[i - (sent - Len(in))] = i
    <3>1. in[i - (sent - Len(in))] = sent - Len(in) + (i - (sent - Len(in)))
      BY <2>1 DEF InputInOrder
    <3>. QED
      BY <1>2, <1>4, <3>1
  <2>. QED
    BY <1>2, <1>4, <2>1, <2>2 DEF Range
<1>. QED
  BY <1>2, <1>3, <1>4, <1>5

LEMMA LineEmits ==
  ASSUME TypeOK
  PROVE  /\ Line \in Seq(Items)
         /\ Len(Line) \in Nat /\ DOMAIN Line = 1 .. Len(Line)
         /\ Emitted = {Line[p] : p \in 1 .. Len(Line)}
<1>1. /\ delivered \in Seq(Items) /\ out \in Seq(Items)
      /\ Len(delivered) \in Nat /\ DOMAIN delivered = 1 .. Len(delivered)
      /\ Len(out) \in Nat /\ DOMAIN out = 1 .. Len(out)
  BY LenProperties DEF TypeOK, StageTypeOK
<1>2. /\ Line \in Seq(Items)
      /\ Len(Line) = Len(delivered) + Len(out)
      /\ \A p \in 1 .. Len(delivered) + Len(out) :
           Line[p] = IF p <= Len(delivered) THEN delivered[p] ELSE out[p - Len(delivered)]
  BY <1>1, ConcatProperties DEF Line
<1>3. DOMAIN Line = 1 .. Len(Line)
  BY <1>2, LenProperties
<1>4. ASSUME NEW p \in 1 .. Len(Line)
      PROVE  Line[p] \in Emitted
  <2>1. CASE p <= Len(delivered)
    <3>1. p \in 1 .. Len(delivered) /\ Line[p] = delivered[p]
      BY <1>1, <1>2, <1>4, <2>1
    <3>. QED
      BY <1>1, <3>1 DEF Emitted, Range
  <2>2. CASE p > Len(delivered)
    <3>1. p - Len(delivered) \in 1 .. Len(out) /\ Line[p] = out[p - Len(delivered)]
      BY <1>1, <1>2, <1>4, <2>2
    <3>. QED
      BY <1>1, <3>1 DEF Emitted, Range
  <2>. QED
    BY <1>1, <1>4, <2>1, <2>2
<1>5. ASSUME NEW i \in Emitted
      PROVE  \E p \in 1 .. Len(Line) : i = Line[p]
  <2>1. CASE i \in Range(delivered)
    <3>1. PICK p \in 1 .. Len(delivered) : i = delivered[p]
      BY <1>1, <2>1 DEF Range
    <3>2. p \in 1 .. Len(Line) /\ Line[p] = delivered[p]
      BY <1>1, <1>2
    <3>. QED
      BY <3>1, <3>2
  <2>2. CASE i \in Range(out)
    <3>1. PICK p \in 1 .. Len(out) : i = out[p]
      BY <1>1, <2>2 DEF Range
    <3>2. /\ Len(delivered) + p \in 1 .. Len(delivered) + Len(out)
          /\ ~(Len(delivered) + p <= Len(delivered))
          /\ Len(delivered) + p - Len(delivered) = p
      BY <1>1
    <3>3. Line[Len(delivered) + p] = out[p]
      BY <1>2, <3>2
    <3>. QED
      BY <1>2, <3>1, <3>2, <3>3
  <2>. QED
    BY <1>5, <2>1, <2>2 DEF Emitted
<1>. QED
  BY <1>1, <1>2, <1>3, <1>4, <1>5

\* The consumer takes from one end of the line what it puts at the other.
LEMMA LineConsume ==
  ASSUME TypeOK, Consume
  PROVE  Line' = Line
<1>1. /\ delivered \in Seq(Items) /\ out \in Seq(Items) /\ out # <<>>
      /\ Line' = Append(delivered, Head(out)) \o Tail(out)
  BY DEF TypeOK, StageTypeOK, Consume, Line
<1>. QED
  BY <1>1, MoveHead DEF Line

LEMMA LineSend ==
  ASSUME TypeOK, NEW x \in Items, out' = Append(out, x), delivered' = delivered
  PROVE  /\ Len(Line') = Len(Line) + 1
         /\ DOMAIN Line' = 1 .. Len(Line) + 1
         /\ \A k \in 1 .. Len(Line) : Line'[k] = Line[k]
         /\ Line'[Len(Line) + 1] = x
<1>1. /\ delivered \in Seq(Items) /\ out \in Seq(Items)
      /\ Len(delivered) \in Nat /\ Len(out) \in Nat
  BY LenProperties DEF TypeOK, StageTypeOK
<1>2. Line' = Append(Line, x)
  BY <1>1, AppendConcat DEF Line
<1>3. /\ Line \in Seq(Items) /\ Append(Line, x) \in Seq(Items)
  BY <1>1, ConcatProperties, AppendProperties DEF Line
<1>4. /\ Len(Append(Line, x)) = Len(Line) + 1
      /\ \A k \in 1 .. Len(Line) : Append(Line, x)[k] = Line[k]
      /\ Append(Line, x)[Len(Line) + 1] = x
  BY <1>3, AppendProperties
<1>. QED
  BY <1>2, <1>3, <1>4, LenProperties

\* What is late for j is among the values before j.
LEMMA LateFinite ==
  ASSUME NEW j \in Items
  PROVE  IsFiniteSet(Late(j)) /\ Late(j) \subseteq 1 .. j - 1
<1>1. Late(j) \subseteq 1 .. j - 1
  BY DEF Late
<1>2. IsFiniteSet(1 .. j - 1)
  BY FS_Interval, StageEnvAssumption
<1>. QED
  BY <1>1, <1>2, FS_Subset

\* A step that puts no earlier value into s.in or a worker, and after j only
\* what a worker held, makes nothing late for j.
LEMMA LateShrinks ==
  ASSUME NEW j \in Items,
         \A i \in 1 .. j - 1 : i \in Range(in') \cup Held' => i \in Range(in) \cup Held,
         \A p, q \in DOMAIN Line' :
           p < q /\ Line'[p] = j =>
             \/ Line'[q] \in Held
             \/ p \in DOMAIN Line /\ q \in DOMAIN Line /\ Line[p] = j /\ Line[q] = Line'[q],
         Cardinality(Late(j)) < Cardinality(Workers)
  PROVE  Cardinality(Late(j)') < Cardinality(Workers)
<1>1. Late(j)' \subseteq Late(j)
  BY DEF Late, Line
<1>2. Cardinality(Late(j)') <= Cardinality(Late(j))
  BY <1>1, LateFinite, FS_Subset
<1>3. Cardinality(Late(j)) \in Nat /\ Cardinality(Late(j)') \in Nat
  BY <1>1, LateFinite, FS_Subset, FS_CardinalityType
<1>4. Cardinality(Workers) \in Nat
  <2>1. IsFiniteSet(Workers)
    BY FS_Interval DEF Workers
  <2>. QED
    BY <2>1, FS_CardinalityType
<1>. QED
  BY <1>2, <1>3, <1>4

LEMMA InitOvertaking == Init => OvertakingInv
<1> SUFFICES ASSUME Init
             PROVE  OvertakingInv
  OBVIOUS
<1>1. Len(in) = 0 /\ Emitted = {}
  BY EmptyChannel DEF Init, StageInit, Emitted
<1>. QED
  BY <1>1 DEF OvertakingInv, InputInOrder, FewLate

LEMMA StepInput ==
  ASSUME TypeOK, InputInOrder, [Next]_vars
  PROVE  InputInOrder'
<1>0. in \in Seq(Items) /\ Len(in) \in Nat /\ sent \in Nat
  BY LenProperties DEF TypeOK, StageTypeOK
<1>1. CASE Produce
  <2>1. /\ in' = Append(in, sent + 1) /\ sent' = sent + 1
        /\ sent + 1 \in Items
    BY <1>0, <1>1, StageEnvAssumption DEF Produce
  <2>2. /\ Len(in') = Len(in) + 1
        /\ \A k \in 1 .. Len(in) : in'[k] = in[k]
        /\ in'[Len(in) + 1] = sent + 1
    BY <1>0, <2>1, AppendProperties
  <2>3. ASSUME NEW k \in 1 .. Len(in) + 1
        PROVE  in'[k] = (sent + 1) - (Len(in) + 1) + k
    <3>1. CASE k \in 1 .. Len(in)
      <4>1. in'[k] = sent - Len(in) + k
        BY <2>2, <3>1 DEF InputInOrder
      <4>. QED
        BY <1>0, <2>3, <4>1
    <3>2. CASE k = Len(in) + 1
      BY <1>0, <2>2, <3>2
    <3>. QED
      BY <1>0, <2>3, <3>1, <3>2
  <2>4. Len(in') = Len(in) + 1
    BY <2>2
  <2>. QED
    BY <2>1, <2>3, <2>4 DEF InputInOrder
<1>2. ASSUME NEW w \in Workers, Receive(w), UNCHANGED history
      PROVE  InputInOrder'
  <2>1. /\ in # <<>> /\ in' = Tail(in) /\ sent' = sent
    BY <1>2 DEF Receive, history
  <2>2. /\ Len(in') = Len(in) - 1
        /\ \A k \in 1 .. Len(in') : in'[k] = in[k + 1]
    BY <1>0, <2>1, HeadTailProperties
  <2>3. ASSUME NEW k \in 1 .. Len(in')
        PROVE  in'[k] = sent - (Len(in) - 1) + k
    <3>1. k + 1 \in 1 .. Len(in)
      BY <1>0, <2>2, <2>3
    <3>2. in'[k] = sent - Len(in) + (k + 1)
      BY <2>2, <2>3, <3>1 DEF InputInOrder
    <3>. QED
      BY <1>0, <2>3, <3>2
  <2>. QED
    BY <2>1, <2>2, <2>3 DEF InputInOrder
<1>3. CASE UNCHANGED <<in, sent>>
  BY <1>3 DEF InputInOrder
<1>4. CASE CloseIn \/ CancelCtx \/ Consume \/ CloseStep \/ UNCHANGED vars
  <2>1. UNCHANGED <<in, sent>>
    BY <1>4 DEF CloseIn, CancelCtx, Consume, CloseStep, CloseOut, vars, stageVars,
                history
  <2>. QED
    BY <1>3, <2>1
<1>5. ASSUME NEW w \in Workers, Step(w)
      PROVE  InputInOrder'
  <2>1. CASE Receive(w) /\ UNCHANGED history
    BY <1>2, <2>1
  <2>2. CASE ~(Receive(w) /\ UNCHANGED history)
    <3>1. UNCHANGED <<in, sent>>
      BY <1>5, <2>2
      DEF Step, QuietStep, FailStep, DropStep, ReturnClosed, ReturnCancelled,
          FnReturn, Send, FnError, AbandonSend, history
    <3>. QED
      BY <1>3, <3>1
  <2>. QED
    BY <2>1, <2>2
<1>. QED
  BY <1>1, <1>4, <1>5 DEF Next, Finished

\* What the workers other than w hold is less than one value for each.
LEMMA OthersHold ==
  ASSUME NEW w \in Workers, NEW B \in SUBSET (Workers \ {w}), NEW f
  PROVE  LET H == {f[v] : v \in B}
         IN  IsFiniteSet(H) /\ Cardinality(H) < Cardinality(Workers)
<1> DEFINE H == {f[v] : v \in B}
           hold == [v \in B |-> f[v]]
<1>1. IsFiniteSet(Workers)
  BY FS_Interval DEF Workers
<1>2. /\ IsFiniteSet(Workers \ {w}) /\ Cardinality(Workers \ {w}) = Cardinality(Workers) - 1
  BY <1>1, FS_RemoveElement
<1>3. IsFiniteSet(B) /\ Cardinality(B) <= Cardinality(Workers \ {w})
  BY <1>2, FS_Subset
<1>4. hold \in Surjection(B, H)
  BY DEF Surjection
<1>5. IsFiniteSet(H) /\ Cardinality(H) <= Cardinality(B)
  BY <1>3, <1>4, FS_Surjection
<1>6. /\ Cardinality(H) \in Nat /\ Cardinality(B) \in Nat
      /\ Cardinality(Workers) \in Nat
  BY <1>1, <1>3, <1>5, FS_CardinalityType
<1>. QED
  BY <1>2, <1>3, <1>5, <1>6

LEMMA StepLate ==
  ASSUME TypeOK, TypeOK', Conservation, OvertakingInv, [Next]_vars, NEW j \in Emitted'
  PROVE  Cardinality(Late(j)') < Cardinality(Workers)
<1>0. /\ in \in Seq(Items) /\ out \in Seq(Items)
      /\ Line \in Seq(Items) /\ Len(Line) \in Nat /\ DOMAIN Line = 1 .. Len(Line)
      /\ Emitted = {Line[p] : p \in 1 .. Len(Line)}
  BY LineEmits DEF TypeOK, StageTypeOK
<1>1. /\ FewLate /\ IsInjective(in) /\ HeldOnce /\ Emitted \cap Held = {}
      /\ \A i \in Emitted, k \in Range(in) : i < k
  BY LeftEarlier
  DEF OvertakingInv, Conservation, NoDuplicate, OnePlace, Apart, Settled
<1>2. Emitted \subseteq Items
  BY <1>0, ElementOfSeq
<1>3. ASSUME Line' = Line, Emitted' = Emitted,
             \A i \in Range(in') \cup Held' : i \in Range(in) \cup Held \/ i > j
      PROVE  Cardinality(Late(j)') < Cardinality(Workers)
  <2>1. j \in Emitted /\ j \in Items
    BY <1>2, <1>3
  <2>2. Cardinality(Late(j)) < Cardinality(Workers)
    BY <1>1, <2>1 DEF FewLate
  <2>3. \A i \in 1 .. j - 1 : i \in Range(in') \cup Held' => i \in Range(in) \cup Held
    BY <1>3, <2>1, StageEnvAssumption
  <2>4. \A p, q \in DOMAIN Line' :
          p < q /\ Line'[p] = j =>
            p \in DOMAIN Line /\ q \in DOMAIN Line /\ Line[p] = j /\ Line[q] = Line'[q]
    BY <1>3
  <2>. QED
    BY <2>1, <2>2, <2>3, <2>4, LateShrinks
<1>4. CASE Produce
  <2>1. /\ Line' = Line /\ Emitted' = Emitted /\ Held' = Held
        /\ in' = Append(in, sent + 1) /\ sent + 1 \in Items
    BY <1>4, StageEnvAssumption
    DEF Produce, Line, Emitted, Held, Busy, workerVars, TypeOK
  <2>2. Range(in') = Range(in) \cup {sent + 1}
    BY <1>0, <2>1, SendRange
  <2>3. j \in 1 .. sent
    BY <2>1 DEF Conservation, NoLoss, Settled
  <2>4. sent + 1 > j
    BY <2>3 DEF TypeOK
  <2>. QED
    BY <1>3, <2>1, <2>2, <2>4
<1>5. CASE Consume
  <2>1. Line' = Line /\ Emitted' = Emitted
    BY <1>5, LineConsume, ConsumeEmitted
  <2>2. in' = in /\ Held' = Held
    BY <1>5 DEF Consume, Held, Busy, workerVars
  <2>. QED
    BY <1>3, <2>1, <2>2
<1>6. CASE CloseIn \/ CancelCtx \/ CloseStep \/ UNCHANGED vars
  <2>1. UNCHANGED <<in, pc, item, out, delivered>>
    BY <1>6 DEF CloseIn, CancelCtx, CloseStep, CloseOut, vars, stageVars,
                workerVars, history
  <2>2. Line' = Line /\ Emitted' = Emitted /\ Held' = Held /\ in' = in
    BY <2>1 DEF Line, Emitted, Held, Busy
  <2>. QED
    BY <1>3, <2>2
<1>7. ASSUME NEW w \in Workers, Step(w)
      PROVE  Cardinality(Late(j)') < Cardinality(Workers)
  <2>1. CASE Receive(w) /\ UNCHANGED history
    <3>1. /\ Head(in) \in Range(in) /\ Head(in) \in Items
          /\ Range(in') = Range(in) \ {Head(in)}
      BY <1>0, <1>1, <2>1, ReceiveRange DEF Receive
    <3>2. Head(in) \notin Held
      BY <3>1 DEF Conservation, OnePlace, Apart
    <3>3. Held' = Held \cup {Head(in)}
      BY <1>1, <2>1, <3>1, <3>2, TakeHeld DEF Receive
    <3>4. Line' = Line /\ Emitted' = Emitted
      BY <2>1 DEF Receive, history, Line, Emitted
    <3>. QED
      BY <1>3, <3>1, <3>3, <3>4
  <2>2. CASE (ReturnClosed(w) \/ ReturnCancelled(w) \/ FnReturn(w))
               /\ UNCHANGED history
    <3>1. Held' = Held
      <4>1. CASE ReturnClosed(w) \/ ReturnCancelled(w)
        <5>1. w \notin Busy /\ item[w] = None /\ GoTo(w, "done", item[w])
          BY <4>1 DEF ReturnClosed, ReturnCancelled, Busy, TypeOK, StageTypeOK
        <5>. QED
          BY <1>1, <5>1, KeepHeld DEF Locations
      <4>2. CASE FnReturn(w)
        <5>1. w \in Busy /\ GoTo(w, "send", item[w])
          BY <4>2 DEF FnReturn, Busy
        <5>. QED
          BY <1>1, <5>1, KeepHeld DEF Locations
      <4>. QED
        BY <2>2, <4>1, <4>2
    <3>2. Line' = Line /\ Emitted' = Emitted /\ in' = in
      BY <2>2 DEF ReturnClosed, ReturnCancelled, FnReturn, history, Line, Emitted
    <3>. QED
      BY <1>3, <3>1, <3>2
  <2>3. CASE FailStep(w) \/ DropStep(w)
    <3>1. Held' = Held \ {item[w]}
      <4>1. w \in Busy /\ (GoTo(w, "select", None) \/ GoTo(w, "done", None))
        BY <2>3 DEF FailStep, DropStep, FnError, AbandonSend, Busy
      <4>. QED
        BY <1>1, <4>1, ReleaseHeld
    <3>2. Line' = Line /\ Emitted' = Emitted /\ in' = in
      BY <2>3 DEF FailStep, DropStep, FnError, AbandonSend, Line, Emitted
    <3>. QED
      BY <1>3, <3>1, <3>2
  <2>4. CASE Send(w) /\ UNCHANGED history
    <3>1. /\ item[w] \in Held /\ item[w] \in Items
          /\ Held' = Held \ {item[w]}
      <4>1. w \in Busy /\ GoTo(w, "select", None)
        BY <2>4 DEF Send, Busy
      <4>. QED
        BY <1>1, <4>1, ReleaseHeld
    <3>2. /\ out' = Append(out, item[w]) /\ delivered' = delivered /\ in' = in
      BY <2>4 DEF Send, history
    <3>3. /\ DOMAIN Line' = 1 .. Len(Line) + 1
          /\ \A k \in 1 .. Len(Line) : Line'[k] = Line[k]
          /\ Line'[Len(Line) + 1] = item[w]
      BY <3>1, <3>2, LineSend
    <3>4. item[w] \notin Emitted
      BY <1>1, <3>1
    <3>5. Emitted' = Emitted \cup {item[w]}
      <4>1. Range(out') = Range(out) \cup {item[w]}
        BY <1>0, <3>1, <3>2, SendRange
      <4>. QED
        BY <3>2, <4>1 DEF Emitted
    <3>6. CASE j \in Emitted
      <4>1. Cardinality(Late(j)) < Cardinality(Workers) /\ j \in Items
        BY <1>1, <1>2, <3>6 DEF FewLate
      <4>2. j # item[w]
        BY <3>4, <3>6
      <4>3. \A p, q \in DOMAIN Line' :
              p < q /\ Line'[p] = j =>
                \/ Line'[q] \in Held
                \/ p \in DOMAIN Line /\ q \in DOMAIN Line
                     /\ Line[p] = j /\ Line[q] = Line'[q]
        <5>1. SUFFICES ASSUME NEW p \in DOMAIN Line', NEW q \in DOMAIN Line',
                              p < q, Line'[p] = j
                       PROVE  \/ Line'[q] \in Held
                              \/ p \in DOMAIN Line /\ q \in DOMAIN Line
                                   /\ Line[p] = j /\ Line[q] = Line'[q]
          OBVIOUS
        <5>2. CASE q = Len(Line) + 1
          BY <3>1, <3>3, <5>2
        <5>3. CASE q # Len(Line) + 1
          <6>1. p \in 1 .. Len(Line) /\ q \in 1 .. Len(Line)
            BY <1>0, <3>3, <5>1, <5>3
          <6>. QED
            BY <1>0, <3>3, <5>1, <6>1
        <5>. QED
          BY <5>2, <5>3
      <4>4. \A i \in 1 .. j - 1 : i \in Range(in') \cup Held' => i \in Range(in) \cup Held
        BY <3>1, <3>2
      <4>. QED
        BY <4>1, <4>3, <4>4, LateShrinks
    <3>7. CASE j = item[w]
      <4>1. Busy' \in SUBSET (Workers \ {w}) /\ Held' = {item'[v] : v \in Busy'}
        BY <2>4 DEF Send, GoTo, Busy, Held, TypeOK, StageTypeOK
      <4>2. IsFiniteSet(Held') /\ Cardinality(Held') < Cardinality(Workers)
        BY <4>1, OthersHold
      <4>3. Late(j)' \subseteq Held'
        <5>1. SUFFICES ASSUME NEW i \in Late(j)'
                       PROVE  i \in Held'
          OBVIOUS
        <5>2. i \in 1 .. j - 1
          BY <5>1 DEF Late
        <5>3. i \notin Range(in')
          BY <3>1, <3>2, <3>7, <5>2, LeftEarlier DEF OvertakingInv
        <5>4. ~ \E p, q \in DOMAIN Line' : p < q /\ Line'[p] = j /\ Line'[q] = i
          <6>1. SUFFICES ASSUME NEW p \in DOMAIN Line', NEW q \in DOMAIN Line',
                                p < q, Line'[p] = j
                         PROVE  FALSE
            OBVIOUS
          <6>2. p \in 1 .. Len(Line)
            BY <1>0, <3>3, <6>1
          <6>. QED
            BY <1>0, <3>3, <3>4, <3>7, <6>1, <6>2
        <5>. QED
          BY <5>1, <5>3, <5>4 DEF Late, Line
      <4>4. /\ Cardinality(Late(j)') <= Cardinality(Held')
            /\ IsFiniteSet(Late(j)')
        BY <4>2, <4>3, FS_Subset
      <4>5. /\ Cardinality(Late(j)') \in Nat /\ Cardinality(Held') \in Nat
            /\ Cardinality(Workers) \in Nat
        <5>1. IsFiniteSet(Workers)
          BY FS_Interval DEF Workers
        <5>. QED
          BY <4>2, <4>4, <5>1, FS_CardinalityType
      <4>. QED
        BY <4>2, <4>4, <4>5
    <3>. QED
      BY <3>5, <3>6, <3>7
  <2>. QED
    BY <1>7, <2>1, <2>2, <2>3, <2>4 DEF Step, QuietStep
<1>. QED
  BY <1>4, <1>5, <1>6, <1>7 DEF Next, Finished

(***************************************************************************)
(* Workers overtake each other by at most one value each, for any number   *)
(* of workers; with one worker the output is in the order of the input.    *)
(***************************************************************************)
THEOREM StageKeepsOrder == Spec => []BoundedOvertaking
<1>1. Init => TypeOK /\ Conservation /\ OvertakingInv
  BY InitType, InitConservation, InitOvertaking
<1>2. TypeOK /\ Conservation /\ OvertakingInv /\ [Next]_vars
        => (TypeOK /\ Conservation /\ OvertakingInv)'
  <2>1. SUFFICES ASSUME TypeOK, Conservation, OvertakingInv, [Next]_vars
                 PROVE  (TypeOK /\ Conservation /\ OvertakingInv)'
    OBVIOUS
  <2>2. TypeOK' /\ Conservation' /\ InputInOrder'
    BY <2>1, StepType, StepConservation, StepInput DEF OvertakingInv
  <2>3. FewLate'
    BY <2>1, <2>2, StepLate DEF FewLate
  <2>. QED
    BY <2>2, <2>3 DEF OvertakingInv
<1>3. TypeOK /\ Conservation /\ OvertakingInv => BoundedOvertaking
  <2>1. SUFFICES ASSUME TypeOK, Conservation, OvertakingInv, NEW j \in Emitted
                 PROVE  /\ Late(j) \cap Range(in) = {}
                        /\ Cardinality(Late(j)) < Cardinality(Workers)
    BY DEF BoundedOvertaking
  <2>2. \A k \in Range(in) : j < k
    BY <2>1, LeftEarlier DEF OvertakingInv, Settled
  <2>3. j \in 1 .. sent /\ sent \in Nat
    BY <2>1 DEF Conservation, NoLoss, Settled, TypeOK
  <2>4. Late(j) \subseteq 1 .. j - 1
    BY DEF Late
  <2>5. Late(j) \cap Range(in) = {}
    BY <2>2, <2>3, <2>4
  <2>. QED
    BY <2>1, <2>5 DEF OvertakingInv, FewLate
<1>. QED
  BY <1>1, <1>2, <1>3, PTL DEF Spec


-----------------------------------------------------------------------------
(***************************************************************************)
(* The refinement of ItemFlow.                                             *)
(***************************************************************************)
Fate == [i \in Items |-> FateOf(i)]

LEMMA FateMeaning ==
  ASSUME Conservation, NEW i \in Items
  PROVE  /\ i \in Emitted => FateOf(i) = "emitted"
         /\ i \in failed => FateOf(i) = "failed"
         /\ i \in dropped => FateOf(i) = "dropped"
         /\ i \in 1 .. sent /\ i \notin Settled => FateOf(i) = "accepted"
         /\ i \notin 1 .. sent => FateOf(i) = "absent"
BY DEF FateOf, Settled, Emitted, Conservation, NoLoss, OnePlace, Apart

LEMMA FateFrame ==
  ASSUME Emitted' = Emitted, UNCHANGED <<failed, dropped, sent>>
  PROVE  Fate' = Fate
BY DEF Fate, FateOf, Settled

LEMMA InitFlow == Init => Flow!Init
<1> SUFFICES ASSUME Init
             PROVE  Flow!Init
  OBVIOUS
<1>1. \A i \in Items : FateOf(i) = "absent"
  <2>1. 1 .. sent = {}
    BY DEF Init
  <2>. QED
    BY <2>1, InitConservation, FateMeaning
<1>2. inClosed = FALSE /\ ctxDone = FALSE /\ outClosed = FALSE
  BY DEF Init, StageInit
<1>. QED
  BY <1>1, <1>2 DEF Flow!Init

\* A worker that is past the receive holds an accepted value, the output is
\* open, and once it has settled that value only its fate has changed.
LEMMA SettleFate ==
  ASSUME TypeOK, Conservation, Conservation', ShutdownInv,
         NEW w \in Busy, sent' = sent,
         NEW f \in {"emitted", "failed", "dropped"},
         f = "emitted" => /\ Emitted' = Emitted \cup {item[w]}
                          /\ UNCHANGED <<failed, dropped>>,
         f = "failed"  => /\ failed' = failed \cup {item[w]}
                          /\ Emitted' = Emitted /\ dropped' = dropped,
         f = "dropped" => /\ dropped' = dropped \cup {item[w]}
                          /\ Emitted' = Emitted /\ failed' = failed
  PROVE  /\ ~outClosed
         /\ item[w] \in Items
         /\ Fate[item[w]] = "accepted"
         /\ Fate' = [Fate EXCEPT ![item[w]] = f]
<1>1. w \in Workers /\ pc[w] # "done"
  BY DEF Busy
<1>2. ~outClosed
  BY <1>1 DEF ShutdownInv, ClosedAfterAll
<1>3. item[w] \in Items /\ item[w] \in Held
  BY <1>1 DEF TypeOK, StageTypeOK, Held
<1>4. item[w] \in 1 .. sent /\ item[w] \notin Settled
  BY <1>3 DEF Conservation, NoLoss, OnePlace, Apart
<1>5. Fate[item[w]] = "accepted"
  BY <1>3, <1>4, FateMeaning DEF Fate
<1>6. \A i \in Items : i = item[w] => FateOf(i)' = f
  <2>1. SUFFICES ASSUME NEW i \in Items, i = item[w]
                 PROVE  FateOf(i)' = f
    OBVIOUS
  <2>2. CASE f = "emitted"
    BY <1>4, <2>1, <2>2 DEF FateOf, Settled
  <2>3. CASE f = "failed"
    BY <1>4, <2>1, <2>3 DEF FateOf, Settled
  <2>4. CASE f = "dropped"
    BY <1>4, <2>1, <2>4 DEF FateOf, Settled
  <2>. QED
    BY <2>2, <2>3, <2>4
<1>7. \A i \in Items : i # item[w] => FateOf(i)' = FateOf(i)
  BY DEF FateOf, Settled
<1>8. Fate' = [Fate EXCEPT ![item[w]] = f]
  BY <1>6, <1>7 DEF Fate
<1>. QED
  BY <1>2, <1>3, <1>5, <1>8

LEMMA StepFlow ==
  ASSUME TypeOK, Conservation, Conservation', ShutdownInv, [Next]_vars
  PROVE  [Flow!Next]_(Flow!flowVars)
<1>1. CASE Produce
  <2>1. /\ sent + 1 \in Items
        /\ sent + 1 \notin 1 .. sent
        /\ 1 .. sent + 1 = 1 .. sent \cup {sent + 1}
        /\ ~inClosed
    <3>1. sent < N /\ sent \in Nat /\ ~inClosed
      BY <1>1 DEF Produce, TypeOK
    <3>2. sent + 1 \in 1 .. N
      BY <3>1
    <3>3. 1 .. sent + 1 = 1 .. sent \cup {sent + 1}
      BY <3>1
    <3>. QED
      BY <3>1, <3>2, <3>3
  <2>2. /\ sent' = sent + 1
        /\ UNCHANGED <<inClosed, ctxDone, outClosed, failed, dropped>>
        /\ Emitted' = Emitted
    BY <1>1 DEF Produce, Emitted
  <2>3. sent + 1 \notin Settled
    BY <2>1 DEF Conservation, NoLoss
  <2>4. \A i \in Items : i = sent + 1 => FateOf(i)' = "accepted"
    BY <2>1, <2>2, <2>3 DEF FateOf, Settled
  <2>5. \A i \in Items : i # sent + 1 => FateOf(i)' = FateOf(i)
    BY <2>1, <2>2 DEF FateOf, Settled
  <2>6. Fate' = [Fate EXCEPT ![sent + 1] = "accepted"]
    BY <2>1, <2>4, <2>5 DEF Fate
  <2>7. Fate[sent + 1] = "absent"
    BY <2>1, FateMeaning DEF Fate
  <2>. QED
    BY <2>1, <2>2, <2>6, <2>7 DEF Fate, Flow!Next, Flow!Accept
<1>2. CASE CloseIn
  <2>1. Fate' = Fate
    BY <1>2, FateFrame DEF CloseIn, Emitted, history
  <2>. QED
    BY <1>2, <2>1 DEF CloseIn, Fate, Flow!Next, Flow!EndInput
<1>3. CASE CancelCtx
  <2>1. Fate' = Fate
    BY <1>3, FateFrame DEF CancelCtx, Emitted, history
  <2>. QED
    BY <1>3, <2>1 DEF CancelCtx, Fate, Flow!Next, Flow!Cancel
<1>4. CASE Consume
  <2>1. Emitted' = Emitted
    BY <1>4, ConsumeEmitted
  <2>2. Fate' = Fate
    BY <1>4, <2>1, FateFrame DEF Consume
  <2>. QED
    BY <1>4, <2>2 DEF Consume, Fate, Flow!flowVars
<1>5. CASE CloseStep
  <2>1. Fate' = Fate
    BY <1>5, FateFrame DEF CloseStep, CloseOut, Emitted, history
  <2>2. ~ctxDone => inClosed /\ \A i \in Items : Fate[i] # "accepted"
    <3>1. SUFFICES ASSUME ~ctxDone
                   PROVE  inClosed /\ 1 .. sent = Settled
      BY FateMeaning DEF Fate, Settled
    <3>2. \A w \in Workers : pc[w] = "done"
      BY <1>5 DEF CloseStep, CloseOut
    <3>3. inClosed /\ in = <<>>
      <4>1. 1 \in Workers
        BY DEF Workers
      <4>. QED
        BY <3>1, <3>2, <4>1 DEF ShutdownInv, DoneHasReason
    <3>4. Range(in) = {} /\ Held = {}
      BY <3>2, <3>3, EmptyChannel DEF Held, Busy
    <3>. QED
      BY <3>3, <3>4 DEF Conservation, NoLoss
  <2>. QED
    BY <1>5, <2>1, <2>2 DEF CloseStep, CloseOut, Fate, Flow!Next, Flow!Close
<1>6. ASSUME NEW w \in Workers, Step(w)
      PROVE  [Flow!Next]_(Flow!flowVars)
  <2>1. CASE (Receive(w) \/ ReturnClosed(w) \/ ReturnCancelled(w)
                \/ FnReturn(w)) /\ UNCHANGED history
    <3>1. UNCHANGED <<out, outClosed, inClosed, ctxDone, sent, delivered,
                      failed, dropped>>
      BY <2>1 DEF Receive, ReturnClosed, ReturnCancelled, FnReturn, history
    <3>2. Fate' = Fate
      BY <3>1, FateFrame DEF Emitted
    <3>. QED
      BY <3>1, <3>2 DEF Fate, Flow!flowVars
  <2>2. CASE Send(w) /\ UNCHANGED history
    <3>1. /\ w \in Busy
          /\ item[w] \in Items
      BY <2>2 DEF Send, Busy, TypeOK, StageTypeOK
    <3>2. /\ UNCHANGED <<failed, dropped, sent, outClosed, inClosed, ctxDone>>
          /\ Emitted' = Emitted \cup {item[w]}
      <4>1. /\ out' = Append(out, item[w])
            /\ UNCHANGED <<failed, dropped, sent, outClosed, inClosed, ctxDone,
                           delivered>>
        BY <2>2 DEF Send, history
      <4>2. out \in Seq(Items)
        BY DEF TypeOK, StageTypeOK
      <4>3. Range(out') = Range(out) \cup {item[w]}
        BY ONLY <3>1, <4>1, <4>2, SendRange
      <4>. QED
        BY <4>1, <4>3 DEF Emitted
    <3>3. /\ ~outClosed
          /\ Fate[item[w]] = "accepted"
          /\ Fate' = [Fate EXCEPT ![item[w]] = "emitted"]
      BY <3>1, <3>2, SettleFate
    <3>. QED
      BY <3>1, <3>2, <3>3 DEF Fate, Flow!Next, Flow!Settle
  <2>3. CASE FailStep(w)
    <3>1. /\ w \in Busy
          /\ item[w] \in Items
      BY <2>3 DEF FailStep, FnError, Busy, TypeOK, StageTypeOK
    <3>2. /\ UNCHANGED <<dropped, sent, outClosed, inClosed, ctxDone>>
          /\ Emitted' = Emitted
          /\ failed' = failed \cup {item[w]}
      BY <2>3 DEF FailStep, FnError, Emitted
    <3>3. /\ ~outClosed
          /\ Fate[item[w]] = "accepted"
          /\ Fate' = [Fate EXCEPT ![item[w]] = "failed"]
      BY <3>1, <3>2, SettleFate
    <3>. QED
      BY <3>1, <3>2, <3>3 DEF Fate, Flow!Next, Flow!Settle
  <2>4. CASE DropStep(w)
    <3>1. /\ w \in Busy
          /\ item[w] \in Items
          /\ ctxDone
      BY <2>4 DEF DropStep, AbandonSend, Busy, TypeOK, StageTypeOK
    <3>2. /\ UNCHANGED <<failed, sent, outClosed, inClosed, ctxDone>>
          /\ Emitted' = Emitted
          /\ dropped' = dropped \cup {item[w]}
      BY <2>4 DEF DropStep, AbandonSend, Emitted
    <3>3. /\ ~outClosed
          /\ Fate[item[w]] = "accepted"
          /\ Fate' = [Fate EXCEPT ![item[w]] = "dropped"]
      BY <3>1, <3>2, SettleFate
    <3>. QED
      BY <3>1, <3>2, <3>3 DEF Fate, Flow!Next, Flow!Settle
  <2>. QED
    BY <1>6, <2>1, <2>2, <2>3, <2>4 DEF Step, QuietStep
<1>7. CASE UNCHANGED vars
  <2>1. Fate' = Fate
    BY <1>7, FateFrame DEF vars, stageVars, Emitted, history
  <2>. QED
    BY <1>7, <2>1 DEF vars, stageVars, Fate, Flow!flowVars
<1>. QED
  BY <1>1, <1>2, <1>3, <1>4, <1>5, <1>6, <1>7 DEF Next, Finished

(***************************************************************************)
(* A stage with its workers, channels and closing goroutine implements the *)
(* promise of ItemFlow: every value settles at most once, is dropped only  *)
(* after a cancellation, and the output closes only when nothing more can  *)
(* come out of it.                                                         *)
(***************************************************************************)
THEOREM StageImplementsFlow == Spec => ImplementsFlow
<1>1. Init => TypeOK /\ Conservation /\ ShutdownInv
  BY InitType, InitConservation, InitShutdown
<1>2. TypeOK /\ Conservation /\ ShutdownInv /\ [Next]_vars
        => (TypeOK /\ Conservation /\ ShutdownInv)'
  BY StepType, StepConservation, StepShutdown
<1>3. TypeOK /\ Conservation /\ Conservation' /\ ShutdownInv /\ [Next]_vars
        => [Flow!Next]_(Flow!flowVars)
  BY StepFlow
<1>. QED
  BY <1>1, <1>2, <1>3, InitFlow, PTL DEF Spec, ImplementsFlow, Flow!Spec
=============================================================================
