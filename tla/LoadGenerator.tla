---------------------------- MODULE LoadGenerator ----------------------------
(***************************************************************************)
(* The source of the document pipeline                                     *)
(* (applications/doc-pipeline/internal/load/load_generator.go): a goroutine *)
(* that draws a random slice of the data file on every tick and sends it   *)
(* on a channel, with a consumer that receives and an owner of the context *)
(* that may cancel it.                                                     *)
(***************************************************************************)
EXTENDS Integers, Sequences

CONSTANTS
  Configs,      \* the configurations the generator may be built with
  Capacity,     \* capacity of the channel: the literal 100 of Run
  MaxRequests   \* bound on the number of ticks

ASSUME LoadAssumption ==
  /\ Configs \subseteq [MinTextSize : Int, MaxTextSize : Int, FileSize : Nat]
  /\ Capacity \in Nat \ {0}
  /\ MaxRequests \in Nat

VARIABLES
  config,     \* l.config
  pc,         \* "select", "send" or "done"
  req,        \* the request being sent
  counter,    \* l.counter
  out,        \* contents of the channel
  closed,     \* close(out) has run
  ctxDone,
  requests,   \* counter behind IncDataLoadingRequests
  textSizes,  \* the calls of RecordDataLoadingRequestTextSize, in order
  received    \* what the consumer has received, in order

metrics == <<requests, textSizes>>
vars == <<config, pc, req, counter, out, closed, ctxDone, metrics, received>>

-----------------------------------------------------------------------------
(***************************************************************************)
(* generateRandomDataLoadingRequest.                                       *)
(***************************************************************************)
Smaller(a, b) == IF a <= b THEN a ELSE b
Larger(a, b)  == IF a >= b THEN a ELSE b

\* The values of rng.Intn(n), which panics unless n > 0.
Intn(n) == 0 .. n - 1

\* Slips: the clamp of one bound is forgotten.
MaxSizeUnclamped(c) == Larger(c.MaxTextSize, Larger(c.MinTextSize, 1))

MinSize(c) == Smaller(Larger(c.MinTextSize, 1), c.FileSize)
MaxSize(c) == Smaller(Larger(c.MaxTextSize, Larger(c.MinTextSize, 1)), c.FileSize)

TextSizes(c) ==
  IF MaxSize(c) = MinSize(c)
    THEN {MinSize(c)}
    ELSE {MinSize(c) + r : r \in Intn(MaxSize(c) - MinSize(c) + 1)}

MaxOffset(c, textSize) == Larger(c.FileSize - textSize, 0)

Offsets(c, textSize) ==
  IF MaxOffset(c, textSize) = 0 THEN {0} ELSE Intn(MaxOffset(c, textSize) + 1)

\* The requests that may be drawn.  The ID stands for IDPrefix-counter.
Drawn(c, n) ==
  UNION {{[ID |-> n, Offset |-> o, TextSize |-> t] : o \in Offsets(c, t)} :
           t \in TextSizes(c)}

-----------------------------------------------------------------------------
Requests == [ID : Int, Offset : Int, TextSize : Int]

NoRequest == [ID |-> -1, Offset |-> 0, TextSize |-> 0]

Init ==
  /\ config \in Configs
  /\ pc = "select"
  /\ req = NoRequest
  /\ counter = 0
  /\ out = <<>>
  /\ closed = FALSE
  /\ ctxDone = FALSE
  /\ requests = 0
  /\ textSizes = <<>>
  /\ received = <<>>

\* Slips in the loop, told from the code by the properties below.
SendKeepsCounter ==
  /\ pc = "send"
  /\ Len(out) < Capacity
  /\ out' = Append(out, req)
  /\ pc' = "select"
  /\ UNCHANGED <<config, req, counter, closed, ctxDone, metrics>>

\* case <-ticker.C: the request is drawn and counted, then sent.
Tick ==
  /\ pc = "select"
  /\ counter < MaxRequests
  /\ \E r \in Drawn(config, counter) :
       /\ req' = r
       /\ textSizes' = Append(textSizes, r.TextSize)
  /\ requests' = requests + 1
  /\ pc' = "send"
  /\ UNCHANGED <<config, counter, out, closed, ctxDone>>

\* out <- req: blocks on a full channel, also when the context is cancelled.
Send ==
  /\ pc = "send"
  /\ Len(out) < Capacity
  /\ out' = Append(out, req)
  /\ counter' = counter + 1
  /\ pc' = "select"
  /\ UNCHANGED <<config, req, closed, ctxDone, metrics>>

\* case <-ctx.Done(): the deferred close runs.
Stop ==
  /\ pc = "select"
  /\ ctxDone
  /\ pc' = "done"
  /\ closed' = TRUE
  /\ UNCHANGED <<config, req, counter, out, ctxDone, metrics>>

Cancel ==
  /\ ~ctxDone
  /\ ctxDone' = TRUE
  /\ UNCHANGED <<config, pc, req, counter, out, closed, metrics>>

Receive ==
  /\ out # <<>>
  /\ received' = Append(received, Head(out))
  /\ out' = Tail(out)
  /\ UNCHANGED <<config, pc, req, counter, closed, ctxDone, metrics>>

Generate == (Tick \/ Send \/ Stop) /\ UNCHANGED received

CancelCtx == Cancel /\ UNCHANGED received

Next == Generate \/ CancelCtx \/ Receive

Spec == Init /\ [][Next]_vars

-----------------------------------------------------------------------------
Pending == IF pc = "send" THEN <<req>> ELSE <<>>

\* Every request drawn so far, oldest first.
All == received \o out \o Pending

(***************************************************************************)
(* Every request names a slice that lies inside the file, whichever of the *)
(* four clamps applied (min below 1, max below min, either beyond the      *)
(* file), and it is empty only if the file is.                             *)
(***************************************************************************)
Fits(r, c) ==
  /\ r.Offset >= 0
  /\ r.Offset + r.TextSize <= c.FileSize
  /\ r.TextSize >= Smaller(1, c.FileSize)

RequestsFit ==
  /\ \A i \in DOMAIN received : Fits(received[i], config)
  /\ \A i \in DOMAIN out : Fits(out[i], config)
  /\ pc = "send" => Fits(req, config)

(***************************************************************************)
(* The requests carry the numbers 0, 1, 2, .. without gap or repetition,   *)
(* although the counter moves only after the send, and although a send may *)
(* still complete after the cancellation; and the metrics describe the     *)
(* requests in that order, ahead of the channel by the one request that is *)
(* being sent.                                                             *)
(***************************************************************************)
RequestsNumbered ==
  /\ \A i \in DOMAIN All : All[i].ID = i - 1
  /\ requests = Len(All)
  /\ textSizes = [i \in DOMAIN All |-> All[i].TextSize]
=============================================================================
