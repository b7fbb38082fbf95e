---------------------------- MODULE PipelineProofs ----------------------------
(***************************************************************************)
(* Theorems about the load generator and about the document pipeline that  *)
(* starts with it, for every configuration, number of tokenizers, capacity *)
(* and number of requests.                                                 *)
(*                                                                         *)
(* The generator is proved about first, alone.  Then the lemmas about one  *)
(* stage, any of the four: a record s of its channels and its pool of      *)
(* workers W, and D, what has left its output.  PoolInv is kept by the     *)
(* steps of the stage and by those of its neighbours.  The pipeline is     *)
(* four such stages in a row, each one's From being the next one's D.      *)
(***************************************************************************)
EXTENDS DocPipeline, ChannelLemmas, FiniteSetTheorems

-----------------------------------------------------------------------------
(***************************************************************************)
(* The load generator.                                                     *)
(***************************************************************************)

Config == [MinTextSize : Int, MaxTextSize : Int, FileSize : Nat]

(***************************************************************************)
(* After the four clamps the bounds are ordered and inside the file.       *)
(***************************************************************************)
LEMMA ClampedBounds ==
  ASSUME NEW c \in Config
  PROVE  /\ MinSize(c) \in Nat /\ MaxSize(c) \in Nat
         /\ MinSize(c) <= MaxSize(c)
         /\ MaxSize(c) <= c.FileSize
         /\ MinSize(c) >= Smaller(1, c.FileSize)
<1>1. c.MinTextSize \in Int /\ c.MaxTextSize \in Int /\ c.FileSize \in Nat
  BY DEF Config
<1>. QED
  BY <1>1 DEF MinSize, MaxSize, Smaller, Larger

(***************************************************************************)
(* Both calls of rng.Intn get a positive argument: Intn panics on others.  *)
(***************************************************************************)
THEOREM IntnNeverPanics ==
  ASSUME NEW c \in Config
  PROVE  /\ MaxSize(c) # MinSize(c) => MaxSize(c) - MinSize(c) + 1 > 0
         /\ \A t \in TextSizes(c) :
              MaxOffset(c, t) # 0 => MaxOffset(c, t) + 1 > 0
<1>1. c.FileSize \in Nat
  BY DEF Config
<1>2. \A t \in TextSizes(c) : t \in Int
  BY ClampedBounds DEF TextSizes, Intn
<1>. QED
  BY <1>1, <1>2, ClampedBounds DEF MaxOffset, Larger

LEMMA DrawnFits ==
  ASSUME NEW c \in Config, NEW n \in Int, NEW r \in Drawn(c, n)
  PROVE  Fits(r, c) /\ r \in Requests /\ r.ID = n
<1>1. PICK t \in TextSizes(c) :
        \E o \in Offsets(c, t) : r = [ID |-> n, Offset |-> o, TextSize |-> t]
  BY DEF Drawn
<1>2. PICK o \in Offsets(c, t) : r = [ID |-> n, Offset |-> o, TextSize |-> t]
  BY <1>1
<1>3. c.FileSize \in Nat
  BY DEF Config
<1>4. /\ t \in Int
      /\ t >= Smaller(1, c.FileSize)
      /\ t <= c.FileSize
  BY <1>3, ClampedBounds DEF TextSizes, Intn, Smaller
<1>5. o \in Int /\ o >= 0 /\ o + t <= c.FileSize
  BY <1>3, <1>4 DEF Offsets, MaxOffset, Intn, Larger
<1>. QED
  BY <1>2, <1>3, <1>4, <1>5 DEF Fits, Requests

-----------------------------------------------------------------------------
LoadTypes ==
  /\ config \in Config
  /\ counter \in Int
  /\ req \in Requests
  /\ out \in Seq(Requests)
  /\ received \in Seq(Requests)

LoadInv == LoadTypes /\ RequestsFit

LEMMA GeneratorStep ==
  ASSUME LoadInv, [Next]_vars
  PROVE  LoadInv'
<1> USE DEF LoadInv, LoadTypes, RequestsFit
<1>1. CASE Tick /\ UNCHANGED received
  <2>1. req' \in Drawn(config, counter)
    BY <1>1 DEF Tick
  <2>2. Fits(req', config) /\ req' \in Requests
    BY <2>1, DrawnFits
  <2>. QED
    BY <1>1, <2>2 DEF Tick
<1>2. CASE Send /\ UNCHANGED received
  <2>1. /\ out' \in Seq(Requests)
        /\ DOMAIN out' = 1 .. Len(out) + 1
        /\ \A i \in 1 .. Len(out) : out'[i] = out[i]
        /\ out'[Len(out) + 1] = req
    BY <1>2, AppendProperties, LenProperties DEF Send
  <2>2. DOMAIN out = 1 .. Len(out) /\ Len(out) \in Nat
    BY LenProperties
  <2>3. \A i \in DOMAIN out' : Fits(out'[i], config)
    BY <1>2, <2>1, <2>2 DEF Send
  <2>. QED
    BY <1>2, <2>1, <2>3 DEF Send
<1>3. CASE ((Stop \/ Cancel) /\ UNCHANGED received) \/ UNCHANGED vars
  BY <1>3 DEF Stop, Cancel, vars, metrics
<1>4. CASE Receive
  <2>1. /\ out # <<>>
        /\ out' = Tail(out)
        /\ received' = Append(received, Head(out))
    BY <1>4 DEF Receive
  <2>2. /\ Head(out) = out[1]
        /\ Head(out) \in Requests
        /\ Len(out) \in Nat \ {0}
        /\ DOMAIN out = 1 .. Len(out)
    BY <2>1, HeadTailProperties, LenProperties, EmptySeq
  <2>3. /\ out' \in Seq(Requests)
        /\ DOMAIN out' = 1 .. Len(out) - 1
        /\ \A i \in 1 .. Len(out) - 1 : out'[i] = out[i + 1]
    BY <2>1, <2>2, HeadTailProperties, LenProperties
  <2>4. ASSUME NEW i \in DOMAIN out'
        PROVE  Fits(out'[i], config)
    <3>1. i + 1 \in DOMAIN out /\ out'[i] = out[i + 1]
      BY <2>2, <2>3
    <3>. QED
      BY <3>1
  <2>5. /\ received' \in Seq(Requests)
        /\ DOMAIN received' = 1 .. Len(received) + 1
        /\ \A i \in 1 .. Len(received) : received'[i] = received[i]
        /\ received'[Len(received) + 1] = Head(out)
    BY <2>1, <2>2, AppendProperties, LenProperties
  <2>6. DOMAIN received = 1 .. Len(received) /\ Len(received) \in Nat
    BY LenProperties
  <2>7. \A i \in DOMAIN received' : Fits(received'[i], config)
    BY <2>2, <2>5, <2>6
  <2>. QED
    BY <1>4, <2>3, <2>4, <2>5, <2>7 DEF Receive
<1>. QED
  BY <1>1, <1>2, <1>3, <1>4 DEF Next, Generate, CancelCtx

(***************************************************************************)
(* Whatever the configuration, every request that is ever drawn, waiting   *)
(* or received names a slice inside the data file.                         *)
(***************************************************************************)
THEOREM RequestsAlwaysFit == Spec => []RequestsFit
<1>1. Init => LoadInv
  BY LoadAssumption DEF Init, NoRequest, Requests, LoadInv, LoadTypes, RequestsFit, Config
<1>2. LoadInv /\ [Next]_vars => LoadInv'
  BY GeneratorStep
<1>3. LoadInv => RequestsFit
  BY DEF LoadInv
<1>. QED
  BY <1>1, <1>2, <1>3, PTL DEF Spec
-----------------------------------------------------------------------------
(***************************************************************************)
(* Why the numbers have no gaps: the counter is the number of requests     *)
(* sent, and the metrics are in step with the requests drawn.              *)
(***************************************************************************)
Numbered ==
  /\ textSizes \in Seq(Int)
  /\ counter = Len(received) + Len(out)
  /\ requests = Len(All)
  /\ Len(textSizes) = Len(All)
  /\ \A i \in 1 .. Len(All) :
       All[i].ID = i - 1 /\ textSizes[i] = All[i].TextSize

LEMMA SentJoined ==
  ASSUME NEW a \in Seq(Requests), NEW b \in Seq(Requests), NEW r \in Requests
  PROVE  a \o b \o <<r>> = a \o Append(b, r)
<1>1. <<r>> \in Seq(Requests)
  OBVIOUS
<1>2. (a \o b) \o <<r>> = a \o (b \o <<r>>)
  BY <1>1, ConcatAssociative
<1>3. b \o <<r>> = Append(b, r)
  BY AppendIsConcat
<1>. QED
  BY <1>2, <1>3

LEMMA Joined ==
  ASSUME NEW a \in Seq(Requests), NEW b \in Seq(Requests), NEW r \in Requests
  PROVE  /\ a \o b \in Seq(Requests) /\ a \o b \o <<r>> \in Seq(Requests)
         /\ Len(a \o b) = Len(a) + Len(b) /\ Len(a \o b) \in Nat
         /\ a \o b \o <<>> = a \o b
         /\ a \o b \o <<r>> = Append(a \o b, r)
<1>1. a \o b \in Seq(Requests) /\ Len(a \o b) = Len(a) + Len(b)
  BY ConcatProperties
<1>2. a \o b \o <<r>> = Append(a \o b, r)
  BY <1>1, AppendIsConcat
<1>3. a \o b \o <<>> = a \o b
  BY <1>1, ConcatEmptySeq
<1>4. Append(a \o b, r) \in Seq(Requests) /\ Len(a \o b) \in Nat
  BY <1>1, AppendProperties, LenProperties
<1>. QED
  BY <1>1, <1>2, <1>3, <1>4

LEMMA AllIsSeq ==
  ASSUME LoadTypes
  PROVE  All \in Seq(Requests) /\ DOMAIN All = 1 .. Len(All)
<1>1. All \in Seq(Requests)
  BY Joined DEF All, Pending, LoadTypes
<1>. QED
  BY <1>1, LenProperties

LEMMA NumberedStep ==
  ASSUME LoadInv, LoadInv', Numbered, [Next]_vars
  PROVE  Numbered'
<1>1. /\ received \in Seq(Requests) /\ out \in Seq(Requests) /\ req \in Requests
      /\ received' \in Seq(Requests) /\ out' \in Seq(Requests)
      /\ config \in Config /\ counter \in Int
  BY DEF LoadInv, LoadTypes
<1>2. /\ All \in Seq(Requests) /\ Len(All) \in Nat
      /\ Len(received) \in Nat /\ Len(out) \in Nat
  BY <1>1, AllIsSeq, LenProperties DEF LoadInv
<1>3. CASE Tick /\ UNCHANGED received
  <2>1. PICK r \in Drawn(config, counter) :
          req' = r /\ textSizes' = Append(textSizes, r.TextSize)
    BY <1>3 DEF Tick
  <2>2. r \in Requests /\ r.ID = counter /\ r.TextSize \in Int
    BY <1>1, <2>1, DrawnFits DEF Requests
  <2>3. All = received \o out /\ Len(All) = counter
    BY <1>1, <1>3, Joined DEF Tick, Numbered, All, Pending
  <2>4. All' = received \o out \o <<r>>
    BY <1>3, <2>1 DEF Tick, All, Pending
  <2>5. All' = Append(All, r)
    <3>1. Append(All, r) = All \o <<r>>
      BY <1>2, <2>2, AppendIsConcat
    <3>. QED
      BY <2>3, <2>4, <3>1
  <2>6. /\ Len(All') = Len(All) + 1
        /\ \A i \in 1 .. Len(All) : All'[i] = All[i]
        /\ All'[Len(All) + 1] = r
    BY <1>2, <2>2, <2>5, AppendProperties
  <2>7. /\ textSizes' \in Seq(Int)
        /\ Len(textSizes') = Len(All) + 1
        /\ \A i \in 1 .. Len(All) : textSizes'[i] = textSizes[i]
        /\ textSizes'[Len(All) + 1] = r.TextSize
    BY <2>1, <2>2, AppendProperties DEF Numbered
  <2>8. \A i \in 1 .. Len(All') :
          All'[i].ID = i - 1 /\ textSizes'[i] = All'[i].TextSize
    <3>1. ASSUME NEW i \in 1 .. Len(All)
          PROVE  All'[i].ID = i - 1 /\ textSizes'[i] = All'[i].TextSize
      BY <3>1, <2>6, <2>7 DEF Numbered
    <3>2. /\ All'[Len(All) + 1].ID = Len(All)
          /\ textSizes'[Len(All) + 1] = All'[Len(All) + 1].TextSize
      BY <2>2, <2>3, <2>6, <2>7
    <3>3. \A i \in 1 .. Len(All') : i \in 1 .. Len(All) \/ i = Len(All) + 1
      BY <1>2, <2>6
    <3>. QED
      BY <1>2, <3>1, <3>2, <3>3
  <2>9. /\ counter' = Len(received') + Len(out')
        /\ requests' = Len(All) + 1
    BY <1>3 DEF Tick, Numbered
  <2>. QED
    BY <2>6, <2>7, <2>8, <2>9 DEF Numbered
<1>4. CASE Send /\ UNCHANGED received
  <2>1. out' = Append(out, req) /\ counter' = counter + 1 /\ pc = "send" /\ pc' = "select"
    BY <1>4 DEF Send
  <2>2. Len(out') = Len(out) + 1
    BY <1>1, <2>1, AppendProperties
  <2>3. All' = All
    <3>1. All = received \o out \o <<req>>
      BY <2>1 DEF All, Pending
    <3>2. All' = received \o out' \o <<>>
      BY <1>4, <2>1 DEF All, Pending
    <3>3. received \o out \o <<req>> = received \o Append(out, req)
      BY <1>1, SentJoined
    <3>4. received \o out' \o <<>> = received \o out'
      BY <1>1, Joined
    <3>. QED
      BY <2>1, <3>1, <3>2, <3>3, <3>4
  <2>. QED
    BY <1>1, <1>2, <1>4, <2>1, <2>2, <2>3 DEF Send, metrics, Numbered
<1>5. CASE ((Stop \/ Cancel) /\ UNCHANGED received) \/ UNCHANGED vars
  <2>1. UNCHANGED <<received, out, counter, requests, textSizes>>
    BY <1>5 DEF Stop, Cancel, vars, metrics
  <2>2. All' = All
    BY <1>5 DEF Stop, Cancel, vars, All, Pending
  <2>. QED
    BY <2>1, <2>2 DEF Numbered
<1>6. CASE Receive
  <2>1. /\ out # <<>> /\ out' = Tail(out)
        /\ received' = Append(received, Head(out))
        /\ UNCHANGED <<pc, req, counter, requests, textSizes>>
    BY <1>6 DEF Receive, metrics
  <2>2. /\ Head(out) \in Requests /\ Tail(out) \in Seq(Requests)
        /\ Len(out') = Len(out) - 1
        /\ out = <<Head(out)>> \o Tail(out)
    BY <1>1, <2>1, HeadTailProperties
  <2>3. Len(received') = Len(received) + 1
    BY <1>1, <2>1, <2>2, AppendProperties
  <2>4. received' \o out' = received \o out
    <3>1. received' = received \o <<Head(out)>>
      BY <1>1, <2>1, <2>2, AppendIsConcat
    <3>2. <<Head(out)>> \in Seq(Requests)
      BY <2>2
    <3>. QED
      BY <1>1, <2>1, <2>2, <3>1, <3>2, ConcatAssociative
  <2>5. All' = All
    BY <2>1, <2>4 DEF All, Pending
  <2>6. counter' = Len(received') + Len(out')
    BY <1>2, <2>1, <2>2, <2>3 DEF Numbered
  <2>. QED
    BY <2>1, <2>5, <2>6 DEF Numbered
<1>. QED
  BY <1>3, <1>4, <1>5, <1>6 DEF Next, Generate, CancelCtx

(***************************************************************************)
(* Requests carry the numbers 0, 1, 2, .. in the order in which they are   *)
(* received, and the metrics describe them, for every configuration and    *)
(* capacity and whenever the context is cancelled.                         *)
(***************************************************************************)
THEOREM RequestsInOrder == Spec => []RequestsNumbered
<1>1. Init => LoadInv /\ Numbered
  <2>1. Init => LoadInv
    BY LoadAssumption DEF Init, NoRequest, Requests, LoadInv, LoadTypes, RequestsFit, Config
  <2>2. Init => Numbered
    BY DEF Init, Numbered, All, Pending
  <2>. QED
    BY <2>1, <2>2
<1>2. LoadInv /\ Numbered /\ [Next]_vars => LoadInv' /\ Numbered'
  BY GeneratorStep, NumberedStep
<1>3. LoadInv /\ Numbered => RequestsNumbered
  <2> SUFFICES ASSUME LoadInv, Numbered
               PROVE  RequestsNumbered
    OBVIOUS
  <2>2. DOMAIN All = 1 .. Len(All)
    BY AllIsSeq DEF LoadInv
  <2>3. textSizes \in [1 .. Len(All) -> Int]
    BY LenProperties DEF Numbered
  <2>4. textSizes = [i \in 1 .. Len(All) |-> All[i].TextSize]
    BY <2>3 DEF Numbered
  <2>. QED
    BY <2>2, <2>4 DEF Numbered, RequestsNumbered
<1>. QED
  BY <1>1, <1>2, <1>3, PTL DEF Spec
-----------------------------------------------------------------------------
(***************************************************************************)
(* One stage of the pipeline, seen from the channels around it: its pool   *)
(* of workers W and its state s, a record, the same for all four stages.   *)
(***************************************************************************)
Locations == {"select", "fn", "send", "done"}
Instruments == {"processed", "errors", "latencies"}

BusyIn(W, s) == {w \in W : s.at[w] \in {"fn", "send"}}
HeldIn(W, s) == {s.of[w] : w \in BusyIn(W, s)}

\* What has left the input of the stage, if D is what has left its output.
From(W, s, D) == HeldIn(W, s) \cup Range(s.outp) \cup D

\* How many requests the stage and its output hold.
Size(W, s) == Len(s.outp) + Cardinality(BusyIn(W, s))

PoolTypes(W, s) ==
  /\ s.inp \in Seq(Items) /\ s.outp \in Seq(Items)
  /\ s.inC \in BOOLEAN /\ s.outC \in BOOLEAN
  /\ s.at \in [W -> Locations]
  /\ s.of \in [W -> Items \cup {None}]
  /\ \A w \in W : s.of[w] = None <=> w \notin BusyIn(W, s)
  /\ s.met \in [Instruments -> Nat]

\* Workers leave, and the output closes, behind the end of the input only.
PoolShuts(W, s, ctx) ==
  /\ s.outC => \A w \in W : s.at[w] = "done"
  /\ ~ctx /\ (\E w \in W : s.at[w] = "done") => s.inC /\ s.inp = <<>>

\* No request is twice in what the stage and those behind it hold.
PoolApart(W, s, D) ==
  /\ \A v, w \in BusyIn(W, s) : s.of[v] = s.of[w] => v = w
  /\ IsInjective(s.outp)
  /\ Range(s.outp) \cap D = {}
  /\ HeldIn(W, s) \cap (Range(s.outp) \cup D) = {}

PoolInv(W, s, ctx, D) == PoolTypes(W, s) /\ PoolShuts(W, s, ctx) /\ PoolApart(W, s, D)

-----------------------------------------------------------------------------
\* The steps of Stage.tla from s to t in these terms.
Goes(s, t, w, loc, x) ==
  /\ t.at = [s.at EXCEPT ![w] = loc]
  /\ t.of = [s.of EXCEPT ![w] = x]

Takes(s, t, w) ==
  /\ s.at[w] = "select" /\ s.inp # <<>>
  /\ t.inp = Tail(s.inp) /\ t.outp = s.outp /\ t.outC = s.outC
  /\ Goes(s, t, w, "fn", Head(s.inp))

Leaves(s, t, ctx, w) ==
  /\ s.at[w] = "select" /\ (ctx \/ (s.inp = <<>> /\ s.inC))
  /\ t.inp = s.inp /\ t.outp = s.outp /\ t.outC = s.outC
  /\ Goes(s, t, w, "done", None)

Fails(s, t, w) ==
  /\ s.at[w] = "fn"
  /\ t.inp = s.inp /\ t.outp = s.outp /\ t.outC = s.outC
  /\ Goes(s, t, w, "select", None)

Returns(s, t, w) ==
  /\ s.at[w] = "fn"
  /\ t.inp = s.inp /\ t.outp = s.outp /\ t.outC = s.outC
  /\ Goes(s, t, w, "send", s.of[w])

Emits(s, t, w) ==
  /\ s.at[w] = "send"
  /\ t.inp = s.inp /\ t.outp = Append(s.outp, s.of[w]) /\ t.outC = s.outC
  /\ Goes(s, t, w, "select", None)

Drops(s, t, ctx, w) ==
  /\ s.at[w] = "send" /\ ctx
  /\ t.inp = s.inp /\ t.outp = s.outp /\ t.outC = s.outC
  /\ Goes(s, t, w, "done", None)

Closes(W, s, t) ==
  /\ \A w \in W : s.at[w] = "done"
  /\ t.outC = TRUE
  /\ t.inp = s.inp /\ t.outp = s.outp /\ t.at = s.at /\ t.of = s.of

PoolWork(W, s, t, ctx) ==
  \/ Closes(W, s, t)
  \/ \E w \in W : Takes(s, t, w) \/ Leaves(s, t, ctx, w) \/ Returns(s, t, w)
                    \/ Emits(s, t, w) \/ Drops(s, t, ctx, w)

PoolStep(W, s, t, ctx) ==
  t.inC = s.inC /\ t.met \in [Instruments -> Nat] /\ t.met.errors = s.met.errors
    /\ PoolWork(W, s, t, ctx)

PoolFail(W, s, t, w) ==
  t.inC = s.inC /\ t.met \in [Instruments -> Nat] /\ t.met.errors = s.met.errors + 1
    /\ w \in W /\ Fails(s, t, w)

W1 == Load!Workers
W2 == Tokenize!Workers
W3 == Embed!Workers
W4 == Index!Workers

S1 == [inp |-> out, inC |-> closed, outp |-> c1, outC |-> closed1,
       at |-> pc1, of |-> item1, met |-> metrics1]
S2 == [inp |-> c1, inC |-> closed1, outp |-> c2, outC |-> closed2,
       at |-> pc2, of |-> item2, met |-> metrics2]
S3 == [inp |-> c2, inC |-> closed2, outp |-> c3, outC |-> closed3,
       at |-> pc3, of |-> item3, met |-> metrics3]
S4 == [inp |-> c3, inC |-> closed3, outp |-> c4, outC |-> closed4,
       at |-> pc4, of |-> item4, met |-> metrics4]

LEMMA WorkerSets ==
  /\ IsFiniteSet(W1) /\ IsFiniteSet(W2) /\ IsFiniteSet(W3) /\ IsFiniteSet(W4)
  /\ W1 = {1} /\ W2 # {} /\ W3 # {} /\ W4 # {}
<1>1. W1 = 1 .. 1 /\ W3 = 1 .. 1 /\ W4 = 1 .. 1
  BY DEF W1, W3, W4, Load!Workers, Embed!Workers, Index!Workers
<1>2. PICK k \in Int : k >= 1 /\ W2 = 1 .. k
  BY PipelineAssumption DEF W2, Tokenize!Workers
<1>3. IsFiniteSet(W1) /\ IsFiniteSet(W2) /\ IsFiniteSet(W3) /\ IsFiniteSet(W4)
  <2>1. \A b \in Int : IsFiniteSet(1 .. b)
    BY FS_Interval
  <2>2. 1 \in Int /\ k \in Int
    OBVIOUS
  <2>3. IsFiniteSet(1 .. 1) /\ IsFiniteSet(1 .. k)
    BY <2>1, <2>2, Zenon
  <2>. QED
    BY <1>1, <1>2, <2>3, Zenon
<1>4. 1 \in 1 .. k
  BY <1>2
<1>5. W1 = {1}
  BY <1>1
<1>6. W2 # {} /\ W3 # {} /\ W4 # {}
  BY <1>1, <1>2, <1>4
<1>. QED
  BY <1>3, <1>5, <1>6

LEMMA LoadIsPool ==
  ASSUME PoolTypes(W1, S1), Load!StageNext
  PROVE  /\ UNCHANGED stagesDone
         /\ PoolStep(W1, S1, S1', stagesDone) \/ \E v \in W1 : PoolFail(W1, S1, S1', v)
<1>1. metrics1 \in [Instruments -> Nat]
  BY DEF PoolTypes, S1
<1>2. \A m \in Instruments : metrics1[m] + 1 \in Nat
  BY <1>1
<1>3. "processed" \in Instruments /\ "errors" \in Instruments /\ "latencies" \in Instruments
  BY DEF Instruments
<1>4. CASE Load!CloseOut
  BY <1>1, <1>4 DEF Load!CloseOut, Load!workerVars, PoolStep, PoolWork, Closes, S1, W1
<1>5. ASSUME NEW w \in W1, Load!WorkerStep(w)
      PROVE  /\ UNCHANGED stagesDone
             /\ PoolStep(W1, S1, S1', stagesDone) \/ \E v \in W1 : PoolFail(W1, S1, S1', v)
  <2>. USE DEF Goes, Load!GoTo, S1
  <2>1. CASE Load!Receive(w)
    <3>1. metrics1' \in [Instruments -> Nat] /\ metrics1'.errors = metrics1.errors
      BY <1>1, <1>2, <1>3, <2>1 DEF Load!Receive, Load!Count
    <3>2. Takes(S1, S1', w) /\ S1'.inC = S1.inC /\ UNCHANGED stagesDone
      BY <2>1 DEF Load!Receive, Takes
    <3>. QED
      BY <3>1, <3>2 DEF PoolStep, PoolWork
  <2>2. CASE Load!ReturnClosed(w) \/ Load!ReturnCancelled(w)
    <3>1. metrics1' = metrics1
      BY <2>2 DEF Load!ReturnClosed, Load!ReturnCancelled
    <3>2. Leaves(S1, S1', stagesDone, w) /\ S1'.inC = S1.inC /\ UNCHANGED stagesDone
      BY <2>2 DEF Load!ReturnClosed, Load!ReturnCancelled, Leaves
    <3>. QED
      BY <1>1, <3>1, <3>2 DEF PoolStep, PoolWork
  <2>3. CASE Load!FnError(w)
    <3>1. metrics1' \in [Instruments -> Nat] /\ metrics1'.errors = metrics1.errors + 1
      BY <1>1, <1>2, <1>3, <2>3 DEF Load!FnError, Load!Count
    <3>2. Fails(S1, S1', w) /\ S1'.inC = S1.inC /\ UNCHANGED stagesDone
      BY <2>3 DEF Load!FnError, Fails
    <3>. QED
      BY <3>1, <3>2 DEF PoolFail
  <2>4. CASE Load!FnReturn(w)
    <3>1. metrics1' \in [Instruments -> Nat] /\ metrics1'.errors = metrics1.errors
      BY <1>1, <1>2, <1>3, <2>4 DEF Load!FnReturn, Load!Count
    <3>2. Returns(S1, S1', w) /\ S1'.inC = S1.inC /\ UNCHANGED stagesDone
      BY <2>4 DEF Load!FnReturn, Returns
    <3>. QED
      BY <3>1, <3>2 DEF PoolStep, PoolWork
  <2>5. CASE Load!Send(w)
    <3>1. metrics1' = metrics1
      BY <2>5 DEF Load!Send
    <3>2. Emits(S1, S1', w) /\ S1'.inC = S1.inC /\ UNCHANGED stagesDone
      BY <2>5 DEF Load!Send, Emits
    <3>. QED
      BY <1>1, <3>1, <3>2 DEF PoolStep, PoolWork
  <2>6. CASE Load!AbandonSend(w)
    <3>1. metrics1' = metrics1
      BY <2>6 DEF Load!AbandonSend
    <3>2. Drops(S1, S1', stagesDone, w) /\ S1'.inC = S1.inC /\ UNCHANGED stagesDone
      BY <2>6 DEF Load!AbandonSend, Drops
    <3>. QED
      BY <1>1, <3>1, <3>2 DEF PoolStep, PoolWork
  <2>. QED
    BY <1>5, <2>1, <2>2, <2>3, <2>4, <2>5, <2>6 DEF Load!WorkerStep
<1>. QED
  BY <1>4, <1>5 DEF Load!StageNext, W1

LEMMA TokenizeIsPool ==
  ASSUME PoolTypes(W2, S2), Tokenize!StageNext
  PROVE  /\ UNCHANGED stagesDone
         /\ PoolStep(W2, S2, S2', stagesDone)
<1>1. metrics2 \in [Instruments -> Nat]
  BY DEF PoolTypes, S2
<1>2. \A m \in Instruments : metrics2[m] + 1 \in Nat
  BY <1>1
<1>3. "processed" \in Instruments /\ "errors" \in Instruments /\ "latencies" \in Instruments
  BY DEF Instruments
<1>4. CASE Tokenize!CloseOut
  BY <1>1, <1>4 DEF Tokenize!CloseOut, Tokenize!workerVars, PoolStep, PoolWork, Closes, S2, W2
<1>5. ASSUME NEW w \in W2, Tokenize!WorkerStep(w)
      PROVE  UNCHANGED stagesDone /\ (PoolStep(W2, S2, S2', stagesDone))
  <2>. USE DEF Goes, Tokenize!GoTo, S2
  <2>1. CASE Tokenize!Receive(w)
    <3>1. metrics2' \in [Instruments -> Nat] /\ metrics2'.errors = metrics2.errors
      BY <1>1, <1>2, <1>3, <2>1 DEF Tokenize!Receive, Tokenize!Count
    <3>2. Takes(S2, S2', w) /\ S2'.inC = S2.inC /\ UNCHANGED stagesDone
      BY <2>1 DEF Tokenize!Receive, Takes
    <3>. QED
      BY <3>1, <3>2 DEF PoolStep, PoolWork
  <2>2. CASE Tokenize!ReturnClosed(w) \/ Tokenize!ReturnCancelled(w)
    <3>1. metrics2' = metrics2
      BY <2>2 DEF Tokenize!ReturnClosed, Tokenize!ReturnCancelled
    <3>2. Leaves(S2, S2', stagesDone, w) /\ S2'.inC = S2.inC /\ UNCHANGED stagesDone
      BY <2>2 DEF Tokenize!ReturnClosed, Tokenize!ReturnCancelled, Leaves
    <3>. QED
      BY <1>1, <3>1, <3>2 DEF PoolStep, PoolWork
  <2>3. CASE Tokenize!FnError(w)
    BY <2>3 DEF Tokenize!FnError
  <2>4. CASE Tokenize!FnReturn(w)
    <3>1. metrics2' \in [Instruments -> Nat] /\ metrics2'.errors = metrics2.errors
      BY <1>1, <1>2, <1>3, <2>4 DEF Tokenize!FnReturn, Tokenize!Count
    <3>2. Returns(S2, S2', w) /\ S2'.inC = S2.inC /\ UNCHANGED stagesDone
      BY <2>4 DEF Tokenize!FnReturn, Returns
    <3>. QED
      BY <3>1, <3>2 DEF PoolStep, PoolWork
  <2>5. CASE Tokenize!Send(w)
    <3>1. metrics2' = metrics2
      BY <2>5 DEF Tokenize!Send
    <3>2. Emits(S2, S2', w) /\ S2'.inC = S2.inC /\ UNCHANGED stagesDone
      BY <2>5 DEF Tokenize!Send, Emits
    <3>. QED
      BY <1>1, <3>1, <3>2 DEF PoolStep, PoolWork
  <2>6. CASE Tokenize!AbandonSend(w)
    <3>1. metrics2' = metrics2
      BY <2>6 DEF Tokenize!AbandonSend
    <3>2. Drops(S2, S2', stagesDone, w) /\ S2'.inC = S2.inC /\ UNCHANGED stagesDone
      BY <2>6 DEF Tokenize!AbandonSend, Drops
    <3>. QED
      BY <1>1, <3>1, <3>2 DEF PoolStep, PoolWork
  <2>. QED
    BY <1>5, <2>1, <2>2, <2>3, <2>4, <2>5, <2>6 DEF Tokenize!WorkerStep
<1>. QED
  BY <1>4, <1>5 DEF Tokenize!StageNext, W2

LEMMA EmbedIsPool ==
  ASSUME PoolTypes(W3, S3), Embed!StageNext
  PROVE  /\ UNCHANGED stagesDone
         /\ PoolStep(W3, S3, S3', stagesDone)
<1>1. metrics3 \in [Instruments -> Nat]
  BY DEF PoolTypes, S3
<1>2. \A m \in Instruments : metrics3[m] + 1 \in Nat
  BY <1>1
<1>3. "processed" \in Instruments /\ "errors" \in Instruments /\ "latencies" \in Instruments
  BY DEF Instruments
<1>4. CASE Embed!CloseOut
  BY <1>1, <1>4 DEF Embed!CloseOut, Embed!workerVars, PoolStep, PoolWork, Closes, S3, W3
<1>5. ASSUME NEW w \in W3, Embed!WorkerStep(w)
      PROVE  UNCHANGED stagesDone /\ (PoolStep(W3, S3, S3', stagesDone))
  <2>. USE DEF Goes, Embed!GoTo, S3
  <2>1. CASE Embed!Receive(w)
    <3>1. metrics3' \in [Instruments -> Nat] /\ metrics3'.errors = metrics3.errors
      BY <1>1, <1>2, <1>3, <2>1 DEF Embed!Receive, Embed!Count
    <3>2. Takes(S3, S3', w) /\ S3'.inC = S3.inC /\ UNCHANGED stagesDone
      BY <2>1 DEF Embed!Receive, Takes
    <3>. QED
      BY <3>1, <3>2 DEF PoolStep, PoolWork
  <2>2. CASE Embed!ReturnClosed(w) \/ Embed!ReturnCancelled(w)
    <3>1. metrics3' = metrics3
      BY <2>2 DEF Embed!ReturnClosed, Embed!ReturnCancelled
    <3>2. Leaves(S3, S3', stagesDone, w) /\ S3'.inC = S3.inC /\ UNCHANGED stagesDone
      BY <2>2 DEF Embed!ReturnClosed, Embed!ReturnCancelled, Leaves
    <3>. QED
      BY <1>1, <3>1, <3>2 DEF PoolStep, PoolWork
  <2>3. CASE Embed!FnError(w)
    BY <2>3 DEF Embed!FnError
  <2>4. CASE Embed!FnReturn(w)
    <3>1. metrics3' \in [Instruments -> Nat] /\ metrics3'.errors = metrics3.errors
      BY <1>1, <1>2, <1>3, <2>4 DEF Embed!FnReturn, Embed!Count
    <3>2. Returns(S3, S3', w) /\ S3'.inC = S3.inC /\ UNCHANGED stagesDone
      BY <2>4 DEF Embed!FnReturn, Returns
    <3>. QED
      BY <3>1, <3>2 DEF PoolStep, PoolWork
  <2>5. CASE Embed!Send(w)
    <3>1. metrics3' = metrics3
      BY <2>5 DEF Embed!Send
    <3>2. Emits(S3, S3', w) /\ S3'.inC = S3.inC /\ UNCHANGED stagesDone
      BY <2>5 DEF Embed!Send, Emits
    <3>. QED
      BY <1>1, <3>1, <3>2 DEF PoolStep, PoolWork
  <2>6. CASE Embed!AbandonSend(w)
    <3>1. metrics3' = metrics3
      BY <2>6 DEF Embed!AbandonSend
    <3>2. Drops(S3, S3', stagesDone, w) /\ S3'.inC = S3.inC /\ UNCHANGED stagesDone
      BY <2>6 DEF Embed!AbandonSend, Drops
    <3>. QED
      BY <1>1, <3>1, <3>2 DEF PoolStep, PoolWork
  <2>. QED
    BY <1>5, <2>1, <2>2, <2>3, <2>4, <2>5, <2>6 DEF Embed!WorkerStep
<1>. QED
  BY <1>4, <1>5 DEF Embed!StageNext, W3

LEMMA IndexIsPool ==
  ASSUME PoolTypes(W4, S4), Index!StageNext
  PROVE  /\ UNCHANGED stagesDone
         /\ PoolStep(W4, S4, S4', stagesDone)
<1>1. metrics4 \in [Instruments -> Nat]
  BY DEF PoolTypes, S4
<1>2. \A m \in Instruments : metrics4[m] + 1 \in Nat
  BY <1>1
<1>3. "processed" \in Instruments /\ "errors" \in Instruments /\ "latencies" \in Instruments
  BY DEF Instruments
<1>4. CASE Index!CloseOut
  BY <1>1, <1>4 DEF Index!CloseOut, Index!workerVars, PoolStep, PoolWork, Closes, S4, W4
<1>5. ASSUME NEW w \in W4, Index!WorkerStep(w)
      PROVE  UNCHANGED stagesDone /\ (PoolStep(W4, S4, S4', stagesDone))
  <2>. USE DEF Goes, Index!GoTo, S4
  <2>1. CASE Index!Receive(w)
    <3>1. metrics4' \in [Instruments -> Nat] /\ metrics4'.errors = metrics4.errors
      BY <1>1, <1>2, <1>3, <2>1 DEF Index!Receive, Index!Count
    <3>2. Takes(S4, S4', w) /\ S4'.inC = S4.inC /\ UNCHANGED stagesDone
      BY <2>1 DEF Index!Receive, Takes
    <3>. QED
      BY <3>1, <3>2 DEF PoolStep, PoolWork
  <2>2. CASE Index!ReturnClosed(w) \/ Index!ReturnCancelled(w)
    <3>1. metrics4' = metrics4
      BY <2>2 DEF Index!ReturnClosed, Index!ReturnCancelled
    <3>2. Leaves(S4, S4', stagesDone, w) /\ S4'.inC = S4.inC /\ UNCHANGED stagesDone
      BY <2>2 DEF Index!ReturnClosed, Index!ReturnCancelled, Leaves
    <3>. QED
      BY <1>1, <3>1, <3>2 DEF PoolStep, PoolWork
  <2>3. CASE Index!FnError(w)
    BY <2>3 DEF Index!FnError
  <2>4. CASE Index!FnReturn(w)
    <3>1. metrics4' \in [Instruments -> Nat] /\ metrics4'.errors = metrics4.errors
      BY <1>1, <1>2, <1>3, <2>4 DEF Index!FnReturn, Index!Count
    <3>2. Returns(S4, S4', w) /\ S4'.inC = S4.inC /\ UNCHANGED stagesDone
      BY <2>4 DEF Index!FnReturn, Returns
    <3>. QED
      BY <3>1, <3>2 DEF PoolStep, PoolWork
  <2>5. CASE Index!Send(w)
    <3>1. metrics4' = metrics4
      BY <2>5 DEF Index!Send
    <3>2. Emits(S4, S4', w) /\ S4'.inC = S4.inC /\ UNCHANGED stagesDone
      BY <2>5 DEF Index!Send, Emits
    <3>. QED
      BY <1>1, <3>1, <3>2 DEF PoolStep, PoolWork
  <2>6. CASE Index!AbandonSend(w)
    <3>1. metrics4' = metrics4
      BY <2>6 DEF Index!AbandonSend
    <3>2. Drops(S4, S4', stagesDone, w) /\ S4'.inC = S4.inC /\ UNCHANGED stagesDone
      BY <2>6 DEF Index!AbandonSend, Drops
    <3>. QED
      BY <1>1, <3>1, <3>2 DEF PoolStep, PoolWork
  <2>. QED
    BY <1>5, <2>1, <2>2, <2>3, <2>4, <2>5, <2>6 DEF Index!WorkerStep
<1>. QED
  BY <1>4, <1>5 DEF Index!StageNext, W4
-----------------------------------------------------------------------------
(***************************************************************************)
(* A queue q in front of what has passed it, D, becomes r in front of E:   *)
(* its head passes, or things are lost behind it.                          *)
(***************************************************************************)
Passed(q, r, D, E) ==
  \/ r = q /\ E \subseteq D
  \/ q # <<>> /\ r = Tail(q) /\ E = D \cup {Head(q)}

(***************************************************************************)
(* Who is busy after a worker has moved.                                   *)
(***************************************************************************)
LEMMA BusyMoves ==
  ASSUME NEW W, NEW s, NEW t, NEW w \in W, NEW loc \in Locations, NEW x,
         PoolTypes(W, s), Goes(s, t, w, loc, x)
  PROVE  /\ t.at \in [W -> Locations] /\ DOMAIN t.of = W
         /\ t.at[w] = loc /\ t.of[w] = x
         /\ \A v \in W \ {w} : t.at[v] = s.at[v] /\ t.of[v] = s.of[v]
         /\ BusyIn(W, t) = IF loc \in {"fn", "send"} THEN BusyIn(W, s) \cup {w}
                           ELSE BusyIn(W, s) \ {w}
<1>1. t.at \in [W -> Locations] /\ DOMAIN t.of = W
  BY DEF PoolTypes, Goes
<1>2. t.at[w] = loc /\ t.of[w] = x
  BY DEF PoolTypes, Goes
<1>3. \A v \in W \ {w} : t.at[v] = s.at[v] /\ t.of[v] = s.of[v]
  BY DEF PoolTypes, Goes
<1>. QED
  BY <1>1, <1>2, <1>3 DEF BusyIn

(***************************************************************************)
(* The queues, the order of shutting down and the types of a pool after    *)
(* one of its steps.                                                       *)
(***************************************************************************)
LEMMA PoolKeepsTypes ==
  ASSUME NEW W, NEW s, NEW t, NEW ctx \in BOOLEAN, PoolTypes(W, s),
         PoolStep(W, s, t, ctx) \/ (\E w \in W : PoolFail(W, s, t, w))
  PROVE  PoolTypes(W, t)
<1>1. /\ s.inp \in Seq(Items) /\ s.outp \in Seq(Items)
      /\ s.inC \in BOOLEAN /\ s.outC \in BOOLEAN
      /\ s.of \in [W -> Items \cup {None}]
      /\ \A v \in W : s.of[v] = None <=> v \notin BusyIn(W, s)
      /\ t.inC \in BOOLEAN /\ t.met \in [Instruments -> Nat]
  BY DEF PoolTypes, PoolStep, PoolFail
<1>2. CASE Closes(W, s, t)
  BY <1>1, <1>2 DEF PoolTypes, Closes, BusyIn
<1>3. ASSUME NEW w \in W, NEW loc \in Locations, NEW x \in Items \cup {None},
             Goes(s, t, w, loc, x), t.outC = s.outC,
             t.inp \in Seq(Items), t.outp \in Seq(Items),
             x = None <=> loc \notin {"fn", "send"}
      PROVE  PoolTypes(W, t)
  <2>1. t.of \in [W -> Items \cup {None}]
    BY <1>1, <1>3 DEF Goes
  <2>2. \A v \in W : t.of[v] = None <=> v \notin BusyIn(W, t)
    BY <1>1, <1>3, BusyMoves
  <2>. QED
    BY <1>1, <1>3, <2>1, <2>2, BusyMoves DEF PoolTypes
<1>4. ASSUME NEW w \in W, Takes(s, t, w)
      PROVE  PoolTypes(W, t)
  <2>1. Head(s.inp) \in Items /\ Tail(s.inp) \in Seq(Items)
    BY <1>1, <1>4, HeadTailProperties DEF Takes
  <2>2. Head(s.inp) # None
    BY <2>1, PipelineAssumption
  <2>. QED
    BY <1>1, <1>3, <1>4, <2>1, <2>2 DEF Takes, Locations
<1>5. ASSUME NEW w \in W, Leaves(s, t, ctx, w) \/ Drops(s, t, ctx, w) \/ Fails(s, t, w)
      PROVE  PoolTypes(W, t)
  BY <1>1, <1>3, <1>5 DEF Leaves, Drops, Fails, Locations
<1>6. ASSUME NEW w \in W, Returns(s, t, w)
      PROVE  PoolTypes(W, t)
  <2>1. s.of[w] \in Items \cup {None} /\ s.of[w] # None
    BY <1>1, <1>6 DEF Returns, BusyIn
  <2>. QED
    BY <1>1, <1>3, <1>6, <2>1 DEF Returns, Locations
<1>7. ASSUME NEW w \in W, Emits(s, t, w)
      PROVE  PoolTypes(W, t)
  <2>1. s.of[w] \in Items
    BY <1>1, <1>7 DEF Emits, BusyIn
  <2>2. t.outp \in Seq(Items)
    BY <1>1, <1>7, <2>1, AppendProperties DEF Emits
  <2>. QED
    BY <1>1, <1>3, <1>7, <2>2 DEF Emits, Locations
<1>. QED
  BY <1>2, <1>4, <1>5, <1>6, <1>7 DEF PoolStep, PoolWork, PoolFail

LEMMA PoolKeepsShuts ==
  ASSUME NEW W, W # {}, NEW s, NEW t, NEW ctx \in BOOLEAN,
         PoolTypes(W, s), PoolShuts(W, s, ctx),
         PoolStep(W, s, t, ctx) \/ (\E w \in W : PoolFail(W, s, t, w))
  PROVE  PoolShuts(W, t, ctx)
<1>1. t.inC = s.inC
  BY DEF PoolStep, PoolFail
<1>2. CASE Closes(W, s, t)
  BY <1>1, <1>2 DEF PoolShuts, Closes
<1>3. ASSUME NEW w \in W, NEW loc \in Locations, NEW x, Goes(s, t, w, loc, x),
             s.at[w] # "done", t.outC = s.outC, t.inp = s.inp \/ s.inp # <<>>,
             loc = "done" => ctx \/ (s.inC /\ s.inp = <<>>)
      PROVE  PoolShuts(W, t, ctx)
  <2>1. ~t.outC
    BY <1>3 DEF PoolShuts
  <2>2. ASSUME ~ctx, NEW v \in W, t.at[v] = "done"
        PROVE  t.inC /\ t.inp = <<>>
    <3>0. t.at[w] = loc /\ \A u \in W \ {w} : t.at[u] = s.at[u]
      BY <1>3 DEF PoolTypes, Goes
    <3>1. CASE v = w
      BY <1>1, <1>3, <2>2, <3>0, <3>1
    <3>2. CASE v # w
      BY <1>1, <1>3, <2>2, <3>0, <3>2 DEF PoolShuts
    <3>. QED
      BY <3>1, <3>2
  <2>. QED
    BY <2>1, <2>2 DEF PoolShuts
<1>4. ASSUME NEW w \in W, Takes(s, t, w)
      PROVE  PoolShuts(W, t, ctx)
  BY <1>3, <1>4 DEF Takes, Locations
<1>5. ASSUME NEW w \in W, Leaves(s, t, ctx, w) \/ Drops(s, t, ctx, w) \/ Fails(s, t, w)
      PROVE  PoolShuts(W, t, ctx)
  BY <1>3, <1>5 DEF Leaves, Drops, Fails, Locations
<1>6. ASSUME NEW w \in W, Returns(s, t, w) \/ Emits(s, t, w)
      PROVE  PoolShuts(W, t, ctx)
  BY <1>3, <1>6 DEF Returns, Emits, Locations
<1>. QED
  BY <1>2, <1>4, <1>5, <1>6 DEF PoolStep, PoolWork, PoolFail

(***************************************************************************)
(* What the workers of a pool hold when one takes, keeps or gives away.    *)
(***************************************************************************)
OneEach(W, s) == \A v, w \in BusyIn(W, s) : s.of[v] = s.of[w] => v = w

LEMMA HeldGains ==
  ASSUME NEW W, NEW s, NEW t, NEW w \in W, NEW x,
         PoolTypes(W, s), OneEach(W, s), s.at[w] = "select", x \notin HeldIn(W, s),
         Goes(s, t, w, "fn", x)
  PROVE  /\ OneEach(W, t) /\ HeldIn(W, t) = HeldIn(W, s) \cup {x}
         /\ BusyIn(W, t) = BusyIn(W, s) \cup {w} /\ w \notin BusyIn(W, s)
<1>1. /\ t.of[w] = x
      /\ \A v \in W \ {w} : t.of[v] = s.of[v] /\ t.at[v] = s.at[v]
      /\ t.at[w] = "fn"
  BY DEF PoolTypes, Goes
<1>2. BusyIn(W, t) = BusyIn(W, s) \cup {w} /\ w \notin BusyIn(W, s)
  BY <1>1 DEF BusyIn
<1>3. BusyIn(W, s) \subseteq W \ {w}
  BY <1>2 DEF BusyIn
<1>4. \A v \in BusyIn(W, s) : t.of[v] = s.of[v] /\ s.of[v] # x
  BY <1>1, <1>3 DEF HeldIn
<1>5. OneEach(W, t)
  BY <1>1, <1>2, <1>4 DEF OneEach
<1>6. HeldIn(W, t) = HeldIn(W, s) \cup {x}
  BY <1>1, <1>2, <1>4 DEF HeldIn
<1>. QED
  BY <1>2, <1>5, <1>6

LEMMA HeldStays ==
  ASSUME NEW W, NEW s, NEW t, NEW w \in W, PoolTypes(W, s), OneEach(W, s),
         s.at[w] = "fn", Goes(s, t, w, "send", s.of[w])
  PROVE  OneEach(W, t) /\ HeldIn(W, t) = HeldIn(W, s) /\ BusyIn(W, t) = BusyIn(W, s)
<1>1. BusyIn(W, t) = BusyIn(W, s)
  BY DEF PoolTypes, Goes, BusyIn
<1>2. t.of = s.of
  BY DEF PoolTypes, Goes
<1>. QED
  BY <1>1, <1>2 DEF OneEach, HeldIn

LEMMA HeldSame ==
  ASSUME NEW W, NEW s, NEW t, NEW w \in W, PoolTypes(W, s), OneEach(W, s),
         s.at[w] = "select", Goes(s, t, w, "done", None)
  PROVE  OneEach(W, t) /\ HeldIn(W, t) = HeldIn(W, s) /\ BusyIn(W, t) = BusyIn(W, s)
<1>1. BusyIn(W, t) = BusyIn(W, s)
  BY DEF PoolTypes, Goes, BusyIn
<1>2. \A v \in BusyIn(W, s) : t.of[v] = s.of[v]
  BY DEF PoolTypes, Goes, BusyIn
<1>. QED
  BY <1>1, <1>2 DEF OneEach, HeldIn

LEMMA HeldLoses ==
  ASSUME NEW W, NEW s, NEW t, NEW w \in W, NEW loc \in {"select", "done"},
         PoolTypes(W, s), OneEach(W, s), s.at[w] \in {"fn", "send"}, Goes(s, t, w, loc, None)
  PROVE  /\ OneEach(W, t)
         /\ s.of[w] \in HeldIn(W, s) /\ HeldIn(W, t) = HeldIn(W, s) \ {s.of[w]}
         /\ w \in BusyIn(W, s) /\ BusyIn(W, t) = BusyIn(W, s) \ {w}
<1>1. w \in BusyIn(W, s)
  BY DEF BusyIn
<1>2. BusyIn(W, t) = BusyIn(W, s) \ {w}
  BY DEF PoolTypes, Goes, BusyIn
<1>3. \A v \in BusyIn(W, t) : t.of[v] = s.of[v]
  BY <1>2 DEF PoolTypes, Goes, BusyIn
<1>4. OneEach(W, t)
  BY <1>2, <1>3 DEF OneEach
<1>5. \A v \in BusyIn(W, t) : s.of[v] # s.of[w]
  BY <1>1, <1>2 DEF OneEach
<1>6. HeldIn(W, t) = HeldIn(W, s) \ {s.of[w]}
  BY <1>1, <1>2, <1>3, <1>5 DEF HeldIn
<1>. QED
  BY <1>1, <1>2, <1>4, <1>6 DEF HeldIn

(***************************************************************************)
(* A step of the pool keeps apart what it holds, and its input passes.     *)
(***************************************************************************)
LEMMA PoolKeepsApart ==
  ASSUME NEW W, NEW s, NEW t, NEW ctx, NEW D, PoolTypes(W, s), PoolApart(W, s, D),
         IsInjective(s.inp), Range(s.inp) \cap From(W, s, D) = {},
         PoolStep(W, s, t, ctx)
  PROVE  PoolApart(W, t, D) /\ Passed(s.inp, t.inp, From(W, s, D), From(W, t, D))
<1> USE DEF PoolApart, From, Passed
<1>1. OneEach(W, s) /\ s.inp \in Seq(Items) /\ s.outp \in Seq(Items)
  BY DEF OneEach, PoolTypes
<1>2. CASE Closes(W, s, t)
  <2>1. BusyIn(W, t) = BusyIn(W, s) /\ HeldIn(W, t) = HeldIn(W, s)
    BY <1>2 DEF Closes, BusyIn, HeldIn
  <2>. QED
    BY <1>2, <2>1 DEF Closes
<1>3. ASSUME NEW w \in W, Takes(s, t, w)
      PROVE  PoolApart(W, t, D) /\ Passed(s.inp, t.inp, From(W, s, D), From(W, t, D))
  <2>1. Head(s.inp) \in Range(s.inp)
    BY <1>1, <1>3, ReceiveRange DEF Takes
  <2>2. Head(s.inp) \notin HeldIn(W, s) \cup Range(s.outp) \cup D
    BY <2>1
  <2>3. OneEach(W, t) /\ HeldIn(W, t) = HeldIn(W, s) \cup {Head(s.inp)}
    <3>1. PICK x : x = Head(s.inp)
      OBVIOUS
    <3>2. s.at[w] = "select" /\ Goes(s, t, w, "fn", x) /\ x \notin HeldIn(W, s)
      BY <1>3, <2>2, <3>1 DEF Takes
    <3>3. OneEach(W, t) /\ HeldIn(W, t) = HeldIn(W, s) \cup {x}
      BY <1>1, <1>3, <3>2, HeldGains
    <3>. QED
      BY <3>1, <3>3
  <2>4. t.outp = s.outp /\ t.inp = Tail(s.inp) /\ s.inp # <<>>
    BY <1>3 DEF Takes
  <2>. QED
    BY <2>2, <2>3, <2>4 DEF OneEach
<1>4. ASSUME NEW w \in W, Leaves(s, t, ctx, w) \/ Returns(s, t, w)
      PROVE  PoolApart(W, t, D) /\ Passed(s.inp, t.inp, From(W, s, D), From(W, t, D))
  <2>1. OneEach(W, t) /\ HeldIn(W, t) = HeldIn(W, s)
    BY <1>1, <1>4, HeldStays, HeldSame DEF Leaves, Returns
  <2>2. t.outp = s.outp /\ t.inp = s.inp
    BY <1>4 DEF Leaves, Returns
  <2>. QED
    BY <2>1, <2>2 DEF OneEach
<1>5. ASSUME NEW w \in W, Drops(s, t, ctx, w)
      PROVE  PoolApart(W, t, D) /\ Passed(s.inp, t.inp, From(W, s, D), From(W, t, D))
  <2>1. OneEach(W, t) /\ HeldIn(W, t) = HeldIn(W, s) \ {s.of[w]}
    BY <1>1, <1>5, HeldLoses DEF Drops
  <2>2. t.outp = s.outp /\ t.inp = s.inp
    BY <1>5 DEF Drops
  <2>. QED
    BY <2>1, <2>2 DEF OneEach
<1>6. ASSUME NEW w \in W, Emits(s, t, w)
      PROVE  PoolApart(W, t, D) /\ Passed(s.inp, t.inp, From(W, s, D), From(W, t, D))
  <2>1. /\ OneEach(W, t) /\ HeldIn(W, t) = HeldIn(W, s) \ {s.of[w]}
        /\ s.of[w] \in HeldIn(W, s)
    BY <1>1, <1>6, HeldLoses DEF Emits
  <2>2. t.outp = Append(s.outp, s.of[w]) /\ t.inp = s.inp
    BY <1>6 DEF Emits
  <2>3. s.of[w] \in Items
    BY <1>6 DEF PoolTypes, Emits, BusyIn
  <2>4. IsInjective(t.outp) /\ Range(t.outp) = Range(s.outp) \cup {s.of[w]}
    BY <1>1, <2>1, <2>2, <2>3, SendRange, SendInjective
  <2>. QED
    BY <2>1, <2>2, <2>4 DEF OneEach
<1>. QED
  BY <1>2, <1>3, <1>4, <1>5, <1>6 DEF PoolStep, PoolWork

(***************************************************************************)
(* A request that fails leaves its worker for what is behind the pool.     *)
(***************************************************************************)
LEMMA FailKeepsApart ==
  ASSUME NEW W, NEW s, NEW t, NEW w, NEW D, PoolTypes(W, s), PoolApart(W, s, D),
         PoolFail(W, s, t, w)
  PROVE  /\ PoolApart(W, t, D \cup {s.of[w]})
         /\ From(W, t, D \cup {s.of[w]}) = From(W, s, D) /\ t.inp = s.inp
         /\ s.of[w] \in Items /\ s.of[w] \notin Range(s.outp) \cup D
<1> USE DEF PoolApart, From
<1>1. OneEach(W, s) /\ w \in W /\ Fails(s, t, w)
  BY DEF OneEach, PoolFail
<1>2. /\ OneEach(W, t) /\ HeldIn(W, t) = HeldIn(W, s) \ {s.of[w]}
      /\ s.of[w] \in HeldIn(W, s)
  BY <1>1, HeldLoses DEF Fails
<1>3. t.outp = s.outp /\ t.inp = s.inp
  BY <1>1 DEF Fails
<1>4. s.of[w] \in Items
  BY <1>1 DEF PoolTypes, Fails, BusyIn
<1>. QED
  BY <1>2, <1>3, <1>4 DEF OneEach

(***************************************************************************)
(* How many requests a pool holds changes with what it takes and fails,    *)
(* unless its context is cancelled.                                        *)
(***************************************************************************)
LEMMA PoolKeepsCount ==
  ASSUME NEW W, IsFiniteSet(W), NEW s, NEW t, PoolTypes(W, s), PoolApart(W, s, {}),
         PoolStep(W, s, t, FALSE)
  PROVE  Len(t.inp) + Size(W, t) = Len(s.inp) + Size(W, s)
<1>1. /\ OneEach(W, s) /\ s.inp \in Seq(Items) /\ s.outp \in Seq(Items)
      /\ Len(s.inp) \in Nat /\ Len(s.outp) \in Nat
  BY LenProperties DEF OneEach, PoolTypes, PoolApart
<1>2. IsFiniteSet(BusyIn(W, s)) /\ Cardinality(BusyIn(W, s)) \in Nat
  BY FS_Subset, FS_CardinalityType DEF BusyIn
<1>3. CASE Closes(W, s, t)
  BY <1>3 DEF Closes, Size, BusyIn
<1>4. ASSUME NEW w \in W, Takes(s, t, w)
      PROVE  Len(t.inp) + Size(W, t) = Len(s.inp) + Size(W, s)
  <2>1. Len(t.inp) = Len(s.inp) - 1 /\ t.outp = s.outp
    BY <1>1, <1>4, HeadTailProperties DEF Takes
  <2>2. BusyIn(W, t) = BusyIn(W, s) \cup {w} /\ w \notin BusyIn(W, s)
    BY <1>4 DEF PoolTypes, Takes, Goes, BusyIn
  <2>3. Cardinality(BusyIn(W, t)) = Cardinality(BusyIn(W, s)) + 1
    BY <1>2, <2>2, FS_AddElement
  <2>4. /\ Size(W, t) = Len(s.outp) + (Cardinality(BusyIn(W, s)) + 1)
        /\ Size(W, s) = Len(s.outp) + Cardinality(BusyIn(W, s))
    BY <2>1, <2>3 DEF Size
  <2>5. \A a, b, c \in Nat : (a - 1) + (b + (c + 1)) = a + (b + c)
    OBVIOUS
  <2>6. (Len(s.inp) - 1) + (Len(s.outp) + (Cardinality(BusyIn(W, s)) + 1))
          = Len(s.inp) + (Len(s.outp) + Cardinality(BusyIn(W, s)))
    BY <1>1, <1>2, <2>5, Zenon
  <2>. QED
    BY <2>1, <2>4, <2>6, Zenon
<1>5. ASSUME NEW w \in W, Leaves(s, t, FALSE, w) \/ Returns(s, t, w)
      PROVE  Len(t.inp) + Size(W, t) = Len(s.inp) + Size(W, s)
  <2>1. BusyIn(W, t) = BusyIn(W, s)
    BY <1>5 DEF PoolTypes, Leaves, Returns, Goes, BusyIn
  <2>. QED
    BY <1>5, <2>1 DEF Leaves, Returns, Size
<1>6. ASSUME NEW w \in W, Emits(s, t, w)
      PROVE  Len(t.inp) + Size(W, t) = Len(s.inp) + Size(W, s)
  <2>1. w \in BusyIn(W, s) /\ BusyIn(W, t) = BusyIn(W, s) \ {w}
    BY <1>6 DEF PoolTypes, Emits, Goes, BusyIn
  <2>2. Cardinality(BusyIn(W, t)) = Cardinality(BusyIn(W, s)) - 1
    BY <1>2, <2>1, FS_RemoveElement
  <2>3. s.of[w] \in Items
    BY <1>6 DEF PoolTypes, Emits, BusyIn
  <2>4. Len(t.outp) = Len(s.outp) + 1 /\ t.inp = s.inp
    BY <1>1, <1>6, <2>3, AppendProperties DEF Emits
  <2>. QED
    BY <1>1, <1>2, <2>2, <2>4 DEF Size
<1>7. ASSUME NEW w \in W, Drops(s, t, FALSE, w)
      PROVE  FALSE
  BY <1>7 DEF Drops
<1>. QED
  BY <1>3, <1>4, <1>5, <1>6, <1>7 DEF PoolStep, PoolWork

LEMMA FailKeepsCount ==
  ASSUME NEW W, IsFiniteSet(W), NEW s, NEW t, NEW w, PoolTypes(W, s), PoolFail(W, s, t, w)
  PROVE  t.inp = s.inp /\ Size(W, t) + 1 = Size(W, s)
<1>1. Len(s.outp) \in Nat /\ t.inp = s.inp /\ t.outp = s.outp
  BY LenProperties DEF PoolTypes, PoolFail, Fails
<1>2. IsFiniteSet(BusyIn(W, s)) /\ Cardinality(BusyIn(W, s)) \in Nat
  BY FS_Subset, FS_CardinalityType DEF BusyIn
<1>3. w \in BusyIn(W, s) /\ BusyIn(W, t) = BusyIn(W, s) \ {w}
  BY DEF PoolTypes, PoolFail, Fails, Goes, BusyIn
<1>4. Cardinality(BusyIn(W, t)) = Cardinality(BusyIn(W, s)) - 1
  BY <1>2, <1>3, FS_RemoveElement
<1>. QED
  BY <1>1, <1>2, <1>4 DEF Size

(***************************************************************************)
(* What the neighbours of a pool do to it: its output passes to the next,  *)
(* its input grows or ends, or something failed behind it.                 *)
(***************************************************************************)
LEMMA OutputPasses ==
  ASSUME NEW W, NEW s, NEW t, NEW ctx, NEW D, NEW E, PoolInv(W, s, ctx, D),
         t.inp = s.inp, t.inC = s.inC, t.outC = s.outC,
         t.at = s.at, t.of = s.of, t.met = s.met,
         Passed(s.outp, t.outp, D, E)
  PROVE  /\ PoolInv(W, t, ctx, E)
         /\ From(W, t, E) \subseteq From(W, s, D)
         /\ Passed(s.inp, t.inp, From(W, s, D), From(W, t, E))
<1> USE DEF PoolInv
<1>1. BusyIn(W, t) = BusyIn(W, s) /\ HeldIn(W, t) = HeldIn(W, s)
  BY DEF BusyIn, HeldIn
<1>2. s.outp \in Seq(Items) /\ IsInjective(s.outp)
  BY DEF PoolTypes, PoolApart
<1>3. /\ t.outp \in Seq(Items) /\ IsInjective(t.outp)
      /\ Range(t.outp) \cap E = {} /\ Range(t.outp) \cup E \subseteq Range(s.outp) \cup D
  <2>1. CASE t.outp = s.outp /\ E \subseteq D
    BY <1>2, <2>1 DEF PoolApart
  <2>2. CASE s.outp # <<>> /\ t.outp = Tail(s.outp) /\ E = D \cup {Head(s.outp)}
    <3>1. /\ t.outp \in Seq(Items) /\ IsInjective(t.outp) /\ Head(s.outp) \in Range(s.outp)
          /\ Range(t.outp) = Range(s.outp) \ {Head(s.outp)}
      BY <1>2, <2>2, ReceiveRange
    <3>. QED
      BY <2>2, <3>1 DEF PoolApart
  <2>. QED
    BY <2>1, <2>2 DEF Passed
<1>4. PoolTypes(W, t) /\ PoolShuts(W, t, ctx)
  BY <1>1, <1>3 DEF PoolTypes, PoolShuts
<1>5. PoolApart(W, t, E)
  BY <1>1, <1>3 DEF PoolApart
<1>6. From(W, t, E) \subseteq From(W, s, D)
  BY <1>1, <1>3 DEF From
<1>. QED
  BY <1>4, <1>5, <1>6 DEF Passed

LEMMA InputChanges ==
  ASSUME NEW W, NEW s, NEW t, NEW ctx, NEW D, PoolInv(W, s, ctx, D),
         t.inp \in Seq(Items), t.inC \in BOOLEAN, s.inC => t.inC /\ t.inp = s.inp,
         t.outp = s.outp, t.outC = s.outC, t.at = s.at, t.of = s.of, t.met = s.met
  PROVE  PoolInv(W, t, ctx, D) /\ From(W, t, D) = From(W, s, D) /\ Size(W, t) = Size(W, s)
<1>1. BusyIn(W, t) = BusyIn(W, s) /\ HeldIn(W, t) = HeldIn(W, s)
  BY DEF BusyIn, HeldIn
<1>2. PoolTypes(W, t)
  BY <1>1 DEF PoolInv, PoolTypes
<1>3. PoolShuts(W, t, ctx)
  BY DEF PoolInv, PoolShuts
<1>4. PoolApart(W, t, D)
  BY <1>1 DEF PoolInv, PoolApart
<1>. QED
  BY <1>1, <1>2, <1>3, <1>4 DEF PoolInv, From, Size

LEMMA FailedBehind ==
  ASSUME NEW W, NEW s, NEW ctx, NEW D, NEW x, PoolInv(W, s, ctx, D), x \notin From(W, s, D)
  PROVE  /\ PoolInv(W, s, ctx, D \cup {x})
         /\ From(W, s, D \cup {x}) = From(W, s, D) \cup {x}
BY DEF PoolInv, PoolApart, From

(***************************************************************************)
(* The same pool behaves in one context as in a cancelled one.             *)
(***************************************************************************)
LEMMA CancelledPool ==
  ASSUME NEW W, NEW s, NEW ctx, NEW D, PoolInv(W, s, ctx, D)
  PROVE  PoolInv(W, s, TRUE, D)
BY DEF PoolInv, PoolShuts

(***************************************************************************)
(* A step of a pool as those around it see it.                             *)
(***************************************************************************)
LEMMA PoolKeepsInv ==
  ASSUME NEW W, W # {}, IsFiniteSet(W), NEW s, NEW t, NEW ctx \in BOOLEAN, NEW D,
         PoolInv(W, s, ctx, D), PoolStep(W, s, t, ctx),
         IsInjective(s.inp), Range(s.inp) \cap From(W, s, D) = {}
  PROVE  /\ PoolInv(W, t, ctx, D)
         /\ Passed(s.inp, t.inp, From(W, s, D), From(W, t, D))
         /\ t.outp \in Seq(Items) /\ t.outC \in BOOLEAN
         /\ s.outC => t.outC /\ t.outp = s.outp
         /\ ~ctx => Len(t.inp) + Size(W, t) = Len(s.inp) + Size(W, s)
<1>1. PoolTypes(W, s) /\ PoolShuts(W, s, ctx) /\ PoolApart(W, s, D)
  BY DEF PoolInv
<1>2. PoolTypes(W, t)
  BY <1>1, PoolKeepsTypes
<1>3. PoolShuts(W, t, ctx)
  BY <1>1, PoolKeepsShuts
<1>4. PoolApart(W, t, D) /\ Passed(s.inp, t.inp, From(W, s, D), From(W, t, D))
  BY <1>1, PoolKeepsApart
<1>5. s.outC => t.outC /\ t.outp = s.outp
  <2>1. s.outC => \A w \in W : s.at[w] = "done"
    BY <1>1 DEF PoolShuts
  <2>. QED
    BY <2>1 DEF PoolStep, PoolWork, Closes, Takes, Leaves, Returns, Emits, Drops
<1>6. ASSUME ~ctx
      PROVE  Len(t.inp) + Size(W, t) = Len(s.inp) + Size(W, s)
  <2>1. ctx = FALSE
    BY <1>6
  <2>2. PoolApart(W, s, {})
    BY <1>1 DEF PoolApart
  <2>. QED
    BY <1>1, <2>1, <2>2, PoolKeepsCount
<1>7. t.outp \in Seq(Items) /\ t.outC \in BOOLEAN
  BY <1>2 DEF PoolTypes
<1>. QED
  BY <1>2, <1>3, <1>4, <1>5, <1>6, <1>7 DEF PoolInv

-----------------------------------------------------------------------------
(***************************************************************************)
(* The whole pipeline.  Past4 is what has come out of it, Past3 what has   *)
(* left the channel before its last stage, and so on up to Past0, what has *)
(* left the channel of the generator.                                      *)
(***************************************************************************)
Past4 == Settled
Past3 == From(W4, S4, Past4)
Past2 == From(W3, S3, Past3)
Past1 == From(W2, S2, Past2)
Past0 == From(W1, S1, Past1)

GenInv ==
  /\ config \in Configs /\ counter \in Nat /\ requests \in Nat
  /\ pc \in {"select", "send", "done"} /\ (closed => pc = "done")
  /\ pc = "send" => req \in Items /\ req.ID = counter
  /\ stagesDone \in BOOLEAN

\* What the generator draws next is none of what it has sent.
Fresh ==
  /\ IsInjective(out) /\ Range(out) \cap Past0 = {}
  /\ \A r \in Range(out) \cup Past0 : r.ID \in 0 .. counter - 1

OutInv ==
  /\ received \in Seq(Items) /\ IsInjective(received)
  /\ IsFiniteSet(failed) /\ Range(received) \cap failed = {}

PoolsInv ==
  /\ PoolInv(W1, S1, stagesDone, Past1)
  /\ PoolInv(W2, S2, stagesDone, Past2)
  /\ PoolInv(W3, S3, stagesDone, Past3)
  /\ PoolInv(W4, S4, stagesDone, Past4)

Balance == ~stagesDone => requests = Len(received) + Cardinality(failed) + InFlight

PipeInv == GenInv /\ Fresh /\ OutInv /\ PoolsInv /\ Balance

-----------------------------------------------------------------------------
(***************************************************************************)
(* What passes a channel goes on behind it, up to the generator.           *)
(***************************************************************************)
LEMMA PrimedPasts ==
  /\ Past3' = From(W4, S4', Past4') /\ Past2' = From(W3, S3', Past3')
  /\ Past1' = From(W2, S2', Past2') /\ Past0' = From(W1, S1', Past1')
<1>1. W1' = W1 /\ W2' = W2 /\ W3' = W3 /\ W4' = W4
  BY DEF W1, W2, W3, W4, Load!Workers, Tokenize!Workers, Embed!Workers, Index!Workers
<1>. QED
  BY <1>1 DEF Past0, Past1, Past2, Past3

LEMMA PrimedPools ==
  ASSUME /\ PoolInv(W1, S1', stagesDone', Past1') /\ PoolInv(W2, S2', stagesDone', Past2')
         /\ PoolInv(W3, S3', stagesDone', Past3') /\ PoolInv(W4, S4', stagesDone', Past4')
  PROVE  PoolsInv'
<1>1. W1' = W1 /\ W2' = W2 /\ W3' = W3 /\ W4' = W4
  BY DEF W1, W2, W3, W4, Load!Workers, Tokenize!Workers, Embed!Workers, Index!Workers
<1>. QED
  BY <1>1 DEF PoolsInv

LEMMA PastsNested ==
  Past4 \subseteq Past3 /\ Past3 \subseteq Past2 /\ Past2 \subseteq Past1 /\ Past1 \subseteq Past0
BY DEF Past0, Past1, Past2, Past3, From

LEMMA FreshPasses ==
  ASSUME Fresh, out \in Seq(Items), counter' = counter, Passed(out, out', Past0, Past0')
  PROVE  Fresh'
<1>1. CASE out' = out /\ Past0' \subseteq Past0
  BY <1>1 DEF Fresh
<1>2. CASE out # <<>> /\ out' = Tail(out) /\ Past0' = Past0 \cup {Head(out)}
  <2>1. /\ IsInjective(out') /\ Head(out) \in Range(out)
        /\ Range(out') = Range(out) \ {Head(out)}
    BY <1>2, ReceiveRange DEF Fresh
  <2>. QED
    BY <1>2, <2>1 DEF Fresh
<1>. QED
  BY <1>1, <1>2 DEF Passed

LEMMA PassesThroughEmbed ==
  ASSUME PoolsInv, UNCHANGED <<stagesDone, c2, closed2, closed3, pc3, item3, metrics3>>,
         Passed(c3, c3', Past3, Past3')
  PROVE  PoolInv(W3, S3', stagesDone, Past3') /\ Passed(c2, c2', Past2, Past2')
<1>1. PoolInv(W3, S3, stagesDone, Past3)
  BY DEF PoolsInv
<1>2. /\ S3'.inp = S3.inp /\ S3'.inC = S3.inC /\ S3'.outC = S3.outC
      /\ S3'.at = S3.at /\ S3'.of = S3.of /\ S3'.met = S3.met
      /\ S3.outp = c3 /\ S3'.outp = c3' /\ S3.inp = c2 /\ S3'.inp = c2'
  BY DEF S3
<1>3. PoolInv(W3, S3', stagesDone, Past3')
        /\ Passed(S3.inp, S3'.inp, From(W3, S3, Past3), From(W3, S3', Past3'))
  BY <1>1, <1>2, OutputPasses
<1>. QED
  BY <1>2, <1>3, PrimedPasts DEF Past2

LEMMA PassesThroughTokenize ==
  ASSUME PoolsInv, UNCHANGED <<stagesDone, c1, closed1, closed2, pc2, item2, metrics2>>,
         Passed(c2, c2', Past2, Past2')
  PROVE  PoolInv(W2, S2', stagesDone, Past2') /\ Passed(c1, c1', Past1, Past1')
<1>1. PoolInv(W2, S2, stagesDone, Past2)
  BY DEF PoolsInv
<1>2. /\ S2'.inp = S2.inp /\ S2'.inC = S2.inC /\ S2'.outC = S2.outC
      /\ S2'.at = S2.at /\ S2'.of = S2.of /\ S2'.met = S2.met
      /\ S2.outp = c2 /\ S2'.outp = c2' /\ S2.inp = c1 /\ S2'.inp = c1'
  BY DEF S2
<1>3. PoolInv(W2, S2', stagesDone, Past2')
        /\ Passed(S2.inp, S2'.inp, From(W2, S2, Past2), From(W2, S2', Past2'))
  BY <1>1, <1>2, OutputPasses
<1>. QED
  BY <1>2, <1>3, PrimedPasts DEF Past1

LEMMA PassesThroughLoad ==
  ASSUME PoolsInv, UNCHANGED <<stagesDone, out, closed, closed1, pc1, item1, metrics1>>,
         Passed(c1, c1', Past1, Past1')
  PROVE  PoolInv(W1, S1', stagesDone, Past1') /\ Passed(out, out', Past0, Past0')
<1>1. PoolInv(W1, S1, stagesDone, Past1)
  BY DEF PoolsInv
<1>2. /\ S1'.inp = S1.inp /\ S1'.inC = S1.inC /\ S1'.outC = S1.outC
      /\ S1'.at = S1.at /\ S1'.of = S1.of /\ S1'.met = S1.met
      /\ S1.outp = c1 /\ S1'.outp = c1' /\ S1.inp = out /\ S1'.inp = out'
  BY DEF S1
<1>3. PoolInv(W1, S1', stagesDone, Past1')
        /\ Passed(S1.inp, S1'.inp, From(W1, S1, Past1), From(W1, S1', Past1'))
  BY <1>1, <1>2, OutputPasses
<1>. QED
  BY <1>2, <1>3, PrimedPasts DEF Past0

(***************************************************************************)
(* The requests in flight, part by part, and the types of these counts.    *)
(***************************************************************************)
Front == (IF pc = "send" THEN 1 ELSE 0) + Len(out)

LEMMA InFlightSum ==
  /\ InFlight = Front + Size(W1, S1) + Size(W2, S2) + Size(W3, S3) + Size(W4, S4)
  /\ InFlight' = Front' + Size(W1, S1') + Size(W2, S2') + Size(W3, S3') + Size(W4, S4')
<1>1. /\ Load!Busy = BusyIn(W1, S1) /\ (Load!Busy)' = BusyIn(W1, S1')
      /\ S1.outp = c1 /\ S1'.outp = c1'
  BY DEF Load!Busy, BusyIn, W1, S1
<1>2. /\ Tokenize!Busy = BusyIn(W2, S2) /\ (Tokenize!Busy)' = BusyIn(W2, S2')
      /\ S2.outp = c2 /\ S2'.outp = c2'
  BY DEF Tokenize!Busy, BusyIn, W2, S2
<1>3. /\ Embed!Busy = BusyIn(W3, S3) /\ (Embed!Busy)' = BusyIn(W3, S3')
      /\ S3.outp = c3 /\ S3'.outp = c3'
  BY DEF Embed!Busy, BusyIn, W3, S3
<1>4. /\ Index!Busy = BusyIn(W4, S4) /\ (Index!Busy)' = BusyIn(W4, S4')
      /\ S4.outp = c4 /\ S4'.outp = c4'
  BY DEF Index!Busy, BusyIn, W4, S4
<1>. QED
  BY <1>1, <1>2, <1>3, <1>4 DEF InFlight, Front, Size

LEMMA CountTypes ==
  ASSUME NEW W, IsFiniteSet(W), NEW s, NEW ctx, NEW D, PoolInv(W, s, ctx, D)
  PROVE  /\ Len(s.inp) \in Nat /\ Len(s.outp) \in Nat
         /\ Cardinality(BusyIn(W, s)) \in Nat /\ Size(W, s) \in Nat
<1>1. Len(s.inp) \in Nat /\ Len(s.outp) \in Nat
  BY LenProperties DEF PoolInv, PoolTypes
<1>2. Cardinality(BusyIn(W, s)) \in Nat
  BY FS_Subset, FS_CardinalityType DEF BusyIn
<1>. QED
  BY <1>1, <1>2 DEF Size

(***************************************************************************)
(* What one pool takes another has lost: the sum stays.                    *)
(***************************************************************************)
LEMMA OutputCounted ==
  ASSUME NEW W, NEW s, NEW t, IsFiniteSet(W), t.at = s.at,
         Len(s.outp) \in Nat, Len(t.outp) \in Nat
  PROVE  Size(W, t) + Len(s.outp) = Size(W, s) + Len(t.outp)
<1>1. BusyIn(W, t) = BusyIn(W, s)
  BY DEF BusyIn
<1>2. Cardinality(BusyIn(W, s)) \in Nat
  BY FS_Subset, FS_CardinalityType DEF BusyIn
<1>. QED
  BY <1>1, <1>2 DEF Size

LEMMA PipeCounts ==
  ASSUME PoolsInv
  PROVE  /\ Front \in Nat /\ Size(W1, S1) \in Nat /\ Size(W2, S2) \in Nat
         /\ Size(W3, S3) \in Nat /\ Size(W4, S4) \in Nat
         /\ Len(out) \in Nat /\ Len(c1) \in Nat /\ Len(c2) \in Nat
         /\ Len(c3) \in Nat /\ Len(c4) \in Nat
<1>1. /\ Len(S1.inp) \in Nat /\ Len(S1.outp) \in Nat /\ Size(W1, S1) \in Nat
      /\ Len(S2.outp) \in Nat /\ Size(W2, S2) \in Nat
      /\ Len(S3.outp) \in Nat /\ Size(W3, S3) \in Nat
      /\ Len(S4.outp) \in Nat /\ Size(W4, S4) \in Nat
  BY WorkerSets, CountTypes DEF PoolsInv
<1>2. S1.inp = out /\ S1.outp = c1 /\ S2.outp = c2 /\ S3.outp = c3 /\ S4.outp = c4
  BY DEF S1, S2, S3, S4
<1>3. Len(out) \in Nat
  BY <1>1, <1>2
<1>. QED
  BY <1>1, <1>2, <1>3 DEF Front

LEMMA NextPipeCounts ==
  ASSUME PoolsInv'
  PROVE  /\ Front' \in Nat /\ Size(W1, S1') \in Nat /\ Size(W2, S2') \in Nat
         /\ Size(W3, S3') \in Nat /\ Size(W4, S4') \in Nat
         /\ Len(out') \in Nat /\ Len(c1') \in Nat /\ Len(c2') \in Nat
         /\ Len(c3') \in Nat /\ Len(c4') \in Nat
<1>0. W1' = W1 /\ W2' = W2 /\ W3' = W3 /\ W4' = W4
  BY DEF W1, W2, W3, W4, Load!Workers, Tokenize!Workers, Embed!Workers, Index!Workers
<1>1. /\ Len(S1'.inp) \in Nat /\ Len(S1'.outp) \in Nat /\ Size(W1, S1') \in Nat
      /\ Len(S2'.outp) \in Nat /\ Size(W2, S2') \in Nat
      /\ Len(S3'.outp) \in Nat /\ Size(W3, S3') \in Nat
      /\ Len(S4'.outp) \in Nat /\ Size(W4, S4') \in Nat
  BY <1>0, WorkerSets, CountTypes DEF PoolsInv
<1>2. S1'.inp = out' /\ S1'.outp = c1' /\ S2'.outp = c2' /\ S3'.outp = c3' /\ S4'.outp = c4'
  BY DEF S1, S2, S3, S4
<1>3. Len(out') \in Nat
  BY <1>1, <1>2
<1>. QED
  BY <1>1, <1>2, <1>3 DEF Front

(***************************************************************************)
(* What is in flight stays when two neighbours keep their sum, and changes *)
(* by what one part gains or loses.                                        *)
(***************************************************************************)
LEMMA FlightChanges ==
  ASSUME PoolsInv, PoolsInv'
  PROVE  LET f == Front   a == Size(W1, S1)   b == Size(W2, S2)
             c == Size(W3, S3)   d == Size(W4, S4)
             g == Front'  k == Size(W1, S1')  l == Size(W2, S2')
             m == Size(W3, S3')  n == Size(W4, S4')
         IN  /\ g + k = f + a /\ l = b /\ m = c /\ n = d => InFlight' = InFlight
             /\ g = f /\ k + l = a + b /\ m = c /\ n = d => InFlight' = InFlight
             /\ g = f /\ k = a /\ l + m = b + c /\ n = d => InFlight' = InFlight
             /\ g = f /\ k = a /\ l = b /\ m + n = c + d => InFlight' = InFlight
             /\ g = f + 1 /\ k = a /\ l = b /\ m = c /\ n = d => InFlight' = InFlight + 1
             /\ g = f /\ k + 1 = a /\ l = b /\ m = c /\ n = d => InFlight' + 1 = InFlight
             /\ g = f /\ k = a /\ l = b /\ m = c /\ n + 1 = d => InFlight' + 1 = InFlight
             /\ InFlight \in Nat /\ InFlight' \in Nat
<1> DEFINE f == Front   a == Size(W1, S1)   b == Size(W2, S2)
           c == Size(W3, S3)   d == Size(W4, S4)
           g == Front'  k == Size(W1, S1')  l == Size(W2, S2')
           m == Size(W3, S3')  n == Size(W4, S4')
<1>1. /\ f \in Nat /\ a \in Nat /\ b \in Nat /\ c \in Nat /\ d \in Nat
      /\ g \in Nat /\ k \in Nat /\ l \in Nat /\ m \in Nat /\ n \in Nat
  BY PipeCounts, NextPipeCounts
<1>2. InFlight = f + a + b + c + d /\ InFlight' = g + k + l + m + n
  BY InFlightSum
<1> HIDE DEF f, a, b, c, d, g, k, l, m, n
<1>3. /\ g + k = f + a /\ l = b /\ m = c /\ n = d => InFlight' = InFlight
      /\ g = f /\ k + l = a + b /\ m = c /\ n = d => InFlight' = InFlight
      /\ g = f /\ k = a /\ l + m = b + c /\ n = d => InFlight' = InFlight
      /\ g = f /\ k = a /\ l = b /\ m + n = c + d => InFlight' = InFlight
  BY <1>1, <1>2
<1>4. /\ g = f + 1 /\ k = a /\ l = b /\ m = c /\ n = d => InFlight' = InFlight + 1
      /\ g = f /\ k + 1 = a /\ l = b /\ m = c /\ n = d => InFlight' + 1 = InFlight
      /\ g = f /\ k = a /\ l = b /\ m = c /\ n + 1 = d => InFlight' + 1 = InFlight
  BY <1>1, <1>2
<1>5. InFlight \in Nat /\ InFlight' \in Nat
  BY <1>1, <1>2
<1>. QED
  BY <1>3, <1>4, <1>5 DEF f, a, b, c, d, g, k, l, m, n

-----------------------------------------------------------------------------
(***************************************************************************)
(* One lemma per part of the pipeline: its steps keep the invariant.       *)
(***************************************************************************)
LEMMA IndexKeeps ==
  ASSUME PipeInv, IndexStep
  PROVE  PipeInv'
<1> USE DEF PipeInv
<1>1. /\ UNCHANGED <<gen, ctxDone, st1, st2, st3, ch0, ch1, ch2, tail>>
      /\ Index!StageNext
  BY DEF IndexStep
<1>2. PoolInv(W4, S4, stagesDone, Past4) /\ PoolTypes(W4, S4) /\ stagesDone \in BOOLEAN
  BY DEF PoolsInv, PoolInv, GenInv
<1>3. UNCHANGED stagesDone /\ PoolStep(W4, S4, S4', stagesDone)
  BY <1>1, <1>2, IndexIsPool
<1>4. IsInjective(S4.inp) /\ Range(S4.inp) \cap From(W4, S4, Past4) = {}
  <2>1. S4.inp = c3 /\ S3.outp = c3 /\ From(W4, S4, Past4) = Past3
    BY DEF S3, S4, Past3
  <2>. QED
    BY <2>1 DEF PoolsInv, PoolInv, PoolApart
<1>5. /\ PoolInv(W4, S4', stagesDone, Past4)
      /\ Passed(S4.inp, S4'.inp, From(W4, S4, Past4), From(W4, S4', Past4))
      /\ ~stagesDone => Len(S4'.inp) + Size(W4, S4') = Len(S4.inp) + Size(W4, S4)
  BY <1>2, <1>3, <1>4, WorkerSets, PoolKeepsInv
<1>6. Past4' = Past4
  BY <1>1 DEF tail, Past4, Settled
<1>7. Passed(c3, c3', Past3, Past3')
  <2>1. S4.inp = c3 /\ S4'.inp = c3'
    BY DEF S4
  <2>2. From(W4, S4, Past4) = Past3 /\ From(W4, S4', Past4) = Past3'
    BY <1>6, PrimedPasts DEF Past3
  <2>. QED
    BY <1>5, <2>1, <2>2
<1>8. closed3' = closed3
  BY <1>3 DEF PoolStep, S4
<1>9. PoolInv(W3, S3', stagesDone, Past3') /\ Passed(c2, c2', Past2, Past2')
  BY <1>1, <1>3, <1>7, <1>8, PassesThroughEmbed DEF st3, ch2
<1>10. PoolInv(W2, S2', stagesDone, Past2') /\ Passed(c1, c1', Past1, Past1')
  BY <1>1, <1>3, <1>9, PassesThroughTokenize DEF st2, ch1, ch2
<1>11. PoolInv(W1, S1', stagesDone, Past1') /\ Passed(out, out', Past0, Past0')
  BY <1>1, <1>3, <1>10, PassesThroughLoad DEF st1, ch0, ch1
<1>12. PoolsInv'
  BY <1>3, <1>5, <1>6, <1>9, <1>10, <1>11, PrimedPools
<1>13. out \in Seq(Items)
  BY DEF PoolsInv, PoolInv, PoolTypes, S1
<1>14. Fresh'
  BY <1>1, <1>11, <1>13, FreshPasses DEF gen
<1>15. GenInv' /\ OutInv'
  BY <1>1, <1>3 DEF gen, metrics, ch0, tail, GenInv, OutInv
<1>16. Balance'
  <2>1. /\ Size(W1, S1') = Size(W1, S1) /\ Size(W2, S2') = Size(W2, S2)
        /\ Front' = Front
    BY <1>1 DEF Size, BusyIn, S1, S2, st1, st2, gen, ch0, ch1, ch2, Front
  <2>2. Size(W3, S3') + Len(c3) = Size(W3, S3) + Len(c3')
    <3>1. S3.outp = c3 /\ S3'.outp = c3' /\ S3'.at = S3.at
      BY <1>1 DEF S3, st3
    <3>2. IsFiniteSet(W3) /\ Len(c3) \in Nat /\ Len(c3') \in Nat
      BY <1>12, WorkerSets, PipeCounts, NextPipeCounts
    <3>. QED
      BY <3>1, <3>2, OutputCounted
  <2>3. ~stagesDone => Len(c3') + Size(W4, S4') = Len(c3) + Size(W4, S4)
    BY <1>5 DEF S4
  <2>4. ASSUME ~stagesDone
        PROVE  InFlight' = InFlight
    <3>1. /\ Front \in Nat /\ Size(W1, S1) \in Nat /\ Size(W2, S2) \in Nat
          /\ Size(W3, S3) \in Nat /\ Size(W4, S4) \in Nat
          /\ Size(W3, S3') \in Nat /\ Size(W4, S4') \in Nat
          /\ Len(c3) \in Nat /\ Len(c3') \in Nat
      BY <1>12, PipeCounts, NextPipeCounts
    <3>2. Size(W3, S3') + Size(W4, S4') = Size(W3, S3) + Size(W4, S4)
      <4> DEFINE a == Size(W3, S3)   b == Size(W4, S4)   p == Len(c3)
                 m == Size(W3, S3')  n == Size(W4, S4')  q == Len(c3')
      <4>1. m + p = a + q /\ q + n = p + b
        BY <2>2, <2>3, <2>4
      <4>2. a \in Nat /\ b \in Nat /\ m \in Nat /\ n \in Nat /\ p \in Nat /\ q \in Nat
        BY <3>1
      <4> HIDE DEF a, b, m, n, p, q
      <4>3. m + n = a + b
        BY <4>1, <4>2
      <4>. QED
        BY <4>3 DEF a, b, m, n
    <3>. QED
      BY <1>12, <2>1, <3>2, FlightChanges
  <2>5. UNCHANGED <<requests, received, failed, stagesDone>>
    BY <1>1, <1>3 DEF gen, tail, metrics
  <2>. QED
    BY <2>4, <2>5 DEF Balance
<1>. QED
  BY <1>12, <1>14, <1>15, <1>16

LEMMA EmbedKeeps ==
  ASSUME PipeInv, EmbedStep
  PROVE  PipeInv'
<1> USE DEF PipeInv
<1>1. /\ UNCHANGED <<gen, ctxDone, st1, st2, st4, ch0, ch1, ch4, tail>>
      /\ Embed!StageNext
  BY DEF EmbedStep
<1>2. PoolInv(W3, S3, stagesDone, Past3) /\ PoolTypes(W3, S3) /\ stagesDone \in BOOLEAN
  BY DEF PoolsInv, PoolInv, GenInv
<1>3. UNCHANGED stagesDone /\ PoolStep(W3, S3, S3', stagesDone)
  BY <1>1, <1>2, EmbedIsPool
<1>4. IsInjective(S3.inp) /\ Range(S3.inp) \cap From(W3, S3, Past3) = {}
  <2>1. S3.inp = c2 /\ S2.outp = c2 /\ From(W3, S3, Past3) = Past2
    BY DEF S2, S3, Past2
  <2>. QED
    BY <2>1 DEF PoolsInv, PoolInv, PoolApart
<1>5. /\ PoolInv(W3, S3', stagesDone, Past3)
      /\ Passed(S3.inp, S3'.inp, From(W3, S3, Past3), From(W3, S3', Past3))
      /\ S3'.outp \in Seq(Items) /\ S3'.outC \in BOOLEAN
      /\ S3.outC => S3'.outC /\ S3'.outp = S3.outp
      /\ ~stagesDone => Len(S3'.inp) + Size(W3, S3') = Len(S3.inp) + Size(W3, S3)
  BY <1>2, <1>3, <1>4, WorkerSets, PoolKeepsInv
<1>6. /\ PoolInv(W4, S4', stagesDone, Past4)
      /\ From(W4, S4', Past4) = From(W4, S4, Past4)
      /\ Size(W4, S4') = Size(W4, S4)
  <2>1. PoolInv(W4, S4, stagesDone, Past4)
    BY DEF PoolsInv
  <2>2. /\ S4'.inp = S3'.outp /\ S4.inp = S3.outp
        /\ S4'.inC = S3'.outC /\ S4.inC = S3.outC
    BY DEF S3, S4
  <2>3. /\ S4'.outp = S4.outp /\ S4'.outC = S4.outC /\ S4'.at = S4.at
        /\ S4'.of = S4.of /\ S4'.met = S4.met
    BY <1>1 DEF S4, st4, ch4
  <2>. QED
    BY <1>5, <2>1, <2>2, <2>3, InputChanges
<1>7. Past3' = Past3 /\ Past4' = Past4
  <2>1. Past4' = Past4
    BY <1>1 DEF tail, Past4, Settled
  <2>. QED
    BY <1>6, <2>1, PrimedPasts DEF Past3
<1>8. Passed(c2, c2', Past2, Past2')
  <2>1. S3.inp = c2 /\ S3'.inp = c2'
    BY DEF S3
  <2>2. From(W3, S3, Past3) = Past2 /\ From(W3, S3', Past3) = Past2'
    BY <1>7, PrimedPasts DEF Past2
  <2>. QED
    BY <1>5, <2>1, <2>2
<1>9. closed2' = closed2
  BY <1>3 DEF PoolStep, S3
<1>10. PoolInv(W2, S2', stagesDone, Past2') /\ Passed(c1, c1', Past1, Past1')
  BY <1>1, <1>3, <1>8, <1>9, PassesThroughTokenize DEF st2, ch1, ch2
<1>11. PoolInv(W1, S1', stagesDone, Past1') /\ Passed(out, out', Past0, Past0')
  BY <1>1, <1>3, <1>10, PassesThroughLoad DEF st1, ch0, ch1
<1>12. PoolsInv'
  BY <1>3, <1>5, <1>6, <1>7, <1>10, <1>11, PrimedPools
<1>13. out \in Seq(Items)
  BY DEF PoolsInv, PoolInv, PoolTypes, S1
<1>14. Fresh'
  BY <1>1, <1>11, <1>13, FreshPasses DEF gen
<1>15. GenInv' /\ OutInv'
  BY <1>1, <1>3 DEF gen, metrics, ch0, tail, GenInv, OutInv
<1>16. Balance'
  <2>1. Size(W1, S1') = Size(W1, S1) /\ Front' = Front
    BY <1>1 DEF Size, BusyIn, gen, ch0, Front, S1, st1, ch1
  <2>2. Size(W2, S2') + Len(c2) = Size(W2, S2) + Len(c2')
    <3>1. S2.outp = c2 /\ S2'.outp = c2' /\ S2'.at = S2.at
      BY <1>1 DEF S2, st2
    <3>2. IsFiniteSet(W2) /\ Len(c2) \in Nat /\ Len(c2') \in Nat
      BY <1>12, WorkerSets, PipeCounts, NextPipeCounts
    <3>. QED
      BY <3>1, <3>2, OutputCounted
  <2>3. ~stagesDone => Len(c2') + Size(W3, S3') = Len(c2) + Size(W3, S3)
    BY <1>5 DEF S3
  <2>4. ASSUME ~stagesDone
        PROVE  InFlight' = InFlight
    <3>1. /\ Size(W2, S2) \in Nat /\ Size(W3, S3) \in Nat
          /\ Size(W2, S2') \in Nat /\ Size(W3, S3') \in Nat
          /\ Len(c2) \in Nat /\ Len(c2') \in Nat
      BY <1>12, PipeCounts, NextPipeCounts
    <3>2. Size(W2, S2') + Size(W3, S3') = Size(W2, S2) + Size(W3, S3)
      <4> DEFINE a == Size(W2, S2)   b == Size(W3, S3)   p == Len(c2)
                 m == Size(W2, S2')  n == Size(W3, S3')  q == Len(c2')
      <4>1. m + p = a + q /\ q + n = p + b
        BY <2>2, <2>3, <2>4
      <4>2. a \in Nat /\ b \in Nat /\ m \in Nat /\ n \in Nat /\ p \in Nat /\ q \in Nat
        BY <3>1
      <4> HIDE DEF a, b, m, n, p, q
      <4>3. m + n = a + b
        BY <4>1, <4>2
      <4>. QED
        BY <4>3 DEF a, b, m, n
    <3>. QED
      BY <1>6, <1>12, <2>1, <3>2, FlightChanges
  <2>5. UNCHANGED <<requests, received, failed, stagesDone>>
    BY <1>1, <1>3 DEF gen, tail, metrics
  <2>. QED
    BY <2>4, <2>5 DEF Balance
<1>. QED
  BY <1>12, <1>14, <1>15, <1>16

LEMMA TokenizeKeeps ==
  ASSUME PipeInv, TokenizeStep
  PROVE  PipeInv'
<1> USE DEF PipeInv
<1>1. /\ UNCHANGED <<gen, ctxDone, st1, st3, st4, ch0, ch3, ch4, tail>>
      /\ Tokenize!StageNext
  BY DEF TokenizeStep
<1>2. PoolInv(W2, S2, stagesDone, Past2) /\ PoolTypes(W2, S2) /\ stagesDone \in BOOLEAN
  BY DEF PoolsInv, PoolInv, GenInv
<1>3. UNCHANGED stagesDone /\ PoolStep(W2, S2, S2', stagesDone)
  BY <1>1, <1>2, TokenizeIsPool
<1>4. IsInjective(S2.inp) /\ Range(S2.inp) \cap From(W2, S2, Past2) = {}
  <2>1. S2.inp = c1 /\ S1.outp = c1 /\ From(W2, S2, Past2) = Past1
    BY DEF S1, S2, Past1
  <2>. QED
    BY <2>1 DEF PoolsInv, PoolInv, PoolApart
<1>5. /\ PoolInv(W2, S2', stagesDone, Past2)
      /\ Passed(S2.inp, S2'.inp, From(W2, S2, Past2), From(W2, S2', Past2))
      /\ S2'.outp \in Seq(Items) /\ S2'.outC \in BOOLEAN
      /\ S2.outC => S2'.outC /\ S2'.outp = S2.outp
      /\ ~stagesDone => Len(S2'.inp) + Size(W2, S2') = Len(S2.inp) + Size(W2, S2)
  BY <1>2, <1>3, <1>4, WorkerSets, PoolKeepsInv
<1>6. /\ PoolInv(W3, S3', stagesDone, Past3)
      /\ From(W3, S3', Past3) = From(W3, S3, Past3)
      /\ Size(W3, S3') = Size(W3, S3)
  <2>1. PoolInv(W3, S3, stagesDone, Past3)
    BY DEF PoolsInv
  <2>2. /\ S3'.inp = S2'.outp /\ S3.inp = S2.outp
        /\ S3'.inC = S2'.outC /\ S3.inC = S2.outC
    BY DEF S2, S3
  <2>3. /\ S3'.outp = S3.outp /\ S3'.outC = S3.outC /\ S3'.at = S3.at
        /\ S3'.of = S3.of /\ S3'.met = S3.met
    BY <1>1 DEF S3, st3, ch3
  <2>. QED
    BY <1>5, <2>1, <2>2, <2>3, InputChanges
<1>7. Past2' = Past2 /\ Past3' = Past3
  <2>1. Past4' = Past4
    BY <1>1 DEF tail, Past4, Settled
  <2>2. S4' = S4
    BY <1>1 DEF S4, st4, ch3, ch4
  <2>3. Past3' = Past3
    BY <2>1, <2>2, PrimedPasts DEF Past3
  <2>. QED
    BY <1>6, <2>3, PrimedPasts DEF Past2
<1>8. Passed(c1, c1', Past1, Past1')
  <2>1. S2.inp = c1 /\ S2'.inp = c1'
    BY DEF S2
  <2>2. From(W2, S2, Past2) = Past1 /\ From(W2, S2', Past2) = Past1'
    BY <1>7, PrimedPasts DEF Past1
  <2>. QED
    BY <1>5, <2>1, <2>2
<1>9. closed1' = closed1
  BY <1>3 DEF PoolStep, S2
<1>10. PoolInv(W4, S4', stagesDone, Past4')
  <2>1. S4' = S4 /\ Past4' = Past4
    BY <1>1 DEF S4, st4, ch3, ch4, tail, Past4, Settled
  <2>. QED
    BY <2>1 DEF PoolsInv
<1>11. PoolInv(W1, S1', stagesDone, Past1') /\ Passed(out, out', Past0, Past0')
  BY <1>1, <1>3, <1>8, <1>9, PassesThroughLoad DEF st1, ch0, ch1
<1>12. PoolsInv'
  BY <1>3, <1>5, <1>6, <1>7, <1>10, <1>11, PrimedPools
<1>13. out \in Seq(Items)
  BY DEF PoolsInv, PoolInv, PoolTypes, S1
<1>14. Fresh'
  BY <1>1, <1>11, <1>13, FreshPasses DEF gen
<1>15. GenInv' /\ OutInv'
  BY <1>1, <1>3 DEF gen, metrics, ch0, tail, GenInv, OutInv
<1>16. Balance'
  <2>1. Size(W4, S4') = Size(W4, S4) /\ Front' = Front
    BY <1>1 DEF Size, BusyIn, gen, ch0, Front, S4, st4, ch3, ch4
  <2>2. Size(W1, S1') + Len(c1) = Size(W1, S1) + Len(c1')
    <3>1. S1.outp = c1 /\ S1'.outp = c1' /\ S1'.at = S1.at
      BY <1>1 DEF S1, st1
    <3>2. IsFiniteSet(W1) /\ Len(c1) \in Nat /\ Len(c1') \in Nat
      BY <1>12, WorkerSets, PipeCounts, NextPipeCounts
    <3>. QED
      BY <3>1, <3>2, OutputCounted
  <2>3. ~stagesDone => Len(c1') + Size(W2, S2') = Len(c1) + Size(W2, S2)
    BY <1>5 DEF S2
  <2>4. ASSUME ~stagesDone
        PROVE  InFlight' = InFlight
    <3>1. /\ Size(W1, S1) \in Nat /\ Size(W2, S2) \in Nat
          /\ Size(W1, S1') \in Nat /\ Size(W2, S2') \in Nat
          /\ Len(c1) \in Nat /\ Len(c1') \in Nat
      BY <1>12, PipeCounts, NextPipeCounts
    <3>2. Size(W1, S1') + Size(W2, S2') = Size(W1, S1) + Size(W2, S2)
      <4> DEFINE a == Size(W1, S1)   b == Size(W2, S2)   p == Len(c1)
                 m == Size(W1, S1')  n == Size(W2, S2')  q == Len(c1')
      <4>1. m + p = a + q /\ q + n = p + b
        BY <2>2, <2>3, <2>4
      <4>2. a \in Nat /\ b \in Nat /\ m \in Nat /\ n \in Nat /\ p \in Nat /\ q \in Nat
        BY <3>1
      <4> HIDE DEF a, b, m, n, p, q
      <4>3. m + n = a + b
        BY <4>1, <4>2
      <4>. QED
        BY <4>3 DEF a, b, m, n
    <3>. QED
      BY <1>6, <1>12, <2>1, <3>2, FlightChanges
  <2>5. UNCHANGED <<requests, received, failed, stagesDone>>
    BY <1>1, <1>3 DEF gen, tail, metrics
  <2>. QED
    BY <2>4, <2>5 DEF Balance
<1>. QED
  BY <1>12, <1>14, <1>15, <1>16

LEMMA LoadKeeps ==
  ASSUME PipeInv, LoadStep, PoolStep(W1, S1, S1', stagesDone), UNCHANGED stagesDone
  PROVE  PipeInv'
<1> USE DEF PipeInv
<1>1. UNCHANGED <<gen, ctxDone, st2, st3, st4, ch2, ch3, ch4, received>>
  BY DEF LoadStep
<1>2. PoolInv(W1, S1, stagesDone, Past1) /\ stagesDone \in BOOLEAN
  BY DEF PoolsInv, GenInv
<1>3. failed' = failed
  BY DEF LoadStep, PoolStep, S1
<1>4. IsInjective(S1.inp) /\ Range(S1.inp) \cap From(W1, S1, Past1) = {}
  BY DEF Fresh, S1, Past0
<1>5. /\ PoolInv(W1, S1', stagesDone, Past1)
      /\ Passed(S1.inp, S1'.inp, From(W1, S1, Past1), From(W1, S1', Past1))
      /\ S1'.outp \in Seq(Items) /\ S1'.outC \in BOOLEAN
      /\ S1.outC => S1'.outC /\ S1'.outp = S1.outp
      /\ ~stagesDone => Len(S1'.inp) + Size(W1, S1') = Len(S1.inp) + Size(W1, S1)
  BY <1>2, <1>4, WorkerSets, PoolKeepsInv
<1>6. /\ PoolInv(W2, S2', stagesDone, Past2)
      /\ From(W2, S2', Past2) = From(W2, S2, Past2)
      /\ Size(W2, S2') = Size(W2, S2)
  <2>1. PoolInv(W2, S2, stagesDone, Past2)
    BY DEF PoolsInv
  <2>2. /\ S2'.inp = S1'.outp /\ S2.inp = S1.outp
        /\ S2'.inC = S1'.outC /\ S2.inC = S1.outC
    BY DEF S1, S2
  <2>3. /\ S2'.outp = S2.outp /\ S2'.outC = S2.outC /\ S2'.at = S2.at
        /\ S2'.of = S2.of /\ S2'.met = S2.met
    BY <1>1 DEF S2, st2, ch2
  <2>. QED
    BY <1>5, <2>1, <2>2, <2>3, InputChanges
<1>7. S3' = S3 /\ S4' = S4
  BY <1>1 DEF S3, S4, st3, st4, ch2, ch3, ch4
<1>8. Past4' = Past4 /\ Past3' = Past3 /\ Past2' = Past2 /\ Past1' = Past1
  <2>1. Past4' = Past4
    BY <1>1, <1>3 DEF Past4, Settled
  <2>2. Past3' = Past3
    BY <1>7, <2>1, PrimedPasts DEF Past3
  <2>3. Past2' = Past2
    BY <1>7, <2>2, PrimedPasts DEF Past2
  <2>. QED
    BY <1>6, <2>1, <2>2, <2>3, PrimedPasts DEF Past1
<1>9. Passed(out, out', Past0, Past0')
  <2>1. S1.inp = out /\ S1'.inp = out'
    BY DEF S1
  <2>2. From(W1, S1, Past1) = Past0 /\ From(W1, S1', Past1) = Past0'
    BY <1>8, PrimedPasts DEF Past0
  <2>. QED
    BY <1>5, <2>1, <2>2
<1>10. PoolInv(W3, S3', stagesDone, Past3') /\ PoolInv(W4, S4', stagesDone, Past4')
  BY <1>7, <1>8 DEF PoolsInv
<1>11. PoolsInv'
  BY <1>5, <1>6, <1>8, <1>10, PrimedPools
<1>12. out \in Seq(Items)
  BY DEF PoolsInv, PoolInv, PoolTypes, S1
<1>13. Fresh'
  BY <1>1, <1>9, <1>12, FreshPasses DEF gen
<1>14. closed' = closed
  BY DEF PoolStep, S1
<1>15. GenInv' /\ OutInv'
  BY <1>1, <1>3, <1>14 DEF gen, metrics, GenInv, OutInv
<1>16. Balance'
  <2>1. Size(W3, S3') = Size(W3, S3) /\ Size(W4, S4') = Size(W4, S4)
    BY <1>7
  <2>2. ASSUME ~stagesDone
        PROVE  InFlight' = InFlight
    <3>1. Len(out) \in Nat /\ Len(out') \in Nat /\ Size(W1, S1) \in Nat /\ Size(W1, S1') \in Nat
      BY <1>11, PipeCounts, NextPipeCounts
    <3>2. Len(out') + Size(W1, S1') = Len(out) + Size(W1, S1) /\ pc' = pc
      BY <1>1, <1>5, <2>2 DEF S1, gen
    <3>3. Front' + Size(W1, S1') = Front + Size(W1, S1)
      BY <3>1, <3>2 DEF Front
    <3>. QED
      BY <1>6, <1>11, <2>1, <3>3, FlightChanges
  <2>3. UNCHANGED <<requests, received, failed, stagesDone>>
    BY <1>1, <1>3 DEF gen, metrics
  <2>. QED
    BY <2>2, <2>3 DEF Balance
<1>. QED
  BY <1>11, <1>13, <1>15, <1>16

(***************************************************************************)
(* A request that fails to load joins those that have come out.            *)
(***************************************************************************)
LEMMA FailureKeeps ==
  ASSUME PipeInv, LoadStep, NEW w \in W1, PoolFail(W1, S1, S1', w), UNCHANGED stagesDone
  PROVE  PipeInv'
<1> USE DEF PipeInv
<1> DEFINE x == item1[1]
<1>1. UNCHANGED <<gen, ctxDone, st2, st3, st4, ch2, ch3, ch4, received>>
  BY DEF LoadStep
<1>2. PoolInv(W1, S1, stagesDone, Past1) /\ stagesDone \in BOOLEAN
  BY DEF PoolsInv, GenInv
<1>3. S1.of[w] = x /\ failed' = failed \cup {x}
  <2>1. w = 1
    BY WorkerSets
  <2>2. metrics1'.errors = metrics1.errors + 1
    BY DEF PoolFail, S1
  <2>3. metrics1.errors \in Nat
    BY <1>2 DEF PoolInv, PoolTypes, S1, Instruments
  <2>4. metrics1'.errors # metrics1.errors
    BY <2>2, <2>3
  <2>. QED
    BY <2>1, <2>4 DEF LoadStep, S1
<1>4. /\ PoolInv(W1, S1', stagesDone, Past1 \cup {x})
      /\ From(W1, S1', Past1 \cup {x}) = From(W1, S1, Past1)
      /\ x \notin Past1
      /\ S1'.inp = S1.inp /\ S1'.outp = S1.outp /\ S1'.outC = S1.outC
      /\ Size(W1, S1') + 1 = Size(W1, S1)
  <2>1. /\ PoolInv(W1, S1', stagesDone, Past1 \cup {S1.of[w]})
        /\ From(W1, S1', Past1 \cup {S1.of[w]}) = From(W1, S1, Past1)
        /\ S1.of[w] \notin Range(S1.outp) \cup Past1
        /\ S1'.inp = S1.inp /\ S1'.outp = S1.outp /\ S1'.outC = S1.outC
        /\ Size(W1, S1') + 1 = Size(W1, S1)
    <3>1. W1 # {} /\ IsFiniteSet(W1) /\ w \in W1 /\ PoolFail(W1, S1, S1', w)
      BY WorkerSets
    <3>2. PoolTypes(W1, S1) /\ PoolShuts(W1, S1, stagesDone) /\ PoolApart(W1, S1, Past1)
      BY <1>2 DEF PoolInv
    <3>3. PoolTypes(W1, S1')
      BY <1>2, <3>1, <3>2, PoolKeepsTypes
    <3>4. PoolShuts(W1, S1', stagesDone)
      BY <1>2, <3>1, <3>2, PoolKeepsShuts
    <3>5. /\ PoolApart(W1, S1', Past1 \cup {S1.of[w]})
          /\ From(W1, S1', Past1 \cup {S1.of[w]}) = From(W1, S1, Past1)
          /\ S1.of[w] \notin Range(S1.outp) \cup Past1
      BY <3>1, <3>2, FailKeepsApart
    <3>6. S1'.inp = S1.inp /\ S1'.outp = S1.outp /\ S1'.outC = S1.outC
      BY <3>1 DEF PoolFail, Fails
    <3>7. Size(W1, S1') + 1 = Size(W1, S1)
      BY <3>1, <3>2, FailKeepsCount
    <3>. QED
      BY <3>3, <3>4, <3>5, <3>6, <3>7 DEF PoolInv
  <2>. QED
    BY <1>3, <2>1
<1> HIDE DEF x
<1>5. closed' = closed /\ out' = out /\ UNCHANGED <<c1, closed1>>
  BY <1>4 DEF PoolFail, S1
<1>6. S2' = S2 /\ S3' = S3 /\ S4' = S4
  BY <1>1, <1>5 DEF S2, S3, S4, st2, st3, st4, ch2, ch3, ch4
<1>7. x \notin Past2 /\ x \notin Past3 /\ x \notin Past4
  BY <1>4, PastsNested
<1>8. Past4' = Past4 \cup {x}
  BY <1>1, <1>3 DEF Past4, Settled
<1>9. PoolInv(W4, S4', stagesDone, Past4') /\ Past3' = Past3 \cup {x}
  <2>1. PoolInv(W4, S4, stagesDone, Past4) /\ x \notin From(W4, S4, Past4)
    BY <1>7 DEF PoolsInv, Past3
  <2>2. /\ PoolInv(W4, S4, stagesDone, Past4 \cup {x})
        /\ From(W4, S4, Past4 \cup {x}) = From(W4, S4, Past4) \cup {x}
    BY <2>1 DEF PoolInv, PoolApart, From
  <2>. QED
    BY <1>6, <1>8, <2>2, PrimedPasts DEF Past3
<1>10. PoolInv(W3, S3', stagesDone, Past3') /\ Past2' = Past2 \cup {x}
  <2>1. PoolInv(W3, S3, stagesDone, Past3) /\ x \notin From(W3, S3, Past3)
    BY <1>7 DEF PoolsInv, Past2
  <2>2. /\ PoolInv(W3, S3, stagesDone, Past3 \cup {x})
        /\ From(W3, S3, Past3 \cup {x}) = From(W3, S3, Past3) \cup {x}
    BY <2>1 DEF PoolInv, PoolApart, From
  <2>. QED
    BY <1>6, <1>9, <2>2, PrimedPasts DEF Past2
<1>11. PoolInv(W2, S2', stagesDone, Past2') /\ Past1' = Past1 \cup {x}
  <2>1. PoolInv(W2, S2, stagesDone, Past2) /\ x \notin From(W2, S2, Past2)
    BY <1>4 DEF PoolsInv, Past1
  <2>2. /\ PoolInv(W2, S2, stagesDone, Past2 \cup {x})
        /\ From(W2, S2, Past2 \cup {x}) = From(W2, S2, Past2) \cup {x}
    BY <2>1 DEF PoolInv, PoolApart, From
  <2>. QED
    BY <1>6, <1>10, <2>2, PrimedPasts DEF Past1
<1>12. Past0' = Past0
  BY <1>4, <1>11, PrimedPasts DEF Past0
<1>13. PoolsInv'
  BY <1>4, <1>9, <1>10, <1>11, PrimedPools
<1>14. Fresh'
  BY <1>1, <1>5, <1>12 DEF Fresh, gen
<1>15. x \notin failed /\ x \notin Range(received)
  BY <1>7 DEF Past4, Settled
<1>16. GenInv' /\ OutInv'
  <2>1. IsFiniteSet(failed')
    BY <1>3, FS_AddElement DEF OutInv
  <2>. QED
    BY <1>1, <1>3, <1>5, <1>15, <2>1 DEF gen, metrics, GenInv, OutInv
<1>17. Balance'
  <2>1. Cardinality(failed') = Cardinality(failed) + 1
    BY <1>3, <1>15, FS_AddElement DEF OutInv
  <2>2. /\ Size(W2, S2') = Size(W2, S2) /\ Size(W3, S3') = Size(W3, S3)
        /\ Size(W4, S4') = Size(W4, S4) /\ Front' = Front
    BY <1>1, <1>5, <1>6 DEF Front, gen
  <2>3. InFlight' + 1 = InFlight /\ InFlight' \in Nat /\ InFlight \in Nat
    BY <1>4, <1>13, <2>2, FlightChanges
  <2>4. Len(received) \in Nat /\ Cardinality(failed) \in Nat
    BY LenProperties, FS_CardinalityType DEF OutInv
  <2>5. requests' = requests /\ received' = received
    BY <1>1 DEF gen, metrics
  <2>6. Len(received) + (Cardinality(failed) + 1) + InFlight'
          = Len(received) + Cardinality(failed) + InFlight
    <3> DEFINE a == Len(received)  b == Cardinality(failed)  c == InFlight  d == InFlight'
    <3>1. a \in Nat /\ b \in Nat /\ c \in Nat /\ d \in Nat /\ d + 1 = c
      BY <2>3, <2>4
    <3> HIDE DEF a, b, c, d
    <3>2. a + (b + 1) + d = a + b + c
      BY <3>1
    <3>. QED
      BY <3>2 DEF a, b, c, d
  <2>. QED
    BY <2>1, <2>5, <2>6 DEF Balance
<1>. QED
  BY <1>13, <1>14, <1>16, <1>17

LEMMA PrintKeeps ==
  ASSUME PipeInv, PrintResult
  PROVE  PipeInv'
<1> USE DEF PipeInv
<1> DEFINE h == Head(c4)
<1>1. /\ c4 # <<>> /\ c4' = Tail(c4) /\ received' = Append(received, h)
      /\ UNCHANGED <<gen, ctxDone, stagesDone, st1, st2, st3, st4, ch0, ch1, ch2, ch3>>
      /\ UNCHANGED <<closed4, failed>>
  BY DEF PrintResult
<1>2. PoolInv(W4, S4, stagesDone, Past4) /\ c4 \in Seq(Items) /\ IsInjective(c4)
      /\ Range(c4) \cap Past4 = {}
  BY DEF PoolsInv, PoolInv, PoolTypes, PoolApart, S4
<1>3. h \in Items /\ h \in Range(c4) /\ h \notin Past4 /\ Len(c4') = Len(c4) - 1
  BY <1>1, <1>2, ReceiveRange
<1>4. h \notin Range(received) /\ h \notin failed
  BY <1>3 DEF Past4, Settled
<1>5. /\ received' \in Seq(Items) /\ Len(received') = Len(received) + 1
      /\ Range(received') = Range(received) \cup {h} /\ IsInjective(received')
  BY <1>1, <1>3, <1>4, SendRange, SendInjective DEF OutInv
<1>6. Past4' = Past4 \cup {h}
  BY <1>1, <1>5 DEF Past4, Settled
<1>7. /\ PoolInv(W4, S4', stagesDone, Past4')
      /\ Passed(c3, c3', From(W4, S4, Past4), From(W4, S4', Past4'))
  <2>1. /\ S4'.inp = S4.inp /\ S4'.inC = S4.inC /\ S4'.outC = S4.outC
        /\ S4'.at = S4.at /\ S4'.of = S4.of /\ S4'.met = S4.met
        /\ S4.outp = c4 /\ S4'.outp = c4' /\ S4.inp = c3 /\ S4'.inp = c3'
    BY <1>1 DEF S4, st4, ch3
  <2>2. Passed(S4.outp, S4'.outp, Past4, Past4')
    BY <1>1, <1>6, <2>1 DEF Passed
  <2>3. PoolInv(W4, S4', stagesDone, Past4')
          /\ Passed(S4.inp, S4'.inp, From(W4, S4, Past4), From(W4, S4', Past4'))
    BY <1>2, <2>1, <2>2, OutputPasses
  <2>. QED
    BY <2>1, <2>3
<1>8. Passed(c3, c3', Past3, Past3')
  BY <1>7, PrimedPasts DEF Past3
<1>9. PoolInv(W3, S3', stagesDone, Past3') /\ Passed(c2, c2', Past2, Past2')
  BY <1>1, <1>8, PassesThroughEmbed DEF st3, ch2, ch3
<1>10. PoolInv(W2, S2', stagesDone, Past2') /\ Passed(c1, c1', Past1, Past1')
  BY <1>1, <1>9, PassesThroughTokenize DEF st2, ch1, ch2
<1>11. PoolInv(W1, S1', stagesDone, Past1') /\ Passed(out, out', Past0, Past0')
  BY <1>1, <1>10, PassesThroughLoad DEF st1, ch0, ch1
<1>12. PoolsInv'
  BY <1>1, <1>7, <1>9, <1>10, <1>11, PrimedPools
<1>13. out \in Seq(Items)
  BY DEF PoolsInv, PoolInv, PoolTypes, S1
<1>14. Fresh'
  BY <1>1, <1>11, <1>13, FreshPasses DEF gen
<1>15. GenInv'
  BY <1>1 DEF gen, metrics, ch0, GenInv
<1>16. OutInv'
  BY <1>1, <1>4, <1>5 DEF OutInv
<1>17. Balance'
  <2>1. /\ Size(W1, S1') = Size(W1, S1) /\ Size(W2, S2') = Size(W2, S2)
        /\ Size(W3, S3') = Size(W3, S3) /\ Front' = Front
    BY <1>1 DEF Size, BusyIn, S1, S2, S3, st1, st2, st3, ch0, ch1, ch2, ch3, gen, Front
  <2>2. Size(W4, S4') + 1 = Size(W4, S4)
    <3>1. S4.outp = c4 /\ S4'.outp = c4' /\ S4'.at = S4.at
      BY <1>1 DEF S4, st4
    <3>2. IsFiniteSet(W4) /\ Len(c4) \in Nat /\ Len(c4') \in Nat
      BY <1>12, WorkerSets, PipeCounts, NextPipeCounts
    <3>3. Size(W4, S4') + Len(c4) = Size(W4, S4) + Len(c4')
      BY <3>1, <3>2, OutputCounted
    <3>4. Size(W4, S4') \in Nat /\ Size(W4, S4) \in Nat
      BY <1>12, PipeCounts, NextPipeCounts
    <3>. QED
      BY <1>3, <3>2, <3>3, <3>4
  <2>3. InFlight' + 1 = InFlight /\ InFlight' \in Nat /\ InFlight \in Nat
    BY <1>12, <2>1, <2>2, FlightChanges
  <2>4. Len(received) \in Nat /\ Cardinality(failed) \in Nat
    BY LenProperties, FS_CardinalityType DEF OutInv
  <2>5. (Len(received) + 1) + Cardinality(failed) + InFlight'
          = Len(received) + Cardinality(failed) + InFlight
    <3> DEFINE a == Len(received)  b == Cardinality(failed)  c == InFlight  d == InFlight'
    <3>1. a \in Nat /\ b \in Nat /\ c \in Nat /\ d \in Nat /\ d + 1 = c
      BY <2>3, <2>4
    <3> HIDE DEF a, b, c, d
    <3>2. (a + 1) + b + d = a + b + c
      BY <3>1
    <3>. QED
      BY <3>2 DEF a, b, c, d
  <2>6. requests' = requests /\ failed' = failed /\ stagesDone' = stagesDone
    BY <1>1 DEF gen, metrics
  <2>. QED
    BY <1>5, <2>5, <2>6 DEF Balance
<1>. QED
  BY <1>12, <1>14, <1>15, <1>16, <1>17

(***************************************************************************)
(* The generator only touches its channel; the pools see their input grow  *)
(* or end.                                                                 *)
(***************************************************************************)
Behind == <<st1, st2, st3, st4, ch1, ch2, ch3, ch4, tail>>

LEMMA PastsStay ==
  ASSUME UNCHANGED Behind
  PROVE  /\ S2' = S2 /\ S3' = S3 /\ S4' = S4
         /\ S1'.outp = S1.outp /\ S1'.outC = S1.outC /\ S1'.at = S1.at
         /\ S1'.of = S1.of /\ S1'.met = S1.met
         /\ Past4' = Past4 /\ Past3' = Past3 /\ Past2' = Past2 /\ Past1' = Past1
         /\ Past0' = Past0
<1>1. S2' = S2 /\ S3' = S3 /\ S4' = S4
  BY DEF Behind, S2, S3, S4, st2, st3, st4, ch1, ch2, ch3, ch4
<1>2. /\ S1'.outp = S1.outp /\ S1'.outC = S1.outC /\ S1'.at = S1.at
      /\ S1'.of = S1.of /\ S1'.met = S1.met
  BY DEF Behind, S1, st1, ch1
<1>3. Past4' = Past4
  BY DEF Behind, tail, Past4, Settled
<1>4. Past3' = Past3
  BY <1>1, <1>3, PrimedPasts DEF Past3
<1>5. Past2' = Past2
  BY <1>1, <1>4, PrimedPasts DEF Past2
<1>6. Past1' = Past1
  BY <1>1, <1>5, PrimedPasts DEF Past1
<1>7. From(W1, S1', Past1) = From(W1, S1, Past1)
  BY <1>2 DEF From, HeldIn, BusyIn
<1>8. Past0' = Past0
  BY <1>6, <1>7, PrimedPasts DEF Past0
<1>. QED
  BY <1>1, <1>2, <1>3, <1>4, <1>5, <1>6, <1>8

LEMMA PoolsStay ==
  ASSUME PipeInv, UNCHANGED Behind, stagesDone' = stagesDone,
         out' \in Seq(Items), closed' \in BOOLEAN, closed => closed' /\ out' = out
  PROVE  /\ PoolsInv' /\ OutInv'
         /\ Size(W1, S1') = Size(W1, S1) /\ Size(W2, S2') = Size(W2, S2)
         /\ Size(W3, S3') = Size(W3, S3) /\ Size(W4, S4') = Size(W4, S4)
<1>1. /\ PoolInv(W1, S1, stagesDone, Past1) /\ PoolInv(W2, S2, stagesDone, Past2)
      /\ PoolInv(W3, S3, stagesDone, Past3) /\ PoolInv(W4, S4, stagesDone, Past4)
  BY DEF PipeInv, PoolsInv
<1>2. /\ S1'.inp \in Seq(Items) /\ S1'.inC \in BOOLEAN
      /\ S1.inC => S1'.inC /\ S1'.inp = S1.inp
  BY DEF S1
<1>3. PoolInv(W1, S1', stagesDone, Past1) /\ Size(W1, S1') = Size(W1, S1)
  BY <1>1, <1>2, PastsStay, InputChanges
<1>4. PoolsInv'
  BY <1>1, <1>3, PastsStay, PrimedPools
<1>5. OutInv'
  BY DEF PipeInv, OutInv, Behind, tail
<1>. QED
  BY <1>3, <1>4, <1>5, PastsStay

(***************************************************************************)
(* What the generator draws is new: it carries the next number.            *)
(***************************************************************************)
LEMMA DrawnItems ==
  ASSUME GenInv, counter < MaxRequests, NEW r \in Drawn(config, counter)
  PROVE  r \in Items /\ r.ID = counter
<1>1. config \in Configs /\ counter \in 0 .. MaxRequests - 1
  BY LoadAssumption DEF GenInv
<1>2. config \in Config /\ counter \in Int
  BY <1>1, LoadAssumption DEF Config
<1>. QED
  BY <1>1, <1>2, DrawnFits DEF Items

LEMMA GenerateKeeps ==
  ASSUME PipeInv, GenerateStep
  PROVE  PipeInv'
<1>1. GenInv /\ Fresh /\ OutInv /\ PoolsInv /\ Balance
  BY DEF PipeInv
<1>2. stagesDone' = stagesDone /\ UNCHANGED Behind /\ Past0' = Past0
  <2>1. stagesDone' = stagesDone /\ UNCHANGED Behind
    BY DEF GenerateStep, Generate, Behind, tail
  <2>. QED
    BY <2>1, PastsStay
<1>3. out \in Seq(Items) /\ closed \in BOOLEAN
  BY <1>1 DEF PoolsInv, PoolInv, PoolTypes, S1
<1>4. received' = received /\ failed' = failed
  BY <1>2 DEF Behind, tail
<1>5. Len(received) \in Nat /\ Cardinality(failed) \in Nat /\ requests \in Nat
  BY <1>1, LenProperties, FS_CardinalityType DEF OutInv, GenInv
<1>6. Len(out) \in Nat
  BY <1>3, LenProperties
<1>7. CASE Tick
  <2>1. PICK r \in Drawn(config, counter) : req' = r
    BY <1>7 DEF Tick
  <2>2. r \in Items /\ r.ID = counter
    BY <1>1, <1>7, DrawnItems DEF Tick
  <2>3. /\ out' = out /\ closed' = closed /\ counter' = counter /\ config' = config
        /\ pc = "select" /\ pc' = "send" /\ requests' = requests + 1
    BY <1>7 DEF Tick
  <2>4. GenInv'
    BY <1>1, <1>2, <2>1, <2>2, <2>3 DEF GenInv
  <2>5. Fresh'
    BY <1>1, <1>2, <2>3 DEF Fresh
  <2>6. /\ PoolsInv' /\ OutInv'
        /\ Size(W1, S1') = Size(W1, S1) /\ Size(W2, S2') = Size(W2, S2)
        /\ Size(W3, S3') = Size(W3, S3) /\ Size(W4, S4') = Size(W4, S4)
    BY <1>2, <1>3, <2>3, PoolsStay
  <2>7. Front' = Front + 1
    BY <1>6, <2>3 DEF Front
  <2>8. InFlight' = InFlight + 1 /\ InFlight \in Nat
    BY <1>1, <2>6, <2>7, FlightChanges
  <2>9. Balance'
    <3> DEFINE a == Len(received)  b == Cardinality(failed)  c == InFlight  d == InFlight'
    <3>1. a \in Nat /\ b \in Nat /\ c \in Nat /\ d = c + 1
      BY <1>5, <2>8
    <3>2. ~stagesDone => requests = a + b + c
      BY <1>1 DEF Balance
    <3> HIDE DEF a, b, c, d
    <3>3. ~stagesDone => requests + 1 = a + b + d
      BY <3>1, <3>2
    <3>. QED
      BY <1>2, <1>4, <2>3, <3>3 DEF a, b, c, d, Balance
  <2>. QED
    BY <2>4, <2>5, <2>6, <2>9 DEF PipeInv
<1>8. CASE Send
  <2>1. /\ out' = Append(out, req) /\ counter' = counter + 1 /\ config' = config
        /\ pc = "send" /\ pc' = "select" /\ closed' = closed /\ requests' = requests
    BY <1>8 DEF Send, metrics
  <2>2. req \in Items /\ req.ID = counter /\ ~closed /\ counter \in Nat
    BY <1>1, <2>1 DEF GenInv
  <2>3. req \notin Range(out) \cup Past0
    BY <1>1, <2>2 DEF Fresh
  <2>4. /\ out' \in Seq(Items) /\ Len(out') = Len(out) + 1
        /\ Range(out') = Range(out) \cup {req} /\ IsInjective(out')
    BY <1>1, <1>3, <2>1, <2>2, <2>3, SendRange, SendInjective DEF Fresh
  <2>5. GenInv'
    BY <1>1, <1>2, <2>1, <2>2 DEF GenInv
  <2>6. Fresh'
    <3>1. Range(out') \cap Past0 = {}
      BY <1>1, <2>3, <2>4 DEF Fresh
    <3>2. \A r \in Range(out') \cup Past0 : r.ID \in 0 .. counter - 1 \/ r.ID = counter
      BY <1>1, <2>2, <2>4 DEF Fresh
    <3>3. 0 .. counter - 1 \subseteq 0 .. (counter + 1) - 1
            /\ counter \in 0 .. (counter + 1) - 1
      BY <2>2
    <3>. QED
      BY <1>2, <2>1, <2>4, <3>1, <3>2, <3>3 DEF Fresh
  <2>7. /\ PoolsInv' /\ OutInv'
        /\ Size(W1, S1') = Size(W1, S1) /\ Size(W2, S2') = Size(W2, S2)
        /\ Size(W3, S3') = Size(W3, S3) /\ Size(W4, S4') = Size(W4, S4)
    BY <1>2, <1>3, <2>1, <2>2, <2>4, PoolsStay
  <2>8. Front' = Front
    BY <1>6, <2>1, <2>4 DEF Front
  <2>9. InFlight' = InFlight
    BY <1>1, <2>7, <2>8, FlightChanges
  <2>. QED
    BY <1>1, <1>2, <1>4, <2>1, <2>5, <2>6, <2>7, <2>9 DEF PipeInv, Balance
<1>9. CASE Stop
  <2>1. /\ UNCHANGED <<out, counter, config, requests>>
        /\ pc = "select" /\ pc' = "done" /\ closed' = TRUE
    BY <1>9 DEF Stop, metrics
  <2>2. GenInv'
    BY <1>1, <1>2, <2>1 DEF GenInv
  <2>3. Fresh'
    BY <1>1, <1>2, <2>1 DEF Fresh
  <2>4. /\ PoolsInv' /\ OutInv'
        /\ Size(W1, S1') = Size(W1, S1) /\ Size(W2, S2') = Size(W2, S2)
        /\ Size(W3, S3') = Size(W3, S3) /\ Size(W4, S4') = Size(W4, S4)
    BY <1>2, <1>3, <2>1, PoolsStay
  <2>5. InFlight' = InFlight
    BY <1>1, <2>1, <2>4, FlightChanges DEF Front
  <2>. QED
    BY <1>1, <1>2, <1>4, <2>1, <2>2, <2>3, <2>4, <2>5 DEF PipeInv, Balance
<1>. QED
  BY <1>7, <1>8, <1>9 DEF GenerateStep, Generate

(***************************************************************************)
(* Cancelling a context, or nothing at all.                                *)
(***************************************************************************)
LEMMA NothingKeeps ==
  ASSUME PipeInv, UNCHANGED <<gen, ch0, Behind>>, stagesDone' = stagesDone \/ stagesDone' = TRUE
  PROVE  PipeInv'
<1>1. GenInv /\ Fresh /\ OutInv /\ PoolsInv /\ Balance
  BY DEF PipeInv
<1>2. UNCHANGED <<out, closed, config, pc, req, counter, requests>> /\ UNCHANGED Behind
  BY DEF gen, metrics, ch0
<1>3. out \in Seq(Items) /\ closed \in BOOLEAN
  BY <1>1 DEF PoolsInv, PoolInv, PoolTypes, S1
<1>4. GenInv' /\ Fresh'
  BY <1>1, <1>2, PastsStay DEF GenInv, Fresh
<1>5. CASE stagesDone' = stagesDone
  <2>1. /\ PoolsInv' /\ OutInv'
        /\ Size(W1, S1') = Size(W1, S1) /\ Size(W2, S2') = Size(W2, S2)
        /\ Size(W3, S3') = Size(W3, S3) /\ Size(W4, S4') = Size(W4, S4)
    BY <1>2, <1>3, <1>5, PoolsStay
  <2>2. InFlight' = InFlight
    BY <1>1, <1>2, <2>1, FlightChanges DEF Front
  <2>3. Balance'
    BY <1>1, <1>2, <1>5, <2>2 DEF Balance, Behind, tail
  <2>. QED
    BY <1>4, <2>1, <2>3 DEF PipeInv
<1>6. CASE stagesDone' = TRUE
  <2>1. S1' = S1
    BY <1>2 DEF S1, Behind, st1, ch1
  <2>2. /\ PoolInv(W1, S1, TRUE, Past1) /\ PoolInv(W2, S2, TRUE, Past2)
        /\ PoolInv(W3, S3, TRUE, Past3) /\ PoolInv(W4, S4, TRUE, Past4)
    BY <1>1, CancelledPool DEF PoolsInv
  <2>3. PoolsInv'
    BY <1>2, <1>6, <2>1, <2>2, PastsStay, PrimedPools
  <2>4. OutInv' /\ Balance'
    BY <1>1, <1>2, <1>6 DEF OutInv, Balance, Behind, tail
  <2>. QED
    BY <1>4, <2>3, <2>4 DEF PipeInv
<1>. QED
  BY <1>5, <1>6

-----------------------------------------------------------------------------
LEMMA IdlePool ==
  ASSUME NEW W, NEW s, W # {}, s.inp = <<>>, s.inC = FALSE, s.outp = <<>>, s.outC = FALSE,
         s.at = [w \in W |-> "select"], s.of = [w \in W |-> None],
         s.met \in [Instruments -> Nat]
  PROVE  PoolInv(W, s, FALSE, {}) /\ From(W, s, {}) = {} /\ Size(W, s) = 0
<1>1. BusyIn(W, s) = {} /\ HeldIn(W, s) = {}
  BY DEF BusyIn, HeldIn
<1>2. PoolTypes(W, s)
  <2>1. s.inp \in Seq(Items) /\ s.outp \in Seq(Items)
    BY EmptySeq
  <2>2. s.at \in [W -> Locations] /\ s.of \in [W -> Items \cup {None}]
    BY DEF Locations
  <2>3. \A w \in W : s.of[w] = None
    OBVIOUS
  <2>. QED
    BY <1>1, <2>1, <2>2, <2>3 DEF PoolTypes
<1>3. PoolShuts(W, s, FALSE)
  BY DEF PoolShuts
<1>4. PoolApart(W, s, {}) /\ From(W, s, {}) = {}
  BY <1>1, EmptyChannel DEF PoolApart, From
<1>5. Size(W, s) = 0
  BY <1>1, FS_EmptySet DEF Size
<1>. QED
  BY <1>2, <1>3, <1>4, <1>5 DEF PoolInv

LEMMA PipelineStarts ==
  ASSUME PipelineInit
  PROVE  PipeInv
<1>1. Init /\ stagesDone = FALSE /\ failed = {}
  BY DEF PipelineInit
<1>2. out = <<>> /\ closed = FALSE /\ received = <<>> /\ pc = "select" /\ counter = 0
  BY <1>1 DEF Init
<1>3. Past4 = {}
  BY <1>1, <1>2, EmptyChannel DEF Past4, Settled
<1>4. /\ c1 = <<>> /\ closed1 = FALSE /\ pc1 = [w \in W1 |-> "select"]
      /\ item1 = [w \in W1 |-> None] /\ metrics1 \in [Instruments -> Nat]
  BY DEF PipelineInit, Load!StageInit, Load!NoMetrics, Load!Instruments, W1,
         Instruments
<1>5. /\ c2 = <<>> /\ closed2 = FALSE /\ pc2 = [w \in W2 |-> "select"]
      /\ item2 = [w \in W2 |-> None] /\ metrics2 \in [Instruments -> Nat]
  BY DEF PipelineInit, Tokenize!StageInit, Tokenize!NoMetrics, Tokenize!Instruments, W2,
         Instruments
<1>6. /\ c3 = <<>> /\ closed3 = FALSE /\ pc3 = [w \in W3 |-> "select"]
      /\ item3 = [w \in W3 |-> None] /\ metrics3 \in [Instruments -> Nat]
  BY DEF PipelineInit, Embed!StageInit, Embed!NoMetrics, Embed!Instruments, W3,
         Instruments
<1>7. /\ c4 = <<>> /\ closed4 = FALSE /\ pc4 = [w \in W4 |-> "select"]
      /\ item4 = [w \in W4 |-> None] /\ metrics4 \in [Instruments -> Nat]
  BY DEF PipelineInit, Index!StageInit, Index!NoMetrics, Index!Instruments, W4,
         Instruments
<1>8. PoolInv(W4, S4, FALSE, Past4) /\ Past3 = {} /\ Size(W4, S4) = 0
  BY <1>3, <1>6, <1>7, WorkerSets, IdlePool DEF S4, Past3
<1>9. PoolInv(W3, S3, FALSE, Past3) /\ Past2 = {} /\ Size(W3, S3) = 0
  BY <1>5, <1>6, <1>8, WorkerSets, IdlePool DEF S3, Past2
<1>10. PoolInv(W2, S2, FALSE, Past2) /\ Past1 = {} /\ Size(W2, S2) = 0
  BY <1>4, <1>5, <1>9, WorkerSets, IdlePool DEF S2, Past1
<1>11. PoolInv(W1, S1, FALSE, Past1) /\ Past0 = {} /\ Size(W1, S1) = 0
  BY <1>2, <1>4, <1>10, WorkerSets, IdlePool DEF S1, Past0
<1>12. PoolsInv
  BY <1>1, <1>8, <1>9, <1>10, <1>11 DEF PoolsInv
<1>13. GenInv
  BY <1>1 DEF GenInv, Init
<1>14. Fresh
  BY <1>2, <1>11, EmptyChannel DEF Fresh
<1>15. OutInv
  BY <1>1, <1>2, EmptyChannel, FS_EmptySet DEF OutInv
<1>16. InFlight = 0
  BY <1>2, <1>8, <1>9, <1>10, <1>11, InFlightSum DEF Front
<1>17. Balance
  BY <1>1, <1>16, FS_EmptySet DEF Init, Balance
<1>. QED
  BY <1>12, <1>13, <1>14, <1>15, <1>17 DEF PipeInv

(***************************************************************************)
(* Every step of the pipeline keeps the invariant.                         *)
(***************************************************************************)
LEMMA PipelineStep ==
  ASSUME PipeInv, [PipelineNext]_pipelineVars
  PROVE  PipeInv'
<1>1. CASE LoadStep
  <2>1. PoolTypes(W1, S1) /\ Load!StageNext
    BY <1>1 DEF LoadStep, PipeInv, PoolsInv, PoolInv
  <2>2. /\ UNCHANGED stagesDone
        /\ PoolStep(W1, S1, S1', stagesDone) \/ \E v \in W1 : PoolFail(W1, S1, S1', v)
    BY <2>1, LoadIsPool
  <2>. QED
    BY <1>1, <2>2, LoadKeeps, FailureKeeps
<1>2. CASE StopGenerator \/ CancelAll \/ Finished \/ UNCHANGED pipelineVars
  <2>1. /\ UNCHANGED <<gen, ch0, Behind>>
        /\ stagesDone' = stagesDone \/ stagesDone' = TRUE
    BY <1>2 DEF StopGenerator, CancelAll, Finished, pipelineVars, Behind
  <2>. QED
    BY <2>1, NothingKeeps
<1>. QED
  BY <1>1, <1>2, GenerateKeeps, TokenizeKeeps, EmbedKeeps, IndexKeeps, PrintKeeps
     DEF PipelineNext

LEMMA PipelineInvariant == PipelineSpec => []PipeInv
<1>1. PipelineInit => PipeInv
  BY PipelineStarts
<1>2. PipeInv /\ [PipelineNext]_pipelineVars => PipeInv'
  BY PipelineStep
<1>. QED
  BY <1>1, <1>2, PTL DEF PipelineSpec

(***************************************************************************)
(* No number of requests, workers or slots makes two of one request, and   *)
(* unless the stages are cancelled each one counted by the generator is    *)
(* somewhere between it and main, printed, or failed to load.              *)
(***************************************************************************)
THEOREM RequestsReachMainOnce == PipelineSpec => []EndToEnd
<1>1. PipeInv => EndToEnd
  BY DEF PipeInv, OutInv, Balance, EndToEnd
<1>. QED
  BY <1>1, PipelineInvariant, PTL

(***************************************************************************)
(* A stage that has closed its output, and whose output is drained, is     *)
(* empty behind an empty closed input.                                     *)
(***************************************************************************)
LEMMA ClosedPool ==
  ASSUME NEW W, W # {}, NEW s, NEW D, PoolInv(W, s, FALSE, D), s.outC, s.outp = <<>>
  PROVE  s.inC /\ s.inp = <<>> /\ Size(W, s) = 0
<1>1. \A w \in W : s.at[w] = "done"
  BY DEF PoolInv, PoolShuts
<1>2. s.inC /\ s.inp = <<>>
  BY <1>1 DEF PoolInv, PoolShuts
<1>3. BusyIn(W, s) = {}
  BY <1>1 DEF BusyIn
<1>4. Size(W, s) = 0
  BY <1>3, FS_EmptySet DEF Size
<1>. QED
  BY <1>2, <1>4

(***************************************************************************)
(* When the end of the generator's channel has come through the stages     *)
(* and their last result is printed, every request that was counted has    *)
(* been printed or has failed: the end overtakes nothing.                  *)
(***************************************************************************)
THEOREM ShutdownLosesNothing == PipelineSpec => []NothingLostAtShutdown
<1>1. ASSUME PipeInv, closed4, c4 = <<>>, ~stagesDone
      PROVE  closed /\ requests = Len(received) + Cardinality(failed)
  <2>1. /\ PoolInv(W1, S1, FALSE, Past1) /\ PoolInv(W2, S2, FALSE, Past2)
        /\ PoolInv(W3, S3, FALSE, Past3) /\ PoolInv(W4, S4, FALSE, Past4)
    <3>1. stagesDone = FALSE
      BY <1>1 DEF PipeInv, GenInv
    <3>. QED
      BY <1>1, <3>1 DEF PipeInv, PoolsInv
  <2>2. closed3 /\ c3 = <<>> /\ Size(W4, S4) = 0
    <3>1. S4.outC /\ S4.outp = <<>> /\ W4 # {}
      BY <1>1, <2>1, WorkerSets DEF S4
    <3>2. S4.inC /\ S4.inp = <<>> /\ Size(W4, S4) = 0
      BY <2>1, <3>1, ClosedPool
    <3>. QED
      BY <3>2 DEF S4
  <2>3. closed2 /\ c2 = <<>> /\ Size(W3, S3) = 0
    <3>1. S3.outC /\ S3.outp = <<>> /\ W3 # {}
      BY <2>2, WorkerSets DEF S3
    <3>2. S3.inC /\ S3.inp = <<>> /\ Size(W3, S3) = 0
      BY <2>1, <3>1, ClosedPool
    <3>. QED
      BY <3>2 DEF S3
  <2>4. closed1 /\ c1 = <<>> /\ Size(W2, S2) = 0
    <3>1. S2.outC /\ S2.outp = <<>> /\ W2 # {}
      BY <2>3, WorkerSets DEF S2
    <3>2. S2.inC /\ S2.inp = <<>> /\ Size(W2, S2) = 0
      BY <2>1, <3>1, ClosedPool
    <3>. QED
      BY <3>2 DEF S2
  <2>5. closed /\ out = <<>> /\ Size(W1, S1) = 0
    <3>1. S1.outC /\ S1.outp = <<>> /\ W1 # {}
      BY <2>4, WorkerSets DEF S1
    <3>2. S1.inC /\ S1.inp = <<>> /\ Size(W1, S1) = 0
      BY <2>1, <3>1, ClosedPool
    <3>. QED
      BY <3>2 DEF S1
  <2>6. Front = 0
    BY <1>1, <2>5 DEF PipeInv, GenInv, Front
  <2>7. InFlight = 0
    BY <2>2, <2>3, <2>4, <2>5, <2>6, InFlightSum
  <2>8. Len(received) \in Nat /\ Cardinality(failed) \in Nat
    BY <1>1, LenProperties, FS_CardinalityType DEF PipeInv, OutInv
  <2>9. requests = Len(received) + Cardinality(failed) + InFlight
    BY <1>1 DEF PipeInv, Balance
  <2>. QED
    BY <2>5, <2>7, <2>8, <2>9
<1>2. PipeInv => NothingLostAtShutdown
  BY <1>1 DEF NothingLostAtShutdown
<1>. QED
  BY <1>2, PipelineInvariant, PTL
=============================================================================
