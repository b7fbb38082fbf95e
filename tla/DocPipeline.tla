----------------------------- MODULE DocPipeline -----------------------------
(***************************************************************************)
(* The document pipeline as applications/doc-pipeline/main.go wires it:    *)
(*                                                                         *)
(*   generator -c0-> load -c1-> tokenize -c2-> embed -c3-> index -c4-> main *)
(*                                                                         *)
(* The generator is that of LoadGenerator.tla, whose channel out is c0 and *)
(* whose received is what reaches main; each stage is an instance of       *)
(* Stage.tla.  Every channel is the output of one part and the input of    *)
(* the next.  main.go never cancels its contexts; here their owner may     *)
(* cancel the generator's (ctxDone) alone or both at any time.             *)
(***************************************************************************)
EXTENDS LoadGenerator, FiniteSets, Functions

CONSTANTS
  None,
  tokenizers    \* workers of the tokenize stage (3 in main.go)

\* All the requests there may be.
Items == UNION {Drawn(c, n) : c \in Configs, n \in 0 .. MaxRequests - 1}

ASSUME PipelineAssumption ==
  /\ None \notin Items
  /\ tokenizers \in Int

VARIABLES
  stagesDone,                                       \* the stages' context
  c1, c2, c3, c4,                                   \* contents of the channels
  closed1, closed2, closed3, closed4,
  pc1, item1, metrics1,                             \* load
  pc2, item2, metrics2,                             \* tokenize
  pc3, item3, metrics3,                             \* embed
  pc4, item4, metrics4,                             \* index
  failed                                            \* history: load errors

gen    == <<config, pc, req, counter, metrics>>
st1    == <<pc1, item1, metrics1>>
st2    == <<pc2, item2, metrics2>>
st3    == <<pc3, item3, metrics3>>
st4    == <<pc4, item4, metrics4>>
ch0    == <<out, closed>>
ch1    == <<c1, closed1>>
ch2    == <<c2, closed2>>
ch3    == <<c3, closed3>>
ch4    == <<c4, closed4>>
tail   == <<received, failed>>
pipelineVars ==
  <<gen, ctxDone, stagesDone, st1, st2, st3, st4, ch0, ch1, ch2, ch3, ch4, tail>>

Load == INSTANCE Stage WITH
          workers <- 1, bufferSize <- Capacity, Fallible <- TRUE, ctxDone <- stagesDone,
          in <- out, inClosed <- closed, out <- c1, outClosed <- closed1,
          pc <- pc1, item <- item1, metrics <- metrics1

Tokenize == INSTANCE Stage WITH
          workers <- tokenizers, bufferSize <- Capacity, Fallible <- FALSE,
          ctxDone <- stagesDone,
          in <- c1, inClosed <- closed1, out <- c2, outClosed <- closed2,
          pc <- pc2, item <- item2, metrics <- metrics2

Embed == INSTANCE Stage WITH
          workers <- 1, bufferSize <- Capacity, Fallible <- FALSE, ctxDone <- stagesDone,
          in <- c2, inClosed <- closed2, out <- c3, outClosed <- closed3,
          pc <- pc3, item <- item3, metrics <- metrics3

Index == INSTANCE Stage WITH
          workers <- 1, bufferSize <- Capacity, Fallible <- FALSE, ctxDone <- stagesDone,
          in <- c3, inClosed <- closed3, out <- c4, outClosed <- closed4,
          pc <- pc4, item <- item4, metrics <- metrics4

PipelineInit ==
  /\ Init
  /\ stagesDone = FALSE
  /\ Load!StageInit /\ Tokenize!StageInit /\ Embed!StageInit /\ Index!StageInit
  /\ failed = {}

-----------------------------------------------------------------------------
GenerateStep ==
  /\ Generate
  /\ UNCHANGED <<stagesDone, st1, st2, st3, st4, ch1, ch2, ch3, ch4, failed>>

LoadStep ==
  /\ Load!StageNext
  /\ failed' = IF metrics1'.errors = metrics1.errors THEN failed
               ELSE failed \cup {item1[1]}
  /\ UNCHANGED <<gen, ctxDone, st2, st3, st4, ch2, ch3, ch4, received>>

TokenizeStep ==
  /\ Tokenize!StageNext
  /\ UNCHANGED <<gen, ctxDone, st1, st3, st4, ch0, ch3, ch4, tail>>

EmbedStep ==
  /\ Embed!StageNext
  /\ UNCHANGED <<gen, ctxDone, st1, st2, st4, ch0, ch1, ch4, tail>>

IndexStep ==
  /\ Index!StageNext
  /\ UNCHANGED <<gen, ctxDone, st1, st2, st3, ch0, ch1, ch2, tail>>

\* for result := range out in main.
PrintResult ==
  /\ c4 # <<>>
  /\ received' = Append(received, Head(c4))
  /\ c4' = Tail(c4)
  /\ UNCHANGED <<gen, ctxDone, stagesDone, st1, st2, st3, st4, ch0, ch1, ch2, ch3, closed4,
                 failed>>

StopGenerator ==
  /\ ~ctxDone
  /\ ctxDone' = TRUE
  /\ UNCHANGED <<gen, stagesDone, st1, st2, st3, st4, ch0, ch1, ch2, ch3, ch4, tail>>

CancelAll ==
  /\ ~stagesDone
  /\ ctxDone' = TRUE
  /\ stagesDone' = TRUE
  /\ UNCHANGED <<gen, st1, st2, st3, st4, ch0, ch1, ch2, ch3, ch4, tail>>

\* The bound on the requests is reached, or the pipeline has shut down.
Finished ==
  /\ closed4 \/ (counter = MaxRequests /\ Len(received) + Cardinality(failed) = MaxRequests)
  /\ UNCHANGED pipelineVars

PipelineNext ==
  \/ GenerateStep \/ LoadStep \/ TokenizeStep \/ EmbedStep \/ IndexStep
  \/ PrintResult \/ StopGenerator \/ CancelAll \/ Finished

PipelineSpec == PipelineInit /\ [][PipelineNext]_pipelineVars

\* Every goroutine that can run does, and the functions return.
FairSpec ==
  /\ PipelineSpec
  /\ WF_pipelineVars(GenerateStep) /\ WF_pipelineVars(PrintResult)
  /\ WF_pipelineVars(LoadStep) /\ WF_pipelineVars(TokenizeStep)
  /\ WF_pipelineVars(EmbedStep) /\ WF_pipelineVars(IndexStep)

-----------------------------------------------------------------------------
\* Requests counted by the generator and not yet printed, failed or dropped.
InFlight ==
  (IF pc = "send" THEN 1 ELSE 0) + Len(out)
    + (Len(c1) + Cardinality(Load!Busy)) + (Len(c2) + Cardinality(Tokenize!Busy))
    + (Len(c3) + Cardinality(Embed!Busy)) + (Len(c4) + Cardinality(Index!Busy))

Unsent == IF pc = "send" THEN {req} ELSE {}

Settled == Range(received) \cup failed

(***************************************************************************)
(* End to end, a request the generator has counted is in flight, printed,  *)
(* or failed to load, once; unless the context is cancelled none is lost,  *)
(* and no number of stages in between makes two of one.                    *)
(***************************************************************************)
EndToEnd ==
  /\ IsInjective(received)
  /\ Range(received) \cap failed = {}
  /\ ~stagesDone => requests = Len(received) + Cardinality(failed) + InFlight

(***************************************************************************)
(* When the generator stops, the end of its channel travels through four   *)
(* stages behind the last request: main leaves its loop only after the     *)
(* result of every request that was sent.                                  *)
(***************************************************************************)
NothingLostAtShutdown ==
  closed4 /\ c4 = <<>> /\ ~stagesDone
    => closed /\ requests = Len(received) + Cardinality(failed)

(***************************************************************************)
(* Back pressure does not deadlock: every request that was counted is      *)
(* printed or fails, unless the stages are cancelled.                      *)
(***************************************************************************)
EveryRequestSettles ==
  \A i \in Items : (i \in Unsent) ~> (i \in Settled \/ stagesDone)

(***************************************************************************)
(* Stopping the generator alone ends the whole pipeline behind its last    *)
(* result. Cancelling the contexts ends the four stages; the generator     *)
(* then either ends too or, because its send does not watch the context    *)
(* and the load stage no longer receives, stays in the send on a full      *)
(* channel for ever.                                                       *)
(***************************************************************************)
StagesEnded       == closed1 /\ closed2 /\ closed3 /\ closed4
GeneratorStranded == pc = "send" /\ Len(out) = Capacity

PipelineEnds ==
  /\ ctxDone ~> (stagesDone \/ (closed4 /\ c4 = <<>>))
  /\ stagesDone ~> [](StagesEnded /\ (closed \/ GeneratorStranded))
=============================================================================
