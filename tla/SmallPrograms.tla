--------------------------- MODULE SmallPrograms ---------------------------
(***************************************************************************)
(* The labs, wc-go, sig-counter and fs-monitor for model checking: each    *)
(* behaviour runs one of these programs, which share nothing.              *)
(***************************************************************************)
EXTENDS LabCounters, WordCount

CONSTANTS
  QueueSize, MaxSignals, MaxTicks,   \* sig-counter
  Dirs, Root, Parent,                \* fs-monitor
  Links, BatchSize, Bursts           \* lab 0102

ASSUME BurstsAssumption == IsFiniteSet(Bursts)

VARIABLES
  running,                                                   \* the program
  sigs, main, ctxDone, ticker, stopped, value, sent, ticks,  \* sig-counter
  fs, tracker, todo, reading, watched, events, logged,       \* fs-monitor
  tried, wire, conns, handler, toServer, toClient, burst, asking  \* lab 0102

Sig == INSTANCE SigCounter

Dir == INSTANCE DirTracker

Net == INSTANCE NetBurst

sigVars  == <<sigs, main, ctxDone, ticker, stopped, value, sent, ticks>>
dirVars  == <<fs, tracker, todo, reading, watched, events, logged>>
netVars  == <<tried, wire, conns, handler, toServer, toClient, burst, asking>>
progVars == <<running, vars, wordVars, sigVars, dirVars, netVars>>

\* The programs that do not run stay in one of their initial states.
ProgInit ==
  /\ running \in {"labs", "wc-go", "sig-counter", "fs-monitor", "netpoller"}
  /\ Init /\ (running # "labs" => mode = "atomic" /\ n = 1)
  /\ WordInit /\ (running # "wc-go" => text = <<>> /\ kind = "other" /\ source = "stdin")
  /\ Sig!Init
  /\ Dir!Init /\ (running # "fs-monitor" => fs = {Root})
  /\ Net!Init

LabStep ==
  running = "labs" /\ Next /\ UNCHANGED <<running, wordVars, sigVars, dirVars, netVars>>
WordStep ==
  running = "wc-go" /\ WordNext /\ UNCHANGED <<running, vars, sigVars, dirVars, netVars>>
SigStep ==
  /\ running = "sig-counter" /\ Sig!Next
  /\ UNCHANGED <<running, vars, wordVars, dirVars, netVars>>
DirStep ==
  /\ running = "fs-monitor" /\ Dir!Next
  /\ UNCHANGED <<running, vars, wordVars, sigVars, netVars>>
NetStep ==
  /\ running = "netpoller" /\ Net!Next
  /\ UNCHANGED <<running, vars, wordVars, sigVars, dirVars>>

ProgNext == LabStep \/ WordStep \/ SigStep \/ DirStep \/ NetStep

\* Every goroutine that can run does; samples, ticks, signals, bursts, broken
\* connections and changes of the file system need not come.
ProgFairness ==
  /\ \A w \in 0 .. MaxWorkers - 1 : WF_progVars(LabStep /\ w < n /\ Step(w))
  /\ WF_progVars(LabStep /\ (OwnerAdd \/ Start))
  /\ WF_progVars(SigStep /\ Sig!Loop)
  /\ WF_progVars(SigStep /\ Sig!Finish)
  /\ \A c \in Links : WF_progVars(NetStep /\ Net!Server(c))
  /\ \A b \in Bursts :
       /\ WF_progVars(NetStep /\ Net!EndBurst(b))
       /\ \A c \in Links : WF_progVars(NetStep /\ Net!Asker(b, c))

ProgSpec == ProgInit /\ [][ProgNext]_progVars /\ ProgFairness

-----------------------------------------------------------------------------
\* Alone in a ring of channels a participant counts once, and then waits for
\* itself to receive.
AloneInRing == mode = "ring" /\ n = 1 /\ counter = 1

(***************************************************************************)
(* The workloads of the labs run "forever": the counters lose no wake-up   *)
(* and get to any bound, and every burst over the held connections ends,   *)
(* whatever bursts it overlaps and whichever connections break.            *)
(***************************************************************************)
LabsGoOn ==
  /\ running = "labs" ~> (counter = MaxCount \/ AloneInRing)
  /\ Net!BurstsEnd

TermEndsProgram == Sig!TermEndsProgram

NothingUnseen == Dir!NothingUnseen
=============================================================================
