----------------------------- MODULE SigCounter -----------------------------
(***************************************************************************)
(* applications/sig-counter: a goroutine counts ticks until its context is *)
(* cancelled; main prints the count on SIGUSR1, resets it on SIGUSR2 and   *)
(* shuts down on SIGTERM or SIGINT.  The runtime delivers signals into a   *)
(* channel and drops those that find it full.                              *)
(***************************************************************************)
EXTENDS Integers, Sequences

CONSTANTS
  QueueSize,    \* capacity of sigs (4)
  MaxSignals,   \* bound on the signals sent
  MaxTicks      \* bound on the ticks

Signal == {"USR1", "USR2", "TERM"}   \* TERM stands for SIGINT too

VARIABLES
  sigs,      \* contents of the channel
  main,      \* "select", "wait" (for stop) or "returned"
  ctxDone,
  ticker,    \* the goroutine: "run", "close" (about to close stop) or "done"
  stopped,   \* close(stop) has run
  value,     \* t.value
  sent, ticks    \* signals sent and ticks counted so far

vars == <<sigs, main, ctxDone, ticker, stopped, value, sent, ticks>>

Init ==
  /\ sigs = <<>>
  /\ main = "select"
  /\ ctxDone = FALSE
  /\ ticker = "run"
  /\ stopped = FALSE
  /\ value = 0
  /\ sent = 0 /\ ticks = 0

-----------------------------------------------------------------------------
\* Slips, told from the code by the properties below.
TermWithoutCancel ==
  /\ main = "select"
  /\ sigs # <<>> /\ Head(sigs) = "TERM"
  /\ sigs' = Tail(sigs)
  /\ main' = "wait"
  /\ UNCHANGED <<ctxDone, ticker, stopped, value, sent, ticks>>

\* signal.Notify relays a signal without blocking.
Deliver(s) ==
  /\ main # "returned"
  /\ sent < MaxSignals
  /\ sent' = sent + 1
  /\ sigs' = IF Len(sigs) < QueueSize THEN Append(sigs, s) ELSE sigs
  /\ UNCHANGED <<main, ctxDone, ticker, stopped, value, ticks>>

\* case s := <-sigs.
Receive(s) == main = "select" /\ sigs # <<>> /\ Head(sigs) = s /\ sigs' = Tail(sigs)

Show ==
  /\ Receive("USR1")
  /\ UNCHANGED <<main, ctxDone, ticker, stopped, value, sent, ticks>>

Reset ==
  /\ Receive("USR2")
  /\ value' = 0
  /\ UNCHANGED <<main, ctxDone, ticker, stopped, sent, ticks>>

\* cancel(), then <-stop.  The case <-ctx.Done() of the select never runs:
\* nobody else cancels, and main does not come back to it.
Term ==
  /\ Receive("TERM")
  /\ ctxDone' = TRUE
  /\ main' = "wait"
  /\ UNCHANGED <<ticker, stopped, value, sent, ticks>>

Return ==
  /\ main = "wait"
  /\ stopped
  /\ main' = "returned"
  /\ UNCHANGED <<sigs, ctxDone, ticker, stopped, value, sent, ticks>>

\* Ticker.Run: with a tick and the end of the context both ready, either
\* case may be chosen.
Tick ==
  /\ ticker = "run"
  /\ ticks < MaxTicks
  /\ ticks' = ticks + 1
  /\ value' = value + 1
  /\ UNCHANGED <<sigs, main, ctxDone, ticker, stopped, sent>>

TickerReturns ==
  /\ ticker = "run"
  /\ ctxDone
  /\ ticker' = "close"
  /\ UNCHANGED <<sigs, main, ctxDone, stopped, value, sent, ticks>>

CloseStop ==
  /\ ticker = "close"
  /\ stopped' = TRUE
  /\ ticker' = "done"
  /\ UNCHANGED <<sigs, main, ctxDone, value, sent, ticks>>

Loop   == Show \/ Reset \/ Term \/ Return
Finish == TickerReturns \/ CloseStop

Next == (\E s \in Signal : Deliver(s)) \/ Loop \/ Tick \/ Finish

Spec == Init /\ [][Next]_vars

-----------------------------------------------------------------------------
TermWaiting == main = "select" /\ \E i \in DOMAIN sigs : sigs[i] = "TERM"

(***************************************************************************)
(* A terminating signal that finds room in the channel ends the program,   *)
(* and not before the counting goroutine has ended: no tick is counted     *)
(* after main has returned.  Only a signal that finds the channel full,    *)
(* whatever signals fill it, is lost.                                      *)
(***************************************************************************)
TermEndsProgram ==
  /\ [](main = "returned" => ticker = "done")
  /\ TermWaiting ~> main = "returned"
=============================================================================
