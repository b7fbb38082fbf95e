---------------------------- MODULE LogAggregator ----------------------------
(***************************************************************************)
(* The aggregator process of applications/log-aggregator                   *)
(* (pkg/ipc/aggregator.go, pkg/receiver, pkg/output) with its producers.   *)
(*                                                                         *)
(* Stream receivers run a goroutine per connection, the others read in the *)
(* goroutine of Receive.  All of them send on one channel; a collector     *)
(* goroutine writes what it receives through a buffer to the output file.  *)
(* An interrupt closes the channel under the receivers.                    *)
(***************************************************************************)
EXTENDS LogProducer, FiniteSets

CONSTANTS
  Oversized,             \* producers whose entries exceed what a receiver takes:
                         \* 64 KB per line, 8192 bytes per datagram
  aggregatorBufferSize,  \* 100 in aggregator.go
  MayInterrupt           \* whether the user may interrupt the aggregator

ASSUME AggregatorAssumption ==
  /\ Oversized \subseteq Producers
  /\ None \notin Producers
  /\ aggregatorBufferSize \in Nat \ {0}
  /\ MayInterrupt \in BOOLEAN

\* The goroutines of the connections of a stream, or else the goroutine of
\* Receive, for which None stands.  Those that are not needed stay idle.
Readers == Producers \cup {None}

VARIABLES
  agg,       \* the process: "up", "exited", or "dead" by a panic or signal
  notified,  \* signal.Notify has been called
  events,    \* the channel of Run
  closed,    \* close(events) has been called
  rd,        \* per reader: "idle", "read", "send", "eof" or "done"
  log,       \* per reader: the entry it is sending, or None
  out,       \* collector: "create", "range", "flush", "close" or "done"
  written,   \* what it has written to its bufio.Writer, in order
  inFile     \* how much of that has reached the file

aggVars == <<agg, notified, events, closed, rd, log, out, written, inFile>>
vars    == <<prodVars, aggVars>>

Init ==
  /\ ProducerInit
  /\ agg = "up"
  /\ notified = FALSE
  /\ events = <<>>
  /\ closed = FALSE
  /\ rd = [r \in Readers |-> "idle"]
  /\ log = [r \in Readers |-> None]
  /\ out = "create"
  /\ written = <<>>
  /\ inFile = 0

-----------------------------------------------------------------------------
\* The end of the process closes its ends of the connections.
End(state) ==
  /\ agg' = state
  /\ peer' = [p \in Producers |-> "closed"]

\* Whose entries reader r reads.
Sources(r) == IF IsStream THEN {r} ELSE Producers

Give(r, loc, e) ==
  /\ rd' = [rd EXCEPT ![r] = loc]
  /\ log' = [log EXCEPT ![r] = e]

-----------------------------------------------------------------------------
\* Slips, told from the code by the properties below.
DoneBeforeFlush ==
  /\ agg = "up" /\ out = "flush"
  /\ out' = "close"
  /\ UNCHANGED <<prodVars, agg, notified, events, closed, rd, log, written, inFile>>

ExitAfterReaders ==
  /\ agg = "up" /\ out = "done"
  /\ \A r \in Readers : rd[r] = "done"
  /\ End("exited")
  /\ UNCHANGED <<procs, conn, link, notified, events, closed, rd, log, out, written, inFile>>

TooLongPanics(r) ==
  /\ agg = "up" /\ rd[r] = "read"
  /\ \E p \in Sources(r) \cap Oversized :
       /\ link[p] # <<>>
       /\ link' = [link EXCEPT ![p] = Tail(@)]
  /\ End("dead")
  /\ UNCHANGED <<procs, conn, notified, events, closed, rd, log, out, written, inFile>>

-----------------------------------------------------------------------------
\* signal.Notify in a goroutine of its own.
Notify ==
  /\ agg = "up" /\ ~notified
  /\ notified' = TRUE
  /\ UNCHANGED <<prodVars, agg, events, closed, rd, log, out, written, inFile>>

\* SIGINT ends a process that does not ask for it.
Kill ==
  /\ MayInterrupt
  /\ agg = "up" /\ ~notified
  /\ End("dead")
  /\ UNCHANGED <<procs, conn, link, notified, events, closed, rd, log, out, written, inFile>>

Interrupt ==
  /\ MayInterrupt
  /\ agg = "up" /\ notified /\ ~closed
  /\ closed' = TRUE
  /\ UNCHANGED <<prodVars, agg, notified, events, rd, log, out, written, inFile>>

\* Receive begins to listen or makes the FIFO, if there is none, and opens it.
Listen ==
  /\ agg = "up" /\ ~stale
  /\ \A p \in Producers : peer[p] = "absent"
  /\ peer' = [p \in Producers |-> "open"]
  /\ rd' = IF IsStream THEN rd ELSE [rd EXCEPT ![None] = "read"]
  /\ UNCHANGED <<procs, conn, link, agg, notified, events, closed, log, out, written,
                 inFile>>

\* The address is in use: Receive returns the error, and Run panics on it.
ListenFails ==
  /\ agg = "up" /\ stale
  /\ End("dead")
  /\ UNCHANGED <<procs, conn, link, notified, events, closed, rd, log, out, written, inFile>>

\* handleConnections starts a goroutine for the connection.
Accept(p) ==
  /\ IsStream
  /\ agg = "up" /\ rd[p] = "idle"
  /\ conn[p] # "none"
  /\ rd' = [rd EXCEPT ![p] = "read"]
  /\ UNCHANGED <<prodVars, agg, notified, events, closed, log, out, written, inFile>>

\* A line or datagram that unmarshals.
ReadEntry(r) ==
  /\ agg = "up" /\ rd[r] = "read"
  /\ \E p \in Sources(r) \ Oversized :
       /\ link[p] # <<>>
       /\ Give(r, "send", Head(link[p]))
       /\ link' = [link EXCEPT ![p] = Tail(@)]
  /\ UNCHANGED <<procs, conn, peer, agg, notified, events, closed, out, written, inFile>>

\* A datagram cut off at 8192 bytes does not unmarshal and is skipped.
SkipEntry(r) ==
  /\ IsDatagram
  /\ agg = "up" /\ rd[r] = "read"
  /\ \E p \in Sources(r) \cap Oversized :
       /\ link[p] # <<>>
       /\ link' = [link EXCEPT ![p] = Tail(@)]
  /\ UNCHANGED <<procs, conn, peer, aggVars>>

\* A line of 64 KB stops the scanner.  The goroutine of a connection closes
\* it, whatever is left in it.
TooLong(r) ==
  /\ IsStream
  /\ agg = "up" /\ rd[r] = "read"
  /\ r \in Oversized /\ link[r] # <<>>
  /\ link' = [link EXCEPT ![r] = <<>>]
  /\ peer' = [peer EXCEPT ![r] = "closed"]
  /\ rd' = [rd EXCEPT ![r] = "done"]
  /\ UNCHANGED <<procs, conn, agg, notified, events, closed, log, out, written, inFile>>

\* The FIFO receiver returns scanner.Err(), and Run panics on it.
TooLongForFIFO ==
  /\ ipcType = "fifo"
  /\ agg = "up" /\ rd[None] = "read"
  /\ \E p \in Oversized : link[p] # <<>>
  /\ End("dead")
  /\ UNCHANGED <<procs, conn, link, notified, events, closed, rd, log, out, written, inFile>>

\* End of the stream; of the FIFO once every writer so far has closed it.
ReadEOF(r) ==
  /\ ~IsDatagram
  /\ agg = "up" /\ rd[r] = "read"
  /\ \A p \in Sources(r) : conn[p] # "open" /\ link[p] = <<>>
  /\ \E p \in Sources(r) : conn[p] = "shut"
  /\ rd' = [rd EXCEPT ![r] = "eof"]
  /\ UNCHANGED <<prodVars, agg, notified, events, closed, log, out, written, inFile>>

\* The deferred Close of the reader.
CloseReader(r) ==
  /\ agg = "up" /\ rd[r] = "eof"
  /\ rd' = [rd EXCEPT ![r] = "done"]
  /\ peer' = [p \in Producers |-> IF p \in Sources(r) THEN "closed" ELSE peer[p]]
  /\ UNCHANGED <<procs, conn, link, agg, notified, events, closed, log, out, written,
                 inFile>>

\* events <- logEntry.
SendEvent(r) ==
  /\ agg = "up" /\ rd[r] = "send"
  /\ ~closed
  /\ Len(events) < aggregatorBufferSize
  /\ events' = Append(events, log[r])
  /\ Give(r, "read", None)
  /\ UNCHANGED <<prodVars, agg, notified, closed, out, written, inFile>>

\* On the closed channel the send panics, also one that was blocked.
SendPanics(r) ==
  /\ agg = "up" /\ rd[r] = "send"
  /\ closed
  /\ End("dead")
  /\ UNCHANGED <<procs, conn, link, notified, events, closed, rd, log, out, written, inFile>>

-----------------------------------------------------------------------------
\* launchFileOutputCollector and FileOutput.Write.
Create ==
  /\ agg = "up" /\ out = "create"
  /\ out' = "range"
  /\ UNCHANGED <<prodVars, agg, notified, events, closed, rd, log, written, inFile>>

\* The bufio.Writer passes on to the file what it cannot hold.
WriteEvent ==
  /\ agg = "up" /\ out = "range"
  /\ events # <<>>
  /\ written' = Append(written, Head(events))
  /\ events' = Tail(events)
  /\ inFile' \in inFile .. Len(written')
  /\ UNCHANGED <<prodVars, agg, notified, closed, rd, log, out>>

EventsEnd ==
  /\ agg = "up" /\ out = "range"
  /\ events = <<>> /\ closed
  /\ out' = "flush"
  /\ UNCHANGED <<prodVars, agg, notified, events, closed, rd, log, written, inFile>>

\* The deferred calls: Flush, then Close,
Flush ==
  /\ agg = "up" /\ out = "flush"
  /\ inFile' = Len(written)
  /\ out' = "close"
  /\ UNCHANGED <<prodVars, agg, notified, events, closed, rd, log, written>>

\* then close(done).
CloseDone ==
  /\ agg = "up" /\ out = "close"
  /\ out' = "done"
  /\ UNCHANGED <<prodVars, agg, notified, events, closed, rd, log, written, inFile>>

\* <-done in Run: main returns, whatever the readers are doing.
MainExits ==
  /\ agg = "up" /\ out = "done"
  /\ End("exited")
  /\ UNCHANGED <<procs, conn, link, notified, events, closed, rd, log, out, written, inFile>>

Reader(r) ==
  \/ ReadEntry(r) \/ SkipEntry(r) \/ TooLong(r) \/ ReadEOF(r) \/ CloseReader(r)
  \/ SendEvent(r) \/ SendPanics(r)

Collect == Create \/ WriteEvent \/ EventsEnd \/ Flush \/ CloseDone \/ MainExits

Producer(p) == (Run(p) \/ Publish(p)) /\ UNCHANGED aggVars

Next ==
  \/ Notify \/ Kill \/ Interrupt \/ Listen \/ ListenFails \/ TooLongForFIFO
  \/ \E r \in Readers : Reader(r)
  \/ \E p \in Producers : Producer(p) \/ Accept(p)
  \/ Collect

Spec == Init /\ [][Next]_vars

\* Every goroutine that can run does, and the timeout fires.  Tick is left
\* out: nothing depends on it.
FairSpec ==
  /\ Spec
  /\ WF_vars(Listen) /\ WF_vars(ListenFails) /\ WF_vars(TooLongForFIFO) /\ WF_vars(Collect)
  /\ \A r \in Readers : WF_vars(Reader(r))
  /\ \A p \in Producers :
       /\ WF_vars(Accept(p))
       /\ WF_vars((SendEntry(p) \/ Timeout(p) \/ Exit(p)) /\ UNCHANGED aggVars)
       /\ WF_vars(Publish(p) /\ UNCHANGED aggVars)

-----------------------------------------------------------------------------
(***************************************************************************)
(* Type invariant.                                                         *)
(***************************************************************************)
TypeOK ==
  /\ ProducerTypeOK
  /\ agg \in {"up", "exited", "dead"}
  /\ notified \in BOOLEAN /\ closed \in BOOLEAN
  /\ events \in Seq(Entries) /\ Len(events) <= aggregatorBufferSize
  /\ rd \in [Readers -> {"idle", "read", "send", "eof", "done"}]
  /\ log \in [Readers -> Entries \cup {None}]
  /\ \A r \in Readers : log[r] # None <=> rd[r] = "send"
  /\ out \in {"create", "range", "flush", "close", "done"}
  /\ written \in Seq(Entries)
  /\ inFile \in 0 .. Len(written)

ReaderOf(p) == IF IsStream THEN p ELSE None

Opt(e) == IF e = None THEN <<>> ELSE <<e>>

\* All that is on the way from the ticker of p to the file, the newest last:
\* what the output has taken from anybody, and what has still to be read.
Path(p) ==
  written \o events \o Opt(log[ReaderOf(p)]) \o link[p] \o Opt(entry[p]) \o ebuf[p]
    \o (IF prog[p] = "send" THEN <<<<p, made[p]>>>> ELSE <<>>)

(***************************************************************************)
(* The entries of one producer keep their order, and none is there twice,  *)
(* through two channels, the kernel and a goroutine per connection, also   *)
(* when UDP loses datagrams and when processes die on the way; provided    *)
(* the kernel keeps the order of datagrams, which README.md:10 denies.     *)
(***************************************************************************)
InOrder ==
  ~erratic => \A p \in Producers :
    LET way == Path(p) IN
    \A i, j \in DOMAIN way :
      i < j /\ way[i][1] = p /\ way[j][1] = p => way[i][2] < way[j][2]

(***************************************************************************)
(* Nothing is lost on the way of a producer that does not panic, not even  *)
(* when it exits at its timeout, while the aggregator is up: except over   *)
(* UDP, over datagram sockets as README.md:10 has them, after the FIFO has *)
(* ended for its reader, and with entries larger than the receivers take.  *)
(***************************************************************************)
NothingLost ==
  \A p \in Producers \ Oversized :
    \/ prog[p] = "dead" \/ agg # "up" \/ ipcType = "udp" \/ erratic
    \/ ipcType = "fifo" /\ rd[None] \in {"eof", "done"}
    \/ {<<p, i>> : i \in 1 .. made[p]} \subseteq ToSet(Path(p))

(***************************************************************************)
(* When the aggregator exits by itself, all it took from the channel is in *)
(* the file, and it has taken everything: main waits for done, which is    *)
(* closed only after the buffer was flushed.                               *)
(***************************************************************************)
CleanExit == agg = "exited" => events = <<>> /\ inFile = Len(written)

(***************************************************************************)
(* Both programs end. An interrupt ends the aggregator, by exit or panic,  *)
(* whatever its goroutines are blocked on, and so does a socket file that  *)
(* was left behind: an aggregator that cannot listen does not stay up to   *)
(* receive nothing.  Producers end, whether anybody listens or reads or    *)
(* not, over every IPC type but the FIFO, where opening for a reader that  *)
(* has left blocks.                                                        *)
(***************************************************************************)
ProgramsEnd ==
  /\ closed \/ stale ~> agg # "up"
  /\ \A p \in Producers : <>(prog[p] \in {"exited", "dead"} \/ ipcType = "fifo")

(***************************************************************************)
(* Every entry of a producer that lives gets to the output, whatever other *)
(* producers send: over a stream, one whose lines are too long for the     *)
(* scanner loses only its own connection.  Excepted are an interrupt, UDP, *)
(* datagram sockets as README.md:10 has them, and the FIFO once it has     *)
(* ended or has made the aggregator panic.                                 *)
(***************************************************************************)
GivenUp ==
  \/ closed \/ (agg # "up" /\ ~notified)
  \/ ipcType = "udp" \/ erratic
  \/ ipcType = "fifo" /\ (agg # "up" \/ rd[None] \in {"eof", "done"})

EveryEntryWritten ==
  \A p \in Producers \ Oversized : \A i \in 1 .. Msgs[p] :
    (made[p] >= i) ~> (<<p, i>> \in ToSet(written) \/ prog[p] = "dead" \/ GivenUp)

(***************************************************************************)
(* README.md: "The aggregator will write all received logs to a local      *)
(* file", of an aggregator that ends because it was interrupted.           *)
(***************************************************************************)
ReceivedIsWritten ==
  closed /\ agg # "up" =>
    /\ inFile = Len(written) /\ events = <<>>
    /\ \A r \in Readers : log[r] = None
=============================================================================
