----------------------------- MODULE LogProducer -----------------------------
(***************************************************************************)
(* The producer processes of applications/log-aggregator: Producer.Run     *)
(* (pkg/ipc/producer.go) makes an entry per tick until a timeout, and a    *)
(* publisher goroutine (pkg/publisher) writes the entries to the           *)
(* connection of one of five IPC types.  The i-th entry of producer p is   *)
(* <<p, i>>.  LogAggregator adds the process at the other end.             *)
(***************************************************************************)
EXTENDS Integers, SequencesExt

CONSTANTS
  Producers,
  None,
  IpcTypes,            \* values of the command line argument of both programs
  Erratic,             \* those the kernel may treat as unreliable
  producerBufferSize,  \* 100 in producer.go
  linkCapacity,        \* entries the kernel holds for a connection
  Msgs                 \* per producer: bound on the ticks before the timeout

\* The i-th entry of producer p is <<p, i>>.
Entries == UNION {{<<p, i>> : i \in 1 .. Msgs[p]} : p \in Producers}

ASSUME ProducerAssumption ==
  /\ IpcTypes \subseteq {"unixsock", "tcp", "unixgram", "udp", "fifo"}
  /\ Erratic \subseteq {"unixgram", "udp"}
  /\ producerBufferSize \in Nat \ {0} /\ linkCapacity \in Nat \ {0}
  /\ Msgs \in [Producers -> Nat]
  /\ None \notin Entries

VARIABLES
  ipcType, \* the argument both programs were started with
  erratic, \* datagrams are unreliable (README.md:10) and not what Linux makes of them
  stale,  \* an earlier aggregator has left its socket file behind
  prog,   \* Run: "select", "send", "wait", "exited", or "dead" by a panic
  made,   \* entries made so far
  ebuf,   \* events channel between Run and the publisher
  pub,    \* Publish: "dial", "range", "write" or "done"
  entry,  \* the entry Publish is writing, or None
  conn,   \* connection of the publisher: "none", "open" or "shut"
  link,   \* entries written and not yet read
  peer    \* other end: "absent" (nobody listens yet), "open" or "closed"

start     == <<ipcType, erratic, stale>>
procs     == <<start, prog, made, ebuf, pub, entry>>
prodVars  == <<procs, conn, link, peer>>

IsStream   == ipcType \in {"unixsock", "tcp"}
IsDatagram == ipcType \in {"unixgram", "udp"}

\* Nothing removes the file of a socket: the deferred Close of the listener
\* never runs, and that of a datagram socket leaves it.
HasSocketFile == ipcType \in {"unixsock", "unixgram"}

ProducerInit ==
  /\ ipcType \in IpcTypes
  /\ erratic \in BOOLEAN /\ (erratic => ipcType \in Erratic)
  /\ stale \in BOOLEAN /\ (stale => HasSocketFile)
  /\ prog = [p \in Producers |-> "select"]
  /\ made = [p \in Producers |-> 0]
  /\ ebuf = [p \in Producers |-> <<>>]
  /\ pub = [p \in Producers |-> "dial"]
  /\ entry = [p \in Producers |-> None]
  /\ conn = [p \in Producers |-> "none"]
  /\ link = [p \in Producers |-> <<>>]
  /\ peer = [p \in Producers |-> "absent"]

\* Sequence s with e at any place.
Insertions(s, e) == {InsertAt(s, i, e) : i \in 1 .. Len(s) + 1}

-----------------------------------------------------------------------------
\* Slips, told from the code by the properties of LogAggregator.
ExitAtOnce(p) ==
  /\ prog[p] = "wait"
  /\ prog' = [prog EXCEPT ![p] = "exited"]
  /\ pub' = [pub EXCEPT ![p] = "done"]
  /\ ebuf' = [ebuf EXCEPT ![p] = <<>>]
  /\ entry' = [entry EXCEPT ![p] = None]
  /\ conn' = [conn EXCEPT ![p] = "shut"]
  /\ UNCHANGED <<start, made, link, peer>>

WriteConcurrently(p) ==
  /\ pub[p] = "write"
  /\ peer[p] = "open"
  /\ Len(link[p]) < linkCapacity
  /\ \E s \in Insertions(link[p], entry[p]) : link' = [link EXCEPT ![p] = s]
  /\ pub' = [pub EXCEPT ![p] = "range"]
  /\ entry' = [entry EXCEPT ![p] = None]
  /\ UNCHANGED <<start, prog, made, ebuf, conn, peer>>

-----------------------------------------------------------------------------
\* case t := <-ticker.C: the entry is made, then sent.
Tick(p) ==
  /\ prog[p] = "select"
  /\ made[p] < Msgs[p]
  /\ made' = [made EXCEPT ![p] = @ + 1]
  /\ prog' = [prog EXCEPT ![p] = "send"]
  /\ UNCHANGED <<start, ebuf, pub, entry, conn, link, peer>>

\* events <- entry, which the timeout does not interrupt.
SendEntry(p) ==
  /\ prog[p] = "send"
  /\ Len(ebuf[p]) < producerBufferSize
  /\ ebuf' = [ebuf EXCEPT ![p] = Append(@, <<p, made[p]>>)]
  /\ prog' = [prog EXCEPT ![p] = "select"]
  /\ UNCHANGED <<start, made, pub, entry, conn, link, peer>>

\* case <-timeout: close(events); "wait" is wg.Wait.
Timeout(p) ==
  /\ prog[p] = "select"
  /\ prog' = [prog EXCEPT ![p] = "wait"]
  /\ UNCHANGED <<start, made, ebuf, pub, entry, conn, link, peer>>

\* Run returns and the process exits.
Exit(p) ==
  /\ prog[p] = "wait"
  /\ pub[p] = "done"
  /\ prog' = [prog EXCEPT ![p] = "exited"]
  /\ UNCHANGED <<start, made, ebuf, pub, entry, conn, link, peer>>

\* A panic or log.Fatal of the publisher ends the process.
Die(p) ==
  /\ prog' = [prog EXCEPT ![p] = "dead"]
  /\ pub' = [pub EXCEPT ![p] = "done"]
  /\ ebuf' = [ebuf EXCEPT ![p] = <<>>]
  /\ entry' = [entry EXCEPT ![p] = None]
  /\ conn' = [conn EXCEPT ![p] = IF @ = "open" THEN "shut" ELSE @]

\* Connecting needs a listener, opening the FIFO a reader; UDP needs neither.
Dial(p) ==
  /\ pub[p] = "dial"
  /\ peer[p] = "open" \/ ipcType = "udp"
  /\ pub' = [pub EXCEPT ![p] = "range"]
  /\ conn' = [conn EXCEPT ![p] = "open"]
  /\ UNCHANGED <<start, prog, made, ebuf, entry, link, peer>>

\* Nobody listens, or the FIFO does not exist.  A FIFO that exists without a
\* reader does not fail: opening it blocks.
DialFails(p) ==
  /\ pub[p] = "dial"
  /\ ipcType # "udp"
  /\ peer[p] = "absent" \/ (peer[p] = "closed" /\ ipcType # "fifo")
  /\ Die(p)
  /\ UNCHANGED <<start, made, link, peer>>

Take(p) ==
  /\ pub[p] = "range"
  /\ ebuf[p] # <<>>
  /\ entry' = [entry EXCEPT ![p] = Head(ebuf[p])]
  /\ ebuf' = [ebuf EXCEPT ![p] = Tail(@)]
  /\ pub' = [pub EXCEPT ![p] = "write"]
  /\ UNCHANGED <<start, prog, made, conn, link, peer>>

\* conn.Write blocks while the kernel's buffer is full.
Write(p) ==
  /\ pub[p] = "write"
  /\ peer[p] = "open"
  /\ Len(link[p]) < linkCapacity
  /\ link' = [link EXCEPT ![p] = Append(@, entry[p])]
  /\ pub' = [pub EXCEPT ![p] = "range"]
  /\ entry' = [entry EXCEPT ![p] = None]
  /\ UNCHANGED <<start, prog, made, ebuf, conn, peer>>

\* An erratic kernel delivers datagrams in any order, once or twice.
WriteErratic(p) ==
  /\ erratic
  /\ pub[p] = "write"
  /\ peer[p] = "open"
  /\ \E s \in Insertions(link[p], entry[p]) :
       \E t \in {s} \cup Insertions(s, entry[p]) :
         /\ Len(t) <= linkCapacity
         /\ link' = [link EXCEPT ![p] = t]
  /\ pub' = [pub EXCEPT ![p] = "range"]
  /\ entry' = [entry EXCEPT ![p] = None]
  /\ UNCHANGED <<start, prog, made, ebuf, conn, peer>>

\* Over UDP any datagram may be lost; a stream takes what its peer will not read.
WriteLost(p) ==
  /\ pub[p] = "write"
  /\ ipcType = "udp" \/ erratic \/ (IsStream /\ peer[p] = "closed")
  /\ pub' = [pub EXCEPT ![p] = "range"]
  /\ entry' = [entry EXCEPT ![p] = None]
  /\ UNCHANGED <<start, prog, made, ebuf, conn, link, peer>>

\* write panics on the first error.
WriteFails(p) ==
  /\ pub[p] = "write"
  /\ peer[p] # "open"
  /\ Die(p)
  /\ UNCHANGED <<start, made, link, peer>>

\* The range over events ends; the deferred Close, then wg.Done.
PublishEnds(p) ==
  /\ pub[p] = "range"
  /\ ebuf[p] = <<>> /\ prog[p] = "wait"
  /\ pub' = [pub EXCEPT ![p] = "done"]
  /\ conn' = [conn EXCEPT ![p] = "shut"]
  /\ UNCHANGED <<start, prog, made, ebuf, entry, link, peer>>

Run(p) == Tick(p) \/ SendEntry(p) \/ Timeout(p) \/ Exit(p)

Publish(p) ==
  \/ Dial(p) \/ DialFails(p) \/ Take(p)
  \/ Write(p) \/ WriteErratic(p) \/ WriteLost(p) \/ WriteFails(p) \/ PublishEnds(p)

-----------------------------------------------------------------------------
ProducerTypeOK ==
  /\ ipcType \in IpcTypes /\ erratic \in BOOLEAN /\ stale \in BOOLEAN
  /\ prog \in [Producers -> {"select", "send", "wait", "exited", "dead"}]
  /\ made \in [Producers -> Nat]
  /\ ebuf \in [Producers -> Seq(Entries)]
  /\ pub \in [Producers -> {"dial", "range", "write", "done"}]
  /\ entry \in [Producers -> Entries \cup {None}]
  /\ conn \in [Producers -> {"none", "open", "shut"}]
  /\ link \in [Producers -> Seq(Entries)]
  /\ peer \in [Producers -> {"absent", "open", "closed"}]
  /\ \A p \in Producers :
       /\ made[p] <= Msgs[p]
       /\ Len(ebuf[p]) <= producerBufferSize
       /\ Len(link[p]) <= linkCapacity
       /\ entry[p] # None <=> pub[p] = "write"
       /\ prog[p] \in {"exited", "dead"} => pub[p] = "done"
=============================================================================
