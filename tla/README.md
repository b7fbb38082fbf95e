# Verification of performance-handbook

TLA+ models of the concurrent programs of this repository, the TLC runs that
check them on small instances, and theorems about them that TLAPS checks for
every value of the constants. `PROJECT.json` is the index: components, runs,
mutants, the line range each definition translates, findings, hazards and
theorems.

## 1. Inventory

The repository holds small Go applications and labs built to be measured. They
do not call each other. Three applications have concurrency that their tests
hardly reach and make up most of this project; the smaller programs follow under
"The rest". Paths below are relative to `src/applications/` unless they start
with `src/labs` or `labs`.

### doc-pipeline

| part | state | operations | interacts by | hard about it |
|---|---|---|---|---|
| stage (`internal/pipeline/stage.go`) | output channel, worker goroutines, three instruments | `NewStage`, `Run` | channels up- and downstream, context | two nested selects, skip on error, who closes the output and when |
| load generator (`internal/load/load_generator.go`) | counter, rng, channel | `Run`, `generateRandomDataLoadingRequest` | ticker, context, channel | clamps feeding `rng.Intn`; a send that ignores the context |
| embedding index (`internal/index/index.go`) | HNSW graph under an RWMutex | `DedupAndIndex` | called by workers of the index stage | check under the read lock, act under the write lock |
| ingest, tokenize, embed | none | `LoadData`, `Tokenize`, `Embed` | called by workers | slices past the end of the file; terms that collide; texts without letters, whose norm is 0 |
| wiring (`main.go`) | the contexts | builds generator and four stages, prints results | channels | back pressure and shutdown across five channels |
| telemetry | counters | OpenTelemetry calls | called by all parts | not modelled |

Correct means: no value is lost, doubled or miscounted; the output closes once,
after the last send; cancellation and the end of the input travel through; every
drawn slice lies in the file; duplicates are dropped only for something that was
kept.

### reverse-proxy

| part | state | operations | interacts by | hard about it |
|---|---|---|---|---|
| goroutine engine (`pkg/engine`) | two goroutines per client | `Serve` | TCP streams, connector | nobody joins the second goroutine; order of the deferred calls |
| pool and connectors (`pkg/pool`, `pkg/connector`) | buffered channel of connections | `Get`, `Return` | called by the engines | a lease must be exclusive and end |
| epoll engine (`pkg/engine`) | map of descriptors, epoll instance | `Serve`, `Loop`, `handleEvent`, `closeConn`, `fdFromConn` | kernel, accept loop, garbage collector | stale events, reuse of descriptor numbers, edge triggering, finalisers |
| `cmd/proxy`, `cmd/echo`, `cmd/client` | | accept loop, echo, requests | TCP | `Serve` of the epoll engine runs in the accept loop |

Correct means: a client receives the echo of what it sent and nothing else; a
backend connection has one holder; connections end and are handed back.

### log-aggregator

| part | state | operations | interacts by | hard about it |
|---|---|---|---|---|
| producer (`pkg/ipc/producer.go`, `pkg/publisher`) | channel of 100 entries, connection | `Run`, `Publish` | IPC, timer | timeout with entries still buffered; a publisher that blocks or panics |
| aggregator (`pkg/ipc/aggregator.go`) | channel of 100 entries, `done` | `Run` | SIGINT, goroutines | the signal closes a channel others send on |
| receivers (`pkg/receiver`) | connections | `Receive` of five types | kernel buffers | limits of scanner and datagram buffer, end of a FIFO |
| file output (`pkg/output`) | bufio.Writer | `Write` | file | what is buffered when the process dies |
| registry (`pkg/ipc/ipc_repo.go`) | map of prebuilt pairs | lookups | | |

Correct means: the entries of a producer arrive once and in order; none is lost
while the processes are up; a clean exit leaves a complete file; programs end.

### The rest

| program | state | operations | hard about it |
|---|---|---|---|
| `wc-go` | reader, line processors with a counter each | `InputProcessor.Run` in five ways, `Process`, `cmd.Run` | line ends across reads, carriage returns, a last line without a newline, a read that fails half way |
| `sig-counter` | channel of signals, context, counting goroutine | `main`, `Ticker.Run` | signals dropped when the channel is full; cancel, wait and close in that order |
| `fs-monitor` | inotify watches | `NewTracker`, `addDirRecursive`, `Run` | directories come and go while the walk watches and lists them |
| labs 0104 and 0105, counters and rings | one counter under a lock, an atomic, an owner goroutine or a token | goroutines of `counter.go` (twice) and `pingpong.go`, main's samples | increments lost between load and store; wake-ups lost between participants |
| lab 0102, netpoller bursts | held connections, a goroutine per connection and burst | `client.go`, `server.go` | overlapping bursts read each other's answers; connections break |
| `db-query`, telemetry, labs 0101, 0103, 0201 to 0205, dashboards, bpftrace | | | not modelled, see section 7 |

Correct means: equal counts whichever way the input is read and no partial count
printed; a terminating signal ends the program after its goroutine; no directory
is made unseen; no increment or wake-up is lost; every burst ends.

## 2. Modules and code

### Stage, StageEnv, ItemFlow

`Stage` is `stage.go` alone. A worker is at `select` (outer select), `fn` (inside
`s.fn`), `send` (inner select) or `done`; each case of a select is an action and
the closing goroutine is `CloseOut`. The metrics are updated in the step whose
code updates them. The input channel, its end and the context are variables
that others change: `StageEnv` adds a producer, a consumer and an owner of the
context, as `stage_test.go` does, with histories of what became of each value.
Values are the numbers 1 .. N, so duplicates and order can be told.

`ItemFlow` is what a stage promises without channels or workers: a value is
accepted, then settles once as a result, a skipped error or, after a
cancellation only, a dropped result; without a cancellation the output closes
only when nothing is pending. `StageEnv!ImplementsFlow` is the refinement; the
mapping reads the fate of a value off the place it is in.

### LoadGenerator

The two arms of the select and the send are actions; the random draw is a
nondeterministic choice from exactly the values the code can draw (`Drawn`).
An ID stands for `IDPrefix-counter`. The channel's capacity is a constant (the
code has the literal 100 and does not use its `bufferSize` field). The interval
of the ticker is abstracted: a tick may come at any time.

### DedupIndex, AtomicDedup

`Search` is the section under the read lock, `Index` the one under the write
lock (`Reject` takes none). Embeddings are abstracted to a symmetric relation
`Similar`. The graph library is external and approximate: a search of an index
that is not empty returns some document, not always the nearest one. Two
histories say what may excuse a duplicate: `overlapped`, the pairs of documents
whose calls were open at the same time, and `missed`, the documents whose search
overlooked a similar one. `AtomicDedup` judges a document in one step; documents
may be excused, and only those may be added next to a similar one.

### Documents, EmbeddedIndex, MCDedupIndex

`Documents` has `LoadData`, `Tokenize`, `Embed` and the comparison with the
threshold as functions of a file and a request. `EmbeddedIndex` joins it to
`DedupIndex`: the documents are slices of the file, and `Similar` is what the
comparison of their vectors says (`EmbeddedAssumption`, which also says that hashes
are unsigned and that the dimension is even, as `uint64` and 1024 are in the code).
`MCDedupIndex` gives it a file of 11 characters and a hash with a collision, and
cuts five documents out of it, so that the chain of near copies, the text that is
there twice in different case, and the one without a letter go through the code's
own arithmetic.

### DocPipeline

Extends `LoadGenerator` by four instances of `Stage`, the output variable of each
being the input of the next, and by the printing loop of `main` in place of the
generator's consumer: `out` is the first channel, `received` what main has printed.
Load may fail on a request, the other three functions never return an error.
`main.go` never cancels its contexts; in the model their owner may cancel the
generator's (`ctxDone`) alone (`StopGenerator`) or all of them, the stages'
(`stagesDone`) included (`CancelAll`), at any time. `MCDocPipeline` gives it a file
of two bytes and requests for all of it.

### GoroutineProxy

Per client the handler (`h`) and writer (`w`) goroutines of `Serve`, each an
`io.Copy` that alternates a read and a write with one message in hand, the
client program, and per backend connection the echo server. A stream is a
sequence of messages <<client, number>>. `poolSize`, chosen at
the start, is the size of the pool, or 0 for the dial connector.
`BackendMayClose` lets the backend end connections and, with the dial connector,
refuse them. Writing to a peer that has closed may succeed or fail.

### EpollProxy

The accept loop inside `Serve` (`serve`), the event loop (`loop`, `batch`), and
the kernel as far as they depend on it:

- a descriptor number refers to a socket or is free. Every accept, dial and dup
  takes the lowest free one (`Take`): the one inside the `net.Conn` of a client or
  backend connection (`own`) and the two duplicates that Serve registers
  (`clientFd`, `backendFd`);
- the interest list holds pairs <<descriptor, socket>>; an entry goes away when
  the *socket* closes, that is when the `net.Conn` and every duplicate are
  closed, not when its descriptor number is. Closing the duplicate alone leaves
  an entry that still reports events under that number;
- an edge is reported once; a batch of `EpollWait` is a set of events with the
  readability each had at that moment;
- the garbage collector may finalise the unreachable `os.File` of a duplicate
  and a `net.Conn` that `Serve` no longer uses, for the sockets in `Collected`.
  Both close a *number*, whatever it refers to by then;
- dup and EPOLL_CTL_ADD fail on a number that has been closed, and `Serve` then
  returns the error (`DupFails`, `AddClient`, `AddBackend`).

Two histories say who may be hurt. `reused`: the clients that `fdFromConn` gave a
number it had returned before. `tangled`: the sockets that had a number in use (in
a `net.Conn` or in a ProxyConn not yet handed to `closeConn`) when the kernel gave
it out again, those that had it and the one that got it. Without a collector nothing is
tangled (`ExactInv` of the proofs).

### LogProducer, LogAggregator

`LogProducer` is the producer processes: the select of `Run` (`prog`) and the
publisher goroutine (`pub`) with the channel between them and the connection.
`LogAggregator` extends it with the other process: readers (one per
connection for streams, the goroutine of `Receive` otherwise), the channel, the
signal goroutine, the collector with its buffered writer and the order of its
deferred calls. `ipcType`, chosen at the start, is one of five. `stale`, chosen with it for the
two kinds that make a socket file, says that an earlier aggregator has left one:
nothing removes it after an interrupt, `Listen` then fails, and `Run` panics
(`aggregator.go:38`). A line or datagram is one entry;
a connection (`link`) is a sequence of them. `erratic`, chosen at the start too,
says how the kernel treats the datagrams of the run: section 6. Whether an entry is too
large for the receiver is a property of the producer
(`Oversized`), as message size is an argument of the producer program. A panic
anywhere ends the process (`dead`), and what is in its channels and buffers with
it.

### WordCount

One run of `wc-go`: a processor, an input of letters, spaces, line ends and
characters of two bytes, and a reader that delivers it in pieces of any size and
may fail. "scanner" and "mmap2" go through a `bufio.Scanner` with a limit on
lines; "upfront", "buffering" and "mmap" cut a byte slice. The input stays in `text`;
positions say how much has been read and how much passed to the line processors.

### LabCounters, TokenRing

The six mechanisms by which the goroutines of labs 0104 and 0105 increment one
counter, one per `mode`, a worker's program counter going through the statements
of its loop. `TokenRing` is the promise: one increment at a time, and in the two
rings in turn.

### NetBurst

Lab 0102: the client's dialling in batches, the server's goroutine per connection
(read a byte, work, write a byte) and the goroutines of overlapping `/burst`
requests, which share the held connections. A connection may break at any time.
Bytes on the way are counted, since all are alike.

### SigCounter, DirTracker

`SigCounter` is main's loop and the counting goroutine of `sig-counter`, with the
runtime that delivers signals into a channel or drops them. `DirTracker` is the
walk and the loop of `fs-monitor`, with other processes that make and remove
directories between any two steps.

### SmallPrograms

Runs one of the programs WordCount, LabCounters, NetBurst, SigCounter and
DirTracker per behaviour. They share nothing and are combined only to be checked
together. `MCSmallPrograms` gives `DirTracker` its tree.

## 3. Runs

Every passing run has a mutant per property: the named definition is replaced by
a plausible slip, which stands before it in the module under "Slips", and the
property must then fail.

| run | question | bounds | distinct states |
|---|---|---|---|
| StagePool | no loss, no duplication, bounded overtaking, clean close, metrics, refinement; the output closes on cancellation with nobody draining and on the end of the input if drained | 3 workers, 4 values, capacities 2 and 1 | 43,610 |
| LoadRequests | slices fit, requests numbered without gaps and in step with the metrics, under all 18 combinations of clamps | 3 requests, capacity 1, files of 0, 2, 3 bytes | 4,382 |
| DedupRace | what the gap between the locks and a search that misses can do; undisturbed calls are atomic; the same text is indexed once | 3 callers, 5 documents cut from a file, a chain y - x - z, a duplicate, one without letters | 2,532,565 |
| Pipeline | end to end balance, back pressure, shutdown by the generator, cancellation of everything | 2 requests, 2 tokenizers, capacity 1 | 42,601 |
| ProxyGoroutine | leases, mixing of bytes, every message echoed, ends | dial, and a pool of 1; 2 clients, 2 and 1 messages | 111,561 |
| ProxyPoolReturn | *violation*: `reverse-proxy/README.md:7` | 2 clients, a pool of 1 | |
| EpollRelay | stale events, reuse of descriptors, harm confined to reused numbers, one read per edge suffices | both connectors, 2 clients, 8 numbers, 2 requests | 505,195 |
| EpollGC | the collector finalises the sockets of one client and one backend connection under open ProxyConns: the other client keeps its entries | both connectors, 2 clients that stay, 8 numbers, 1 request | 3,352,010 |
| EpollDup | *violation*: comment at `engine.go:185` | 1 client | |
| LogRelay | order, loss, complete file, isolation of producers, ends, also over a stale socket file; the last three also where datagrams get lost, doubled and reordered | Unix stream sockets (TCP is the same without a file), Unix datagrams, UDP, FIFO; 2 producers, 2 and 1 entries, capacities 2 | 424,970 |
| LogReceived | *violation*: `log-aggregator/README.md:28` | Unix stream sockets, 2 producers | |
| SmallPrograms | wc-go: equal counts, no partial ones; labs: no increment or wake-up lost, counting in turn, bursts end; sig-counter: shutdown; fs-monitor: no directory unseen | texts of up to 5 bytes, reads of 1 or 2, lines of 4; 1 to 4 workers, counters to 9; 2 connections in 2 batches, 2 bursts; a channel of 2 and 4 signals; a tree of 4 directories | 1,412,600 |

Why the bounds are enough. Capacities of 1 or 2 make every channel full and
empty in every combination, which 100 would only postpone. Three workers let one
be at each point of the loop while two others race, and a value be overtaken by
two. Two requests and channels of one make each stage of the pipeline wait at
its send, the two tokenizers race and the generator be caught in its send;
longer chains of waiting parts repeat the same pairs. Two clients and one pooled
connection make one wait for what the other hands back, and a second message
shows order. Two open clients take eight numbers: two inside their
`net.Conn`s, two inside those of the backend, four duplicates. So the run has a client on
first-hand numbers while the other's `closeConn` is under way, and, since the lowest free
number is taken, one on the numbers the other has just left. In EpollGC the clients stay, so that every
number that comes free was closed by a finaliser. Two producers
interleave in the aggregator's channel, and two entries show order, both of them in any
one of the three queues at a time if need be. The
erratic kernel of LogRelay is tried over Unix datagram sockets; UDP goes through the same
actions and the same loop of the receiver. The
documents y - x - z are a chain because cosine similarity is not transitive. Five
bytes hold a line end across two reads with a character before and after, and
four bytes in a line fill the scanner. Four workers and a counter to 9 take a ring
round twice. Four signals overflow a channel of two. Two bursts overlap on
both connections, in every order with a break of either.

Runs with `CHECK_DEADLOCK FALSE` are of systems that may stop: clients have sent
all they have, producers have exited, the bound on requests is reached. The
stage, dedup and pipeline runs check for deadlock; a stuttering step `Finished`
marks the states where they are allowed to end.

### What the violations show

1. The pool gets a connection back only when the *backend* ends it. A client that
   closes leaves its handler in `io.Copy(clientConn, backendConn)` until then;
   after ten such clients the pool is empty.
2. `fdFromConn` keeps a number whose `os.File` is garbage at once; its finaliser
   closes the descriptor under the event loop.
3. An interrupt closes the aggregator's channel under the receivers. A send then
   panics, and what was received or buffered is lost.

Other deviations met on the way, without a run of their own:

- `closeConn` does not return connections although the comment at
  `engine.go:77` says so: with the epoll engine and the pool, the eleventh client
  blocks the accept loop. There is no call of `Return` to model.
- `RequestsNumbered` holds with metrics that are ahead of the counter by the
  request being sent, and `load_generator_test.go:192` compares them with five
  received requests while the generator runs on, so that test can fail on a slow
  machine.
- Lab 0102: a connection that has broken adds a latency of 0 to the percentiles
  of its burst, and without any connection `latencies[len(latencies)-1]`
  (`client.go:124`) panics, which ends that request only.
- Lab 0105: alone in a ring of channels, a participant waits for itself
  (`AloneInRing`).

Properties are stated so that these do not hide others: `EchoInOrder` of
`GoroutineProxy` allows mixed bytes only on a connection that was handed back
dirty, that of `EpollProxy` only for clients with a tangled socket, and
`ReceivedIsWritten` is separate from `CleanExit`, which holds.

## 4. Fairness

Weak fairness only, per goroutine: the Go scheduler runs a goroutine that can
run, and calls of `s.fn`, system calls and timers return. Never assumed: that an
input ends, a context is cancelled, a client sends or closes, the collector of
garbage runs, a process is interrupted. `StageEnv!FairSpec` has no fair consumer;
the two properties that need one assume it themselves (`Drained => ...`), and
`OutputCloses`, on a cancellation, holds without.

Go's select picks among ready cases at random, so a case that is ready again and
again is taken with probability one; that is strong fairness of each case. It is
not needed here: the workloads are finite, so a competing case cannot be ready
for ever, and weak fairness of the whole goroutine is enough.
`LogAggregator!FairSpec` leaves `Tick` out; nothing depends on ticks coming.
`ListenFails` is fair like `Listen`: the goroutine of `Receive` runs.

In `SmallPrograms` each worker, handler and asking goroutine, the loop of
`sig-counter` and its counting goroutine are fair. Ticks, signals, samples, bursts,
breaks and changes of the file system need not come. `LabsGoOn` excepts
PARTICIPANTS=1 in the ring of channels, where it does not hold.

The first part of `ProgramsEnd` needs an interrupt or a stale socket file, neither of
which is assumed. Its second part excepts the FIFO: there it does not hold, since opening
it blocks once the only reader has seen its end (`receiver.go:114`,
`publisher.go:79`).

## 5. Proofs

| module | theorem | argument |
|---|---|---|
| StageProofs | StageTypeCorrect | `TypeOK` is inductive |
| | StageConserves | `Conservation` is inductive together with `TypeOK`: each step moves one value between two places that the invariant says are apart, and no other place held it |
| | StageNeverSendsOnClosed, StageClosesCleanly | `ShutdownInv`: a closed output implies that all workers are done, and a worker that is done without a cancellation implies an empty, closed input. `CleanClose` alone is not inductive: it says nothing of the state in which the last worker has returned and the output is still open |
| | StageCountsRight, StageLosesLittle | `Ledger`: the counters against the sets of values they count, and the dropped values against the workers that have gone; each step adds one to both sides or neither |
| | StageKeepsOrder | `InputInOrder`: the input holds the values not yet received in order; `FewLate`: of each emitted value, those received before it and not yet emitted are fewer than the workers, since each is in the hand of another worker |
| | StageImplementsFlow | step simulation under the refinement mapping; `Conservation` decides the fate of a value uniquely |
| PipelineProofs | IntnNeverPanics | arithmetic over the clamps |
| | RequestsAlwaysFit | what is drawn fits (`DrawnFits`), and the queue keeps it |
| | RequestsInOrder | `Numbered`: what was received, what waits and what is being sent are together the requests 0, 1, 2, ... |
| | RequestsReachMainOnce | `PoolInv`, the same for each of the four stages: what its workers hold, what waits in its output and what has left it are disjoint and each there once. The four are chained, what has left one (`Past1` to `Past4`) being what the next holds, has in its output, or has passed on, so that every step is a step of one stage with an element passed along before and behind it (`Passed`). `Fresh`: the next request has a number none of them has. `Balance`: what is counted is in one of the places |
| | ShutdownLosesNothing | `PoolShuts`: a stage closes behind workers that are all done, and they are done behind an empty closed input; so a drained, closed last channel empties every place back to the generator, and `Balance` has only the printed and the failed left |
| DedupProofs | DuplicatesNeedOverlap, DuplicatesAreCovered | `RaceInv`: whatever similar was indexed since a caller's search belongs to a call that overlapped it, or the search missed it |
| | UndisturbedCallsAreAtomic | step simulation: the add or the rejection is the atomic step; an add next to a similar document is excused by `RaceInv` |
| | OneCallerNeverOverlaps | one caller is never busy twice, so only a miss of the search can excuse a duplicate in `main.go`'s configuration |
| | SameTextIsSimilar | the functions inside `Embed` and `Dot` exist (`PrefixRecursion`) and are unrolled term by term with `Induct`. The parity of a hash is the parity of its place, since the dimension is even; so all terms at one place have one sign, and the place of the first term never returns to 0. Hence `Dot(v, v) > 0`, and a threshold of at most 100 % is reached |
| | SameTextOnce | `DuplicatesNeedOverlap`, with the same words always similar |
| ProxyProofs | ProxyTypeCorrect | `TypeOK` with `Started`: what has not begun yet for a client that has not connected or has no connection |
| | PoolKeepsItsConnections | `LeaseInv`: every opened connection is in the pool or with one handler, and their number is the pool's size. Hence there is room for what a handler returns and the default branch of `Return` is not taken |
| | EchoesComeBackInOrder | `FlowInv`: of the messages of a client on a clean connection, those received, in the hands of its goroutines and in the four streams continue each other without a gap; `ConnInv`: a connection nobody uses is empty, and only a writer on a dirty one has lost its handler |
| EpollProofs | EpollTypeCorrect | `TypeOK` with `StepsInv` (which descriptors exist at which step of `Serve`), `LeaseInv` (a connection has one holder) and `MapInv` (the map and `closing` name only what `closeConn` has not finished with) |
| | EpollEchoesInOrder | `UseInv`: of a socket that is not tangled, each number used for it refers to it or is closed, and a number that refers to it is used for nothing else; so the loop relays between the two ends of one ProxyConn, and at most one request of such a client is on its way, which is the last it sent (`FlowInv`). `ExactInv`: without a collector nothing is tangled and no number in use is closed |
| | FreshClientsAreSafe | whatever is finalised: as long as the `os.File`s of a client with first-hand numbers that are not tangled exist, its numbers refer to its sockets and are nobody else's (`KeptInv`); interest list and batch name only numbers that were given out (`EntriesInv`); what a batch says is readable is still readable (`BatchInv`), so `handleEvent` reads the end of a connection only from a client that closed, and no stale entry or delete removes another's (`FreshInv`) |
| SmallProofs | WordTypeCorrect, LinesCounted, NoPartialCounts | one inductive invariant; `Progress` ties the phase to the positions (the end of the input is seen behind its last byte, a last line without a newline ends the processing) |
| | WordsAndCharsCounted | the loops over a line count the positions at which a character or a word starts (`CharsOfLine`, `WordsOfLine`: of the positions where they do not, take the last); a line that is processed adds those of its own span, and its end, which the loops do not see, adds no word and is left out of the characters |
| | NobodyWaitsInVain | on a connection that is open, the goroutines that wait for an answer are as many as the bytes on their way (`AnswersOnTheWay`), inductive with `Unused`: a connection not dialled yet carries nothing. Each step moves one byte, or adds one with its reader |
| | NoIncrementLost | `TypeOK`, `Locked` (who is between Lock and Unlock holds the lock, and what it has loaded is still the counter), `OneToken` and the count itself |
| | RingRefined | step simulation by mode, the holder of the token read off the program counters |
| | NoDirectoryUnseen | inductive once what exists is known to be paths of the tree |
| | SmallProgramsAreSafe | each step of the combined specification is a step or a stutter of each program |
| LogProofs | LogTypeCorrect | `TypeOK` with `Roles`: which reader reads over which kind of connection, and that an entry is made before it is sent |
| | ExitLeavesCompleteFile | `Unwinding`: the collector leaves its loop with an empty closed channel, and flushes before it closes `done` |
| | EntriesStayInOrder, NoEntryIsLost | `Marked`: along file, channel, reader, connection, publisher and producer's channel there are numbers 0 <= a <= ... <= e that cut the producer's entries into consecutive spans, one per place (`Span`), and without loss the spans are full (`Full`); every step moves one mark. `OwnEntries`: a stream carries its own producer's entries; `ClosedAfterShut`: a reader sees the end only after its producer has shut the connection. `Marked` is claimed of kernels that keep datagrams in order only (`~erratic`); the other two hold on both |

`ChannelLemmas` has what sending and receiving do to the range and the
injectivity of a channel's contents, and `Least` and `Induct`: a set of numbers has
a least member, and induction over the members of a set, from `WFMin` of
`WellFoundedInduction`. (`NatInduction` itself takes an operator as a parameter,
which none of the provers can instantiate; with a set in its place the recursive
functions over a text come within reach.) The assumptions used are the named ones of
the modules; `OneCallerNeverOverlaps` also assumes a single caller. `EmbeddedAssumption` is described above, and
`BurstsAssumption` says that the bursts are finitely many. `EpollAssumption` says that clients, connections, descriptors
and `None` are told apart and descriptors are numbers; the theorems of `EpollProofs` hold for every
choice of `Collected`.
`TypeOK` of `DedupIndex` is proved on the way (`DedupStepType`) and not a
property of the run.

Every safety property of a passing run is a theorem, and so is every refinement.
Only model-checked: all liveness (fairness is out of the prover's reach), hence
all of `SigCounter`, whose one property is liveness. Of `LabsGoOn` and the like,
what they say of single states is proved where it is an invariant of its own:
`AnswersOnTheWay` is. The type invariants of the other modules are proved and in no
run, since a run would add nothing.

## 6. Abstractions a reader should know of

- Streams carry whole messages. Splitting of bytes, `io.Copy`'s 32 KB buffer,
  short writes and EAGAIN are not modelled.
- A client does not see that the proxy has closed its connection.
- Datagrams: `log-aggregator/README.md:10` says of Unix datagram sockets that
  "Duplication, loss and reordering are possible", and README.md:11 that UDP has
  "some of the same downsides". Nothing in the code numbers, acknowledges or repeats
  entries, so on such a kernel order and completeness are simply not given. Linux
  does otherwise: Unix datagram sockets are reliable and in order (a full receiver
  blocks the sender), and UDP over the loopback interface loses but does not
  reorder. The models have both: `erratic` chooses, `WriteErratic` delivers a
  datagram at any place among those not yet read, once or twice, and `WriteLost`
  drops it. `InOrder`, `NothingLost` and `EveryEntryWritten` say `~erratic` or
  except `erratic`: over datagram sockets they rest on Linux. That the two disagree is
  recorded here and not as a finding, since the sentence is about
  the kernel and no step of the code decides it. `CleanExit` and `ProgramsEnd` are
  checked, and `CleanExit` proved, on both.
- A write to the FIFO is atomic (entries beyond PIPE_BUF could interleave).
- Failures of `os.Create`, of JSON marshalling and of `net.Listen`, but for a stale
  socket file, are not modelled. That file is a choice at the start instead of a
  second start of the aggregator.
- The hash of `Embed` is any function from terms to numbers. Norms and cosines are
  exact integers, where the code has float32: rounding at the threshold is left
  out.
- Characters of `wc-go` have at most two bytes.
- Directories are not renamed in `fs-monitor`.
- Measured times, rates and printed text are left out, and telemetry calls are
  counters.

## 7. Not modelled, and what is left

- `internal/telemetry`: calls into OpenTelemetry; its counters are state of the parts
  that move them.
- `db-query`: one query per run of a command.
- Labs 0101 and 0103: goroutines that compute, sleep or exchange single bytes with
  a server each by itself, with atomic counters as in `LabCounters`.
- Labs 0201 to 0205: SQL run by pgbench; the logic is PostgreSQL's.
- Dashboards, collector configuration and bpftrace scripts: no program state.
- `engine.go:156`: partial writes and EAGAIN, which need byte counts and full
  send buffers in `EpollProxy`.
- `load_generator.go:57`: the interval of the ticker; `main.go` configures 4000
  per second.
- A second aggregator truncating the output file of the first.
