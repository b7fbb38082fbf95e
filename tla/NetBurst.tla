------------------------------- MODULE NetBurst -------------------------------
(***************************************************************************)
(* labs/0102-go-netpoller-epoll: client.go dials a number of connections   *)
(* in batches and holds them; every request of /burst then writes a byte   *)
(* to each of them and waits for the answers.  server.go has a goroutine   *)
(* per connection that answers byte by byte.  Bursts may overlap: their    *)
(* goroutines share the connections and take each other's answers.         *)
(***************************************************************************)
EXTENDS Integers, FiniteSets

CONSTANTS
  Links,      \* the connections the client tries to open (CONNS)
  BatchSize,  \* 200 in client.go
  Bursts      \* the requests of /burst

VARIABLES
  tried,   \* connections whose dialling goroutine has run
  wire,    \* per connection: "none", "open" or "broken"
  conns,   \* the connections the client holds
  handler, \* per connection, the server: "none", "read", "work", "done"
  toServer, toClient,  \* bytes on the way
  burst,   \* per burst: "none", "running", "done" or "panic"
  asking   \* per burst and connection: "none", "write", "read", "answered" or
           \* "failed"

ends == <<tried, wire, conns>>
vars == <<ends, handler, toServer, toClient, burst, asking>>

Init ==
  /\ tried = {}
  /\ wire = [c \in Links |-> "none"]
  /\ conns = {}
  /\ handler = [c \in Links |-> "none"]
  /\ toServer = [c \in Links |-> 0] /\ toClient = [c \in Links |-> 0]
  /\ burst = [b \in Bursts |-> "none"]
  /\ asking = [b \in Bursts |-> [c \in Links |-> "none"]]

-----------------------------------------------------------------------------
\* One batch after the other: wg.Wait.
InBatch(c) ==
  c \notin tried /\ \A d \in Links : d < c /\ d \div BatchSize # c \div BatchSize => d \in tried

Dial(c) ==
  /\ InBatch(c)
  /\ tried' = tried \cup {c}
  /\ \/ /\ wire' = [wire EXCEPT ![c] = "open"]
        /\ conns' = conns \cup {c}
     \/ UNCHANGED <<wire, conns>>
  /\ UNCHANGED <<handler, toServer, toClient, burst, asking>>

\* Either end or the network gives up a connection, and what is on its way.
Break(c) ==
  /\ wire[c] = "open"
  /\ wire' = [wire EXCEPT ![c] = "broken"]
  /\ toServer' = [toServer EXCEPT ![c] = 0]
  /\ toClient' = [toClient EXCEPT ![c] = 0]
  /\ UNCHANGED <<tried, conns, handler, burst, asking>>

-----------------------------------------------------------------------------
\* Slip: the server reads into a larger buffer and answers once.
ReadAll(c) ==
  /\ handler[c] = "read"
  /\ toServer[c] > 0
  /\ toServer' = [toServer EXCEPT ![c] = 0]
  /\ handler' = [handler EXCEPT ![c] = "work"]
  /\ UNCHANGED <<ends, toClient, burst, asking>>

Accept(c) ==
  /\ wire[c] # "none" /\ handler[c] = "none"
  /\ handler' = [handler EXCEPT ![c] = "read"]
  /\ UNCHANGED <<ends, toServer, toClient, burst, asking>>

\* handleConn reads one byte, whatever has arrived,
ReadByte(c) ==
  /\ handler[c] = "read"
  /\ toServer[c] > 0
  /\ toServer' = [toServer EXCEPT ![c] = @ - 1]
  /\ handler' = [handler EXCEPT ![c] = "work"]
  /\ UNCHANGED <<ends, toClient, burst, asking>>

\* works, and writes one;
Answer(c) ==
  /\ handler[c] = "work"
  /\ wire[c] = "open"
  /\ toClient' = [toClient EXCEPT ![c] = @ + 1]
  /\ handler' = [handler EXCEPT ![c] = "read"]
  /\ UNCHANGED <<ends, toServer, burst, asking>>

\* an error ends it.
HandlerEnds(c) ==
  /\ handler[c] \in {"read", "work"}
  /\ wire[c] = "broken"
  /\ handler' = [handler EXCEPT ![c] = "done"]
  /\ UNCHANGED <<ends, toServer, toClient, burst, asking>>

-----------------------------------------------------------------------------
\* /burst is served once everything is dialled: a goroutine per connection
\* held, also for those that have broken.
StartBurst(b) ==
  /\ tried = Links
  /\ burst[b] = "none"
  /\ burst' = [burst EXCEPT ![b] = "running"]
  /\ asking' = [asking EXCEPT ![b] = [c \in Links |-> IF c \in conns THEN "write" ELSE "none"]]
  /\ UNCHANGED <<ends, handler, toServer, toClient>>

Goroutine(b, c, at) == asking' = [asking EXCEPT ![b][c] = at]

Ask(b, c) ==
  /\ asking[b][c] = "write"
  /\ wire[c] = "open"
  /\ toServer' = [toServer EXCEPT ![c] = @ + 1]
  /\ Goroutine(b, c, "read")
  /\ UNCHANGED <<ends, handler, toClient, burst>>

\* The answer may be that to the byte of another burst.
Hear(b, c) ==
  /\ asking[b][c] = "read"
  /\ toClient[c] > 0
  /\ toClient' = [toClient EXCEPT ![c] = @ - 1]
  /\ Goroutine(b, c, "answered")
  /\ UNCHANGED <<ends, handler, toServer, burst>>

\* The latency of this connection stays 0.
GiveUp(b, c) ==
  /\ asking[b][c] \in {"write", "read"}
  /\ wire[c] = "broken"
  /\ Goroutine(b, c, "failed")
  /\ UNCHANGED <<ends, handler, toServer, toClient, burst>>

\* wg.Wait, then the response; without a connection latencies[-1] panics,
\* which ends the request but not the program.
EndBurst(b) ==
  /\ burst[b] = "running"
  /\ \A c \in conns : asking[b][c] \in {"answered", "failed"}
  /\ burst' = [burst EXCEPT ![b] = IF conns = {} THEN "panic" ELSE "done"]
  /\ UNCHANGED <<ends, handler, toServer, toClient, asking>>

Server(c) == Accept(c) \/ ReadByte(c) \/ Answer(c) \/ HandlerEnds(c)

Asker(b, c) == Ask(b, c) \/ Hear(b, c) \/ GiveUp(b, c)

Next ==
  \/ \E c \in Links : Dial(c) \/ Break(c) \/ Server(c)
  \/ \E b \in Bursts : StartBurst(b) \/ EndBurst(b) \/ \E c \in Links : Asker(b, c)

Spec == Init /\ [][Next]_vars

-----------------------------------------------------------------------------
(***************************************************************************)
(* Bursts that overlap mix up their answers, but nobody waits for one that *)
(* does not come: on an open connection as many bytes and answers are on   *)
(* their way as goroutines read, since the server answers every byte by    *)
(* itself.  So every burst ends, whichever connections break meanwhile.    *)
(***************************************************************************)
AnswersOnTheWay ==
  \A c \in conns :
    wire[c] = "open" =>
      toServer[c] + toClient[c] + (IF handler[c] = "work" THEN 1 ELSE 0)
        = Cardinality({b \in Bursts : asking[b][c] = "read"})

BurstsEnd ==
  /\ []AnswersOnTheWay
  /\ (\E b \in Bursts : burst[b] = "running") ~> (\A b \in Bursts : burst[b] # "running")
=============================================================================
