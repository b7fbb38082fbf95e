--------------------------- MODULE GoroutineProxy ---------------------------
(***************************************************************************)
(* The reverse proxy (applications/reverse-proxy) with the goroutine       *)
(* engine of pkg/engine/engine.go, either backend connector                *)
(* (pkg/connector, pkg/pool) and the echo server of cmd/echo as backend.   *)
(*                                                                         *)
(* Per client the proxy runs two goroutines: the handler, which takes a    *)
(* backend connection and copies backend to client, and the writer, which  *)
(* copies client to backend.  TCP streams are sequences of messages; the   *)
(* i-th message of client c is <<c, i>>.                                   *)
(***************************************************************************)
EXTENDS Integers, Sequences, FiniteSets, Functions

CONSTANTS
  Clients,          \* each connects at most once
  Conns,            \* connections to the backend (as many as clients, if dialled)
  None,
  PoolSizes,        \* sizes of the pool; 0 stands for connector "dial"
  BackendMayClose,  \* whether the backend may end connections or be down
  Msgs              \* bound on the messages of each client

Msg == UNION {{<<c, i>> : i \in 1 .. Msgs[c]} : c \in Clients}

ASSUME ProxyAssumption ==
  /\ None \notin Conns \cup Msg
  /\ BackendMayClose \in BOOLEAN
  /\ PoolSizes \subseteq 0 .. Cardinality(Conns)
  /\ Msgs \in [Clients -> Nat]
  /\ IsFiniteSet(Conns)

VARIABLES
  app,      \* client program: "new", "open" or "closed"
  sent,     \* number of messages it has sent
  got,      \* what it has received
  cin,      \* stream client -> proxy
  cOpen,    \* the proxy has clientConn open
  poolSize, \* capacity of the ConnPool, 0 without one
  pool,     \* the channel of the ConnPool
  h,        \* handler: "none", "get", "read", "write", "return", "close", "done"
  hbuf,     \* what its io.Copy has read and not yet written
  w,        \* writer: "none", "read", "write", "done"
  wbuf,     \* what its io.Copy has read and not yet written
  lease,    \* the backendConn both goroutines captured
  echo,     \* handleConnection of the echo server: "new", "running", "closed"
  pOpen,    \* the proxy has the backend connection open
  bin,      \* stream proxy -> backend
  bout,     \* stream backend -> proxy
  dirty     \* history: connections returned while bytes of a client were
            \* still on them or its writer still running

client  == <<app, sent, got, cin, cOpen>>
relay   == <<h, hbuf, w, wbuf, lease>>
backend == <<echo, pOpen, bin, bout>>
pooling == <<poolSize, pool>>
vars    == <<client, relay, backend, pooling, dirty>>

\* Whether the connector is a pool.
UsePool == poolSize > 0

\* NewConnPool dials every connection before the proxy listens; if one dial
\* fails the proxy exits.
Init ==
  /\ app = [c \in Clients |-> "new"]
  /\ sent = [c \in Clients |-> 0]
  /\ got = [c \in Clients |-> <<>>]
  /\ cin = [c \in Clients |-> <<>>]
  /\ cOpen = [c \in Clients |-> FALSE]
  /\ h = [c \in Clients |-> "none"]
  /\ hbuf = [c \in Clients |-> None]
  /\ w = [c \in Clients |-> "none"]
  /\ wbuf = [c \in Clients |-> None]
  /\ lease = [c \in Clients |-> None]
  /\ poolSize \in PoolSizes
  /\ pool \in {s \in [1 .. poolSize -> Conns] : IsInjective(s)}
  /\ echo = [b \in Conns |-> IF b \in Range(pool) THEN "running" ELSE "new"]
  /\ pOpen = [b \in Conns |-> b \in Range(pool)]
  /\ bin = [b \in Conns |-> <<>>]
  /\ bout = [b \in Conns |-> <<>>]
  /\ dirty = {}

-----------------------------------------------------------------------------
\* The client program.

\* It connects; main accepts and Serve starts the handler.
Accept(c) ==
  /\ app[c] = "new"
  /\ app' = [app EXCEPT ![c] = "open"]
  /\ cOpen' = [cOpen EXCEPT ![c] = TRUE]
  /\ h' = [h EXCEPT ![c] = "get"]
  /\ UNCHANGED <<sent, got, cin, hbuf, w, wbuf, lease, backend, pooling, dirty>>

ClientSend(c) ==
  /\ app[c] = "open" /\ cOpen[c]
  /\ sent[c] < Msgs[c]
  /\ sent' = [sent EXCEPT ![c] = @ + 1]
  /\ cin' = [cin EXCEPT ![c] = Append(@, <<c, sent[c] + 1>>)]
  /\ UNCHANGED <<app, got, cOpen, relay, backend, pooling, dirty>>

ClientClose(c) ==
  /\ app[c] = "open"
  /\ app' = [app EXCEPT ![c] = "closed"]
  /\ UNCHANGED <<sent, got, cin, cOpen, relay, backend, pooling, dirty>>

-----------------------------------------------------------------------------
Goto(c, loc) == h' = [h EXCEPT ![c] = loc]

\* Slips, told from the code by the properties below.
CloseClientNever(c) ==
  /\ h[c] = "close"
  /\ Goto(c, "done")
  /\ UNCHANGED <<client, hbuf, w, wbuf, lease, backend, pooling, dirty>>

PeekConn(c) ==
  /\ h[c] = "get"
  /\ UsePool
  /\ pool # <<>>
  /\ lease' = [lease EXCEPT ![c] = Head(pool)]
  /\ Goto(c, "read")
  /\ w' = [w EXCEPT ![c] = "read"]
  /\ UNCHANGED <<client, hbuf, wbuf, backend, pooling, dirty>>

RelayReadAny(c) ==
  /\ h[c] = "read"
  /\ \E b \in Conns :
       /\ bout[b] # <<>>
       /\ hbuf' = [hbuf EXCEPT ![c] = Head(bout[b])]
       /\ bout' = [bout EXCEPT ![b] = Tail(@)]
  /\ Goto(c, "write")
  /\ UNCHANGED <<client, w, wbuf, lease, echo, pOpen, bin, pooling, dirty>>

WriterStops(c) ==
  /\ w[c] = "write"
  /\ bin' = IF echo[lease[c]] = "running" /\ pOpen[lease[c]]
            THEN [bin EXCEPT ![lease[c]] = Append(@, wbuf[c])] ELSE bin
  /\ w' = [w EXCEPT ![c] = "done"]
  /\ wbuf' = [wbuf EXCEPT ![c] = None]
  /\ UNCHANGED <<client, h, hbuf, lease, echo, pOpen, bout, pooling, dirty>>

-----------------------------------------------------------------------------
\* The handler goroutine of GoroutineEngine.Serve.

\* backend.Get of the pool blocks until a connection is there.  The writer
\* is started right after it.
GetPooled(c) ==
  /\ h[c] = "get"
  /\ UsePool
  /\ pool # <<>>
  /\ lease' = [lease EXCEPT ![c] = Head(pool)]
  /\ pool' = Tail(pool)
  /\ Goto(c, "read")
  /\ w' = [w EXCEPT ![c] = "read"]
  /\ UNCHANGED <<client, hbuf, wbuf, backend, poolSize, dirty>>

\* backend.Get of the dial connector opens a new connection.
GetDialled(c) ==
  /\ h[c] = "get"
  /\ ~UsePool
  /\ \E b \in Conns :
       /\ echo[b] = "new"
       /\ lease' = [lease EXCEPT ![c] = b]
       /\ echo' = [echo EXCEPT ![b] = "running"]
       /\ pOpen' = [pOpen EXCEPT ![b] = TRUE]
  /\ Goto(c, "read")
  /\ w' = [w EXCEPT ![c] = "read"]
  /\ UNCHANGED <<client, hbuf, wbuf, bin, bout, pooling, dirty>>

GetFails(c) ==
  /\ h[c] = "get"
  /\ ~UsePool /\ BackendMayClose
  /\ Goto(c, "close")
  /\ UNCHANGED <<client, hbuf, w, wbuf, lease, backend, pooling, dirty>>

\* io.Copy(clientConn, backendConn).
RelayRead(c) ==
  /\ h[c] = "read"
  /\ bout[lease[c]] # <<>>
  /\ hbuf' = [hbuf EXCEPT ![c] = Head(bout[lease[c]])]
  /\ bout' = [bout EXCEPT ![lease[c]] = Tail(@)]
  /\ Goto(c, "write")
  /\ UNCHANGED <<client, w, wbuf, lease, echo, pOpen, bin, pooling, dirty>>

RelayEOF(c) ==
  /\ h[c] = "read"
  /\ bout[lease[c]] = <<>>
  /\ echo[lease[c]] = "closed"
  /\ Goto(c, "return")
  /\ UNCHANGED <<client, hbuf, w, wbuf, lease, backend, pooling, dirty>>

RelayWrite(c) ==
  /\ h[c] = "write"
  /\ app[c] = "open"
  /\ got' = [got EXCEPT ![c] = Append(@, hbuf[c])]
  /\ hbuf' = [hbuf EXCEPT ![c] = None]
  /\ Goto(c, "read")
  /\ UNCHANGED <<app, sent, cin, cOpen, w, wbuf, lease, backend, pooling, dirty>>

\* The client has closed: the kernel still takes the bytes, or reports an
\* error, which ends the copy.
RelayWriteGone(c) ==
  /\ h[c] = "write"
  /\ app[c] = "closed"
  /\ \E loc \in {"read", "return"} : Goto(c, loc)
  /\ hbuf' = [hbuf EXCEPT ![c] = None]
  /\ UNCHANGED <<client, w, wbuf, lease, backend, pooling, dirty>>

\* The deferred backend.Return, which runs before the deferred Close.
Return(c) ==
  LET b == lease[c] IN
  /\ h[c] = "return"
  /\ IF UsePool /\ Len(pool) < poolSize
       THEN pool' = Append(pool, b) /\ UNCHANGED pOpen
       ELSE pOpen' = [pOpen EXCEPT ![b] = FALSE] /\ UNCHANGED pool
  /\ dirty' = IF bin[b] # <<>> \/ bout[b] # <<>> \/ w[c] # "done"
              THEN dirty \cup {b} ELSE dirty
  /\ Goto(c, "close")
  /\ UNCHANGED <<client, hbuf, w, wbuf, lease, echo, bin, bout, poolSize>>

CloseClient(c) ==
  /\ h[c] = "close"
  /\ cOpen' = [cOpen EXCEPT ![c] = FALSE]
  /\ Goto(c, "done")
  /\ UNCHANGED <<app, sent, got, cin, hbuf, w, wbuf, lease, backend, pooling, dirty>>

-----------------------------------------------------------------------------
\* The writer goroutine: io.Copy(backendConn, clientConn).
WriterRead(c) ==
  /\ w[c] = "read"
  /\ cOpen[c] /\ cin[c] # <<>>
  /\ wbuf' = [wbuf EXCEPT ![c] = Head(cin[c])]
  /\ cin' = [cin EXCEPT ![c] = Tail(@)]
  /\ w' = [w EXCEPT ![c] = "write"]
  /\ UNCHANGED <<app, sent, got, cOpen, h, hbuf, lease, backend, pooling, dirty>>

\* End of the client's stream, or clientConn closed under the reader.
WriterEnd(c) ==
  /\ w[c] = "read"
  /\ ~cOpen[c] \/ (cin[c] = <<>> /\ app[c] = "closed")
  /\ w' = [w EXCEPT ![c] = "done"]
  /\ UNCHANGED <<client, h, hbuf, wbuf, lease, backend, pooling, dirty>>

WriterWrite(c) ==
  /\ w[c] = "write"
  /\ pOpen[lease[c]] /\ echo[lease[c]] = "running"
  /\ bin' = [bin EXCEPT ![lease[c]] = Append(@, wbuf[c])]
  /\ wbuf' = [wbuf EXCEPT ![c] = None]
  /\ w' = [w EXCEPT ![c] = "read"]
  /\ UNCHANGED <<client, h, hbuf, lease, echo, pOpen, bout, pooling, dirty>>

\* A closed backend takes the bytes or reports an error; the proxy's own
\* closed connection always reports one.
WriterWriteGone(c) ==
  /\ w[c] = "write"
  /\ ~pOpen[lease[c]] \/ echo[lease[c]] = "closed"
  /\ \E loc \in {"done"} \cup (IF pOpen[lease[c]] THEN {"read"} ELSE {}) :
       w' = [w EXCEPT ![c] = loc]
  /\ wbuf' = [wbuf EXCEPT ![c] = None]
  /\ UNCHANGED <<client, h, hbuf, lease, backend, pooling, dirty>>

-----------------------------------------------------------------------------
\* handleConnection of the echo server: io.Copy(conn, conn).
EchoCopy(b) ==
  /\ echo[b] = "running"
  /\ bin[b] # <<>>
  /\ bout' = [bout EXCEPT ![b] = Append(@, Head(bin[b]))]
  /\ bin' = [bin EXCEPT ![b] = Tail(@)]
  /\ UNCHANGED <<client, relay, echo, pOpen, pooling, dirty>>

EchoEOF(b) ==
  /\ echo[b] = "running"
  /\ bin[b] = <<>> /\ ~pOpen[b]
  /\ echo' = [echo EXCEPT ![b] = "closed"]
  /\ UNCHANGED <<client, relay, pOpen, bin, bout, pooling, dirty>>

\* The backend is restarted or drops the connection.
BackendClose(b) ==
  /\ BackendMayClose
  /\ echo[b] = "running"
  /\ echo' = [echo EXCEPT ![b] = "closed"]
  /\ bin' = [bin EXCEPT ![b] = <<>>]
  /\ UNCHANGED <<client, relay, pOpen, bout, pooling, dirty>>

Handler(c) ==
  \/ GetPooled(c) \/ GetDialled(c) \/ GetFails(c)
  \/ RelayRead(c) \/ RelayEOF(c) \/ RelayWrite(c) \/ RelayWriteGone(c)
  \/ Return(c) \/ CloseClient(c)

Writer(c) ==
  WriterRead(c) \/ WriterEnd(c) \/ WriterWrite(c) \/ WriterWriteGone(c)

Echo(b) == EchoCopy(b) \/ EchoEOF(b)

Next ==
  \/ \E c \in Clients : \/ Accept(c) \/ ClientSend(c) \/ ClientClose(c)
                        \/ Handler(c) \/ Writer(c)
  \/ \E b \in Conns : Echo(b) \/ BackendClose(b)

Spec == Init /\ [][Next]_vars

\* The proxy and the backend run; clients send and close when they like.
FairSpec ==
  /\ Spec
  /\ \A c \in Clients : WF_vars(Handler(c)) /\ WF_vars(Writer(c))
  /\ \A b \in Conns : WF_vars(Echo(b))

-----------------------------------------------------------------------------
Holders(b) == {c \in Clients : h[c] \in {"read", "write", "return"} /\ lease[c] = b}

(***************************************************************************)
(* Type invariant.                                                         *)
(***************************************************************************)
ClientTypeOK ==
  /\ app \in [Clients -> {"new", "open", "closed"}]
  /\ sent \in [Clients -> Nat] /\ \A c \in Clients : sent[c] <= Msgs[c]
  /\ got \in [Clients -> Seq(Msg)]
  /\ cin \in [Clients -> Seq(Msg)]
  /\ cOpen \in [Clients -> BOOLEAN]

RelayTypeOK ==
  /\ h \in [Clients -> {"none", "get", "read", "write", "return", "close", "done"}]
  /\ hbuf \in [Clients -> Msg \cup {None}]
  /\ \A c \in Clients : hbuf[c] # None <=> h[c] = "write"
  /\ w \in [Clients -> {"none", "read", "write", "done"}]
  /\ wbuf \in [Clients -> Msg \cup {None}]
  /\ \A c \in Clients : wbuf[c] # None <=> w[c] = "write"
  /\ lease \in [Clients -> Conns \cup {None}]
  /\ \A c \in Clients : lease[c] = None => h[c] \in {"none", "get", "close", "done"}

BackendTypeOK ==
  /\ poolSize \in PoolSizes
  /\ pool \in Seq(Conns)
  /\ echo \in [Conns -> {"new", "running", "closed"}]
  /\ pOpen \in [Conns -> BOOLEAN]
  /\ bin \in [Conns -> Seq(Msg)] /\ bout \in [Conns -> Seq(Msg)]
  /\ dirty \subseteq Conns

TypeOK == ClientTypeOK /\ RelayTypeOK /\ BackendTypeOK

(***************************************************************************)
(* A backend connection is never in the hands of two handlers.  With the   *)
(* pool it is always either in the pool or with exactly one handler, so    *)
(* that the pool never overflows: the default branch of ConnPool.Return    *)
(* ("Pool is full somehow") is not taken and no connection is closed.      *)
(***************************************************************************)
LeaseExclusive ==
  /\ \A b \in Conns : \A c, d \in Holders(b) : c = d
  /\ IsInjective(pool)
  /\ UsePool => \A b \in Conns :
       \/ echo[b] = "new"
       \/ pOpen[b] /\ (b \in Range(pool) <=> Holders(b) = {})

(***************************************************************************)
(* A client receives the echo of what it sent, in order and nothing else.  *)
(* With the dial connector that holds always; with the pool it can fail    *)
(* only on a connection that was handed back while it still carried the    *)
(* previous client's bytes or that client's writer was still running.      *)
(***************************************************************************)
EchoInOrder ==
  \A c \in Clients :
    \/ UsePool /\ lease[c] \in dirty
    \/ \A i \in DOMAIN got[c] : got[c][i] = <<c, i>>

(***************************************************************************)
(* Every message of a client that stays and has a backend connection is    *)
(* echoed back to it by the four parties that pass it on, unless the       *)
(* backend ends the connection and with it the handler.                    *)
(***************************************************************************)
EveryMessageEchoed ==
  \A c \in Clients : \A i \in 1 .. Msgs[c] :
    (h[c] = "read" /\ sent[c] >= i)
      ~> (Len(got[c]) >= i \/ app[c] = "closed" \/ h[c] = "done")

(***************************************************************************)
(* When the backend ends a connection, both goroutines of its client end:  *)
(* the handler sees the end of the stream, and closing clientConn frees    *)
(* the writer from a read that nothing else would interrupt.               *)
(***************************************************************************)
BackendEndEndsBoth ==
  \A c \in Clients :
    (h[c] = "read" /\ echo[lease[c]] = "closed") ~> (h[c] = "done" /\ w[c] = "done")

(***************************************************************************)
(* README.md of the reverse proxy on the pool connector: the connection    *)
(* "is returned to the pool when the client connection is closed".         *)
(***************************************************************************)
ReturnedWhenClientCloses ==
  \A c \in Clients :
    (app[c] = "closed" /\ h[c] = "read") ~> (h[c] \in {"close", "done"})
=============================================================================
