------------------------------ MODULE EpollProxy ------------------------------
(***************************************************************************)
(* The epoll engine of applications/reverse-proxy/pkg/engine/engine.go:    *)
(* the accept loop of cmd/proxy/main.go calls Serve, which registers two   *)
(* descriptors per client; one event loop goroutine relays and closes.     *)
(*                                                                         *)
(* What matters of the kernel: a descriptor is a small number, and every   *)
(* accept, dial and dup takes the lowest one that is free; an edge-        *)
(* triggered event reports a change once; the interest list is keyed by    *)
(* descriptor and socket, so closing a duplicate does not remove an entry  *)
(* while the descriptor it came from is open.  That is the one inside the  *)
(* net.Conn, which only the garbage collector closes.  The backend is the  *)
(* echo server.                                                            *)
(***************************************************************************)
EXTENDS Integers, Sequences, FiniteSets

CONSTANTS
  Clients,    \* each connects at most once
  Conns,      \* backend connections the connector can hand out
  None,
  Fds,        \* descriptor numbers for sockets and their duplicates
  MayClose,   \* whether clients may close their connection
  Connectors, \* values the -connector flag may have
  Collected,  \* sockets whose net.Conn and os.File the collector may finalise
  Msgs        \* bound on the requests per client

ASSUME EpollAssumption ==
  /\ Fds \subseteq Nat
  /\ None \notin Clients \cup Conns \cup Fds
  /\ Clients \cap Conns = {}
  /\ MayClose \in BOOLEAN
  /\ Connectors \subseteq {"dial", "pool"}
  /\ Collected \subseteq Clients \cup Conns
  /\ Msgs \in Nat

Ends == Clients \cup Conns   \* the sockets of the proxy

VARIABLES
  app,      \* client program: "new", "open" or "closed"
  sent,     \* requests it has sent
  got,      \* what it has received
  inq,      \* per socket of the proxy: bytes to be read
  echoq,    \* per backend connection: bytes the echo server has to return
  pool,     \* connections the connector can still hand out
  file,     \* the socket each number refers to, or None if it is closed
  own,      \* the number inside the net.Conn of a socket, or None: not made
            \* yet, or finalised
  interest, \* epoll interest list: pairs <<descriptor, socket>>
  edges,    \* entries of the interest list with an event not yet reported
  conns,    \* e.conns: descriptor -> ProxyConn (named by its client) or None
  lease, clientFd, backendFd,   \* fields of the ProxyConn of each client
  serve,    \* accept loop: step of Serve and the client it serves
  batch,    \* events of the last EpollWait not yet handled: <<fd, readable>>
  loop,     \* event loop: "events", "close" or "delete"
  closing,  \* the ProxyConn closeConn works on, or None
  closed,   \* ProxyConns closeConn has finished with
  finals,   \* os.File values not yet finalised: <<socket, descriptor>>
  reused,   \* history: clients one of whose descriptor numbers was second-hand
  tangled   \* history: sockets with a number that the collector closed and
            \* the kernel gave out again while it was in use, old and new

peers  == <<app, sent, got, echoq>>
kernel == <<inq, file, own, interest, edges>>
pconns == <<lease, clientFd, backendFd>>
evloop == <<batch, loop, closing, closed>>
vars   == <<peers, kernel, pool, conns, pconns, serve, evloop, finals, reused, tangled>>

\* The dial connector has made no connection yet; the pool has made all of them, on the
\* lowest numbers.
Numbered(connector) ==
  {n \in [Ends -> Fds \cup {None}] :
     IF connector = "dial" THEN \A e \in Ends : n[e] = None
     ELSE /\ \A c \in Clients : n[c] = None
          /\ \A b \in Conns : n[b] # None
          /\ \A b, d \in Conns : n[b] = n[d] => b = d
          /\ \A b \in Conns, f \in Fds : f < n[b] => \E d \in Conns : n[d] = f}

Init ==
  /\ app = [c \in Clients |-> "new"]
  /\ sent = [c \in Clients |-> 0]
  /\ got = [c \in Clients |-> <<>>]
  /\ inq = [e \in Ends |-> <<>>]
  /\ echoq = [b \in Conns |-> <<>>]
  /\ pool = Conns
  /\ \E connector \in Connectors : own \in Numbered(connector)
  /\ file = [f \in Fds |-> IF \E b \in Conns : own[b] = f
                           THEN CHOOSE b \in Conns : own[b] = f ELSE None]
  /\ interest = {}
  /\ edges = {}
  /\ conns = [f \in Fds |-> None]
  /\ lease = [c \in Clients |-> None]
  /\ clientFd = [c \in Clients |-> None]
  /\ backendFd = [c \in Clients |-> None]
  /\ serve = [at |-> "accept", client |-> None]
  /\ batch = {}
  /\ loop = "events"
  /\ closing = None
  /\ closed = {}
  /\ finals = {}
  /\ reused = {}
  /\ tangled = {}

-----------------------------------------------------------------------------
\* A socket is closed, and leaves the interest list, once no number refers
\* to it.
Open == {file[f] : f \in Fds} \ {None}

LeaveInterest ==
  /\ interest' = {x \in interest : x[2] \in Open'}
  /\ edges' = edges \cap interest'

\* A change on socket e raises an edge on its entries of the interest list.
Raise(e) == edges' = edges \cup {x \in interest : x[2] = e}

Ended(e) == e \in Clients /\ app[e] = "closed"

\* EPOLLIN: there is something to read, or the end of the stream.
Readable(e) == inq[e] # <<>> \/ Ended(e)

-----------------------------------------------------------------------------
\* The kernel gives out the lowest number that is closed.
Free(f) == file[f] = None /\ \A g \in Fds : file[g] = None => f <= g

\* The ProxyConn of c is being made or there, and closeConn has not been
\* called for it.
Relays(c) == (serve.client = c \/ backendFd[c] # None) /\ c \notin closed \cup {closing}

\* The sockets the proxy uses number f for, in a net.Conn or a ProxyConn.
Users(f) ==
  {e \in Ends : own[e] = f}
    \cup {c \in Clients : clientFd[c] = f /\ Relays(c)}
    \cup {b \in Conns : \E c \in Clients : lease[c] = b /\ backendFd[c] = f /\ Relays(c)}

\* Number f is given to socket s, for end e.
Take(f, s, e) ==
  /\ Free(f)
  /\ file' = [file EXCEPT ![f] = s]
  /\ tangled' = IF Users(f) = {} THEN tangled ELSE tangled \cup Users(f) \cup {e}

-----------------------------------------------------------------------------
\* The clients (cmd/client: the next request only after the last response)
\* and the echo server.  Accept makes a net.Conn with a number of its own.
Connect(c) ==
  /\ serve.at = "accept"
  /\ app[c] = "new"
  /\ app' = [app EXCEPT ![c] = "open"]
  /\ \E f \in Fds : Take(f, c, c) /\ own' = [own EXCEPT ![c] = f]
  /\ serve' = [at |-> "get", client |-> c]
  /\ UNCHANGED <<sent, got, echoq, inq, interest, edges, pool, conns, pconns, evloop,
                 finals, reused>>

Request(c) ==
  /\ app[c] = "open"
  /\ sent[c] < Msgs
  /\ sent[c] = Len(got[c])
  /\ sent' = [sent EXCEPT ![c] = @ + 1]
  /\ inq' = [inq EXCEPT ![c] = Append(@, <<c, sent[c] + 1>>)]
  /\ Raise(c)
  /\ UNCHANGED <<app, got, echoq, file, own, interest, pool, conns, pconns, serve,
                 evloop, finals, reused, tangled>>

ClientClose(c) ==
  /\ MayClose
  /\ app[c] = "open"
  /\ app' = [app EXCEPT ![c] = "closed"]
  /\ Raise(c)
  /\ UNCHANGED <<sent, got, echoq, inq, file, own, interest, pool, conns, pconns, serve,
                 evloop, finals, reused, tangled>>

EchoCopy(b) ==
  /\ echoq[b] # <<>>
  /\ inq' = [inq EXCEPT ![b] = Append(@, Head(echoq[b]))]
  /\ echoq' = [echoq EXCEPT ![b] = Tail(@)]
  /\ Raise(b)
  /\ UNCHANGED <<app, sent, got, file, own, interest, pool, conns, pconns, serve,
                 evloop, finals, reused, tangled>>

-----------------------------------------------------------------------------
\* Serve, called by the accept loop itself: a pool that has run out blocks
\* every later client too.
Dial(b) ==
  IF own[b] = None
    THEN \E f \in Fds : Take(f, b, b) /\ own' = [own EXCEPT ![b] = f]
    ELSE UNCHANGED <<file, own, tangled>>

\* Slip: the connection stays available.
GetShared(c) ==
  /\ serve = [at |-> "get", client |-> c]
  /\ \E b \in pool : lease' = [lease EXCEPT ![c] = b] /\ Dial(b)
  /\ serve' = [serve EXCEPT !.at = "dupClient"]
  /\ UNCHANGED <<peers, inq, interest, edges, pool, conns, clientFd, backendFd, evloop,
                 finals, reused>>

Get(c) ==
  /\ serve = [at |-> "get", client |-> c]
  /\ \E b \in pool :
       /\ lease' = [lease EXCEPT ![c] = b]
       /\ pool' = pool \ {b}
       /\ Dial(b)
  /\ serve' = [serve EXCEPT !.at = "dupClient"]
  /\ UNCHANGED <<peers, inq, interest, edges, conns, clientFd, backendFd, evloop,
                 finals, reused>>

\* Whether fdFromConn has returned number f before.
UsedBefore(f) == \E d \in Clients : f \in {clientFd[d], backendFd[d]}

\* Slip: fdFromConn makes an os.File of the number inside the net.Conn.
WrapNumber(c, e, f) ==
  /\ f = own[e] /\ file[f] # None
  /\ finals' = finals \cup {<<e, f>>}
  /\ reused' = IF UsedBefore(f) THEN reused \cup {c} ELSE reused
  /\ UNCHANGED <<file, tangled>>

\* fdFromConn: dup of the number inside the net.Conn, whatever it refers to
\* by now, and an os.File for the duplicate that nothing refers to any more.
Dup(c, e, f) ==
  /\ own[e] # None /\ file[own[e]] # None
  /\ Take(f, file[own[e]], e)
  /\ finals' = finals \cup {<<e, f>>}
  /\ reused' = IF UsedBefore(f) THEN reused \cup {c} ELSE reused

DupClient(c) ==
  /\ serve = [at |-> "dupClient", client |-> c]
  /\ \E f \in Fds : Dup(c, c, f) /\ clientFd' = [clientFd EXCEPT ![c] = f]
  /\ serve' = [serve EXCEPT !.at = "dupBackend"]
  /\ UNCHANGED <<peers, inq, own, interest, edges, pool, conns, lease, backendFd,
                 evloop>>

DupBackend(c) ==
  /\ serve = [at |-> "dupBackend", client |-> c]
  /\ \E f \in Fds : Dup(c, lease[c], f) /\ backendFd' = [backendFd EXCEPT ![c] = f]
  /\ serve' = [serve EXCEPT !.at = "map"]
  /\ UNCHANGED <<peers, inq, own, interest, edges, pool, conns, lease, clientFd,
                 evloop>>

\* The number inside the net.Conn was closed by a finaliser or a closeConn
\* that had it before: dup fails, and Serve returns the error.
DupFails(c) ==
  /\ \/ serve = [at |-> "dupClient", client |-> c] /\ file[own[c]] = None
     \/ serve = [at |-> "dupBackend", client |-> c] /\ file[own[lease[c]]] = None
  /\ serve' = [at |-> "accept", client |-> None]
  /\ UNCHANGED <<peers, kernel, pool, conns, pconns, evloop, finals, reused, tangled>>

\* Slip: only the client's descriptor is entered.
MapClientOnly(c) ==
  /\ serve = [at |-> "map", client |-> c]
  /\ conns' = [conns EXCEPT ![clientFd[c]] = c]
  /\ serve' = [serve EXCEPT !.at = "addClient"]
  /\ UNCHANGED <<peers, kernel, pool, pconns, evloop, finals, reused, tangled>>

MapConns(c) ==
  /\ serve = [at |-> "map", client |-> c]
  /\ conns' = [conns EXCEPT ![clientFd[c]] = c, ![backendFd[c]] = c]
  /\ serve' = [serve EXCEPT !.at = "addClient"]
  /\ UNCHANGED <<peers, kernel, pool, pconns, evloop, finals, reused, tangled>>

\* EPOLL_CTL_ADD: a new entry is reported at once, if only as writable.
\* On a descriptor that is not open, or already has that entry, it fails and
\* Serve returns the error.
CanAdd(f) == file[f] # None /\ <<f, file[f]>> \notin interest

Add(f) ==
  IF CanAdd(f)
    THEN /\ interest' = interest \cup {<<f, file[f]>>}
         /\ edges' = edges \cup {<<f, file[f]>>}
    ELSE UNCHANGED <<interest, edges>>

AddClient(c) ==
  /\ serve = [at |-> "addClient", client |-> c]
  /\ Add(clientFd[c])
  /\ serve' = IF CanAdd(clientFd[c]) THEN [serve EXCEPT !.at = "addBackend"]
              ELSE [at |-> "accept", client |-> None]
  /\ UNCHANGED <<peers, inq, file, own, pool, conns, pconns, evloop, finals, reused,
                 tangled>>

AddBackend(c) ==
  /\ serve = [at |-> "addBackend", client |-> c]
  /\ Add(backendFd[c])
  /\ serve' = [at |-> "accept", client |-> None]
  /\ UNCHANGED <<peers, inq, file, own, pool, conns, pconns, evloop, finals, reused,
                 tangled>>

-----------------------------------------------------------------------------
\* EpollWait in Loop: takes every edge, with the state its socket is in now.
EpollWait ==
  /\ loop = "events" /\ batch = {}
  /\ edges # {}
  /\ batch' = {<<x[1], Readable(x[2])>> : x \in edges}
  /\ edges' = {}
  /\ UNCHANGED <<peers, inq, file, own, interest, pool, conns, pconns, serve, loop,
                 closing, closed, finals, reused, tangled>>

Done(ev) == batch' = batch \ {ev}

\* handleEvent for a descriptor that is not in the map, or only writable.
IgnoreEvent ==
  /\ loop = "events"
  /\ \E ev \in batch : (conns[ev[1]] = None \/ ~ev[2]) /\ Done(ev)
  /\ UNCHANGED <<peers, kernel, pool, conns, pconns, serve, loop, closing, closed,
                 finals, reused, tangled>>

SrcFd(pc, fd) == IF fd = clientFd[pc] THEN clientFd[pc] ELSE backendFd[pc]
DstFd(pc, fd) == IF fd = clientFd[pc] THEN backendFd[pc] ELSE clientFd[pc]

\* Bytes written to a client that has closed are lost.
Write(e, m) ==
  IF e \in Conns
    THEN echoq' = [echoq EXCEPT ![e] = Append(@, m)] /\ UNCHANGED got
    ELSE /\ got' = IF app[e] = "open" THEN [got EXCEPT ![e] = Append(@, m)] ELSE got
         /\ UNCHANGED echoq

StartClose(pc) == loop' = "close" /\ closing' = pc

\* A successful read, then the write; writing to a client that has closed
\* may also fail, and then ends the connection.
Forward ==
  /\ loop = "events"
  /\ \E ev \in batch :
       LET pc  == conns[ev[1]]
           src == file[SrcFd(pc, ev[1])]
           dst == file[DstFd(pc, ev[1])] IN
       /\ pc # None /\ ev[2]
       /\ src # None /\ inq[src] # <<>>
       /\ Done(ev)
       /\ inq' = [inq EXCEPT ![src] = Tail(@)]
       /\ \/ /\ dst # None
             /\ Write(dst, Head(inq[src]))
             /\ UNCHANGED <<loop, closing>>
          \/ /\ dst = None \/ Ended(dst)
             /\ StartClose(pc)
             /\ UNCHANGED <<got, echoq>>
  /\ UNCHANGED <<app, sent, file, own, interest, edges, pool, conns, pconns, serve,
                 closed, finals, reused, tangled>>

\* Nothing could be read: end of the stream, EAGAIN or a closed descriptor.
ReadFails ==
  /\ loop = "events"
  /\ \E ev \in batch :
       LET pc  == conns[ev[1]]
           src == file[SrcFd(pc, ev[1])] IN
       /\ pc # None /\ ev[2]
       /\ src # None => inq[src] = <<>>
       /\ Done(ev)
       /\ StartClose(pc)
  /\ UNCHANGED <<peers, kernel, pool, conns, pconns, serve, closed, finals, reused,
                 tangled>>

\* closeConn first closes the two descriptors.  The sockets stay open, and
\* in the interest list, while the numbers inside their net.Conns are.
CloseFds ==
  /\ loop = "close"
  /\ file' = [f \in Fds |-> IF f \in {clientFd[closing], backendFd[closing]}
                            THEN None ELSE file[f]]
  /\ LeaveInterest
  /\ loop' = "delete"
  /\ UNCHANGED <<peers, inq, own, pool, conns, pconns, serve, batch, closing, closed,
                 finals, reused, tangled>>

\* Slip: closeConn makes a new map.
ClearEntries ==
  /\ loop = "delete"
  /\ conns' = [f \in Fds |-> None]
  /\ closed' = closed \cup {closing}
  /\ closing' = None
  /\ loop' = "events"
  /\ UNCHANGED <<peers, kernel, pool, pconns, serve, batch, finals, reused, tangled>>

\* Then it takes the lock and deletes the entries under their numbers.
DeleteEntries ==
  /\ loop = "delete"
  /\ conns' = [f \in Fds |-> IF f \in {clientFd[closing], backendFd[closing]}
                             THEN None ELSE conns[f]]
  /\ closed' = closed \cup {closing}
  /\ closing' = None
  /\ loop' = "events"
  /\ UNCHANGED <<peers, kernel, pool, pconns, serve, batch, finals, reused, tangled>>

\* The garbage collector finalises an os.File, which closes its descriptor,
\* whatever that refers to by now;
FinalizeFile(e, f) ==
  /\ e \in Collected
  /\ <<e, f>> \in finals
  /\ finals' = finals \ {<<e, f>>}
  /\ file' = [file EXCEPT ![f] = None]
  /\ LeaveInterest
  /\ UNCHANGED <<peers, inq, own, pool, conns, pconns, serve, evloop, reused, tangled>>

\* or a net.Conn: Serve does not use it after fdFromConn, nobody else does.
Unreferenced(e) ==
  \E c \in Clients : \/ e = c /\ (serve.client # c \/ clientFd[c] # None)
                     \/ e = lease[c] /\ (serve.client # c \/ backendFd[c] # None)

FinalizeConn(e) ==
  /\ e \in Collected
  /\ own[e] # None /\ Unreferenced(e)
  /\ own' = [own EXCEPT ![e] = None]
  /\ file' = [file EXCEPT ![own[e]] = None]
  /\ LeaveInterest
  /\ UNCHANGED <<peers, inq, pool, conns, pconns, serve, evloop, finals, reused,
                 tangled>>

Serve(c) ==
  \/ Get(c) \/ DupClient(c) \/ DupBackend(c) \/ DupFails(c)
  \/ MapConns(c) \/ AddClient(c) \/ AddBackend(c)

Loop == EpollWait \/ IgnoreEvent \/ Forward \/ ReadFails \/ CloseFds \/ DeleteEntries

Next ==
  \/ \E c \in Clients : Connect(c) \/ Request(c) \/ ClientClose(c) \/ Serve(c)
  \/ \E b \in Conns : EchoCopy(b)
  \/ Loop
  \/ \E e \in Ends : FinalizeConn(e) \/ \E f \in Fds : FinalizeFile(e, f)

Spec == Init /\ [][Next]_vars

\* The accept loop, the event loop and the echo server run.
FairSpec ==
  /\ Spec
  /\ \A c \in Clients : WF_vars(Serve(c))
  /\ \A b \in Conns : WF_vars(EchoCopy(b))
  /\ WF_vars(Loop)

-----------------------------------------------------------------------------
\* Serve has returned for c, and closeConn has not begun.
Live(c) == backendFd[c] # None /\ serve.client # c /\ c # closing /\ c \notin closed

Msg == {<<c, i>> : c \in Clients, i \in 1 .. Msgs}

(***************************************************************************)
(* Type invariant.                                                         *)
(***************************************************************************)
PeerTypeOK ==
  /\ app \in [Clients -> {"new", "open", "closed"}]
  /\ sent \in [Clients -> 0 .. Msgs]
  /\ got \in [Clients -> Seq(Msg)]
  /\ inq \in [Ends -> Seq(Msg)]
  /\ echoq \in [Conns -> Seq(Msg)]

KernelTypeOK ==
  /\ file \in [Fds -> Ends \cup {None}]
  /\ own \in [Ends -> Fds \cup {None}]
  /\ interest \subseteq Fds \X Open
  /\ edges \subseteq interest

EngineTypeOK ==
  /\ pool \subseteq Conns
  /\ conns \in [Fds -> Clients \cup {None}]
  /\ lease \in [Clients -> Conns \cup {None}]
  /\ clientFd \in [Clients -> Fds \cup {None}]
  /\ backendFd \in [Clients -> Fds \cup {None}]
  /\ serve \in [at : {"accept", "get", "dupClient", "dupBackend", "map", "addClient",
                      "addBackend"}, client : Clients \cup {None}]
  /\ batch \subseteq Fds \X BOOLEAN
  /\ loop \in {"events", "close", "delete"}
  /\ closing \in Clients \cup {None} /\ (closing = None <=> loop = "events")
  /\ closed \subseteq Clients
  /\ finals \subseteq Ends \X Fds
  /\ reused \subseteq Clients
  /\ tangled \subseteq Ends

TypeOK == PeerTypeOK /\ KernelTypeOK /\ EngineTypeOK

(***************************************************************************)
(* Descriptors are reused and stale events name reused descriptors, yet a  *)
(* client only ever receives the echo of its own requests, in order: the   *)
(* loop closes a pair only after it has stopped relaying for it, and never *)
(* hands its backend connection to another client.  The collector, which   *)
(* closes descriptors under open ProxyConns, makes connections lose bytes, *)
(* but mixes them only between those that were given one number at a time: *)
(* all others are still told apart.                                        *)
(***************************************************************************)
EchoInOrder ==
  \A c \in Clients :
    \/ Collected # {} /\ {c, lease[c]} \cap tangled # {}
    \/ \A i \in DOMAIN got[c] : got[c][i] = <<c, i>>

(***************************************************************************)
(* A client whose descriptors are first-hand is safe from the races of the *)
(* closeConn of others and from their finalisers: while it is open both    *)
(* its entries stay in the map, and it is closed only after it has closed  *)
(* itself.                                                                 *)
(***************************************************************************)
FirstHand(c) ==
  /\ c \notin reused
  /\ {c, lease[c]} \cap tangled = {}
  /\ {<<c, clientFd[c]>>, <<lease[c], backendFd[c]>>} \subseteq finals

FreshFdsAreSafe ==
  \A c \in Clients : FirstHand(c) =>
    /\ Live(c) => conns[clientFd[c]] = c /\ conns[backendFd[c]] = c
    /\ c \in closed \cup {closing} => app[c] = "closed"

(***************************************************************************)
(* The one read per edge suffices for clients that wait for the response   *)
(* before they send again, as cmd/client does: every request of a client   *)
(* that stays and has its descriptors is answered, wherever Serve is when  *)
(* its bytes and their echo arrive.  (On second-hand descriptors a stale   *)
(* event may close it first.)                                              *)
(***************************************************************************)
EveryRequestAnswered ==
  \A c \in Clients : \A i \in 1 .. Msgs :
    (sent[c] >= i /\ backendFd[c] # None)
      ~> (Len(got[c]) >= i \/ app[c] = "closed" \/ c \in reused)

(***************************************************************************)
(* The comment in fdFromConn: "Dup so we can safely close net.Conn without *)
(* losing fd".  The descriptors of an open ProxyConn stay open.            *)
(***************************************************************************)
DupKeepsFd ==
  \A c \in Clients : Live(c) => file[clientFd[c]] = c /\ file[backendFd[c]] = lease[c]
=============================================================================
