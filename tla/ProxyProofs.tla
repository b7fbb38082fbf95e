----------------------------- MODULE ProxyProofs -----------------------------
(***************************************************************************)
(* Theorems about the goroutine engine of the reverse proxy: for any       *)
(* number of clients and connections, with the pool or without it.         *)
(***************************************************************************)
EXTENDS GoroutineProxy, ChannelLemmas, FiniteSetTheorems

USE ProxyAssumption

\* The writer runs only after the handler has got a connection.
Started ==
  \A c \in Clients : /\ app[c] = "new" => h[c] = "none"
                     /\ h[c] \in {"none", "get"} => w[c] = "none"
                     /\ lease[c] = None => w[c] = "none"

TypeInv == TypeOK /\ Started

-----------------------------------------------------------------------------
LEMMA InitType == Init => TypeInv
<1> SUFFICES ASSUME Init
             PROVE  TypeInv
  OBVIOUS
<1>1. poolSize \in Nat /\ pool \in [1 .. poolSize -> Conns]
  BY DEF Init
<1>2. pool \in Seq(Conns)
  BY <1>1
<1>3. <<>> \in Seq(Msg)
  OBVIOUS
<1>4. ClientTypeOK
  BY <1>3 DEF Init, ClientTypeOK
<1>5. RelayTypeOK /\ Started
  BY DEF Init, RelayTypeOK, Started
<1>6. BackendTypeOK
  BY <1>2, <1>3 DEF Init, BackendTypeOK
<1>. QED
  BY <1>4, <1>5, <1>6 DEF TypeOK, TypeInv

\* Most steps leave two of the three parts of the state alone.
LEMMA TypeFrame ==
  /\ ClientTypeOK /\ UNCHANGED client => ClientTypeOK'
  /\ RelayTypeOK /\ UNCHANGED relay => RelayTypeOK'
  /\ BackendTypeOK /\ UNCHANGED <<backend, pooling, dirty>> => BackendTypeOK'
  /\ Started /\ app' = app /\ UNCHANGED relay => Started'
<1>1. ClientTypeOK /\ UNCHANGED client => ClientTypeOK'
  BY DEF ClientTypeOK, client
<1>2. RelayTypeOK /\ UNCHANGED relay => RelayTypeOK'
  BY DEF RelayTypeOK, relay
<1>3. BackendTypeOK /\ UNCHANGED <<backend, pooling, dirty>> => BackendTypeOK'
  BY DEF BackendTypeOK, backend, pooling
<1>4. Started /\ app' = app /\ UNCHANGED relay => Started'
  BY DEF Started, relay
<1>. QED
  BY <1>1, <1>2, <1>3, <1>4

\* A step of the handler of c that leaves the writer and the lease alone.
LEMMA HandlerStep ==
  ASSUME RelayTypeOK, Started, NEW c \in Clients, h[c] \notin {"none", "get"},
         NEW loc \in {"read", "write", "return", "close", "done"},
         h' = [h EXCEPT ![c] = loc], hbuf' \in [Clients -> Msg \cup {None}],
         hbuf'[c] # None <=> loc = "write",
         \A d \in Clients : d # c => hbuf'[d] = hbuf[d],
         lease[c] = None => loc \in {"close", "done"},
         UNCHANGED <<w, wbuf, lease, app>>
  PROVE  RelayTypeOK' /\ Started'
<1>1. /\ h' \in [Clients -> {"none", "get", "read", "write", "return", "close", "done"}]
      /\ \A d \in Clients : IF d = c THEN h'[d] = loc ELSE h'[d] = h[d]
  BY DEF RelayTypeOK
<1>2. /\ \A d \in Clients : hbuf'[d] # None <=> h'[d] = "write"
      /\ \A d \in Clients : lease'[d] = None => h'[d] \in {"none", "get", "close", "done"}
  BY <1>1 DEF RelayTypeOK
<1>3. RelayTypeOK'
  BY <1>1, <1>2 DEF RelayTypeOK
<1>4. Started'
  BY <1>1 DEF Started
<1>. QED
  BY <1>3, <1>4

\* A step of the writer of c.
LEMMA WriterStep ==
  ASSUME RelayTypeOK, Started, NEW c \in Clients, w[c] # "none",
         NEW loc \in {"read", "write", "done"},
         w' = [w EXCEPT ![c] = loc], wbuf' \in [Clients -> Msg \cup {None}],
         wbuf'[c] # None <=> loc = "write",
         \A d \in Clients : d # c => wbuf'[d] = wbuf[d],
         UNCHANGED <<h, hbuf, lease, app>>
  PROVE  RelayTypeOK' /\ Started'
<1>1. /\ w' \in [Clients -> {"none", "read", "write", "done"}]
      /\ \A d \in Clients : IF d = c THEN w'[d] = loc ELSE w'[d] = w[d]
  BY DEF RelayTypeOK
<1>2. \A d \in Clients : wbuf'[d] # None <=> w'[d] = "write"
  BY <1>1 DEF RelayTypeOK
<1>3. RelayTypeOK'
  BY <1>1, <1>2 DEF RelayTypeOK
<1>4. Started'
  BY <1>1 DEF Started
<1>. QED
  BY <1>3, <1>4

\* The handler of c has got connection b and starts the writer.
LEMMA LeaseStep ==
  ASSUME RelayTypeOK, Started, NEW c \in Clients, NEW b \in Conns, h[c] = "get",
         lease' = [lease EXCEPT ![c] = b], h' = [h EXCEPT ![c] = "read"],
         w' = [w EXCEPT ![c] = "read"], UNCHANGED <<hbuf, wbuf, app>>
  PROVE  RelayTypeOK' /\ Started'
<1>1. /\ h' \in [Clients -> {"none", "get", "read", "write", "return", "close", "done"}]
      /\ w' \in [Clients -> {"none", "read", "write", "done"}]
      /\ lease' \in [Clients -> Conns \cup {None}]
      /\ \A d \in Clients :
           IF d = c THEN h'[d] = "read" /\ w'[d] = "read" /\ lease'[d] = b
                    ELSE h'[d] = h[d] /\ w'[d] = w[d] /\ lease'[d] = lease[d]
  BY DEF RelayTypeOK
<1>2. b # None /\ w[c] = "none" /\ app[c] # "new"
  BY DEF Started
<1>3. /\ \A d \in Clients : hbuf'[d] # None <=> h'[d] = "write"
      /\ \A d \in Clients : wbuf'[d] # None <=> w'[d] = "write"
      /\ \A d \in Clients : lease'[d] = None => h'[d] \in {"none", "get", "close", "done"}
  BY <1>1, <1>2 DEF RelayTypeOK
<1>4. RelayTypeOK'
  BY <1>1, <1>3 DEF RelayTypeOK
<1>5. Started'
  BY <1>1, <1>2 DEF Started
<1>. QED
  BY <1>4, <1>5

LEMMA StepType ==
  ASSUME TypeInv, [Next]_vars
  PROVE  TypeInv'
<1>0. ClientTypeOK /\ RelayTypeOK /\ BackendTypeOK /\ Started
  BY DEF TypeInv, TypeOK
<1>a. None \notin Conns /\ None \notin Msg
  OBVIOUS
<1>b. SUFFICES ClientTypeOK' /\ RelayTypeOK' /\ BackendTypeOK' /\ Started'
  BY DEF TypeInv, TypeOK
<1>1. ASSUME NEW c \in Clients, Accept(c)
      PROVE  TypeInv'
  <2>1. ClientTypeOK'
    BY <1>0, <1>1 DEF Accept, ClientTypeOK
  <2>2. /\ h' \in [Clients -> {"none", "get", "read", "write", "return", "close", "done"}]
        /\ \A d \in Clients :
             IF d = c THEN app'[d] = "open" /\ h'[d] = "get" /\ h[d] = "none"
                      ELSE app'[d] = app[d] /\ h'[d] = h[d]
        /\ UNCHANGED <<hbuf, w, wbuf, lease>>
    BY <1>0, <1>1 DEF Accept, ClientTypeOK, RelayTypeOK, Started
  <2>3. RelayTypeOK'
    BY <1>0, <2>2 DEF RelayTypeOK
  <2>4. Started'
    BY <1>0, <2>2 DEF Started
  <2>5. BackendTypeOK'
    BY <1>0, <1>1, TypeFrame DEF Accept
  <2>. QED
    BY <2>1, <2>3, <2>4, <2>5 DEF TypeInv, TypeOK
<1>2. ASSUME NEW c \in Clients, ClientSend(c) \/ ClientClose(c)
      PROVE  TypeInv'
  <2>1. RelayTypeOK' /\ BackendTypeOK'
    BY <1>0, <1>2, TypeFrame DEF ClientSend, ClientClose
  <2>2. CASE ClientSend(c)
    <3>1. sent[c] \in Nat /\ sent[c] + 1 \in 1 .. Msgs[c]
      BY <1>0, <2>2 DEF ClientSend, ClientTypeOK
    <3>2. <<c, sent[c] + 1>> \in Msg
      BY <3>1 DEF Msg
    <3>3. Append(cin[c], <<c, sent[c] + 1>>) \in Seq(Msg)
      BY <1>0, <3>2, AppendProperties DEF ClientTypeOK
    <3>4. cin' \in [Clients -> Seq(Msg)]
      BY <1>0, <2>2, <3>3 DEF ClientSend, ClientTypeOK
    <3>5. sent' \in [Clients -> Nat] /\ \A d \in Clients : sent'[d] <= Msgs[d]
      BY <1>0, <2>2, <3>1 DEF ClientSend, ClientTypeOK
    <3>6. ClientTypeOK'
      BY <1>0, <2>2, <3>4, <3>5 DEF ClientSend, ClientTypeOK
    <3>7. Started'
      BY <1>0, <2>2, TypeFrame DEF ClientSend
    <3>. QED
      BY <2>1, <3>6, <3>7 DEF TypeInv, TypeOK
  <2>3. CASE ClientClose(c)
    <3>1. ClientTypeOK'
      BY <1>0, <2>3 DEF ClientClose, ClientTypeOK
    <3>2. /\ UNCHANGED <<h, w, lease>>
          /\ \A d \in Clients : app'[d] = "new" => app[d] = "new"
      BY <1>0, <2>3 DEF ClientClose, ClientTypeOK, relay
    <3>3. Started'
      BY <1>0, <3>2 DEF Started
    <3>. QED
      BY <2>1, <3>1, <3>3 DEF TypeInv, TypeOK
  <2>. QED
    BY <1>2, <2>2, <2>3
<1>3. ASSUME NEW c \in Clients, GetPooled(c)
      PROVE  TypeInv'
  <2>1. Head(pool) \in Conns /\ Tail(pool) \in Seq(Conns)
    BY <1>0, <1>3, HeadTailProperties DEF GetPooled, BackendTypeOK
  <2>2. /\ h[c] = "get" /\ lease' = [lease EXCEPT ![c] = Head(pool)]
        /\ h' = [h EXCEPT ![c] = "read"] /\ w' = [w EXCEPT ![c] = "read"]
        /\ UNCHANGED <<client, hbuf, wbuf, backend, poolSize, dirty, app>>
        /\ pool' = Tail(pool)
    BY <1>3 DEF GetPooled, Goto, client
  <2>3. RelayTypeOK' /\ Started'
    BY <1>0, <2>1, <2>2, LeaseStep
  <2>4. ClientTypeOK'
    BY <1>0, <2>2, TypeFrame
  <2>5. BackendTypeOK'
    BY <1>0, <2>1, <2>2 DEF BackendTypeOK, backend
  <2>. QED
    BY <2>3, <2>4, <2>5 DEF TypeInv, TypeOK
<1>4. ASSUME NEW c \in Clients, GetDialled(c)
      PROVE  TypeInv'
  <2>1. PICK b \in Conns : /\ lease' = [lease EXCEPT ![c] = b]
                           /\ echo' = [echo EXCEPT ![b] = "running"]
                           /\ pOpen' = [pOpen EXCEPT ![b] = TRUE]
    BY <1>4 DEF GetDialled
  <2>2. /\ h[c] = "get"
        /\ h' = [h EXCEPT ![c] = "read"] /\ w' = [w EXCEPT ![c] = "read"]
        /\ UNCHANGED <<client, hbuf, wbuf, bin, bout, pooling, dirty, app>>
    BY <1>4 DEF GetDialled, Goto, client
  <2>3. RelayTypeOK' /\ Started'
    BY <1>0, <2>1, <2>2, LeaseStep
  <2>4. ClientTypeOK'
    BY <1>0, <2>2, TypeFrame
  <2>5. BackendTypeOK'
    BY <1>0, <2>1, <2>2 DEF BackendTypeOK, pooling
  <2>. QED
    BY <2>3, <2>4, <2>5 DEF TypeInv, TypeOK
<1>5. ASSUME NEW c \in Clients, GetFails(c)
      PROVE  TypeInv'
  <2>1. /\ h' \in [Clients -> {"none", "get", "read", "write", "return", "close", "done"}]
        /\ h[c] = "get" /\ h'[c] = "close"
        /\ \A d \in Clients : d # c => h'[d] = h[d]
        /\ UNCHANGED <<client, hbuf, w, wbuf, lease, backend, pooling, dirty, app>>
    BY <1>0, <1>5 DEF GetFails, Goto, RelayTypeOK, client
  <2>2. RelayTypeOK'
    BY <1>0, <2>1 DEF RelayTypeOK
  <2>3. Started'
    BY <1>0, <2>1 DEF Started
  <2>4. ClientTypeOK' /\ BackendTypeOK'
    BY <1>0, <2>1, TypeFrame
  <2>. QED
    BY <2>2, <2>3, <2>4 DEF TypeInv, TypeOK
<1>6. ASSUME NEW c \in Clients, RelayRead(c)
      PROVE  TypeInv'
  <2>1. h[c] = "read" /\ lease[c] \in Conns
    BY <1>0, <1>6 DEF RelayRead, RelayTypeOK
  <2>2. Head(bout[lease[c]]) \in Msg /\ Tail(bout[lease[c]]) \in Seq(Msg)
    BY <1>0, <1>6, <2>1, HeadTailProperties DEF RelayRead, BackendTypeOK
  <2>3. /\ hbuf' = [hbuf EXCEPT ![c] = Head(bout[lease[c]])]
        /\ h' = [h EXCEPT ![c] = "write"]
        /\ UNCHANGED <<client, w, wbuf, lease, app>>
    BY <1>6 DEF RelayRead, Goto, client
  <2>4. /\ hbuf' \in [Clients -> Msg \cup {None}] /\ hbuf'[c] # None
        /\ \A d \in Clients : d # c => hbuf'[d] = hbuf[d]
    BY <1>0, <1>a, <2>2, <2>3 DEF RelayTypeOK
  <2>5. RelayTypeOK' /\ Started'
    BY <1>0, <1>a, <2>1, <2>3, <2>4, HandlerStep
  <2>6. BackendTypeOK'
    BY <1>0, <1>6, <2>1, <2>2 DEF RelayRead, BackendTypeOK, pooling
  <2>7. ClientTypeOK'
    BY <1>0, <2>3, TypeFrame
  <2>. QED
    BY <2>5, <2>6, <2>7 DEF TypeInv, TypeOK
<1>7. ASSUME NEW c \in Clients, RelayEOF(c) \/ RelayWriteGone(c) \/ CloseClient(c)
      PROVE  TypeInv'
  <2>1. BackendTypeOK'
    BY <1>0, <1>7, TypeFrame DEF RelayEOF, RelayWriteGone, CloseClient
  <2>2. ClientTypeOK' /\ UNCHANGED <<w, wbuf, lease, app>>
    <3>1. CASE RelayEOF(c) \/ RelayWriteGone(c)
      BY <1>0, <3>1, TypeFrame DEF RelayEOF, RelayWriteGone, client
    <3>2. CASE CloseClient(c)
      BY <1>0, <3>2 DEF CloseClient, ClientTypeOK
    <3>. QED
      BY <1>7, <3>1, <3>2
  <2>3. CASE RelayEOF(c)
    <3>1. h[c] = "read" /\ h' = [h EXCEPT ![c] = "return"] /\ hbuf' = hbuf
      BY <2>3 DEF RelayEOF, Goto
    <3>2. hbuf[c] = None /\ lease[c] # None /\ hbuf \in [Clients -> Msg \cup {None}]
      BY <1>0, <3>1 DEF RelayTypeOK
    <3>3. RelayTypeOK' /\ Started'
      BY <1>0, <2>2, <3>1, <3>2, HandlerStep
    <3>. QED
      BY <2>1, <2>2, <3>3 DEF TypeInv, TypeOK
  <2>4. CASE RelayWriteGone(c)
    <3>1. h[c] = "write" /\ hbuf' = [hbuf EXCEPT ![c] = None]
      BY <2>4 DEF RelayWriteGone
    <3>2. PICK loc \in {"read", "return"} : h' = [h EXCEPT ![c] = loc]
      BY <2>4 DEF RelayWriteGone, Goto
    <3>3. /\ lease[c] # None /\ hbuf'[c] = None
          /\ hbuf' \in [Clients -> Msg \cup {None}]
          /\ \A d \in Clients : d # c => hbuf'[d] = hbuf[d]
      BY <1>0, <3>1 DEF RelayTypeOK
    <3>4. RelayTypeOK' /\ Started'
      BY <1>0, <2>2, <3>1, <3>2, <3>3, HandlerStep
    <3>. QED
      BY <2>1, <2>2, <3>4 DEF TypeInv, TypeOK
  <2>5. CASE CloseClient(c)
    <3>1. h[c] = "close" /\ h' = [h EXCEPT ![c] = "done"] /\ hbuf' = hbuf
      BY <2>5 DEF CloseClient, Goto
    <3>2. hbuf[c] = None /\ hbuf \in [Clients -> Msg \cup {None}]
      BY <1>0, <3>1 DEF RelayTypeOK
    <3>3. RelayTypeOK' /\ Started'
      BY <1>0, <2>2, <3>1, <3>2, HandlerStep
    <3>. QED
      BY <2>1, <2>2, <3>3 DEF TypeInv, TypeOK
  <2>. QED
    BY <1>7, <2>3, <2>4, <2>5
<1>8. ASSUME NEW c \in Clients, RelayWrite(c)
      PROVE  TypeInv'
  <2>1. /\ h[c] = "write" /\ h' = [h EXCEPT ![c] = "read"]
        /\ hbuf' = [hbuf EXCEPT ![c] = None]
        /\ got' = [got EXCEPT ![c] = Append(@, hbuf[c])]
        /\ UNCHANGED <<app, sent, cin, cOpen, w, wbuf, lease, backend, pooling, dirty>>
    BY <1>8 DEF RelayWrite, Goto
  <2>2. /\ hbuf[c] \in Msg /\ lease[c] # None /\ hbuf'[c] = None
        /\ hbuf' \in [Clients -> Msg \cup {None}]
        /\ \A d \in Clients : d # c => hbuf'[d] = hbuf[d]
    BY <1>0, <2>1 DEF RelayTypeOK
  <2>3. Append(got[c], hbuf[c]) \in Seq(Msg)
    BY <1>0, <2>2, AppendProperties DEF ClientTypeOK
  <2>4. ClientTypeOK'
    BY <1>0, <2>1, <2>3 DEF ClientTypeOK
  <2>5. RelayTypeOK' /\ Started'
    BY <1>0, <2>1, <2>2, HandlerStep
  <2>6. BackendTypeOK'
    BY <1>0, <2>1, TypeFrame
  <2>. QED
    BY <2>4, <2>5, <2>6 DEF TypeInv, TypeOK
<1>9. ASSUME NEW c \in Clients, Return(c)
      PROVE  TypeInv'
  <2>1. /\ h[c] = "return" /\ h' = [h EXCEPT ![c] = "close"]
        /\ UNCHANGED <<client, app, hbuf, w, wbuf, lease, echo, bin, bout, poolSize>>
    BY <1>9 DEF Return, Goto, client
  <2>2. lease[c] \in Conns /\ hbuf[c] = None /\ hbuf \in [Clients -> Msg \cup {None}]
    BY <1>0, <2>1 DEF RelayTypeOK
  <2>3. Append(pool, lease[c]) \in Seq(Conns)
    BY <1>0, <2>2, AppendProperties DEF BackendTypeOK
  <2>4. pool' \in Seq(Conns) /\ pOpen' \in [Conns -> BOOLEAN]
    <3>1. CASE UsePool /\ Len(pool) < poolSize
      BY <1>0, <1>9, <2>3, <3>1 DEF Return, BackendTypeOK
    <3>2. CASE ~(UsePool /\ Len(pool) < poolSize)
      BY <1>0, <1>9, <2>2, <3>2 DEF Return, BackendTypeOK
    <3>. QED
      BY <3>1, <3>2
  <2>5. dirty' \subseteq Conns
    BY <1>0, <1>9, <2>2 DEF Return, BackendTypeOK
  <2>6. BackendTypeOK'
    BY <1>0, <2>1, <2>4, <2>5 DEF BackendTypeOK
  <2>7. RelayTypeOK' /\ Started'
    BY <1>0, <2>1, <2>2, HandlerStep
  <2>8. ClientTypeOK'
    BY <1>0, <2>1, TypeFrame
  <2>. QED
    BY <2>6, <2>7, <2>8 DEF TypeInv, TypeOK
<1>10. ASSUME NEW c \in Clients, WriterRead(c)
       PROVE  TypeInv'
  <2>1. /\ w[c] = "read" /\ w' = [w EXCEPT ![c] = "write"] /\ cin[c] # <<>>
        /\ wbuf' = [wbuf EXCEPT ![c] = Head(cin[c])]
        /\ cin' = [cin EXCEPT ![c] = Tail(@)]
        /\ UNCHANGED <<app, sent, got, cOpen, h, hbuf, lease, backend, pooling, dirty>>
    BY <1>10 DEF WriterRead
  <2>2. Head(cin[c]) \in Msg /\ Tail(cin[c]) \in Seq(Msg)
    BY <1>0, <2>1, HeadTailProperties DEF ClientTypeOK
  <2>3. /\ wbuf' \in [Clients -> Msg \cup {None}] /\ wbuf'[c] # None
        /\ \A d \in Clients : d # c => wbuf'[d] = wbuf[d]
    BY <1>0, <1>a, <2>1, <2>2 DEF RelayTypeOK
  <2>4. RelayTypeOK' /\ Started'
    BY <1>0, <2>1, <2>3, WriterStep
  <2>5. ClientTypeOK'
    BY <1>0, <2>1, <2>2 DEF ClientTypeOK
  <2>6. BackendTypeOK'
    BY <1>0, <2>1, TypeFrame
  <2>. QED
    BY <2>4, <2>5, <2>6 DEF TypeInv, TypeOK
<1>11. ASSUME NEW c \in Clients, WriterEnd(c) \/ WriterWriteGone(c)
       PROVE  TypeInv'
  <2>1. UNCHANGED <<client, app, h, hbuf, lease, backend, pooling, dirty>>
    BY <1>11 DEF WriterEnd, WriterWriteGone, client
  <2>2. ClientTypeOK' /\ BackendTypeOK'
    BY <1>0, <2>1, TypeFrame
  <2>3. CASE WriterEnd(c)
    <3>1. w[c] = "read" /\ w' = [w EXCEPT ![c] = "done"] /\ wbuf' = wbuf
      BY <2>3 DEF WriterEnd
    <3>2. wbuf[c] = None /\ wbuf \in [Clients -> Msg \cup {None}]
      BY <1>0, <3>1 DEF RelayTypeOK
    <3>3. RelayTypeOK' /\ Started'
      BY <1>0, <2>1, <3>1, <3>2, WriterStep
    <3>. QED
      BY <2>2, <3>3 DEF TypeInv, TypeOK
  <2>4. CASE WriterWriteGone(c)
    <3>1. w[c] = "write" /\ wbuf' = [wbuf EXCEPT ![c] = None]
      BY <2>4 DEF WriterWriteGone
    <3>2. PICK loc \in {"read", "done"} : w' = [w EXCEPT ![c] = loc]
      BY <2>4 DEF WriterWriteGone
    <3>3. /\ wbuf' \in [Clients -> Msg \cup {None}] /\ wbuf'[c] = None
          /\ \A d \in Clients : d # c => wbuf'[d] = wbuf[d]
      BY <1>0, <3>1 DEF RelayTypeOK
    <3>4. RelayTypeOK' /\ Started'
      BY <1>0, <2>1, <3>1, <3>2, <3>3, WriterStep
    <3>. QED
      BY <2>2, <3>4 DEF TypeInv, TypeOK
  <2>. QED
    BY <1>11, <2>3, <2>4
<1>12. ASSUME NEW c \in Clients, WriterWrite(c)
       PROVE  TypeInv'
  <2>1. /\ w[c] = "write" /\ w' = [w EXCEPT ![c] = "read"]
        /\ wbuf' = [wbuf EXCEPT ![c] = None]
        /\ bin' = [bin EXCEPT ![lease[c]] = Append(@, wbuf[c])]
        /\ UNCHANGED <<client, app, h, hbuf, lease, echo, pOpen, bout, pooling, dirty>>
    BY <1>12 DEF WriterWrite, client
  <2>2. lease[c] \in Conns /\ wbuf[c] \in Msg
    BY <1>0, <2>1 DEF RelayTypeOK, Started
  <2>3. Append(bin[lease[c]], wbuf[c]) \in Seq(Msg)
    BY <1>0, <2>2, AppendProperties DEF BackendTypeOK
  <2>4. BackendTypeOK'
    BY <1>0, <2>1, <2>3 DEF BackendTypeOK, pooling
  <2>5. /\ wbuf' \in [Clients -> Msg \cup {None}] /\ wbuf'[c] = None
        /\ \A d \in Clients : d # c => wbuf'[d] = wbuf[d]
    BY <1>0, <2>1 DEF RelayTypeOK
  <2>6. RelayTypeOK' /\ Started'
    BY <1>0, <2>1, <2>5, WriterStep
  <2>7. ClientTypeOK'
    BY <1>0, <2>1, TypeFrame
  <2>. QED
    BY <2>4, <2>6, <2>7 DEF TypeInv, TypeOK
<1>13. ASSUME NEW b \in Conns, Echo(b) \/ BackendClose(b)
       PROVE  TypeInv'
  <2>1. UNCHANGED <<client, app, relay, pOpen, pooling, dirty>>
    BY <1>13 DEF Echo, EchoCopy, EchoEOF, BackendClose, client
  <2>2. ClientTypeOK' /\ RelayTypeOK' /\ Started'
    BY <1>0, <2>1, TypeFrame
  <2>3. /\ echo' \in [Conns -> {"new", "running", "closed"}]
        /\ bin' \in [Conns -> Seq(Msg)] /\ bout' \in [Conns -> Seq(Msg)]
    <3>1. CASE EchoCopy(b)
      <4>1. Head(bin[b]) \in Msg /\ Tail(bin[b]) \in Seq(Msg)
        BY <1>0, <3>1, HeadTailProperties DEF EchoCopy, BackendTypeOK
      <4>2. Append(bout[b], Head(bin[b])) \in Seq(Msg)
        BY <1>0, <4>1, AppendProperties DEF BackendTypeOK
      <4>. QED
        BY <1>0, <3>1, <4>1, <4>2 DEF EchoCopy, BackendTypeOK
    <3>2. CASE EchoEOF(b)
      BY <1>0, <3>2 DEF EchoEOF, BackendTypeOK
    <3>3. CASE BackendClose(b)
      BY <1>0, <3>3 DEF BackendClose, BackendTypeOK
    <3>. QED
      BY <1>13, <3>1, <3>2, <3>3 DEF Echo
  <2>4. BackendTypeOK'
    BY <1>0, <2>1, <2>3 DEF BackendTypeOK, pooling
  <2>. QED
    BY <2>2, <2>4 DEF TypeInv, TypeOK
<1>14. CASE UNCHANGED vars
  BY <1>0, <1>14, TypeFrame DEF vars, client
<1>. QED
  BY <1>1, <1>2, <1>3, <1>4, <1>5, <1>6, <1>7, <1>8, <1>9, <1>10, <1>11, <1>12, <1>13,
     <1>14
  DEF Next, Handler, Writer, TypeInv, TypeOK

(***************************************************************************)
(* Both goroutines of every client are somewhere in their loops and hold a *)
(* message exactly between a read and its write.                           *)
(***************************************************************************)
THEOREM ProxyTypeCorrect == Spec => []TypeOK
BY InitType, StepType, PTL DEF Spec, TypeInv

-----------------------------------------------------------------------------
(***************************************************************************)
(* Who has which connection.                                               *)
(***************************************************************************)
Holding == {c \in Clients : h[c] \in {"read", "write", "return"}}
Opened  == {b \in Conns : echo[b] # "new"}

\* A connection is in the pool, or one handler has it; the pool has never
\* more connections than were dialled at the start.
LeaseInv ==
  /\ \A c \in Holding : lease[c] \in Opened /\ lease[c] \notin Range(pool)
  /\ \A c, d \in Holding : lease[c] = lease[d] => c = d
  /\ IsInjective(pool)
  /\ Range(pool) \subseteq Opened
  /\ UsePool => /\ Cardinality(Opened) = poolSize
                /\ \A b \in Opened :
                     pOpen[b] /\ (b \in Range(pool) \/ \E c \in Holding : lease[c] = b)

(***************************************************************************)
(* A channel of distinct values holds as many as its length says.          *)
(***************************************************************************)
LEMMA DistinctLength ==
  ASSUME NEW S, NEW s \in Seq(S), IsInjective(s)
  PROVE  IsFiniteSet(Range(s)) /\ Cardinality(Range(s)) = Len(s)
<1>1. s \in [1 .. Len(s) -> Range(s)] /\ Len(s) \in Nat /\ DOMAIN s = 1 .. Len(s)
  BY LenProperties DEF Range
<1>2. s \in Bijection(1 .. Len(s), Range(s))
  BY <1>1 DEF Bijection, Injection, Surjection, IsInjective, Range
<1>3. ExistsBijection(1 .. Len(s), Range(s))
  BY <1>2 DEF ExistsBijection
<1>. QED
  BY <1>1, <1>3, FS_CountingElements, FS_NatBijection

LEMMA InitLease == Init => LeaseInv
<1> SUFFICES ASSUME Init
             PROVE  LeaseInv
  OBVIOUS
<1>1. poolSize \in Nat /\ pool \in [1 .. poolSize -> Conns] /\ IsInjective(pool)
  BY DEF Init
<1>2. pool \in Seq(Conns) /\ Len(pool) = poolSize
  BY <1>1
<1>3. Range(pool) \subseteq Conns
  BY <1>1 DEF Range
<1>4. Holding = {} /\ Opened = Range(pool) /\ \A b \in Opened : pOpen[b]
  BY <1>3 DEF Init, Holding, Opened
<1>5. Cardinality(Opened) = poolSize
  BY <1>1, <1>2, <1>4, DistinctLength
<1>. QED
  BY <1>1, <1>4, <1>5 DEF LeaseInv

\* Most steps change neither who holds a connection nor which are open.
LEMMA LeaseFrame ==
  ASSUME LeaseInv, UNCHANGED <<poolSize, pool, pOpen, lease>>,
         Holding' = Holding, Opened' = Opened
  PROVE  LeaseInv'
BY DEF LeaseInv, UsePool

(***************************************************************************)
(* A connection that comes back finds room in the pool.                    *)
(***************************************************************************)
LEMMA RoomToReturn ==
  ASSUME TypeOK, LeaseInv, UsePool, NEW c \in Holding
  PROVE  Len(pool) < poolSize
<1>1. pool \in Seq(Conns) /\ IsFiniteSet(Opened) /\ lease[c] \in Opened
  BY FS_Subset DEF TypeOK, BackendTypeOK, LeaseInv, Opened
<1>2. Cardinality(Range(pool)) = Len(pool) /\ Len(pool) \in Nat
  BY <1>1, DistinctLength, LenProperties DEF LeaseInv
<1>3. /\ IsFiniteSet(Opened \ {lease[c]})
      /\ Cardinality(Opened \ {lease[c]}) = Cardinality(Opened) - 1
  BY <1>1, FS_RemoveElement
<1>4. Range(pool) \subseteq Opened \ {lease[c]}
  BY DEF LeaseInv
<1>5. Cardinality(Range(pool)) <= Cardinality(Opened \ {lease[c]})
  BY <1>3, <1>4, FS_Subset
<1>6. Cardinality(Opened) = poolSize /\ Cardinality(Opened) \in Nat
  BY <1>1, FS_CardinalityType DEF LeaseInv
<1>. QED
  BY <1>2, <1>3, <1>5, <1>6

LEMMA StepLease ==
  ASSUME TypeInv, LeaseInv, [Next]_vars
  PROVE  LeaseInv'
<1>0. /\ h \in [Clients -> {"none", "get", "read", "write", "return", "close", "done"}]
      /\ lease \in [Clients -> Conns \cup {None}]
      /\ pool \in Seq(Conns)
      /\ echo \in [Conns -> {"new", "running", "closed"}]
      /\ pOpen \in [Conns -> BOOLEAN]
      /\ \A c \in Clients : app[c] = "new" => h[c] = "none"
      /\ TypeOK
  BY DEF TypeInv, TypeOK, RelayTypeOK, BackendTypeOK, Started
<1> USE DEF client, relay, backend, pooling, Goto
<1>1. ASSUME NEW c \in Clients, Accept(c) \/ ClientSend(c) \/ ClientClose(c) \/ Writer(c)
      PROVE  LeaseInv'
  <2>1. UNCHANGED <<poolSize, pool, pOpen, lease, echo>>
    BY <1>1 DEF Accept, ClientSend, ClientClose, Writer, WriterRead, WriterEnd,
                WriterWrite, WriterWriteGone
  <2>2. Holding' = Holding
    <3>1. CASE Accept(c)
      BY <1>0, <3>1 DEF Accept, Holding
    <3>2. CASE ClientSend(c) \/ ClientClose(c) \/ Writer(c)
      BY <3>2 DEF ClientSend, ClientClose, Writer, WriterRead, WriterEnd,
                  WriterWrite, WriterWriteGone, Holding
    <3>. QED
      BY <1>1, <3>1, <3>2
  <2>. QED
    BY <2>1, <2>2, LeaseFrame DEF Opened
<1>2. ASSUME NEW c \in Clients,
             GetFails(c) \/ RelayRead(c) \/ RelayEOF(c) \/ RelayWrite(c)
               \/ RelayWriteGone(c) \/ CloseClient(c)
      PROVE  LeaseInv'
  <2>1. UNCHANGED <<poolSize, pool, pOpen, lease, echo>>
    BY <1>2 DEF GetFails, RelayRead, RelayEOF, RelayWrite, RelayWriteGone, CloseClient
  <2>2. Holding' = Holding
    BY <1>0, <1>2 DEF GetFails, RelayRead, RelayEOF, RelayWrite, RelayWriteGone,
                      CloseClient, Holding
  <2>. QED
    BY <2>1, <2>2, LeaseFrame DEF Opened
<1>3. ASSUME NEW c \in Clients, GetPooled(c)
      PROVE  LeaseInv'
  <2>1. /\ Head(pool) \in Range(pool)
        /\ Range(pool') = Range(pool) \ {Head(pool)}
        /\ IsInjective(pool')
    BY <1>0, <1>3, ReceiveRange DEF GetPooled, LeaseInv
  <2>2. Holding' = Holding \cup {c} /\ c \notin Holding
    BY <1>0, <1>3 DEF GetPooled, Holding
  <2>3. lease'[c] = Head(pool) /\ \A d \in Holding : lease'[d] = lease[d]
    BY <1>0, <1>3, <2>2 DEF GetPooled, Holding
  <2>4. UNCHANGED <<poolSize, pOpen, echo>> /\ Opened' = Opened
    BY <1>3 DEF GetPooled, Opened
  <2>. QED
    BY <2>1, <2>2, <2>3, <2>4 DEF LeaseInv, UsePool
<1>4. ASSUME NEW c \in Clients, GetDialled(c)
      PROVE  LeaseInv'
  <2>1. PICK b \in Conns : /\ echo[b] = "new"
                           /\ lease' = [lease EXCEPT ![c] = b]
                           /\ echo' = [echo EXCEPT ![b] = "running"]
    BY <1>4 DEF GetDialled
  <2>2. Holding' = Holding \cup {c} /\ c \notin Holding
    BY <1>0, <1>4 DEF GetDialled, Holding
  <2>3. lease'[c] = b /\ \A d \in Holding : lease'[d] = lease[d]
    BY <1>0, <2>1, <2>2 DEF Holding
  <2>4. Opened' = Opened \cup {b} /\ b \notin Opened
    BY <1>0, <2>1 DEF Opened
  <2>5. UNCHANGED <<poolSize, pool>> /\ ~UsePool
    BY <1>4 DEF GetDialled
  <2>. QED
    BY <2>2, <2>3, <2>4, <2>5 DEF LeaseInv, UsePool
<1>5. ASSUME NEW c \in Clients, Return(c)
      PROVE  LeaseInv'
  <2>1. /\ c \in Holding /\ Holding' = Holding \ {c}
        /\ UNCHANGED <<lease, echo, poolSize>> /\ Opened' = Opened
    BY <1>0, <1>5 DEF Return, Holding, Opened
  <2>2. CASE UsePool
    <3>1. pool' = Append(pool, lease[c]) /\ pOpen' = pOpen
      BY <1>0, <1>5, <2>1, <2>2, RoomToReturn DEF Return
    <3>2. lease[c] \in Conns /\ lease[c] \notin Range(pool)
      BY <2>1 DEF LeaseInv, Opened
    <3>3. Range(pool') = Range(pool) \cup {lease[c]} /\ IsInjective(pool')
      BY <1>0, <3>1, <3>2, SendRange, SendInjective DEF LeaseInv
    <3>. QED
      BY <2>1, <2>2, <3>1, <3>3 DEF LeaseInv, UsePool
  <2>3. CASE ~UsePool
    <3>1. pool' = pool
      BY <1>5, <2>3 DEF Return
    <3>. QED
      BY <2>1, <2>3, <3>1 DEF LeaseInv, UsePool
  <2>. QED
    BY <2>2, <2>3
<1>6. ASSUME NEW b \in Conns, Echo(b) \/ BackendClose(b)
      PROVE  LeaseInv'
  <2>1. UNCHANGED <<poolSize, pool, pOpen, lease, h>>
    BY <1>6 DEF Echo, EchoCopy, EchoEOF, BackendClose
  <2>2. Opened' = Opened
    BY <1>0, <1>6 DEF Echo, EchoCopy, EchoEOF, BackendClose, Opened
  <2>. QED
    BY <2>1, <2>2, LeaseFrame DEF Holding
<1>7. CASE UNCHANGED vars
  BY <1>7, LeaseFrame DEF vars, Holding, Opened
<1>. QED
  BY <1>1, <1>2, <1>3, <1>4, <1>5, <1>6, <1>7 DEF Next, Handler

(***************************************************************************)
(* However many clients come and go, a backend connection has one holder,  *)
(* and every connection of the pool is in it or with that holder: the      *)
(* default branch of ConnPool.Return is never taken.                       *)
(***************************************************************************)
THEOREM PoolKeepsItsConnections == Spec => []LeaseExclusive
<1>1. Init => TypeInv /\ LeaseInv
  BY InitType, InitLease
<1>2. TypeInv /\ LeaseInv /\ [Next]_vars => (TypeInv /\ LeaseInv)'
  BY StepType, StepLease
<1>3. TypeInv /\ LeaseInv => LeaseExclusive
  BY DEF TypeInv, TypeOK, BackendTypeOK, LeaseInv, LeaseExclusive, Holders, Holding, Opened
<1>. QED
  BY <1>1, <1>2, <1>3, PTL DEF Spec

-----------------------------------------------------------------------------
(***************************************************************************)
(* What a client receives.                                                 *)
(***************************************************************************)
\* Whether what is on its connection can only be c's own.
Clean(c) == ~UsePool \/ lease[c] \notin dirty

\* The messages in s are those of c after its n-th, in order.
Run(s, c, n) == \A i \in 1 .. Len(s) : s[i] = <<c, n + i>>

\* How many messages of c have left the backend, have reached it, and have
\* been taken from c's stream.
Back(c)  == Len(got[c]) + (IF h[c] = "write" THEN 1 ELSE 0)
There(c) == Back(c) + Len(bout[lease[c]])
Taken(c) == There(c) + Len(bin[lease[c]]) + (IF w[c] = "write" THEN 1 ELSE 0)

\* On the way from c back to c nothing is missing: up to what the backend
\* has copied and, while the backend and the writer run, up to what c sent.
InTransit(c) ==
  /\ h[c] = "write" => hbuf[c] = <<c, Back(c)>>
  /\ Run(bout[lease[c]], c, Back(c))
  /\ echo[lease[c]] = "running" =>
       /\ Run(bin[lease[c]], c, There(c))
       /\ w[c] = "write" => wbuf[c] = <<c, Taken(c)>>
       /\ w[c] \in {"read", "write"} =>
            Run(cin[c], c, Taken(c)) /\ sent[c] = Taken(c) + Len(cin[c])

FlowOf(c) ==
  /\ h[c] \in {"none", "get"} => lease[c] = None
  /\ lease[c] = None => got[c] = <<>> /\ Run(cin[c], c, 0) /\ sent[c] = Len(cin[c])
  /\ Clean(c) => Run(got[c], c, 0)
  /\ Clean(c) /\ app[c] = "open" /\ h[c] \in {"read", "write"} => InTransit(c)

FlowInv == \A c \in Clients : FlowOf(c)

\* A connection nobody has used is empty, a clean one in the pool too.  A
\* writer whose handler has gone writes to a dirty connection or, without
\* the pool, to one that no other client ever gets.
ConnInv ==
  /\ \A b \in Conns : echo[b] = "new" => bin[b] = <<>> /\ bout[b] = <<>>
  /\ UsePool =>
       /\ \A b \in Range(pool) \ dirty : bin[b] = <<>> /\ bout[b] = <<>>
       /\ \A c \in Clients :
            w[c] \in {"read", "write"} => c \in Holding \/ lease[c] \in dirty
  /\ ~UsePool => \A c, d \in Clients : lease[c] # None =>
       /\ echo[lease[c]] # "new"
       /\ lease[c] = lease[d] => c = d

(***************************************************************************)
(* A run of messages grows at its end and shrinks at its head.             *)
(***************************************************************************)
LEMMA RunSend ==
  ASSUME NEW c, NEW n \in Nat, NEW s \in Seq(Msg), NEW e \in Msg,
         Run(s, c, n), e = <<c, n + Len(s) + 1>>
  PROVE  Run(Append(s, e), c, n) /\ Len(Append(s, e)) = Len(s) + 1
<1>1. /\ Len(Append(s, e)) = Len(s) + 1 /\ Len(s) \in Nat
      /\ \A i \in 1 .. Len(s) : Append(s, e)[i] = s[i]
      /\ Append(s, e)[Len(s) + 1] = e
  BY AppendProperties, LenProperties
<1>2. ASSUME NEW i \in 1 .. Len(s) + 1
      PROVE  Append(s, e)[i] = <<c, n + i>>
  <2>0. i \in 1 .. Len(s) \/ i = Len(s) + 1
    BY <1>1
  <2>1. CASE i \in 1 .. Len(s)
    BY <1>1, <2>1 DEF Run
  <2>2. CASE i = Len(s) + 1
    <3>1. n + Len(s) + 1 = n + i
      BY <1>1, <2>2
    <3>. QED
      BY <1>1, <2>2, <3>1
  <2>. QED
    BY <2>0, <2>1, <2>2
<1>. QED
  BY <1>1, <1>2 DEF Run

LEMMA RunReceive ==
  ASSUME NEW c, NEW n \in Nat, NEW s \in Seq(Msg), s # <<>>, Run(s, c, n)
  PROVE  /\ Head(s) = <<c, n + 1>>
         /\ Run(Tail(s), c, n + 1)
         /\ Len(Tail(s)) = Len(s) - 1
<1>1. /\ Head(s) = s[1] /\ Len(s) \in Nat \ {0}
      /\ Len(Tail(s)) = Len(s) - 1
      /\ \A i \in 1 .. Len(Tail(s)) : Tail(s)[i] = s[i + 1]
  BY HeadTailProperties, LenProperties, EmptySeq
<1>2. ASSUME NEW i \in 1 .. Len(Tail(s))
      PROVE  Tail(s)[i] = <<c, n + 1 + i>>
  <2>1. i + 1 \in 1 .. Len(s) /\ n + (i + 1) = n + 1 + i
    BY <1>1
  <2>. QED
    BY <1>1, <2>1 DEF Run
<1>3. Head(s) = <<c, n + 1>>
  BY <1>1 DEF Run
<1>. QED
  BY <1>1, <1>2, <1>3 DEF Run

LEMMA EmptyRun == \A c, n : Run(<<>>, c, n)
BY EmptySeq DEF Run

\* A step that touches nothing of client d keeps what is said of d, when its
\* connection is touched only by the end of the backend or not at all.
Own(d) == <<app[d], sent[d], got[d], cin[d], h[d], hbuf[d], w[d], wbuf[d], lease[d]>>

LEMMA FlowFrame ==
  ASSUME NEW d \in Clients, FlowOf(d), Own(d)' = Own(d),
         poolSize' = poolSize, dirty \subseteq dirty',
         Clean(d) /\ h[d] \in {"read", "write"} =>
           /\ bout'[lease[d]] = bout[lease[d]]
           /\ echo'[lease[d]] = "running" =>
                echo[lease[d]] = "running" /\ bin'[lease[d]] = bin[lease[d]]
  PROVE  FlowOf(d)'
<1>1. /\ app'[d] = app[d] /\ sent'[d] = sent[d] /\ got'[d] = got[d]
      /\ cin'[d] = cin[d] /\ h'[d] = h[d] /\ hbuf'[d] = hbuf[d]
      /\ w'[d] = w[d] /\ wbuf'[d] = wbuf[d] /\ lease'[d] = lease[d]
  BY DEF Own
<1>2. Clean(d)' => Clean(d)
  BY <1>1 DEF Clean, UsePool
<1>3. ASSUME Clean(d)', app'[d] = "open", h'[d] \in {"read", "write"}
      PROVE  InTransit(d)'
  <2>1. InTransit(d) /\ bout'[lease[d]] = bout[lease[d]]
    BY <1>1, <1>2, <1>3 DEF FlowOf
  <2>2. Back(d)' = Back(d) /\ There(d)' = There(d)
    BY <1>1, <2>1 DEF Back, There
  <2>3. CASE echo'[lease[d]] = "running"
    <3>1. echo[lease[d]] = "running" /\ bin'[lease[d]] = bin[lease[d]]
      BY <1>1, <1>2, <1>3, <2>3
    <3>2. Taken(d)' = Taken(d)
      BY <1>1, <2>2, <3>1 DEF Taken
    <3>. QED
      BY <1>1, <2>1, <2>2, <3>1, <3>2 DEF InTransit
  <2>4. CASE echo'[lease[d]] # "running"
    BY <1>1, <2>1, <2>2, <2>4 DEF InTransit
  <2>. QED
    BY <2>3, <2>4
<1>. QED
  BY <1>1, <1>2, <1>3 DEF FlowOf

LEMMA InitFlow == Init => FlowInv /\ ConnInv
<1> SUFFICES ASSUME Init
             PROVE  FlowInv /\ ConnInv
  OBVIOUS
<1>1. ASSUME NEW c \in Clients
      PROVE  FlowOf(c)
  BY EmptyRun, EmptySeq DEF Init, FlowOf
<1>2. ConnInv
  <2>1. \A b \in Conns : bin[b] = <<>> /\ bout[b] = <<>>
    BY DEF Init
  <2>2. pool \in [1 .. poolSize -> Conns]
    BY DEF Init
  <2>3. Range(pool) \subseteq Conns
    BY <2>2 DEF Range
  <2>4. \A c \in Clients : w[c] = "none" /\ lease[c] = None
    BY DEF Init
  <2>. QED
    BY <2>1, <2>3, <2>4 DEF ConnInv
<1>. QED
  BY <1>1, <1>2 DEF FlowInv

LEMMA StepConn ==
  ASSUME TypeInv, LeaseInv, ConnInv, FlowInv, [Next]_vars
  PROVE  ConnInv'
<1>0. /\ h \in [Clients -> {"none", "get", "read", "write", "return", "close", "done"}]
      /\ w \in [Clients -> {"none", "read", "write", "done"}]
      /\ lease \in [Clients -> Conns \cup {None}]
      /\ \A c \in Clients : lease[c] = None => h[c] \in {"none", "get", "close", "done"}
      /\ \A c \in Clients : lease[c] = None => w[c] = "none"
      /\ pool \in Seq(Conns)
      /\ echo \in [Conns -> {"new", "running", "closed"}]
      /\ bin \in [Conns -> Seq(Msg)] /\ bout \in [Conns -> Seq(Msg)]
  BY DEF TypeInv, TypeOK, RelayTypeOK, BackendTypeOK, Started
<1>a. \A c \in Clients : /\ app[c] = "new" => h[c] = "none"
                         /\ h[c] \in {"none", "get"} => w[c] = "none" /\ lease[c] = None
  BY DEF TypeInv, Started, FlowInv, FlowOf
<1>b. \A c \in Holding : lease[c] \in Opened /\ lease[c] \in Conns
                         /\ lease[c] \notin Range(pool)
  BY DEF LeaseInv, Opened
<1> USE DEF client, relay, backend, pooling, Goto
<1>1. ASSUME NEW c \in Clients,
             Accept(c) \/ ClientSend(c) \/ ClientClose(c) \/ GetFails(c) \/ RelayEOF(c)
               \/ RelayWrite(c) \/ RelayWriteGone(c) \/ CloseClient(c)
               \/ WriterRead(c) \/ WriterEnd(c) \/ WriterWriteGone(c)
      PROVE  ConnInv'
  <2>1. UNCHANGED <<poolSize, pool, lease, echo, bin, bout, dirty>>
    BY <1>1 DEF Accept, ClientSend, ClientClose, GetFails, RelayEOF, RelayWrite,
                RelayWriteGone, CloseClient, WriterRead, WriterEnd, WriterWriteGone
  <2>2. ASSUME NEW d \in Clients, d \in Holding
        PROVE  d \in Holding'
    BY <1>0, <1>1, <1>a, <2>2 DEF Accept, ClientSend, ClientClose, GetFails, RelayEOF,
             RelayWrite, RelayWriteGone, CloseClient, WriterRead, WriterEnd,
             WriterWriteGone, Holding
  <2>3. ASSUME NEW d \in Clients, w'[d] \in {"read", "write"}
        PROVE  w[d] \in {"read", "write"}
    BY <1>0, <1>1, <2>3 DEF Accept, ClientSend, ClientClose, GetFails, RelayEOF,
             RelayWrite, RelayWriteGone, CloseClient, WriterRead, WriterEnd,
             WriterWriteGone
  <2>. QED
    BY <2>1, <2>2, <2>3 DEF ConnInv, UsePool
<1>2. ASSUME NEW c \in Clients, GetPooled(c)
      PROVE  ConnInv'
  <2>1. UsePool /\ UsePool' /\ UNCHANGED <<echo, bin, bout, dirty>>
    BY <1>2 DEF GetPooled, UsePool
  <2>2. Range(pool') \subseteq Range(pool)
    BY <1>0, <1>2, ReceiveRange DEF GetPooled, LeaseInv
  <2>3. c \in Holding'
    BY <1>0, <1>2 DEF GetPooled, Holding
  <2>4. \A d \in Clients : d # c => /\ w'[d] = w[d] /\ lease'[d] = lease[d]
                                    /\ d \in Holding => d \in Holding'
    BY <1>0, <1>2 DEF GetPooled, Holding
  <2>. QED
    BY <2>1, <2>2, <2>3, <2>4 DEF ConnInv
<1>3. ASSUME NEW c \in Clients, GetDialled(c)
      PROVE  ConnInv'
  <2>1. PICK b \in Conns : /\ echo[b] = "new"
                           /\ lease' = [lease EXCEPT ![c] = b]
                           /\ echo' = [echo EXCEPT ![b] = "running"]
    BY <1>3 DEF GetDialled
  <2>2. ~UsePool /\ ~UsePool' /\ UNCHANGED <<bin, bout>>
    BY <1>3 DEF GetDialled, UsePool
  <2>3. \A d \in Clients : lease[d] # None => lease[d] # b
    BY <2>1, <2>2 DEF ConnInv
  <2>4. /\ lease'[c] = b /\ \A d \in Clients : d # c => lease'[d] = lease[d]
        /\ echo'[b] = "running" /\ \A e \in Conns : e # b => echo'[e] = echo[e]
    BY <1>0, <2>1
  <2>5. ASSUME NEW d \in Clients, lease'[d] # None
        PROVE  echo'[lease'[d]] # "new"
    <3>1. CASE d = c
      BY <2>4, <3>1
    <3>2. CASE d # c
      <4>1. lease'[d] = lease[d] /\ lease[d] \in Conns /\ lease[d] # b
        BY <1>0, <2>3, <2>4, <2>5, <3>2
      <4>2. echo[lease[d]] # "new"
        BY <2>2, <2>5, <4>1 DEF ConnInv
      <4>. QED
        BY <2>4, <4>1, <4>2
    <3>. QED
      BY <3>1, <3>2
  <2>6. \A d, e \in Clients : lease'[d] # None /\ lease'[d] = lease'[e] => d = e
    BY <2>2, <2>3, <2>4 DEF ConnInv
  <2>7. \A e \in Conns : echo'[e] = "new" => bin[e] = <<>> /\ bout[e] = <<>>
    BY <2>4 DEF ConnInv
  <2>. QED
    BY <2>2, <2>5, <2>6, <2>7 DEF ConnInv
<1>4. ASSUME NEW c \in Clients, RelayRead(c)
      PROVE  ConnInv'
  <2>1. UNCHANGED <<poolSize, pool, lease, echo, bin, w, dirty>>
    BY <1>4 DEF RelayRead
  <2>2. c \in Holding /\ Holding' = Holding
    BY <1>0, <1>4 DEF RelayRead, Holding
  <2>3. \A b \in Conns : b # lease[c] => bout'[b] = bout[b]
    BY <1>0, <1>4 DEF RelayRead
  <2>4. echo[lease[c]] # "new" /\ lease[c] \notin Range(pool)
    BY <1>b, <2>2 DEF Opened
  <2>5. Range(pool) \subseteq Conns
    BY <1>0 DEF Range
  <2>. QED
    BY <2>1, <2>2, <2>3, <2>4, <2>5 DEF ConnInv, UsePool
<1>5. ASSUME NEW c \in Clients, Return(c)
      PROVE  ConnInv'
  <2>1. UNCHANGED <<poolSize, lease, echo, bin, bout, w>> /\ dirty \subseteq dirty'
    BY <1>5 DEF Return
  <2>2. c \in Holding /\ Holding' = Holding \ {c}
    BY <1>0, <1>5 DEF Return, Holding
  <2>3. lease[c] \notin dirty' => bin[lease[c]] = <<>> /\ bout[lease[c]] = <<>> /\ w[c] = "done"
    BY <1>5 DEF Return
  <2>4. Range(pool') \subseteq Range(pool) \cup {lease[c]}
    <3>1. pool' = pool \/ pool' = Append(pool, lease[c])
      BY <1>5 DEF Return
    <3>2. Range(Append(pool, lease[c])) = Range(pool) \cup {lease[c]}
      BY <1>0, <1>b, <2>2, SendRange
    <3>. QED
      BY <3>1, <3>2
  <2>5. UsePool' = UsePool
    BY <2>1 DEF UsePool
  <2>6. UsePool => \A b \in Range(pool') \ dirty' : bin[b] = <<>> /\ bout[b] = <<>>
    BY <2>1, <2>3, <2>4 DEF ConnInv
  <2>7. UsePool => \A d \in Clients :
          w[d] \in {"read", "write"} => d \in Holding' \/ lease[d] \in dirty'
    BY <2>1, <2>2, <2>3 DEF ConnInv
  <2>. QED
    BY <2>1, <2>5, <2>6, <2>7 DEF ConnInv
<1>6. ASSUME NEW c \in Clients, WriterWrite(c)
      PROVE  ConnInv'
  <2>1. UNCHANGED <<poolSize, pool, lease, echo, bout, h, dirty>>
    BY <1>6 DEF WriterWrite
  <2>2. Holding' = Holding
    BY <2>1 DEF Holding
  <2>3. w[c] = "write" /\ echo[lease[c]] = "running" /\ lease[c] \in Conns
    BY <1>0, <1>6 DEF WriterWrite
  <2>4. \A b \in Conns : b # lease[c] => bin'[b] = bin[b]
    BY <1>0, <1>6 DEF WriterWrite
  <2>5. \A d \in Clients : w'[d] \in {"read", "write"} => w[d] \in {"read", "write"}
    BY <1>0, <1>6 DEF WriterWrite
  <2>6. UsePool => lease[c] \notin Range(pool) \ dirty
    BY <1>b, <2>3 DEF ConnInv
  <2>7. Range(pool) \subseteq Conns
    BY <1>0 DEF Range
  <2>8. \A b \in Conns : echo[b] = "new" => bin'[b] = <<>> /\ bout[b] = <<>>
    BY <2>3, <2>4 DEF ConnInv
  <2>. QED
    BY <2>1, <2>2, <2>4, <2>5, <2>6, <2>7, <2>8 DEF ConnInv, UsePool
<1>7. ASSUME NEW b \in Conns, Echo(b) \/ BackendClose(b)
      PROVE  ConnInv'
  <2>1. UNCHANGED <<poolSize, pool, lease, w, h, dirty>> /\ Holding' = Holding
    BY <1>7 DEF Echo, EchoCopy, EchoEOF, BackendClose, Holding
  <2>2. \A e \in Conns : echo'[e] = "new" <=> echo[e] = "new"
    BY <1>0, <1>7 DEF Echo, EchoCopy, EchoEOF, BackendClose
  <2>3. ASSUME NEW e \in Conns, bin[e] = <<>>, bout[e] = <<>>
        PROVE  bin'[e] = <<>> /\ bout'[e] = <<>>
    BY <1>0, <1>7, <2>3 DEF Echo, EchoCopy, EchoEOF, BackendClose
  <2>4. Range(pool) \subseteq Conns
    BY <1>0 DEF Range
  <2>5. \A c \in Clients : lease[c] # None => lease[c] \in Conns
    BY <1>0
  <2>. QED
    BY <2>1, <2>2, <2>3, <2>4, <2>5 DEF ConnInv, UsePool
<1>8. CASE UNCHANGED vars
  BY <1>8 DEF vars, ConnInv, UsePool, Holding
<1>. QED
  BY <1>1, <1>2, <1>3, <1>4, <1>5, <1>6, <1>7, <1>8 DEF Next, Handler, Writer

LEMMA StepFlow ==
  ASSUME TypeInv, TypeInv', LeaseInv, ConnInv, FlowInv, [Next]_vars
  PROVE  FlowInv'
<1>0. /\ h \in [Clients -> {"none", "get", "read", "write", "return", "close", "done"}]
      /\ w \in [Clients -> {"none", "read", "write", "done"}]
      /\ hbuf \in [Clients -> Msg \cup {None}] /\ wbuf \in [Clients -> Msg \cup {None}]
      /\ lease \in [Clients -> Conns \cup {None}]
      /\ \A c \in Clients : lease[c] = None => h[c] \in {"none", "get", "close", "done"}
      /\ \A c \in Clients : lease[c] = None => w[c] = "none"
      /\ \A c \in Clients : h[c] = "write" => hbuf[c] \in Msg
      /\ \A c \in Clients : w[c] = "write" => wbuf[c] \in Msg
      /\ \A c \in Clients : app[c] = "new" => h[c] = "none"
  BY DEF TypeInv, TypeOK, RelayTypeOK, Started
<1>a. /\ app \in [Clients -> {"new", "open", "closed"}] /\ sent \in [Clients -> Nat]
      /\ got \in [Clients -> Seq(Msg)] /\ cin \in [Clients -> Seq(Msg)]
      /\ pool \in Seq(Conns)
      /\ echo \in [Conns -> {"new", "running", "closed"}]
      /\ bin \in [Conns -> Seq(Msg)] /\ bout \in [Conns -> Seq(Msg)]
  BY DEF TypeInv, TypeOK, ClientTypeOK, BackendTypeOK
<1>b. \A c \in Clients : FlowOf(c)
  BY DEF FlowInv
<1>c. /\ \A c \in Clients : Len(got[c]) \in Nat /\ Len(cin[c]) \in Nat /\ Back(c) \in Nat
      /\ \A c \in Clients : lease[c] \in Conns =>
           /\ Len(bin[lease[c]]) \in Nat /\ Len(bout[lease[c]]) \in Nat
           /\ There(c) \in Nat /\ Taken(c) \in Nat
  <2>1. \A c \in Clients : Len(got[c]) \in Nat /\ Len(cin[c]) \in Nat
    BY <1>a, LenProperties
  <2>2. \A b \in Conns : Len(bin[b]) \in Nat /\ Len(bout[b]) \in Nat
    BY <1>a, LenProperties
  <2>3. ASSUME NEW c \in Clients
        PROVE  Back(c) \in Nat
    <3>1. Len(got[c]) \in Nat
      BY <2>1
    <3>2. CASE h[c] = "write"
      BY <3>1, <3>2 DEF Back
    <3>3. CASE h[c] # "write"
      BY <3>1, <3>3 DEF Back
    <3>. QED
      BY <3>2, <3>3
  <2>4. ASSUME NEW c \in Clients, lease[c] \in Conns
        PROVE  /\ Len(bin[lease[c]]) \in Nat /\ Len(bout[lease[c]]) \in Nat
               /\ There(c) \in Nat /\ Taken(c) \in Nat
    <3>1. Len(bin[lease[c]]) \in Nat /\ Len(bout[lease[c]]) \in Nat
      BY <2>2, <2>4
    <3>2. There(c) \in Nat
      BY <2>3, <3>1 DEF There
    <3>3. Taken(c) \in Nat
      BY <3>1, <3>2 DEF Taken
    <3>. QED
      BY <3>1, <3>2, <3>3
  <2>. QED
    BY <2>1, <2>3, <2>4
\* A connection of a handler is used by its own two goroutines only.
<1>d. ASSUME NEW c \in Clients, NEW d \in Clients, d # c,
             w[c] \in {"read", "write"} \/ h[c] \in {"read", "write"},
             Clean(d), h[d] \in {"read", "write"}
      PROVE  lease[d] # lease[c]
  <2>1. d \in Holding /\ lease[d] \in Conns
    BY <1>0, <1>d DEF Holding
  <2>2. CASE c \in Holding
    BY <1>d, <2>1, <2>2 DEF LeaseInv
  <2>3. CASE c \notin Holding
    <3>1. w[c] \in {"read", "write"}
      BY <1>d, <2>3 DEF Holding
    <3>2. CASE UsePool
      BY <1>d, <2>3, <3>1, <3>2 DEF ConnInv, Clean
    <3>3. CASE ~UsePool
      <4>1. lease[d] # None
        BY <2>1
      <4>. QED
        BY <1>d, <3>3, <4>1 DEF ConnInv
    <3>. QED
      BY <3>2, <3>3
  <2>. QED
    BY <2>2, <2>3
<1> USE DEF client, relay, backend, pooling, Goto
<1>1. ASSUME NEW c \in Clients, Accept(c)
      PROVE  FlowInv'
  <2>1. ASSUME NEW d \in Clients, d # c
        PROVE  FlowOf(d)'
    BY <1>0, <1>1, <1>a, <1>b, <2>1, FlowFrame DEF Accept, Own
  <2>2. /\ h'[c] = "get" /\ h[c] = "none"
        /\ UNCHANGED <<got, cin, sent, lease, dirty, poolSize>>
    BY <1>0, <1>1 DEF Accept
  <2>3. FlowOf(c)'
    BY <1>b, <2>2 DEF FlowOf, Clean, UsePool
  <2>. QED
    BY <2>1, <2>3 DEF FlowInv
<1>2. ASSUME NEW c \in Clients, ClientSend(c)
      PROVE  FlowInv'
  <2>1. ASSUME NEW d \in Clients, d # c
        PROVE  FlowOf(d)'
    BY <1>0, <1>2, <1>a, <1>b, <2>1, FlowFrame DEF ClientSend, Own
  <2>2. /\ UNCHANGED <<app, got, relay, backend, pooling, dirty>>
        /\ sent'[c] = sent[c] + 1
        /\ cin'[c] = Append(cin[c], <<c, sent[c] + 1>>)
    BY <1>2, <1>a DEF ClientSend
  <2>3. <<c, sent[c] + 1>> \in Msg
    <3>1. sent[c] + 1 \in 1 .. Msgs[c]
      BY <1>2, <1>a DEF ClientSend
    <3>. QED
      BY <3>1 DEF Msg
  <2>4. ASSUME NEW n \in Nat, Run(cin[c], c, n), sent[c] = n + Len(cin[c])
        PROVE  Run(cin'[c], c, n) /\ sent'[c] = n + Len(cin'[c])
    <3>1. <<c, sent[c] + 1>> = <<c, n + Len(cin[c]) + 1>> /\ Len(cin[c]) \in Nat
      BY <1>c, <2>4
    <3>2. /\ Run(Append(cin[c], <<c, sent[c] + 1>>), c, n)
          /\ Len(Append(cin[c], <<c, sent[c] + 1>>)) = Len(cin[c]) + 1
      BY <1>a, <2>3, <2>4, <3>1, RunSend
    <3>. QED
      BY <2>2, <2>4, <3>1, <3>2
  <2>5. lease[c] = None => got[c] = <<>> /\ Run(cin'[c], c, 0) /\ sent'[c] = Len(cin'[c])
    <3>1. SUFFICES ASSUME lease[c] = None
                   PROVE  got[c] = <<>> /\ Run(cin'[c], c, 0) /\ sent'[c] = Len(cin'[c])
      OBVIOUS
    <3>2. got[c] = <<>> /\ Run(cin[c], c, 0) /\ sent[c] = 0 + Len(cin[c])
      BY <1>b, <1>c, <3>1 DEF FlowOf
    <3>3. cin'[c] \in Seq(Msg)
      BY <1>a, <2>2, <2>3, AppendProperties
    <3>4. Run(cin'[c], c, 0) /\ sent'[c] = 0 + Len(cin'[c])
      BY <2>4, <3>2
    <3>. QED
      BY <3>2, <3>3, <3>4, LenProperties
  <2>6. /\ Clean(c)' = Clean(c) /\ Back(c)' = Back(c) /\ There(c)' = There(c)
        /\ Taken(c)' = Taken(c)
    BY <2>2 DEF Clean, UsePool, Back, There, Taken
  <2>7. ASSUME InTransit(c), lease[c] \in Conns
        PROVE  InTransit(c)'
    <3>1. echo[lease[c]] = "running" /\ w[c] \in {"read", "write"} =>
            Run(cin'[c], c, Taken(c)) /\ sent'[c] = Taken(c) + Len(cin'[c])
      BY <1>c, <2>4, <2>7 DEF InTransit
    <3>. QED
      BY <2>2, <2>6, <2>7, <3>1 DEF InTransit
  <2>8. h[c] \in {"read", "write"} => lease[c] \in Conns
    BY <1>0
  <2>9. FlowOf(c)'
    BY <1>b, <2>2, <2>5, <2>6, <2>7, <2>8 DEF FlowOf
  <2>. QED
    BY <2>1, <2>9 DEF FlowInv
\* The steps after which nothing is said of what is in transit.
<1>3. ASSUME NEW c \in Clients,
             ClientClose(c) \/ GetFails(c) \/ RelayEOF(c) \/ RelayWriteGone(c)
               \/ Return(c) \/ CloseClient(c)
      PROVE  FlowInv'
  <2>1. /\ UNCHANGED <<sent, got, cin, lease, bin, bout, echo, w, wbuf, poolSize>>
        /\ dirty \subseteq dirty'
        /\ \A d \in Clients : d # c => app'[d] = app[d] /\ h'[d] = h[d] /\ hbuf'[d] = hbuf[d]
    <3>1. CASE ClientClose(c)
      BY <3>1, <1>a DEF ClientClose
    <3>2. CASE GetFails(c)
      BY <3>2, <1>0 DEF GetFails
    <3>3. CASE RelayEOF(c)
      BY <3>3, <1>0 DEF RelayEOF
    <3>4. CASE RelayWriteGone(c)
      BY <3>4, <1>0 DEF RelayWriteGone
    <3>5. CASE Return(c)
      BY <3>5, <1>0 DEF Return
    <3>6. CASE CloseClient(c)
      BY <3>6, <1>0 DEF CloseClient
    <3>. QED
      BY <1>3, <3>1, <3>2, <3>3, <3>4, <3>5, <3>6
  <2>2. ASSUME NEW d \in Clients, d # c
        PROVE  FlowOf(d)'
    BY <1>b, <2>1, <2>2, FlowFrame DEF Own
  <2>3. app'[c] # "open" \/ h'[c] \notin {"read", "write"}
    BY <1>0, <1>3, <1>a DEF ClientClose, GetFails, RelayEOF, RelayWriteGone, Return,
                            CloseClient
  <2>4. h'[c] \in {"none", "get"} => h[c] \in {"none", "get"}
    BY <1>0, <1>3 DEF ClientClose, GetFails, RelayEOF, RelayWriteGone, Return, CloseClient
  <2>5. Clean(c)' => Clean(c)
    BY <2>1 DEF Clean, UsePool
  <2>6. FlowOf(c)'
    BY <1>b, <2>1, <2>3, <2>4, <2>5 DEF FlowOf
  <2>. QED
    BY <2>2, <2>6 DEF FlowInv
<1>4. ASSUME NEW c \in Clients, GetPooled(c) \/ GetDialled(c)
      PROVE  FlowInv'
  <2>1. PICK b \in Conns :
          /\ lease' = [lease EXCEPT ![c] = b]
          /\ b \notin dirty \/ ~UsePool => bin[b] = <<>> /\ bout[b] = <<>>
          /\ \A e \in Conns : e # b => echo'[e] = echo[e]
          /\ \A d \in Holding : lease[d] # b
    <3>1. CASE GetPooled(c)
      <4>1. Head(pool) \in Conns /\ Head(pool) \in Range(pool)
        BY <1>a, <3>1, ReceiveRange DEF GetPooled, LeaseInv
      <4>2. Head(pool) \notin dirty => bin[Head(pool)] = <<>> /\ bout[Head(pool)] = <<>>
        BY <3>1, <4>1 DEF GetPooled, ConnInv
      <4>3. \A d \in Holding : lease[d] # Head(pool)
        BY <4>1 DEF LeaseInv
      <4>. QED
        BY <3>1, <4>1, <4>2, <4>3 DEF GetPooled
    <3>2. CASE GetDialled(c)
      <4>1. PICK b \in Conns : /\ echo[b] = "new"
                               /\ lease' = [lease EXCEPT ![c] = b]
                               /\ echo' = [echo EXCEPT ![b] = "running"]
        BY <3>2 DEF GetDialled
      <4>2. bin[b] = <<>> /\ bout[b] = <<>>
        BY <4>1 DEF ConnInv
      <4>3. \A d \in Holding : lease[d] # b
        BY <4>1 DEF LeaseInv, Opened
      <4>4. \A e \in Conns : e # b => echo'[e] = echo[e]
        BY <1>a, <4>1
      <4>. QED
        BY <4>1, <4>2, <4>3, <4>4
    <3>. QED
      BY <1>4, <3>1, <3>2
  <2>2. /\ h[c] = "get" /\ h' = [h EXCEPT ![c] = "read"] /\ w' = [w EXCEPT ![c] = "read"]
        /\ UNCHANGED <<client, hbuf, wbuf, bin, bout, poolSize, dirty>>
    BY <1>4 DEF GetPooled, GetDialled
  <2>3. ASSUME NEW d \in Clients, d # c
        PROVE  FlowOf(d)'
    <3>1. Own(d)' = Own(d)
      BY <1>0, <2>1, <2>2, <2>3 DEF Own
    <3>2. h[d] \in {"read", "write"} => lease[d] # b /\ lease[d] \in Conns
      BY <1>0, <2>1 DEF Holding
    <3>3. h[d] \in {"read", "write"} => echo'[lease[d]] = echo[lease[d]]
      BY <2>1, <3>2
    <3>. QED
      BY <1>b, <2>2, <3>1, <3>3, FlowFrame
  <2>4. lease[c] = None /\ got[c] = <<>> /\ Run(cin[c], c, 0) /\ sent[c] = Len(cin[c])
    BY <1>b, <2>2 DEF FlowOf
  <2>5. lease'[c] = b /\ b # None /\ h'[c] = "read" /\ w'[c] = "read"
    BY <1>0, <2>1, <2>2
  <2>6. ASSUME Clean(c)'
        PROVE  InTransit(c)'
    <3>1. bin'[b] = <<>> /\ bout'[b] = <<>>
      BY <2>1, <2>2, <2>5, <2>6 DEF Clean, UsePool
    <3>2. Back(c)' = 0 /\ There(c)' = 0 /\ Taken(c)' = 0
      BY <2>2, <2>4, <2>5, <3>1, EmptySeq DEF Back, There, Taken
    <3>3. sent'[c] = 0 + Len(cin'[c]) /\ Run(cin'[c], c, 0)
      BY <1>c, <2>2, <2>4
    <3>. QED
      BY <2>5, <3>1, <3>2, <3>3, EmptyRun DEF InTransit
  <2>7. FlowOf(c)'
    BY <2>2, <2>4, <2>5, <2>6, EmptyRun DEF FlowOf
  <2>. QED
    BY <2>3, <2>7 DEF FlowInv
<1>5. ASSUME NEW c \in Clients, RelayRead(c)
      PROVE  FlowInv'
  <2>1. /\ h[c] = "read" /\ lease[c] \in Conns /\ h'[c] = "write"
        /\ bout[lease[c]] # <<>>
        /\ hbuf'[c] = Head(bout[lease[c]]) /\ bout'[lease[c]] = Tail(bout[lease[c]])
    BY <1>0, <1>5, <1>a DEF RelayRead
  <2>2. UNCHANGED <<client, w, wbuf, lease, echo, pOpen, bin, poolSize, dirty>>
    BY <1>5 DEF RelayRead
  <2>3. ASSUME NEW d \in Clients, d # c
        PROVE  FlowOf(d)'
    <3>1. Own(d)' = Own(d)
      BY <1>0, <1>5, <2>2, <2>3 DEF RelayRead, Own
    <3>2. Clean(d) /\ h[d] \in {"read", "write"} => bout'[lease[d]] = bout[lease[d]]
      BY <1>0, <1>5, <1>a, <1>d, <2>1, <2>3 DEF RelayRead
    <3>. QED
      BY <1>b, <2>2, <3>1, <3>2, FlowFrame
  <2>4. Clean(c)' = Clean(c)
    BY <2>2 DEF Clean, UsePool
  <2>5. ASSUME InTransit(c)
        PROVE  InTransit(c)'
    <3>1. Back(c) = Len(got[c]) /\ Back(c)' = Back(c) + 1
      BY <1>c, <2>1, <2>2 DEF Back
    <3>a. /\ Back(c) \in Nat /\ Len(bout[lease[c]]) \in Nat
          /\ bout[lease[c]] \in Seq(Msg) /\ bout[lease[c]] # <<>>
          /\ Run(bout[lease[c]], c, Back(c))
      BY <1>a, <1>c, <2>1, <2>5 DEF InTransit
    <3>b. /\ Head(bout[lease[c]]) = <<c, Back(c) + 1>>
          /\ Run(Tail(bout[lease[c]]), c, Back(c) + 1)
          /\ Len(Tail(bout[lease[c]])) = Len(bout[lease[c]]) - 1
      BY ONLY <3>a, RunReceive
    <3>2. /\ hbuf'[c] = <<c, Back(c) + 1>> /\ Run(bout'[lease[c]], c, Back(c) + 1)
          /\ Len(bout'[lease[c]]) = Len(bout[lease[c]]) - 1
      BY <2>1, <3>b
    <3>3. There(c)' = There(c)
      <4>1. There(c) = Back(c) + Len(bout[lease[c]])
        BY DEF There
      <4>2. There(c)' = Back(c) + 1 + (Len(bout[lease[c]]) - 1)
        BY <2>2, <3>1, <3>2 DEF There
      <4>. QED
        BY <3>a, <4>1, <4>2
    <3>4. Taken(c)' = Taken(c)
      BY <2>2, <3>3 DEF Taken
    <3>. QED
      BY <2>2, <2>5, <3>1, <3>2, <3>3, <3>4 DEF InTransit
  <2>6. FlowOf(c)'
    BY <1>b, <2>1, <2>2, <2>4, <2>5 DEF FlowOf
  <2>. QED
    BY <2>3, <2>6 DEF FlowInv
<1>6. ASSUME NEW c \in Clients, RelayWrite(c)
      PROVE  FlowInv'
  <2>1. /\ h[c] = "write" /\ lease[c] \in Conns /\ h'[c] = "read" /\ app[c] = "open"
        /\ got'[c] = Append(got[c], hbuf[c]) /\ hbuf[c] \in Msg
    BY <1>0, <1>6, <1>a DEF RelayWrite
  <2>2. UNCHANGED <<app, sent, cin, cOpen, w, wbuf, lease, backend, pooling, dirty>>
    BY <1>6 DEF RelayWrite
  <2>3. ASSUME NEW d \in Clients, d # c
        PROVE  FlowOf(d)'
    <3>1. Own(d)' = Own(d)
      BY <1>0, <1>6, <1>a, <2>2, <2>3 DEF RelayWrite, Own
    <3>. QED
      BY <1>b, <2>2, <3>1, FlowFrame
  <2>4. Clean(c)' = Clean(c)
    BY <2>2 DEF Clean, UsePool
  <2>5. ASSUME Clean(c)
        PROVE  Run(got'[c], c, 0) /\ InTransit(c)'
    <3>1. InTransit(c) /\ Run(got[c], c, 0)
      BY <1>b, <2>1, <2>5 DEF FlowOf
    <3>2. Back(c) = Len(got[c]) + 1
      BY <2>1 DEF Back
    <3>3. hbuf[c] = <<c, 0 + Len(got[c]) + 1>>
      BY <1>c, <2>1, <3>1, <3>2 DEF InTransit
    <3>4. /\ Run(Append(got[c], hbuf[c]), c, 0)
          /\ Len(Append(got[c], hbuf[c])) = Len(got[c]) + 1
      BY <1>a, <2>1, <3>1, <3>3, RunSend
    <3>5. Back(c)' = Back(c)
      BY <1>c, <2>1, <3>2, <3>4 DEF Back
    <3>6. There(c)' = There(c) /\ Taken(c)' = Taken(c)
      BY <2>2, <3>5 DEF There, Taken
    <3>. QED
      BY <2>1, <2>2, <3>1, <3>4, <3>5, <3>6 DEF InTransit
  <2>6. FlowOf(c)'
    BY <1>b, <2>1, <2>2, <2>4, <2>5 DEF FlowOf
  <2>. QED
    BY <2>3, <2>6 DEF FlowInv
<1>7. ASSUME NEW c \in Clients, WriterRead(c)
      PROVE  FlowInv'
  <2>1. /\ w[c] = "read" /\ w'[c] = "write" /\ lease[c] \in Conns
        /\ cin[c] # <<>> /\ wbuf'[c] = Head(cin[c]) /\ cin'[c] = Tail(cin[c])
    BY <1>0, <1>7, <1>a DEF WriterRead
  <2>2. UNCHANGED <<app, sent, got, cOpen, h, hbuf, lease, backend, pooling, dirty>>
    BY <1>7 DEF WriterRead
  <2>3. ASSUME NEW d \in Clients, d # c
        PROVE  FlowOf(d)'
    <3>1. Own(d)' = Own(d)
      BY <1>0, <1>7, <1>a, <2>2, <2>3 DEF WriterRead, Own
    <3>. QED
      BY <1>b, <2>2, <3>1, FlowFrame
  <2>4. Clean(c)' = Clean(c) /\ Back(c)' = Back(c) /\ There(c)' = There(c)
    BY <2>2 DEF Clean, UsePool, Back, There
  <2>5. ASSUME InTransit(c)
        PROVE  InTransit(c)'
    <3>1. Taken(c)' = Taken(c) + 1
      BY <1>c, <2>1, <2>2, <2>4 DEF Taken
    <3>2. ASSUME echo[lease[c]] = "running"
          PROVE  /\ wbuf'[c] = <<c, Taken(c) + 1>> /\ Run(cin'[c], c, Taken(c) + 1)
                 /\ sent[c] = Taken(c) + 1 + Len(cin'[c])
      <4>1. Run(cin[c], c, Taken(c)) /\ sent[c] = Taken(c) + Len(cin[c])
        BY <2>1, <2>5, <3>2 DEF InTransit
      <4>2. /\ Taken(c) \in Nat /\ cin[c] \in Seq(Msg) /\ cin[c] # <<>>
            /\ Len(cin[c]) \in Nat
        BY <1>a, <1>c, <2>1
      <4>3. /\ Head(cin[c]) = <<c, Taken(c) + 1>>
            /\ Run(Tail(cin[c]), c, Taken(c) + 1)
            /\ Len(Tail(cin[c])) = Len(cin[c]) - 1
        <5>1. PICK n \in Nat : n = Taken(c)
          BY <4>2
        <5>2. Run(cin[c], c, n)
          BY <4>1, <5>1
        <5>. QED
          BY ONLY <4>2, <5>1, <5>2, RunReceive
      <4>4. Taken(c) + Len(cin[c]) = Taken(c) + 1 + (Len(cin[c]) - 1)
        BY <4>2
      <4>. QED
        BY <2>1, <4>1, <4>3, <4>4
    <3>. QED
      BY <2>1, <2>2, <2>4, <2>5, <3>1, <3>2 DEF InTransit
  <2>6. h[c] \notin {"none", "get"} \/ lease[c] = None
    BY <1>b DEF FlowOf
  <2>7. FlowOf(c)'
    BY <1>b, <2>1, <2>2, <2>4, <2>5 DEF FlowOf
  <2>. QED
    BY <2>3, <2>7 DEF FlowInv
<1>8. ASSUME NEW c \in Clients, WriterWrite(c)
      PROVE  FlowInv'
  <2>1. /\ w[c] = "write" /\ w'[c] = "read" /\ lease[c] \in Conns /\ wbuf[c] \in Msg
        /\ bin'[lease[c]] = Append(bin[lease[c]], wbuf[c])
        /\ echo[lease[c]] = "running"
    BY <1>0, <1>8, <1>a DEF WriterWrite
  <2>2. UNCHANGED <<client, h, hbuf, lease, echo, pOpen, bout, poolSize, dirty>>
    BY <1>8 DEF WriterWrite
  <2>3. ASSUME NEW d \in Clients, d # c
        PROVE  FlowOf(d)'
    <3>1. Own(d)' = Own(d)
      BY <1>0, <1>8, <2>2, <2>3 DEF WriterWrite, Own
    <3>2. Clean(d) /\ h[d] \in {"read", "write"} => bin'[lease[d]] = bin[lease[d]]
      BY <1>0, <1>8, <1>a, <1>d, <2>1, <2>3 DEF WriterWrite
    <3>. QED
      BY <1>b, <2>2, <3>1, <3>2, FlowFrame
  <2>4. Clean(c)' = Clean(c) /\ Back(c)' = Back(c) /\ There(c)' = There(c)
    BY <2>2 DEF Clean, UsePool, Back, There
  <2>5. ASSUME InTransit(c)
        PROVE  InTransit(c)'
    <3>1. Taken(c) = There(c) + Len(bin[lease[c]]) + 1
      BY <2>1 DEF Taken
    <3>2. Run(bin[lease[c]], c, There(c)) /\ wbuf[c] = <<c, There(c) + Len(bin[lease[c]]) + 1>>
      BY <2>1, <2>5, <3>1 DEF InTransit
    <3>a. /\ There(c) \in Nat /\ Len(bin[lease[c]]) \in Nat
          /\ bin[lease[c]] \in Seq(Msg)
      BY <1>a, <1>c, <2>1
    <3>b. /\ Run(Append(bin[lease[c]], wbuf[c]), c, There(c))
          /\ Len(Append(bin[lease[c]], wbuf[c])) = Len(bin[lease[c]]) + 1
      BY ONLY <2>1, <3>a, <3>2, RunSend
    <3>3. /\ Run(bin'[lease[c]], c, There(c))
          /\ Len(bin'[lease[c]]) = Len(bin[lease[c]]) + 1
      BY <2>1, <3>b
    <3>4. Taken(c)' = Taken(c)
      <4>1. Taken(c)' = There(c) + (Len(bin[lease[c]]) + 1) + 0
        BY <2>1, <2>2, <2>4, <3>3 DEF Taken
      <4>. QED
        BY <3>a, <3>1, <4>1
    <3>. QED
      BY <2>1, <2>2, <2>4, <2>5, <3>3, <3>4 DEF InTransit
  <2>6. FlowOf(c)'
    BY <1>b, <2>2, <2>4, <2>5 DEF FlowOf
  <2>. QED
    BY <2>3, <2>6 DEF FlowInv
<1>9. ASSUME NEW c \in Clients, WriterEnd(c) \/ WriterWriteGone(c)
      PROVE  FlowInv'
  <2>1. UNCHANGED <<client, h, hbuf, lease, backend, poolSize, dirty>>
    BY <1>9 DEF WriterEnd, WriterWriteGone
  <2>2. ASSUME NEW d \in Clients, d # c
        PROVE  FlowOf(d)'
    <3>1. Own(d)' = Own(d)
      BY <1>0, <1>9, <2>1, <2>2 DEF WriterEnd, WriterWriteGone, Own
    <3>. QED
      BY <1>b, <2>1, <3>1, FlowFrame
  \* The writer goes on only when the backend has ended the connection.
  <2>3. echo[lease[c]] = "running" => w'[c] = "done"
    <3>1. CASE WriterEnd(c)
      BY <1>0, <3>1 DEF WriterEnd
    <3>2. CASE WriterWriteGone(c)
      <4>1. echo[lease[c]] = "running" => ~pOpen[lease[c]]
        BY <3>2 DEF WriterWriteGone
      <4>2. PICK loc \in {"done"} \cup (IF pOpen[lease[c]] THEN {"read"} ELSE {}) :
              w' = [w EXCEPT ![c] = loc]
        BY <3>2 DEF WriterWriteGone
      <4>3. w'[c] = loc
        BY <1>0, <4>2
      <4>. QED
        BY <4>1, <4>2, <4>3
    <3>. QED
      BY <1>9, <3>1, <3>2
  <2>4. Clean(c)' = Clean(c) /\ Back(c)' = Back(c) /\ There(c)' = There(c)
    BY <2>1 DEF Clean, UsePool, Back, There
  <2>5. ASSUME InTransit(c)
        PROVE  InTransit(c)'
    BY <2>1, <2>3, <2>4, <2>5 DEF InTransit
  <2>6. FlowOf(c)'
    BY <1>b, <2>1, <2>4, <2>5 DEF FlowOf
  <2>. QED
    BY <2>2, <2>6 DEF FlowInv
<1>10. ASSUME NEW b \in Conns, Echo(b) \/ BackendClose(b)
       PROVE  FlowInv'
  <2>1. UNCHANGED <<client, relay, pOpen, poolSize, dirty>>
    BY <1>10 DEF Echo, EchoCopy, EchoEOF, BackendClose
  <2>2. CASE EchoEOF(b) \/ BackendClose(b)
    <3>1. bout' = bout /\ \A e \in Conns :
            echo'[e] = "running" => echo[e] = "running" /\ bin'[e] = bin[e]
      BY <1>a, <2>2 DEF EchoEOF, BackendClose
    <3>2. ASSUME NEW d \in Clients
          PROVE  FlowOf(d)'
      <4>1. Own(d)' = Own(d)
        BY <2>1 DEF Own
      <4>2. h[d] \in {"read", "write"} => lease[d] \in Conns
        BY <1>0
      <4>. QED
        BY <1>b, <2>1, <3>1, <4>1, <4>2, FlowFrame
    <3>. QED
      BY <3>2 DEF FlowInv
  <2>3. CASE EchoCopy(b)
    <3>1. /\ bin[b] # <<>> /\ echo[b] = "running" /\ echo' = echo
          /\ bout'[b] = Append(bout[b], Head(bin[b])) /\ bin'[b] = Tail(bin[b])
          /\ \A e \in Conns : e # b => bin'[e] = bin[e] /\ bout'[e] = bout[e]
      BY <1>a, <2>3 DEF EchoCopy
    <3>2. ASSUME NEW d \in Clients
          PROVE  FlowOf(d)'
      <4>1. Own(d)' = Own(d)
        BY <2>1 DEF Own
      <4>2. h[d] \in {"read", "write"} => lease[d] \in Conns
        BY <1>0
      <4>3. CASE lease[d] # b
        BY <1>b, <2>1, <3>1, <4>1, <4>2, <4>3, FlowFrame
      <4>4. CASE lease[d] = b
        <5>1. Clean(d)' = Clean(d) /\ Back(d)' = Back(d)
          BY <2>1 DEF Clean, UsePool, Back
        <5>2. ASSUME InTransit(d)
              PROVE  InTransit(d)'
          <6>1. Run(bout[b], d, Back(d)) /\ Run(bin[b], d, There(d))
            BY <3>1, <4>4, <5>2 DEF InTransit
          <6>2. There(d) = Back(d) + Len(bout[b])
            BY <4>4 DEF There
          <6>a. /\ Back(d) \in Nat /\ There(d) \in Nat
                /\ Len(bin[b]) \in Nat /\ Len(bout[b]) \in Nat
                /\ bin[b] \in Seq(Msg) /\ bout[b] \in Seq(Msg)
            BY <1>a, <1>c, <4>4
          <6>3. /\ Head(bin[b]) = <<d, There(d) + 1>>
                /\ Run(Tail(bin[b]), d, There(d) + 1)
                /\ Len(Tail(bin[b])) = Len(bin[b]) - 1
            <7>1. PICK n \in Nat : n = There(d)
              BY <6>a
            <7>2. Run(bin[b], d, n)
              BY <6>1, <7>1
            <7>3. bin[b] \in Seq(Msg) /\ bin[b] # <<>>
              BY <3>1, <6>a
            <7>. QED
              BY ONLY <7>1, <7>2, <7>3, RunReceive
          <6>4. Head(bin[b]) \in Msg
            BY <3>1, <6>a, HeadTailProperties
          <6>b. Head(bin[b]) = <<d, Back(d) + Len(bout[b]) + 1>>
            BY <6>2, <6>3
          <6>c. /\ Run(Append(bout[b], Head(bin[b])), d, Back(d))
                /\ Len(Append(bout[b], Head(bin[b]))) = Len(bout[b]) + 1
            BY ONLY <6>1, <6>4, <6>a, <6>b, RunSend
          <6>5. /\ Run(bout'[b], d, Back(d)) /\ Len(bout'[b]) = Len(bout[b]) + 1
                /\ Run(bin'[b], d, There(d) + 1) /\ Len(bin'[b]) = Len(bin[b]) - 1
            BY <3>1, <6>3, <6>c
          <6>6. There(d)' = There(d) + 1
            <7>1. There(d)' = Back(d) + (Len(bout[b]) + 1)
              BY <2>1, <4>4, <5>1, <6>5 DEF There
            <7>. QED
              BY <6>2, <6>a, <7>1
          <6>7. Taken(d)' = Taken(d)
            <7>1. Taken(d)' = There(d) + 1 + (Len(bin[b]) - 1)
                                + (IF w[d] = "write" THEN 1 ELSE 0)
              BY <2>1, <4>4, <6>5, <6>6 DEF Taken
            <7>2. Taken(d) = There(d) + Len(bin[b]) + (IF w[d] = "write" THEN 1 ELSE 0)
              BY <4>4 DEF Taken
            <7>. QED
              BY <6>a, <7>1, <7>2
          <6>. QED
            BY <2>1, <3>1, <4>4, <5>1, <5>2, <6>5, <6>6, <6>7 DEF InTransit
        <5>. QED
          BY <1>b, <2>1, <5>1, <5>2 DEF FlowOf
      <4>. QED
        BY <4>3, <4>4
    <3>. QED
      BY <3>2 DEF FlowInv
  <2>. QED
    BY <1>10, <2>2, <2>3 DEF Echo
<1>11. CASE UNCHANGED vars
  <2>1. ASSUME NEW d \in Clients
        PROVE  FlowOf(d)'
    BY <1>11, <1>b, FlowFrame DEF vars, Own
  <2>. QED
    BY <2>1 DEF FlowInv
<1>. QED
  BY <1>1, <1>2, <1>3, <1>4, <1>5, <1>6, <1>7, <1>8, <1>9, <1>10, <1>11
  DEF Next, Handler, Writer

(***************************************************************************)
(* For any number of clients and connections: a client receives the echo   *)
(* of what it sent, in order and nothing else, except on a connection that *)
(* went back to the pool while it was still in use.                        *)
(***************************************************************************)
THEOREM EchoesComeBackInOrder == Spec => []EchoInOrder
<1>1. Init => TypeInv /\ LeaseInv /\ ConnInv /\ FlowInv
  BY InitType, InitLease, InitFlow
<1>2. TypeInv /\ LeaseInv /\ ConnInv /\ FlowInv /\ [Next]_vars
        => (TypeInv /\ LeaseInv /\ ConnInv /\ FlowInv)'
  BY StepType, StepLease, StepConn, StepFlow
<1>3. TypeInv /\ FlowInv => EchoInOrder
  <2>1. SUFFICES ASSUME TypeInv, FlowInv, NEW c \in Clients,
                        ~(UsePool /\ lease[c] \in dirty), NEW i \in DOMAIN got[c]
                 PROVE  got[c][i] = <<c, i>>
    BY DEF EchoInOrder
  <2>2. Run(got[c], c, 0)
    BY <2>1 DEF FlowInv, FlowOf, Clean
  <2>3. got[c] \in Seq(Msg) /\ i \in 1 .. Len(got[c])
    BY <2>1, LenProperties DEF TypeInv, TypeOK, ClientTypeOK
  <2>4. 0 + i = i
    BY <2>3
  <2>. QED
    BY <2>2, <2>3, <2>4 DEF Run
<1>. QED
  BY <1>1, <1>2, <1>3, PTL DEF Spec
=============================================================================
