---------------------------- MODULE EpollProofs ----------------------------
(***************************************************************************)
(* Proofs about EpollProxy, for any clients, connections and descriptors,  *)
(* and whatever the collector may finalise: what clients receive, and      *)
(* which connections the races of closeConn and the finalisers can hurt.   *)
(***************************************************************************)
EXTENDS EpollProxy, SequenceTheorems, TLAPS

-----------------------------------------------------------------------------
\* Serve has put the ProxyConn of c under its descriptors.
Mapped(c) == backendFd[c] # None /\ ~(serve.at = "map" /\ serve.client = c)

\* closeConn has closed the descriptors of c.
Past(c) == c \in closed \/ (c = closing /\ loop = "delete")

FdsOf(c) == {clientFd[c], backendFd[c]} \ {None}

\* f is the descriptor of end e of c.
Number(c, e, f) == (e = c /\ f = clientFd[c]) \/ (e = lease[c] /\ f = backendFd[c])

(***************************************************************************)
(* Serve goes through its steps for one client at a time.                  *)
(***************************************************************************)
StepsInv ==
  /\ serve.at = "accept" <=> serve.client = None
  /\ \A c \in Clients :
       /\ app[c] = "new" => lease[c] = None /\ serve.client # c
       /\ lease[c] = None => clientFd[c] = None
       /\ clientFd[c] = None => backendFd[c] = None
       /\ serve.client = c =>
            CASE serve.at = "get"        -> lease[c] = None
              [] serve.at = "dupClient"  -> lease[c] # None /\ clientFd[c] = None
              [] serve.at = "dupBackend" -> clientFd[c] # None /\ backendFd[c] = None
              [] OTHER                   -> backendFd[c] # None

LeaseInv ==
  /\ \A c \in Clients : lease[c] \notin pool
  /\ \A c, d \in Clients : lease[c] = lease[d] /\ lease[c] # None => c = d

(***************************************************************************)
(* The map of the loop names only ProxyConns that closeConn has not done   *)
(* with, under their own numbers.                                          *)
(***************************************************************************)
MapInv ==
  /\ \A f \in Fds : conns[f] # None =>
       Mapped(conns[f]) /\ conns[f] \notin closed /\ f \in FdsOf(conns[f])
  /\ closing # None => Mapped(closing) /\ closing \notin closed
  /\ \A c \in closed : Mapped(c)

(***************************************************************************)
(* Sockets that are not tangled: a number used for one refers to it or is  *)
(* closed, and a number that refers to it is used for nothing else.        *)
(***************************************************************************)
UseInv ==
  \A e \in Ends \ tangled, f \in Fds :
    /\ e \in Users(f) => file[f] \in {e, None}
    /\ file[f] = e => Users(f) \subseteq {e}

(***************************************************************************)
(* While nothing is finalised every number in use refers to its socket up  *)
(* to CloseFds, so nothing gets tangled.                                   *)
(***************************************************************************)
Exact(c) ==
  /\ clientFd[c] # None  => file[clientFd[c]] = c
  /\ backendFd[c] # None => file[backendFd[c]] = lease[c]
  /\ \A e \in Ends : own[e] \notin FdsOf(c)

ExactInv ==
  Collected = {} =>
    /\ tangled = {}
    /\ \A e \in Ends : own[e] # None => file[own[e]] = e
    /\ \A c \in Clients : ~Past(c) => Exact(c)

(***************************************************************************)
(* One request of each client that is not tangled is on its way at most,   *)
(* and nothing is in a connection that nobody holds.                       *)
(***************************************************************************)
Clean(c) == {c, lease[c]} \cap tangled = {}

Asked(c) == Len(inq[c])
AtEcho(c) == IF lease[c] = None THEN 0 ELSE Len(echoq[lease[c]])
Echoed(c) == IF lease[c] = None THEN 0 ELSE Len(inq[lease[c]])

OnWay(c) == Asked(c) + AtEcho(c) + Echoed(c)

OnlySent(c, q) == \A i \in DOMAIN q : q[i] = <<c, sent[c]>>

Flow(c) ==
  /\ \A i \in DOMAIN got[c] : got[c][i] = <<c, i>>
  /\ Len(got[c]) + OnWay(c) <= sent[c] /\ sent[c] <= Len(got[c]) + 1
  /\ OnlySent(c, inq[c])
  /\ lease[c] # None => OnlySent(c, inq[lease[c]]) /\ OnlySent(c, echoq[lease[c]])

Unused(b) == \A c \in Clients : lease[c] # b

FlowInv ==
  /\ \A c \in Clients : Clean(c) => Flow(c)
  /\ \A b \in Conns \ tangled : Unused(b) => inq[b] = <<>> /\ echoq[b] = <<>>

(***************************************************************************)
(* First-hand descriptors, up to CloseFds and while their os.File is not   *)
(* finalised: nobody else has the number or ever had it, so the interest   *)
(* list names the right socket under it, and what was readable is until it *)
(* is read.                                                                *)
(***************************************************************************)
Sound(c) == c \notin reused /\ Clean(c) /\ ~Past(c)

Holds(c, e, f) == Sound(c) /\ Number(c, e, f) /\ <<e, f>> \in finals

Kept(c, e, f) ==
  /\ file[f] = e
  /\ \A d \in Clients, x \in Ends : Number(d, x, f) => d = c /\ x = e
  /\ \A x \in Ends : own[x] # f

KeptInv ==
  /\ \A c \in Clients, e \in Ends, f \in Fds : Holds(c, e, f) => Kept(c, e, f)
  /\ \A y \in finals : \E c \in Clients : Number(c, y[1], y[2])

EntriesInv ==
  /\ \A x \in interest : \E d \in Clients : x[1] \in FdsOf(d)
  /\ \A ev \in batch : \E d \in Clients : ev[1] \in FdsOf(d)
  /\ \A c \in Clients, e \in Ends, f \in Fds : Holds(c, e, f) =>
       \A x \in interest : x[1] = f => x[2] = e

BatchInv ==
  \A c \in Clients, e \in Ends, f \in Fds :
    Holds(c, e, f) /\ <<f, TRUE>> \in batch => Readable(e)

FreshInv ==
  \A c \in Clients : FirstHand(c) =>
    /\ Mapped(c) /\ c \notin closed \cup {closing}
         => conns[clientFd[c]] = c /\ conns[backendFd[c]] = c
    /\ c \in closed \cup {closing} => app[c] = "closed"

-----------------------------------------------------------------------------
(***************************************************************************)
(* Types.                                                                  *)
(***************************************************************************)
LEMMA InitType == Init => TypeOK
<1> SUFFICES ASSUME Init
             PROVE  TypeOK
  OBVIOUS
<1>1. <<>> \in Seq(Msg)
  BY EmptySeq
<1>2. PeerTypeOK
  BY <1>1, EpollAssumption DEF Init, PeerTypeOK
<1>3. KernelTypeOK
  <2>1. own \in [Ends -> Fds \cup {None}]
    BY DEF Init, Numbered
  <2>2. ASSUME NEW f \in Fds
        PROVE  file[f] \in Ends \cup {None}
    <3>1. CASE \E b \in Conns : own[b] = f
      <4>1. file[f] = CHOOSE b \in Conns : own[b] = f
        BY <3>1 DEF Init
      <4>. QED
        BY <3>1, <4>1 DEF Ends
    <3>2. CASE ~\E b \in Conns : own[b] = f
      BY <3>2 DEF Init
    <3>. QED
      BY <3>1, <3>2
  <2>3. file \in [Fds -> Ends \cup {None}]
    <3>1. file = [f \in Fds |-> file[f]]
      BY DEF Init
    <3>. QED
      BY <2>2, <3>1
  <2>. QED
    BY <2>1, <2>3 DEF Init, KernelTypeOK
<1>4. EngineTypeOK
  BY DEF Init, EngineTypeOK
<1>. QED
  BY <1>2, <1>3, <1>4 DEF TypeOK

\* A number that is given out.
LEMMA TakeType ==
  ASSUME TypeOK, NEW f \in Fds, NEW s \in Ends, NEW e \in Ends, Take(f, s, e)
  PROVE  /\ file[f] = None /\ file' \in [Fds -> Ends \cup {None}] /\ file'[f] = s
         /\ \A g \in Fds : g # f => file'[g] = file[g]
         /\ tangled' \subseteq Ends /\ tangled \subseteq tangled'
         /\ Open \subseteq Open'
<1>1. file \in [Fds -> Ends \cup {None}] /\ tangled \subseteq Ends
  BY DEF TypeOK, KernelTypeOK, EngineTypeOK
<1>2. file[f] = None /\ file' = [file EXCEPT ![f] = s]
  BY DEF Take, Free
<1>3. /\ file' \in [Fds -> Ends \cup {None}] /\ file'[f] = s
      /\ \A g \in Fds : g # f => file'[g] = file[g]
  BY <1>1, <1>2
<1>4. Users(f) \subseteq Ends
  BY DEF Users, Ends
<1>5. tangled' \subseteq Ends /\ tangled \subseteq tangled'
  BY <1>1, <1>4 DEF Take
<1>6. Open \subseteq Open'
  BY <1>2, <1>3 DEF Open
<1>. QED
  BY <1>2, <1>3, <1>5, <1>6
Sides(c, f, g) ==
  \/ f = clientFd[c] /\ g = backendFd[c]
  \/ f = backendFd[c] /\ g = clientFd[c]

\* The event of a descriptor in the map belongs to a ProxyConn that closeConn
\* has not touched.
LEMMA EventOwner ==
  ASSUME TypeOK, StepsInv, MapInv, loop = "events", NEW ev \in batch, conns[ev[1]] # None
  PROVE  \E c \in Clients, g \in Fds :
           /\ c = conns[ev[1]] /\ ev[1] \in Fds /\ lease[c] \in Conns
           /\ ~Past(c) /\ c \notin closed /\ Mapped(c)
           /\ Sides(c, ev[1], g)
           /\ SrcFd(c, ev[1]) = ev[1] /\ DstFd(c, ev[1]) = g
<1>1. ev[1] \in Fds /\ conns[ev[1]] \in Clients /\ closing = None
  BY DEF TypeOK, EngineTypeOK
<1>2. PICK c \in Clients : c = conns[ev[1]]
  BY <1>1
<1>3. Mapped(c) /\ c \notin closed /\ ev[1] \in FdsOf(c)
  BY <1>1, <1>2 DEF MapInv
<1>4. /\ backendFd[c] # None /\ clientFd[c] # None /\ lease[c] # None
  BY <1>3 DEF Mapped, StepsInv
<1>5. backendFd[c] \in Fds /\ clientFd[c] \in Fds /\ lease[c] \in Conns
  BY <1>4 DEF TypeOK, EngineTypeOK
<1>6. ~Past(c)
  BY <1>1, <1>3, EpollAssumption DEF Past
<1>7. CASE ev[1] = clientFd[c]
  BY <1>1, <1>2, <1>3, <1>5, <1>6, <1>7 DEF Sides, SrcFd, DstFd
<1>8. CASE ev[1] = backendFd[c] /\ ev[1] # clientFd[c]
  BY <1>1, <1>2, <1>3, <1>5, <1>6, <1>8 DEF Sides, SrcFd, DstFd
<1>. QED
  BY <1>3, <1>7, <1>8 DEF FdsOf

\* What Forward does, between the two ends of one client.
Relay(c, f, g) ==
  /\ c = conns[f] /\ lease[c] \in Conns /\ ~Past(c) /\ c \notin closed /\ Mapped(c)
  /\ Sides(c, f, g)
  /\ <<f, TRUE>> \in batch /\ batch' = batch \ {<<f, TRUE>>}
  /\ file[f] \in Ends /\ inq[file[f]] # <<>>
  /\ inq' = [inq EXCEPT ![file[f]] = Tail(@)]
  /\ \/ file[g] \in Ends /\ Write(file[g], Head(inq[file[f]])) /\ UNCHANGED <<loop, closing>>
     \/ /\ file[g] = None \/ Ended(file[g])
        /\ StartClose(c) /\ UNCHANGED <<got, echoq>>

\* What ReadFails does.
GiveUp(c, f) ==
  /\ c = conns[f] /\ lease[c] \in Conns /\ ~Past(c) /\ c \notin closed /\ Mapped(c)
  /\ \E g \in Fds : Sides(c, f, g)
  /\ <<f, TRUE>> \in batch /\ batch' = batch \ {<<f, TRUE>>}
  /\ file[f] # None => file[f] \in Ends /\ inq[file[f]] = <<>>
  /\ StartClose(c)

LEMMA ForwardRelays ==
  ASSUME TypeOK, StepsInv, MapInv, Forward
  PROVE  \E c \in Clients, f \in Fds, g \in Fds : Relay(c, f, g)
<1>1. PICK ev \in batch :
        /\ conns[ev[1]] # None /\ ev[2]
        /\ file[SrcFd(conns[ev[1]], ev[1])] # None
        /\ inq[file[SrcFd(conns[ev[1]], ev[1])]] # <<>>
        /\ batch' = batch \ {ev}
        /\ inq' = [inq EXCEPT ![file[SrcFd(conns[ev[1]], ev[1])]] = Tail(@)]
        /\ \/ /\ file[DstFd(conns[ev[1]], ev[1])] # None
              /\ Write(file[DstFd(conns[ev[1]], ev[1])],
                       Head(inq[file[SrcFd(conns[ev[1]], ev[1])]]))
              /\ UNCHANGED <<loop, closing>>
           \/ /\ file[DstFd(conns[ev[1]], ev[1])] = None
                  \/ Ended(file[DstFd(conns[ev[1]], ev[1])])
              /\ StartClose(conns[ev[1]]) /\ UNCHANGED <<got, echoq>>
  BY DEF Forward, Done
<1>2. loop = "events"
  BY DEF Forward
<1>3. PICK c \in Clients, g \in Fds :
        /\ c = conns[ev[1]] /\ ev[1] \in Fds /\ lease[c] \in Conns
        /\ ~Past(c) /\ c \notin closed /\ Mapped(c)
        /\ Sides(c, ev[1], g)
        /\ SrcFd(c, ev[1]) = ev[1] /\ DstFd(c, ev[1]) = g
  BY <1>1, <1>2, EventOwner
<1>4. ev = <<ev[1], TRUE>>
  <2>1. PICK h \in Fds, k \in BOOLEAN : ev = <<h, k>>
    BY DEF TypeOK, EngineTypeOK
  <2>2. k = TRUE
    BY <1>1, <2>1
  <2>. QED
    BY <2>1, <2>2
<1>5. file[ev[1]] # None => file[ev[1]] \in Ends
  BY <1>3 DEF TypeOK, KernelTypeOK
<1>6. file[g] # None => file[g] \in Ends
  BY DEF TypeOK, KernelTypeOK
<1>7. Relay(c, ev[1], g)
  BY <1>1, <1>3, <1>4, <1>5, <1>6 DEF Relay
<1>. QED
  BY <1>3, <1>7

LEMMA ReadFailsGivesUp ==
  ASSUME TypeOK, StepsInv, MapInv, ReadFails
  PROVE  \E c \in Clients, f \in Fds : GiveUp(c, f)
<1>1. PICK ev \in batch :
        /\ conns[ev[1]] # None /\ ev[2]
        /\ file[SrcFd(conns[ev[1]], ev[1])] # None =>
             inq[file[SrcFd(conns[ev[1]], ev[1])]] = <<>>
        /\ batch' = batch \ {ev}
        /\ StartClose(conns[ev[1]])
  BY DEF ReadFails, Done
<1>2. loop = "events"
  BY DEF ReadFails
<1>3. PICK c \in Clients, g \in Fds :
        /\ c = conns[ev[1]] /\ ev[1] \in Fds /\ lease[c] \in Conns
        /\ ~Past(c) /\ c \notin closed /\ Mapped(c)
        /\ Sides(c, ev[1], g)
        /\ SrcFd(c, ev[1]) = ev[1] /\ DstFd(c, ev[1]) = g
  BY <1>1, <1>2, EventOwner
<1>4. ev = <<ev[1], TRUE>>
  <2>1. PICK h \in Fds, k \in BOOLEAN : ev = <<h, k>>
    BY DEF TypeOK, EngineTypeOK
  <2>2. k = TRUE
    BY <1>1, <2>1
  <2>. QED
    BY <2>1, <2>2
<1>5. file[ev[1]] # None => file[ev[1]] \in Ends
  BY <1>3 DEF TypeOK, KernelTypeOK
<1>6. GiveUp(c, ev[1])
  BY <1>1, <1>3, <1>4, <1>5 DEF GiveUp
<1>. QED
  BY <1>3, <1>6

LEMMA StepPeer ==
  ASSUME TypeOK, StepsInv, MapInv, [Next]_vars
  PROVE  PeerTypeOK'
<1> USE DEF TypeOK, PeerTypeOK
<1>1. ASSUME NEW c \in Clients, Connect(c) \/ ClientClose(c)
      PROVE  PeerTypeOK'
  BY <1>1 DEF Connect, ClientClose
<1>2. ASSUME NEW c \in Clients, Request(c)
      PROVE  PeerTypeOK'
  <2>1. sent[c] + 1 \in 0 .. Msgs /\ <<c, sent[c] + 1>> \in Msg /\ c \in Ends
    BY <1>2, EpollAssumption DEF Request, Msg, Ends
  <2>2. Append(inq[c], <<c, sent[c] + 1>>) \in Seq(Msg)
    BY <2>1, AppendProperties
  <2>. QED
    BY <1>2, <2>1, <2>2 DEF Request
<1>3. ASSUME NEW b \in Conns, EchoCopy(b)
      PROVE  PeerTypeOK'
  <2>1. /\ Head(echoq[b]) \in Msg /\ Tail(echoq[b]) \in Seq(Msg) /\ b \in Ends
    BY <1>3, HeadTailProperties DEF EchoCopy, Ends
  <2>2. Append(inq[b], Head(echoq[b])) \in Seq(Msg)
    BY <2>1, AppendProperties
  <2>. QED
    BY <1>3, <2>1, <2>2 DEF EchoCopy
<1>4. CASE Forward
  <2>1. PICK c \in Clients, f \in Fds, g \in Fds : Relay(c, f, g)
    BY <1>4, ForwardRelays
  <2>2. /\ file[f] \in Ends /\ Head(inq[file[f]]) \in Msg /\ Tail(inq[file[f]]) \in Seq(Msg)
    BY <2>1, HeadTailProperties DEF Relay
  <2>3. inq' \in [Ends -> Seq(Msg)]
    BY <2>1, <2>2 DEF Relay
  <2>4. got' \in [Clients -> Seq(Msg)] /\ echoq' \in [Conns -> Seq(Msg)]
    <3>1. CASE file[g] \in Ends /\ Write(file[g], Head(inq[file[f]]))
      <4>1. CASE file[g] \in Conns
        <5>1. Append(echoq[file[g]], Head(inq[file[f]])) \in Seq(Msg)
          BY <2>2, <4>1, AppendProperties
        <5>. QED
          BY <3>1, <4>1, <5>1 DEF Write
      <4>2. CASE file[g] \in Clients /\ file[g] \notin Conns
        <5>1. Append(got[file[g]], Head(inq[file[f]])) \in Seq(Msg)
          BY <2>2, <4>2, AppendProperties
        <5>. QED
          BY <3>1, <4>2, <5>1 DEF Write
      <4>. QED
        BY <3>1, <4>1, <4>2 DEF Ends
    <3>2. CASE UNCHANGED <<got, echoq>>
      BY <3>2
    <3>. QED
      BY <2>1, <3>1, <3>2 DEF Relay
  <2>. QED
    BY <1>4, <2>3, <2>4 DEF Forward
<1>5. CASE UNCHANGED peers /\ UNCHANGED inq
  BY <1>5 DEF peers
<1>6. ASSUME NEW c \in Clients, Serve(c)
      PROVE  PeerTypeOK'
  BY <1>5, <1>6 DEF Serve, Get, DupClient, DupBackend, DupFails, MapConns, AddClient, AddBackend, kernel
<1>7. CASE EpollWait \/ IgnoreEvent \/ ReadFails \/ CloseFds \/ DeleteEntries
  BY <1>5, <1>7 DEF EpollWait, IgnoreEvent, ReadFails, CloseFds, DeleteEntries, kernel
<1>8. ASSUME NEW e, FinalizeConn(e) \/ \E f \in Fds : FinalizeFile(e, f)
      PROVE  PeerTypeOK'
  BY <1>5, <1>8 DEF FinalizeFile, FinalizeConn
<1>9. CASE UNCHANGED vars
  BY <1>5, <1>9 DEF vars, kernel
<1>. QED
  BY <1>1, <1>2, <1>3, <1>4, <1>6, <1>7, <1>8, <1>9 DEF Next, Loop


\* A descriptor is closed: what stays open.
LEMMA LeaveType ==
  ASSUME TypeOK, LeaveInterest
  PROVE  interest' \subseteq Fds \X Open' /\ edges' \subseteq interest'
<1>1. ASSUME NEW x \in interest, x[2] \in Open'
      PROVE  x \in Fds \X Open'
  BY <1>1 DEF TypeOK, KernelTypeOK
<1>. QED
  BY <1>1 DEF LeaveInterest, TypeOK, KernelTypeOK

\* Dup gives out a number for whatever the number of e refers to.
LEMMA DupTakes ==
  ASSUME TypeOK, NEW c, NEW e \in Ends, NEW f \in Fds, Dup(c, e, f)
  PROVE  own[e] \in Fds /\ file[own[e]] \in Ends /\ Take(f, file[own[e]], e)
BY DEF Dup, TypeOK, KernelTypeOK

LEMMA StepKernel ==
  ASSUME TypeOK, StepsInv, [Next]_vars
  PROVE  KernelTypeOK'
<1>1. ASSUME UNCHANGED <<file, own, interest>>, edges' \subseteq interest
      PROVE  KernelTypeOK'
  BY <1>1 DEF TypeOK, KernelTypeOK, Open
<1>2. ASSUME NEW e, Raise(e)
      PROVE  edges' \subseteq interest
  BY <1>2 DEF Raise, TypeOK, KernelTypeOK
<1>3. ASSUME NEW f \in Fds, NEW s \in Ends, NEW e \in Ends, Take(f, s, e),
             own' \in [Ends -> Fds \cup {None}], UNCHANGED <<interest, edges>>
      PROVE  KernelTypeOK'
  <2>1. file' \in [Fds -> Ends \cup {None}] /\ Open \subseteq Open'
    BY <1>3, TakeType
  <2>. QED
    BY <1>3, <2>1 DEF TypeOK, KernelTypeOK
<1>4. ASSUME NEW c \in Clients, Connect(c)
      PROVE  KernelTypeOK'
  <2>1. PICK f \in Fds : Take(f, c, c) /\ own' = [own EXCEPT ![c] = f]
    BY <1>4 DEF Connect
  <2>2. c \in Ends /\ own' \in [Ends -> Fds \cup {None}] /\ UNCHANGED <<interest, edges>>
    BY <1>4, <2>1 DEF Connect, Ends, TypeOK, KernelTypeOK
  <2>. QED
    BY <1>3, <2>1, <2>2
<1>5. ASSUME NEW c \in Clients, Get(c)
      PROVE  KernelTypeOK'
  <2>1. PICK b \in pool : Dial(b)
    BY <1>5 DEF Get
  <2>2. b \in Ends /\ UNCHANGED <<interest, edges>>
    BY <1>5 DEF Get, Ends, TypeOK, EngineTypeOK
  <2>3. CASE own[b] = None
    <3>1. PICK f \in Fds : Take(f, b, b) /\ own' = [own EXCEPT ![b] = f]
      BY <2>1, <2>3 DEF Dial
    <3>2. own' \in [Ends -> Fds \cup {None}]
      BY <2>2, <3>1 DEF TypeOK, KernelTypeOK
    <3>. QED
      BY <1>3, <2>2, <3>1, <3>2
  <2>4. CASE own[b] # None
    BY <1>1, <2>1, <2>2, <2>4 DEF Dial, TypeOK, KernelTypeOK
  <2>. QED
    BY <2>3, <2>4
<1>6. ASSUME NEW c \in Clients, NEW f \in Fds, NEW e \in Ends, Dup(c, e, f),
             UNCHANGED <<own, interest, edges>>
      PROVE  KernelTypeOK'
  BY <1>3, <1>6, DupTakes DEF TypeOK, KernelTypeOK
<1>7. ASSUME NEW c \in Clients, DupClient(c) \/ DupBackend(c)
      PROVE  KernelTypeOK'
  <2>1. CASE DupClient(c)
    BY <1>6, <2>1 DEF DupClient, Ends
  <2>2. CASE DupBackend(c)
    <3>1. lease[c] \in Ends
      BY <2>2 DEF DupBackend, StepsInv, TypeOK, EngineTypeOK, Ends
    <3>. QED
      BY <1>6, <2>2, <3>1 DEF DupBackend
  <2>. QED
    BY <1>7, <2>1, <2>2
<1>8. ASSUME NEW c \in Clients, DupFails(c) \/ MapConns(c)
      PROVE  KernelTypeOK'
  BY <1>1, <1>8 DEF DupFails, MapConns, kernel, TypeOK, KernelTypeOK
<1>9. ASSUME NEW f \in Fds, Add(f), UNCHANGED <<file, own>>
      PROVE  KernelTypeOK'
  <2>1. CASE ~CanAdd(f)
    BY <1>1, <1>9, <2>1 DEF Add, TypeOK, KernelTypeOK
  <2>2. CASE CanAdd(f)
    <3>1. <<f, file[f]>> \in Fds \X Open
      BY <2>2 DEF Open, CanAdd
    <3>. QED
      BY <1>9, <2>2, <3>1 DEF Add, TypeOK, KernelTypeOK, Open
  <2>. QED
    BY <2>1, <2>2
<1>10. ASSUME NEW c \in Clients, AddClient(c) \/ AddBackend(c)
       PROVE  KernelTypeOK'
  <2>1. clientFd[c] \in Fds /\ backendFd[c] \in Fds
    BY <1>10 DEF AddClient, AddBackend, StepsInv, TypeOK, EngineTypeOK
  <2>. QED
    BY <1>9, <1>10, <2>1 DEF AddClient, AddBackend
<1>11. ASSUME NEW c \in Clients, Request(c) \/ ClientClose(c)
       PROVE  KernelTypeOK'
  BY <1>1, <1>2, <1>11 DEF Request, ClientClose
<1>12. ASSUME NEW b \in Conns, EchoCopy(b)
       PROVE  KernelTypeOK'
  BY <1>1, <1>2, <1>12 DEF EchoCopy
<1>13. CASE EpollWait
  BY <1>1, <1>13 DEF EpollWait
<1>14. CASE IgnoreEvent \/ Forward \/ ReadFails \/ DeleteEntries
  BY <1>1, <1>14 DEF IgnoreEvent, Forward, ReadFails, DeleteEntries, kernel, TypeOK, KernelTypeOK
<1>15. CASE CloseFds
  <2>1. file' \in [Fds -> Ends \cup {None}] /\ UNCHANGED own
    BY <1>15 DEF CloseFds, TypeOK, KernelTypeOK
  <2>. QED
    BY <1>15, <2>1, LeaveType DEF CloseFds, TypeOK, KernelTypeOK
<1>16. ASSUME NEW e \in Ends, NEW f \in Fds, FinalizeFile(e, f)
       PROVE  KernelTypeOK'
  <2>1. file' \in [Fds -> Ends \cup {None}] /\ UNCHANGED own
    BY <1>16 DEF FinalizeFile, TypeOK, KernelTypeOK
  <2>. QED
    BY <1>16, <2>1, LeaveType DEF FinalizeFile, TypeOK, KernelTypeOK
<1>17. ASSUME NEW e \in Ends, FinalizeConn(e)
       PROVE  KernelTypeOK'
  <2>1. file' \in [Fds -> Ends \cup {None}] /\ own' \in [Ends -> Fds \cup {None}]
    BY <1>17 DEF FinalizeConn, TypeOK, KernelTypeOK
  <2>. QED
    BY <1>17, <2>1, LeaveType DEF FinalizeConn, KernelTypeOK
<1>18. CASE UNCHANGED vars
  BY <1>1, <1>18 DEF vars, kernel, TypeOK, KernelTypeOK
<1>. QED
  BY <1>4, <1>5, <1>7, <1>8, <1>10, <1>11, <1>12, <1>13, <1>14, <1>15, <1>16, <1>17, <1>18
     DEF Next, Loop, Serve

LEMMA StepEngine ==
  ASSUME TypeOK, StepsInv, MapInv, [Next]_vars
  PROVE  EngineTypeOK'
<1> USE DEF TypeOK, EngineTypeOK
<1>1. ASSUME NEW c \in Clients, Connect(c)
      PROVE  EngineTypeOK'
  <2>1. PICK f \in Fds : Take(f, c, c)
    BY <1>1 DEF Connect
  <2>2. tangled' \subseteq Ends
    BY <2>1, TakeType DEF Ends
  <2>. QED
    BY <1>1, <2>2 DEF Connect, pconns, evloop
<1>2. ASSUME NEW b \in Conns, EchoCopy(b)
      PROVE  EngineTypeOK'
  BY <1>2 DEF EchoCopy, pconns, evloop
<1>3. ASSUME NEW c \in Clients, Get(c)
      PROVE  EngineTypeOK'
  <2>1. PICK b \in pool : lease' = [lease EXCEPT ![c] = b] /\ pool' = pool \ {b} /\ Dial(b)
    BY <1>3 DEF Get
  <2>2. tangled' \subseteq Ends
    BY <2>1, TakeType DEF Dial, Ends
  <2>. QED
    BY <1>3, <2>1, <2>2 DEF Get, evloop
<1>4. ASSUME NEW c \in Clients, DupClient(c)
      PROVE  EngineTypeOK'
  <2>1. PICK f \in Fds : Dup(c, c, f) /\ clientFd' = [clientFd EXCEPT ![c] = f]
    BY <1>4 DEF DupClient
  <2>2. c \in Ends /\ tangled' \subseteq Ends
    BY <2>1, DupTakes, TakeType DEF Ends
  <2>. QED
    BY <1>4, <2>1, <2>2 DEF DupClient, Dup, evloop
<1>5. ASSUME NEW c \in Clients, DupBackend(c)
      PROVE  EngineTypeOK'
  <2>1. PICK f \in Fds : Dup(c, lease[c], f) /\ backendFd' = [backendFd EXCEPT ![c] = f]
    BY <1>5 DEF DupBackend
  <2>2. lease[c] \in Ends
    BY <1>5 DEF DupBackend, StepsInv, Ends
  <2>3. tangled' \subseteq Ends
    BY <2>1, <2>2, DupTakes, TakeType
  <2>. QED
    BY <1>5, <2>1, <2>2, <2>3 DEF DupBackend, Dup, evloop
<1>6. ASSUME NEW c \in Clients, MapConns(c)
      PROVE  EngineTypeOK'
  <2>1. conns' \in [Fds -> Clients \cup {None}]
    BY <1>6 DEF MapConns
  <2>. QED
    BY <1>6, <2>1 DEF MapConns, pconns, evloop
<1>7. ASSUME NEW c \in Clients, AddClient(c) \/ AddBackend(c)
      PROVE  EngineTypeOK'
  <2>1. serve' \in [at : {"accept", "addBackend"}, client : Clients \cup {None}]
    BY <1>7 DEF AddClient, AddBackend
  <2>. QED
    BY <1>7, <2>1 DEF AddClient, AddBackend, pconns, evloop
<1>8. CASE EpollWait
  <2>1. batch' \subseteq Fds \X BOOLEAN
    <3>1. ASSUME NEW x \in edges
          PROVE  <<x[1], Readable(x[2])>> \in Fds \X BOOLEAN
      BY DEF KernelTypeOK, Readable
    <3>. QED
      BY <1>8, <3>1 DEF EpollWait
  <2>. QED
    BY <1>8, <2>1 DEF EpollWait, pconns
<1>9. CASE IgnoreEvent
  BY <1>9 DEF IgnoreEvent, Done, pconns
<1>10. CASE Forward
  <2>1. PICK c \in Clients, f \in Fds, g \in Fds : Relay(c, f, g)
    BY <1>10, ForwardRelays
  <2>2. /\ batch' \subseteq batch /\ loop = "events" /\ closing = None
        /\ UNCHANGED <<loop, closing>> \/ (loop' = "close" /\ closing' = c)
    <3>1. batch' \subseteq batch
      BY <2>1 DEF Relay
    <3>2. loop = "events" /\ closing = None
      BY <1>10 DEF Forward
    <3>3. UNCHANGED <<loop, closing>> \/ (loop' = "close" /\ closing' = c)
      BY <2>1 DEF Relay, StartClose
    <3>. QED
      BY <3>1, <3>2, <3>3
  <2>. QED
    BY <1>10, <2>2, EpollAssumption DEF Forward, pconns
<1>11. CASE ReadFails
  <2>1. PICK c \in Clients, f \in Fds : GiveUp(c, f)
    BY <1>11, ReadFailsGivesUp
  <2>. QED
    BY <1>11, <2>1, EpollAssumption DEF ReadFails, GiveUp, StartClose, pconns
<1>12. CASE CloseFds
  BY <1>12 DEF CloseFds, pconns
<1>13. CASE DeleteEntries
  BY <1>13, EpollAssumption DEF DeleteEntries, pconns
<1>14. ASSUME NEW c \in Clients, Request(c) \/ ClientClose(c) \/ DupFails(c)
       PROVE  EngineTypeOK'
  BY <1>14 DEF Request, ClientClose, DupFails, pconns, evloop
<1>15. ASSUME NEW e \in Ends, FinalizeConn(e) \/ \E f \in Fds : FinalizeFile(e, f)
       PROVE  EngineTypeOK'
  BY <1>15 DEF FinalizeFile, FinalizeConn, pconns, evloop
<1>16. CASE UNCHANGED vars
  BY <1>16 DEF vars, pconns, evloop
<1>. QED
  BY <1>1, <1>2, <1>3, <1>4, <1>5, <1>6, <1>7, <1>8, <1>9, <1>10, <1>11, <1>12, <1>13, <1>14, <1>15,
     <1>16 DEF Next, Loop, Serve
-----------------------------------------------------------------------------
(***************************************************************************)
(* Serve, the leases and the map.                                          *)
(***************************************************************************)
LEMMA InitControl == Init => StepsInv /\ LeaseInv /\ MapInv
<1>. QED
  BY EpollAssumption DEF Init, StepsInv, LeaseInv, MapInv

LEMMA StepSteps ==
  ASSUME TypeOK, StepsInv, [Next]_vars
  PROVE  StepsInv'
<1> USE DEF TypeOK, EngineTypeOK
<1>1. CASE UNCHANGED <<app, serve, pconns>>
  BY <1>1 DEF StepsInv, pconns
<1>2. ASSUME NEW c \in Clients, Connect(c)
      PROVE  StepsInv'
  <2>1. app \in [Clients -> {"new", "open", "closed"}]
    BY DEF PeerTypeOK
  <2>. QED
    BY <1>2, <2>1, EpollAssumption DEF Connect, StepsInv, pconns
<1>3. ASSUME NEW c \in Clients, ClientClose(c)
      PROVE  StepsInv'
  <2>1. app \in [Clients -> {"new", "open", "closed"}]
    BY DEF PeerTypeOK
  <2>2. \A d \in Clients : app'[d] = "new" => app[d] = "new"
    BY <1>3, <2>1 DEF ClientClose
  <2>. QED
    BY <1>3, <2>2 DEF ClientClose, StepsInv, pconns
<1>4. ASSUME NEW c \in Clients, Get(c)
      PROVE  StepsInv'
  <2>1. PICK b \in Conns : lease' = [lease EXCEPT ![c] = b]
    BY <1>4 DEF Get
  <2>2. b # None /\ c # None
    BY EpollAssumption
  <2>3. serve = [at |-> "get", client |-> c] /\ serve' = [at |-> "dupClient", client |-> c]
    BY <1>4 DEF Get
  <2>. QED
    BY <1>4, <2>1, <2>2, <2>3 DEF Get, StepsInv, peers
<1>5. ASSUME NEW c \in Clients, DupClient(c)
      PROVE  StepsInv'
  <2>1. PICK f \in Fds : clientFd' = [clientFd EXCEPT ![c] = f]
    BY <1>5 DEF DupClient
  <2>2. f # None /\ c # None
    BY EpollAssumption
  <2>3. serve = [at |-> "dupClient", client |-> c] /\ serve' = [at |-> "dupBackend", client |-> c]
    BY <1>5 DEF DupClient
  <2>. QED
    BY <1>5, <2>1, <2>2, <2>3 DEF DupClient, StepsInv, peers
<1>6. ASSUME NEW c \in Clients, DupBackend(c)
      PROVE  StepsInv'
  <2>1. PICK f \in Fds : backendFd' = [backendFd EXCEPT ![c] = f]
    BY <1>6 DEF DupBackend
  <2>2. f # None /\ c # None
    BY EpollAssumption
  <2>3. serve = [at |-> "dupBackend", client |-> c] /\ serve' = [at |-> "map", client |-> c]
    BY <1>6 DEF DupBackend
  <2>. QED
    BY <1>6, <2>1, <2>2, <2>3 DEF DupBackend, StepsInv, peers
<1>7. ASSUME NEW c \in Clients, MapConns(c)
      PROVE  StepsInv'
  <2>3. serve = [at |-> "map", client |-> c] /\ serve' = [at |-> "addClient", client |-> c]
    BY <1>7 DEF MapConns
  <2>. QED
    BY <1>7, <2>3, EpollAssumption DEF MapConns, StepsInv, peers, pconns
<1>8. ASSUME NEW c \in Clients, AddClient(c) \/ AddBackend(c)
      PROVE  StepsInv'
  <2>1. /\ serve.client = c /\ serve.at \in {"addClient", "addBackend"}
        /\ \/ serve' = [at |-> "accept", client |-> None]
           \/ serve' = [at |-> "addBackend", client |-> c]
    BY <1>8 DEF AddClient, AddBackend
  <2>. QED
    BY <1>8, <2>1, EpollAssumption DEF AddClient, AddBackend, StepsInv, peers, pconns
<1>9. ASSUME NEW c \in Clients, Request(c)
      PROVE  StepsInv'
  BY <1>1, <1>9 DEF Request
<1>10. ASSUME NEW b \in Conns, EchoCopy(b)
      PROVE  StepsInv'
  BY <1>1, <1>10 DEF EchoCopy
<1>11. CASE Loop
  BY <1>1, <1>11 DEF Loop, EpollWait, IgnoreEvent, Forward, ReadFails, CloseFds, DeleteEntries, peers
<1>12. ASSUME NEW e \in Ends, FinalizeConn(e) \/ \E f \in Fds : FinalizeFile(e, f)
       PROVE  StepsInv'
  BY <1>1, <1>12 DEF FinalizeFile, FinalizeConn, peers
<1>13. ASSUME NEW c \in Clients, DupFails(c)
       PROVE  StepsInv'
  BY <1>13, EpollAssumption DEF DupFails, StepsInv, peers, pconns
<1>14. CASE UNCHANGED vars
  BY <1>1, <1>14 DEF vars, peers
<1>. QED
  BY <1>2, <1>3, <1>4, <1>5, <1>6, <1>7, <1>8, <1>9, <1>10, <1>11, <1>12, <1>13, <1>14 DEF Next, Serve

LEMMA StepLease ==
  ASSUME TypeOK, LeaseInv, [Next]_vars
  PROVE  LeaseInv'
<1>1. CASE UNCHANGED <<pool, lease>>
  BY <1>1 DEF LeaseInv
<1>2. ASSUME NEW c \in Clients, Get(c)
      PROVE  LeaseInv'
  BY <1>2 DEF Get, LeaseInv, TypeOK, EngineTypeOK
<1>3. ASSUME NEW c \in Clients, Connect(c) \/ Request(c) \/ ClientClose(c) \/ DupClient(c)
                                \/ DupBackend(c) \/ DupFails(c) \/ MapConns(c) \/ AddClient(c)
                                \/ AddBackend(c)
      PROVE  LeaseInv'
  BY <1>1, <1>3 DEF Connect, Request, ClientClose, DupClient, DupBackend, DupFails, MapConns,
                    AddClient, AddBackend, pconns
<1>4. ASSUME NEW b \in Conns, EchoCopy(b)
      PROVE  LeaseInv'
  BY <1>1, <1>4 DEF EchoCopy, pconns
<1>5. CASE Loop
  BY <1>1, <1>5 DEF Loop, EpollWait, IgnoreEvent, Forward, ReadFails, CloseFds, DeleteEntries, pconns
<1>6. ASSUME NEW e \in Ends, FinalizeConn(e) \/ \E f \in Fds : FinalizeFile(e, f)
      PROVE  LeaseInv'
  BY <1>1, <1>6 DEF FinalizeFile, FinalizeConn, pconns
<1>7. CASE UNCHANGED vars
  BY <1>1, <1>7 DEF vars, pconns
<1>. QED
  BY <1>2, <1>3, <1>4, <1>5, <1>6, <1>7 DEF Next, Serve

\* Once Serve has mapped c, its descriptors do not change any more.
LEMMA StepMapped ==
  ASSUME TypeOK, StepsInv, [Next]_vars, NEW c \in Clients, Mapped(c)
  PROVE  Mapped(c)' /\ clientFd'[c] = clientFd[c] /\ backendFd'[c] = backendFd[c]
         /\ lease'[c] = lease[c]
<1>1. /\ backendFd[c] # None /\ clientFd[c] # None /\ lease[c] # None /\ app[c] # "new"
      /\ ~(serve.at \in {"get", "dupClient", "dupBackend", "map"} /\ serve.client = c)
  BY DEF Mapped, StepsInv
<1>2. CASE UNCHANGED <<serve, pconns>>
  BY <1>2 DEF Mapped, pconns
<1>3. ASSUME NEW d \in Clients, Connect(d) \/ Serve(d)
      PROVE  Mapped(c)' /\ clientFd'[c] = clientFd[c] /\ backendFd'[c] = backendFd[c]
             /\ lease'[c] = lease[c]
  <2>1. CASE Connect(d)
    BY <1>1, <2>1 DEF Connect, Mapped, pconns
  <2>2. CASE Get(d)
    BY <1>1, <2>2 DEF Get, Mapped, TypeOK, EngineTypeOK
  <2>3. CASE DupClient(d)
    BY <1>1, <2>3 DEF DupClient, Mapped, TypeOK, EngineTypeOK
  <2>4. CASE DupBackend(d)
    BY <1>1, <2>4 DEF DupBackend, Mapped, TypeOK, EngineTypeOK
  <2>5. CASE MapConns(d)
    BY <1>1, <2>5 DEF MapConns, Mapped, pconns
  <2>6. CASE DupFails(d) \/ AddClient(d) \/ AddBackend(d)
    BY <1>1, <2>6, EpollAssumption DEF DupFails, AddClient, AddBackend, Mapped, pconns
  <2>. QED
    BY <1>3, <2>1, <2>2, <2>3, <2>4, <2>5, <2>6 DEF Serve
<1>4. ASSUME NEW d \in Clients, Request(d) \/ ClientClose(d)
      PROVE  UNCHANGED <<serve, pconns>>
  BY <1>4 DEF Request, ClientClose
<1>5. ASSUME NEW b \in Conns, EchoCopy(b)
      PROVE  UNCHANGED <<serve, pconns>>
  BY <1>5 DEF EchoCopy
<1>6. CASE Loop
  BY <1>2, <1>6 DEF Loop, EpollWait, IgnoreEvent, Forward, ReadFails, CloseFds, DeleteEntries
<1>7. ASSUME NEW e \in Ends, FinalizeConn(e) \/ \E f \in Fds : FinalizeFile(e, f)
      PROVE  UNCHANGED <<serve, pconns>>
  BY <1>7 DEF FinalizeFile, FinalizeConn
<1>8. CASE UNCHANGED vars
  BY <1>2, <1>8 DEF vars
<1>. QED
  BY <1>2, <1>3, <1>4, <1>5, <1>6, <1>7, <1>8 DEF Next

LEMMA StepMap ==
  ASSUME TypeOK, StepsInv, MapInv, [Next]_vars
  PROVE  MapInv'
<1> USE DEF TypeOK, EngineTypeOK
<1>1. \A c \in Clients : Mapped(c) => Mapped(c)' /\ FdsOf(c)' = FdsOf(c)
  BY StepMapped DEF FdsOf
<1>2. CASE UNCHANGED <<conns, closing, closed>>
  BY <1>1, <1>2 DEF MapInv
<1>3. ASSUME NEW c \in Clients, MapConns(c)
      PROVE  MapInv'
  <2>1. ~Mapped(c) /\ backendFd[c] \in Fds /\ clientFd[c] \in Fds /\ c # None
    BY <1>3, EpollAssumption DEF MapConns, Mapped, StepsInv
  <2>2. Mapped(c)' /\ c \notin closed' /\ clientFd[c] \in FdsOf(c)' /\ backendFd[c] \in FdsOf(c)'
    BY <1>3, <2>1, EpollAssumption DEF MapConns, Mapped, FdsOf, pconns, evloop, MapInv
  <2>3. \A f \in Fds : conns'[f] = conns[f] \/ (conns'[f] = c /\ f \in {clientFd[c], backendFd[c]})
    BY <1>3 DEF MapConns
  <2>4. UNCHANGED <<closing, closed>>
    BY <1>3 DEF MapConns, evloop
  <2>. QED
    BY <1>1, <2>2, <2>3, <2>4 DEF MapInv
<1>4. CASE Forward
  <2>1. PICK c \in Clients, f \in Fds, g \in Fds : Relay(c, f, g)
    BY <1>4, ForwardRelays
  <2>2. UNCHANGED <<conns, closed>> /\ (closing' = closing \/ closing' = c)
    BY <1>4, <2>1 DEF Forward, Relay, StartClose
  <2>3. Mapped(c) /\ c \notin closed
    BY <2>1 DEF Relay
  <2>. QED
    BY <1>1, <2>2, <2>3 DEF MapInv
<1>5. CASE ReadFails
  <2>1. PICK c \in Clients, f \in Fds : GiveUp(c, f)
    BY <1>5, ReadFailsGivesUp
  <2>2. UNCHANGED <<conns, closed>> /\ closing' = c
    BY <1>5, <2>1 DEF ReadFails, GiveUp, StartClose
  <2>3. Mapped(c) /\ c \notin closed
    BY <2>1 DEF GiveUp
  <2>. QED
    BY <1>1, <2>2, <2>3 DEF MapInv
<1>6. CASE DeleteEntries
  <2>1. closing \in Clients /\ Mapped(closing)
    BY <1>6 DEF DeleteEntries, MapInv
  <2>2. closed' = closed \cup {closing} /\ closing' = None
    BY <1>6 DEF DeleteEntries
  <2>3. ASSUME NEW f \in Fds, conns'[f] # None
        PROVE  conns'[f] = conns[f] /\ conns[f] # closing
    <3>1. f \notin {clientFd[closing], backendFd[closing]} /\ conns'[f] = conns[f]
      BY <1>6, <2>3 DEF DeleteEntries
    <3>. QED
      BY <2>3, <3>1 DEF MapInv, FdsOf
  <2>. QED
    BY <1>1, <2>1, <2>2, <2>3 DEF MapInv
<1>7. ASSUME NEW c \in Clients, Connect(c) \/ Request(c) \/ ClientClose(c) \/ Get(c) \/ DupClient(c)
                                \/ DupBackend(c) \/ DupFails(c) \/ AddClient(c) \/ AddBackend(c)
      PROVE  MapInv'
  BY <1>2, <1>7 DEF Connect, Request, ClientClose, Get, DupClient, DupBackend, DupFails, AddClient,
                    AddBackend, evloop
<1>8. ASSUME NEW b \in Conns, EchoCopy(b)
      PROVE  MapInv'
  BY <1>2, <1>8 DEF EchoCopy, evloop
<1>9. CASE EpollWait \/ IgnoreEvent \/ CloseFds
  BY <1>2, <1>9 DEF EpollWait, IgnoreEvent, CloseFds
<1>10. ASSUME NEW e \in Ends, FinalizeConn(e) \/ \E f \in Fds : FinalizeFile(e, f)
       PROVE  MapInv'
  BY <1>2, <1>10 DEF FinalizeFile, FinalizeConn, evloop
<1>11. CASE UNCHANGED vars
  BY <1>2, <1>11 DEF vars, evloop
<1>. QED
  BY <1>3, <1>4, <1>5, <1>6, <1>7, <1>8, <1>9, <1>10, <1>11 DEF Next, Loop, Serve
-----------------------------------------------------------------------------
(***************************************************************************)
(* Whose socket a descriptor refers to.                                    *)

-----------------------------------------------------------------------------
(***************************************************************************)
(* Whose socket a descriptor refers to.                                    *)
(***************************************************************************)
LEMMA PastStays ==
  ASSUME TypeOK, [Next]_vars, NEW c \in Clients, Past(c)
  PROVE  Past(c)'
<1> USE DEF Past
<1>1. CASE UNCHANGED <<loop, closing, closed>>
  BY <1>1
<1>2. ASSUME NEW d \in Clients, Connect(d) \/ Request(d) \/ ClientClose(d) \/ Serve(d)
      PROVE  UNCHANGED <<loop, closing, closed>>
  BY <1>2 DEF Connect, Request, ClientClose, Serve, Get, DupClient, DupBackend, DupFails,
              MapConns, AddClient, AddBackend, evloop
<1>3. ASSUME NEW b \in Conns, EchoCopy(b)
      PROVE  UNCHANGED <<loop, closing, closed>>
  BY <1>3 DEF EchoCopy, evloop
<1>4. CASE Loop
  BY <1>4 DEF Loop, EpollWait, IgnoreEvent, Forward, ReadFails, CloseFds, DeleteEntries
<1>5. ASSUME NEW e \in Ends, FinalizeConn(e) \/ \E f \in Fds : FinalizeFile(e, f)
      PROVE  UNCHANGED <<loop, closing, closed>>
  BY <1>5 DEF FinalizeFile, FinalizeConn, evloop
<1>6. CASE UNCHANGED vars
  BY <1>1, <1>6 DEF vars, evloop
<1>. QED
  BY <1>1, <1>2, <1>3, <1>4, <1>5, <1>6 DEF Next

\* What no step does to the fields of the ProxyConns.
FieldsSet ==
  /\ \A d \in Clients : lease'[d] = lease[d] \/ lease[d] = None
  /\ \A d \in Clients : Relays(d)' => Relays(d) \/ clientFd[d] = None

\* Most steps leave the numbers alone,
Still == FieldsSet /\ UNCHANGED <<file, own, clientFd, backendFd, finals, reused, tangled>>

\* some give out a number, for a net.Conn
GivesOwn(e, f) ==
  /\ FieldsSet /\ Take(f, e, e)
  /\ own' = [own EXCEPT ![e] = f]
  /\ UNCHANGED <<clientFd, backendFd, finals, reused>>

\* or for a duplicate of it,
GivesDup(c, e, f) ==
  /\ FieldsSet /\ Dup(c, e, f)
  /\ serve.client = c /\ serve'.client = c /\ serve.at \in {"dupClient", "dupBackend"}
  /\ \/ /\ e = c /\ clientFd[c] = None
        /\ clientFd' = [clientFd EXCEPT ![c] = f] /\ UNCHANGED backendFd
     \/ /\ e = lease[c] /\ clientFd[c] # None /\ backendFd[c] = None
        /\ backendFd' = [backendFd EXCEPT ![c] = f] /\ UNCHANGED clientFd
  /\ UNCHANGED <<own, lease, interest, batch, loop, closing, closed, conns, app, inq>>

\* and some close numbers.
Finalize == \E e \in Ends : FinalizeConn(e) \/ \E f \in Fds : FinalizeFile(e, f)

LEMMA StepKinds ==
  ASSUME TypeOK, StepsInv, [Next]_vars
  PROVE  \/ Still
         \/ \E e \in Ends, f \in Fds : GivesOwn(e, f)
         \/ \E c \in Clients, e \in Ends, f \in Fds : GivesDup(c, e, f)
         \/ CloseFds \/ Finalize
<1> USE DEF FieldsSet, Relays
<1>1. ASSUME UNCHANGED <<file, own, pconns, finals, reused, tangled, serve, evloop>>
      PROVE  Still
  BY <1>1 DEF Still, pconns, evloop
<1>2. ASSUME NEW c \in Clients, Connect(c)
      PROVE  \E f \in Fds : GivesOwn(c, f)
  <2>1. PICK f \in Fds : Take(f, c, c) /\ own' = [own EXCEPT ![c] = f]
    BY <1>2 DEF Connect
  <2>2. clientFd[c] = None /\ serve' = [at |-> "get", client |-> c]
        /\ UNCHANGED <<pconns, evloop, finals, reused>>
    BY <1>2 DEF Connect, StepsInv
  <2>3. FieldsSet
    BY <2>2 DEF pconns, evloop
  <2>. QED
    BY <2>1, <2>2, <2>3 DEF GivesOwn, pconns
<1>3. ASSUME NEW c \in Clients, Get(c)
      PROVE  Still \/ \E e \in Ends, f \in Fds : GivesOwn(e, f)
  <2>1. PICK b \in pool : lease' = [lease EXCEPT ![c] = b] /\ Dial(b)
    BY <1>3 DEF Get
  <2>2. /\ serve.client = c /\ serve'.client = c /\ lease[c] = None
        /\ UNCHANGED <<clientFd, backendFd, evloop, finals, reused>>
    BY <1>3 DEF Get, StepsInv
  <2>3. FieldsSet
    BY <2>1, <2>2 DEF evloop, TypeOK, EngineTypeOK
  <2>4. b \in Ends
    BY DEF Ends, TypeOK, EngineTypeOK
  <2>. QED
    BY <2>1, <2>2, <2>3, <2>4 DEF Dial, Still, GivesOwn
<1>4. ASSUME NEW c \in Clients, DupClient(c)
      PROVE  \E f \in Fds : GivesDup(c, c, f)
  <2>1. PICK f \in Fds : Dup(c, c, f) /\ clientFd' = [clientFd EXCEPT ![c] = f]
    BY <1>4 DEF DupClient
  <2>2. /\ serve.client = c /\ serve'.client = c /\ serve.at = "dupClient" /\ clientFd[c] = None
        /\ UNCHANGED <<own, lease, backendFd, interest, batch, loop, closing, closed, conns, app, inq>>
    BY <1>4 DEF DupClient, StepsInv, peers, evloop
  <2>3. FieldsSet
    <3>1. ASSUME NEW d \in Clients, Relays(d)'
          PROVE  Relays(d)
      BY <1>4, <2>2, <3>1, EpollAssumption DEF DupClient
    <3>. QED
      BY <2>2, <3>1
  <2>. QED
    BY <2>1, <2>2, <2>3 DEF GivesDup
<1>5. ASSUME NEW c \in Clients, DupBackend(c)
      PROVE  lease[c] \in Ends /\ \E f \in Fds : GivesDup(c, lease[c], f)
  <2>1. PICK f \in Fds : Dup(c, lease[c], f) /\ backendFd' = [backendFd EXCEPT ![c] = f]
    BY <1>5 DEF DupBackend
  <2>2. /\ serve.client = c /\ serve'.client = c /\ serve.at = "dupBackend"
        /\ clientFd[c] # None /\ backendFd[c] = None /\ lease[c] \in Ends
        /\ UNCHANGED <<own, lease, clientFd, interest, batch, loop, closing, closed, conns, app, inq>>
    BY <1>5 DEF DupBackend, StepsInv, peers, evloop, TypeOK, EngineTypeOK, Ends
  <2>3. FieldsSet
    <3>1. ASSUME NEW d \in Clients, Relays(d)'
          PROVE  Relays(d)
      <4>1. CASE d = c
        BY <2>2, <3>1, <4>1
      <4>2. CASE d # c
        BY <1>5, <2>1, <2>2, <3>1, <4>2 DEF DupBackend, TypeOK, EngineTypeOK
      <4>. QED
        BY <4>1, <4>2
    <3>. QED
      BY <2>2, <3>1
  <2>. QED
    BY <2>1, <2>2, <2>3 DEF GivesDup
<1>6. ASSUME NEW c \in Clients, DupFails(c) \/ AddClient(c) \/ AddBackend(c) \/ MapConns(c)
      PROVE  Still
  <2>1. UNCHANGED <<file, own, pconns, finals, reused, tangled, evloop>>
    BY <1>6 DEF DupFails, AddClient, AddBackend, MapConns, kernel
  <2>2. serve'.client \in {serve.client, None}
    BY <1>6 DEF DupFails, AddClient, AddBackend, MapConns
  <2>. QED
    BY <2>1, <2>2, EpollAssumption DEF Still, pconns, evloop
<1>7. ASSUME NEW c \in Clients, Request(c) \/ ClientClose(c)
      PROVE  Still
  <2>1. UNCHANGED <<file, own, pconns, finals, reused, tangled, serve, evloop>>
    BY <1>7 DEF Request, ClientClose
  <2>. QED
    BY <1>1, <2>1
<1>8. ASSUME NEW b \in Conns, EchoCopy(b)
      PROVE  Still
  <2>1. UNCHANGED <<file, own, pconns, finals, reused, tangled, serve, evloop>>
    BY <1>8 DEF EchoCopy
  <2>. QED
    BY <1>1, <2>1
<1>9. CASE EpollWait \/ IgnoreEvent \/ Forward \/ ReadFails \/ DeleteEntries
  <2>1. UNCHANGED <<file, own, pconns, finals, reused, tangled, serve>>
    BY <1>9 DEF EpollWait, IgnoreEvent, Forward, ReadFails, DeleteEntries, kernel
  <2>2. closed \cup {closing} \subseteq closed' \cup {closing', None}
    BY <1>9 DEF EpollWait, IgnoreEvent, Forward, ReadFails, DeleteEntries, TypeOK, EngineTypeOK
  <2>. QED
    BY <2>1, <2>2, EpollAssumption DEF Still, pconns
<1>10. CASE UNCHANGED vars
  BY <1>1, <1>10 DEF vars, kernel
<1>. QED
  <2> HIDE DEF FieldsSet, Relays
  <2>. QED
    BY <1>2, <1>3, <1>4, <1>5, <1>6, <1>7, <1>8, <1>9, <1>10 DEF Next, Loop, Serve, Finalize, Ends

\* Numbers that are closed or left alone: nobody uses more of them.
Loses ==
  /\ FieldsSet /\ UNCHANGED <<clientFd, backendFd, reused, tangled>>
  /\ \A f \in Fds : file'[f] \in {file[f], None}
  /\ \A e \in Ends : own'[e] \in {own[e], None}
  /\ finals' \subseteq finals

LEMMA ClosingLoses ==
  ASSUME TypeOK, Still \/ CloseFds \/ Finalize
  PROVE  Loses
<1>1. CASE Still
  BY <1>1 DEF Still, Loses
<1>2. CASE CloseFds
  BY <1>2 DEF CloseFds, Loses, FieldsSet, Relays, pconns
<1>3. ASSUME NEW e \in Ends, FinalizeConn(e)
      PROVE  Loses
  BY <1>3 DEF FinalizeConn, Loses, FieldsSet, Relays, pconns, evloop, TypeOK, KernelTypeOK
<1>4. ASSUME NEW e \in Ends, NEW f \in Fds, FinalizeFile(e, f)
      PROVE  Loses
  BY <1>4 DEF FinalizeFile, Loses, FieldsSet, Relays, pconns, evloop, TypeOK, KernelTypeOK
<1>. QED
  BY <1>1, <1>2, <1>3, <1>4 DEF Finalize

\* The numbers given out go to sockets.
LEMMA GivenNumber ==
  ASSUME TypeOK, NEW e \in Ends, NEW f \in Fds,
         GivesOwn(e, f) \/ \E c \in Clients : GivesDup(c, e, f)
  PROVE  \E s \in Ends : /\ Take(f, s, e)
                         /\ s = e \/ (own[e] \in Fds /\ s = file[own[e]])
BY DupTakes DEF GivesOwn, GivesDup

LEMMA HistoryStays ==
  ASSUME TypeOK, StepsInv, [Next]_vars
  PROVE  reused \subseteq reused' /\ tangled \subseteq tangled'
<1>1. CASE Still \/ CloseFds \/ Finalize
  BY <1>1, ClosingLoses DEF Loses
<1>2. ASSUME NEW e \in Ends, NEW f \in Fds, GivesOwn(e, f)
      PROVE  reused \subseteq reused' /\ tangled \subseteq tangled'
  BY <1>2, TakeType DEF GivesOwn
<1>3. ASSUME NEW c \in Clients, NEW e \in Ends, NEW f \in Fds, GivesDup(c, e, f)
      PROVE  reused \subseteq reused' /\ tangled \subseteq tangled'
  BY <1>3, DupTakes, TakeType DEF GivesDup, Dup
<1>. QED
  BY <1>1, <1>2, <1>3, StepKinds

\* A client that is clean, or sound, has been so.
LEMMA CleanBefore ==
  ASSUME TypeOK, StepsInv, [Next]_vars, NEW c \in Clients
  PROVE  /\ Clean(c)' => Clean(c)
         /\ Sound(c)' => Sound(c)
<1>1. lease'[c] = lease[c] \/ lease[c] = None
  <2>1. FieldsSet
    BY StepKinds, ClosingLoses DEF Still, GivesOwn, GivesDup, Loses
  <2>. QED
    BY <2>1 DEF FieldsSet
<1>2. None \notin tangled
  BY EpollAssumption DEF TypeOK, EngineTypeOK, Ends
<1>3. Clean(c)' => Clean(c)
  BY <1>1, <1>2, HistoryStays DEF Clean
<1>. QED
  BY <1>3, HistoryStays, PastStays DEF Sound

-----------------------------------------------------------------------------
(***************************************************************************)
(* Which sockets the proxy uses a number for.                              *)
(***************************************************************************)
LEMMA UsersKept ==
  ASSUME TypeOK, StepsInv, Loses, NEW g \in Fds
  PROVE  Users(g)' \subseteq Users(g)
<1>1. g # None
  BY EpollAssumption
<1>2. \A e \in Ends : own'[e] = g => own[e] = g
  BY <1>1 DEF Loses
<1>3. \A c \in Clients : clientFd'[c] = g /\ Relays(c)' => clientFd[c] = g /\ Relays(c)
  BY <1>1 DEF Loses, FieldsSet
<1>4. \A c \in Clients : backendFd'[c] = g /\ Relays(c)' =>
        backendFd[c] = g /\ Relays(c) /\ lease'[c] = lease[c]
  BY <1>1 DEF Loses, FieldsSet, StepsInv
<1>. QED
  BY <1>2, <1>3, <1>4 DEF Users

LEMMA UsersGiven ==
  ASSUME TypeOK, StepsInv, NEW e \in Ends, NEW f \in Fds,
         GivesOwn(e, f) \/ \E c \in Clients : GivesDup(c, e, f), NEW g \in Fds
  PROVE  Users(g)' \subseteq Users(g) \cup (IF g = f THEN {e} ELSE {})
<1>1. g # None /\ f # None
  BY EpollAssumption
<1>2. CASE GivesOwn(e, f)
  <2>1. \A x \in Ends : own'[x] = IF x = e THEN f ELSE own[x]
    BY <1>2 DEF GivesOwn, TypeOK, KernelTypeOK
  <2>2. \A c \in Clients : clientFd'[c] = g /\ Relays(c)' => clientFd[c] = g /\ Relays(c)
    BY <1>1, <1>2 DEF GivesOwn, FieldsSet
  <2>3. \A c \in Clients : backendFd'[c] = g /\ Relays(c)' =>
          backendFd[c] = g /\ Relays(c) /\ lease'[c] = lease[c]
    BY <1>1, <1>2 DEF GivesOwn, FieldsSet, StepsInv
  <2>. QED
    BY <2>1, <2>2, <2>3 DEF Users
<1>3. ASSUME NEW c \in Clients, GivesDup(c, e, f)
      PROVE  Users(g)' \subseteq Users(g) \cup (IF g = f THEN {e} ELSE {})
  <2>1. UNCHANGED <<own, lease>>
    BY <1>3 DEF GivesDup
  <2>2. \A d \in Clients : clientFd'[d] = g /\ Relays(d)' =>
          (clientFd[d] = g /\ Relays(d)) \/ (d = e /\ g = f)
    BY <1>1, <1>3 DEF GivesDup, FieldsSet, TypeOK, EngineTypeOK
  <2>3. \A d \in Clients : backendFd'[d] = g /\ Relays(d)' =>
          (backendFd[d] = g /\ Relays(d)) \/ (lease[d] = e /\ g = f)
    BY <1>1, <1>3 DEF GivesDup, FieldsSet, StepsInv, TypeOK, EngineTypeOK
  <2>. QED
    BY <2>1, <2>2, <2>3 DEF Users
<1>. QED
  BY <1>2, <1>3

LEMMA InitUse == Init => UseInv /\ ExactInv
<1>. SUFFICES ASSUME Init
              PROVE  UseInv /\ ExactInv
  OBVIOUS
<1>1. \A f \in Fds : f # None
  BY EpollAssumption
<1>2. /\ \A c \in Clients : own[c] = None
      /\ \A b, d \in Conns : own[b] = own[d] /\ own[b] # None => b = d
  BY DEF Init, Numbered, Ends
<1>3. ASSUME NEW f \in Fds
      PROVE  /\ Users(f) = {b \in Conns : own[b] = f}
             /\ \/ file[f] = None /\ Users(f) = {}
                \/ file[f] \in Conns /\ own[file[f]] = f /\ Users(f) = {file[f]}
  <2>1. Users(f) = {b \in Conns : own[b] = f}
    BY <1>1, <1>2 DEF Init, Users, Ends
  <2>2. CASE \E b \in Conns : own[b] = f
    <3>1. file[f] \in Conns /\ own[file[f]] = f
      BY <2>2 DEF Init
    <3>. QED
      BY <1>1, <1>2, <2>1, <3>1
  <2>3. CASE ~\E b \in Conns : own[b] = f
    BY <2>1, <2>3 DEF Init
  <2>. QED
    BY <2>1, <2>2, <2>3
<1>4. UseInv
  BY <1>3, EpollAssumption DEF UseInv, Ends
<1>5. ExactInv
  <2>1. ASSUME NEW e \in Ends, own[e] # None
        PROVE  file[own[e]] = e
    <3>1. e \in Conns /\ own[e] \in Fds
      BY <1>2, <2>1 DEF Ends, Init, Numbered
    <3>. QED
      BY <1>2, <1>3, <2>1, <3>1
  <2>2. \A c \in Clients : Exact(c)
    BY DEF Init, Exact, FdsOf
  <2>. QED
    BY <2>1, <2>2 DEF Init, ExactInv
<1>. QED
  BY <1>4, <1>5

LEMMA StepUse ==
  ASSUME TypeOK, StepsInv, UseInv, [Next]_vars
  PROVE  UseInv'
<1>1. None \notin Ends
  BY EpollAssumption DEF Ends
<1>2. ASSUME Loses
      PROVE  UseInv'
  <2>1. \A g \in Fds : Users(g)' \subseteq Users(g)
    BY <1>2, UsersKept
  <2>2. tangled' = tangled /\ \A g \in Fds : file'[g] \in {file[g], None}
    BY <1>2 DEF Loses
  <2>. QED
    BY <1>1, <2>1, <2>2 DEF UseInv
<1>3. ASSUME NEW e \in Ends, NEW f \in Fds,
             GivesOwn(e, f) \/ \E c \in Clients : GivesDup(c, e, f)
      PROVE  UseInv'
  <2>1. PICK s \in Ends : Take(f, s, e) /\ (s = e \/ (own[e] \in Fds /\ s = file[own[e]]))
    BY <1>3, GivenNumber
  <2>2. /\ file[f] = None /\ file'[f] = s /\ \A g \in Fds : g # f => file'[g] = file[g]
        /\ tangled \subseteq tangled'
    BY <2>1, TakeType
  <2>3. tangled' = IF Users(f) = {} THEN tangled ELSE tangled \cup Users(f) \cup {e}
    BY <2>1 DEF Take
  <2>4. \A g \in Fds : Users(g)' \subseteq Users(g) \cup (IF g = f THEN {e} ELSE {})
    BY <1>3, UsersGiven
  <2>5. s = e \/ {s, e} \subseteq tangled
    <3>1. CASE own[e] \in Fds /\ s = file[own[e]]
      <4>1. e \in Users(own[e])
        BY DEF Users
      <4>. QED
        BY <1>1, <3>1, <4>1 DEF UseInv
    <3>. QED
      BY <2>1, <3>1
  <2>6. ASSUME NEW x \in Ends \ tangled', NEW g \in Fds
        PROVE  /\ x \in Users(g)' => file'[g] \in {x, None}
               /\ file'[g] = x => Users(g)' \subseteq {x}
    <3>1. CASE g # f
      BY <2>2, <2>4, <2>6, <3>1 DEF UseInv
    <3>2. CASE g = f
      BY <2>2, <2>3, <2>4, <2>5, <2>6, <3>2
    <3>. QED
      BY <3>1, <3>2
  <2>. QED
    BY <2>6 DEF UseInv
<1>. QED
  BY <1>2, <1>3, StepKinds, ClosingLoses

LEMMA StepExact ==
  ASSUME TypeOK, StepsInv, LeaseInv, MapInv, ExactInv, [Next]_vars
  PROVE  ExactInv'
<1>. SUFFICES ASSUME Collected = {}
              PROVE  /\ tangled' = {}
                     /\ \A e \in Ends : own'[e] # None => file'[own'[e]] = e
                     /\ \A c \in Clients : ~Past(c)' => Exact(c)'
  BY DEF ExactInv
<1> DEFINE Goal == /\ tangled' = {}
                   /\ \A e \in Ends : own'[e] # None => file'[own'[e]] = e
                   /\ \A c \in Clients : ~Past(c)' => Exact(c)'
<1>1. /\ tangled = {}
      /\ \A e \in Ends : own[e] # None => file[own[e]] = e
      /\ \A c \in Clients : ~Past(c)' => ~Past(c) /\ Exact(c)
  BY PastStays DEF ExactInv
<1>2. None \notin Ends /\ None \notin Fds /\ Clients \subseteq Ends
  BY EpollAssumption DEF Ends
<1>3. \A c \in Clients : backendFd[c] # None => lease[c] # None /\ lease[c] \in Conns
  BY DEF StepsInv, TypeOK, EngineTypeOK
<1>4. CASE Still
  <2>1. UNCHANGED <<file, own, clientFd, backendFd, tangled>>
    BY <1>4 DEF Still
  <2>2. \A c \in Clients : backendFd[c] # None => lease'[c] = lease[c]
    BY <1>3, <1>4 DEF Still, FieldsSet
  <2>. QED
    BY <1>1, <2>1, <2>2 DEF Exact, FdsOf
<1>5. ASSUME NEW e \in Ends, NEW f \in Fds,
             GivesOwn(e, f) \/ \E c \in Clients : GivesDup(c, e, f)
      PROVE  Goal
  <2>1. PICK s \in Ends : Take(f, s, e) /\ (s = e \/ (own[e] \in Fds /\ s = file[own[e]]))
    BY <1>5, GivenNumber
  <2>2. file[f] = None /\ file'[f] = s /\ \A g \in Fds : g # f => file'[g] = file[g]
    BY <2>1, TakeType
  <2>3. s = e
    BY <1>1, <1>2, <2>1
  <2>4. \A x \in Ends : own[x] # f
    BY <1>1, <1>2, <2>2
  <2>5. ASSUME NEW c \in Clients, ~Past(c)
        PROVE  f \notin FdsOf(c)
    <3>1. Exact(c)
      BY <2>5 DEF ExactInv
    <3>. QED
      BY <1>2, <1>3, <2>2, <3>1 DEF Exact, FdsOf
  <2>6. Users(f) = {}
    <3>1. \A c \in Clients : Relays(c) => f \notin FdsOf(c)
      <4>1. \A c \in Clients : Relays(c) => ~Past(c)
        BY DEF Relays, Past
      <4>. QED
        BY <2>5, <4>1
    <3>. QED
      BY <1>2, <2>4, <3>1 DEF Users, FdsOf
  <2>7. tangled' = {}
    BY <1>1, <2>1, <2>6 DEF Take
  <2>8. \A x \in Ends : own'[x] = own[x] \/ (x = e /\ own'[x] = f)
    BY <1>5 DEF GivesOwn, GivesDup, TypeOK, KernelTypeOK
  <2>9. \A x \in Ends : own'[x] # None => file'[own'[x]] = x
    BY <1>1, <2>2, <2>3, <2>4, <2>8 DEF TypeOK, KernelTypeOK
  <2>10. ASSUME NEW c \in Clients, ~Past(c)'
         PROVE  Exact(c)'
    <3>1. Exact(c) /\ f \notin FdsOf(c) /\ FdsOf(c) \subseteq Fds
      BY <1>1, <2>5, <2>10 DEF FdsOf, TypeOK, EngineTypeOK
    <3>2. CASE GivesOwn(e, f)
      <4>1. UNCHANGED <<clientFd, backendFd>> /\ (backendFd[c] # None => lease'[c] = lease[c])
        BY <1>3, <3>2 DEF GivesOwn, FieldsSet
      <4>. QED
        BY <2>2, <2>8, <3>1, <4>1 DEF Exact, FdsOf
    <3>3. ASSUME NEW d \in Clients, GivesDup(d, e, f)
          PROVE  Exact(c)'
      <4>1. UNCHANGED <<own, lease>>
        BY <3>3 DEF GivesDup
      <4>2. \/ clientFd'[c] = clientFd[c]
            \/ clientFd[c] = None /\ clientFd'[c] = f /\ e = c
        BY <3>3 DEF GivesDup, TypeOK, EngineTypeOK
      <4>3. \/ backendFd'[c] = backendFd[c]
            \/ backendFd[c] = None /\ backendFd'[c] = f /\ e = lease[c]
        BY <3>3 DEF GivesDup, TypeOK, EngineTypeOK
      <4>4. clientFd'[c] # None => file'[clientFd'[c]] = c
        BY <2>2, <2>3, <3>1, <4>2 DEF Exact, FdsOf
      <4>5. backendFd'[c] # None => file'[backendFd'[c]] = lease'[c]
        BY <2>2, <2>3, <3>1, <4>1, <4>3 DEF Exact, FdsOf
      <4>6. \A x \in Ends : own'[x] \notin FdsOf(c)'
        BY <2>4, <3>1, <4>1, <4>2, <4>3 DEF Exact, FdsOf
      <4>. QED
        BY <4>4, <4>5, <4>6 DEF Exact
    <3>. QED
      BY <1>5, <3>2, <3>3
  <2>. QED
    BY <2>7, <2>9, <2>10
<1>6. CASE CloseFds
  <2>1. /\ closing \in Clients /\ Mapped(closing) /\ closing \notin closed /\ ~Past(closing)
        /\ \A c \in Clients : ~Past(c)' => c # closing
    <3>1. closing \in Clients /\ Mapped(closing) /\ closing \notin closed /\ loop = "close"
      BY <1>6 DEF CloseFds, TypeOK, EngineTypeOK, MapInv
    <3>2. closing' = closing /\ loop' = "delete"
      BY <1>6 DEF CloseFds
    <3>. QED
      BY <3>1, <3>2 DEF Past
  <2>2. UNCHANGED <<own, pconns, tangled>>
    BY <1>6 DEF CloseFds
  <2>3. \A f \in Fds : f \notin FdsOf(closing) => file'[f] = file[f]
    BY <1>6, <1>2 DEF CloseFds, FdsOf
  <2>4. Exact(closing) /\ clientFd[closing] # None /\ backendFd[closing] # None
    BY <2>1 DEF ExactInv, Mapped, StepsInv
  <2>5. ASSUME NEW c \in Clients, ~Past(c)'
        PROVE  FdsOf(c) \cap FdsOf(closing) = {}
    <3>1. Exact(c) /\ c # closing
      BY <1>1, <2>1, <2>5
    <3>2. lease[closing] \in Conns /\ (backendFd[c] # None => lease[c] # lease[closing])
      BY <1>3, <2>1, <2>4, <3>1 DEF LeaseInv
    <3>3. c \notin Conns /\ closing \notin Conns
      BY <2>1, EpollAssumption
    <3>. QED
      BY <1>3, <2>4, <3>1, <3>2, <3>3 DEF Exact, FdsOf
  <2>6. \A e \in Ends : own[e] \notin FdsOf(closing)
    BY <2>4 DEF Exact
  <2>. QED
    BY <1>1, <2>2, <2>3, <2>5, <2>6 DEF Exact, FdsOf, pconns, TypeOK, KernelTypeOK, EngineTypeOK
<1>7. ~Finalize
  BY DEF Finalize, FinalizeConn, FinalizeFile
<1>. QED
  <2> HIDE DEF Goal
  <2>1. Goal
    BY <1>4, <1>5, <1>6, <1>7, StepKinds DEF Goal
  <2>. QED
    BY <2>1 DEF Goal
-----------------------------------------------------------------------------
(***************************************************************************)
(* The bytes on their way.                                                 *)
(***************************************************************************)
LEMMA TakeSent ==
  ASSUME NEW c, NEW q \in Seq(Msg), q # <<>>, OnlySent(c, q)
  PROVE  /\ Head(q) = <<c, sent[c]>> /\ Tail(q) \in Seq(Msg)
         /\ OnlySent(c, Tail(q)) /\ Len(q) \in Nat \ {0} /\ Len(Tail(q)) = Len(q) - 1
<1>1. Len(q) \in Nat \ {0} /\ DOMAIN q = 1 .. Len(q)
  BY EmptySeq, LenProperties
<1>2. /\ Tail(q) \in Seq(Msg) /\ Len(Tail(q)) = Len(q) - 1
      /\ \A i \in 1 .. Len(Tail(q)) : Tail(q)[i] = q[i + 1]
  BY HeadTailProperties
<1>3. Head(q) = q[1]
  BY <1>1
<1>. QED
  BY <1>1, <1>2, <1>3 DEF OnlySent

LEMMA PutSent ==
  ASSUME NEW c, NEW q \in Seq(Msg), OnlySent(c, q), <<c, sent[c]>> \in Msg
  PROVE  /\ OnlySent(c, Append(q, <<c, sent[c]>>))
         /\ Len(Append(q, <<c, sent[c]>>)) = Len(q) + 1
<1>. QED
  BY AppendProperties DEF OnlySent

\* A step that moves bytes only at some sockets, or at tangled ones.
LEMMA LocalStep ==
  ASSUME TypeOK, FlowInv, UNCHANGED <<lease, tangled>>, NEW T,
         \A e \in Ends : e \notin T \cup tangled => inq'[e] = inq[e],
         \A b \in Conns : b \notin T \cup tangled => echoq'[b] = echoq[b],
         \A d \in Clients : d \notin T \cup tangled => got'[d] = got[d] /\ sent'[d] = sent[d],
         \A b \in Conns : b \in T => ~Unused(b) \/ b \in tangled,
         \A d \in Clients : Clean(d) => {d, lease[d]} \cap T = {} \/ Flow(d)'
  PROVE  FlowInv'
<1>1. ASSUME NEW d \in Clients, Clean(d)', {d, lease[d]} \cap T = {}
      PROVE  Flow(d)'
  <2>1. Clean(d) /\ Flow(d) /\ d \in Ends
    BY <1>1 DEF Clean, FlowInv, Ends
  <2>2. inq'[d] = inq[d] /\ got'[d] = got[d] /\ sent'[d] = sent[d] /\ lease'[d] = lease[d]
    BY <1>1, <2>1 DEF Clean
  <2>3. lease[d] # None => inq'[lease[d]] = inq[lease[d]] /\ echoq'[lease[d]] = echoq[lease[d]]
    <3>1. lease[d] # None => lease[d] \in Conns /\ lease[d] \in Ends
      BY DEF TypeOK, EngineTypeOK, Ends
    <3>. QED
      BY <1>1, <2>1, <3>1 DEF Clean
  <2>. QED
    BY <2>1, <2>2, <2>3 DEF Flow, OnWay, Asked, AtEcho, Echoed, OnlySent
<1>2. ASSUME NEW d \in Clients, Clean(d)'
      PROVE  Flow(d)'
  <2>1. Clean(d)
    BY <1>2 DEF Clean
  <2>. QED
    BY <1>1, <1>2, <2>1
<1>3. ASSUME NEW b \in Conns \ tangled', Unused(b)'
      PROVE  inq'[b] = <<>> /\ echoq'[b] = <<>>
  <2>1. b \notin T \cup tangled /\ Unused(b) /\ b \in Ends
    BY <1>3 DEF Unused, Ends
  <2>. QED
    BY <2>1 DEF FlowInv
<1>. QED
  BY <1>2, <1>3 DEF FlowInv

\* What is at the two ends of c.
LEMMA Lengths ==
  ASSUME TypeOK, NEW c \in Clients
  PROVE  /\ sent[c] \in Nat /\ Len(got[c]) \in Nat /\ DOMAIN got[c] = 1 .. Len(got[c])
         /\ got[c] \in Seq(Msg) /\ inq[c] \in Seq(Msg) /\ Len(inq[c]) \in Nat
         /\ lease[c] # None =>
              /\ lease[c] \in Conns /\ lease[c] \in Ends /\ lease[c] # c
              /\ inq[lease[c]] \in Seq(Msg) /\ echoq[lease[c]] \in Seq(Msg)
              /\ Len(inq[lease[c]]) \in Nat /\ Len(echoq[lease[c]]) \in Nat
<1>1. c \in Ends
  BY DEF Ends
<1>2. lease[c] # None => lease[c] \in Conns /\ lease[c] \in Ends /\ lease[c] # c
  BY EpollAssumption DEF TypeOK, EngineTypeOK, Ends
<1>3. sent[c] \in Nat
  BY EpollAssumption DEF TypeOK, PeerTypeOK
<1>. QED
  BY <1>1, <1>2, <1>3, LenProperties DEF TypeOK, PeerTypeOK

LEMMA OnWaySum ==
  ASSUME TypeOK, NEW c \in Clients
  PROVE  Asked(c) \in Nat /\ AtEcho(c) \in Nat /\ Echoed(c) \in Nat /\ OnWay(c) \in Nat
<1>1. Asked(c) \in Nat
  BY Lengths DEF Asked
<1>2. AtEcho(c) \in Nat
  BY Lengths DEF AtEcho
<1>3. Echoed(c) \in Nat
  BY Lengths DEF Echoed
<1>. QED
  BY <1>1, <1>2, <1>3 DEF OnWay

\* A message on its way is the only one, and the last that was sent.
LEMMA InFlight ==
  ASSUME TypeOK, NEW c \in Clients, Flow(c), OnWay(c) > 0
  PROVE  sent[c] = Len(got[c]) + 1 /\ OnWay(c) = 1 /\ <<c, sent[c]>> \in Msg
<1>1. OnWay(c) \in Nat
  BY OnWaySum
<1>2. sent[c] = Len(got[c]) + 1 /\ OnWay(c) = 1
  BY <1>1, Lengths DEF Flow
<1>3. sent[c] \in 1 .. Msgs
  BY <1>2, Lengths, EpollAssumption DEF TypeOK, PeerTypeOK
<1>. QED
  BY <1>2, <1>3 DEF Msg

LEMMA InitFlow == Init => FlowInv
<1>. SUFFICES ASSUME Init
              PROVE  FlowInv
  OBVIOUS
<1>1. \A c \in Clients : c \in Ends
  BY DEF Ends
<1>2. \A b \in Conns : b \in Ends
  BY DEF Ends
<1>. QED
  BY <1>1, <1>2 DEF Init, FlowInv, Flow, OnWay, Asked, AtEcho, Echoed, OnlySent

LEMMA RequestFlow ==
  ASSUME TypeOK, FlowInv, NEW c \in Clients, Request(c)
  PROVE  FlowInv'
<1>1. /\ c \in Ends /\ sent[c] = Len(got[c]) /\ sent' = [sent EXCEPT ![c] = @ + 1]
      /\ inq' = [inq EXCEPT ![c] = Append(@, <<c, sent[c] + 1>>)]
      /\ UNCHANGED <<got, echoq, lease, tangled>>
  BY DEF Request, Ends, pconns
<1>2. ASSUME Clean(c)
      PROVE  Flow(c)'
  <2>1. Flow(c)
    BY <1>2 DEF FlowInv
  <2>2. OnWay(c) = 0
    <3>1. Len(got[c]) + OnWay(c) <= sent[c] /\ sent[c] = Len(got[c])
      BY <1>1, <2>1 DEF Flow
    <3>2. OnWay(c) \in Nat /\ sent[c] \in Nat
      BY Lengths, OnWaySum
    <3>. QED
      BY <3>1, <3>2
  <2>3. Asked(c) = 0 /\ AtEcho(c) = 0 /\ Echoed(c) = 0
    BY <2>2, OnWaySum DEF OnWay
  <2>4. inq[c] = <<>> /\ (lease[c] # None => inq[lease[c]] = <<>> /\ echoq[lease[c]] = <<>>)
    BY <2>3, Lengths, EmptySeq DEF Asked, AtEcho, Echoed
  <2>5. inq'[c] = <<<<c, sent'[c]>>>> /\ sent'[c] = sent[c] + 1
    BY <1>1, <2>4 DEF TypeOK, PeerTypeOK
  <2>6. lease[c] # None => inq'[lease[c]] = <<>> /\ echoq'[lease[c]] = <<>>
    BY <1>1, <2>4, Lengths DEF TypeOK, PeerTypeOK
  <2>7. Len(inq'[c]) = 1 /\ OnlySent(c, inq[c])'
    BY <2>5 DEF OnlySent
  <2>8. lease[c] # None => OnlySent(c, inq[lease[c]])' /\ OnlySent(c, echoq[lease[c]])'
    BY <1>1, <2>6 DEF OnlySent
  <2>9. OnWay(c)' = 1
    <3>1. Asked(c)' = 1 /\ AtEcho(c)' = 0 /\ Echoed(c)' = 0
      BY <1>1, <2>6, <2>7 DEF Asked, AtEcho, Echoed
    <3>. QED
      BY <3>1 DEF OnWay
  <2>. QED
    BY <1>1, <2>1, <2>5, <2>7, <2>8, <2>9, Lengths DEF Flow, OnlySent
<1>3. \A e \in Ends : e \notin {c} => inq'[e] = inq[e]
  BY <1>1 DEF TypeOK, PeerTypeOK
<1>4. \A d \in Clients : d \notin {c} => got'[d] = got[d] /\ sent'[d] = sent[d]
  BY <1>1 DEF TypeOK, PeerTypeOK
<1>5. /\ \A b \in Conns : b \notin {c}
      /\ \A d \in Clients : Clean(d) => {d, lease[d]} \cap {c} = {} \/ Flow(d)'
  BY <1>2, EpollAssumption DEF TypeOK, EngineTypeOK
<1>. QED
  BY <1>1, <1>3, <1>4, <1>5, LocalStep

LEMMA EchoFlow ==
  ASSUME TypeOK, FlowInv, NEW b \in Conns, EchoCopy(b)
  PROVE  FlowInv'
<1>1. /\ b \in Ends /\ echoq[b] # <<>> /\ echoq' = [echoq EXCEPT ![b] = Tail(@)]
      /\ inq' = [inq EXCEPT ![b] = Append(@, Head(echoq[b]))]
      /\ UNCHANGED <<got, sent, lease, tangled>>
  BY DEF EchoCopy, Ends, pconns
<1>2. ASSUME NEW c \in Clients, Clean(c), lease[c] = b
      PROVE  Flow(c)'
  <2>1. Flow(c) /\ lease[c] # None
    BY <1>2, EpollAssumption DEF FlowInv
  <2>2. /\ Head(echoq[b]) = <<c, sent[c]>> /\ OnlySent(c, Tail(echoq[b]))
        /\ Len(Tail(echoq[b])) = Len(echoq[b]) - 1 /\ Len(echoq[b]) \in Nat \ {0}
    BY <1>1, <1>2, <2>1, Lengths, TakeSent DEF Flow
  <2>3. OnWay(c) > 0
    BY <1>2, <2>1, <2>2, OnWaySum DEF OnWay, AtEcho
  <2>4. <<c, sent[c]>> \in Msg
    BY <2>1, <2>3, InFlight
  <2>5. /\ OnlySent(c, Append(inq[b], <<c, sent[c]>>))
        /\ Len(Append(inq[b], <<c, sent[c]>>)) = Len(inq[b]) + 1
    BY <1>2, <2>1, <2>4, Lengths, PutSent DEF Flow
  <2>6. inq'[b] = Append(inq[b], <<c, sent[c]>>) /\ echoq'[b] = Tail(echoq[b])
    BY <1>1, <2>2 DEF TypeOK, PeerTypeOK
  <2>7. /\ \A e \in Ends : e # b => inq'[e] = inq[e]
        /\ \A d \in Conns : d # b => echoq'[d] = echoq[d]
    BY <1>1 DEF TypeOK, PeerTypeOK
  <2>8. Flow(c)'
    <3>1. inq'[c] = inq[c] /\ lease'[c] = b
      <4>1. c \in Ends /\ c # b
        BY EpollAssumption DEF Ends
      <4>. QED
        BY <1>1, <1>2, <2>7, <4>1
    <3>2. OnWay(c)' = OnWay(c)
      <4>1. Asked(c)' = Asked(c)
        BY <3>1 DEF Asked
      <4>2. AtEcho(c)' = AtEcho(c) - 1
        BY <1>2, <2>1, <2>2, <2>6, <3>1 DEF AtEcho
      <4>3. Echoed(c)' = Echoed(c) + 1
        BY <1>2, <2>1, <2>5, <2>6, <3>1 DEF Echoed
      <4>. QED
        BY <4>1, <4>2, <4>3, OnWaySum DEF OnWay
    <3>3. OnlySent(c, inq[b])' /\ OnlySent(c, echoq[b])' /\ OnlySent(c, inq[c])'
      BY <1>1, <2>1, <2>2, <2>5, <2>6, <3>1 DEF OnlySent, Flow
    <3>. QED
      BY <1>1, <2>1, <3>1, <3>2, <3>3 DEF Flow
  <2>. QED
    BY <2>8
<1>3. /\ \A e \in Ends : e \notin {b} => inq'[e] = inq[e]
      /\ \A d \in Conns : d \notin {b} => echoq'[d] = echoq[d]
  BY <1>1 DEF TypeOK, PeerTypeOK
<1>4. \A d \in Conns : d \in {b} => ~Unused(d) \/ d \in tangled
  BY <1>1 DEF FlowInv
<1>5. \A d \in Clients : Clean(d) => {d, lease[d]} \cap {b} = {} \/ Flow(d)'
  BY <1>2, EpollAssumption
<1>. QED
  BY <1>1, <1>3, <1>4, <1>5, LocalStep

LEMMA GetFlow ==
  ASSUME TypeOK, StepsInv, LeaseInv, FlowInv, NEW c \in Clients, Get(c), tangled \subseteq tangled'
  PROVE  FlowInv'
<1>1. PICK b \in pool : lease' = [lease EXCEPT ![c] = b]
  BY DEF Get
<1>2. UNCHANGED <<got, sent, inq, echoq>>
  BY DEF Get, peers
<1>3. b \in Conns /\ b # None /\ Unused(b) /\ lease[c] = None
  BY EpollAssumption DEF TypeOK, EngineTypeOK, LeaseInv, Unused, Get, StepsInv
<1>4. lease'[c] = b /\ \A d \in Clients : d # c => lease'[d] = lease[d]
  BY <1>1 DEF TypeOK, EngineTypeOK
<1>5. ASSUME NEW d \in Clients, Clean(d)'
      PROVE  Flow(d)'
  <2>1. CASE d # c
    <3>1. Flow(d)
      BY <1>4, <1>5, <2>1 DEF FlowInv, Clean
    <3>. QED
      BY <1>2, <1>4, <2>1, <3>1 DEF Flow, OnWay, Asked, AtEcho, Echoed, OnlySent
  <2>2. CASE d = c
    <3>1. Flow(c)
      <4>1. None \notin tangled
        BY EpollAssumption DEF TypeOK, EngineTypeOK, Ends
      <4>. QED
        BY <1>3, <1>5, <2>2, <4>1 DEF FlowInv, Clean
    <3>2. inq[b] = <<>> /\ echoq[b] = <<>>
      BY <1>3, <1>4, <1>5, <2>2 DEF FlowInv, Clean
    <3>3. OnWay(c)' = OnWay(c)
      BY <1>2, <1>3, <1>4, <3>2 DEF OnWay, Asked, AtEcho, Echoed
    <3>4. OnlySent(c, inq[b])' /\ OnlySent(c, echoq[b])'
      BY <1>2, <3>2 DEF OnlySent
    <3>. QED
      BY <1>2, <1>4, <2>2, <3>1, <3>3, <3>4 DEF Flow, OnlySent
  <2>. QED
    BY <2>1, <2>2
<1>6. \A e \in Conns : Unused(e)' => Unused(e)
  BY <1>3, <1>4, EpollAssumption DEF Unused
<1>. QED
  BY <1>2, <1>5, <1>6 DEF FlowInv

\* What the two descriptors of a ProxyConn refer to while the loop relays.
LEMMA RelayEnds ==
  ASSUME TypeOK, StepsInv, UseInv, loop = "events",
         NEW c \in Clients, Mapped(c), c \notin closed
  PROVE  /\ clientFd[c] \in Fds /\ backendFd[c] \in Fds /\ lease[c] \in Conns
         /\ file[clientFd[c]] \in {c, None} \cup tangled
         /\ file[backendFd[c]] \in {lease[c], None} \cup tangled
         /\ Clean(c) => file[clientFd[c]] \in {c, None} /\ file[backendFd[c]] \in {lease[c], None}
<1>1. clientFd[c] \in Fds /\ backendFd[c] \in Fds /\ lease[c] \in Conns /\ Relays(c)
  BY EpollAssumption DEF Mapped, StepsInv, Relays, TypeOK, EngineTypeOK
<1>2. c \in Users(clientFd[c]) /\ lease[c] \in Users(backendFd[c])
  BY <1>1 DEF Users
<1>3. c \in Ends /\ lease[c] \in Ends
  BY <1>1 DEF Ends
<1>4. file[clientFd[c]] \in Ends \cup {None} /\ file[backendFd[c]] \in Ends \cup {None}
  BY <1>1 DEF TypeOK, KernelTypeOK
<1>. QED
  BY <1>1, <1>2, <1>3, <1>4 DEF UseInv, Clean

LEMMA ForwardFlow ==
  ASSUME TypeOK, StepsInv, LeaseInv, MapInv, UseInv, FlowInv, Forward
  PROVE  FlowInv'
<1>1. PICK c \in Clients, f \in Fds, g \in Fds : Relay(c, f, g)
  BY ForwardRelays
<1>2. UNCHANGED <<sent, lease, tangled>>
  BY DEF Forward, pconns
<1>3. /\ lease[c] # None /\ lease[c] \in Conns /\ loop = "events" /\ Mapped(c) /\ c \notin closed
  BY <1>1, EpollAssumption DEF Relay, Forward
<1>4. /\ c \in Ends /\ lease[c] \in Ends /\ c \notin Conns /\ c # lease[c] /\ None \notin Ends
  BY <1>3, EpollAssumption DEF Ends
<1>5. /\ file[f] \in Ends /\ inq[file[f]] # <<>> /\ inq' = [inq EXCEPT ![file[f]] = Tail(@)]
      /\ \/ file[g] \in Ends /\ Write(file[g], Head(inq[file[f]]))
         \/ UNCHANGED <<got, echoq>>
  BY <1>1 DEF Relay
<1>6. /\ inq'[file[f]] = Tail(inq[file[f]])
      /\ \A e \in Ends : e # file[f] => inq'[e] = inq[e]
  BY <1>5 DEF TypeOK, PeerTypeOK
<1>7. ASSUME NEW e \in Ends, NEW m, Write(e, m)
      PROVE  /\ \A b \in Conns : b # e => echoq'[b] = echoq[b]
             /\ \A d \in Clients : d # e => got'[d] = got[d]
  BY <1>7 DEF Write, TypeOK, PeerTypeOK
<1>8. /\ \A e \in Ends : e \notin {c, lease[c]} \cup tangled => inq'[e] = inq[e]
      /\ \A b \in Conns : b \notin {c, lease[c]} \cup tangled => echoq'[b] = echoq[b]
      /\ \A d \in Clients : d \notin {c, lease[c]} \cup tangled =>
           got'[d] = got[d] /\ sent'[d] = sent[d]
  <2>1. {file[f], file[g]} \subseteq {c, lease[c], None} \cup tangled
    BY <1>1, <1>3, RelayEnds DEF Relay, Sides
  <2>2. \A e \in Ends : e \notin {c, lease[c]} \cup tangled => inq'[e] = inq[e]
    BY <1>4, <1>6, <2>1
  <2>3. CASE UNCHANGED <<got, echoq>>
    BY <1>2, <2>2, <2>3
  <2>4. CASE file[g] \in Ends /\ Write(file[g], Head(inq[file[f]]))
    <3>1. /\ \A b \in Conns : b # file[g] => echoq'[b] = echoq[b]
          /\ \A d \in Clients : d # file[g] => got'[d] = got[d]
      BY <1>7, <2>4
    <3>. QED
      BY <1>2, <1>4, <2>1, <2>2, <2>4, <3>1
  <2>. QED
    BY <1>5, <2>3, <2>4
<1>9. ASSUME Clean(c)
      PROVE  Flow(c)'
  <2>1. /\ Flow(c) /\ file[clientFd[c]] \in {c, None} /\ file[backendFd[c]] \in {lease[c], None}
    BY <1>3, <1>9, RelayEnds DEF FlowInv
  \* A request goes to the echo server,
  <2>2. CASE f = clientFd[c] /\ g = backendFd[c]
    <3>1. file[f] = c /\ file[g] \in {lease[c], None}
      BY <1>3, <1>4, <1>5, <2>1, <2>2
    <3>2. /\ Head(inq[c]) = <<c, sent[c]>> /\ Tail(inq[c]) \in Seq(Msg) /\ OnlySent(c, Tail(inq[c]))
          /\ Len(inq[c]) \in Nat \ {0} /\ Len(Tail(inq[c])) = Len(inq[c]) - 1
      BY <1>3, <2>1, <1>5, <3>1, Lengths, TakeSent DEF Flow
    <3>3. inq'[c] = Tail(inq[c]) /\ inq'[lease[c]] = inq[lease[c]]
      BY <1>4, <1>6, <3>1
    <3>4. Asked(c)' = Asked(c) - 1 /\ Echoed(c)' = Echoed(c)
      BY <1>2, <3>2, <3>3 DEF Asked, Echoed
    <3>5. <<c, sent[c]>> \in Msg
      <4>1. OnWay(c) > 0
        BY <3>2, OnWaySum DEF OnWay, Asked
      <4>. QED
        BY <1>3, <2>1, <4>1, InFlight
    <3>6. /\ got' = got /\ \A b \in Conns : b # lease[c] => echoq'[b] = echoq[b]
          /\ \/ echoq'[lease[c]] = Append(echoq[lease[c]], <<c, sent[c]>>)
             \/ echoq'[lease[c]] = echoq[lease[c]]
      <4>1. CASE file[g] \in Ends /\ Write(file[g], Head(inq[file[f]]))
        <5>1. file[g] = lease[c]
          BY <1>4, <3>1, <4>1
        <5>2. Write(lease[c], <<c, sent[c]>>)
          BY <3>1, <3>2, <4>1, <5>1
        <5>. QED
          BY <1>3, <2>1, <5>2 DEF Write, TypeOK, PeerTypeOK
      <4>2. CASE UNCHANGED <<got, echoq>>
        BY <4>2
      <4>. QED
        BY <1>5, <4>1, <4>2
    <3>7. /\ OnlySent(c, echoq'[lease[c]]) /\ AtEcho(c)' \in {AtEcho(c), AtEcho(c) + 1}
      <4>1. /\ OnlySent(c, Append(echoq[lease[c]], <<c, sent[c]>>))
            /\ Len(Append(echoq[lease[c]], <<c, sent[c]>>)) = Len(echoq[lease[c]]) + 1
            /\ OnlySent(c, echoq[lease[c]])
        BY <1>3, <2>1, <3>5, Lengths, PutSent DEF Flow
      <4>. QED
        BY <1>2, <1>3, <2>1, <3>6, <4>1 DEF AtEcho
    <3>8. Flow(c)'
      <4>1. OnWay(c)' \in Int /\ OnWay(c)' <= OnWay(c) /\ OnWay(c) \in Nat
        BY <3>4, <3>7, OnWaySum DEF OnWay
      <4>2. OnlySent(c, inq[c])' /\ OnlySent(c, inq[lease[c]])' /\ OnlySent(c, echoq[lease[c]])'
        BY <1>2, <1>3, <2>1, <3>2, <3>3, <3>7 DEF OnlySent, Flow
      <4>3. Len(got[c])' + OnWay(c)' <= sent'[c] /\ sent'[c] <= Len(got[c])' + 1
        BY <1>2, <1>3, <2>1, <3>6, <4>1, Lengths DEF Flow
      <4>. QED
        BY <1>2, <1>3, <2>1, <3>6, <4>2, <4>3 DEF Flow
    <3>. QED
      BY <3>8
  \* and its echo to the client.
  <2>3. CASE f = backendFd[c] /\ g = clientFd[c]
    <3>1. file[f] = lease[c] /\ file[g] \in {c, None}
      BY <1>3, <1>4, <1>5, <2>1, <2>3
    <3>2. /\ Head(inq[lease[c]]) = <<c, sent[c]>> /\ OnlySent(c, Tail(inq[lease[c]]))
          /\ Len(inq[lease[c]]) \in Nat \ {0}
          /\ Len(Tail(inq[lease[c]])) = Len(inq[lease[c]]) - 1
      BY <1>3, <2>1, <1>5, <3>1, Lengths, TakeSent DEF Flow
    <3>3. inq'[lease[c]] = Tail(inq[lease[c]]) /\ inq'[c] = inq[c]
      BY <1>4, <1>6, <3>1
    <3>4. Asked(c)' = Asked(c) /\ Echoed(c)' = Echoed(c) - 1
      BY <1>2, <1>3, <2>1, <3>2, <3>3 DEF Asked, Echoed
    <3>5. sent[c] = Len(got[c]) + 1 /\ OnWay(c) = 1
      <4>1. OnWay(c) > 0
        BY <1>3, <2>1, <3>2, OnWaySum DEF OnWay, Echoed
      <4>. QED
        BY <1>3, <2>1, <4>1, InFlight
    <3>6. /\ echoq' = echoq /\ \A d \in Clients : d # c => got'[d] = got[d]
          /\ got'[c] = Append(got[c], <<c, sent[c]>>) \/ got'[c] = got[c]
      <4>1. CASE file[g] \in Ends /\ Write(file[g], Head(inq[file[f]]))
        <5>1. file[g] = c
          BY <1>4, <3>1, <4>1
        <5>2. Write(c, <<c, sent[c]>>)
          BY <3>1, <3>2, <4>1, <5>1
        <5>. QED
          BY <1>4, <5>2 DEF Write, TypeOK, PeerTypeOK
      <4>2. CASE UNCHANGED <<got, echoq>>
        BY <4>2
      <4>. QED
        BY <1>5, <4>1, <4>2
    <3>7. /\ \A i \in DOMAIN got'[c] : got'[c][i] = <<c, i>>
          /\ Len(got'[c]) \in {Len(got[c]), Len(got[c]) + 1}
      <4>1. /\ Len(Append(got[c], <<c, sent[c]>>)) = Len(got[c]) + 1
            /\ \A i \in DOMAIN Append(got[c], <<c, sent[c]>>) :
                 Append(got[c], <<c, sent[c]>>)[i] = <<c, i>>
        BY <1>3, <2>1, <3>5, Lengths, AppendProperties DEF Flow
      <4>. QED
        BY <1>3, <2>1, <3>6, <4>1 DEF Flow
    <3>8. Flow(c)'
      <4>1. AtEcho(c)' = AtEcho(c)
        BY <1>2, <3>6 DEF AtEcho
      <4>2. OnWay(c)' = OnWay(c) - 1
        BY <3>4, <4>1, OnWaySum DEF OnWay
      <4>3. OnlySent(c, inq[c])' /\ OnlySent(c, inq[lease[c]])' /\ OnlySent(c, echoq[lease[c]])'
        BY <1>2, <1>3, <2>1, <3>2, <3>3, <3>6 DEF OnlySent, Flow
      <4>4. Len(got'[c]) + OnWay(c)' <= sent'[c] /\ sent'[c] <= Len(got'[c]) + 1
        BY <1>2, <3>5, <3>7, <4>2, Lengths
      <4>. QED
        BY <3>7, <4>3, <4>4 DEF Flow
    <3>. QED
      BY <3>8
  <2>. QED
    BY <1>1, <2>2, <2>3 DEF Relay, Sides
<1>10. /\ \A b \in Conns : b \in {c, lease[c]} => ~Unused(b) \/ b \in tangled
       /\ \A d \in Clients : Clean(d) => {d, lease[d]} \cap {c, lease[c]} = {} \/ Flow(d)'
  <2>1. \A b \in Conns : b \in {c, lease[c]} => ~Unused(b)
    BY <1>4 DEF Unused
  <2>2. \A d \in Clients : d # c => {d, lease[d]} \cap {c, lease[c]} = {}
    BY <1>3, EpollAssumption DEF LeaseInv, TypeOK, EngineTypeOK
  <2>. QED
    BY <1>9, <2>1, <2>2
<1>. QED
  BY <1>2, <1>8, <1>10, LocalStep

LEMMA StepFlow ==
  ASSUME TypeOK, StepsInv, LeaseInv, MapInv, UseInv, FlowInv, [Next]_vars
  PROVE  FlowInv'
<1>1. tangled \subseteq tangled'
  BY HistoryStays
<1>2. ASSUME UNCHANGED <<got, sent, inq, echoq, lease>>
      PROVE  FlowInv'
  <2>1. \A c \in Clients : Clean(c)' => Clean(c) /\ Flow(c)
    BY <1>1, <1>2 DEF Clean, FlowInv
  <2>2. \A c \in Clients : Flow(c) => Flow(c)'
    BY <1>2 DEF Flow, OnWay, Asked, AtEcho, Echoed, OnlySent
  <2>3. \A b \in Conns : Unused(b)' => Unused(b)
    BY <1>2 DEF Unused
  <2>. QED
    BY <1>1, <1>2, <2>1, <2>2, <2>3 DEF FlowInv
<1>3. ASSUME NEW c \in Clients,
             Connect(c) \/ ClientClose(c) \/ DupClient(c) \/ DupBackend(c) \/ DupFails(c)
               \/ MapConns(c) \/ AddClient(c) \/ AddBackend(c)
      PROVE  UNCHANGED <<got, sent, inq, echoq, lease>>
  BY <1>3 DEF Connect, ClientClose, DupClient, DupBackend, DupFails, MapConns, AddClient,
              AddBackend, peers, kernel, pconns
<1>4. ASSUME EpollWait \/ IgnoreEvent \/ ReadFails \/ CloseFds \/ DeleteEntries
      PROVE  UNCHANGED <<got, sent, inq, echoq, lease>>
  BY <1>4 DEF EpollWait, IgnoreEvent, ReadFails, CloseFds, DeleteEntries, peers, kernel, pconns
<1>5. ASSUME NEW e \in Ends, FinalizeConn(e) \/ \E f \in Fds : FinalizeFile(e, f)
      PROVE  UNCHANGED <<got, sent, inq, echoq, lease>>
  BY <1>5 DEF FinalizeFile, FinalizeConn, peers, pconns
<1>6. ASSUME UNCHANGED vars
      PROVE  UNCHANGED <<got, sent, inq, echoq, lease>>
  BY <1>6 DEF vars, peers, kernel, pconns
<1>. QED
  BY <1>1, <1>2, <1>3, <1>4, <1>5, <1>6, RequestFlow, EchoFlow, GetFlow, ForwardFlow
     DEF Next, Loop, Serve

Control == TypeOK /\ StepsInv /\ LeaseInv /\ MapInv /\ UseInv /\ ExactInv

LEMMA ControlInvariant == Spec => [](Control /\ FlowInv)
<1>1. Init => Control /\ FlowInv
  BY InitType, InitControl, InitUse, InitFlow DEF Control
<1>2. Control /\ FlowInv /\ [Next]_vars => (Control /\ FlowInv)'
  <2>. SUFFICES ASSUME Control, FlowInv, [Next]_vars
                PROVE  (Control /\ FlowInv)'
    OBVIOUS
  <2>1. TypeOK'
    BY StepPeer, StepKernel, StepEngine DEF Control, TypeOK
  <2>2. StepsInv' /\ LeaseInv' /\ MapInv' /\ UseInv' /\ ExactInv' /\ FlowInv'
    BY StepSteps, StepLease, StepMap, StepUse, StepExact, StepFlow DEF Control
  <2>. QED
    BY <2>1, <2>2 DEF Control
<1>. QED
  BY <1>1, <1>2, PTL DEF Spec

\* Type correctness of the epoll engine.
THEOREM EpollTypeCorrect == Spec => []TypeOK
BY ControlInvariant, PTL DEF Control

(***************************************************************************)
(* A client receives the echo of its own requests, in the order in which   *)
(* it sent them: handleEvent relays between the two ends of one ProxyConn  *)
(* only, however numbers are reused and stale events name them.  If the    *)
(* collector finalises some of the sockets, this holds of every client     *)
(* none of whose two sockets was in use under a number that the kernel     *)
(* gave out again.                                                         *)
(***************************************************************************)
THEOREM EpollEchoesInOrder == Spec => []EchoInOrder
<1>1. Control /\ FlowInv => EchoInOrder
  <2>. SUFFICES ASSUME Control, FlowInv, NEW c \in Clients,
                       ~(Collected # {} /\ {c, lease[c]} \cap tangled # {})
                PROVE  \A i \in DOMAIN got[c] : got[c][i] = <<c, i>>
    BY DEF EchoInOrder
  <2>1. Clean(c)
    BY DEF Control, ExactInv, Clean
  <2>. QED
    BY <2>1 DEF FlowInv, Flow
<1>. QED
  BY <1>1, ControlInvariant, PTL
-----------------------------------------------------------------------------
(***************************************************************************)
(* First-hand descriptors.                                                 *)
(***************************************************************************)
\* A descriptor of a ProxyConn is set once.
LEMMA NumbersStay ==
  ASSUME TypeOK, StepsInv, [Next]_vars, NEW c \in Clients, NEW f \in Fds
  PROVE  /\ \A e \in Ends : Number(c, e, f) => Number(c, e, f)'
         /\ \A e \in Ends : Number(c, e, f)' => Number(c, e, f) \/ GivesDup(c, e, f)
<1>1. f # None /\ (backendFd[c] # None => lease[c] # None) /\ c \in Ends
  BY EpollAssumption DEF StepsInv, Ends
<1>2. ASSUME FieldsSet, UNCHANGED <<clientFd, backendFd>>, NEW e \in Ends
      PROVE  Number(c, e, f)' <=> Number(c, e, f)
  BY <1>1, <1>2 DEF FieldsSet, Number
<1>3. CASE Loses
  BY <1>2, <1>3 DEF Loses
<1>4. ASSUME NEW e \in Ends, NEW g \in Fds, GivesOwn(e, g)
      PROVE  FieldsSet /\ UNCHANGED <<clientFd, backendFd>>
  BY <1>4 DEF GivesOwn
<1>5. ASSUME NEW d \in Clients, NEW x \in Ends, NEW g \in Fds, GivesDup(d, x, g), NEW e \in Ends
      PROVE  /\ Number(c, e, f) => Number(c, e, f)'
             /\ Number(c, e, f)' => Number(c, e, f) \/ GivesDup(c, e, f)
  <2>1. UNCHANGED lease
    BY <1>5 DEF GivesDup
  <2>2. \/ /\ x = d /\ clientFd[d] = None /\ UNCHANGED backendFd
           /\ clientFd' = [clientFd EXCEPT ![d] = g]
        \/ /\ x = lease[d] /\ backendFd[d] = None /\ UNCHANGED clientFd
           /\ backendFd' = [backendFd EXCEPT ![d] = g]
    BY <1>5 DEF GivesDup
  <2>3. Number(c, e, f) => Number(c, e, f)'
    BY <1>1, <2>1, <2>2 DEF Number, TypeOK, EngineTypeOK
  <2>4. Number(c, e, f)' => Number(c, e, f) \/ (c = d /\ e = x /\ f = g)
    BY <1>1, <2>1, <2>2 DEF Number, TypeOK, EngineTypeOK
  <2>. QED
    BY <1>5, <2>3, <2>4
<1>. QED
  BY <1>2, <1>3, <1>4, <1>5, StepKinds, ClosingLoses

\* The numbers of one end are its own.
LEMMA OneNumber ==
  ASSUME TypeOK, LeaseInv, NEW c \in Clients, NEW d \in Clients, NEW e \in Ends,
         NEW f \in Fds, NEW g, Number(c, e, f), e = d \/ e = lease[d]
  PROVE  c = d /\ (Number(d, e, g) => g = f)
<1>1. lease[c] \in Conns \cup {None} /\ lease[d] \in Conns \cup {None}
  BY DEF TypeOK, EngineTypeOK
<1>. QED
  BY <1>1, EpollAssumption DEF Number, LeaseInv, Ends

\* An os.File of a first-hand client has been there since its descriptor was made.
LEMMA OldFinal ==
  ASSUME Control, [Next]_vars, NEW c \in Clients, NEW e \in Ends, NEW f \in Fds,
         Number(c, e, f), c \notin reused', <<e, f>> \in finals'
  PROVE  <<e, f>> \in finals
<1>. USE DEF Control
<1>1. CASE Loses
  BY <1>1 DEF Loses
<1>2. ASSUME NEW x \in Ends, NEW g \in Fds, GivesOwn(x, g)
      PROVE  finals' = finals
  BY <1>2 DEF GivesOwn
<1>3. ASSUME NEW d \in Clients, NEW x \in Ends, NEW g \in Fds, GivesDup(d, x, g),
             <<e, f>> \notin finals
      PROVE  FALSE
  <2>1. e = x /\ f = g
    BY <1>3 DEF GivesDup, Dup
  <2>2. c = d
    BY <1>3, <2>1, OneNumber DEF GivesDup
  <2>3. UsedBefore(f)
    BY DEF UsedBefore, Number
  <2>. QED
    BY <1>3, <2>1, <2>2, <2>3 DEF GivesDup, Dup
<1>. QED
  BY <1>1, <1>2, <1>3, StepKinds, ClosingLoses

\* It has been first-hand so far, or is being made under a number without a past.
LEMMA HoldsBefore ==
  ASSUME Control, [Next]_vars, NEW c \in Clients, NEW e \in Ends, NEW f \in Fds, Holds(c, e, f)'
  PROVE  /\ Sound(c) /\ e \notin tangled'
         /\ Holds(c, e, f) \/ (GivesDup(c, e, f) /\ ~UsedBefore(f))
<1>. USE DEF Control
<1>1. Sound(c) /\ e \notin tangled'
  BY CleanBefore DEF Holds, Sound, Clean, Number
<1>2. CASE Number(c, e, f)
  BY <1>1, <1>2, OldFinal DEF Holds, Sound
<1>3. CASE ~Number(c, e, f)
  <2>1. GivesDup(c, e, f)
    BY <1>3, NumbersStay DEF Holds
  <2>. QED
    BY <1>1, <2>1 DEF GivesDup, Dup, Holds, Sound
<1>. QED
  BY <1>1, <1>2, <1>3

LEMMA StepKept ==
  ASSUME Control, KeptInv, [Next]_vars
  PROVE  KeptInv'
<1>. USE DEF Control
<1>1. None \notin Ends /\ None \notin Fds
  BY EpollAssumption DEF Ends
<1>2. ASSUME NEW c \in Clients, NEW e \in Ends, NEW f \in Fds, Holds(c, e, f)',
             GivesDup(c, e, f), ~UsedBefore(f)
      PROVE  Kept(c, e, f)'
  <2>1. PICK s \in Ends : Take(f, s, e) /\ (s = e \/ (own[e] \in Fds /\ s = file[own[e]]))
    BY <1>2, GivenNumber
  <2>2. e \notin tangled /\ e \notin tangled'
    BY <1>2, HoldsBefore, TakeType, <2>1
  <2>3. s = e
    <3>1. own[e] \in Fds => e \in Users(own[e])
      BY DEF Users
    <3>. QED
      BY <1>1, <2>1, <2>2, <3>1 DEF UseInv
  <2>4. file'[f] = e
    BY <2>1, <2>3, TakeType
  <2>5. \A x \in Ends : own'[x] # f
    <3>1. Users(f) = {}
      BY <2>1, <2>2 DEF Take
    <3>. QED
      BY <1>2, <3>1 DEF Users, GivesDup
  <2>6. ASSUME NEW d \in Clients, NEW x \in Ends, Number(d, x, f)'
        PROVE  d = c /\ x = e
    <3>1. ~Number(d, x, f)
      BY <1>2 DEF UsedBefore, Number
    <3>2. GivesDup(d, x, f)
      BY <2>6, <3>1, NumbersStay
    <3>3. d = c
      BY <1>2, <3>2 DEF GivesDup
    <3>. QED
      BY <1>2, <3>2, <3>3 DEF GivesDup
  <2>. QED
    BY <2>4, <2>5, <2>6 DEF Kept
<1>3. ASSUME NEW c \in Clients, NEW e \in Ends, NEW f \in Fds, Holds(c, e, f)', Holds(c, e, f)
      PROVE  Kept(c, e, f)'
  <2>1. /\ file[f] = e
        /\ \A d \in Clients, x \in Ends : Number(d, x, f) => d = c /\ x = e
        /\ \A x \in Ends : own[x] # f
    BY <1>3 DEF KeptInv, Kept
  <2>2. ASSUME NEW x \in Ends, NEW g \in Fds,
               GivesOwn(x, g) \/ \E d \in Clients : GivesDup(d, x, g)
        PROVE  g # f /\ file'[f] = file[f]
    <3>1. PICK s \in Ends : Take(g, s, x)
      BY <2>2, GivenNumber
    <3>2. file[g] = None /\ \A h \in Fds : h # g => file'[h] = file[h]
      BY <3>1, TakeType
    <3>. QED
      BY <1>1, <2>1, <3>2
  <2>3. \A d \in Clients, x \in Ends : Number(d, x, f)' => d = c /\ x = e
    <3>1. ASSUME NEW d \in Clients, NEW x \in Ends, Number(d, x, f)'
          PROVE  Number(d, x, f)
      <4>1. ~GivesDup(d, x, f)
        BY <2>2
      <4>. QED
        BY <3>1, <4>1, NumbersStay
    <3>. QED
      BY <2>1, <3>1
  <2>4. \A x \in Ends : own'[x] # f
    <3>1. CASE Loses
      BY <1>1, <2>1, <3>1 DEF Loses
    <3>2. ASSUME NEW x \in Ends, NEW g \in Fds, GivesOwn(x, g)
          PROVE  \A y \in Ends : own'[y] # f
      BY <2>1, <2>2, <3>2 DEF GivesOwn, TypeOK, KernelTypeOK
    <3>3. ASSUME NEW d \in Clients, NEW x \in Ends, NEW g \in Fds, GivesDup(d, x, g)
          PROVE  own' = own
      BY <3>3 DEF GivesDup
    <3>. QED
      BY <2>1, <3>1, <3>2, <3>3, StepKinds, ClosingLoses
  <2>5. file'[f] = e
    <3>1. CASE Still
      BY <2>1, <3>1 DEF Still
    <3>2. CASE CloseFds
      <4>1. closing \in Clients /\ Mapped(closing) /\ closing' = closing /\ loop' = "delete"
        BY <3>2 DEF CloseFds, TypeOK, EngineTypeOK, MapInv
      <4>2. closing # c
        BY <1>3, <4>1 DEF Holds, Sound, Past
      <4>3. lease[closing] \in Ends /\ closing \in Ends
        BY <4>1 DEF Mapped, StepsInv, TypeOK, EngineTypeOK, Ends
      <4>4. f \notin {clientFd[closing], backendFd[closing]}
        BY <2>1, <4>1, <4>2, <4>3 DEF Number
      <4>. QED
        BY <2>1, <3>2, <4>4 DEF CloseFds
    <3>3. ASSUME NEW x \in Ends, FinalizeConn(x)
          PROVE  file'[f] = e
      BY <2>1, <3>3 DEF FinalizeConn, TypeOK, KernelTypeOK
    <3>4. ASSUME NEW x \in Ends, NEW g \in Fds, FinalizeFile(x, g)
          PROVE  file'[f] = e
      <4>1. g # f
        <5>1. SUFFICES ASSUME g = f
                       PROVE  FALSE
          OBVIOUS
        <5>2. <<x, f>> \in finals /\ finals' = finals \ {<<x, f>>}
          BY <3>4, <5>1 DEF FinalizeFile
        <5>3. \E d \in Clients : Number(d, x, f)
          BY <5>2 DEF KeptInv
        <5>. QED
          BY <1>3, <2>1, <5>2, <5>3 DEF Holds
      <4>. QED
        BY <2>1, <3>4, <4>1 DEF FinalizeFile, TypeOK, KernelTypeOK
    <3>. QED
      BY <2>1, <2>2, <3>1, <3>2, <3>3, <3>4, StepKinds DEF Finalize
  <2>. QED
    BY <2>3, <2>4, <2>5 DEF Kept
<1>4. ASSUME NEW y \in finals'
      PROVE  \E c \in Clients : Number(c, y[1], y[2])'
  <2>1. CASE y \in finals
    <3>1. PICK c \in Clients : Number(c, y[1], y[2])
      BY <2>1 DEF KeptInv
    <3>2. y[1] \in Ends /\ y[2] \in Fds
      BY <2>1 DEF TypeOK, EngineTypeOK
    <3>. QED
      BY <3>1, <3>2, NumbersStay
  <2>2. CASE y \notin finals
    <3>1. PICK c \in Clients, e \in Ends, f \in Fds : GivesDup(c, e, f)
      BY <1>4, <2>2, StepKinds, ClosingLoses DEF Loses, GivesOwn
    <3>2. y = <<e, f>>
      BY <1>4, <2>2, <3>1 DEF GivesDup, Dup
    <3>3. Number(c, e, f)'
      BY <3>1 DEF GivesDup, Number, TypeOK, EngineTypeOK
    <3>. QED
      BY <3>2, <3>3
  <2>. QED
    BY <2>1, <2>2
<1>5. \A c \in Clients, e \in Ends, f \in Fds : Holds(c, e, f)' => Kept(c, e, f)'
  BY <1>2, <1>3, HoldsBefore
<1>. QED
  BY <1>4, <1>5 DEF KeptInv

\* Where the entries of the interest list come from.
LEMMA InterestFrom ==
  ASSUME Control, [Next]_vars, NEW x \in interest'
  PROVE  \/ x \in interest
         \/ \E d \in Clients : x[1] \in FdsOf(d) /\ x[2] = file[x[1]] /\ UNCHANGED pconns
<1>. USE DEF Control
<1>1. ASSUME NEW f, f # None, Add(f)
      PROVE  x \in interest \/ x = <<f, file[f]>>
  BY <1>1 DEF Add
<1>2. ASSUME NEW c \in Clients, AddClient(c)
      PROVE  \/ x \in interest
             \/ \E d \in Clients : x[1] \in FdsOf(d) /\ x[2] = file[x[1]] /\ UNCHANGED pconns
  <2>1. clientFd[c] # None /\ Add(clientFd[c]) /\ UNCHANGED pconns
    BY <1>2 DEF AddClient, StepsInv
  <2>. QED
    BY <1>1, <2>1 DEF FdsOf
<1>3. ASSUME NEW c \in Clients, AddBackend(c)
      PROVE  \/ x \in interest
             \/ \E d \in Clients : x[1] \in FdsOf(d) /\ x[2] = file[x[1]] /\ UNCHANGED pconns
  <2>1. backendFd[c] # None /\ Add(backendFd[c]) /\ UNCHANGED pconns
    BY <1>3 DEF AddBackend, StepsInv
  <2>. QED
    BY <1>1, <2>1 DEF FdsOf
<1>4. ASSUME NEW c \in Clients, Connect(c) \/ Request(c) \/ ClientClose(c) \/ Get(c) \/ DupClient(c)
                                \/ DupBackend(c) \/ DupFails(c) \/ MapConns(c)
      PROVE  interest' \subseteq interest
  BY <1>4 DEF Connect, Request, ClientClose, Get, DupClient, DupBackend, DupFails, MapConns, kernel
<1>5. ASSUME NEW b \in Conns, EchoCopy(b)
      PROVE  interest' \subseteq interest
  BY <1>5 DEF EchoCopy
<1>6. ASSUME Loop
      PROVE  interest' \subseteq interest
  BY <1>6 DEF Loop, EpollWait, IgnoreEvent, Forward, ReadFails, CloseFds, DeleteEntries,
              LeaveInterest, kernel
<1>7. ASSUME NEW e \in Ends, FinalizeConn(e) \/ \E f \in Fds : FinalizeFile(e, f)
      PROVE  interest' \subseteq interest
  BY <1>7 DEF FinalizeFile, FinalizeConn, LeaveInterest
<1>8. ASSUME UNCHANGED vars
      PROVE  interest' \subseteq interest
  BY <1>8 DEF vars, kernel
<1>. QED
  BY <1>2, <1>3, <1>4, <1>5, <1>6, <1>7, <1>8 DEF Next, Serve

LEMMA BatchShrinks ==
  ASSUME [Next]_vars, ~EpollWait
  PROVE  batch' \subseteq batch
<1>1. ASSUME NEW c \in Clients, Connect(c) \/ Request(c) \/ ClientClose(c) \/ Serve(c)
      PROVE  batch' \subseteq batch
  BY <1>1 DEF Connect, Request, ClientClose, Serve, Get, DupClient, DupBackend, DupFails, MapConns,
              AddClient, AddBackend, evloop
<1>2. ASSUME NEW b \in Conns, EchoCopy(b)
      PROVE  batch' \subseteq batch
  BY <1>2 DEF EchoCopy, evloop
<1>3. CASE Loop
  BY <1>3 DEF Loop, IgnoreEvent, Forward, ReadFails, CloseFds, DeleteEntries, Done
<1>4. ASSUME NEW e \in Ends, FinalizeConn(e) \/ \E f \in Fds : FinalizeFile(e, f)
      PROVE  batch' \subseteq batch
  BY <1>4 DEF FinalizeFile, FinalizeConn, evloop
<1>5. CASE UNCHANGED vars
  BY <1>5 DEF vars, evloop
<1>. QED
  BY <1>1, <1>2, <1>3, <1>4, <1>5 DEF Next

LEMMA FdsStay ==
  ASSUME Control, [Next]_vars, NEW c \in Clients, NEW f \in FdsOf(c)
  PROVE  f \in FdsOf(c)'
<1>. USE DEF Control
<1>1. f \in Fds /\ c \in Ends /\ (f = backendFd[c] => lease[c] \in Ends)
  BY DEF FdsOf, StepsInv, TypeOK, EngineTypeOK, Ends
<1>2. \E e \in Ends : Number(c, e, f)
  BY <1>1 DEF FdsOf, Number
<1>3. \E e \in Ends : Number(c, e, f)'
  BY <1>1, <1>2, NumbersStay
<1>. QED
  BY <1>1, <1>3, EpollAssumption DEF Number, FdsOf

LEMMA StepEntries ==
  ASSUME Control, KeptInv, EntriesInv, [Next]_vars
  PROVE  EntriesInv'
<1>. USE DEF Control
<1>1. ASSUME NEW x \in interest'
      PROVE  \E d \in Clients : x[1] \in FdsOf(d)'
  BY InterestFrom, FdsStay DEF EntriesInv
<1>2. ASSUME NEW ev \in batch'
      PROVE  \E d \in Clients : ev[1] \in FdsOf(d)'
  <2>1. CASE EpollWait
    <3>1. PICK x \in interest : ev[1] = x[1]
      BY <1>2, <2>1 DEF EpollWait, TypeOK, KernelTypeOK
    <3>. QED
      BY <3>1, FdsStay DEF EntriesInv
  <2>2. CASE ~EpollWait
    <3>1. ev \in batch
      BY <1>2, <2>2, BatchShrinks
    <3>. QED
      BY <3>1, FdsStay DEF EntriesInv
  <2>. QED
    BY <2>1, <2>2
<1>3. ASSUME NEW c \in Clients, NEW e \in Ends, NEW f \in Fds, Holds(c, e, f)',
             NEW x \in interest', x[1] = f
      PROVE  x[2] = e
  <2>1. CASE Holds(c, e, f)
    <3>1. file[f] = e
      BY <2>1 DEF KeptInv, Kept
    <3>. QED
      BY <1>3, <2>1, <3>1, InterestFrom DEF EntriesInv
  <2>2. CASE GivesDup(c, e, f) /\ ~UsedBefore(f)
    <3>1. interest' = interest
      BY <2>2 DEF GivesDup
    <3>2. \E d \in Clients : x[1] \in FdsOf(d)
      BY <3>1 DEF EntriesInv
    <3>. QED
      BY <1>3, <2>2, <3>2 DEF UsedBefore, FdsOf
  <2>. QED
    BY <1>3, <2>1, <2>2, HoldsBefore
<1>. QED
  BY <1>1, <1>2, <1>3 DEF EntriesInv

\* What can be read is there until Forward reads it.
LEMMA StaysReadable ==
  ASSUME TypeOK, [Next]_vars, ~Forward, NEW e \in Ends, Readable(e)
  PROVE  Readable(e)'
<1>. USE DEF Readable, Ended
<1>1. CASE UNCHANGED <<app, inq>>
  BY <1>1
<1>2. ASSUME NEW c \in Clients, Connect(c) \/ ClientClose(c)
      PROVE  Readable(e)'
  <2>1. UNCHANGED inq /\ (e \in Clients /\ app[e] = "closed" => app'[e] = "closed")
    BY <1>2 DEF Connect, ClientClose, kernel, TypeOK, PeerTypeOK
  <2>. QED
    BY <2>1
<1>3. ASSUME NEW c \in Clients, Request(c)
      PROVE  Readable(e)'
  <2>1. UNCHANGED app /\ inq' = [inq EXCEPT ![c] = Append(@, <<c, sent[c] + 1>>)] /\ c \in Ends
    BY <1>3 DEF Request, Ends
  <2>2. Append(inq[c], <<c, sent[c] + 1>>) # <<>>
    <3>1. inq[c] \in Seq(Msg) /\ <<c, sent[c] + 1>> \in Msg
      BY <1>3, <2>1, EpollAssumption DEF Request, Msg, TypeOK, PeerTypeOK
    <3>. QED
      BY <3>1, AppendProperties
  <2>3. inq'[e] = inq[e] \/ inq'[e] # <<>>
    BY <2>1, <2>2 DEF TypeOK, PeerTypeOK
  <2>. QED
    BY <2>1, <2>3
<1>4. ASSUME NEW b \in Conns, EchoCopy(b)
      PROVE  Readable(e)'
  <2>1. UNCHANGED app /\ inq' = [inq EXCEPT ![b] = Append(@, Head(echoq[b]))] /\ b \in Ends
    BY <1>4 DEF EchoCopy, Ends
  <2>2. Append(inq[b], Head(echoq[b])) # <<>>
    <3>1. inq[b] \in Seq(Msg) /\ Head(echoq[b]) \in Msg
      BY <1>4, <2>1, HeadTailProperties DEF EchoCopy, TypeOK, PeerTypeOK
    <3>. QED
      BY <3>1, AppendProperties
  <2>3. inq'[e] = inq[e] \/ inq'[e] # <<>>
    BY <2>1, <2>2 DEF TypeOK, PeerTypeOK
  <2>. QED
    BY <2>1, <2>3
<1>5. ASSUME NEW c \in Clients, Serve(c)
      PROVE  UNCHANGED <<app, inq>>
  BY <1>5 DEF Serve, Get, DupClient, DupBackend, DupFails, MapConns, AddClient, AddBackend, peers, kernel
<1>6. CASE Loop
  BY <1>1, <1>6 DEF Loop, EpollWait, IgnoreEvent, ReadFails, CloseFds, DeleteEntries, peers, kernel
<1>7. ASSUME NEW x \in Ends, FinalizeConn(x) \/ \E f \in Fds : FinalizeFile(x, f)
      PROVE  UNCHANGED <<app, inq>>
  BY <1>7 DEF FinalizeFile, FinalizeConn, peers
<1>8. CASE UNCHANGED vars
  BY <1>1, <1>8 DEF vars, peers, kernel
<1>. QED
  BY <1>1, <1>2, <1>3, <1>4, <1>5, <1>6, <1>7, <1>8 DEF Next

\* Forward for another descriptor does not read what is sent to e.
LEMMA ForwardElsewhere ==
  ASSUME Control, Forward, NEW c \in Clients, NEW e \in Ends, NEW f \in Fds,
         Number(c, e, f), e \notin tangled, <<f, TRUE>> \in batch'
  PROVE  inq'[e] = inq[e]
<1>. USE DEF Control
<1>1. PICK d \in Clients, h \in Fds, g \in Fds : Relay(d, h, g)
  BY ForwardRelays
<1>2. /\ h # f /\ inq' = [inq EXCEPT ![file[h]] = Tail(@)] /\ Sides(d, h, g)
      /\ Mapped(d) /\ d \notin closed /\ lease[d] \in Conns
  BY <1>1 DEF Relay
<1>3. Relays(d)
  BY <1>2, EpollAssumption DEF Relays, Mapped, Forward, TypeOK, EngineTypeOK
<1>4. PICK x \in Ends : Number(d, x, h) /\ x \in Users(h)
  <2>1. CASE h = clientFd[d]
    BY <1>3, <2>1 DEF Users, Number, Ends
  <2>2. CASE h = backendFd[d]
    BY <1>2, <1>3, <2>2 DEF Users, Number, Ends
  <2>. QED
    BY <1>2, <2>1, <2>2 DEF Sides
<1>5. file[h] # e
  <2>1. SUFFICES ASSUME file[h] = e
                 PROVE  FALSE
    OBVIOUS
  <2>2. x = e
    BY <1>4, <2>1 DEF UseInv
  <2>. QED
    BY <1>2, <1>4, <2>2, OneNumber DEF Number
<1>. QED
  BY <1>2, <1>5 DEF TypeOK, PeerTypeOK

LEMMA StepBatch ==
  ASSUME Control, KeptInv, EntriesInv, BatchInv, [Next]_vars
  PROVE  BatchInv'
<1>. SUFFICES ASSUME NEW c \in Clients, NEW e \in Ends, NEW f \in Fds, Holds(c, e, f)',
                     <<f, TRUE>> \in batch'
              PROVE  Readable(e)'
  BY DEF BatchInv
<1>. USE DEF Control
<1>1. Holds(c, e, f)
  <2>1. SUFFICES ASSUME GivesDup(c, e, f), ~UsedBefore(f)
                 PROVE  FALSE
    BY HoldsBefore
  <2>2. <<f, TRUE>> \in batch
    BY <2>1 DEF GivesDup
  <2>3. PICK d \in Clients : <<f, TRUE>>[1] \in FdsOf(d)
    BY <2>2 DEF EntriesInv
  <2>. QED
    BY <2>1, <2>3 DEF UsedBefore, FdsOf
<1>2. CASE EpollWait
  <2>1. PICK x \in edges : <<f, TRUE>> = <<x[1], Readable(x[2])>>
    BY <1>2 DEF EpollWait
  <2>2. f = x[1] /\ Readable(x[2]) /\ x \in interest
    BY <2>1 DEF TypeOK, KernelTypeOK
  <2>3. x[2] = e
    BY <1>1, <2>2 DEF EntriesInv
  <2>4. UNCHANGED <<app, inq>>
    BY <1>2 DEF EpollWait, peers
  <2>. QED
    BY <2>2, <2>3, <2>4 DEF Readable, Ended
<1>3. CASE ~EpollWait
  <2>1. Readable(e)
    BY <1>1, <1>3, BatchShrinks DEF BatchInv
  <2>2. CASE Forward
    <3>1. Number(c, e, f) /\ e \notin tangled
      BY <1>1 DEF Holds, Sound, Clean, Number
    <3>2. inq'[e] = inq[e] /\ UNCHANGED app
      BY <2>2, <3>1, ForwardElsewhere DEF Forward
    <3>. QED
      BY <2>1, <3>2 DEF Readable, Ended
  <2>3. CASE ~Forward
    BY <2>1, <2>3, StaysReadable
  <2>. QED
    BY <2>2, <2>3
<1>. QED
  BY <1>2, <1>3

LEMMA ClosingStays ==
  ASSUME [Next]_vars, ~Forward, ~ReadFails, ~DeleteEntries
  PROVE  UNCHANGED <<closing, closed>>
<1>1. ASSUME NEW d \in Clients, Connect(d) \/ Request(d) \/ ClientClose(d) \/ Serve(d)
      PROVE  UNCHANGED <<closing, closed>>
  BY <1>1 DEF Connect, Request, ClientClose, Serve, Get, DupClient, DupBackend, DupFails, MapConns,
              AddClient, AddBackend, evloop
<1>2. ASSUME NEW b \in Conns, EchoCopy(b)
      PROVE  UNCHANGED <<closing, closed>>
  BY <1>2 DEF EchoCopy, evloop
<1>3. CASE EpollWait \/ IgnoreEvent \/ CloseFds
  BY <1>3 DEF EpollWait, IgnoreEvent, CloseFds
<1>4. ASSUME NEW e \in Ends, FinalizeConn(e) \/ \E f \in Fds : FinalizeFile(e, f)
      PROVE  UNCHANGED <<closing, closed>>
  BY <1>4 DEF FinalizeFile, FinalizeConn, evloop
<1>5. CASE UNCHANGED vars
  BY <1>5 DEF vars, evloop
<1>. QED
  BY <1>1, <1>2, <1>3, <1>4, <1>5 DEF Next, Loop

LEMMA MappedBy ==
  ASSUME TypeOK, StepsInv, [Next]_vars, NEW c \in Clients, ~Mapped(c), Mapped(c)'
  PROVE  MapConns(c)
<1>1. CASE UNCHANGED <<serve, pconns>>
  BY <1>1 DEF Mapped, pconns
<1>2. ASSUME NEW d \in Clients, Connect(d) \/ Get(d) \/ DupClient(d)
      PROVE  FALSE
  BY <1>2 DEF Connect, Get, DupClient, Mapped, pconns, StepsInv
<1>3. ASSUME NEW d \in Clients, DupBackend(d)
      PROVE  FALSE
  BY <1>3 DEF DupBackend, Mapped, TypeOK, EngineTypeOK
<1>4. ASSUME NEW d \in Clients, MapConns(d), d # c
      PROVE  FALSE
  BY <1>4 DEF MapConns, Mapped, pconns
<1>5. ASSUME NEW d \in Clients, DupFails(d) \/ AddClient(d) \/ AddBackend(d)
      PROVE  FALSE
  BY <1>5 DEF DupFails, AddClient, AddBackend, Mapped, pconns
<1>6. ASSUME NEW d \in Clients, Request(d) \/ ClientClose(d)
      PROVE  UNCHANGED <<serve, pconns>>
  BY <1>6 DEF Request, ClientClose
<1>7. ASSUME NEW b \in Conns, EchoCopy(b)
      PROVE  UNCHANGED <<serve, pconns>>
  BY <1>7 DEF EchoCopy
<1>8. CASE Loop
  BY <1>1, <1>8 DEF Loop, EpollWait, IgnoreEvent, Forward, ReadFails, CloseFds, DeleteEntries
<1>9. ASSUME NEW e \in Ends, FinalizeConn(e) \/ \E f \in Fds : FinalizeFile(e, f)
      PROVE  UNCHANGED <<serve, pconns>>
  BY <1>9 DEF FinalizeFile, FinalizeConn
<1>10. CASE UNCHANGED vars
  BY <1>1, <1>10 DEF vars
<1>. QED
  BY <1>1, <1>2, <1>3, <1>4, <1>5, <1>6, <1>7, <1>8, <1>9, <1>10 DEF Next, Serve

\* Both descriptors of a first-hand client that closeConn has not touched.
LEMMA FirstHandHolds ==
  ASSUME TypeOK, StepsInv, NEW c \in Clients, FirstHand(c), Mapped(c), ~Past(c)
  PROVE  /\ clientFd[c] \in Fds /\ backendFd[c] \in Fds /\ lease[c] \in Conns
         /\ c \in Ends /\ lease[c] \in Ends
         /\ Holds(c, c, clientFd[c]) /\ Holds(c, lease[c], backendFd[c])
<1>1. clientFd[c] \in Fds /\ backendFd[c] \in Fds /\ lease[c] \in Conns
  BY DEF Mapped, StepsInv, TypeOK, EngineTypeOK
<1>. QED
  BY <1>1 DEF Ends, FirstHand, Holds, Sound, Clean, Number

\* A client that is first-hand has been so since Serve mapped it.
LEMMA FirstHandBefore ==
  ASSUME Control, [Next]_vars, NEW c \in Clients, FirstHand(c)', Mapped(c)
  PROVE  FirstHand(c)
<1>. USE DEF Control
<1>1. /\ clientFd'[c] = clientFd[c] /\ backendFd'[c] = backendFd[c] /\ lease'[c] = lease[c]
  BY StepMapped
<1>2. c \in Ends /\ lease[c] \in Ends /\ clientFd[c] \in Fds /\ backendFd[c] \in Fds
  BY DEF Mapped, StepsInv, TypeOK, EngineTypeOK, Ends
<1>3. <<c, clientFd[c]>> \in finals /\ <<lease[c], backendFd[c]>> \in finals
  BY <1>1, <1>2, OldFinal DEF FirstHand, Number
<1>4. c \notin reused /\ Clean(c)
  BY HistoryStays, CleanBefore DEF FirstHand, Clean
<1>. QED
  BY <1>3, <1>4 DEF FirstHand, Clean

LEMMA StepFresh ==
  ASSUME Control, KeptInv, BatchInv, FreshInv, [Next]_vars
  PROVE  FreshInv'
<1>. USE DEF Control
<1>1. ASSUME NEW c \in Clients, FirstHand(c)', Mapped(c)', c \notin closed' \cup {closing'}
      PROVE  conns'[clientFd'[c]] = c /\ conns'[backendFd'[c]] = c
  <2>1. c \notin closed /\ c # closing
    <3>1. CASE DeleteEntries
      BY <1>1, <3>1 DEF DeleteEntries
    <3>2. CASE Forward
      BY <1>1, <3>2, EpollAssumption DEF Forward, TypeOK, EngineTypeOK
    <3>3. CASE ReadFails
      BY <1>1, <3>3, EpollAssumption DEF ReadFails, TypeOK, EngineTypeOK
    <3>. QED
      BY <1>1, <3>1, <3>2, <3>3, ClosingStays
  <2>2. CASE Mapped(c)
    <3>1. FirstHand(c) /\ clientFd'[c] = clientFd[c] /\ backendFd'[c] = backendFd[c]
      BY <1>1, <2>2, FirstHandBefore, StepMapped
    <3>2. conns[clientFd[c]] = c /\ conns[backendFd[c]] = c
      BY <2>1, <2>2, <3>1 DEF FreshInv
    <3>3. /\ FdsOf(c) \subseteq Fds /\ clientFd[c] \in FdsOf(c) /\ backendFd[c] \in FdsOf(c)
          /\ Holds(c, c, clientFd[c]) /\ Holds(c, lease[c], backendFd[c])
      BY <2>1, <2>2, <3>1, FirstHandHolds, EpollAssumption DEF Past, FdsOf
    <3>4. ASSUME NEW d \in Clients, d # c, Mapped(d), NEW f \in FdsOf(c)
          PROVE  f \notin {clientFd[d], backendFd[d]}
      <4>1. d \in Ends /\ lease[d] \in Ends /\ c \in Ends /\ lease[c] \in Ends
        BY <2>2, <3>4 DEF Mapped, StepsInv, TypeOK, EngineTypeOK, Ends
      <4>2. \A x \in Ends : ~Number(d, x, f)
        BY <3>3, <3>4, <4>1 DEF KeptInv, Kept, FdsOf
      <4>. QED
        BY <4>1, <4>2 DEF Number
    <3>5. \A f \in FdsOf(c) : conns'[f] = conns[f]
      <4>1. CASE UNCHANGED conns
        BY <4>1
      <4>2. ASSUME NEW d \in Clients, MapConns(d)
            PROVE  \A f \in FdsOf(c) : conns'[f] = conns[f]
        <5>1. d # c
          BY <2>2, <4>2 DEF MapConns, Mapped
        <5>2. ASSUME NEW f \in FdsOf(c)
              PROVE  f \notin {clientFd[d], backendFd[d]}
          <6>1. d \in Ends /\ lease[d] \in Ends
            BY <4>2 DEF MapConns, StepsInv, TypeOK, EngineTypeOK, Ends
          <6>2. \A x \in Ends : ~Number(d, x, f)
            BY <2>2, <3>3, <5>1, <6>1 DEF KeptInv, Kept, FdsOf, Mapped, StepsInv, TypeOK, EngineTypeOK, Ends
          <6>. QED
            BY <6>1, <6>2 DEF Number
        <5>. QED
          BY <3>3, <4>2, <5>2 DEF MapConns, TypeOK, EngineTypeOK
      <4>3. CASE DeleteEntries
        <5>1. closing \in Clients /\ closing # c /\ Mapped(closing)
          BY <2>1, <4>3 DEF DeleteEntries, TypeOK, EngineTypeOK, MapInv
        <5>. QED
          BY <3>3, <3>4, <4>3, <5>1 DEF DeleteEntries
      <4>4. ASSUME NEW d \in Clients, Connect(d) \/ Request(d) \/ ClientClose(d) \/ Get(d)
                        \/ DupClient(d) \/ DupBackend(d) \/ DupFails(d) \/ AddClient(d)
                        \/ AddBackend(d)
            PROVE  UNCHANGED conns
        BY <4>4 DEF Connect, Request, ClientClose, Get, DupClient, DupBackend, DupFails, AddClient,
                    AddBackend
      <4>5. ASSUME NEW b \in Conns, EchoCopy(b)
            PROVE  UNCHANGED conns
        BY <4>5 DEF EchoCopy
      <4>6. CASE EpollWait \/ IgnoreEvent \/ Forward \/ ReadFails \/ CloseFds
        BY <4>1, <4>6 DEF EpollWait, IgnoreEvent, Forward, ReadFails, CloseFds
      <4>7. ASSUME NEW e \in Ends, FinalizeConn(e) \/ \E f \in Fds : FinalizeFile(e, f)
            PROVE  UNCHANGED conns
        BY <4>7 DEF FinalizeFile, FinalizeConn
      <4>8. CASE UNCHANGED vars
        BY <4>1, <4>8 DEF vars
      <4>. QED
        BY <4>1, <4>2, <4>3, <4>4, <4>5, <4>6, <4>7, <4>8 DEF Next, Loop, Serve
    <3>. QED
      BY <3>1, <3>2, <3>3, <3>5
  <2>3. CASE ~Mapped(c)
    <3>1. MapConns(c)
      BY <1>1, <2>3, MappedBy
    <3>2. clientFd[c] \in Fds /\ backendFd[c] \in Fds /\ UNCHANGED pconns
      BY <3>1, EpollAssumption DEF MapConns, StepsInv, TypeOK, EngineTypeOK
    <3>. QED
      BY <3>1, <3>2 DEF MapConns, pconns, TypeOK, EngineTypeOK
  <2>. QED
    BY <2>2, <2>3
<1>2. ASSUME NEW c \in Clients, FirstHand(c)', c \in closed' \cup {closing'}
      PROVE  app'[c] = "closed"
  <2>1. c # None
    BY EpollAssumption
  <2>2. CASE c \in closed \cup {closing}
    <3>1. app[c] = "closed"
      <4>1. Mapped(c)
        BY <2>1, <2>2 DEF MapInv
      <4>. QED
        BY <1>2, <2>2, <4>1, FirstHandBefore DEF FreshInv
    <3>2. CASE UNCHANGED app
      BY <3>1, <3>2
    <3>3. ASSUME NEW d \in Clients, Connect(d) \/ ClientClose(d)
          PROVE  app'[c] = "closed"
      BY <3>1, <3>3 DEF Connect, ClientClose, TypeOK, PeerTypeOK
    <3>4. ASSUME NEW d \in Clients, Request(d) \/ Serve(d)
          PROVE  UNCHANGED app
      BY <3>4 DEF Request, Serve, Get, DupClient, DupBackend, DupFails, MapConns, AddClient,
                  AddBackend, peers
    <3>5. ASSUME NEW b \in Conns, EchoCopy(b)
          PROVE  UNCHANGED app
      BY <3>5 DEF EchoCopy
    <3>6. CASE Loop
      BY <3>2, <3>6 DEF Loop, EpollWait, IgnoreEvent, Forward, ReadFails, CloseFds, DeleteEntries, peers
    <3>7. ASSUME NEW e \in Ends, FinalizeConn(e) \/ \E f \in Fds : FinalizeFile(e, f)
          PROVE  UNCHANGED app
      BY <3>7 DEF FinalizeFile, FinalizeConn, peers
    <3>8. CASE UNCHANGED vars
      BY <3>2, <3>8 DEF vars, peers
    <3>. QED
      BY <3>2, <3>3, <3>4, <3>5, <3>6, <3>7, <3>8 DEF Next
  <2>3. CASE c \notin closed \cup {closing}
    <3>1. ASSUME Mapped(c)
          PROVE  /\ FirstHand(c)
                 /\ Holds(c, c, clientFd[c]) /\ Holds(c, lease[c], backendFd[c])
                 /\ file[clientFd[c]] = c /\ file[backendFd[c]] = lease[c]
                 /\ lease[c] \in Conns /\ c \in Ends /\ lease[c] \in Ends
                 /\ clientFd[c] \in Fds /\ backendFd[c] \in Fds
      <4>1. FirstHand(c) /\ ~Past(c)
        BY <1>2, <2>3, <3>1, FirstHandBefore DEF Past
      <4>. QED
        BY <3>1, <4>1, FirstHandHolds DEF KeptInv, Kept
    <3>2. CASE Forward
      <4>1. PICK d \in Clients, f \in Fds, g \in Fds : Relay(d, f, g)
        BY <3>2, ForwardRelays
      <4>2. /\ d = c /\ Mapped(c) /\ g \in {clientFd[c], backendFd[c]}
            /\ file[g] = None \/ Ended(file[g])
        BY <1>2, <2>3, <3>2, <4>1, EpollAssumption DEF Forward, Relay, Sides, StartClose
      <4>3. file[g] = c \/ file[g] \in Conns
        BY <3>1, <4>2
      <4>. QED
        BY <3>2, <4>2, <4>3, EpollAssumption DEF Ended, Forward
    <3>3. CASE ReadFails
      <4>1. PICK d \in Clients, f \in Fds : GiveUp(d, f)
        BY <3>3, ReadFailsGivesUp
      <4>2. /\ d = c /\ Mapped(c) /\ f \in {clientFd[c], backendFd[c]}
            /\ <<f, TRUE>> \in batch /\ (file[f] # None => inq[file[f]] = <<>>)
        BY <1>2, <2>3, <3>3, <4>1, EpollAssumption DEF ReadFails, GiveUp, Sides, StartClose
      <4>3. /\ file[f] = c \/ file[f] \in Conns
            /\ Readable(file[f])
        BY <3>1, <4>2 DEF BatchInv
      <4>. QED
        BY <3>3, <4>2, <4>3, EpollAssumption DEF Readable, Ended, ReadFails, peers
    <3>4. CASE DeleteEntries
      BY <1>2, <2>1, <2>3, <3>4 DEF DeleteEntries
    <3>. QED
      BY <1>2, <2>3, <3>2, <3>3, <3>4, ClosingStays
  <2>. QED
    BY <2>2, <2>3
<1>. QED
  BY <1>1, <1>2 DEF FreshInv

(***************************************************************************)
(* A client on first-hand descriptors whose os.Files are not finalised     *)
(* keeps both its entries in the map while it is open, and closeConn takes *)
(* it only after it has closed, whatever closeConn deletes and the         *)
(* collector closes for others.                                            *)
(***************************************************************************)
THEOREM FreshClientsAreSafe == Spec => []FreshFdsAreSafe
<1> DEFINE Fresh == KeptInv /\ EntriesInv /\ BatchInv /\ FreshInv
<1>1. Init => Fresh
  <2>. SUFFICES ASSUME Init
                PROVE  Fresh
    OBVIOUS
  <2>1. finals = {} /\ interest = {} /\ batch = {}
    BY DEF Init
  <2>. QED
    BY <2>1 DEF KeptInv, EntriesInv, BatchInv, FreshInv, Holds, FirstHand
<1>2. Control /\ Fresh /\ [Next]_vars => Fresh'
  BY StepKept, StepEntries, StepBatch, StepFresh
<1>3. Control /\ Fresh => FreshFdsAreSafe
  <2>. SUFFICES ASSUME Control, Fresh, NEW c \in Clients, FirstHand(c)
                PROVE  /\ Live(c) => conns[clientFd[c]] = c /\ conns[backendFd[c]] = c
                       /\ c \in closed \cup {closing} => app[c] = "closed"
    BY DEF FreshFdsAreSafe
  <2>1. Live(c) => Mapped(c) /\ c \notin closed \cup {closing}
    BY DEF Live, Mapped
  <2>. QED
    BY <2>1 DEF FreshInv
<1>. QED
  <2> HIDE DEF Fresh
  <2>. QED
    BY <1>1, <1>2, <1>3, ControlInvariant, PTL DEF Spec
=============================================================================
