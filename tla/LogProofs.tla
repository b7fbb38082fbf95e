------------------------------ MODULE LogProofs ------------------------------
(***************************************************************************)
(* Theorems about the two programs of log-aggregator, for any number of    *)
(* producers and entries, any buffer sizes and every IPC type.             *)
(***************************************************************************)
EXTENDS LogAggregator, SequenceTheorems, TLAPS

USE ProducerAssumption, AggregatorAssumption

LEMMA EntryNumbers ==
  ASSUME NEW p \in Producers, NEW i \in 1 .. Msgs[p]
  PROVE  <<p, i>> \in Entries
BY DEF Entries

LEMMA WhoReads == Producers \subseteq Readers /\ None \in Readers
BY DEF Readers

\* A sequence with one more of the same elements at any place.
LEMMA InsertionsTyped ==
  ASSUME NEW S, NEW s \in Seq(S), NEW e \in S, NEW t \in Insertions(s, e)
  PROVE  t \in Seq(S) /\ Len(t) = Len(s) + 1
<1>1. PICK i \in 1 .. Len(s) + 1 : t = InsertAt(s, i, e)
  BY DEF Insertions
<1>2. Len(s) \in Nat /\ \A k \in 1 .. Len(s) : s[k] \in S
  BY LenProperties, ElementOfSeq
<1>3. /\ SubSeq(s, 1, i - 1) \in Seq(S) /\ Len(SubSeq(s, 1, i - 1)) = i - 1
      /\ SubSeq(s, i, Len(s)) \in Seq(S) /\ Len(SubSeq(s, i, Len(s))) = Len(s) - i + 1
  <2>1. \A k \in 1 .. i - 1 : s[k] \in S
    BY <1>2
  <2>2. \A k \in i .. Len(s) : s[k] \in S
    BY <1>2
  <2>. QED
    BY <1>2, <2>1, <2>2, SubSeqProperties
<1>4. <<e>> \in Seq(S) /\ Len(<<e>>) = 1
  OBVIOUS
<1>5. /\ SubSeq(s, 1, i - 1) \o <<e>> \in Seq(S)
      /\ Len(SubSeq(s, 1, i - 1) \o <<e>>) = i
  BY <1>2, <1>3, <1>4, ConcatProperties
<1> DEFINE front == SubSeq(s, 1, i - 1) \o <<e>>
           rest  == SubSeq(s, i, Len(s))
<1>6. front \in Seq(S) /\ Len(front) = i /\ rest \in Seq(S) /\ Len(rest) = Len(s) - i + 1
  BY <1>3, <1>5
<1>7. t = front \o rest
  BY <1>1 DEF InsertAt
<1> HIDE DEF front, rest
<1>8. t \in Seq(S) /\ Len(t) = Len(front) + Len(rest)
  BY <1>6, <1>7, ConcatProperties
<1>. QED
  BY <1>2, <1>6, <1>8

\* What an erratic kernel makes of a connection.
LEMMA ErraticLink ==
  ASSUME NEW S, NEW p \in Producers, link[p] \in Seq(S), entry[p] \in S, WriteErratic(p)
  PROVE  \E t \in Seq(S) : Len(t) <= linkCapacity /\ link' = [link EXCEPT ![p] = t]
<1>1. PICK s \in Insertions(link[p], entry[p]) :
        \E t \in {s} \cup Insertions(s, entry[p]) :
          Len(t) <= linkCapacity /\ link' = [link EXCEPT ![p] = t]
  BY DEF WriteErratic
<1>2. s \in Seq(S)
  BY InsertionsTyped
<1>3. \A t \in {s} \cup Insertions(s, entry[p]) : t \in Seq(S)
  BY <1>2, InsertionsTyped
<1>. QED
  BY <1>1, <1>3

\* An entry is made before it is sent; the goroutine of Receive reads no
\* stream, and nothing before it listens.
Roles ==
  /\ \A p \in Producers : prog[p] = "send" => made[p] >= 1
  /\ IsStream => rd[None] = "idle"
  /\ rd[None] # "idle" => \A p \in Producers : peer[p] # "absent"

TypeInv == TypeOK /\ Roles

LEMMA InitType == Init => TypeInv
<1> SUFFICES ASSUME Init
             PROVE  TypeInv
  OBVIOUS
<1>1. made \in [Producers -> Nat] /\ \A p \in Producers : made[p] <= Msgs[p]
  BY DEF Init, ProducerInit
<1>0. \A p \in Producers : ebuf[p] = <<>> /\ link[p] = <<>>
  BY DEF Init, ProducerInit
<1>2. \A p \in Producers : entry[p] = None /\ pub[p] = "dial" /\ prog[p] = "select"
  BY DEF Init, ProducerInit
<1>3. \A r \in Readers : log[r] = None /\ rd[r] = "idle"
  BY DEF Init
<1>4. /\ ebuf \in [Producers -> Seq(Entries)] /\ link \in [Producers -> Seq(Entries)]
      /\ entry \in [Producers -> Entries \cup {None}]
      /\ log \in [Readers -> Entries \cup {None}]
  BY EmptySeq DEF Init, ProducerInit
<1>5. ProducerTypeOK
  BY <1>0, <1>1, <1>2, <1>4, EmptySeq DEF Init, ProducerInit, ProducerTypeOK
<1>6. TypeOK
  <2>1. \A r \in Readers : log[r] # None <=> rd[r] = "send"
    BY <1>3
  <2>2. /\ events \in Seq(Entries) /\ Len(events) <= aggregatorBufferSize
        /\ written \in Seq(Entries) /\ inFile \in 0 .. Len(written)
    BY EmptySeq DEF Init
  <2>. QED
    BY <1>4, <1>5, <2>1, <2>2 DEF Init, TypeOK
<1>. QED
  BY <1>2, <1>3, <1>6, WhoReads DEF TypeInv, Roles

\* The steps of the producers, and what the aggregator keeps meanwhile.
LEMMA StepProducer ==
  ASSUME TypeInv, NEW p \in Producers, Producer(p)
  PROVE  TypeOK'
<1>0. UNCHANGED aggVars
  BY DEF Producer
<1> USE DEF TypeInv, TypeOK, ProducerTypeOK, start, procs, aggVars
<1>1. CASE Tick(p)
  BY <1>0, <1>1 DEF Tick
<1>2. CASE SendEntry(p)
  <2>1. <<p, made[p]>> \in Entries
    BY <1>2, EntryNumbers DEF SendEntry, Roles
  <2>2. Append(ebuf[p], <<p, made[p]>>) \in Seq(Entries)
        /\ Len(Append(ebuf[p], <<p, made[p]>>)) = Len(ebuf[p]) + 1
    BY <2>1, AppendProperties
  <2>3. Len(ebuf[p]) + 1 <= producerBufferSize
    BY <1>2, LenProperties DEF SendEntry
  <2>4. /\ ebuf' \in [Producers -> Seq(Entries)]
        /\ \A x \in Producers : Len(ebuf'[x]) <= producerBufferSize
    BY <1>2, <2>2, <2>3 DEF SendEntry
  <2>. QED
    BY <1>0, <1>2, <2>4 DEF SendEntry
<1>3. CASE Timeout(p) \/ Exit(p)
  <2>1. CASE Timeout(p)
    BY <1>0, <2>1 DEF Timeout
  <2>2. CASE Exit(p)
    BY <1>0, <2>2 DEF Exit
  <2>. QED
    BY <1>3, <2>1, <2>2
<1>4. CASE Dial(p) \/ PublishEnds(p)
  <2>1. CASE Dial(p)
    BY <1>0, <2>1 DEF Dial
  <2>2. CASE PublishEnds(p)
    BY <1>0, <2>2 DEF PublishEnds
  <2>. QED
    BY <1>4, <2>1, <2>2
<1>5. CASE DialFails(p) \/ WriteFails(p)
  <2>1. Die(p) /\ UNCHANGED <<start, made, link, peer>>
    BY <1>5 DEF DialFails, WriteFails
  <2>2. Len(<<>>) <= producerBufferSize /\ <<>> \in Seq(Entries)
    BY EmptySeq
  <2>. QED
    BY <1>0, <2>1, <2>2 DEF Die
<1>6. CASE Take(p)
  <2>1. /\ Head(ebuf[p]) \in Entries /\ Tail(ebuf[p]) \in Seq(Entries)
        /\ Len(Tail(ebuf[p])) = Len(ebuf[p]) - 1
    BY <1>6, HeadTailProperties DEF Take
  <2>2. Len(ebuf[p]) \in Nat
    BY LenProperties
  <2>. QED
    BY <1>0, <1>6, <2>1, <2>2 DEF Take
<1>7. CASE Write(p)
  <2>1. entry[p] \in Entries
    BY <1>7 DEF Write
  <2>2. Append(link[p], entry[p]) \in Seq(Entries)
        /\ Len(Append(link[p], entry[p])) = Len(link[p]) + 1
    BY <2>1, AppendProperties
  <2>3. Len(link[p]) + 1 <= linkCapacity
    BY <1>7, LenProperties DEF Write
  <2>. QED
    BY <1>0, <1>7, <2>2, <2>3 DEF Write
<1>8. CASE WriteErratic(p)
  <2>1. PICK t \in Seq(Entries) : Len(t) <= linkCapacity /\ link' = [link EXCEPT ![p] = t]
    <3>1. link[p] \in Seq(Entries) /\ entry[p] \in Entries
      BY <1>8 DEF WriteErratic
    <3>. QED
      BY <1>8, <3>1, ErraticLink
  <2>2. /\ link' \in [Producers -> Seq(Entries)]
        /\ \A x \in Producers : Len(link'[x]) <= linkCapacity
    BY <2>1
  <2>. QED
    BY <1>0, <1>8, <2>2 DEF WriteErratic
<1>9. CASE WriteLost(p)
  BY <1>0, <1>9 DEF WriteLost
<1>. QED
  BY <1>1, <1>2, <1>3, <1>4, <1>5, <1>6, <1>7, <1>8, <1>9 DEF Producer, Run, Publish

\* The steps of a reader.
LEMMA StepReader ==
  ASSUME TypeInv, NEW r \in Readers, Reader(r)
  PROVE  TypeOK'
<1> USE DEF TypeInv, TypeOK, ProducerTypeOK, start, procs, prodVars, aggVars, Give, End
<1>1. ASSUME NEW p \in Producers, link[p] # <<>>
      PROVE  /\ Head(link[p]) \in Entries /\ Tail(link[p]) \in Seq(Entries)
             /\ Len(Tail(link[p])) <= linkCapacity
  <2>1. link[p] \in Seq(Entries) /\ Len(link[p]) <= linkCapacity
    OBVIOUS
  <2>2. Len(Tail(link[p])) = Len(link[p]) - 1 /\ Len(link[p]) \in Nat
    BY <1>1, <2>1, HeadTailProperties, LenProperties
  <2>. QED
    BY <1>1, <2>1, <2>2, HeadTailProperties
<1>2. rd[r] = "read" => Sources(r) \subseteq Producers
  BY WhoReads DEF Sources, Readers, Roles, IsStream
<1>3. CASE ReadEntry(r)
  <2>1. PICK p \in Sources(r) \ Oversized :
          /\ link[p] # <<>>
          /\ Give(r, "send", Head(link[p]))
          /\ link' = [link EXCEPT ![p] = Tail(@)]
    BY <1>3 DEF ReadEntry
  <2>2. p \in Producers
    BY <1>2, <1>3 DEF ReadEntry
  <2>3. Head(link[p]) \in Entries /\ link' \in [Producers -> Seq(Entries)]
        /\ \A q \in Producers : Len(link'[q]) <= linkCapacity
    BY <1>1, <2>1, <2>2
  <2>4. /\ rd' \in [Readers -> {"idle", "read", "send", "eof", "done"}]
        /\ log' \in [Readers -> Entries \cup {None}]
        /\ \A q \in Readers : log'[q] # None <=> rd'[q] = "send"
    BY <2>1, <2>3
  <2>. QED
    BY <1>3, <2>3, <2>4 DEF ReadEntry
<1>4. CASE SkipEntry(r)
  <2>1. PICK p \in Producers : link[p] # <<>> /\ link' = [link EXCEPT ![p] = Tail(@)]
    BY <1>2, <1>4 DEF SkipEntry
  <2>2. /\ link' \in [Producers -> Seq(Entries)]
        /\ \A q \in Producers : Len(link'[q]) <= linkCapacity
    BY <1>1, <2>1
  <2>. QED
    BY <1>4, <2>2 DEF SkipEntry
<1>5. CASE TooLong(r)
  <2>1. <<>> \in Seq(Entries) /\ Len(<<>>) <= linkCapacity
    BY EmptySeq
  <2>. QED
    BY <1>5, <2>1 DEF TooLong
<1>6. CASE ReadEOF(r)
  BY <1>6 DEF ReadEOF
<1>7. CASE CloseReader(r)
  BY <1>7 DEF CloseReader
<1>8. CASE SendEvent(r)
  <2>1. log[r] \in Entries
    BY <1>8 DEF SendEvent
  <2>2. events' \in Seq(Entries) /\ Len(events') = Len(events) + 1
    BY <1>8, <2>1, AppendProperties DEF SendEvent
  <2>3. Len(events) + 1 <= aggregatorBufferSize
    BY <1>8, LenProperties DEF SendEvent
  <2>. QED
    BY <1>8, <2>2, <2>3 DEF SendEvent
<1>9. CASE SendPanics(r)
  BY <1>9 DEF SendPanics
<1>. QED
  BY <1>3, <1>4, <1>5, <1>6, <1>7, <1>8, <1>9 DEF Reader

LEMMA StepType ==
  ASSUME TypeInv, [Next]_vars
  PROVE  TypeOK'
<1> USE DEF TypeInv, TypeOK, ProducerTypeOK, start, procs, prodVars, aggVars, End
<1>1. CASE Notify \/ Kill \/ Interrupt \/ ListenFails \/ TooLongForFIFO
  <2>1. CASE Notify
    BY <2>1 DEF Notify
  <2>3. CASE Interrupt
    BY <2>3 DEF Interrupt
  <2>2. CASE Kill \/ ListenFails \/ TooLongForFIFO
    BY <2>2 DEF Kill, ListenFails, TooLongForFIFO
  <2>. QED
    BY <1>1, <2>1, <2>2, <2>3
<1>2. CASE Listen
  <2>1. rd[None] # "send" /\ None \in Readers
    BY <1>2, WhoReads DEF Listen, Roles, Entries
  <2>2. rd' \in [Readers -> {"idle", "read", "send", "eof", "done"}]
        /\ \A r \in Readers : rd'[r] = "send" <=> rd[r] = "send"
    <3>1. rd' = IF IsStream THEN rd ELSE [rd EXCEPT ![None] = "read"]
      BY <1>2 DEF Listen
    <3>2. CASE IsStream
      BY <3>1, <3>2
    <3>3. CASE ~IsStream
      <4>1. rd' = [rd EXCEPT ![None] = "read"]
        BY <3>1, <3>3
      <4>. QED
        BY <4>1, <2>1
    <3>. QED
      BY <3>2, <3>3
  <2>. QED
    BY <1>2, <2>2 DEF Listen
<1>3. ASSUME NEW p \in Producers, Accept(p)
      PROVE  TypeOK'
  <2>1. p \in Readers /\ rd[p] = "idle" /\ rd' = [rd EXCEPT ![p] = "read"]
    BY <1>3, WhoReads DEF Accept
  <2>2. rd' \in [Readers -> {"idle", "read", "send", "eof", "done"}]
        /\ \A r \in Readers : rd'[r] = "send" <=> rd[r] = "send"
    BY <2>1
  <2>. QED
    BY <1>3, <2>2 DEF Accept
<1>4. CASE Create \/ EventsEnd \/ CloseDone \/ MainExits
  BY <1>4 DEF Create, EventsEnd, CloseDone, MainExits
<1>5. CASE WriteEvent
  <2>1. /\ Head(events) \in Entries /\ Tail(events) \in Seq(Entries)
        /\ Len(Tail(events)) <= aggregatorBufferSize
    BY <1>5, HeadTailProperties, LenProperties DEF WriteEvent
  <2>2. written' \in Seq(Entries)
    BY <1>5, <2>1, AppendProperties DEF WriteEvent
  <2>3. inFile' \in 0 .. Len(written')
    BY <1>5, <2>2, LenProperties DEF WriteEvent
  <2>. QED
    BY <1>5, <2>1, <2>2, <2>3 DEF WriteEvent
<1>6. CASE Flush
  BY <1>6, LenProperties DEF Flush
<1>7. CASE UNCHANGED vars
  BY <1>7 DEF vars
<1>. QED
  BY <1>1, <1>2, <1>3, <1>4, <1>5, <1>6, <1>7, StepProducer, StepReader
  DEF Next, Collect

LEMMA StepRoles ==
  ASSUME TypeInv, [Next]_vars
  PROVE  Roles'
<1>1. /\ prog \in [Producers -> {"select", "send", "wait", "exited", "dead"}]
      /\ rd \in [Readers -> {"idle", "read", "send", "eof", "done"}]
      /\ made \in [Producers -> Nat]
      /\ peer \in [Producers -> {"absent", "open", "closed"}]
      /\ Roles
  BY DEF TypeInv, TypeOK, ProducerTypeOK
<1> USE DEF Roles, IsStream, start, procs, prodVars, aggVars, End
<1>2. CASE \/ Notify \/ Kill \/ Interrupt \/ ListenFails \/ TooLongForFIFO \/ Collect
           \/ UNCHANGED vars
  BY <1>1, <1>2 DEF Notify, Kill, Interrupt, ListenFails, TooLongForFIFO, Collect, Create,
                    WriteEvent, EventsEnd, Flush, CloseDone, MainExits, vars
<1>3. CASE Listen
  BY <1>1, <1>3 DEF Listen
<1>4. ASSUME NEW p \in Producers, Accept(p)
      PROVE  Roles'
  BY <1>1, <1>4 DEF Accept
<1>5. ASSUME NEW r \in Readers, Reader(r)
      PROVE  Roles'
  <2>1. /\ UNCHANGED procs /\ (rd[r] = "idle" => rd'[r] = "idle")
        /\ \A q \in Readers : q # r => rd'[q] = rd[q]
        /\ \A p \in Producers : peer[p] # "absent" => peer'[p] # "absent"
    <3>1. CASE ReadEntry(r) \/ SkipEntry(r) \/ ReadEOF(r) \/ SendEvent(r)
      BY <1>1, <3>1 DEF ReadEntry, SkipEntry, ReadEOF, SendEvent, Give
    <3>2. CASE TooLong(r) \/ CloseReader(r) \/ SendPanics(r)
      BY <1>1, <3>2 DEF TooLong, CloseReader, SendPanics
    <3>. QED
      BY <1>5, <3>1, <3>2 DEF Reader
  <2>2. rd'[None] # "idle" => rd[None] # "idle"
    BY <1>5, <2>1, WhoReads
  <2>. QED
    BY <1>1, <2>1, WhoReads
<1>6. ASSUME NEW p \in Producers, Producer(p)
      PROVE  Roles'
  <2>1. UNCHANGED <<ipcType, rd, peer>>
    BY <1>6 DEF Producer, Run, Publish, Tick, SendEntry, Timeout, Exit, Dial, DialFails,
                Take, Write, WriteErratic, WriteLost, WriteFails, PublishEnds, Die
  <2>2. CASE Tick(p)
    BY <1>1, <2>1, <2>2 DEF Tick
  <2>3. CASE ~Tick(p)
    <3>1. /\ made' = made
          /\ \A q \in Producers : prog'[q] = "send" => prog[q] = "send"
      BY <1>1, <1>6, <2>3 DEF Producer, Run, Publish, SendEntry, Timeout, Exit, Dial,
           DialFails, Take, Write, WriteErratic, WriteLost, WriteFails, PublishEnds, Die
    <3>. QED
      BY <1>1, <2>1, <3>1
  <2>. QED
    BY <2>2, <2>3
<1>. QED
  BY <1>2, <1>3, <1>4, <1>5, <1>6 DEF Next

(***************************************************************************)
(* No channel, connection or buffer of the two programs holds more than    *)
(* its capacity or anything but entries that were made, and a goroutine    *)
(* holds an entry exactly while it sends or writes it.                     *)
(***************************************************************************)
THEOREM LogTypeCorrect == Spec => []TypeOK
<1>1. Init => TypeInv
  BY InitType
<1>2. TypeInv /\ [Next]_vars => TypeInv'
  BY StepType, StepRoles DEF TypeInv
<1>. QED
  BY <1>1, <1>2, PTL DEF Spec, TypeInv

-----------------------------------------------------------------------------
\* How far the deferred calls of the collector have come says what is empty.
Unwinding ==
  /\ out \in {"flush", "close", "done"} => closed /\ events = <<>>
  /\ out \in {"close", "done"} => inFile = Len(written)
  /\ agg = "exited" => out = "done"

LEMMA StepUnwinding ==
  ASSUME Unwinding, [Next]_vars
  PROVE  Unwinding'
<1> USE DEF Unwinding, prodVars, aggVars, End, Give
<1>1. CASE Notify \/ Kill \/ Interrupt \/ Listen \/ ListenFails \/ TooLongForFIFO
  BY <1>1 DEF Notify, Kill, Interrupt, Listen, ListenFails, TooLongForFIFO
<1>2. ASSUME NEW r \in Readers, Reader(r)
      PROVE  Unwinding'
  BY <1>2 DEF Reader, ReadEntry, SkipEntry, TooLong, ReadEOF, CloseReader, SendEvent,
              SendPanics
<1>3. ASSUME NEW p \in Producers, Producer(p) \/ Accept(p)
      PROVE  Unwinding'
  BY <1>3 DEF Producer, Accept
<1>4. CASE Collect
  BY <1>4 DEF Collect, Create, WriteEvent, EventsEnd, Flush, CloseDone, MainExits
<1>5. CASE UNCHANGED vars
  BY <1>5 DEF vars
<1>. QED
  BY <1>1, <1>2, <1>3, <1>4, <1>5 DEF Next

(***************************************************************************)
(* An aggregator that exits by itself leaves a complete file: main returns *)
(* after done, done is closed after the flush, the flush comes after the   *)
(* channel is closed and empty, and nothing can be sent to it any more.    *)
(***************************************************************************)
THEOREM ExitLeavesCompleteFile == Spec => []CleanExit
<1>1. Init => Unwinding
  BY DEF Init, Unwinding
<1>2. Unwinding /\ [Next]_vars => Unwinding'
  BY StepUnwinding
<1>3. Unwinding => CleanExit
  BY DEF Unwinding, CleanExit
<1>. QED
  BY <1>1, <1>2, <1>3, PTL DEF Spec

-----------------------------------------------------------------------------
(***************************************************************************)
(* The order of the entries of a producer.  The numbers of p's entries at  *)
(* each place of the way lie between two marks; what moves on takes the    *)
(* mark between the two places with it.                                    *)
(***************************************************************************)
Owner(e)  == e[1]
Number(e) == e[2]

\* Of p's entries, s has some after the lo-th up to the hi-th, in order,
Span(s, p, lo, hi) ==
  /\ lo <= hi
  /\ \A i \in 1 .. Len(s) : Owner(s[i]) = p => lo < Number(s[i]) /\ Number(s[i]) <= hi
  /\ \A i, j \in 1 .. Len(s) :
       i < j /\ Owner(s[i]) = p /\ Owner(s[j]) = p => Number(s[i]) < Number(s[j])

\* and all of them.
Full(s, p, lo, hi) ==
  \A n \in lo + 1 .. hi : \E i \in 1 .. Len(s) : s[i] = <<p, n>>

\* When nothing of p may get lost.
Kept(p) ==
  /\ p \notin Oversized
  /\ prog[p] # "dead" /\ agg = "up" /\ ipcType # "udp"
  /\ ~(ipcType = "fifo" /\ rd[None] \in {"eof", "done"})

\* The number of entries p has sent on its channel.
Sent(p) == IF prog[p] = "send" THEN made[p] - 1 ELSE made[p]

Marks(p, a, b, c, d, e) ==
  /\ Span(written, p, 0, a) /\ Span(events, p, a, b)
  /\ Span(Opt(log[ReaderOf(p)]), p, b, c) /\ Span(link[p], p, c, d)
  /\ Span(Opt(entry[p]), p, d, e) /\ Span(ebuf[p], p, e, Sent(p))
  /\ Kept(p) =>
       /\ Full(written, p, 0, a) /\ Full(events, p, a, b)
       /\ Full(Opt(log[ReaderOf(p)]), p, b, c) /\ Full(link[p], p, c, d)
       /\ Full(Opt(entry[p]), p, d, e) /\ Full(ebuf[p], p, e, Sent(p))

Marked(p) == \E a, b, c, d, e \in Nat : Marks(p, a, b, c, d, e)

\* Entries on a connection are those of its producer.
OwnEntries ==
  /\ \A p \in Producers :
       /\ \A i \in 1 .. Len(ebuf[p]) : Owner(ebuf[p][i]) = p
       /\ \A i \in 1 .. Len(link[p]) : Owner(link[p][i]) = p
       /\ entry[p] # None => Owner(entry[p]) = p
       /\ IsStream /\ log[p] # None => Owner(log[p]) = p
       /\ ~IsStream => rd[p] = "idle"

\* A stream is closed at the other end only after its producer has shut it.
ClosedAfterShut ==
  \A p \in Producers \ Oversized :
    /\ conn[p] = "shut" => pub[p] = "done"
    /\ IsStream /\ agg = "up" /\ (rd[p] \in {"eof", "done"} \/ peer[p] = "closed")
         => conn[p] = "shut"

LEMMA EntryShape ==
  ASSUME NEW e \in Entries
  PROVE  /\ e = <<Owner(e), Number(e)>> /\ e # None
         /\ Owner(e) \in Producers /\ Number(e) \in Nat \ {0}
<1>1. PICK p \in Producers : \E i \in 1 .. Msgs[p] : e = <<p, i>>
  BY DEF Entries
<1>2. PICK i \in 1 .. Msgs[p] : e = <<p, i>>
  BY <1>1
<1>3. Msgs[p] \in Nat /\ i \in Nat \ {0}
  OBVIOUS
<1>. QED
  BY <1>2, <1>3 DEF Owner, Number

LEMMA OptEntry ==
  /\ Opt(None) = <<>>
  /\ \A e \in Entries : /\ Opt(e) = <<e>> /\ Opt(e) # <<>>
                        /\ Head(Opt(e)) = e /\ Tail(Opt(e)) = <<>>
                        /\ Opt(e) = Append(<<>>, e)
  /\ \A e \in Entries \cup {None} : Opt(e) \in Seq(Entries)
<1>1. Opt(None) = <<>>
  BY DEF Opt
<1>2. ASSUME NEW e \in Entries
      PROVE  /\ Opt(e) = <<e>> /\ Opt(e) # <<>>
             /\ Head(Opt(e)) = e /\ Tail(Opt(e)) = <<>>
             /\ Opt(e) = Append(<<>>, e) /\ Opt(e) \in Seq(Entries)
  <2>1. Opt(e) = <<e>>
    BY EntryShape DEF Opt
  <2>. QED
    BY <2>1
<1>. QED
  BY <1>1, <1>2, EmptySeq

\* Nothing is between two marks that are in order.
LEMMA EmptySpan ==
  ASSUME NEW p, NEW lo \in Nat, NEW hi \in Nat, lo <= hi
  PROVE  Span(<<>>, p, lo, hi) /\ Full(<<>>, p, lo, lo)
<1>1. Len(<<>>) = 0
  BY EmptySeq
<1>. QED
  BY <1>1 DEF Span, Full

LEMMA EmptyFull ==
  ASSUME NEW p, NEW lo \in Nat, NEW hi \in Nat, Full(<<>>, p, lo, hi), lo <= hi
  PROVE  lo = hi
<1>1. Len(<<>>) = 0
  BY EmptySeq
<1>2. hi \notin lo + 1 .. hi
  BY <1>1 DEF Full
<1>. QED
  BY <1>2

\* The next entry of p at the end.
LEMMA SpanNext ==
  ASSUME NEW s \in Seq(Entries), NEW p \in Producers, NEW lo \in Nat, NEW hi \in Nat,
         NEW e \in Entries, NEW n \in Nat,
         Span(s, p, lo, hi), Owner(e) = p, Number(e) = n, hi < n
  PROVE  /\ Span(Append(s, e), p, lo, n)
         /\ n = hi + 1 /\ Full(s, p, lo, hi) => Full(Append(s, e), p, lo, n)
<1> DEFINE t == Append(s, e)
<1>1. /\ Len(t) = Len(s) + 1 /\ Len(s) \in Nat
      /\ \A i \in 1 .. Len(s) : t[i] = s[i] /\ Number(s[i]) \in Nat
      /\ t[Len(s) + 1] = e
  BY AppendProperties, LenProperties, ElementOfSeq, EntryShape
<1> HIDE DEF t
<1>2. \A i \in 1 .. Len(t) : i \in 1 .. Len(s) \/ (i = Len(s) + 1 /\ i \notin 1 .. Len(s))
  BY <1>1
<1>3. ASSUME NEW i \in 1 .. Len(t), Owner(t[i]) = p
      PROVE  lo < Number(t[i]) /\ Number(t[i]) <= n
  <2>1. CASE i \in 1 .. Len(s)
    <3>1. lo < Number(s[i]) /\ Number(s[i]) <= hi /\ Number(s[i]) \in Nat
      BY <1>1, <1>3, <2>1 DEF Span
    <3>. QED
      BY <1>1, <2>1, <3>1
  <2>2. CASE i = Len(s) + 1
    <3>1. Number(t[i]) = n /\ lo <= hi
      BY <1>1, <2>2 DEF Span
    <3>. QED
      BY <3>1
  <2>. QED
    BY <1>2, <2>1, <2>2
<1>4. ASSUME NEW i \in 1 .. Len(t), NEW j \in 1 .. Len(t), i < j,
             Owner(t[i]) = p, Owner(t[j]) = p
      PROVE  Number(t[i]) < Number(t[j])
  <2>0. i \in 1 .. Len(s)
    BY <1>1, <1>4
  <2>1. CASE j \in 1 .. Len(s)
    BY <1>1, <1>4, <2>0, <2>1 DEF Span
  <2>2. CASE j = Len(s) + 1
    <3>1. Number(s[i]) <= hi /\ Number(s[i]) \in Nat /\ t[i] = s[i]
      BY <1>1, <1>4, <2>0 DEF Span
    <3>2. Number(t[j]) = n
      BY <1>1, <2>2
    <3>. QED
      BY <3>1, <3>2
  <2>. QED
    BY <1>2, <2>1, <2>2
<1>5. lo <= n
  BY DEF Span
<1>6. ASSUME n = hi + 1, Full(s, p, lo, hi), NEW k \in lo + 1 .. n
      PROVE  \E i \in 1 .. Len(t) : t[i] = <<p, k>>
  <2>1. CASE k \in lo + 1 .. hi
    <3>1. PICK i \in 1 .. Len(s) : s[i] = <<p, k>>
      BY <1>6, <2>1 DEF Full
    <3>2. i \in 1 .. Len(t) /\ t[i] = <<p, k>>
      BY <1>1, <3>1
    <3>. QED
      BY <3>2
  <2>2. CASE k = n
    <3>1. e = <<p, n>>
      BY EntryShape
    <3>2. Len(s) + 1 \in 1 .. Len(t) /\ t[Len(s) + 1] = <<p, k>>
      BY <1>1, <2>2, <3>1
    <3>. QED
      BY <3>2
  <2>3. k \in lo + 1 .. hi \/ k = n
    BY <1>6
  <2>. QED
    BY <2>1, <2>2, <2>3
<1>7. Span(t, p, lo, n)
  BY <1>3, <1>4, <1>5 DEF Span
<1>8. n = hi + 1 /\ Full(s, p, lo, hi) => Full(t, p, lo, n)
  BY <1>6 DEF Full
<1>. QED
  BY <1>7, <1>8 DEF t

\* An entry of somebody else at the end.
LEMMA SpanForeign ==
  ASSUME NEW s \in Seq(Entries), NEW p \in Producers, NEW lo \in Nat, NEW hi \in Nat,
         NEW e \in Entries, Span(s, p, lo, hi), Owner(e) # p
  PROVE  /\ Span(Append(s, e), p, lo, hi)
         /\ Full(s, p, lo, hi) => Full(Append(s, e), p, lo, hi)
<1> DEFINE t == Append(s, e)
<1>1. /\ Len(t) = Len(s) + 1 /\ Len(s) \in Nat
      /\ \A i \in 1 .. Len(s) : t[i] = s[i]
      /\ t[Len(s) + 1] = e
  BY AppendProperties, LenProperties
<1> HIDE DEF t
<1>2. \A i \in 1 .. Len(t) : Owner(t[i]) = p => i \in 1 .. Len(s)
  <2>1. \A i \in 1 .. Len(t) : i \in 1 .. Len(s) \/ i = Len(s) + 1
    BY <1>1
  <2>. QED
    BY <1>1, <2>1
<1>3. Span(t, p, lo, hi)
  <2>1. lo <= hi
    BY DEF Span
  <2>2. ASSUME NEW i \in 1 .. Len(t), Owner(t[i]) = p
        PROVE  lo < Number(t[i]) /\ Number(t[i]) <= hi
    BY <1>1, <1>2, <2>2 DEF Span
  <2>3. ASSUME NEW i \in 1 .. Len(t), NEW j \in 1 .. Len(t), i < j,
               Owner(t[i]) = p, Owner(t[j]) = p
        PROVE  Number(t[i]) < Number(t[j])
    BY <1>1, <1>2, <2>3 DEF Span
  <2>. QED
    BY <2>1, <2>2, <2>3 DEF Span
<1>4. ASSUME Full(s, p, lo, hi), NEW n \in lo + 1 .. hi
      PROVE  \E i \in 1 .. Len(t) : t[i] = <<p, n>>
  <2>1. PICK i \in 1 .. Len(s) : s[i] = <<p, n>>
    BY <1>4 DEF Full
  <2>2. i \in 1 .. Len(t) /\ t[i] = <<p, n>>
    BY <1>1, <2>1
  <2>. QED
    BY <2>2
<1>. QED
  BY <1>3, <1>4 DEF Full, t

\* The head taken away: of p, and then the lower mark rises to it, or not.
LEMMA SpanTail ==
  ASSUME NEW s \in Seq(Entries), NEW p \in Producers, NEW lo \in Nat, NEW hi \in Nat,
         s # <<>>, Span(s, p, lo, hi)
  PROVE  /\ Head(s) \in Entries
         /\ Span(Tail(s), p, lo, hi)
         /\ Owner(Head(s)) # p => (Full(s, p, lo, hi) => Full(Tail(s), p, lo, hi))
         /\ Owner(Head(s)) = p =>
              /\ lo < Number(Head(s)) /\ Number(Head(s)) <= hi
              /\ Span(Tail(s), p, Number(Head(s)), hi)
              /\ Full(s, p, lo, hi) =>
                   /\ Number(Head(s)) = lo + 1
                   /\ Full(Tail(s), p, lo + 1, hi)
<1> DEFINE t == Tail(s)
           e == Head(s)
<1>1. /\ Len(t) = Len(s) - 1 /\ Len(s) \in Nat \ {0}
      /\ \A i \in 1 .. Len(t) : t[i] = s[i + 1]
      /\ e = s[1] /\ e \in Entries
  BY HeadTailProperties, LenProperties, EmptySeq
<1>2. \A i \in 1 .. Len(s) : Number(s[i]) \in Nat
  BY ElementOfSeq, EntryShape
<1> HIDE DEF t, e
<1>3. \A i \in 1 .. Len(t) : i + 1 \in 1 .. Len(s) /\ 1 < i + 1
  BY <1>1
<1>4. \A i \in 1 .. Len(s) : i = 1 \/ (i - 1 \in 1 .. Len(t) /\ t[i - 1] = s[i])
  <2>1. ASSUME NEW i \in 1 .. Len(s), i # 1
        PROVE  i - 1 \in 1 .. Len(t) /\ t[i - 1] = s[i]
    <3>1. i - 1 \in 1 .. Len(t) /\ (i - 1) + 1 = i
      BY <1>1, <2>1
    <3>. QED
      BY <1>1, <3>1
  <2>. QED
    BY <2>1
<1>5. Span(t, p, lo, hi)
  <2>1. lo <= hi
    BY DEF Span
  <2>2. ASSUME NEW i \in 1 .. Len(t), Owner(t[i]) = p
        PROVE  lo < Number(t[i]) /\ Number(t[i]) <= hi
    BY <1>1, <1>3, <2>2 DEF Span
  <2>3. ASSUME NEW i \in 1 .. Len(t), NEW j \in 1 .. Len(t), i < j,
               Owner(t[i]) = p, Owner(t[j]) = p
        PROVE  Number(t[i]) < Number(t[j])
    <3>1. i + 1 < j + 1 /\ i + 1 \in 1 .. Len(s) /\ j + 1 \in 1 .. Len(s)
      BY <1>3, <2>3
    <3>. QED
      BY <1>1, <2>3, <3>1 DEF Span
  <2>. QED
    BY <2>1, <2>2, <2>3 DEF Span
<1>6. ASSUME Owner(e) # p, Full(s, p, lo, hi)
      PROVE  Full(t, p, lo, hi)
  <2>1. ASSUME NEW n \in lo + 1 .. hi
        PROVE  \E i \in 1 .. Len(t) : t[i] = <<p, n>>
    <3>1. PICK i \in 1 .. Len(s) : s[i] = <<p, n>>
      BY <1>6 DEF Full
    <3>2. i # 1
      BY <1>1, <1>6, <3>1 DEF Owner
    <3>. QED
      BY <1>4, <3>1, <3>2
  <2>. QED
    BY <2>1 DEF Full
<1>7. ASSUME Owner(e) = p
      PROVE  /\ lo < Number(e) /\ Number(e) <= hi
             /\ Span(t, p, Number(e), hi)
             /\ Full(s, p, lo, hi) => Number(e) = lo + 1 /\ Full(t, p, lo + 1, hi)
  <2>0. 1 \in 1 .. Len(s) /\ Number(e) \in Nat
    BY <1>1, <1>2
  <2>1. lo < Number(e) /\ Number(e) <= hi
    BY <1>1, <1>7, <2>0 DEF Span
  <2>2. \A i \in 2 .. Len(s) : Owner(s[i]) = p => Number(e) < Number(s[i])
    BY <1>1, <1>7, <2>0 DEF Span
  <2>3. Span(t, p, Number(e), hi)
    <3>1. ASSUME NEW i \in 1 .. Len(t), Owner(t[i]) = p
          PROVE  Number(e) < Number(t[i]) /\ Number(t[i]) <= hi
      <4>1. i + 1 \in 2 .. Len(s)
        BY <1>1
      <4>2. Number(e) < Number(t[i])
        BY <1>1, <2>2, <3>1, <4>1
      <4>3. Number(t[i]) <= hi
        BY <1>5, <3>1 DEF Span
      <4>. QED
        BY <4>2, <4>3
    <3>2. \A i, j \in 1 .. Len(t) :
            i < j /\ Owner(t[i]) = p /\ Owner(t[j]) = p => Number(t[i]) < Number(t[j])
      BY <1>5 DEF Span
    <3>. QED
      BY <2>1, <3>1, <3>2 DEF Span
  <2>4. ASSUME Full(s, p, lo, hi)
        PROVE  Number(e) = lo + 1 /\ Full(t, p, lo + 1, hi)
    <3>1. lo + 1 \in lo + 1 .. hi
      BY <2>0, <2>1
    <3>2. PICK i \in 1 .. Len(s) : s[i] = <<p, lo + 1>>
      BY <2>4, <3>1 DEF Full
    <3>3. Owner(s[i]) = p /\ Number(s[i]) = lo + 1
      BY <3>2 DEF Owner, Number
    <3>4. i = 1
      <4>1. SUFFICES ASSUME i # 1
                     PROVE  FALSE
        OBVIOUS
      <4>2. i \in 2 .. Len(s)
        BY <1>1, <4>1
      <4>3. Number(e) < lo + 1
        BY <2>2, <3>3, <4>2
      <4>. QED
        BY <2>0, <2>1, <4>3
    <3>5. Number(e) = lo + 1
      BY <1>1, <3>3, <3>4
    <3>6. ASSUME NEW n \in lo + 1 + 1 .. hi
          PROVE  \E k \in 1 .. Len(t) : t[k] = <<p, n>>
      <4>1. n \in lo + 1 .. hi /\ n # lo + 1
        BY <3>6
      <4>2. PICK k \in 1 .. Len(s) : s[k] = <<p, n>>
        BY <2>4, <4>1 DEF Full
      <4>3. Number(s[k]) = n
        BY <4>2 DEF Number
      <4>4. k # 1
        BY <1>1, <3>5, <4>1, <4>3
      <4>. QED
        BY <1>4, <4>2, <4>4
    <3>. QED
      BY <3>5, <3>6 DEF Full
  <2>. QED
    BY <2>1, <2>3, <2>4
<1>. QED
  BY <1>1, <1>5, <1>6, <1>7 DEF t, e

(***************************************************************************)
(* An entry moves from the head of one place to the end of the next: if it *)
(* is p's the mark between the two places moves with it, else it stays.    *)
(***************************************************************************)
LEMMA Transfer ==
  ASSUME NEW s \in Seq(Entries), NEW t \in Seq(Entries), NEW p \in Producers,
         NEW lo \in Nat, NEW mid \in Nat, NEW hi \in Nat, t # <<>>,
         Span(s, p, lo, mid), Span(t, p, mid, hi)
  PROVE  \E m \in Nat :
           /\ Span(Append(s, Head(t)), p, lo, m) /\ Span(Tail(t), p, m, hi)
           /\ Full(s, p, lo, mid) /\ Full(t, p, mid, hi) =>
                Full(Append(s, Head(t)), p, lo, m) /\ Full(Tail(t), p, m, hi)
<1>1. Head(t) \in Entries /\ Number(Head(t)) \in Nat
  BY SpanTail, EntryShape
<1>2. CASE Owner(Head(t)) = p
  <2>1. /\ mid < Number(Head(t))
        /\ Span(Tail(t), p, Number(Head(t)), hi)
        /\ Full(t, p, mid, hi) => /\ Number(Head(t)) = mid + 1
                                  /\ Full(Tail(t), p, Number(Head(t)), hi)
    BY <1>2, SpanTail
  <2>2. /\ Span(Append(s, Head(t)), p, lo, Number(Head(t)))
        /\ Number(Head(t)) = mid + 1 /\ Full(s, p, lo, mid) =>
             Full(Append(s, Head(t)), p, lo, Number(Head(t)))
    BY <1>1, <1>2, <2>1, SpanNext
  <2>. QED
    BY <1>1, <2>1, <2>2
<1>3. CASE Owner(Head(t)) # p
  <2>1. /\ Span(Tail(t), p, mid, hi)
        /\ Full(t, p, mid, hi) => Full(Tail(t), p, mid, hi)
    BY <1>3, SpanTail
  <2>2. /\ Span(Append(s, Head(t)), p, lo, mid)
        /\ Full(s, p, lo, mid) => Full(Append(s, Head(t)), p, lo, mid)
    BY <1>1, <1>3, SpanForeign
  <2>. QED
    BY <2>1, <2>2
<1>. QED
  BY <1>2, <1>3

(***************************************************************************)
(* Two places one after the other.                                         *)
(***************************************************************************)
LEMMA SpanConcat ==
  ASSUME NEW s \in Seq(Entries), NEW t \in Seq(Entries), NEW p \in Producers,
         NEW lo \in Nat, NEW mid \in Nat, NEW hi \in Nat,
         Span(s, p, lo, mid), Span(t, p, mid, hi)
  PROVE  /\ s \o t \in Seq(Entries)
         /\ Span(s \o t, p, lo, hi)
         /\ Full(s, p, lo, mid) /\ Full(t, p, mid, hi) => Full(s \o t, p, lo, hi)
<1> DEFINE u == s \o t
<1>1. /\ u \in Seq(Entries) /\ Len(u) = Len(s) + Len(t)
      /\ Len(s) \in Nat /\ Len(t) \in Nat
      /\ \A i \in 1 .. Len(u) : u[i] = IF i <= Len(s) THEN s[i] ELSE t[i - Len(s)]
  BY ConcatProperties, LenProperties
<1>2. /\ \A i \in 1 .. Len(s) : Number(s[i]) \in Nat
      /\ \A i \in 1 .. Len(t) : Number(t[i]) \in Nat
  BY ElementOfSeq, EntryShape
<1> HIDE DEF u
<1>3. ASSUME NEW i \in 1 .. Len(u)
      PROVE  \/ i \in 1 .. Len(s) /\ u[i] = s[i]
             \/ i - Len(s) \in 1 .. Len(t) /\ u[i] = t[i - Len(s)]
  <2>1. CASE i <= Len(s)
    BY <1>1, <2>1
  <2>2. CASE ~(i <= Len(s))
    BY <1>1, <2>2
  <2>. QED
    BY <2>1, <2>2
<1>a. ASSUME NEW i \in 1 .. Len(s), Owner(s[i]) = p
      PROVE  lo < Number(s[i]) /\ Number(s[i]) <= mid /\ Number(s[i]) \in Nat
  BY <1>2, <1>a DEF Span
<1>b. ASSUME NEW i \in 1 .. Len(t), Owner(t[i]) = p
      PROVE  mid < Number(t[i]) /\ Number(t[i]) <= hi /\ Number(t[i]) \in Nat
  BY <1>2, <1>b DEF Span
<1>4. lo <= mid /\ mid <= hi
  BY DEF Span
<1>5. ASSUME NEW i \in 1 .. Len(u), Owner(u[i]) = p
      PROVE  lo < Number(u[i]) /\ Number(u[i]) <= hi
  <2>1. CASE i \in 1 .. Len(s) /\ u[i] = s[i]
    BY <1>4, <1>5, <1>a, <2>1
  <2>2. CASE i - Len(s) \in 1 .. Len(t) /\ u[i] = t[i - Len(s)]
    BY <1>4, <1>5, <1>b, <2>2
  <2>. QED
    BY <1>3, <2>1, <2>2
<1>6. ASSUME NEW i \in 1 .. Len(u), NEW j \in 1 .. Len(u), i < j,
             Owner(u[i]) = p, Owner(u[j]) = p
      PROVE  Number(u[i]) < Number(u[j])
  <2>1. CASE j \in 1 .. Len(s) /\ u[j] = s[j]
    <3>1. i \in 1 .. Len(s)
      BY <1>1, <1>6, <2>1
    <3>2. u[i] = s[i]
      BY <1>1, <3>1
    <3>. QED
      BY <1>6, <2>1, <3>1, <3>2 DEF Span
  <2>2. CASE j - Len(s) \in 1 .. Len(t) /\ u[j] = t[j - Len(s)]
    <3>1. CASE i \in 1 .. Len(s) /\ u[i] = s[i]
      <4>1. Number(u[i]) <= mid /\ Number(u[i]) \in Nat
        BY <1>6, <1>a, <3>1
      <4>2. mid < Number(u[j]) /\ Number(u[j]) \in Nat
        BY <1>6, <1>b, <2>2
      <4>. QED
        BY <4>1, <4>2
    <3>2. CASE i - Len(s) \in 1 .. Len(t) /\ u[i] = t[i - Len(s)]
      <4>1. i - Len(s) < j - Len(s)
        BY <1>1, <1>6
      <4>. QED
        BY <1>6, <2>2, <3>2, <4>1 DEF Span
    <3>. QED
      BY <1>3, <3>1, <3>2
  <2>. QED
    BY <1>3, <2>1, <2>2
<1>7. ASSUME Full(s, p, lo, mid), Full(t, p, mid, hi), NEW n \in lo + 1 .. hi
      PROVE  \E i \in 1 .. Len(u) : u[i] = <<p, n>>
  <2>1. CASE n \in lo + 1 .. mid
    <3>1. PICK i \in 1 .. Len(s) : s[i] = <<p, n>>
      BY <1>7, <2>1 DEF Full
    <3>2. i \in 1 .. Len(u) /\ u[i] = <<p, n>>
      BY <1>1, <3>1
    <3>. QED
      BY <3>2
  <2>2. CASE n \in mid + 1 .. hi
    <3>1. PICK i \in 1 .. Len(t) : t[i] = <<p, n>>
      BY <1>7, <2>2 DEF Full
    <3>2. i + Len(s) \in 1 .. Len(u) /\ ~(i + Len(s) <= Len(s)) /\ i + Len(s) - Len(s) = i
      BY <1>1
    <3>3. u[i + Len(s)] = <<p, n>>
      BY <1>1, <3>1, <3>2
    <3>. QED
      BY <3>2, <3>3
  <2>3. n \in lo + 1 .. mid \/ n \in mid + 1 .. hi
    BY <1>4
  <2>. QED
    BY <2>1, <2>2, <2>3
<1>8. Span(u, p, lo, hi)
  <2>1. lo <= hi
    BY <1>4
  <2>. QED
    BY <1>5, <1>6, <2>1 DEF Span
<1>9. Full(s, p, lo, mid) /\ Full(t, p, mid, hi) => Full(u, p, lo, hi)
  BY <1>7 DEF Full
<1>. QED
  BY <1>1, <1>8, <1>9 DEF u

\* What the places of the way hold.
LEMMA PlacesTyped ==
  ASSUME TypeInv
  PROVE  /\ written \in Seq(Entries) /\ events \in Seq(Entries)
         /\ \A p \in Producers :
              /\ ebuf[p] \in Seq(Entries) /\ link[p] \in Seq(Entries)
              /\ entry[p] \in Entries \cup {None}
              /\ made[p] \in Nat /\ Sent(p) \in Nat
              /\ ReaderOf(p) \in Readers
         /\ \A r \in Readers : log[r] \in Entries \cup {None}
<1>1. \A p \in Producers : made[p] \in Nat /\ (prog[p] = "send" => made[p] >= 1)
  BY DEF TypeInv, TypeOK, ProducerTypeOK, Roles
<1>2. ASSUME NEW p \in Producers
      PROVE  Sent(p) \in Nat
  <2>1. CASE prog[p] = "send"
    BY <1>1, <2>1 DEF Sent
  <2>2. CASE prog[p] # "send"
    BY <1>1, <2>2 DEF Sent
  <2>. QED
    BY <2>1, <2>2
<1>3. \A p \in Producers : ReaderOf(p) \in Readers
  BY WhoReads DEF ReaderOf
<1>. QED
  BY <1>1, <1>2, <1>3 DEF TypeInv, TypeOK, ProducerTypeOK

\* What got lost stays lost.
LEMMA KeptBefore ==
  ASSUME TypeInv, [Next]_vars, NEW p \in Producers, Kept(p)'
  PROVE  Kept(p)
<1>1. /\ prog \in [Producers -> {"select", "send", "wait", "exited", "dead"}]
      /\ rd \in [Readers -> {"idle", "read", "send", "eof", "done"}]
      /\ Roles
  BY DEF TypeInv, TypeOK, ProducerTypeOK
<1>2. SUFFICES ASSUME p \notin Oversized, prog'[p] # "dead", agg' = "up", ipcType' # "udp",
                      ~(ipcType' = "fifo" /\ rd'[None] \in {"eof", "done"})
               PROVE  Kept(p)
  BY DEF Kept
<1> USE DEF start, procs, prodVars, aggVars, End
<1>3. CASE \/ Notify \/ Kill \/ Interrupt \/ ListenFails \/ TooLongForFIFO \/ Collect
           \/ UNCHANGED vars
  BY <1>2, <1>3 DEF Notify, Kill, Interrupt, ListenFails, TooLongForFIFO, Collect, Create,
           WriteEvent, EventsEnd, Flush, CloseDone, MainExits, vars, Kept
<1>4. CASE Listen
  <2>1. rd[None] = "idle"
    BY <1>1, <1>4 DEF Listen, Roles
  <2>2. UNCHANGED <<prog, agg, ipcType>>
    BY <1>4 DEF Listen
  <2>. QED
    BY <1>2, <2>1, <2>2 DEF Kept
<1>5. ASSUME NEW q \in Producers, Accept(q)
      PROVE  Kept(p)
  <2>1. UNCHANGED <<prog, agg, ipcType>> /\ q # None
    BY <1>5 DEF Accept
  <2>2. rd'[None] = rd[None]
    BY <1>1, <1>5, <2>1, WhoReads DEF Accept
  <2>. QED
    BY <1>2, <2>1, <2>2 DEF Kept
<1>6. ASSUME NEW r \in Readers, Reader(r)
      PROVE  Kept(p)
  <2>1. UNCHANGED <<prog, ipcType>> /\ agg = "up"
    BY <1>6 DEF Reader, ReadEntry, SkipEntry, TooLong, ReadEOF, CloseReader, SendEvent,
                SendPanics
  <2>2. rd[None] \in {"eof", "done"} => rd'[None] \in {"eof", "done"}
    <3>1. CASE ReadEntry(r) \/ SkipEntry(r) \/ ReadEOF(r) \/ SendEvent(r)
      BY <1>1, <3>1, WhoReads DEF ReadEntry, SkipEntry, ReadEOF, SendEvent, Give
    <3>2. CASE TooLong(r) \/ CloseReader(r) \/ SendPanics(r)
      BY <1>1, <3>2, WhoReads DEF TooLong, CloseReader, SendPanics
    <3>. QED
      BY <1>6, <3>1, <3>2 DEF Reader
  <2>. QED
    BY <1>2, <2>1, <2>2 DEF Kept
<1>7. ASSUME NEW q \in Producers, Producer(q)
      PROVE  Kept(p)
  <2>1. UNCHANGED <<ipcType, rd, agg>>
    BY <1>7 DEF Producer, Run, Publish, Tick, SendEntry, Timeout, Exit, Dial, DialFails,
                Take, Write, WriteErratic, WriteLost, WriteFails, PublishEnds, Die
  <2>2. prog[p] = "dead" => prog'[p] = "dead"
    <3>1. CASE Run(q)
      BY <1>1, <3>1 DEF Run, Tick, SendEntry, Timeout, Exit
    <3>2. CASE Publish(q)
      BY <1>1, <3>2 DEF Publish, Dial, DialFails, Take, Write, WriteErratic, WriteLost, WriteFails,
                        PublishEnds, Die
    <3>. QED
      BY <1>7, <3>1, <3>2 DEF Producer
  <2>. QED
    BY <1>2, <2>1, <2>2 DEF Kept
<1>. QED
  BY <1>3, <1>4, <1>5, <1>6, <1>7 DEF Next

LEMMA StepOwn ==
  ASSUME TypeInv, OwnEntries, [Next]_vars
  PROVE  OwnEntries'
<1>1. /\ rd \in [Readers -> {"idle", "read", "send", "eof", "done"}]
      /\ log \in [Readers -> Entries \cup {None}]
      /\ ebuf \in [Producers -> Seq(Entries)] /\ link \in [Producers -> Seq(Entries)]
      /\ entry \in [Producers -> Entries \cup {None}]
      /\ Producers \subseteq Readers /\ None \notin Producers
  BY WhoReads DEF TypeInv, TypeOK, ProducerTypeOK
<1> DEFINE Whose(s, p) == \A i \in 1 .. Len(s) : Owner(s[i]) = p
<1>2. ASSUME NEW s \in Seq(Entries), NEW p, NEW e \in Entries, Whose(s, p), Owner(e) = p
      PROVE  Whose(Append(s, e), p)
  BY <1>2, AppendProperties, LenProperties
<1>3. ASSUME NEW s \in Seq(Entries), NEW p, s # <<>>, Whose(s, p)
      PROVE  Whose(Tail(s), p) /\ Owner(Head(s)) = p
  <2>1. /\ Len(Tail(s)) = Len(s) - 1 /\ Len(s) \in Nat \ {0} /\ Head(s) = s[1]
        /\ \A i \in 1 .. Len(Tail(s)) : Tail(s)[i] = s[i + 1]
    BY <1>3, HeadTailProperties, LenProperties, EmptySeq
  <2>2. \A i \in 1 .. Len(Tail(s)) : i + 1 \in 1 .. Len(s)
    BY <2>1
  <2>. QED
    BY <1>3, <2>1, <2>2
<1>4. \A p : Whose(<<>>, p)
  BY EmptySeq
<1>5. /\ \A p \in Producers : /\ Whose(ebuf[p], p) /\ Whose(link[p], p)
                              /\ entry[p] # None => Owner(entry[p]) = p
                              /\ IsStream /\ log[p] # None => Owner(log[p]) = p
                              /\ ~IsStream => rd[p] = "idle"
  BY DEF OwnEntries
<1>6. SUFFICES \A p \in Producers :
                 /\ Whose(ebuf'[p], p) /\ Whose(link'[p], p)
                 /\ entry'[p] # None => Owner(entry'[p]) = p
                 /\ IsStream' /\ log'[p] # None => Owner(log'[p]) = p
                 /\ ~IsStream' => rd'[p] = "idle"
  BY DEF OwnEntries
<1> HIDE DEF Whose
<1> USE DEF start, procs, prodVars, aggVars, End, IsStream
<1>7. CASE \/ Notify \/ Kill \/ Interrupt \/ Listen \/ ListenFails \/ TooLongForFIFO
           \/ Collect \/ UNCHANGED vars
  <2>1. UNCHANGED <<ipcType, ebuf, link, entry, log>>
    BY <1>7 DEF Notify, Kill, Interrupt, Listen, ListenFails, TooLongForFIFO, Collect,
         Create, WriteEvent, EventsEnd, Flush, CloseDone, MainExits, vars
  <2>2. \A p \in Producers : rd'[p] = rd[p]
    <3>1. CASE Listen
      BY <1>1, <3>1 DEF Listen
    <3>2. CASE ~Listen
      BY <1>7, <3>2 DEF Notify, Kill, Interrupt, ListenFails, TooLongForFIFO, Collect,
         Create, WriteEvent, EventsEnd, Flush, CloseDone, MainExits, vars
    <3>. QED
      BY <3>1, <3>2
  <2>. QED
    BY <1>5, <2>1, <2>2
<1>8. ASSUME NEW q \in Producers, Accept(q)
      PROVE  \A p \in Producers :
                 /\ Whose(ebuf'[p], p) /\ Whose(link'[p], p)
                 /\ entry'[p] # None => Owner(entry'[p]) = p
                 /\ IsStream' /\ log'[p] # None => Owner(log'[p]) = p
                 /\ ~IsStream' => rd'[p] = "idle"
  BY <1>5, <1>8 DEF Accept
<1>9. ASSUME NEW r \in Readers, Reader(r)
      PROVE  \A p \in Producers :
                 /\ Whose(ebuf'[p], p) /\ Whose(link'[p], p)
                 /\ entry'[p] # None => Owner(entry'[p]) = p
                 /\ IsStream' /\ log'[p] # None => Owner(log'[p]) = p
                 /\ ~IsStream' => rd'[p] = "idle"
  <2>1. UNCHANGED <<ipcType, ebuf, entry>>
    BY <1>9 DEF Reader, ReadEntry, SkipEntry, TooLong, ReadEOF, CloseReader, SendEvent,
                SendPanics
  <2>2. ~IsStream => \A p \in Producers : rd'[p] = "idle"
    <3>1. CASE SkipEntry(r) \/ SendPanics(r)
      BY <1>5, <3>1 DEF SkipEntry, SendPanics
    <3>2. CASE ReadEntry(r) \/ TooLong(r) \/ ReadEOF(r) \/ CloseReader(r) \/ SendEvent(r)
      <4>1. rd[r] # "idle" /\ \A p \in Readers : p # r => rd'[p] = rd[p]
        BY <1>1, <3>2 DEF ReadEntry, TooLong, ReadEOF, CloseReader, SendEvent, Give
      <4>. QED
        BY <1>1, <1>5, <4>1
    <3>. QED
      BY <1>9, <3>1, <3>2 DEF Reader
  <2>3. ASSUME NEW p \in Producers
        PROVE  Whose(link'[p], p)
    <3>1. link'[p] = link[p] \/ link'[p] = <<>>
            \/ (link[p] # <<>> /\ link'[p] = Tail(link[p]))
      <4>1. CASE ReadEntry(r) \/ SkipEntry(r)
        BY <1>1, <4>1 DEF ReadEntry, SkipEntry
      <4>2. CASE TooLong(r)
        BY <1>1, <4>2 DEF TooLong
      <4>3. CASE ReadEOF(r) \/ CloseReader(r) \/ SendEvent(r) \/ SendPanics(r)
        BY <4>3 DEF ReadEOF, CloseReader, SendEvent, SendPanics
      <4>. QED
        BY <1>9, <4>1, <4>2, <4>3 DEF Reader
    <3>2. link[p] # <<>> => Whose(Tail(link[p]), p)
      BY <1>1, <1>3, <1>5
    <3>. QED
      BY <1>4, <1>5, <3>1, <3>2
  <2>4. ASSUME NEW p \in Producers, IsStream, log'[p] # None
        PROVE  Owner(log'[p]) = p
    <3>1. CASE ReadEntry(r)
      <4>1. PICK q \in Sources(r) : link[q] # <<>> /\ Give(r, "send", Head(link[q]))
        BY <3>1 DEF ReadEntry
      <4>2. q = r
        BY <2>4, <4>1 DEF Sources
      <4>3. CASE p = r
        <5>1. log'[p] = Head(link[p])
          BY <1>1, <4>1, <4>2, <4>3 DEF Give
        <5>. QED
          BY <1>1, <1>3, <1>5, <4>1, <4>2, <4>3, <5>1
      <4>4. CASE p # r
        BY <1>1, <1>5, <2>4, <4>1, <4>4 DEF Give
      <4>. QED
        BY <4>3, <4>4
    <3>2. CASE SendEvent(r)
      BY <1>1, <1>5, <2>4, <3>2 DEF SendEvent, Give
    <3>3. CASE ~ReadEntry(r) /\ ~SendEvent(r)
      <4>1. log' = log
        BY <1>9, <3>3 DEF Reader, SkipEntry, TooLong, ReadEOF, CloseReader, SendPanics
      <4>. QED
        BY <1>5, <2>4, <4>1
    <3>. QED
      BY <3>1, <3>2, <3>3
  <2>. QED
    BY <1>5, <2>1, <2>2, <2>3, <2>4
<1>10. ASSUME NEW q \in Producers, Producer(q)
       PROVE  \A p \in Producers :
                 /\ Whose(ebuf'[p], p) /\ Whose(link'[p], p)
                 /\ entry'[p] # None => Owner(entry'[p]) = p
                 /\ IsStream' /\ log'[p] # None => Owner(log'[p]) = p
                 /\ ~IsStream' => rd'[p] = "idle"
  <2>1. UNCHANGED <<ipcType, rd, log>>
    BY <1>10 DEF Producer, Run, Publish, Tick, SendEntry, Timeout, Exit, Dial, DialFails,
                Take, Write, WriteErratic, WriteLost, WriteFails, PublishEnds, Die
  <2>2. CASE Tick(q) \/ Timeout(q) \/ Exit(q) \/ Dial(q) \/ PublishEnds(q)
    BY <1>5, <2>1, <2>2 DEF Tick, Timeout, Exit, Dial, PublishEnds
  <2>3. CASE SendEntry(q)
    <3>1. <<q, made[q]>> \in Entries /\ Owner(<<q, made[q]>>) = q
      BY <2>3, EntryNumbers DEF SendEntry, TypeInv, TypeOK, ProducerTypeOK, Roles, Owner
    <3>2. Whose(Append(ebuf[q], <<q, made[q]>>), q)
      BY <1>1, <1>2, <1>5, <3>1
    <3>. QED
      BY <1>1, <1>5, <2>1, <2>3, <3>2 DEF SendEntry
  <2>4. CASE DialFails(q) \/ WriteFails(q)
    <3>1. /\ ebuf' = [ebuf EXCEPT ![q] = <<>>] /\ entry' = [entry EXCEPT ![q] = None]
          /\ link' = link
      BY <2>4 DEF DialFails, WriteFails, Die
    <3>. QED
      BY <1>1, <1>4, <1>5, <2>1, <3>1
  <2>5. CASE Take(q)
    <3>1. Whose(Tail(ebuf[q]), q) /\ Owner(Head(ebuf[q])) = q
      BY <1>1, <1>3, <1>5, <2>5 DEF Take
    <3>2. /\ ebuf' = [ebuf EXCEPT ![q] = Tail(@)]
          /\ entry' = [entry EXCEPT ![q] = Head(ebuf[q])] /\ link' = link
      BY <2>5 DEF Take
    <3>. QED
      BY <1>1, <1>5, <2>1, <3>1, <3>2
  <2>6. CASE Write(q)
    <3>1. entry[q] \in Entries /\ entry[q] # None
      BY <2>6 DEF Write, TypeInv, TypeOK, ProducerTypeOK
    <3>2. Whose(Append(link[q], entry[q]), q)
      BY <1>1, <1>2, <1>5, <3>1
    <3>3. /\ link' = [link EXCEPT ![q] = Append(@, entry[q])]
          /\ entry' = [entry EXCEPT ![q] = None] /\ ebuf' = ebuf
      BY <2>6 DEF Write
    <3>. QED
      BY <1>1, <1>5, <2>1, <3>2, <3>3
  <2>7. CASE WriteErratic(q)
    <3> DEFINE Own == {x \in Entries : Owner(x) = q}
    <3>1. entry[q] \in Own
      BY <1>5, <2>7 DEF WriteErratic, TypeInv, TypeOK, ProducerTypeOK
    <3>2. link[q] \in Seq(Own)
      <4>1. /\ link[q] = [i \in 1 .. Len(link[q]) |-> link[q][i]] /\ Len(link[q]) \in Nat
            /\ \A i \in 1 .. Len(link[q]) : link[q][i] \in Own
        BY <1>1, <1>5, LenProperties, ElementOfSeq DEF Whose
      <4>. QED
        BY <4>1, IsASeq
    <3>3. PICK t \in Seq(Own) : link' = [link EXCEPT ![q] = t]
      BY <2>7, <3>1, <3>2, ErraticLink
    <3>4. Whose(t, q)
      BY ElementOfSeq DEF Whose
    <3>5. entry' = [entry EXCEPT ![q] = None] /\ ebuf' = ebuf
      BY <2>7 DEF WriteErratic
    <3>. QED
      BY <1>1, <1>5, <2>1, <3>3, <3>4, <3>5
  <2>8. CASE WriteLost(q)
    BY <1>1, <1>5, <2>1, <2>8 DEF WriteLost
  <2>. QED
    BY <1>10, <2>2, <2>3, <2>4, <2>5, <2>6, <2>7, <2>8 DEF Producer, Run, Publish
<1>. QED
  BY <1>7, <1>8, <1>9, <1>10 DEF Next

LEMMA StepShut ==
  ASSUME TypeInv, OwnEntries, ClosedAfterShut, [Next]_vars
  PROVE  ClosedAfterShut'
<1>1. /\ rd \in [Readers -> {"idle", "read", "send", "eof", "done"}]
      /\ conn \in [Producers -> {"none", "open", "shut"}]
      /\ pub \in [Producers -> {"dial", "range", "write", "done"}]
      /\ peer \in [Producers -> {"absent", "open", "closed"}]
      /\ Producers \subseteq Readers /\ None \notin Producers
  BY WhoReads DEF TypeInv, TypeOK, ProducerTypeOK
<1> USE DEF start, procs, prodVars, aggVars, IsStream
<1>2. ASSUME Notify \/ Interrupt \/ Create \/ WriteEvent \/ EventsEnd \/ Flush \/ CloseDone
               \/ UNCHANGED vars
      PROVE  ClosedAfterShut'
  BY <1>2 DEF Notify, Interrupt, Create, WriteEvent, EventsEnd, Flush, CloseDone, vars,
              ClosedAfterShut
<1>3. ASSUME Kill \/ ListenFails \/ TooLongForFIFO \/ MainExits
               \/ \E r \in Readers : SendPanics(r)
      PROVE  ClosedAfterShut'
  BY <1>3 DEF Kill, ListenFails, TooLongForFIFO, MainExits, SendPanics, End,
              ClosedAfterShut
<1>4. CASE Listen
  <2>1. UNCHANGED <<ipcType, conn, pub, agg>> /\ peer' = [p \in Producers |-> "open"]
    BY <1>4 DEF Listen
  <2>2. \A p \in Producers : rd'[p] = rd[p]
    BY <1>1, <1>4 DEF Listen
  <2>. QED
    BY <2>1, <2>2 DEF ClosedAfterShut
<1>5. ASSUME NEW q \in Producers, Accept(q)
      PROVE  ClosedAfterShut'
  <2>1. UNCHANGED <<ipcType, conn, pub, agg, peer>>
    BY <1>5 DEF Accept
  <2>2. \A p \in Producers : rd'[p] \in {"eof", "done"} => rd[p] \in {"eof", "done"}
    BY <1>1, <1>5 DEF Accept
  <2>. QED
    BY <2>1, <2>2 DEF ClosedAfterShut
<1>6. ASSUME NEW r \in Readers,
             ReadEntry(r) \/ SkipEntry(r) \/ TooLong(r) \/ ReadEOF(r) \/ CloseReader(r)
               \/ SendEvent(r)
      PROVE  ClosedAfterShut'
  <2>1. UNCHANGED <<ipcType, conn, pub, agg>> /\ agg = "up"
    BY <1>6 DEF ReadEntry, SkipEntry, TooLong, ReadEOF, CloseReader, SendEvent
  <2>2. CASE ReadEntry(r) \/ SkipEntry(r) \/ SendEvent(r)
    <3>1. /\ peer' = peer
          /\ \A p \in Producers : rd'[p] \in {"eof", "done"} => rd[p] \in {"eof", "done"}
      BY <1>1, <2>2 DEF ReadEntry, SkipEntry, SendEvent, Give
    <3>. QED
      BY <2>1, <3>1 DEF ClosedAfterShut
  <2>3. CASE TooLong(r)
    <3>1. /\ r \in Oversized /\ r \in Producers
          /\ \A p \in Producers : p # r => rd'[p] = rd[p] /\ peer'[p] = peer[p]
      BY <1>1, <2>3 DEF TooLong
    <3>. QED
      BY <2>1, <3>1 DEF ClosedAfterShut
  <2>4. CASE ReadEOF(r)
    <3>1. /\ peer' = peer
          /\ \A p \in Producers : p # r => rd'[p] = rd[p]
      BY <1>1, <2>4 DEF ReadEOF
    <3>2. IsStream => conn[r] = "shut"
      BY <2>4 DEF ReadEOF, Sources
    <3>. QED
      BY <2>1, <3>1, <3>2 DEF ClosedAfterShut
  <2>5. CASE CloseReader(r)
    <3>1. /\ rd[r] = "eof"
          /\ \A p \in Producers : p # r => rd'[p] = rd[p]
          /\ IsStream => \A p \in Producers : p # r => peer'[p] = peer[p]
      BY <1>1, <2>5 DEF CloseReader, Sources
    <3>. QED
      BY <2>1, <3>1 DEF ClosedAfterShut
  <2>. QED
    BY <1>6, <2>2, <2>3, <2>4, <2>5
<1>7. ASSUME NEW q \in Producers, Producer(q)
      PROVE  ClosedAfterShut'
  <2>1. UNCHANGED <<ipcType, rd, agg, peer>>
    BY <1>7 DEF Producer, Run, Publish, Tick, SendEntry, Timeout, Exit, Dial, DialFails,
                Take, Write, WriteErratic, WriteLost, WriteFails, PublishEnds, Die
  <2>2. CASE Run(q)
    BY <2>1, <2>2 DEF Run, Tick, SendEntry, Timeout, Exit, ClosedAfterShut
  <2>3. CASE Dial(q)
    <3>1. pub[q] = "dial" /\ pub'[q] = "range" /\ conn'[q] = "open"
      BY <1>1, <2>3 DEF Dial
    <3>2. \A p \in Producers : p # q => pub'[p] = pub[p] /\ conn'[p] = conn[p]
      BY <1>1, <2>3 DEF Dial
    <3>3. pub[q] # "done"
      BY <3>1
    <3>. QED
      BY <2>1, <3>1, <3>2, <3>3 DEF ClosedAfterShut
  <2>4. CASE DialFails(q) \/ WriteFails(q) \/ PublishEnds(q)
    <3>1. /\ pub'[q] = "done" /\ (conn[q] = "shut" => conn'[q] = "shut")
          /\ \A p \in Producers : p # q => pub'[p] = pub[p] /\ conn'[p] = conn[p]
      BY <1>1, <2>4 DEF DialFails, WriteFails, PublishEnds, Die
    <3>. QED
      BY <2>1, <3>1 DEF ClosedAfterShut
  <2>5. CASE Take(q) \/ Write(q) \/ WriteErratic(q) \/ WriteLost(q)
    <3>1. /\ conn' = conn /\ pub[q] # "done"
          /\ \A p \in Producers : p # q => pub'[p] = pub[p]
      BY <1>1, <2>5 DEF Take, Write, WriteErratic, WriteLost
    <3>. QED
      BY <2>1, <3>1 DEF ClosedAfterShut
  <2>. QED
    BY <1>7, <2>2, <2>3, <2>4, <2>5 DEF Producer, Publish
<1>. QED
  BY <1>2, <1>3, <1>4, <1>5, <1>6, <1>7 DEF Next, Collect, Reader

\* The places of p as a step leaves them, with the marks they have then.
LEMMA MarkedFrame ==
  ASSUME NEW p \in Producers, Marked(p), Kept(p)' => Kept(p), Sent(p)' = Sent(p),
         UNCHANGED <<ipcType, written, events, log[ReaderOf(p)], link[p], entry[p], ebuf[p]>>
  PROVE  Marked(p)'
<1>1. PICK a, b, c, d, e \in Nat : Marks(p, a, b, c, d, e)
  BY DEF Marked
<1>2. /\ written' = written /\ events' = events /\ link'[p] = link[p]
      /\ Opt(entry'[p]) = Opt(entry[p]) /\ ebuf'[p] = ebuf[p]
      /\ Opt(log[ReaderOf(p)])' = Opt(log[ReaderOf(p)])
  BY DEF Opt
<1>3. Marks(p, a, b, c, d, e)'
  BY <1>1, <1>2 DEF Marks
<1>. QED
  BY <1>3 DEF Marked

LEMMA ReaderSame == ipcType' = ipcType => \A p : ReaderOf(p)' = ReaderOf(p)
BY DEF ReaderOf, IsStream

LEMMA InitMarked == Init => \A p \in Producers : Marked(p)
<1> SUFFICES ASSUME Init, NEW p \in Producers
             PROVE  Marked(p)
  OBVIOUS
<1>1. /\ written = <<>> /\ events = <<>> /\ link[p] = <<>> /\ ebuf[p] = <<>>
      /\ entry[p] = None /\ Sent(p) = 0
  BY DEF Init, ProducerInit, Sent
<1>2. log[ReaderOf(p)] = None
  BY WhoReads DEF Init, ReaderOf
<1>3. Opt(entry[p]) = <<>> /\ Opt(log[ReaderOf(p)]) = <<>>
  BY <1>1, <1>2, OptEntry
<1>4. Span(<<>>, p, 0, 0) /\ Full(<<>>, p, 0, 0)
  BY EmptySpan
<1>5. Marks(p, 0, 0, 0, 0, 0)
  BY <1>1, <1>3, <1>4 DEF Marks
<1>. QED
  BY <1>5 DEF Marked

LEMMA ProducerMarked ==
  ASSUME TypeInv, OwnEntries, ClosedAfterShut, [Next]_vars,
         NEW q \in Producers, Producer(q), NEW p \in Producers, Marked(p), ~erratic
  PROVE  Marked(p)'
<1>0. /\ Kept(p)' => Kept(p)
      /\ prog \in [Producers -> {"select", "send", "wait", "exited", "dead"}]
      /\ made \in [Producers -> Nat]
      /\ ebuf \in [Producers -> Seq(Entries)] /\ link \in [Producers -> Seq(Entries)]
      /\ entry \in [Producers -> Entries \cup {None}]
      /\ entry[p] # None <=> pub[p] = "write"
  BY KeptBefore DEF TypeInv, TypeOK, ProducerTypeOK
<1>1. UNCHANGED <<ipcType, written, events, log>> /\ ReaderOf(p)' = ReaderOf(p)
  <2>1. UNCHANGED <<ipcType, written, events, log>>
    BY DEF Producer, aggVars, Run, Publish, Tick, SendEntry, Timeout, Exit, Dial,
           DialFails, Take, Write, WriteErratic, WriteLost, WriteFails, PublishEnds, Die, start
  <2>. QED
    BY <2>1, ReaderSame
<1>2. PICK a, b, c, d, e \in Nat : Marks(p, a, b, c, d, e)
  BY DEF Marked
<1>3. Opt(log[ReaderOf(p)])' = Opt(log[ReaderOf(p)])
  BY <1>1 DEF Opt
<1>4. Sent(p) \in Nat /\ made[p] \in Nat
  BY PlacesTyped
<1> USE DEF start, procs
<1>5. CASE p # q
  <2>1. UNCHANGED <<link[p], entry[p], ebuf[p], prog[p], made[p]>>
    <3>1. CASE Run(q)
      BY <1>0, <1>5, <3>1 DEF Run, Tick, SendEntry, Timeout, Exit
    <3>2. CASE Publish(q)
      BY <1>0, <1>5, <3>2 DEF Publish, Dial, DialFails, Take, Write, WriteErratic, WriteLost,
                              WriteFails, PublishEnds, Die
    <3>. QED
      BY <3>1, <3>2 DEF Producer
  <2>2. Sent(p)' = Sent(p)
    BY <2>1 DEF Sent
  <2>. QED
    BY <1>0, <1>1, <2>1, <2>2, MarkedFrame
<1>6. CASE p = q /\ (Tick(p) \/ Timeout(p) \/ Exit(p) \/ Dial(p) \/ PublishEnds(p))
  <2>1. UNCHANGED <<link, entry, ebuf>>
    BY <1>6 DEF Tick, Timeout, Exit, Dial, PublishEnds
  <2>2. Sent(p)' = Sent(p)
    <3>1. CASE Tick(p)
      <4>1. prog[p] = "select" /\ prog'[p] = "send" /\ made'[p] = made[p] + 1
        BY <1>0, <3>1 DEF Tick
      <4>. QED
        BY <1>4, <4>1 DEF Sent
    <3>2. CASE ~Tick(p)
      <4>1. made' = made /\ (prog'[p] = "send" <=> prog[p] = "send")
        BY <1>0, <1>6, <3>2 DEF Timeout, Exit, Dial, PublishEnds
      <4>. QED
        BY <4>1 DEF Sent
    <3>. QED
      BY <3>1, <3>2
  <2>. QED
    BY <1>0, <1>1, <2>1, <2>2, MarkedFrame
<1>7. CASE p = q /\ SendEntry(p)
  <2>1. /\ prog[p] = "send" /\ prog'[p] = "select" /\ made' = made
        /\ ebuf'[p] = Append(ebuf[p], <<p, made[p]>>)
        /\ UNCHANGED <<link, entry>>
    BY <1>0, <1>7 DEF SendEntry
  <2>2. Sent(p) = made[p] - 1 /\ Sent(p)' = made[p] /\ made[p] = Sent(p) + 1
    BY <1>4, <2>1 DEF Sent
  <2>3. <<p, made[p]>> \in Entries /\ Owner(<<p, made[p]>>) = p
        /\ Number(<<p, made[p]>>) = made[p]
    BY <1>7, EntryNumbers
       DEF SendEntry, TypeInv, TypeOK, ProducerTypeOK, Roles, Owner, Number
  <2>4. /\ Span(Append(ebuf[p], <<p, made[p]>>), p, e, made[p])
        /\ Full(ebuf[p], p, e, Sent(p)) => Full(Append(ebuf[p], <<p, made[p]>>), p, e, made[p])
    <3>1. Span(ebuf[p], p, e, Sent(p)) /\ ebuf[p] \in Seq(Entries) /\ Sent(p) < made[p]
      BY <1>0, <1>2, <1>4, <2>2 DEF Marks
    <3>. QED
      BY <1>4, <2>2, <2>3, <3>1, SpanNext
  <2>5. Marks(p, a, b, c, d, e)'
    BY <1>0, <1>1, <1>2, <1>3, <2>1, <2>2, <2>4 DEF Marks
  <2>. QED
    BY <2>5 DEF Marked
<1>8. CASE p = q /\ (DialFails(p) \/ WriteFails(p))
  <2>1. /\ prog'[p] = "dead" /\ ebuf'[p] = <<>> /\ entry'[p] = None
        /\ UNCHANGED <<made, link>>
    BY <1>0, <1>8 DEF DialFails, WriteFails, Die
  <2>2. ~Kept(p)' /\ Sent(p)' = made[p] /\ Sent(p) <= made[p] /\ Opt(entry'[p]) = <<>>
    BY <1>4, <2>1, OptEntry DEF Kept, Sent
  <2>3. d <= e /\ e <= Sent(p)
    BY <1>2 DEF Marks, Span
  <2>4. Span(<<>>, p, d, e) /\ Span(<<>>, p, e, made[p])
    <3>1. e <= made[p]
      BY <1>4, <2>2, <2>3
    <3>. QED
      BY <1>4, <2>3, <3>1, EmptySpan
  <2>5. Marks(p, a, b, c, d, e)'
    BY <1>1, <1>2, <1>3, <2>1, <2>2, <2>4 DEF Marks
  <2>. QED
    BY <2>5 DEF Marked
<1>9. CASE p = q /\ Take(p)
  <2>1. /\ pub[p] = "range" /\ ebuf[p] # <<>> /\ entry'[p] = Head(ebuf[p])
        /\ ebuf'[p] = Tail(ebuf[p]) /\ UNCHANGED <<prog, made, link>>
    BY <1>0, <1>9 DEF Take
  <2>2. Opt(entry[p]) = <<>> /\ Head(ebuf[p]) \in Entries
    BY <1>0, <2>1, OptEntry, HeadTailProperties
  <2>3. Opt(entry'[p]) = Append(Opt(entry[p]), Head(ebuf[p]))
    BY <2>1, <2>2, OptEntry
  <2>4. Sent(p)' = Sent(p)
    BY <2>1 DEF Sent
  <2>5. \E m \in Nat :
          /\ Span(Append(Opt(entry[p]), Head(ebuf[p])), p, d, m)
          /\ Span(Tail(ebuf[p]), p, m, Sent(p))
          /\ Full(Opt(entry[p]), p, d, e) /\ Full(ebuf[p], p, e, Sent(p)) =>
               /\ Full(Append(Opt(entry[p]), Head(ebuf[p])), p, d, m)
               /\ Full(Tail(ebuf[p]), p, m, Sent(p))
    <3>1. /\ Span(Opt(entry[p]), p, d, e) /\ Span(ebuf[p], p, e, Sent(p))
          /\ Opt(entry[p]) \in Seq(Entries) /\ ebuf[p] \in Seq(Entries)
      BY <1>0, <1>2, OptEntry DEF Marks
    <3>. QED
      BY <1>4, <2>1, <3>1, Transfer
  <2>6. PICK m \in Nat :
          /\ Span(Opt(entry'[p]), p, d, m) /\ Span(ebuf'[p], p, m, Sent(p))
          /\ Full(Opt(entry[p]), p, d, e) /\ Full(ebuf[p], p, e, Sent(p)) =>
               Full(Opt(entry'[p]), p, d, m) /\ Full(ebuf'[p], p, m, Sent(p))
    BY <2>1, <2>3, <2>5
  <2>7. Marks(p, a, b, c, d, m)'
    BY <1>0, <1>1, <1>2, <1>3, <2>1, <2>4, <2>6 DEF Marks
  <2>. QED
    BY <2>7 DEF Marked
<1>10. CASE p = q /\ Write(p)
  <2>1. /\ pub[p] = "write" /\ entry'[p] = None
        /\ link'[p] = Append(link[p], entry[p]) /\ UNCHANGED <<prog, made, ebuf>>
    BY <1>0, <1>10 DEF Write
  <2>2. entry[p] \in Entries
    BY <1>0, <2>1
  <2>3. /\ Opt(entry[p]) # <<>> /\ Opt(entry[p]) \in Seq(Entries)
        /\ Head(Opt(entry[p])) = entry[p]
        /\ Tail(Opt(entry[p])) = <<>> /\ Opt(entry'[p]) = <<>>
    BY <2>1, <2>2, OptEntry
  <2>4. Sent(p)' = Sent(p)
    BY <2>1 DEF Sent
  <2>5. \E m \in Nat :
          /\ Span(Append(link[p], Head(Opt(entry[p]))), p, c, m)
          /\ Span(Tail(Opt(entry[p])), p, m, e)
          /\ Full(link[p], p, c, d) /\ Full(Opt(entry[p]), p, d, e) =>
               /\ Full(Append(link[p], Head(Opt(entry[p]))), p, c, m)
               /\ Full(Tail(Opt(entry[p])), p, m, e)
    <3>1. /\ Span(link[p], p, c, d) /\ Span(Opt(entry[p]), p, d, e)
          /\ link[p] \in Seq(Entries)
      BY <1>0, <1>2 DEF Marks
    <3>. QED
      BY <2>3, <3>1, Transfer
  <2>6. PICK m \in Nat :
          /\ Span(link'[p], p, c, m) /\ Span(Opt(entry'[p]), p, m, e)
          /\ Full(link[p], p, c, d) /\ Full(Opt(entry[p]), p, d, e) =>
               Full(link'[p], p, c, m) /\ Full(Opt(entry'[p]), p, m, e)
    BY <2>1, <2>3, <2>5
  <2>7. Marks(p, a, b, c, m, e)'
    BY <1>0, <1>1, <1>2, <1>3, <2>1, <2>4, <2>6 DEF Marks
  <2>. QED
    BY <2>7 DEF Marked
\* Only a datagram, or what nobody will read any more.
<1>11. CASE p = q /\ WriteLost(p)
  <2>1. /\ pub[p] = "write" /\ entry'[p] = None /\ UNCHANGED <<prog, made, ebuf, link>>
        /\ ipcType = "udp" \/ (IsStream /\ peer[p] = "closed")
    BY <1>0, <1>11 DEF WriteLost
  <2>2. ~Kept(p)
    <3>1. SUFFICES ASSUME Kept(p)
                   PROVE  FALSE
      OBVIOUS
    <3>2. IsStream /\ peer[p] = "closed" /\ agg = "up" /\ p \in Producers \ Oversized
      BY <2>1, <3>1 DEF Kept
    <3>3. pub[p] = "done"
      BY <3>2 DEF ClosedAfterShut
    <3>. QED
      BY <2>1, <3>3
  <2>3. Opt(entry'[p]) = <<>> /\ Sent(p)' = Sent(p) /\ d <= e
    BY <1>2, <2>1, OptEntry DEF Sent, Marks, Span
  <2>4. Span(<<>>, p, d, e)
    BY <2>3, EmptySpan
  <2>5. Marks(p, a, b, c, d, e)'
    BY <1>0, <1>1, <1>2, <1>3, <2>1, <2>2, <2>3, <2>4 DEF Marks
  <2>. QED
    BY <2>5 DEF Marked
<1>. QED
  BY <1>5, <1>6, <1>7, <1>8, <1>9, <1>10, <1>11 DEF Producer, Run, Publish, WriteErratic

LEMMA ReaderMarked ==
  ASSUME TypeInv, OwnEntries, [Next]_vars,
         NEW r \in Readers, Reader(r), NEW p \in Producers, Marked(p)
  PROVE  Marked(p)'
<1>0. /\ Kept(p)' => Kept(p)
      /\ ebuf \in [Producers -> Seq(Entries)] /\ link \in [Producers -> Seq(Entries)]
      /\ events \in Seq(Entries)
      /\ rd \in [Readers -> {"idle", "read", "send", "eof", "done"}]
      /\ log \in [Readers -> Entries \cup {None}]
      /\ log[r] # None <=> rd[r] = "send"
      /\ ReaderOf(p) \in Readers
  BY KeptBefore, PlacesTyped DEF TypeInv, TypeOK, ProducerTypeOK
<1>1. UNCHANGED <<ipcType, written, entry, ebuf, prog, made>> /\ ReaderOf(p)' = ReaderOf(p)
  <2>1. UNCHANGED <<ipcType, written, entry, ebuf, prog, made>>
    BY DEF Reader, ReadEntry, SkipEntry, TooLong, ReadEOF, CloseReader, SendEvent,
           SendPanics, start, procs, prodVars, aggVars
  <2>. QED
    BY <2>1, ReaderSame
<1>2. PICK a, b, c, d, e \in Nat : Marks(p, a, b, c, d, e)
  BY DEF Marked
<1>3. Sent(p)' = Sent(p) /\ Opt(entry[p])' = Opt(entry[p])
  BY <1>1 DEF Sent, Opt
\* Each producer has one reader that is not idle.
<1>4. rd[r] # "idle" => IF IsStream THEN r \in Producers ELSE r = None
  BY DEF Readers, OwnEntries, TypeInv, Roles
<1>5. CASE ReadEOF(r) \/ CloseReader(r) \/ SendPanics(r)
  <2>1. UNCHANGED <<events, log, link>>
    BY <1>5 DEF ReadEOF, CloseReader, SendPanics, prodVars, End
  <2>. QED
    BY <1>0, <1>1, <1>3, <2>1, MarkedFrame
<1>6. CASE ReadEntry(r)
  <2>1. PICK q \in Sources(r) \ Oversized :
          /\ link[q] # <<>>
          /\ Give(r, "send", Head(link[q]))
          /\ link' = [link EXCEPT ![q] = Tail(@)]
    BY <1>6 DEF ReadEntry
  <2>2. rd[r] = "read" /\ events' = events /\ log[r] = None /\ Opt(log[r]) = <<>>
    BY <1>0, <1>6, OptEntry DEF ReadEntry
  <2>3. q \in Producers /\ ReaderOf(q) = r
    BY <1>4, <2>1, <2>2 DEF Sources, ReaderOf
  <2>4. /\ Head(link[q]) \in Entries /\ Owner(Head(link[q])) = q
        /\ link[q] \in Seq(Entries)
    <3>1. /\ link[q] \in Seq(Entries) /\ Head(link[q]) = link[q][1]
          /\ Len(link[q]) \in Nat \ {0}
      BY <1>0, <2>1, <2>3, LenProperties, EmptySeq
    <3>2. 1 \in 1 .. Len(link[q])
      BY <3>1
    <3>. QED
      BY <2>1, <2>3, <3>1, <3>2, HeadTailProperties DEF OwnEntries
  <2>5. /\ log'[r] = Head(link[q]) /\ \A x \in Readers : x # r => log'[x] = log[x]
        /\ link'[q] = Tail(link[q]) /\ \A x \in Producers : x # q => link'[x] = link[x]
    BY <1>0, <2>1, <2>3 DEF Give
  <2>6. Opt(log'[r]) = Append(<<>>, Head(link[q]))
    BY <2>4, <2>5, OptEntry
  <2>7. CASE p = q
    <3>1. \E m \in Nat :
            /\ Span(Append(<<>>, Head(link[q])), p, b, m) /\ Span(Tail(link[q]), p, m, d)
            /\ Full(<<>>, p, b, c) /\ Full(link[q], p, c, d) =>
                 Full(Append(<<>>, Head(link[q])), p, b, m) /\ Full(Tail(link[q]), p, m, d)
      <4>1. Span(<<>>, p, b, c) /\ Span(link[q], p, c, d) /\ <<>> \in Seq(Entries)
        BY <1>2, <2>2, <2>3, <2>7, EmptySeq DEF Marks
      <4>. QED
        BY <2>1, <2>4, <4>1, Transfer
    <3>2. PICK m \in Nat :
            /\ Span(Opt(log'[r]), p, b, m) /\ Span(link'[p], p, m, d)
            /\ Full(<<>>, p, b, c) /\ Full(link[p], p, c, d) =>
                 Full(Opt(log'[r]), p, b, m) /\ Full(link'[p], p, m, d)
      BY <2>5, <2>6, <2>7, <3>1
    <3>3. Marks(p, a, b, m, d, e)'
      BY <1>0, <1>1, <1>2, <1>3, <2>2, <2>3, <2>7, <3>2 DEF Marks
    <3>. QED
      BY <3>3 DEF Marked
  <2>8. CASE p # q /\ ReaderOf(p) = r
    <3>1. Span(<<>>, p, b, c) /\ <<>> \in Seq(Entries)
      BY <1>2, <2>2, <2>8, EmptySeq DEF Marks
    <3>2. /\ Span(Opt(log'[r]), p, b, c)
          /\ Full(<<>>, p, b, c) => Full(Opt(log'[r]), p, b, c)
      <4>1. /\ Head(link[q]) \in Entries /\ Owner(Head(link[q])) # p
            /\ b \in Nat /\ c \in Nat
        BY <2>2, <2>4, <2>8
      <4>2. /\ Span(Append(<<>>, Head(link[q])), p, b, c)
            /\ Full(<<>>, p, b, c) => Full(Append(<<>>, Head(link[q])), p, b, c)
        BY <3>1, <4>1, SpanForeign
      <4>. QED
        BY <2>6, <4>2
    <3>3. Marks(p, a, b, c, d, e)'
      BY <1>0, <1>1, <1>2, <1>3, <2>2, <2>5, <2>8, <3>2 DEF Marks
    <3>. QED
      BY <3>3 DEF Marked
  <2>9. CASE p # q /\ ReaderOf(p) # r
    BY <1>0, <1>1, <1>3, <2>2, <2>5, <2>9, MarkedFrame
  <2>. QED
    BY <2>7, <2>8, <2>9
<1>7. CASE SkipEntry(r)
  <2>1. PICK q \in Sources(r) \cap Oversized :
          link[q] # <<>> /\ link' = [link EXCEPT ![q] = Tail(@)]
    BY <1>7 DEF SkipEntry
  <2>2. UNCHANGED <<events, log>> /\ q \in Producers
    BY <1>7, <2>1 DEF SkipEntry, aggVars
  <2>3. CASE p # q
    BY <1>0, <1>1, <1>3, <2>1, <2>2, <2>3, MarkedFrame
  <2>4. CASE p = q
    <3>1. ~Kept(p)' /\ link'[p] = Tail(link[p]) /\ Opt(log[ReaderOf(p)])' = Opt(log[ReaderOf(p)])
      BY <1>0, <1>1, <2>1, <2>2, <2>4 DEF Kept, Opt
    <3>2. Span(link'[p], p, c, d)
      BY <1>0, <1>2, <2>1, <2>4, <3>1, SpanTail DEF Marks
    <3>3. Marks(p, a, b, c, d, e)'
      BY <1>1, <1>2, <1>3, <2>2, <3>1, <3>2 DEF Marks
    <3>. QED
      BY <3>3 DEF Marked
  <2>. QED
    BY <2>3, <2>4
<1>8. CASE TooLong(r)
  <2>1. /\ r \in Oversized /\ link' = [link EXCEPT ![r] = <<>>] /\ UNCHANGED <<events, log>>
    BY <1>8 DEF TooLong
  <2>2. CASE p # r
    BY <1>0, <1>1, <1>3, <2>1, <2>2, MarkedFrame
  <2>3. CASE p = r
    <3>1. ~Kept(p)' /\ link'[p] = <<>> /\ Opt(log[ReaderOf(p)])' = Opt(log[ReaderOf(p)])
      BY <1>0, <1>1, <2>1, <2>3 DEF Kept, Opt
    <3>2. Span(link'[p], p, c, d)
      BY <1>2, <3>1, EmptySpan DEF Marks, Span
    <3>3. Marks(p, a, b, c, d, e)'
      BY <1>1, <1>2, <1>3, <2>1, <3>1, <3>2 DEF Marks
    <3>. QED
      BY <3>3 DEF Marked
  <2>. QED
    BY <2>2, <2>3
<1>9. CASE SendEvent(r)
  <2>1. /\ rd[r] = "send" /\ log[r] \in Entries
        /\ events' = Append(events, log[r]) /\ link' = link
        /\ log'[r] = None /\ \A x \in Readers : x # r => log'[x] = log[x]
    BY <1>0, <1>9 DEF SendEvent, Give, prodVars
  <2>2. /\ Opt(log[r]) # <<>> /\ Opt(log[r]) \in Seq(Entries)
        /\ Head(Opt(log[r])) = log[r] /\ Tail(Opt(log[r])) = <<>> /\ Opt(log'[r]) = <<>>
    BY <2>1, OptEntry
  <2>3. CASE ReaderOf(p) = r
    <3>1. \E m \in Nat :
            /\ Span(Append(events, Head(Opt(log[r]))), p, a, m)
            /\ Span(Tail(Opt(log[r])), p, m, c)
            /\ Full(events, p, a, b) /\ Full(Opt(log[r]), p, b, c) =>
                 /\ Full(Append(events, Head(Opt(log[r]))), p, a, m)
                 /\ Full(Tail(Opt(log[r])), p, m, c)
      <4>1. Span(events, p, a, b) /\ Span(Opt(log[r]), p, b, c)
        BY <1>2, <2>3 DEF Marks
      <4>. QED
        BY <1>0, <2>2, <4>1, Transfer
    <3>2. PICK m \in Nat :
            /\ Span(events', p, a, m) /\ Span(Opt(log'[r]), p, m, c)
            /\ Full(events, p, a, b) /\ Full(Opt(log[r]), p, b, c) =>
                 Full(events', p, a, m) /\ Full(Opt(log'[r]), p, m, c)
      BY <2>1, <2>2, <3>1
    <3>3. Marks(p, a, m, c, d, e)'
      BY <1>0, <1>1, <1>2, <1>3, <2>1, <2>3, <3>2 DEF Marks
    <3>. QED
      BY <3>3 DEF Marked
  <2>4. CASE ReaderOf(p) # r
    <3>1. Owner(log[r]) # p
      <4>1. IsStream /\ r \in Producers /\ r # p
        BY <1>4, <2>1, <2>4 DEF ReaderOf
      <4>2. Owner(log[r]) = r
        BY <1>0, <2>1, <4>1 DEF OwnEntries
      <4>. QED
        BY <4>1, <4>2
    <3>2. /\ Span(events', p, a, b)
          /\ Full(events, p, a, b) => Full(events', p, a, b)
      <4>1. Span(events, p, a, b)
        BY <1>2 DEF Marks
      <4>. QED
        BY <1>0, <2>1, <3>1, <4>1, SpanForeign
    <3>3. Opt(log[ReaderOf(p)])' = Opt(log[ReaderOf(p)])
      BY <1>0, <1>1, <2>1, <2>4 DEF Opt
    <3>4. Marks(p, a, b, c, d, e)'
      BY <1>0, <1>1, <1>2, <1>3, <2>1, <3>2, <3>3 DEF Marks
    <3>. QED
      BY <3>4 DEF Marked
  <2>. QED
    BY <2>3, <2>4
<1>. QED
  BY <1>5, <1>6, <1>7, <1>8, <1>9 DEF Reader

LEMMA StepMarked ==
  ASSUME TypeInv, OwnEntries, ClosedAfterShut, [Next]_vars, NEW p \in Producers, Marked(p),
         ~erratic
  PROVE  Marked(p)'
<1>0. Kept(p)' => Kept(p)
  BY KeptBefore
<1> USE DEF start, procs, prodVars, aggVars, End
<1>1. ASSUME \/ Notify \/ Kill \/ Interrupt \/ Listen \/ ListenFails \/ TooLongForFIFO
             \/ (\E q \in Producers : Accept(q))
             \/ Create \/ EventsEnd \/ Flush \/ CloseDone \/ MainExits \/ UNCHANGED vars
      PROVE  Marked(p)'
  <2>1. UNCHANGED <<ipcType, written, events, log, link, entry, ebuf, prog, made>>
    BY <1>1 DEF Notify, Kill, Interrupt, Listen, ListenFails, TooLongForFIFO, Accept,
                Create, EventsEnd, Flush, CloseDone, MainExits, vars
  <2>2. Sent(p)' = Sent(p) /\ ReaderOf(p)' = ReaderOf(p)
    BY <2>1, ReaderSame DEF Sent
  <2>. QED
    BY <1>0, <2>1, <2>2, MarkedFrame
<1>2. CASE WriteEvent
  <2>1. PICK a, b, c, d, e \in Nat : Marks(p, a, b, c, d, e)
    BY DEF Marked
  <2>2. /\ events # <<>> /\ written' = Append(written, Head(events))
        /\ events' = Tail(events)
        /\ UNCHANGED <<ipcType, log, link, entry, ebuf, prog, made>>
    BY <1>2 DEF WriteEvent
  <2>3. \E m \in Nat :
          /\ Span(Append(written, Head(events)), p, 0, m) /\ Span(Tail(events), p, m, b)
          /\ Full(written, p, 0, a) /\ Full(events, p, a, b) =>
               Full(Append(written, Head(events)), p, 0, m) /\ Full(Tail(events), p, m, b)
    <3>1. Span(written, p, 0, a) /\ Span(events, p, a, b)
      BY <2>1 DEF Marks
    <3>2. written \in Seq(Entries) /\ events \in Seq(Entries)
      BY PlacesTyped
    <3>. QED
      BY <2>2, <3>1, <3>2, Transfer
  <2>4. PICK m \in Nat :
          /\ Span(written', p, 0, m) /\ Span(events', p, m, b)
          /\ Full(written, p, 0, a) /\ Full(events, p, a, b) =>
               Full(written', p, 0, m) /\ Full(events', p, m, b)
    BY <2>2, <2>3
  <2>5. Sent(p)' = Sent(p) /\ ReaderOf(p)' = ReaderOf(p)
    BY <2>2, ReaderSame DEF Sent
  <2>6. Opt(log[ReaderOf(p)])' = Opt(log[ReaderOf(p)]) /\ Opt(entry[p])' = Opt(entry[p])
    BY <2>2, <2>5 DEF Opt
  <2>7. Marks(p, m, b, c, d, e)'
    BY <1>0, <2>1, <2>2, <2>4, <2>5, <2>6 DEF Marks
  <2>. QED
    BY <2>7 DEF Marked
<1>. QED
  BY <1>1, <1>2, ReaderMarked, ProducerMarked DEF Next, Collect

-----------------------------------------------------------------------------
\* The kernel does not change its ways.
LEMMA StepErratic == [Next]_vars => erratic' = erratic
<1> SUFFICES ASSUME [Next]_vars
             PROVE  erratic' = erratic
  OBVIOUS
<1> USE DEF start, procs, prodVars
<1>1. ASSUME NEW r \in Readers, Reader(r)
      PROVE  erratic' = erratic
  BY <1>1 DEF Reader, ReadEntry, SkipEntry, TooLong, ReadEOF, CloseReader, SendEvent,
              SendPanics
<1>2. ASSUME NEW q \in Producers, Producer(q) \/ Accept(q)
      PROVE  erratic' = erratic
  BY <1>2 DEF Producer, Accept, Run, Publish, Tick, SendEntry, Timeout, Exit, Dial,
              DialFails, Take, Write, WriteErratic, WriteLost, WriteFails, PublishEnds, Die
<1>. QED
  BY <1>1, <1>2 DEF Next, Notify, Kill, Interrupt, Listen, ListenFails, TooLongForFIFO,
                    Collect, Create, WriteEvent, EventsEnd, Flush, CloseDone, MainExits, vars

OrderInv ==
  /\ TypeInv
  /\ OwnEntries
  /\ ClosedAfterShut
  /\ ~erratic => \A p \in Producers : Marked(p)

LEMMA InitOrder == Init => OrderInv
<1> SUFFICES ASSUME Init
             PROVE  OrderInv
  OBVIOUS
<1>1. OwnEntries
  BY WhoReads, EmptySeq DEF Init, ProducerInit, OwnEntries
<1>2. ClosedAfterShut
  BY WhoReads DEF Init, ProducerInit, ClosedAfterShut
<1>. QED
  BY <1>1, <1>2, InitType, InitMarked DEF OrderInv

LEMMA StepOrder ==
  ASSUME OrderInv, [Next]_vars
  PROVE  OrderInv'
<1>1. TypeInv'
  BY StepType, StepRoles DEF OrderInv, TypeInv
<1>2. OwnEntries' /\ ClosedAfterShut'
  BY StepOwn, StepShut DEF OrderInv
<1>3. ~erratic' => \A p \in Producers : Marked(p)'
  BY StepErratic, StepMarked DEF OrderInv
<1>. QED
  BY <1>1, <1>2, <1>3 DEF OrderInv

\* All places of the way, one after the other.
LEMMA WholePath ==
  ASSUME OrderInv, ~erratic, NEW p \in Producers
  PROVE  /\ Path(p) \in Seq(Entries)
         /\ Span(Path(p), p, 0, made[p])
         /\ Kept(p) => Full(Path(p), p, 0, made[p])
<1> DEFINE l  == Opt(log[ReaderOf(p)])
           s1 == written \o events
           s2 == s1 \o l
           s3 == s2 \o link[p]
           s4 == s3 \o Opt(entry[p])
           s5 == s4 \o ebuf[p]
           s6 == IF prog[p] = "send" THEN <<<<p, made[p]>>>> ELSE <<>>
<1>1. PICK a, b, c, d, e \in Nat : Marks(p, a, b, c, d, e)
  BY DEF OrderInv, Marked
<1>2. /\ written \in Seq(Entries) /\ events \in Seq(Entries) /\ l \in Seq(Entries)
      /\ link[p] \in Seq(Entries) /\ Opt(entry[p]) \in Seq(Entries)
      /\ ebuf[p] \in Seq(Entries) /\ Sent(p) \in Nat /\ made[p] \in Nat
  BY PlacesTyped, OptEntry DEF OrderInv
<1>3. /\ Span(written, p, 0, a) /\ Span(events, p, a, b) /\ Span(l, p, b, c)
      /\ Span(link[p], p, c, d) /\ Span(Opt(entry[p]), p, d, e)
      /\ Span(ebuf[p], p, e, Sent(p))
  BY <1>1 DEF Marks
<1>4. Kept(p) =>
        /\ Full(written, p, 0, a) /\ Full(events, p, a, b) /\ Full(l, p, b, c)
        /\ Full(link[p], p, c, d) /\ Full(Opt(entry[p]), p, d, e)
        /\ Full(ebuf[p], p, e, Sent(p))
  BY <1>1 DEF Marks
<1>5. s6 \in Seq(Entries) /\ Span(s6, p, Sent(p), made[p]) /\ Full(s6, p, Sent(p), made[p])
  <2>1. CASE prog[p] = "send"
    <3>1. <<p, made[p]>> \in Entries
      BY <2>1, EntryNumbers DEF OrderInv, TypeInv, TypeOK, ProducerTypeOK, Roles
    <3>2. Sent(p) = made[p] - 1 /\ made[p] = Sent(p) + 1
      BY <1>2, <2>1 DEF Sent
    <3>3. Span(<<>>, p, Sent(p), Sent(p)) /\ Full(<<>>, p, Sent(p), Sent(p))
      BY <1>2, EmptySpan
    <3>4. <<>> \in Seq(Entries) /\ Sent(p) < made[p]
      BY <1>2, <3>2, EmptySeq
    <3>5. Owner(<<p, made[p]>>) = p /\ Number(<<p, made[p]>>) = made[p]
      BY DEF Owner, Number
    <3>6. /\ Span(Append(<<>>, <<p, made[p]>>), p, Sent(p), made[p])
          /\ Full(Append(<<>>, <<p, made[p]>>), p, Sent(p), made[p])
      BY <1>2, <3>1, <3>2, <3>3, <3>4, <3>5, SpanNext
    <3>7. s6 = Append(<<>>, <<p, made[p]>>) /\ s6 \in Seq(Entries)
      BY <2>1, <3>1
    <3>. QED
      BY <3>6, <3>7
  <2>2. CASE prog[p] # "send"
    <3>1. s6 = <<>> /\ Sent(p) = made[p]
      BY <2>2 DEF Sent
    <3>. QED
      BY <1>2, <3>1, EmptySpan, EmptySeq
  <2>. QED
    BY <2>1, <2>2
<1> HIDE DEF l, s1, s2, s3, s4, s5, s6
<1>6. /\ s1 \in Seq(Entries) /\ Span(s1, p, 0, b)
      /\ Kept(p) => Full(s1, p, 0, b)
  BY <1>2, <1>3, <1>4, SpanConcat DEF s1
<1>7. /\ s2 \in Seq(Entries) /\ Span(s2, p, 0, c)
      /\ Kept(p) => Full(s2, p, 0, c)
  BY <1>2, <1>3, <1>4, <1>6, SpanConcat DEF s2
<1>8. /\ s3 \in Seq(Entries) /\ Span(s3, p, 0, d)
      /\ Kept(p) => Full(s3, p, 0, d)
  BY <1>2, <1>3, <1>4, <1>7, SpanConcat DEF s3
<1>9. /\ s4 \in Seq(Entries) /\ Span(s4, p, 0, e)
      /\ Kept(p) => Full(s4, p, 0, e)
  BY <1>2, <1>3, <1>4, <1>8, SpanConcat DEF s4
<1>10. /\ s5 \in Seq(Entries) /\ Span(s5, p, 0, Sent(p))
       /\ Kept(p) => Full(s5, p, 0, Sent(p))
  BY <1>2, <1>3, <1>4, <1>9, SpanConcat DEF s5
<1>11. /\ s5 \o s6 \in Seq(Entries) /\ Span(s5 \o s6, p, 0, made[p])
       /\ Kept(p) => Full(s5 \o s6, p, 0, made[p])
  BY <1>2, <1>5, <1>10, SpanConcat
<1>12. Path(p) = s5 \o s6
  BY DEF Path, l, s1, s2, s3, s4, s5, s6
<1>. QED
  BY <1>11, <1>12

(***************************************************************************)
(* For any number of producers and entries, any buffer sizes and every IPC *)
(* type: the entries of one producer keep their order on the whole way to  *)
(* the file, and none is there twice, unless the kernel reorders or        *)
(* doubles datagrams, as README.md:10 has it.                              *)
(***************************************************************************)
THEOREM EntriesStayInOrder == Spec => []InOrder
<1>1. OrderInv => InOrder
  <2>1. SUFFICES ASSUME OrderInv, ~erratic, NEW p \in Producers,
                        NEW i \in DOMAIN Path(p), NEW j \in DOMAIN Path(p),
                        i < j, Path(p)[i][1] = p, Path(p)[j][1] = p
                 PROVE  Path(p)[i][2] < Path(p)[j][2]
    BY DEF InOrder
  <2>2. Path(p) \in Seq(Entries) /\ Span(Path(p), p, 0, made[p])
    BY <2>1, WholePath
  <2>3. i \in 1 .. Len(Path(p)) /\ j \in 1 .. Len(Path(p))
    BY <2>2, LenProperties
  <2>. QED
    BY <2>1, <2>2, <2>3 DEF Span, Owner, Number
<1>. QED
  BY <1>1, InitOrder, StepOrder, PTL DEF Spec

(***************************************************************************)
(* While the aggregator is up, every entry made by a producer that has not *)
(* panicked is somewhere on the way to the file, except over UDP, over     *)
(* datagram sockets as README.md:10 has them, after the end of the FIFO,   *)
(* and with entries too large for the receivers.                           *)
(***************************************************************************)
THEOREM NoEntryIsLost == Spec => []NothingLost
<1>1. OrderInv => NothingLost
  <2>1. SUFFICES ASSUME OrderInv, ~erratic, NEW p \in Producers, Kept(p),
                        NEW i \in 1 .. made[p]
                 PROVE  <<p, i>> \in ToSet(Path(p))
    BY DEF NothingLost, Kept
  <2>2. Path(p) \in Seq(Entries) /\ Full(Path(p), p, 0, made[p])
    BY <2>1, WholePath
  <2>3. PICK k \in 1 .. Len(Path(p)) : Path(p)[k] = <<p, i>>
    <3>1. i \in 0 + 1 .. made[p]
      BY <2>1
    <3>. QED
      BY <2>2, <3>1 DEF Full
  <2>4. k \in DOMAIN Path(p)
    BY <2>2, LenProperties
  <2>. QED
    BY <2>3, <2>4 DEF ToSet
<1>. QED
  BY <1>1, InitOrder, StepOrder, PTL DEF Spec
=============================================================================
