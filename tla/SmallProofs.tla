---------------------------- MODULE SmallProofs ----------------------------
(***************************************************************************)
(* Proofs about the small programs: the workloads of the labs, for every   *)
(* number of workers; the counts of wc-go, for inputs, reads and lines of  *)
(* every length; the walk of fs-monitor, for every tree; the bursts of lab *)
(* 0102, for any connections and number of bursts.                         *)
(***************************************************************************)
EXTENDS SmallPrograms, ChannelLemmas, FiniteSetTheorems

(***************************************************************************)
(* LabCounters: no increment is lost, and the counter moves as TokenRing   *)
(* says.                                                                   *)
(***************************************************************************)
\* The statements of each program.
Labels(m) ==
  CASE m = "atomic" -> {"add"}
    [] m = "mutex"  -> {"lock", "load", "store", "unlock"}
    [] m = "locked" -> {"lock", "add", "unlock"}
    [] m = "owner"  -> {"request"}
    [] m = "ring"   -> {"receive", "add", "send"}
    [] m = "turns"  -> {"lock", "check", "add", "pass", "unlock", "asleep"}

AllLabels == {"lock", "load", "store", "add", "unlock", "request", "receive", "send",
              "check", "asleep", "pass"}

\* The goroutines between Lock and Unlock.
Inside(w) == pc[w] \in {"load", "store", "check", "pass", "unlock"}
               \/ (pc[w] = "add" /\ mode \in Locks)

\* Whoever is between Lock and Unlock holds the lock, and what it has read of
\* the shared state is still so.
Locked ==
  \A w \in Worker :
    /\ pc[w] \in Labels(mode)
    /\ Inside(w) => lock = w
    /\ pc[w] = "store" => loaded = counter
    /\ mode = "turns" /\ pc[w] \in {"add", "pass"} => turn = w

\* One token at most is in the ring.
OneToken ==
  /\ owner = "add" => mode = "owner"
  /\ mode = "ring" /\ starter = "send" => \A w \in Worker : pc[w] = "receive"
  /\ mode = "ring" /\ starter = "done" =>
       \E w \in Worker : \A v \in Worker : pc[v] # "receive" <=> v = w

LabInv == TypeOK /\ Locked /\ OneToken /\ EveryIncrementCounts

(***************************************************************************)
(* The next participant is a participant.                                  *)
(***************************************************************************)
LEMMA Next1InRing ==
  ASSUME TypeOK, NEW w \in Worker
  PROVE  Next1(w) \in Worker /\ n \in Nat \ {0} /\ 0 \in Worker /\ w \in Nat
BY LabAssumption DEF TypeOK, Worker, Next1

LEMMA InitLab == Init => LabInv
<1> SUFFICES ASSUME Init PROVE LabInv
  OBVIOUS
<1>1. TypeOK
  BY LabAssumption DEF Init, TypeOK, Worker, First, Modes, Locks
<1>2. Locked
  BY DEF Init, Locked, Labels, First, Modes, Locks, Inside
<1>3. OneToken /\ EveryIncrementCounts
  BY DEF Init, OneToken, EveryIncrementCounts, First, Locks
<1> QED
  BY <1>1, <1>2, <1>3 DEF LabInv

LEMMA TypeStep == LabInv /\ [Next]_vars => TypeOK'
<1> SUFFICES ASSUME LabInv, [Next]_vars PROVE TypeOK'
  OBVIOUS
<1> USE DEF LabInv, Worker
<1>1. ASSUME NEW w \in Worker, Step(w) PROVE TypeOK'
  <2>1. CASE Lock(w) \/ Unlock(w) \/ Wait(w) \/ MyTurn(w)
    BY <1>1, <2>1 DEF Lock, Unlock, Wait, MyTurn, GoTo, sync, TypeOK
  <2>2. CASE Load(w)
    <3>1. loaded' = counter /\ pc' = [pc EXCEPT ![w] = "store"]
      BY <2>2 DEF Load, GoTo
    <3>. QED
      BY <1>1, <2>2, <3>1 DEF Load, TypeOK
  <2>7. CASE Request(w)
    BY <1>1, <2>7 DEF Request, TypeOK
  <2>6. CASE Store(w)
    BY <1>1, <2>6 DEF Store, GoTo, sync, TypeOK
  <2>5. CASE Add(w)
    <3>1. \E label \in {"add", "unlock", "send", "pass"} : pc' = [pc EXCEPT ![w] = label]
      BY <2>5 DEF Add, GoTo
    <3>2. pc' \in [Worker -> AllLabels]
      BY <1>1, <3>1 DEF TypeOK, AllLabels
    <3> QED
      BY <1>1, <2>5, <3>2 DEF Add, sync, TypeOK, AllLabels
  <2>3. CASE Send(w)
    BY <1>1, <2>3, Next1InRing DEF Send, sync, TypeOK
  <2>4. CASE Pass(w)
    <3>1. turn \in Worker /\ Next1(turn) \in Worker
      BY Next1InRing DEF TypeOK
    <3> QED
      BY <1>1, <2>4, <3>1 DEF Pass, TypeOK
  <2> QED
    BY <1>1, <2>1, <2>2, <2>3, <2>4, <2>5, <2>6, <2>7 DEF Step
<1>2. CASE OwnerAdd \/ Start \/ Sample
  <2>1. CASE OwnerAdd
    BY <2>1 DEF OwnerAdd, TypeOK
  <2>2. CASE Start
    <3>1. starter' = "done" /\ pc' = [pc EXCEPT ![0] = "add"]
      BY <2>2 DEF Start, GoTo
    <3>. QED
      BY <2>2, <3>1 DEF Start, TypeOK
  <2>3. CASE Sample
    BY <2>3 DEF Sample, sync, TypeOK
  <2>. QED
    BY <1>2, <2>1, <2>2, <2>3
<1>3. CASE UNCHANGED vars
  BY <1>3 DEF vars, sync, TypeOK
<1> QED
  BY <1>1, <1>2, <1>3 DEF Next

LEMMA LockedStep == LabInv /\ [Next]_vars => Locked'
<1> SUFFICES ASSUME LabInv, [Next]_vars PROVE Locked'
  OBVIOUS
<1> USE DEF LabInv
<1>0. Worker' = Worker /\ mode' = mode /\ n' = n
  BY DEF Next, Step, Lock, Unlock, Wait, MyTurn, Load, Store, Add, Request, Send, Pass,
     OwnerAdd, Start, Sample, vars, Worker
<1>t. pc \in [Worker -> AllLabels] /\ None \notin Worker /\ mode \in Modes
  BY LabAssumption DEF TypeOK, Worker, AllLabels
<1>1. ASSUME NEW w \in Worker, Step(w) PROVE Locked'
  <2>1. CASE Lock(w)
    BY <1>0, <1>t, <2>1 DEF Lock, GoTo, Locked, Labels, Inside, Modes, Locks
  <2>2. CASE Unlock(w)
    BY <1>0, <1>t, <2>2 DEF Unlock, GoTo, Locked, Labels, Inside, Modes, Locks
  <2>3. CASE Load(w)
    BY <1>0, <1>t, <2>3 DEF Load, GoTo, Locked, Labels, Inside, Modes, Locks
  <2>4. CASE Store(w)
    BY <1>0, <1>t, <2>4 DEF Store, GoTo, sync, Locked, Labels, Inside, Modes, Locks
  <2>5. CASE Add(w)
    BY <1>0, <1>t, <2>5 DEF Add, GoTo, sync, Locked, Labels, Inside, Modes, Locks
  <2>6. CASE Request(w)
    BY <1>0, <1>t, <2>6 DEF Request, Locked, Labels, Inside, Modes, Locks
  <2>7. CASE Send(w)
    <3>1. Next1(w) \in Worker /\ mode = "ring"
      BY <1>t, <2>7, Next1InRing DEF Send, Locked, Labels, Modes
    <3> QED
      BY <1>0, <1>t, <2>7, <3>1 DEF Send, sync, Locked, Labels, Inside, Locks
  <2>8. CASE Wait(w)
    BY <1>0, <1>t, <2>8 DEF Wait, GoTo, Locked, Labels, Inside, Modes, Locks
  <2>9. CASE MyTurn(w)
    BY <1>0, <1>t, <2>9 DEF MyTurn, GoTo, sync, Locked, Labels, Inside, Modes, Locks
  <2>10. CASE Pass(w)
    <3>1. mode = "turns" /\ lock = w
      BY <1>t, <2>10 DEF Pass, Locked, Labels, Modes, Inside
    <3>2. \A v \in Worker : Inside(v) => v = w
      BY <3>1 DEF Locked
    <3> QED
      BY <1>0, <1>t, <2>10, <3>1, <3>2 DEF Pass, Locked, Labels, Inside, Locks
  <2> QED
    BY <1>1, <2>1, <2>2, <2>3, <2>4, <2>5, <2>6, <2>7, <2>8, <2>9, <2>10 DEF Step
<1>2. CASE OwnerAdd
  <2>1. mode = "owner"
    BY <1>2 DEF OwnerAdd, OneToken
  <2> QED
    BY <1>0, <1>2, <2>1 DEF OwnerAdd, Locked, Labels, Inside, Locks
<1>3. CASE Start
  <2>1. 0 \in Worker
    BY Next1InRing, LabAssumption DEF TypeOK, Worker
  <2> QED
    BY <1>0, <1>t, <1>3, <2>1 DEF Start, GoTo, Locked, Labels, Inside, Locks
<1>4. CASE Sample \/ UNCHANGED vars
  BY <1>0, <1>4 DEF Sample, vars, sync, Locked, Labels, Inside
<1> QED
  BY <1>1, <1>2, <1>3, <1>4 DEF Next

LEMMA TokenStep == LabInv /\ [Next]_vars => OneToken'
<1> SUFFICES ASSUME LabInv, [Next]_vars PROVE OneToken'
  OBVIOUS
<1> USE DEF LabInv
<1>0. Worker' = Worker /\ mode' = mode /\ n' = n
  BY DEF Next, Step, Lock, Unlock, Wait, MyTurn, Load, Store, Add, Request, Send, Pass,
     OwnerAdd, Start, Sample, vars, Worker
<1>t. pc \in [Worker -> AllLabels] /\ mode \in Modes /\ starter \in {"send", "done"}
  BY DEF TypeOK, AllLabels
<1>1. ASSUME NEW w \in Worker, Step(w) PROVE OneToken'
  <2>1. CASE Lock(w) \/ Unlock(w) \/ Wait(w) \/ MyTurn(w) \/ Load(w) \/ Store(w) \/ Pass(w)
    <3>1. mode # "ring"
      BY <1>t, <2>1 DEF Lock, Unlock, Wait, MyTurn, Load, Store, Pass, Locked, Labels, Modes
    <3> QED
      BY <1>0, <2>1, <3>1 DEF Lock, Unlock, Wait, MyTurn, Load, Store, Pass, sync, OneToken
  <2>2. CASE Request(w)
    BY <1>0, <1>t, <2>2 DEF Request, OneToken, Locked, Labels, Modes
  <2>3. CASE Add(w)
    BY <1>0, <1>t, <2>3 DEF Add, GoTo, sync, OneToken
  <2>4. CASE Send(w)
    <3>1. Next1(w) \in Worker
      BY Next1InRing
    <3> QED
      BY <1>0, <1>t, <2>4, <3>1 DEF Send, sync, OneToken
  <2> QED
    BY <1>1, <2>1, <2>2, <2>3, <2>4 DEF Step
<1>2. CASE Start
  <2>1. 0 \in Worker
    BY LabAssumption DEF TypeOK, Worker
  <2> QED
    BY <1>0, <1>t, <1>2, <2>1 DEF Start, GoTo, OneToken
<1>3. CASE OwnerAdd \/ Sample \/ UNCHANGED vars
  BY <1>0, <1>3 DEF OwnerAdd, Sample, vars, sync, OneToken
<1> QED
  BY <1>1, <1>2, <1>3 DEF Next

LEMMA CountStep == LabInv /\ [Next]_vars => EveryIncrementCounts'
<1> SUFFICES ASSUME LabInv, [Next]_vars PROVE EveryIncrementCounts'
  OBVIOUS
<1> USE DEF LabInv
<1>0. counter \in Nat /\ last \in Nat /\ ops \in Nat
  BY DEF TypeOK
<1>1. ASSUME NEW w \in Worker, Step(w) PROVE EveryIncrementCounts'
  <2>1. CASE Lock(w) \/ Unlock(w) \/ Wait(w) \/ MyTurn(w) \/ Load(w) \/ Send(w) \/ Pass(w)
    BY <2>1 DEF Lock, Unlock, Wait, MyTurn, Load, Send, Pass, sync, EveryIncrementCounts
  <2>2. CASE Store(w)
    <3>1. loaded = counter
      BY <1>1, <2>2 DEF Store, Locked
    <3> QED
      BY <1>0, <2>2, <3>1 DEF Store, sync, EveryIncrementCounts
  <2>3. CASE Add(w) \/ Request(w)
    BY <1>0, <2>3 DEF Add, Request, sync, EveryIncrementCounts
  <2> QED
    BY <1>1, <2>1, <2>2, <2>3 DEF Step
<1>2. CASE OwnerAdd \/ Start \/ Sample \/ UNCHANGED vars
  BY <1>0, <1>2 DEF OwnerAdd, Start, Sample, vars, sync, EveryIncrementCounts
<1> QED
  BY <1>1, <1>2 DEF Next

LEMMA LabInvariant == Spec => []LabInv
<1>1. LabInv /\ [Next]_vars => LabInv'
  BY TypeStep, LockedStep, TokenStep, CountStep DEF LabInv
<1> QED
  BY InitLab, <1>1, PTL DEF Spec

(***************************************************************************)
(* Whatever the mechanism and however many goroutines there are, no        *)
(* increment is lost.                                                      *)
(***************************************************************************)
THEOREM NoIncrementLost == Spec => []EveryIncrementCounts
BY LabInvariant, PTL DEF LabInv

-----------------------------------------------------------------------------
(***************************************************************************)
(* The refinement: which step of the ring each step is.                    *)
(***************************************************************************)
LEMMA OnlyOne == ASSUME NEW w PROVE (CHOOSE v \in {w} : TRUE) = w
OBVIOUS

LEMMA HolderOfTurns ==
  ASSUME mode = "turns"
  PROVE  holder = IF Passing = {} THEN turn ELSE Next1(turn)
BY DEF holder

LEMMA HolderOfRing ==
  ASSUME mode = "ring", starter = "done", NEW w, HasToken = {w}
  PROVE  holder = IF pc[w] = "add" THEN w ELSE Next1(w)
BY OnlyOne DEF holder

LEMMA InitRing == Init => Ring!Init
<1> SUFFICES ASSUME Init PROVE Ring!Init
  OBVIOUS
<1>1. Passing = {}
  BY DEF Init, Passing, First, Modes, Locks
<1>2. holder = 0
  BY <1>1 DEF holder, Init, Modes
<1> QED
  BY <1>2, LabAssumption DEF Ring!Init, Init

\* Outside the rings there are no turns to take.
LEMMA NoRingStep ==
  ASSUME LabInv, [Next]_vars, mode \notin Rings
  PROVE  [Ring!Count]_<<IF mode \in Rings THEN n ELSE 0, holder, counter, who>>
<1> USE DEF LabInv
<1>1. mode' = mode /\ holder = 0 /\ holder' = 0
  <2>1. mode' = mode
    BY DEF Next, Step, Lock, Unlock, Wait, MyTurn, Load, Store, Add, Request, Send, Pass,
       OwnerAdd, Start, Sample, vars
  <2> QED
    BY <2>1 DEF holder, Rings
<1>2. (counter' = counter /\ who' = who) \/ counter' = counter + 1
  <2>1. ASSUME NEW w \in Worker, Store(w) PROVE counter' = counter + 1
    BY <2>1 DEF Store, Locked
  <2> QED
    BY <2>1 DEF Next, Step, Lock, Unlock, Wait, MyTurn, Load, Add, Request, Send, Pass,
       OwnerAdd, Start, Sample, vars, sync
<1> QED
  BY <1>1, <1>2 DEF Ring!Count

\* Under the lock: a participant counts in its turn, and passes it on.
LEMMA TurnsStep ==
  ASSUME LabInv, [Next]_vars, mode = "turns"
  PROVE  [Ring!Count]_<<IF mode \in Rings THEN n ELSE 0, holder, counter, who>>
<1> USE DEF LabInv
<1>0. Worker' = Worker /\ mode' = mode /\ n' = n
  BY DEF Next, Step, Lock, Unlock, Wait, MyTurn, Load, Store, Add, Request, Send, Pass,
     OwnerAdd, Start, Sample, vars, Worker
<1>1. /\ holder = IF Passing = {} THEN turn ELSE Next1(turn)
      /\ holder' = IF Passing' = {} THEN turn' ELSE Next1(turn')
      /\ mode \in Rings /\ n # 0
  BY <1>0, HolderOfTurns, LabAssumption DEF holder, Next1, Rings, TypeOK
<1>t. pc \in [Worker -> AllLabels]
  BY DEF TypeOK, AllLabels
<1>2. ASSUME NEW w \in Worker, Step(w)
      PROVE  \/ holder' = holder /\ counter' = counter /\ who' = who
             \/ holder' = (holder + 1) % n /\ counter' = counter + 1 /\ who' = holder
  <2>1. CASE Lock(w) \/ Unlock(w) \/ Wait(w) \/ MyTurn(w)
    <3>1. Passing' = Passing /\ turn' = turn /\ counter' = counter /\ who' = who
      BY <1>0, <1>t, <2>1 DEF Lock, Unlock, Wait, MyTurn, GoTo, sync, Passing
    <3> QED
      BY <1>0, <1>1, <3>1 DEF Next1
  <2>2. CASE Load(w) \/ Store(w) \/ Request(w) \/ Send(w)
    BY <2>2 DEF Load, Store, Request, Send, Locked, Labels
  <2>3. CASE Add(w)
    <3>1. turn = w /\ lock = w /\ turn' = turn /\ counter' = counter + 1 /\ who' = w
      BY <2>3 DEF Add, Locked, Inside, Locks, sync
    <3>2. \A v \in Worker : pc[v] \in {"pass", "send"} => v = w
      BY <3>1 DEF Locked, Inside, Labels
    <3>3. Passing = {} /\ w \in Passing'
      BY <1>0, <1>t, <2>3, <3>2 DEF Add, GoTo, Passing
    <3> QED
      BY <1>0, <1>1, <3>1, <3>3 DEF Next1
  <2>4. CASE Pass(w)
    <3>1. turn = w /\ lock = w /\ turn' = Next1(turn) /\ counter' = counter /\ who' = who
      BY <2>4 DEF Pass, Locked, Inside
    <3>2. \A v \in Worker : pc[v] \in {"pass", "send"} => v = w
      BY <3>1 DEF Locked, Inside, Labels
    <3>3. w \in Passing /\ Passing' = {}
      BY <1>0, <1>t, <2>4, <3>2 DEF Pass, Passing
    <3> QED
      BY <1>1, <3>1, <3>3
  <2> QED
    BY <1>2, <2>1, <2>2, <2>3, <2>4 DEF Step
<1>3. CASE Start \/ OwnerAdd
  BY <1>3 DEF Start, OwnerAdd, OneToken
<1>4. CASE Sample \/ UNCHANGED vars
  BY <1>0, <1>1, <1>4 DEF Sample, vars, sync, Passing, Next1
<1> QED
  BY <1>0, <1>1, <1>2, <1>3, <1>4 DEF Next, Ring!Count

\* In the ring of channels: the token is with one participant, which counts
\* when it has it, and is passed on when the next one receives it.
LEMMA ChannelStep ==
  ASSUME LabInv, [Next]_vars, mode = "ring"
  PROVE  [Ring!Count]_<<IF mode \in Rings THEN n ELSE 0, holder, counter, who>>
<1> USE DEF LabInv
<1>0. Worker' = Worker /\ mode' = mode /\ n' = n
  BY DEF Next, Step, Lock, Unlock, Wait, MyTurn, Load, Store, Add, Request, Send, Pass,
     OwnerAdd, Start, Sample, vars, Worker
<1>t. pc \in [Worker -> AllLabels] /\ starter \in {"send", "done"} /\ mode \in Rings
  BY DEF TypeOK, AllLabels, Rings
<1>r. n # 0
  BY DEF TypeOK
<1>1. ASSUME starter' = "done", NEW w, HasToken' = {w}
      PROVE  holder' = IF pc'[w] = "add" THEN w ELSE Next1(w)
  BY <1>0, <1>1, OnlyOne DEF holder, Next1
<1>2. ASSUME NEW w \in Worker, Step(w)
      PROVE  \/ holder' = holder /\ counter' = counter /\ who' = who
             \/ holder' = (holder + 1) % n /\ counter' = counter + 1 /\ who' = holder
  <2>1. CASE Lock(w) \/ Unlock(w) \/ Load(w) \/ Store(w) \/ Request(w) \/ Wait(w)
             \/ MyTurn(w) \/ Pass(w)
    BY <2>1 DEF Lock, Unlock, Load, Store, Request, Wait, MyTurn, Pass, Locked, Labels
  <2>2. CASE Add(w)
    <3>1. HasToken = {w} /\ starter = "done"
      BY <1>t, <2>2 DEF Add, OneToken, HasToken
    <3>2. /\ HasToken' = {w} /\ starter' = "done" /\ pc'[w] = "send"
          /\ counter' = counter + 1 /\ who' = w
      BY <1>0, <1>t, <2>2, <3>1 DEF Add, GoTo, sync, HasToken
    <3>3. holder = w
      BY <3>1, <2>2, HolderOfRing DEF Add
    <3> QED
      BY <1>1, <3>2, <3>3 DEF Next1
  <2>3. CASE Send(w)
    <3>1. HasToken = {w} /\ starter = "done"
      BY <1>t, <2>3 DEF Send, OneToken, HasToken
    <3>2. Next1(w) \in Worker /\ Next1(w) # w
      BY <2>3, Next1InRing DEF Send
    <3>3. /\ HasToken' = {Next1(w)} /\ starter' = "done" /\ pc'[Next1(w)] = "add"
          /\ counter' = counter /\ who' = who
      BY <1>0, <1>t, <2>3, <3>1, <3>2 DEF Send, sync, HasToken
    <3>4. holder = Next1(w)
      BY <3>1, <2>3, HolderOfRing DEF Send
    <3> QED
      BY <1>1, <3>3, <3>4
  <2> QED
    BY <1>2, <2>1, <2>2, <2>3 DEF Step
<1>3. CASE Start
  <2>1. 0 \in Worker
    BY LabAssumption DEF TypeOK, Worker
  <2>2. holder = 0 /\ HasToken = {}
    BY <1>3 DEF Start, holder, OneToken, HasToken
  <2>3. /\ HasToken' = {0} /\ starter' = "done" /\ pc'[0] = "add"
        /\ counter' = counter /\ who' = who
    BY <1>0, <1>t, <1>3, <2>1, <2>2 DEF Start, GoTo, HasToken
  <2> QED
    BY <1>0, <1>1, <2>2, <2>3
<1>4. CASE OwnerAdd
  BY <1>4 DEF OwnerAdd, OneToken
<1>5. CASE Sample \/ UNCHANGED vars
  <2>1. pc' = pc /\ starter' = starter /\ counter' = counter /\ who' = who
    BY <1>5 DEF Sample, vars, sync
  <2>2. HasToken' = HasToken
    BY <1>0, <2>1 DEF HasToken
  <2>3. holder' = holder
    <3>1. CASE starter = "send"
      BY <1>0, <2>1, <3>1 DEF holder
    <3>2. CASE starter = "done"
      <4>1. PICK w \in Worker : HasToken = {w}
        BY <3>2 DEF OneToken, HasToken
      <4> QED
        BY <1>1, <2>1, <2>2, <3>2, <4>1, HolderOfRing
    <3> QED
      BY <1>t, <3>1, <3>2
  <2> QED
    BY <1>0, <2>1, <2>3
<1> QED
  BY <1>0, <1>t, <1>r, <1>2, <1>3, <1>4, <1>5 DEF Next, Ring!Count

(***************************************************************************)
(* Every mechanism counts one at a time, and both rings count in turn: the *)
(* workloads of a lab do the same work, however many participants compete  *)
(* for the lock.                                                           *)
(***************************************************************************)
THEOREM RingRefined == Spec => ImplementsRing
<1>1. LabInv /\ [Next]_vars
      => [Ring!Count]_<<IF mode \in Rings THEN n ELSE 0, holder, counter, who>>
  BY NoRingStep, TurnsStep, ChannelStep DEF Rings
<1> QED
  BY InitRing, LabInvariant, <1>1, PTL DEF Spec, ImplementsRing, Ring!Spec

-----------------------------------------------------------------------------
(***************************************************************************)
(* WordCount: the counts and the completeness of what is printed.          *)
(***************************************************************************)
\* Where the reader and the lines stand: a last line without a newline ends
\* the processing, and the end of the input is seen behind its last byte.
Progress ==
  /\ at \in {"run", "read"} => start = 0
  /\ at = "run" => read = 0 /\ input = "more"
  /\ input = "eof" => read = Len(text)
  /\ TailDone => start = read /\ input # "more"

WordInv == WordTypeOK /\ Progress /\ LinesMatch /\ PrintedIsWhole

(***************************************************************************)
(* The input is a sequence.                                                *)
(***************************************************************************)
LEMMA TextIsSeq ==
  ASSUME NEW t \in Texts
  PROVE  t \in Seq(Byte) /\ Len(t) \in Nat
BY WordCountAssumption DEF Texts

(***************************************************************************)
(* The newlines of a part of the input are finitely many.                  *)
(***************************************************************************)
LEMMA NewlinesFinite ==
  ASSUME NEW k \in Nat
  PROVE  IsFiniteSet(NewlinesIn(k)) /\ Cardinality(NewlinesIn(k)) \in Nat
<1>1. IsFiniteSet(1 .. k)
  BY FS_Interval
<1>2. NewlinesIn(k) \subseteq 1 .. k
  BY DEF NewlinesIn
<1> QED
  BY <1>1, <1>2, FS_Subset, FS_CardinalityType

(***************************************************************************)
(* Passing the next newline adds one to the newlines passed.               *)
(***************************************************************************)
LEMMA OneMoreNewline ==
  ASSUME NEW s \in Nat, NEW i \in Nat, s < i, text[i] = LF,
         \A j \in s + 1 .. i - 1 : text[j] # LF
  PROVE  Cardinality(NewlinesIn(i)) = Cardinality(NewlinesIn(s)) + 1
<1>1. NewlinesIn(i) = NewlinesIn(s) \cup {i} /\ i \notin NewlinesIn(s)
  BY DEF NewlinesIn
<1> QED
  BY <1>1, NewlinesFinite, FS_AddElement

(***************************************************************************)
(* A stretch without newlines adds none.                                   *)
(***************************************************************************)
LEMMA NoMoreNewlines ==
  ASSUME NEW s \in Nat, NEW r \in Nat, s <= r,
         \A j \in s + 1 .. r : text[j] # LF
  PROVE  NewlinesIn(r) = NewlinesIn(s)
BY DEF NewlinesIn

LEMMA InitWord == WordInit => WordInv
<1> SUFFICES ASSUME WordInit PROVE WordInv
  OBVIOUS
<1>1. Len(text) \in Nat
  BY TextIsSeq DEF WordInit
<1>2. NewlinesIn(0) = {}
  BY DEF NewlinesIn
<1>3. LinesMatch
  BY <1>2, FS_EmptySet DEF WordInit, LinesMatch, TailDone
<1>4. WordTypeOK /\ Progress /\ PrintedIsWhole
  BY <1>1 DEF WordInit, WordTypeOK, Progress, TailDone, PrintedIsWhole, Printed
<1> QED
  BY <1>3, <1>4 DEF WordInv

LEMMA StepWord == WordInv /\ [WordNext]_wordVars => WordInv'
<1> SUFFICES ASSUME WordInv, [WordNext]_wordVars PROVE WordInv'
  OBVIOUS
<1> USE DEF WordInv
<1>0. /\ text \in Seq(Byte) /\ Len(text) \in Nat
      /\ read \in Nat /\ start \in Nat /\ start <= read /\ read <= Len(text)
  BY TextIsSeq DEF WordTypeOK
<1>1. CASE Reject \/ OpenError \/ LineTooLong
  BY <1>0, <1>1 DEF Reject, OpenError, LineTooLong, Fail, args, counts, WordTypeOK, Progress,
     TailDone, LinesMatch, NewlinesIn, PrintedIsWhole, Printed
<1>2. CASE Run
  BY <1>0, <1>2 DEF Run, args, counts, WordTypeOK, Progress, Mapped, TailDone, LinesMatch,
     NewlinesIn, PrintedIsWhole, Printed
<1>3. CASE ReadChunk
  <2>1. PICK k \in 1 .. Chunk : read + k <= Len(text) /\ read' = read + k
    BY <1>3 DEF ReadChunk
  <2>2. k \in Nat
    BY <2>1, WordCountAssumption
  <2> QED
    BY <1>0, <1>3, <2>1, <2>2 DEF ReadChunk, Reading, args, counts, WordTypeOK, Progress,
       TailDone, LinesMatch, NewlinesIn, PrintedIsWhole, Printed
<1>4. CASE ReadEOF
  BY <1>0, <1>4 DEF ReadEOF, Reading, args, counts, WordTypeOK, Progress, TailDone, LinesMatch,
     NewlinesIn, PrintedIsWhole, Printed
<1>5. CASE ReadError
  BY <1>0, <1>5 DEF ReadError, Reading, Fail, args, counts, WordTypeOK, Progress, TailDone,
     LinesMatch, NewlinesIn, PrintedIsWhole, Printed
<1>6. CASE NextLine
  <2>1. PICK i \in Ends : (\A j \in Ends : i <= j) /\ start' = i /\ lines' = lines + 1
    BY <1>6 DEF NextLine, Process
  <2>2. /\ i \in Nat /\ start < i /\ i <= read /\ text[i] = LF
        /\ \A j \in start + 1 .. i - 1 : text[j] # LF
    BY <1>0, <2>1 DEF Ends
  <2>3. ~TailDone
    BY <1>0, <2>2 DEF Progress
  <2>4. Cardinality(NewlinesIn(i)) = Cardinality(NewlinesIn(start)) + 1
    BY <1>0, <2>2, OneMoreNewline
  <2>5. at = "lines" /\ UNCHANGED <<text, kind, source, at, read, input, err>>
    BY <1>6 DEF NextLine, args
  <2>6. ~TailDone'
    BY <2>1, <2>2, <2>5 DEF TailDone
  <2>7. LinesMatch'
    <3>1. NewlinesIn(i)' = NewlinesIn(i)
      BY <2>5 DEF NewlinesIn
    <3>2. NewlinesIn(start)' = NewlinesIn(i)
      BY <2>1, <2>5 DEF NewlinesIn
    <3>3. Cardinality(NewlinesIn(start)) \in Nat
      BY <1>0, NewlinesFinite
    <3> QED
      BY <2>1, <2>3, <2>4, <2>6, <3>2, <3>3 DEF LinesMatch
  <2> QED
    BY <1>0, <2>1, <2>2, <2>5, <2>6, <2>7 DEF WordTypeOK, Progress, PrintedIsWhole, Printed
<1>7. CASE LastLine
  <2>1. /\ at = "lines" /\ Ends = {} /\ input # "more" /\ start < read
        /\ start' = read /\ lines' = lines + 1
        /\ UNCHANGED <<text, kind, source, at, read, input, err>>
    BY <1>7 DEF LastLine, Process, args
  <2>2. \A j \in start + 1 .. read : text[j] # LF
    BY <2>1 DEF Ends
  <2>3. ~TailDone /\ TailDone'
    BY <1>0, <2>1, <2>2 DEF Progress, TailDone
  <2>4. LinesMatch'
    <3>1. NewlinesIn(read) = NewlinesIn(start)
      BY <1>0, <2>2, NoMoreNewlines
    <3>2. NewlinesIn(start)' = NewlinesIn(read)
      BY <2>1 DEF NewlinesIn
    <3>3. Cardinality(NewlinesIn(start)) \in Nat
      BY <1>0, NewlinesFinite
    <3> QED
      BY <2>1, <2>3, <3>1, <3>2, <3>3 DEF LinesMatch
  <2> QED
    BY <1>0, <2>1, <2>4 DEF WordTypeOK, Progress, PrintedIsWhole, Printed
<1>8. CASE Return
  BY <1>0, <1>8 DEF Return, Fail, args, counts, WordTypeOK, Progress, TailDone, LinesMatch,
     NewlinesIn, PrintedIsWhole, Printed
<1>9. CASE UNCHANGED wordVars
  BY <1>9 DEF wordVars, args, counts, WordTypeOK, Progress, TailDone, LinesMatch, NewlinesIn,
     PrintedIsWhole, Printed
<1> QED
  BY <1>1, <1>2, <1>3, <1>4, <1>5, <1>6, <1>7, <1>8, <1>9 DEF WordNext

LEMMA WordInvariant == WordSpec => []WordInv
BY InitWord, StepWord, PTL DEF WordSpec

(***************************************************************************)
(* No position runs past what has been read, nor reading past the input.   *)
(***************************************************************************)
THEOREM WordTypeCorrect == WordSpec => []WordTypeOK
BY WordInvariant, PTL DEF WordInv

(***************************************************************************)
(* wc-go counts every line of every input once, in all five processors.    *)
(***************************************************************************)
THEOREM LinesCounted == WordSpec => []LinesMatch
BY WordInvariant, PTL DEF WordInv

(***************************************************************************)
(* Whatever fails while reading, no partial count is printed.              *)
(***************************************************************************)
THEOREM NoPartialCounts == WordSpec => []PrintedIsWhole
BY WordInvariant, PTL DEF WordInv


\* The characters of a line from position k on, and those of them that start a
\* word; inWord tells of the character before k.
RunesOf(line, k) ==
  {i \in k .. Len(line) : i > k => ~(line[i] = "cont" /\ line[i - 1] = "lead")}
WordStarts(line, k, inWord) ==
  {i \in RunesOf(line, k) : /\ line[i] \notin Space
                            /\ IF i = k THEN ~inWord ELSE line[i - 1] \in Space}

(***************************************************************************)
(* What is counted in a line is finite.                                    *)
(***************************************************************************)
LEMMA RunesFinite ==
  ASSUME NEW line \in Seq(Byte), NEW k \in Nat, NEW b \in BOOLEAN
  PROVE  /\ IsFiniteSet(RunesOf(line, k)) /\ Cardinality(RunesOf(line, k)) \in Nat
         /\ IsFiniteSet(WordStarts(line, k, b)) /\ Cardinality(WordStarts(line, k, b)) \in Nat
<1>1. IsFiniteSet(k .. Len(line))
  BY FS_Interval
<1>2. /\ RunesOf(line, k) \subseteq k .. Len(line)
      /\ WordStarts(line, k, b) \subseteq k .. Len(line)
  BY DEF RunesOf, WordStarts
<1> QED
  BY <1>1, <1>2, FS_Subset, FS_CardinalityType

(***************************************************************************)
(* The loops of the two processors at position k: the next position is     *)
(* behind the character at k, and what starts from k on is that character, *)
(* or the word that starts with it, and what starts from there.            *)
(***************************************************************************)
LEMMA NextRune ==
  ASSUME NEW line \in Seq(Byte), NEW k \in 1 .. Len(line), NEW b \in BOOLEAN
  PROVE  LET d == k + DecodeRune(line, k)
             c == line[k] \notin Space /\ ~b IN
         /\ d \in k + 1 .. Len(line) + 1
         /\ RunesOf(line, k) = RunesOf(line, d) \cup {k}
         /\ k \notin RunesOf(line, d)
         /\ WordStarts(line, k, b) = WordStarts(line, d, line[k] \notin Space) \cup (IF c THEN {k} ELSE {})
         /\ k \notin WordStarts(line, d, line[k] \notin Space)
<1> DEFINE d == k + DecodeRune(line, k)
<1>1. /\ k \in Nat /\ Len(line) \in Nat /\ k >= 1 /\ k <= Len(line)
      /\ DecodeRune(line, k) \in {1, 2} /\ d \in Nat
  BY DEF DecodeRune
<1>2. CASE DecodeRune(line, k) = 2
  <2>1. /\ d = k + 2 /\ line[k] = "lead" /\ line[k + 1] = "cont" /\ k + 1 <= Len(line)
    BY <1>1, <1>2 DEF DecodeRune
  <2>2. line[k] \notin Space /\ line[k + 1] \notin Space /\ line[k + 1] # "lead"
    BY <2>1 DEF Space, CR, LF
  <2>3. RunesOf(line, k) = RunesOf(line, d) \cup {k} /\ k \notin RunesOf(line, d)
    BY <1>1, <2>1, <2>2 DEF RunesOf
  <2>4. \A i \in RunesOf(line, d) : i # k /\ (i = d => line[i - 1] \notin Space)
    BY <1>1, <2>1, <2>2 DEF RunesOf
  <2> HIDE DEF d
  <2>5. WordStarts(line, k, b) = WordStarts(line, d, TRUE) \cup (IF ~b THEN {k} ELSE {})
    BY <2>2, <2>3, <2>4 DEF WordStarts
  <2> QED
    BY <1>1, <2>1, <2>2, <2>3, <2>5 DEF d, WordStarts
<1>3. CASE DecodeRune(line, k) = 1
  <2>1. d = k + 1 /\ (k + 1 <= Len(line) => ~(line[k] = "lead" /\ line[k + 1] = "cont"))
    BY <1>1, <1>3 DEF DecodeRune
  <2>3. RunesOf(line, k) = RunesOf(line, d) \cup {k} /\ k \notin RunesOf(line, d)
    BY <1>1, <2>1 DEF RunesOf
  <2>4. \A i \in RunesOf(line, d) : i # k /\ (i = d => line[i - 1] = line[k])
    BY <1>1, <2>1 DEF RunesOf
  <2> HIDE DEF d
  <2>5. WordStarts(line, k, b)
          = WordStarts(line, d, line[k] \notin Space) \cup (IF line[k] \notin Space /\ ~b THEN {k} ELSE {})
    BY <2>3, <2>4 DEF WordStarts
  <2> QED
    BY <1>1, <2>1, <2>3, <2>5 DEF d, WordStarts
<1> QED
  BY <1>1, <1>2, <1>3

(***************************************************************************)
(* At the end of the line nothing is left to count.                        *)
(***************************************************************************)
LEMMA NoRunesLeft ==
  ASSUME NEW line \in Seq(Byte), NEW b \in BOOLEAN
  PROVE  Cardinality(RunesOf(line, Len(line) + 1)) = 0
         /\ Cardinality(WordStarts(line, Len(line) + 1, b)) = 0
<1>1. Len(line) \in Nat
  OBVIOUS
<1>2. RunesOf(line, Len(line) + 1) = {}
  BY <1>1 DEF RunesOf
<1>3. WordStarts(line, Len(line) + 1, b) = {}
  BY <1>2 DEF WordStarts
<1> QED
  BY <1>2, <1>3, FS_EmptySet

(***************************************************************************)
(* The same in numbers: what the body of each loop adds.                   *)
(***************************************************************************)
LEMMA CountRunes ==
  ASSUME NEW line \in Seq(Byte), NEW k \in 1 .. Len(line), NEW b \in BOOLEAN
  PROVE  LET d == k + DecodeRune(line, k) IN
         /\ d \in k + 1 .. Len(line) + 1
         /\ Cardinality(RunesOf(line, k)) = Cardinality(RunesOf(line, d)) + 1
         /\ Cardinality(WordStarts(line, k, b))
              = Cardinality(WordStarts(line, d, line[k] \notin Space))
                  + (IF line[k] \notin Space /\ ~b THEN 1 ELSE 0)
<1> DEFINE d == k + DecodeRune(line, k)
           isWord == line[k] \notin Space
<1>1. /\ d \in k + 1 .. Len(line) + 1
      /\ RunesOf(line, k) = RunesOf(line, d) \cup {k}
      /\ k \notin RunesOf(line, d)
      /\ WordStarts(line, k, b)
           = WordStarts(line, d, isWord) \cup (IF isWord /\ ~b THEN {k} ELSE {})
      /\ k \notin WordStarts(line, d, isWord)
  BY NextRune
<1>2. Len(line) \in Nat /\ d \in Nat /\ isWord \in BOOLEAN
  BY <1>1
<1> HIDE DEF d, isWord
<1>3. /\ IsFiniteSet(RunesOf(line, d)) /\ Cardinality(RunesOf(line, d)) \in Nat
      /\ IsFiniteSet(WordStarts(line, d, isWord))
      /\ Cardinality(WordStarts(line, d, isWord)) \in Nat
  BY <1>2, RunesFinite
<1>4. Cardinality(RunesOf(line, k)) = Cardinality(RunesOf(line, d)) + 1
  BY <1>1, <1>3, FS_AddElement
<1>5. CASE isWord /\ ~b
  <2>1. WordStarts(line, k, b) = WordStarts(line, d, isWord) \cup {k}
    BY <1>1, <1>5
  <2>2. /\ IsFiniteSet(WordStarts(line, d, isWord))
        /\ k \notin WordStarts(line, d, isWord)
    BY <1>1, <1>3
  <2>3. Cardinality(WordStarts(line, k, b)) = Cardinality(WordStarts(line, d, isWord)) + 1
    BY <2>1, <2>2, FS_AddElement
  <2> QED
    BY <1>1, <1>4, <1>5, <2>3 DEF d, isWord
<1>6. CASE ~(isWord /\ ~b)
  <2>1. WordStarts(line, k, b) = WordStarts(line, d, isWord)
    BY <1>1, <1>6
  <2>2. Cardinality(WordStarts(line, k, b)) = Cardinality(WordStarts(line, d, isWord)) + 0
    BY <1>3, <2>1
  <2> QED
    BY <1>1, <1>4, <1>6, <2>2 DEF d, isWord
<1> QED
  BY <1>5, <1>6

(***************************************************************************)
(* The loop over the characters counts them. Were it wrong at some         *)
(* position, take the last one: from the position behind its character the *)
(* loop is right, so it is right there, too.                               *)
(***************************************************************************)
LEMMA CharsOfLine ==
  ASSUME NEW line \in Seq(Byte)
  PROVE  CharsOf(line) = Cardinality(RunesOf(line, 1))
<1> DEFINE K == 1 .. Len(line) + 1
           N(k) == Cardinality(RunesOf(line, k))
           Body(f, k) == IF k > Len(line) THEN 0 ELSE f[k + DecodeRune(line, k)] + 1
           loop == CHOOSE f : f = [k \in K |-> Body(f, k)]
           g == [k \in K |-> N(k)]
<1>0. Len(line) \in Nat
  OBVIOUS
<1>1. ASSUME NEW k \in K, k > Len(line) PROVE N(k) = 0
  <2>1. k = Len(line) + 1
    BY <1>0, <1>1
  <2> QED
    BY <2>1, NoRunesLeft
<1>2. ASSUME NEW k \in K, ~(k > Len(line))
      PROVE  /\ k + DecodeRune(line, k) \in k + 1 .. Len(line) + 1
             /\ k + DecodeRune(line, k) \in K
             /\ N(k) = N(k + DecodeRune(line, k)) + 1
  <2>1. k \in 1 .. Len(line)
    BY <1>0, <1>2
  <2>2. k + DecodeRune(line, k) \in k + 1 .. Len(line) + 1
    BY <2>1, CountRunes
  <2>3. N(k) = N(k + DecodeRune(line, k)) + 1
    BY <2>1, CountRunes
  <2>4. k + DecodeRune(line, k) \in K
    BY <1>0, <2>1, <2>2
  <2> QED
    BY <2>2, <2>3, <2>4
<1> HIDE DEF N
<1>3. g = [k \in K |-> Body(g, k)]
  <2>1. ASSUME NEW k \in K PROVE N(k) = Body(g, k)
    BY <1>1, <1>2
  <2> QED
    BY <2>1
<1> HIDE DEF g
<1>4. loop = [k \in K |-> Body(loop, k)]
  BY <1>3
<1>5. CharsOf(line) = loop[1]
  BY DEF CharsOf
<1> HIDE DEF loop
<1>6. ASSUME NEW x \in K, loop[x] # N(x) PROVE FALSE
  <2> DEFINE Bad == {m \in Nat : \E k \in K : m = Len(line) + 1 - k /\ loop[k] # N(k)}
  <2>1. Len(line) + 1 - x \in Bad
    BY <1>0, <1>6
  <2>2. PICK m \in Bad : \A j \in Bad : m <= j
    BY <2>1, Least
  <2>3. PICK k \in K : m = Len(line) + 1 - k /\ loop[k] # N(k)
    BY <2>2
  <2>4. ~(k > Len(line))
    BY <1>1, <1>4, <2>3
  <2> DEFINE d == k + DecodeRune(line, k)
  <2>5. d \in k + 1 .. Len(line) + 1 /\ d \in K /\ N(k) = N(d) + 1
    BY <1>2, <2>4
  <2>6. loop[k] = loop[d] + 1
    BY <1>4, <2>4
  <2> HIDE DEF d
  <2>7. Len(line) + 1 - d \in Nat /\ Len(line) + 1 - d < m
    BY <1>0, <2>3, <2>5
  <2>8. Len(line) + 1 - d \notin Bad
    BY <2>2, <2>7
  <2>9. loop[d] = N(d)
    BY <2>5, <2>7, <2>8
  <2> QED
    BY <2>3, <2>5, <2>6, <2>9
<1> QED
  BY <1>0, <1>5, <1>6 DEF N

(***************************************************************************)
(* The loop over the words counts the places where one starts.             *)
(***************************************************************************)
LEMMA WordsOfLine ==
  ASSUME NEW line \in Seq(Byte)
  PROVE  WordsOf(line) = Cardinality(WordStarts(line, 1, FALSE))
<1> DEFINE K == 1 .. Len(line) + 1
           N(k, b) == Cardinality(WordStarts(line, k, b))
           Body(f, k, b) ==
             IF k > Len(line) THEN 0
             ELSE LET isSpace == line[k] \in Space IN
                  f[k + DecodeRune(line, k)][~isSpace] + (IF ~isSpace /\ ~b THEN 1 ELSE 0)
           loop == CHOOSE f : f = [k \in K |-> [b \in BOOLEAN |-> Body(f, k, b)]]
           g == [k \in K |-> [b \in BOOLEAN |-> N(k, b)]]
<1>0. Len(line) \in Nat
  OBVIOUS
<1>1. ASSUME NEW k \in K, NEW b \in BOOLEAN, k > Len(line) PROVE N(k, b) = 0
  <2>1. k = Len(line) + 1
    BY <1>0, <1>1
  <2> QED
    BY <2>1, NoRunesLeft
<1>2. ASSUME NEW k \in K, NEW b \in BOOLEAN, ~(k > Len(line))
      PROVE  /\ k + DecodeRune(line, k) \in k + 1 .. Len(line) + 1
             /\ k + DecodeRune(line, k) \in K
             /\ N(k, b) = N(k + DecodeRune(line, k), line[k] \notin Space)
                            + (IF line[k] \notin Space /\ ~b THEN 1 ELSE 0)
  <2>1. k \in 1 .. Len(line)
    BY <1>0, <1>2
  <2>2. k + DecodeRune(line, k) \in k + 1 .. Len(line) + 1
    BY <2>1, CountRunes
  <2>3. N(k, b) = N(k + DecodeRune(line, k), line[k] \notin Space)
                    + (IF line[k] \notin Space /\ ~b THEN 1 ELSE 0)
    BY <2>1, CountRunes
  <2>4. k + DecodeRune(line, k) \in K
    BY <1>0, <2>1, <2>2
  <2> QED
    BY <2>2, <2>3, <2>4
<1> HIDE DEF N
<1>3. g = [k \in K |-> [b \in BOOLEAN |-> Body(g, k, b)]]
  <2>1. ASSUME NEW k \in K, NEW b \in BOOLEAN PROVE N(k, b) = Body(g, k, b)
    BY <1>1, <1>2
  <2> QED
    BY <2>1
<1> HIDE DEF g
<1>4. loop = [k \in K |-> [b \in BOOLEAN |-> Body(loop, k, b)]]
  BY <1>3
<1>5. WordsOf(line) = loop[1][FALSE]
  BY DEF WordsOf
<1> HIDE DEF loop
<1>6. ASSUME NEW x \in K, NEW a \in BOOLEAN, loop[x][a] # N(x, a) PROVE FALSE
  <2> DEFINE Bad == {m \in Nat : \E k \in K, b \in BOOLEAN :
                                   m = Len(line) + 1 - k /\ loop[k][b] # N(k, b)}
  <2>1. Len(line) + 1 - x \in Bad
    BY <1>0, <1>6
  <2>2. PICK m \in Bad : \A j \in Bad : m <= j
    BY <2>1, Least
  <2>3. PICK k \in K, b \in BOOLEAN : m = Len(line) + 1 - k /\ loop[k][b] # N(k, b)
    BY <2>2
  <2>4. ~(k > Len(line))
    BY <1>1, <1>4, <2>3
  <2> DEFINE d == k + DecodeRune(line, k)
             w == line[k] \notin Space
             c == IF line[k] \notin Space /\ ~b THEN 1 ELSE 0
  <2>5. d \in k + 1 .. Len(line) + 1 /\ d \in K /\ N(k, b) = N(d, w) + c
    BY <1>2, <2>4
  <2>6. w \in BOOLEAN /\ loop[k][b] = loop[d][w] + c
    <3>1. loop[k] = [v \in BOOLEAN |-> Body(loop, k, v)]
      BY <1>4, <2>3
    <3>2. loop[k][b] = Body(loop, k, b)
      BY <3>1, <2>3
    <3> QED
      BY <2>4, <3>2
  <2> HIDE DEF d, w, c
  <2>7. Len(line) + 1 - d \in Nat /\ Len(line) + 1 - d < m
    BY <1>0, <2>3, <2>5
  <2>8. Len(line) + 1 - d \notin Bad
    BY <2>2, <2>7
  <2>9. loop[d][w] = N(d, w)
    BY <2>5, <2>6, <2>7, <2>8
  <2> QED
    BY <2>3, <2>5, <2>6, <2>9
<1>7. 1 \in K /\ FALSE \in BOOLEAN
  BY <1>0
<1>8. loop[1][FALSE] = N(1, FALSE)
  BY <1>6, <1>7
<1> QED
  BY <1>5, <1>8 DEF N

(***************************************************************************)
(* A set of numbers, moved, keeps its size.                                *)
(***************************************************************************)
LEMMA ShiftedCard ==
  ASSUME NEW S, S \subseteq Int, IsFiniteSet(S), NEW s \in Int
  PROVE  Cardinality({i + s : i \in S}) = Cardinality(S)
<1> DEFINE T == {i + s : i \in S}
           f == [i \in S |-> i + s]
<1>1. \A i, j \in S : i + s = j + s => i = j
  OBVIOUS
<1>2. f \in Injection(S, T)
  <2>1. f \in [S -> T] /\ \A i, j \in S : f[i] = f[j] => i = j
    BY <1>1
  <2> HIDE DEF f, T
  <2> QED
    BY <2>1 DEF Injection, IsInjective
<1>3. f \in Surjection(S, T)
  BY DEF Surjection
<1>4. ExistsBijection(S, T)
  BY <1>2, <1>3 DEF ExistsBijection, Bijection
<1> QED
  BY <1>4, FS_Bijection

\* Runes and words that start in the line behind the first s bytes, up to m.
LineRunes(s, m) ==
  {i \in s + 1 .. m : i > s + 1 => ~(text[i] = "cont" /\ text[i - 1] = "lead")}
LineWords(s, m) ==
  {i \in LineRunes(s, m) : /\ text[i] \notin Space
                           /\ i > s + 1 => text[i - 1] \in Space}

(***************************************************************************)
(* What the processors count in a line are the characters and the words of *)
(* the input that start in it.                                             *)
(***************************************************************************)
LEMMA LineCounts ==
  ASSUME text \in Seq(Byte), NEW s \in Nat, NEW m \in Nat, s <= m, m <= Len(text)
  PROVE  LET line == SubSeq(text, s + 1, m) IN
         /\ line \in Seq(Byte)
         /\ WordsOf(line) = Cardinality(LineWords(s, m))
         /\ CharsOf(line) = Cardinality(LineRunes(s, m))
<1> DEFINE line == SubSeq(text, s + 1, m)
<1>0. Len(text) \in Nat
  OBVIOUS
<1>1. line \in Seq(Byte) /\ Len(line) = m - s
  BY <1>0
<1>2. \A k \in 1 .. m - s : line[k] = text[k + s]
  BY <1>0
<1> HIDE DEF line
<1>3. LineRunes(s, m) = {i + s : i \in RunesOf(line, 1)}
  <2>1. ASSUME NEW i \in RunesOf(line, 1) PROVE i + s \in LineRunes(s, m)
    BY <1>1, <1>2, <2>1 DEF RunesOf, LineRunes
  <2>2. ASSUME NEW j \in LineRunes(s, m) PROVE j - s \in RunesOf(line, 1) /\ j = (j - s) + s
    BY <1>1, <1>2, <2>2 DEF RunesOf, LineRunes
  <2> QED
    BY <2>1, <2>2
<1>4. LineWords(s, m) = {i + s : i \in WordStarts(line, 1, FALSE)}
  <2>1. ASSUME NEW i \in WordStarts(line, 1, FALSE) PROVE i + s \in LineWords(s, m)
    <3>1. i \in RunesOf(line, 1) /\ i + s \in LineRunes(s, m)
      BY <1>3, <2>1 DEF WordStarts
    <3> QED
      BY <1>1, <1>2, <2>1, <3>1 DEF WordStarts, RunesOf, LineWords
  <2>2. ASSUME NEW j \in LineWords(s, m)
        PROVE  j - s \in WordStarts(line, 1, FALSE) /\ j = (j - s) + s
    <3>1. j \in LineRunes(s, m) /\ j \in Int /\ j - s \in RunesOf(line, 1)
      BY <1>1, <1>3, <2>2 DEF LineWords, RunesOf
    <3> QED
      BY <1>1, <1>2, <2>2, <3>1 DEF WordStarts, RunesOf, LineWords
  <2> QED
    BY <2>1, <2>2
<1>5. /\ RunesOf(line, 1) \subseteq Int /\ IsFiniteSet(RunesOf(line, 1))
      /\ WordStarts(line, 1, FALSE) \subseteq Int /\ IsFiniteSet(WordStarts(line, 1, FALSE))
  <2>1. RunesOf(line, 1) \subseteq Int /\ WordStarts(line, 1, FALSE) \subseteq Int
    BY <1>1 DEF RunesOf, WordStarts
  <2> QED
    BY <1>1, <2>1, RunesFinite
<1>6. Cardinality(LineRunes(s, m)) = Cardinality(RunesOf(line, 1))
  <2>1. s \in Int
    OBVIOUS
  <2> QED
    BY <1>3, <1>5, <2>1, ShiftedCard
<1>7. Cardinality(LineWords(s, m)) = Cardinality(WordStarts(line, 1, FALSE))
  <2>1. s \in Int
    OBVIOUS
  <2> QED
    BY <1>4, <1>5, <2>1, ShiftedCard
<1> QED
  BY <1>1, <1>6, <1>7, CharsOfLine, WordsOfLine DEF line

(***************************************************************************)
(* What starts in a part of the input is finite.                           *)
(***************************************************************************)
LEMMA PartsFinite ==
  ASSUME NEW k \in Nat, NEW s \in Nat
  PROVE  /\ IsFiniteSet(RunesIn(k)) /\ Cardinality(RunesIn(k)) \in Nat
         /\ IsFiniteSet(WordsIn(k)) /\ Cardinality(WordsIn(k)) \in Nat
         /\ IsFiniteSet(CRsIn(k)) /\ Cardinality(CRsIn(k)) \in Nat
         /\ IsFiniteSet(LineRunes(s, k)) /\ Cardinality(LineRunes(s, k)) \in Nat
         /\ IsFiniteSet(LineWords(s, k)) /\ Cardinality(LineWords(s, k)) \in Nat
<1>1. IsFiniteSet(1 .. k)
  BY FS_Interval
<1>2. /\ RunesIn(k) \subseteq 1 .. k /\ WordsIn(k) \subseteq 1 .. k /\ CRsIn(k) \subseteq 1 .. k
      /\ LineRunes(s, k) \subseteq 1 .. k /\ LineWords(s, k) \subseteq 1 .. k
  BY DEF RunesIn, WordsIn, CRsIn, LineRunes, LineWords
<1> QED
  BY <1>1, <1>2, FS_Subset, FS_CardinalityType

(***************************************************************************)
(* The sizes of disjoint sets add up.                                      *)
(***************************************************************************)
LEMMA DisjointCard ==
  ASSUME NEW S, NEW T, IsFiniteSet(S), IsFiniteSet(T), \A x \in S : x \notin T
  PROVE  IsFiniteSet(S \cup T) /\ Cardinality(S \cup T) = Cardinality(S) + Cardinality(T)
<1>1. S \cap T = {}
  OBVIOUS
<1>2. Cardinality(S \cap T) = 0
  BY <1>1, FS_EmptySet
<1>3. Cardinality(S) \in Nat /\ Cardinality(T) \in Nat
  BY FS_CardinalityType
<1>4. /\ IsFiniteSet(S \cup T)
      /\ Cardinality(S \cup T) = Cardinality(S) + Cardinality(T) - Cardinality(S \cap T)
  BY FS_Union
<1> QED
  BY <1>2, <1>3, <1>4

(***************************************************************************)
(* After the start of the input or a newline, one line and its end add to  *)
(* the characters and the words of the input those of the line, and the    *)
(* bytes of its end.                                                       *)
(***************************************************************************)
LEMMA LineAdded ==
  ASSUME NEW s \in Nat, NEW m \in Nat, NEW e \in Nat, s <= m, m <= e,
         s = 0 \/ text[s] = LF,
         \A j \in m + 1 .. e : text[j] \in {CR, LF}
  PROVE  /\ Cardinality(RunesIn(e))
              = Cardinality(RunesIn(s)) + Cardinality(LineRunes(s, m)) + (e - m)
         /\ Cardinality(WordsIn(e)) = Cardinality(WordsIn(s)) + Cardinality(LineWords(s, m))
<1>1. /\ IsFiniteSet(RunesIn(s)) /\ Cardinality(RunesIn(s)) \in Nat
      /\ IsFiniteSet(WordsIn(s)) /\ Cardinality(WordsIn(s)) \in Nat
      /\ IsFiniteSet(LineRunes(s, m)) /\ Cardinality(LineRunes(s, m)) \in Nat
      /\ IsFiniteSet(LineWords(s, m)) /\ Cardinality(LineWords(s, m)) \in Nat
  BY PartsFinite
<1>2. IsFiniteSet(m + 1 .. e) /\ Cardinality(m + 1 .. e) = e - m
  <2>1. /\ IsFiniteSet(m + 1 .. e)
        /\ Cardinality(m + 1 .. e) = IF m + 1 > e THEN 0 ELSE e - (m + 1) + 1
    BY FS_Interval
  <2> QED
    BY <2>1
<1>3. \A j \in m + 1 .. e : text[j] # "cont" /\ text[j] \in Space
  BY DEF Space, CR, LF
<1>4. s > 0 => text[s] # "lead" /\ text[s] \in Space
  <2>1. LF # "lead" /\ LF \in Space
    BY DEF Space, CR, LF
  <2> QED
    BY <2>1
<1>5. RunesIn(e) = (RunesIn(s) \cup LineRunes(s, m)) \cup (m + 1 .. e)
  BY <1>3, <1>4 DEF RunesIn, LineRunes
<1>6. WordsIn(e) = WordsIn(s) \cup LineWords(s, m)
  <2>1. \A i \in RunesIn(s) : i \in 1 .. s
    BY DEF RunesIn
  <2>2. \A i \in LineRunes(s, m) : i \in s + 1 .. m
    BY DEF LineRunes
  <2>3. \A i \in LineRunes(s, m) : (i > s + 1 => text[i - 1] \in Space)
                                     <=> (i > 1 => text[i - 1] \in Space)
    <3> TAKE i \in LineRunes(s, m)
    <3>1. CASE i = s + 1
      BY <1>4, <2>2, <3>1
    <3>2. CASE i # s + 1
      BY <2>2, <3>2
    <3> QED
      BY <3>1, <3>2
  <2> QED
    BY <1>3, <1>5, <2>1, <2>2, <2>3 DEF WordsIn, LineWords
<1>7. /\ \A i \in RunesIn(s) : i \notin LineRunes(s, m)
      /\ \A i \in RunesIn(s) \cup LineRunes(s, m) : i \notin m + 1 .. e
      /\ \A i \in WordsIn(s) : i \notin LineWords(s, m)
  BY DEF RunesIn, LineRunes, WordsIn, LineWords
<1>8. /\ IsFiniteSet(RunesIn(s) \cup LineRunes(s, m))
      /\ Cardinality(RunesIn(s) \cup LineRunes(s, m))
           = Cardinality(RunesIn(s)) + Cardinality(LineRunes(s, m))
  BY <1>1, <1>7, DisjointCard
<1>9. Cardinality(RunesIn(e))
        = Cardinality(RunesIn(s) \cup LineRunes(s, m)) + Cardinality(m + 1 .. e)
  BY <1>2, <1>5, <1>7, <1>8, DisjointCard
<1>10. Cardinality(WordsIn(e)) = Cardinality(WordsIn(s)) + Cardinality(LineWords(s, m))
  BY <1>1, <1>6, <1>7, DisjointCard
<1> QED
  BY <1>2, <1>8, <1>9, <1>10

(***************************************************************************)
(* The line that DropCR leaves is one of the input, too: it ends before    *)
(* the carriage return, if there is one.                                   *)
(***************************************************************************)
LEMMA DropCROfLine ==
  ASSUME text \in Seq(Byte), NEW s \in Nat, NEW m \in Nat, s <= m, m <= Len(text)
  PROVE  DropCR(SubSeq(text, s + 1, m))
           = SubSeq(text, s + 1, IF s < m /\ text[m] = CR THEN m - 1 ELSE m)
<1> DEFINE line == SubSeq(text, s + 1, m)
<1>0. Len(text) \in Nat
  OBVIOUS
<1>1. line \in Seq(Byte) /\ Len(line) = m - s /\ \A k \in 1 .. m - s : line[k] = text[k + s]
  BY <1>0
<1>2. ASSUME s < m
      PROVE  line # <<>> /\ line[Len(line)] = text[m]
  <2>1. m - s \in 1 .. m - s /\ (m - s) + s = m
    BY <1>2
  <2> HIDE DEF line
  <2>2. Len(line) # 0
    BY <1>1, <2>1
  <2> QED
    BY <1>1, <2>1, <2>2
<1>3. ~(s < m) => line = <<>>
  BY <1>0
<1>4. ASSUME s < m
      PROVE  SubSeq(line, 1, Len(line) - 1) = SubSeq(text, s + 1, m - 1)
  <2> DEFINE a == SubSeq(line, 1, Len(line) - 1)
             b == SubSeq(text, s + 1, m - 1)
  <2> HIDE DEF line
  <2>1. a \in Seq(Byte) /\ Len(a) = m - s - 1 /\ \A k \in 1 .. m - s - 1 : a[k] = line[k]
    BY <1>1, <1>4
  <2>2. b \in Seq(Byte) /\ Len(b) = m - s - 1 /\ \A k \in 1 .. m - s - 1 : b[k] = text[k + s]
    BY <1>0, <1>4
  <2> HIDE DEF a, b
  <2>3. \A k \in 1 .. m - s - 1 : a[k] = b[k]
    BY <1>1, <2>1, <2>2
  <2>4. a = b
    BY <2>1, <2>2, <2>3
  <2> QED
    BY <2>4 DEF a, b
<1> HIDE DEF line
<1>5. DropCR(line) = SubSeq(text, s + 1, IF s < m /\ text[m] = CR THEN m - 1 ELSE m)
  <2>1. CASE s < m /\ text[m] = CR
    BY <1>2, <1>4, <2>1 DEF DropCR
  <2>2. CASE ~(s < m /\ text[m] = CR)
    BY <1>2, <1>3, <2>2 DEF DropCR, line
  <2> QED
    BY <2>1, <2>2
<1> QED
  BY <1>5 DEF line

(***************************************************************************)
(* Processing the line behind the first s bytes, up to m, and its end, the *)
(* bytes m + 1 .. e, adds the words that start in it and its characters.   *)
(***************************************************************************)
LEMMA Processed ==
  ASSUME text \in Seq(Byte), NEW s \in Nat, NEW m \in Nat, NEW e \in Nat,
         s <= m, m <= e, e <= Len(text),
         s = 0 \/ text[s] = LF,
         \A j \in m + 1 .. e : text[j] \in {CR, LF},
         words = Cardinality(WordsIn(s)),
         Process(SubSeq(text, s + 1, m))
  PROVE  /\ words' = Cardinality(WordsIn(e))
         /\ chars' = chars + (Cardinality(RunesIn(e)) - Cardinality(RunesIn(s)) - (e - m))
<1> DEFINE line == SubSeq(text, s + 1, m)
<1>1. /\ words' = words + WordsOf(line)
      /\ chars' = chars + CharsOf(line)
  BY DEF Process
<1>2. /\ WordsOf(line) = Cardinality(LineWords(s, m))
      /\ CharsOf(line) = Cardinality(LineRunes(s, m))
  <2>1. m <= Len(text)
    BY TextIsSeq
  <2> QED
    BY <2>1, LineCounts
<1>3. /\ Cardinality(RunesIn(e))
           = Cardinality(RunesIn(s)) + Cardinality(LineRunes(s, m)) + (e - m)
      /\ Cardinality(WordsIn(e)) = Cardinality(WordsIn(s)) + Cardinality(LineWords(s, m))
  BY LineAdded
<1>4. Cardinality(RunesIn(s)) \in Nat /\ Cardinality(LineRunes(s, m)) \in Nat
  BY PartsFinite
<1> HIDE DEF line
<1> QED
  BY <1>1, <1>2, <1>3, <1>4

(***************************************************************************)
(* The carriage returns that end a line, after one line more.              *)
(***************************************************************************)
LEMMA CRsAdded ==
  ASSUME NEW s \in Nat, NEW i \in Nat, s < i, text[i] = LF,
         \A j \in s + 1 .. i - 1 : text[j] # LF,
         s = 0 \/ text[s] = LF
  PROVE  Cardinality(CRsIn(i))
           = Cardinality(CRsIn(s)) + (IF s < i - 1 /\ text[i - 1] = CR THEN 1 ELSE 0)
<1>0. IsFiniteSet(CRsIn(s)) /\ Cardinality(CRsIn(s)) \in Nat
  BY PartsFinite
<1>1. LF # CR
  BY DEF LF, CR
<1>2. CASE s < i - 1 /\ text[i - 1] = CR
  <2>1. CRsIn(i) = CRsIn(s) \cup {i - 1} /\ i - 1 \notin CRsIn(s)
    BY <1>1, <1>2 DEF CRsIn
  <2> QED
    BY <1>0, <1>2, <2>1, FS_AddElement
<1>3. CASE ~(s < i - 1 /\ text[i - 1] = CR)
  <2>1. CRsIn(i) = CRsIn(s)
    BY <1>1, <1>3 DEF CRsIn
  <2> QED
    BY <1>0, <1>3, <2>1
<1> QED
  BY <1>2, <1>3

(***************************************************************************)
(* A stretch without newlines adds none.                                   *)
(***************************************************************************)
LEMMA NoCRsAdded ==
  ASSUME NEW s \in Nat, NEW r \in Nat, s <= r,
         \A j \in s + 1 .. r : text[j] # LF,
         s = 0 \/ text[s] = LF
  PROVE  CRsIn(r) = CRsIn(s)
<1>1. LF # CR
  BY DEF LF, CR
<1> QED
  BY <1>1 DEF CRsIn

(***************************************************************************)
(* Nothing is counted, and nothing has been passed.                        *)
(***************************************************************************)
LEMMA InitWords == WordInit => WordsAndCharsMatch
<1> SUFFICES ASSUME WordInit PROVE WordsAndCharsMatch
  OBVIOUS
<1>1. start = 0 /\ words = 0 /\ chars = 0 /\ ~TailDone
  BY DEF WordInit, TailDone
<1>2. RunesIn(0) = {} /\ NewlinesIn(0) = {} /\ CRsIn(0) = {}
  BY DEF RunesIn, NewlinesIn, CRsIn
<1>3. WordsIn(0) = {}
  BY <1>2 DEF WordsIn
<1>4. Cardinality({}) = 0
  BY FS_EmptySet
<1> QED
  BY <1>1, <1>2, <1>3, <1>4 DEF WordsAndCharsMatch, TailCR

(***************************************************************************)
(* Only a line processed changes the counts, and it adds what its bytes    *)
(* add to what they should be.                                             *)
(***************************************************************************)
LEMMA StepWords ==
  ASSUME WordInv, WordsAndCharsMatch, [WordNext]_wordVars
  PROVE  WordsAndCharsMatch'
<1>0. /\ text \in Seq(Byte) /\ Len(text) \in Nat
      /\ read \in Nat /\ start \in Nat /\ start <= read /\ read <= Len(text)
  BY TextIsSeq DEF WordInv, WordTypeOK
<1>p. ~TailDone => start = 0 \/ text[start] = LF
  BY <1>0 DEF TailDone
<1>c. /\ Cardinality(RunesIn(start)) \in Nat /\ Cardinality(CRsIn(start)) \in Nat
      /\ Cardinality(NewlinesIn(start)) \in Nat
  BY <1>0, PartsFinite, NewlinesFinite
<1>1. CASE UNCHANGED <<text, kind, start, words, chars>>
  BY <1>1 DEF WordsAndCharsMatch, WordsIn, RunesIn, NewlinesIn, CRsIn, TailCR, TailDone
<1>2. CASE NextLine
  <2>1. PICK i \in Ends : (\A j \in Ends : i <= j) /\ start' = i
                           /\ Process(DropCR(SubSeq(text, start + 1, i - 1)))
    BY <1>2 DEF NextLine
  <2>2. /\ i \in Nat /\ start < i /\ i <= read /\ text[i] = LF
        /\ \A j \in start + 1 .. i - 1 : text[j] # LF
    BY <1>0, <2>1 DEF Ends
  <2>3. ~TailDone
    BY <1>0, <2>2 DEF WordInv, Progress
  <2>4. text' = text /\ kind' = kind
    BY <1>2 DEF NextLine, args
  <2>5. ~TailDone'
    BY <2>1, <2>2, <2>4 DEF TailDone
  <2> DEFINE cr == start < i - 1 /\ text[i - 1] = CR
             m == IF cr THEN i - 2 ELSE i - 1
  <2>6. /\ m \in Nat /\ start <= m /\ m <= i /\ i <= Len(text)
        /\ i - m = IF cr THEN 2 ELSE 1
        /\ \A j \in m + 1 .. i : text[j] \in {CR, LF}
    BY <1>0, <2>2
  <2>7. Process(SubSeq(text, start + 1, m))
    <3>1. i - 1 \in Nat /\ start <= i - 1 /\ i - 1 <= Len(text)
      BY <1>0, <2>2
    <3>2. DropCR(SubSeq(text, start + 1, i - 1))
            = SubSeq(text, start + 1, IF cr THEN (i - 1) - 1 ELSE i - 1)
      BY <1>0, <3>1, DropCROfLine
    <3>3. (i - 1) - 1 = i - 2
      BY <2>2
    <3> QED
      BY <2>1, <3>2, <3>3
  <2> HIDE DEF m
  <2>8. words = Cardinality(WordsIn(start))
    BY DEF WordsAndCharsMatch
  <2>9. /\ words' = Cardinality(WordsIn(i))
        /\ chars' = chars + (Cardinality(RunesIn(i)) - Cardinality(RunesIn(start)) - (i - m))
    BY <1>0, <1>p, <2>2, <2>3, <2>6, <2>7, <2>8, Processed
  <2>10. Cardinality(CRsIn(i)) = Cardinality(CRsIn(start)) + (IF cr THEN 1 ELSE 0)
    BY <1>0, <1>p, <2>2, <2>3, CRsAdded
  <2>11. Cardinality(NewlinesIn(i)) = Cardinality(NewlinesIn(start)) + 1
    BY <1>0, <2>2, OneMoreNewline
  <2>12. /\ chars = Cardinality(RunesIn(start)) - Cardinality(NewlinesIn(start))
                     - Cardinality(CRsIn(start)) - 0
    BY <2>3 DEF WordsAndCharsMatch, TailCR
  <2>13. Cardinality(RunesIn(i)) \in Nat
    BY <2>2, PartsFinite
  <2> HIDE DEF cr
  <2>14. chars' = Cardinality(RunesIn(i)) - Cardinality(NewlinesIn(i)) - Cardinality(CRsIn(i)) - 0
    <3> DEFINE r == Cardinality(RunesIn(start))
               q == Cardinality(RunesIn(i))
               l == Cardinality(NewlinesIn(start))
               c == Cardinality(CRsIn(start))
    <3>1. /\ r \in Nat /\ q \in Nat /\ l \in Nat /\ c \in Nat
          /\ chars = r - l - c - 0 /\ chars' = chars + (q - r - (i - m))
          /\ i - m = IF cr THEN 2 ELSE 1
          /\ Cardinality(NewlinesIn(i)) = l + 1
          /\ Cardinality(CRsIn(i)) = c + (IF cr THEN 1 ELSE 0)
      BY <1>c, <2>6, <2>9, <2>10, <2>11, <2>12, <2>13
    <3> HIDE DEF r, q, l, c
    <3>2. chars' = q - (l + 1) - (c + (IF cr THEN 1 ELSE 0)) - 0
      BY <3>1
    <3> QED
      BY <3>1, <3>2 DEF q
  <2>15. /\ WordsIn(start)' = WordsIn(i) /\ RunesIn(start)' = RunesIn(i)
         /\ NewlinesIn(start)' = NewlinesIn(i) /\ CRsIn(start)' = CRsIn(i)
    BY <2>1, <2>4 DEF WordsIn, RunesIn, NewlinesIn, CRsIn
  <2> QED
    BY <2>5, <2>9, <2>14, <2>15 DEF WordsAndCharsMatch, TailCR
<1>3. CASE LastLine
  <2>1. /\ Ends = {} /\ input # "more" /\ start < read /\ start' = read
        /\ Process(IF kind \in Scanned THEN DropCR(Rest) ELSE Rest)
        /\ text' = text /\ kind' = kind
    BY <1>3 DEF LastLine, args
  <2>2. \A j \in start + 1 .. read : text[j] # LF
    BY <2>1 DEF Ends
  <2>3. ~TailDone /\ TailDone'
    BY <1>0, <2>1, <2>2 DEF WordInv, Progress, TailDone
  <2> DEFINE cr == kind \in Scanned /\ text[read] = CR
             m == IF cr THEN read - 1 ELSE read
  <2>4. /\ m \in Nat /\ start <= m /\ m <= read
        /\ read - m = IF cr THEN 1 ELSE 0
        /\ \A j \in m + 1 .. read : text[j] \in {CR, LF}
    BY <1>0, <2>1
  <2>5. Process(SubSeq(text, start + 1, m))
    <3>1. DropCR(Rest) = SubSeq(text, start + 1, IF text[read] = CR THEN read - 1 ELSE read)
      BY <1>0, <2>1, DropCROfLine DEF Rest
    <3> QED
      BY <2>1, <3>1 DEF Rest
  <2> HIDE DEF m
  <2>6. words = Cardinality(WordsIn(start))
    BY DEF WordsAndCharsMatch
  <2>7. /\ words' = Cardinality(WordsIn(read))
        /\ chars' = chars + (Cardinality(RunesIn(read)) - Cardinality(RunesIn(start)) - (read - m))
    BY <1>0, <1>p, <2>3, <2>4, <2>5, <2>6, Processed
  <2>8. CRsIn(read) = CRsIn(start)
    BY <1>0, <1>p, <2>2, <2>3, NoCRsAdded
  <2>9. NewlinesIn(read) = NewlinesIn(start)
    BY <1>0, <2>2, NoMoreNewlines
  <2>10. chars = Cardinality(RunesIn(start)) - Cardinality(NewlinesIn(start))
                   - Cardinality(CRsIn(start)) - 0
    BY <2>3 DEF WordsAndCharsMatch, TailCR
  <2>11. Cardinality(RunesIn(read)) \in Nat
    BY <1>0, PartsFinite
  <2>12. TailCR' <=> cr
    BY <2>1, <2>3 DEF TailCR
  <2> HIDE DEF cr
  <2>13. chars' = Cardinality(RunesIn(read)) - Cardinality(NewlinesIn(read))
                    - Cardinality(CRsIn(read)) - (IF cr THEN 1 ELSE 0)
    <3> DEFINE r == Cardinality(RunesIn(start))
               q == Cardinality(RunesIn(read))
               l == Cardinality(NewlinesIn(start))
               c == Cardinality(CRsIn(start))
    <3>1. /\ r \in Nat /\ q \in Nat /\ l \in Nat /\ c \in Nat
          /\ chars = r - l - c - 0 /\ chars' = chars + (q - r - (read - m))
          /\ read - m = IF cr THEN 1 ELSE 0
      BY <1>c, <2>4, <2>7, <2>10, <2>11
    <3> HIDE DEF r, q, l, c
    <3>2. chars' = q - l - c - (IF cr THEN 1 ELSE 0)
      BY <3>1
    <3> QED
      BY <2>8, <2>9, <3>2 DEF q, l, c
  <2>14. /\ WordsIn(start)' = WordsIn(read) /\ RunesIn(start)' = RunesIn(read)
         /\ NewlinesIn(start)' = NewlinesIn(read) /\ CRsIn(start)' = CRsIn(read)
    BY <2>1 DEF WordsIn, RunesIn, NewlinesIn, CRsIn
  <2> QED
    BY <2>7, <2>12, <2>13, <2>14 DEF WordsAndCharsMatch
<1>4. CASE Reject \/ OpenError \/ Run \/ ReadChunk \/ ReadEOF \/ ReadError
            \/ LineTooLong \/ Return \/ UNCHANGED wordVars
  BY <1>1, <1>4 DEF Reject, OpenError, Run, ReadChunk, ReadEOF, ReadError, LineTooLong, Return,
     wordVars, args, counts
<1> QED
  BY <1>2, <1>3, <1>4 DEF WordNext

LEMMA WordsInvariant == WordSpec => [](WordInv /\ WordsAndCharsMatch)
<1>1. WordInit => WordInv /\ WordsAndCharsMatch
  BY InitWord, InitWords
<1>2. (WordInv /\ WordsAndCharsMatch) /\ [WordNext]_wordVars => (WordInv /\ WordsAndCharsMatch)'
  BY StepWord, StepWords
<1>. QED
  BY <1>1, <1>2, PTL DEF WordSpec

(***************************************************************************)
(* wc-go finds every word and every character of every input, however it   *)
(* is cut into reads and lines, whatever bytes stand at the cuts.          *)
(***************************************************************************)
THEOREM WordsAndCharsCounted == WordSpec => []WordsAndCharsMatch
BY WordsInvariant, PTL

-----------------------------------------------------------------------------
(***************************************************************************)
(* DirTracker: what NothingUnseen says is inductive, once what exists is   *)
(* known to be paths of directories.                                       *)
(***************************************************************************)
DirInv == fs \subseteq Dirs /\ NothingUnseen

LEMMA InitDir == Dir!Init => DirInv
BY DEF Dir!Init, DirInv, NothingUnseen, Dir!NothingUnseen

LEMMA StepDir ==
  ASSUME DirInv, [Dir!Next]_(Dir!vars)
  PROVE  DirInv'
<1> USE DEF DirInv, NothingUnseen, Dir!NothingUnseen
<1>1. ASSUME NEW d \in Dirs, Dir!Mkdir(d) \/ Dir!Rmdir(d)
      PROVE  DirInv'
  <2>1. CASE Dir!Mkdir(d)
    BY <2>1 DEF Dir!Mkdir
  <2>2. CASE Dir!Rmdir(d)
    BY <2>2 DEF Dir!Rmdir
  <2>. QED
    BY <1>1, <2>1, <2>2
<1>2. ASSUME NEW d \in Dirs, Dir!Add(d) \/ Dir!List(d)
      PROVE  DirInv'
  <2>1. CASE Dir!Add(d)
    BY <2>1 DEF Dir!Add
  <2>2. CASE Dir!List(d)
    BY <2>2 DEF Dir!List, Dir!Children
  <2>. QED
    BY <1>2, <2>1, <2>2
<1>3. ASSUME NEW d \in Dirs, Dir!Walked \/ Dir!HandleEvent(d)
      PROVE  DirInv'
  BY <1>3 DEF Dir!Walked, Dir!HandleEvent
<1>4. CASE UNCHANGED Dir!vars
  BY <1>4 DEF Dir!vars
<1>. QED
  BY <1>1, <1>2, <1>3, <1>4 DEF Dir!Next

(***************************************************************************)
(* Whatever other processes do while the walk is under way, no directory   *)
(* of a watched one escapes both the walk and the watch.                   *)
(***************************************************************************)
THEOREM NoDirectoryUnseen == Dir!Spec => []NothingUnseen
<1>1. DirInv => NothingUnseen
  BY DEF DirInv
<1>. QED
  BY <1>1, InitDir, StepDir, PTL DEF Dir!Spec

-----------------------------------------------------------------------------
(***************************************************************************)
(* NetBurst: every byte a burst has sent is still to be read, in work, or  *)
(* answered.                                                               *)
(***************************************************************************)
\* The goroutines of all bursts that wait for an answer on a connection.
Readers(c) == {b \in Bursts : asking[b][c] = "read"}

Working(c) == IF handler[c] = "work" THEN 1 ELSE 0

NetTypeOK ==
  /\ tried \subseteq Links /\ conns \subseteq tried
  /\ wire \in [Links -> {"none", "open", "broken"}]
  /\ handler \in [Links -> {"none", "read", "work", "done"}]
  /\ toServer \in [Links -> Nat] /\ toClient \in [Links -> Nat]
  /\ burst \in [Bursts -> {"none", "running", "done", "panic"}]
  /\ asking \in [Bursts -> [Links -> {"none", "write", "read", "answered", "failed"}]]

\* Before a connection is there nothing is sent over it, and before a burst has
\* begun none of its goroutines is there.
Unused ==
  /\ \A c \in Links : wire[c] # "none" <=> c \in conns
  /\ \A c \in Links : wire[c] = "none" =>
       handler[c] = "none" /\ toServer[c] = 0 /\ toClient[c] = 0
  /\ \A b \in Bursts, c \in Links : asking[b][c] # "none" => burst[b] # "none" /\ c \in conns

NetInv == NetTypeOK /\ Unused /\ Net!AnswersOnTheWay

(***************************************************************************)
(* Finitely many goroutines wait on a connection.                          *)
(***************************************************************************)
LEMMA ReadersFinite ==
  ASSUME NEW c
  PROVE  IsFiniteSet(Readers(c)) /\ Cardinality(Readers(c)) \in Nat
<1>1. Readers(c) \subseteq Bursts
  BY DEF Readers
<1> QED
  BY <1>1, BurstsAssumption, FS_Subset, FS_CardinalityType

(***************************************************************************)
(* Cardinality is the same inside the instance.                            *)
(***************************************************************************)
LEMMA SameCardinality == ASSUME NEW S PROVE Net!Cardinality(S) = Cardinality(S)
BY DEF Net!Cardinality, Cardinality

(***************************************************************************)
(* AnswersOnTheWay in the terms above.                                     *)
(***************************************************************************)
LEMMA AnswersCounted ==
  Net!AnswersOnTheWay
    <=> \A c \in conns : wire[c] = "open" =>
          toServer[c] + toClient[c] + Working(c) = Cardinality(Readers(c))
BY SameCardinality DEF Net!AnswersOnTheWay, Working, Readers

LEMMA InitNet == Net!Init => NetInv
<1> SUFFICES ASSUME Net!Init PROVE NetInv
  OBVIOUS
<1>1. NetTypeOK /\ Unused
  BY DEF Net!Init, NetTypeOK, Unused
<1>2. Net!AnswersOnTheWay
  BY DEF Net!Init, Net!AnswersOnTheWay
<1> QED
  BY <1>1, <1>2 DEF NetInv

(***************************************************************************)
(* A byte sent is one goroutine more that waits, an answer heard one less; *)
(* in between the server moves each byte without losing it.                *)
(***************************************************************************)
LEMMA StepNet ==
  ASSUME NetInv, [Net!Next]_(Net!vars)
  PROVE  NetInv'
<1>t. NetTypeOK /\ Unused
  BY DEF NetInv
<1>a. \A c \in conns : wire[c] = "open" =>
        toServer[c] + toClient[c] + Working(c) = Cardinality(Readers(c))
  BY AnswersCounted DEF NetInv
<1>s. SUFFICES /\ NetTypeOK' /\ Unused'
               /\ \A c \in conns' : wire'[c] = "open" =>
                    toServer'[c] + toClient'[c] + Working(c)' = Cardinality(Readers(c)')
  <2>1. Net!AnswersOnTheWay'
    BY <1>s, SameCardinality DEF Net!AnswersOnTheWay, Working, Readers
  <2> QED
    BY <1>s, <2>1 DEF NetInv
<1>1. ASSUME NEW c \in Links, Net!Dial(c)
      PROVE  /\ NetTypeOK' /\ Unused'
             /\ \A d \in conns' : wire'[d] = "open" =>
                  toServer'[d] + toClient'[d] + Working(d)' = Cardinality(Readers(d)')
  <2>1. /\ c \notin tried /\ tried' = tried \cup {c}
        /\ \/ wire' = [wire EXCEPT ![c] = "open"] /\ conns' = conns \cup {c}
           \/ wire' = wire /\ conns' = conns
        /\ UNCHANGED <<handler, toServer, toClient, burst, asking>>
    BY <1>1 DEF Net!Dial, Net!InBatch
  <2>2. NetTypeOK' /\ Unused'
    BY <1>t, <2>1 DEF NetTypeOK, Unused
  <2>3. \A d \in Links : Readers(d)' = Readers(d) /\ Working(d)' = Working(d)
    BY <2>1 DEF Readers, Working
  <2>4. toServer[c] = 0 /\ toClient[c] = 0 /\ Working(c) = 0 /\ Readers(c) = {}
    BY <1>t, <2>1 DEF NetTypeOK, Unused, Working, Readers
  <2>5. Cardinality(Readers(c)) = 0
    BY <2>4, FS_EmptySet
  <2>6. ASSUME NEW d \in conns', wire'[d] = "open"
        PROVE  toServer'[d] + toClient'[d] + Working(d)' = Cardinality(Readers(d)')
    <3>1. d \in Links
      BY <1>t, <2>1, <2>6 DEF NetTypeOK
    <3>2. CASE d = c
      BY <2>1, <2>3, <2>4, <2>5, <3>1, <3>2
    <3>3. CASE d # c
      BY <1>t, <1>a, <2>1, <2>3, <2>6, <3>1, <3>3 DEF NetTypeOK
    <3> QED
      BY <3>2, <3>3
  <2> QED
    BY <2>2, <2>6
<1>2. ASSUME NEW c \in Links, Net!Break(c)
      PROVE  /\ NetTypeOK' /\ Unused'
             /\ \A d \in conns' : wire'[d] = "open" =>
                  toServer'[d] + toClient'[d] + Working(d)' = Cardinality(Readers(d)')
  <2>1. /\ wire[c] = "open" /\ wire' = [wire EXCEPT ![c] = "broken"]
        /\ toServer' = [toServer EXCEPT ![c] = 0] /\ toClient' = [toClient EXCEPT ![c] = 0]
        /\ UNCHANGED <<tried, conns, handler, burst, asking>>
    BY <1>2 DEF Net!Break
  <2>2. NetTypeOK' /\ Unused'
    BY <1>t, <2>1 DEF NetTypeOK, Unused
  <2>3. \A d \in Links : Readers(d)' = Readers(d) /\ Working(d)' = Working(d)
    BY <2>1 DEF Readers, Working
  <2>4. ASSUME NEW d \in conns', wire'[d] = "open"
        PROVE  toServer'[d] + toClient'[d] + Working(d)' = Cardinality(Readers(d)')
    <3>1. d \in Links /\ d # c /\ d \in conns
      BY <1>t, <2>1, <2>4 DEF NetTypeOK
    <3>2. toServer'[d] = toServer[d] /\ toClient'[d] = toClient[d] /\ wire[d] = "open"
      BY <1>t, <2>1, <2>4, <3>1 DEF NetTypeOK
    <3> QED
      BY <1>a, <2>3, <3>1, <3>2
  <2> QED
    BY <2>2, <2>4
<1>3. ASSUME NEW c \in Links, Net!Server(c)
      PROVE  /\ NetTypeOK' /\ Unused'
             /\ \A d \in conns' : wire'[d] = "open" =>
                  toServer'[d] + toClient'[d] + Working(d)' = Cardinality(Readers(d)')
  <2>1. /\ UNCHANGED <<tried, wire, conns, burst, asking>>
        /\ \E h \in {"read", "work", "done"} : handler' = [handler EXCEPT ![c] = h]
    BY <1>3 DEF Net!Server, Net!Accept, Net!ReadByte, Net!Answer, Net!HandlerEnds, Net!ends
  <2>2. \/ toServer' = toServer /\ toClient' = toClient
           /\ (handler[c] # "work" \/ wire[c] = "broken") /\ handler'[c] # "work"
        \/ toServer' = [toServer EXCEPT ![c] = @ - 1] /\ toClient' = toClient
           /\ toServer[c] > 0 /\ handler[c] = "read" /\ handler'[c] = "work"
        \/ toServer' = toServer /\ toClient' = [toClient EXCEPT ![c] = @ + 1]
           /\ handler[c] = "work" /\ handler'[c] = "read"
    BY <1>t, <1>3
       DEF NetTypeOK, Net!Server, Net!Accept, Net!ReadByte, Net!Answer, Net!HandlerEnds, Net!ends
  <2>3. wire[c] # "none"
    BY <1>t, <1>3
       DEF Unused, Net!Server, Net!Accept, Net!ReadByte, Net!Answer, Net!HandlerEnds
  <2>4. toServer' \in [Links -> Nat] /\ toClient' \in [Links -> Nat]
    <3>1. /\ toServer \in [Links -> Nat] /\ toClient \in [Links -> Nat]
          /\ toServer[c] \in Nat /\ toClient[c] \in Nat
      BY <1>t DEF NetTypeOK
    <3>2. toServer[c] > 0 => toServer[c] - 1 \in Nat
      BY <3>1
    <3>3. toClient[c] + 1 \in Nat
      BY <3>1
    <3> QED
      BY <2>2, <3>1, <3>2, <3>3
  <2>5. NetTypeOK'
    <3>1. handler' \in [Links -> {"none", "read", "work", "done"}]
      BY <1>t, <2>1 DEF NetTypeOK
    <3>2. UNCHANGED <<tried, wire, conns, burst, asking>>
      BY <2>1
    <3> QED
      BY <1>t, <2>4, <3>1, <3>2 DEF NetTypeOK
  <2>6. Unused'
    BY <1>t, <2>1, <2>2, <2>3 DEF Unused, NetTypeOK
  <2>7. ASSUME NEW d \in conns', wire'[d] = "open"
        PROVE  toServer'[d] + toClient'[d] + Working(d)' = Cardinality(Readers(d)')
    <3>1. d \in Links /\ d \in conns /\ wire[d] = "open"
      BY <1>t, <2>1, <2>7 DEF NetTypeOK
    <3>2. Readers(d)' = Readers(d)
      BY <2>1 DEF Readers
    <3>3. /\ toServer[d] \in Nat /\ toClient[d] \in Nat /\ Working(d) \in {0, 1}
          /\ toServer[d] + toClient[d] + Working(d) = Cardinality(Readers(d))
      BY <1>t, <1>a, <3>1 DEF NetTypeOK, Working
    <3>4. toServer'[d] + toClient'[d] + Working(d)' = toServer[d] + toClient[d] + Working(d)
      <4>1. CASE d # c
        BY <1>t, <2>1, <2>2, <3>1, <4>1 DEF NetTypeOK, Working
      <4>2. CASE d = c
        BY <1>t, <2>1, <2>2, <3>1, <3>3, <4>2 DEF NetTypeOK, Working
      <4> QED
        BY <4>1, <4>2
    <3> QED
      BY <3>2, <3>3, <3>4
  <2> QED
    BY <2>5, <2>6, <2>7
<1>4. ASSUME NEW b \in Bursts, Net!StartBurst(b) \/ Net!EndBurst(b)
      PROVE  /\ NetTypeOK' /\ Unused'
             /\ \A d \in conns' : wire'[d] = "open" =>
                  toServer'[d] + toClient'[d] + Working(d)' = Cardinality(Readers(d)')
  <2>1. /\ UNCHANGED <<tried, wire, conns, handler, toServer, toClient>>
        /\ \E x \in {"running", "done", "panic"} : burst' = [burst EXCEPT ![b] = x]
        /\ \/ asking' = asking
           \/ burst[b] = "none"
              /\ asking' = [asking EXCEPT ![b] =
                              [c \in Links |-> IF c \in conns THEN "write" ELSE "none"]]
    BY <1>4 DEF Net!StartBurst, Net!EndBurst, Net!ends
  <2>2. NetTypeOK'
    BY <1>t, <2>1 DEF NetTypeOK
  <2>3. Unused'
    BY <1>t, <2>1 DEF NetTypeOK, Unused
  <2>4. ASSUME NEW d \in Links
        PROVE  Readers(d)' = Readers(d)
    <3>1. ASSUME NEW e \in Bursts PROVE asking'[e][d] = "read" <=> asking[e][d] = "read"
      BY <1>t, <2>1 DEF NetTypeOK, Unused
    <3> QED
      BY <3>1 DEF Readers
  <2>5. \A d \in conns : d \in Links /\ Working(d)' = Working(d)
    BY <1>t, <2>1 DEF NetTypeOK, Working
  <2> QED
    BY <1>a, <2>1, <2>2, <2>3, <2>4, <2>5
<1>5. ASSUME NEW b \in Bursts, NEW c \in Links, Net!Asker(b, c)
      PROVE  /\ NetTypeOK' /\ Unused'
             /\ \A d \in conns' : wire'[d] = "open" =>
                  toServer'[d] + toClient'[d] + Working(d)' = Cardinality(Readers(d)')
  <2>1. /\ UNCHANGED <<tried, wire, conns, handler, burst>>
        /\ asking[b][c] \in {"write", "read"}
        /\ \E x \in {"read", "answered", "failed"} : asking' = [asking EXCEPT ![b][c] = x]
    BY <1>5 DEF Net!Asker, Net!Ask, Net!Hear, Net!GiveUp, Net!Goroutine, Net!ends
  <2>2. \/ /\ asking[b][c] = "write" /\ asking'[b][c] = "read"
           /\ toServer' = [toServer EXCEPT ![c] = @ + 1] /\ toClient' = toClient
        \/ /\ asking[b][c] = "read" /\ asking'[b][c] = "answered" /\ toClient[c] > 0
           /\ toServer' = toServer /\ toClient' = [toClient EXCEPT ![c] = @ - 1]
        \/ /\ wire[c] = "broken"
           /\ toServer' = toServer /\ toClient' = toClient
    BY <1>t, <1>5
       DEF NetTypeOK, Net!Asker, Net!Ask, Net!Hear, Net!GiveUp, Net!Goroutine, Net!ends
  <2>3. toServer' \in [Links -> Nat] /\ toClient' \in [Links -> Nat]
    <3>1. /\ toServer \in [Links -> Nat] /\ toClient \in [Links -> Nat]
          /\ toServer[c] \in Nat /\ toClient[c] \in Nat
      BY <1>t DEF NetTypeOK
    <3>2. toClient[c] > 0 => toClient[c] - 1 \in Nat
      BY <3>1
    <3>3. toServer[c] + 1 \in Nat
      BY <3>1
    <3> QED
      BY <2>2, <3>1, <3>2, <3>3
  <2>4. NetTypeOK'
    BY <1>t, <2>1, <2>3 DEF NetTypeOK
  <2>5. burst[b] # "none" /\ c \in conns /\ wire[c] # "none"
    BY <1>t, <2>1 DEF Unused
  <2>6. Unused'
    BY <1>t, <2>1, <2>2, <2>5 DEF NetTypeOK, Unused
  <2>7. \A e \in Bursts, d \in Links : e # b \/ d # c => asking'[e][d] = asking[e][d]
    BY <1>t, <2>1 DEF NetTypeOK
  <2>8. ASSUME NEW d \in conns', wire'[d] = "open"
        PROVE  toServer'[d] + toClient'[d] + Working(d)' = Cardinality(Readers(d)')
    <3>1. d \in Links /\ d \in conns /\ wire[d] = "open" /\ Working(d)' = Working(d)
      BY <1>t, <2>1, <2>8 DEF NetTypeOK, Working
    <3>2. /\ toServer[d] \in Nat /\ toClient[d] \in Nat /\ Working(d) \in {0, 1}
          /\ toServer[d] + toClient[d] + Working(d) = Cardinality(Readers(d))
      BY <1>t, <1>a, <3>1 DEF NetTypeOK, Working
    <3>3. CASE d # c
      <4>1. Readers(d)' = Readers(d)
        BY <2>7, <3>1, <3>3 DEF Readers
      <4>2. toServer'[d] = toServer[d] /\ toClient'[d] = toClient[d]
        BY <1>t, <2>2, <3>1, <3>3 DEF NetTypeOK
      <4> QED
        BY <3>1, <3>2, <4>1, <4>2
    <3>4. CASE d = c /\ asking[b][c] = "write"
      <4>1. asking'[b][c] = "read" /\ toServer'[c] = toServer[c] + 1 /\ toClient'[c] = toClient[c]
        BY <1>t, <2>2, <3>1, <3>4 DEF NetTypeOK
      <4>2. Readers(c)' = Readers(c) \cup {b} /\ b \notin Readers(c)
        BY <2>7, <3>4, <4>1 DEF Readers
      <4>3. Cardinality(Readers(c)') = Cardinality(Readers(c)) + 1
        BY <4>2, ReadersFinite, FS_AddElement
      <4> QED
        BY <3>1, <3>2, <3>4, <4>1, <4>3
    <3>5. CASE d = c /\ asking[b][c] = "read"
      <4>1. /\ asking'[b][c] # "read" /\ toClient'[c] = toClient[c] - 1
            /\ toServer'[c] = toServer[c]
        BY <1>t, <2>2, <3>1, <3>5 DEF NetTypeOK
      <4>2. Readers(c)' = Readers(c) \ {b} /\ b \in Readers(c)
        BY <2>7, <3>5, <4>1 DEF Readers
      <4>3. Cardinality(Readers(c)') = Cardinality(Readers(c)) - 1
        BY <4>2, ReadersFinite, FS_RemoveElement
      <4>4. toClient[c] \in Nat /\ toServer[c] \in Nat
        BY <3>2, <3>5
      <4> QED
        BY <3>1, <3>2, <3>5, <4>1, <4>3, <4>4
    <3> QED
      BY <2>1, <3>3, <3>4, <3>5
  <2> QED
    BY <2>4, <2>6, <2>8
<1>6. CASE UNCHANGED Net!vars
  <2>1. UNCHANGED <<tried, wire, conns, handler, toServer, toClient, burst, asking>>
    BY <1>6 DEF Net!vars, Net!ends
  <2>2. NetTypeOK' /\ Unused'
    BY <1>t, <2>1 DEF NetTypeOK, Unused
  <2>3. \A d \in conns : Readers(d)' = Readers(d) /\ Working(d)' = Working(d)
    BY <2>1 DEF Readers, Working
  <2> QED
    BY <1>a, <2>1, <2>2, <2>3
<1> QED
  BY <1>1, <1>2, <1>3, <1>4, <1>5, <1>6 DEF Net!Next

(***************************************************************************)
(* However bursts overlap and whichever connections break, as many bytes   *)
(* and answers are on an open connection as goroutines wait for one: no    *)
(* goroutine waits for an answer that another burst has taken for good.    *)
(***************************************************************************)
THEOREM NobodyWaitsInVain == Net!Spec => []Net!AnswersOnTheWay
<1>1. NetInv => Net!AnswersOnTheWay
  BY DEF NetInv
<1> QED
  BY <1>1, InitNet, StepNet, PTL DEF Net!Spec

-----------------------------------------------------------------------------
(***************************************************************************)
(* Every behaviour the runs check is one of each program, so that what was *)
(* proved of the programs alone holds of it.                               *)
(***************************************************************************)
THEOREM SmallProgramsAreSafe ==
  ProgSpec => [](/\ EveryIncrementCounts /\ NothingUnseen /\ Net!AnswersOnTheWay
                 /\ LinesMatch /\ WordsAndCharsMatch /\ PrintedIsWhole)
<1>1. ProgInit => Init /\ WordInit /\ Dir!Init /\ Net!Init
  BY DEF ProgInit
<1>2. [ProgNext]_progVars => [Next]_vars /\ [WordNext]_wordVars /\ [Dir!Next]_(Dir!vars)
                               /\ [Net!Next]_(Net!vars)
  BY DEF ProgNext, LabStep, WordStep, SigStep, DirStep, NetStep, progVars, dirVars, netVars,
     Dir!vars, Net!vars, Net!ends
<1>3. LabInv => EveryIncrementCounts
  BY DEF LabInv
<1>4. WordInv => LinesMatch /\ PrintedIsWhole
  BY DEF WordInv
<1>5. DirInv => NothingUnseen
  BY DEF DirInv
<1>6. ProgSpec => Spec /\ WordSpec /\ Dir!Spec /\ Net!Spec
  BY <1>1, <1>2, PTL DEF ProgSpec, Spec, WordSpec, Dir!Spec, Net!Spec
<1>7. Dir!Spec => []DirInv
  BY InitDir, StepDir, PTL DEF Dir!Spec
<1>. QED
  BY <1>3, <1>4, <1>5, <1>6, <1>7, LabInvariant, WordsInvariant, NobodyWaitsInVain, PTL
=============================================================================
