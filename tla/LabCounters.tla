---------------------------- MODULE LabCounters ----------------------------
(***************************************************************************)
(* The counter workloads of two labs: goroutines that increment one        *)
(* counter through different mechanisms while main samples it.             *)
(*                                                                         *)
(*   labs/0104-go-atomics-vs-mutex-contention/counter.go:                  *)
(*     "atomic" and "mutex" (a plain counter++ inside the lock)            *)
(*   labs/0105-go-locking-vs-channels/counter.go:                          *)
(*     "locked" (an atomic add inside the lock) and "owner" (a request on  *)
(*     an unbuffered channel to the one goroutine that counts)             *)
(*   labs/0105-go-locking-vs-channels/pingpong.go:                         *)
(*     "ring" (a ring of unbuffered channels) and "turns" (a mutex, a      *)
(*     turn and a condition variable)                                      *)
(***************************************************************************)
EXTENDS Integers, FiniteSets

CONSTANTS
  MaxWorkers,  \* bound on WORKERS and PARTICIPANTS
  MaxCount,    \* bound on the counter
  None

ASSUME LabAssumption ==
  MaxWorkers \in Nat \ {0} /\ MaxCount \in Nat \ {0} /\ None \notin Nat

Modes  == {"atomic", "mutex", "locked", "owner", "ring", "turns"}
Locks  == {"mutex", "locked", "turns"}
Rings  == {"ring", "turns"}

VARIABLES
  mode,
  n,        \* the number of workers
  pc,       \* per worker: its next statement
  lock,     \* the holder of mu, or None
  turn,
  loaded,   \* the value a plain counter++ has read
  owner,    \* the owner goroutine: "receive" or "add"
  starter,  \* the goroutine that starts the ring: "send" or "done"
  counter,
  last,     \* main's last sample
  ops,      \* history: increments the workers consider done
  who       \* history: the worker that counted last

sync == <<lock, turn, loaded, owner, starter>>
vars == <<mode, n, pc, sync, counter, last, ops, who>>

Worker  == 0 .. n - 1
Next1(w) == (w + 1) % n

First(m) == CASE m \in Locks -> "lock" [] m = "atomic" -> "add"
              [] m = "owner" -> "request" [] m = "ring" -> "receive"

Init ==
  /\ mode \in Modes
  /\ n \in 1 .. MaxWorkers
  /\ pc = [w \in Worker |-> First(mode)]
  /\ lock = None
  /\ turn = 0
  /\ loaded = 0
  /\ owner = "receive"
  /\ starter = "send"
  /\ counter = 0 /\ last = 0 /\ ops = 0
  /\ who = None

GoTo(w, label) == pc' = [pc EXCEPT ![w] = label]

-----------------------------------------------------------------------------
\* Slips, told from the code by the properties below.
LockNothing(w) ==
  /\ pc[w] = "lock"
  /\ lock' = w
  /\ GoTo(w, CASE mode = "mutex" -> "load" [] mode = "locked" -> "add" [] OTHER -> "check")
  /\ UNCHANGED <<mode, n, turn, loaded, owner, starter, counter, last, ops, who>>

SignalOne(w) ==
  /\ pc[w] = "pass"
  /\ turn' = Next1(turn)
  /\ \E v \in Worker :
       /\ pc[v] = "asleep" \/ \A u \in Worker : pc[u] # "asleep"
       /\ pc' = [pc EXCEPT ![v] = IF pc[v] = "asleep" THEN "lock" ELSE @, ![w] = "unlock"]
  /\ UNCHANGED <<mode, n, lock, loaded, owner, starter, counter, last, ops, who>>

AnyTurn(w) ==
  /\ pc[w] = "check"
  /\ GoTo(w, "add")
  /\ UNCHANGED <<mode, n, sync, counter, last, ops, who>>

\* mu.Lock.
Lock(w) ==
  /\ pc[w] = "lock"
  /\ lock = None
  /\ lock' = w
  /\ GoTo(w, CASE mode = "mutex" -> "load" [] mode = "locked" -> "add" [] OTHER -> "check")
  /\ UNCHANGED <<mode, n, turn, loaded, owner, starter, counter, last, ops, who>>

Unlock(w) ==
  /\ pc[w] = "unlock"
  /\ lock' = None
  /\ GoTo(w, "lock")
  /\ UNCHANGED <<mode, n, turn, loaded, owner, starter, counter, last, ops, who>>

\* counter++ without atomics: a load and a store.
Load(w) ==
  /\ pc[w] = "load"
  /\ counter < MaxCount
  /\ loaded' = counter
  /\ GoTo(w, "store")
  /\ UNCHANGED <<mode, n, lock, turn, owner, starter, counter, last, ops, who>>

Store(w) ==
  /\ pc[w] = "store"
  /\ counter' = loaded + 1
  /\ ops' = ops + 1
  /\ who' = w
  /\ GoTo(w, "unlock")
  /\ UNCHANGED <<mode, n, sync, last>>

\* atomic.AddInt64.
Add(w) ==
  /\ pc[w] = "add"
  /\ counter < MaxCount
  /\ counter' = counter + 1
  /\ ops' = ops + 1
  /\ who' = w
  /\ GoTo(w, CASE mode = "atomic" -> "add" [] mode = "locked" -> "unlock"
               [] mode = "ring" -> "send" [] OTHER -> "pass")
  /\ UNCHANGED <<mode, n, sync, last>>

\* reqs <- struct{}{}: completes when the owner receives it,
Request(w) ==
  /\ pc[w] = "request"
  /\ owner = "receive"
  /\ counter < MaxCount
  /\ owner' = "add"
  /\ ops' = ops + 1
  /\ UNCHANGED <<mode, n, pc, lock, turn, loaded, starter, counter, last, who>>

\* which counts it then.
OwnerAdd ==
  /\ owner = "add"
  /\ counter' = counter + 1
  /\ owner' = "receive"
  /\ who' = None
  /\ UNCHANGED <<mode, n, pc, lock, turn, loaded, starter, last, ops>>

\* chans[0] <- struct{}{}.
Start ==
  /\ mode = "ring" /\ starter = "send"
  /\ pc[0] = "receive"
  /\ starter' = "done"
  /\ GoTo(0, "add")
  /\ UNCHANGED <<mode, n, lock, turn, loaded, owner, counter, last, ops, who>>

\* out <- struct{}{} meets <-in of the next participant; alone in the ring,
\* a participant does not receive what it sends itself.
Send(w) ==
  /\ pc[w] = "send"
  /\ pc[Next1(w)] = "receive"
  /\ pc' = [pc EXCEPT ![w] = "receive", ![Next1(w)] = "add"]
  /\ UNCHANGED <<mode, n, sync, counter, last, ops, who>>

\* for turn != id { cond.Wait() }, which releases the lock,
Wait(w) ==
  /\ pc[w] = "check"
  /\ turn # w
  /\ lock' = None
  /\ GoTo(w, "asleep")
  /\ UNCHANGED <<mode, n, turn, loaded, owner, starter, counter, last, ops, who>>

MyTurn(w) ==
  /\ pc[w] = "check"
  /\ turn = w
  /\ GoTo(w, "add")
  /\ UNCHANGED <<mode, n, sync, counter, last, ops, who>>

\* and cond.Broadcast: all who wait go back for the lock.
Pass(w) ==
  /\ pc[w] = "pass"
  /\ turn' = Next1(turn)
  /\ pc' = [v \in Worker |-> IF pc[v] = "asleep" THEN "lock"
                             ELSE IF v = w THEN "unlock" ELSE pc[v]]
  /\ UNCHANGED <<mode, n, lock, loaded, owner, starter, counter, last, ops, who>>

\* main, on every tick: prints counter - last.
Sample ==
  /\ last' = counter
  /\ UNCHANGED <<mode, n, pc, sync, counter, ops, who>>

Step(w) ==
  \/ Lock(w) \/ Unlock(w) \/ Load(w) \/ Store(w) \/ Add(w) \/ Request(w)
  \/ Send(w) \/ Wait(w) \/ MyTurn(w) \/ Pass(w)

Next == (\E w \in Worker : Step(w)) \/ OwnerAdd \/ Start \/ Sample

Spec == Init /\ [][Next]_vars

-----------------------------------------------------------------------------
(***************************************************************************)
(* Type invariant.                                                         *)
(***************************************************************************)
TypeOK ==
  /\ mode \in Modes
  /\ n \in 1 .. MaxWorkers
  /\ pc \in [Worker -> {"lock", "load", "store", "add", "unlock", "request", "receive",
                        "send", "check", "asleep", "pass"}]
  /\ lock \in Worker \cup {None}
  /\ turn \in Worker
  /\ loaded \in Nat
  /\ owner \in {"receive", "add"}
  /\ starter \in {"send", "done"}
  /\ counter \in Nat /\ last \in Nat /\ ops \in Nat
  /\ who \in Worker \cup {None}

(***************************************************************************)
(* No mechanism loses an increment: what the workers have done has been    *)
(* counted, but for the one request the owner has received last, so that   *)
(* the counter never moves backwards under main's sample and the rates it  *)
(* prints add up.                                                          *)
(***************************************************************************)
EveryIncrementCounts ==
  /\ ops = counter + (IF owner = "add" THEN 1 ELSE 0)
  /\ last <= counter

(***************************************************************************)
(* The mechanisms are "compared on equivalent terms": each of them lets    *)
(* one goroutine at a time count, and in both rings the participants count *)
(* in turn although a broadcast wakes all of them and any may get the lock *)
(* first.                                                                  *)
(***************************************************************************)
Passing == {w \in Worker : pc[w] \in {"pass", "send"}}
HasToken == {w \in Worker : pc[w] # "receive"}

holder ==
  CASE mode = "turns" -> IF Passing = {} THEN turn ELSE Next1(turn)
    [] mode = "ring"  -> IF starter = "send" THEN 0
                         ELSE LET w == CHOOSE w \in HasToken : TRUE
                              IN IF pc[w] = "add" THEN w ELSE Next1(w)
    [] OTHER          -> 0

Ring == INSTANCE TokenRing WITH size <- IF mode \in Rings THEN n ELSE 0

ImplementsRing == Ring!Spec
=============================================================================
