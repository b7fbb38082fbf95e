----------------------------- MODULE DedupProofs -----------------------------
(***************************************************************************)
(* Theorems about concurrent deduplication (DedupIndex.tla) for every set  *)
(* of documents, every similarity relation and any number of callers; and, *)
(* for the similarity that Documents.tla computes, every file and hash.    *)
(***************************************************************************)
EXTENDS EmbeddedIndex, ChannelLemmas, FiniteSetTheorems

USE DedupAssumption

-----------------------------------------------------------------------------
LEMMA DedupInitType == Init => TypeOK
BY DEF Init, TypeOK, Busy

LEMMA DedupStepType ==
  ASSUME TypeOK, [Next]_vars
  PROVE  TypeOK'
<1> USE DEF TypeOK, Busy
<1>1. ASSUME NEW c \in Callers, NEW d \in Docs, Call(c, d)
      PROVE  TypeOK'
  <2>1. overlapped' \subseteq SUBSET Docs
    BY <1>1 DEF Call
  <2>. QED
    BY <1>1, <2>1 DEF Call
<1>2. ASSUME NEW c \in Callers, Search(c)
      PROVE  TypeOK'
  <2>1. Neighbours(doc[c]) \subseteq Docs \cup {None}
    BY DEF Neighbours
  <2>2. missed' \subseteq Docs
    BY <1>2 DEF Search
  <2>. QED
    BY <1>2, <2>1, <2>2 DEF Search
<1>3. ASSUME NEW c \in Callers, Index(c) \/ Reject(c)
      PROVE  TypeOK'
  <2>1. c \in Busy /\ doc[c] \in Docs
    BY <1>3 DEF Index, Reject
  <2>2. index' \subseteq Docs /\ duplicates' \in Nat
    BY <1>3, <2>1 DEF Index, Reject
  <2>3. /\ pc' = [pc EXCEPT ![c] = "idle"]
        /\ doc' = [doc EXCEPT ![c] = None]
        /\ near' = [near EXCEPT ![c] = None]
        /\ nearest' = [nearest EXCEPT ![doc[c]] = near[c]]
        /\ \/ verdict' = [verdict EXCEPT ![doc[c]] = "new"]
           \/ verdict' = [verdict EXCEPT ![doc[c]] = "duplicate"]
        /\ UNCHANGED <<processed, overlapped, missed>>
    BY <1>3 DEF Index, Reject, Return
  <2>. QED
    BY <2>1, <2>2, <2>3
<1>4. CASE UNCHANGED vars
  BY <1>4 DEF vars
<1>. QED
  BY <1>1, <1>2, <1>3, <1>4 DEF Next, Finished

-----------------------------------------------------------------------------
(***************************************************************************)
(* The strengthening: calls in progress have been recorded as overlapping, *)
(* and a caller about to add its document has missed a similar one in the  *)
(* index, or its call has overlapped with the one that put it there.       *)
(***************************************************************************)
BusyOverlap ==
  \A b, c \in Busy : b # c => {doc[b], doc[c]} \in overlapped

AddIsExcused ==
  \A c \in Busy : pc[c] = "decide" /\ ~IsDup(c) =>
    \A e \in index : Similar(doc[c], e)
                       => {doc[c], e} \in overlapped \/ doc[c] \in missed

NearIsIndexed ==
  \A c \in Busy : pc[c] = "decide" => near[c] \in index \cup {None}

BusyIsPending == \A c \in Busy : verdict[doc[c]] = "pending"

RaceInv ==
  /\ BusyOverlap
  /\ AddIsExcused
  /\ NearIsIndexed
  /\ SimilarOnlyIfOverlapped
  /\ BusyIsPending
  /\ DuplicateHasOriginal

LEMMA RaceInit == Init => RaceInv
BY DEF Init, RaceInv, BusyOverlap, AddIsExcused, NearIsIndexed, Busy,
       BusyIsPending, SimilarOnlyIfOverlapped, DuplicateHasOriginal

LEMMA RaceStep ==
  ASSUME TypeOK, RaceInv, [Next]_vars
  PROVE  RaceInv'
<1> USE DEF RaceInv
<1>0. /\ pc \in [Callers -> {"idle", "search", "decide"}]
      /\ doc \in [Callers -> Docs \cup {None}]
      /\ near \in [Callers -> Docs \cup {None}]
      /\ \A c \in Busy : c \in Callers /\ doc[c] \in Docs
      /\ \A b, c \in Busy : doc[b] = doc[c] => b = c
      /\ index \subseteq Docs
      /\ verdict \in [Docs -> {"pending", "new", "duplicate"}]
      /\ nearest \in [Docs -> Docs \cup {None}]
  BY DEF TypeOK, Busy
<1>1. ASSUME NEW c \in Callers, NEW d \in Docs, Call(c, d)
      PROVE  RaceInv'
  <2>1. /\ Busy' = Busy \cup {c} /\ c \notin Busy
        /\ doc'[c] = d /\ pc'[c] = "search"
        /\ \A b \in Busy : doc'[b] = doc[b] /\ pc'[b] = pc[b]
        /\ overlapped' = overlapped \cup {{d, doc[b]} : b \in Busy}
        /\ UNCHANGED <<near, index, verdict, nearest, missed>>
    BY <1>0, <1>1 DEF Call, Busy
  <2>2. BusyOverlap'
    BY <2>1 DEF BusyOverlap
  <2>3. AddIsExcused'
    BY <2>1 DEF AddIsExcused, IsDup
  <2>4. NearIsIndexed'
    BY <2>1 DEF NearIsIndexed
  <2>5. SimilarOnlyIfOverlapped' /\ DuplicateHasOriginal'
    BY <2>1 DEF SimilarOnlyIfOverlapped, DuplicateHasOriginal
  <2>6. BusyIsPending'
    BY <1>1, <2>1 DEF Call, BusyIsPending
  <2>. QED
    BY <2>2, <2>3, <2>4, <2>5, <2>6
<1>2. ASSUME NEW c \in Callers, Search(c)
      PROVE  RaceInv'
  <2>1. PICK n \in Neighbours(doc[c]) :
          /\ near' = [near EXCEPT ![c] = n]
          /\ missed' = IF Misses(doc[c], n) THEN missed \cup {doc[c]} ELSE missed
    BY <1>2 DEF Search
  <2>2. /\ Busy' = Busy /\ c \in Busy
        /\ pc' = [pc EXCEPT ![c] = "decide"]
        /\ UNCHANGED <<doc, index, verdict, nearest, overlapped>>
    BY <1>0, <1>2 DEF Search, Busy
  <2>3. n \in index \cup {None} /\ (n = None => index = {})
    BY <1>0, <2>1 DEF Neighbours
  <2>4. /\ near'[c] = n
        /\ \A b \in Busy : b # c => near'[b] = near[b] /\ pc'[b] = pc[b]
        /\ missed \subseteq missed'
    BY <1>0, <2>1, <2>2
  <2>5. AddIsExcused'
    <3>1. SUFFICES ASSUME NEW b \in Busy, pc'[b] = "decide", ~IsDup(b)',
                          NEW e \in index, Similar(doc[b], e)
                   PROVE  {doc[b], e} \in overlapped \/ doc[b] \in missed'
      BY <2>2 DEF AddIsExcused
    <3>2. CASE b = c
      <4>1. ~Similar(doc[c], n)
        BY <2>2, <2>3, <2>4, <3>1, <3>2 DEF IsDup
      <4>2. Misses(doc[c], n)
        BY <3>1, <3>2, <4>1 DEF Misses
      <4>. QED
        BY <2>1, <3>2, <4>2
    <3>3. CASE b # c
      BY <2>2, <2>4, <3>1, <3>3 DEF AddIsExcused, IsDup
    <3>. QED
      BY <3>2, <3>3
  <2>6. NearIsIndexed'
    BY <2>2, <2>3, <2>4 DEF NearIsIndexed
  <2>7. SimilarOnlyIfOverlapped'
    BY <2>2, <2>4 DEF SimilarOnlyIfOverlapped
  <2>8. BusyOverlap' /\ BusyIsPending' /\ DuplicateHasOriginal'
    BY <2>2 DEF BusyOverlap, BusyIsPending, DuplicateHasOriginal
  <2>. QED
    BY <2>5, <2>6, <2>7, <2>8
<1>3. ASSUME NEW c \in Callers, Index(c)
      PROVE  RaceInv'
  <2>1. /\ c \in Busy /\ pc[c] = "decide" /\ ~IsDup(c)
        /\ Busy' = Busy \ {c}
        /\ \A b \in Busy' : /\ doc'[b] = doc[b]
                            /\ pc'[b] = pc[b]
                            /\ near'[b] = near[b]
        /\ index' = index \cup {doc[c]}
        /\ verdict' = [verdict EXCEPT ![doc[c]] = "new"]
        /\ nearest' = [nearest EXCEPT ![doc[c]] = near[c]]
        /\ overlapped' = overlapped /\ missed' = missed
    BY <1>0, <1>3 DEF Index, Return, Busy
  <2>2. BusyOverlap' /\ NearIsIndexed'
    BY <2>1 DEF BusyOverlap, NearIsIndexed
  <2>3. AddIsExcused'
    BY <2>1 DEF AddIsExcused, BusyOverlap, IsDup
  <2>4. SimilarOnlyIfOverlapped'
    <3>1. SUFFICES ASSUME NEW x \in index', NEW y \in index',
                          x # y, Similar(x, y)
                   PROVE  {x, y} \in overlapped \/ {x, y} \cap missed # {}
      BY <2>1 DEF SimilarOnlyIfOverlapped
    <3>2. CASE x \in index /\ y \in index
      BY <3>1, <3>2 DEF SimilarOnlyIfOverlapped
    <3>3. CASE x = doc[c] /\ y \in index
      BY <2>1, <3>1, <3>3 DEF AddIsExcused
    <3>4. CASE y = doc[c] /\ x \in index
      <4>1. Similar(y, x)
        BY <1>0, <2>1, <3>1, <3>4
      <4>2. {y, x} \in overlapped \/ y \in missed
        BY <2>1, <3>1, <3>4, <4>1 DEF AddIsExcused
      <4>. QED
        BY <4>2
    <3>. QED
      BY <2>1, <3>1, <3>2, <3>3, <3>4
  <2>5. DuplicateHasOriginal'
    BY <1>0, <2>1 DEF DuplicateHasOriginal
  <2>6. BusyIsPending'
    BY <1>0, <2>1 DEF BusyIsPending
  <2>. QED
    BY <2>2, <2>3, <2>4, <2>5, <2>6
<1>4. ASSUME NEW c \in Callers, Reject(c)
      PROVE  RaceInv'
  <2>1. /\ c \in Busy /\ pc[c] = "decide" /\ IsDup(c)
        /\ Busy' = Busy \ {c}
        /\ \A b \in Busy' : /\ doc'[b] = doc[b]
                            /\ pc'[b] = pc[b]
                            /\ near'[b] = near[b]
        /\ index' = index
        /\ verdict' = [verdict EXCEPT ![doc[c]] = "duplicate"]
        /\ nearest' = [nearest EXCEPT ![doc[c]] = near[c]]
        /\ overlapped' = overlapped /\ missed' = missed
    BY <1>0, <1>4 DEF Reject, Return, Busy
  <2>2. BusyOverlap' /\ NearIsIndexed' /\ SimilarOnlyIfOverlapped'
    BY <2>1 DEF BusyOverlap, NearIsIndexed, SimilarOnlyIfOverlapped
  <2>3. AddIsExcused'
    BY <2>1 DEF AddIsExcused, IsDup
  <2>4. DuplicateHasOriginal'
    <3>1. near[c] \in index /\ Similar(doc[c], near[c])
      BY <2>1 DEF NearIsIndexed, IsDup
    <3>. QED
      BY <1>0, <2>1, <3>1 DEF DuplicateHasOriginal
  <2>5. BusyIsPending'
    BY <1>0, <2>1 DEF BusyIsPending
  <2>. QED
    BY <2>2, <2>3, <2>4, <2>5
<1>5. CASE UNCHANGED vars
  BY <1>5 DEF vars, Busy, BusyOverlap, AddIsExcused, NearIsIndexed, IsDup,
              BusyIsPending, SimilarOnlyIfOverlapped, DuplicateHasOriginal
<1>. QED
  BY <1>1, <1>2, <1>3, <1>4, <1>5 DEF Next, Finished

LEMMA RaceInvariant == Spec => [](TypeOK /\ RaceInv)
<1>1. Init => TypeOK /\ RaceInv
  BY DedupInitType, RaceInit
<1>2. TypeOK /\ RaceInv /\ [Next]_vars => (TypeOK /\ RaceInv)'
  BY DedupStepType, RaceStep
<1>. QED
  BY <1>1, <1>2, PTL DEF Spec

(***************************************************************************)
(* However many workers share the index, two similar documents are both    *)
(* indexed only if the two calls of DedupAndIndex overlapped in time.      *)
(***************************************************************************)
THEOREM DuplicatesNeedOverlap == Spec => []SimilarOnlyIfOverlapped
BY RaceInvariant, PTL DEF RaceInv

(***************************************************************************)
(* Also when calls race and the search is approximate, a document reported *)
(* as a duplicate has a similar document in the index, and keeps it.       *)
(***************************************************************************)
THEOREM DuplicatesAreCovered == Spec => []DuplicateHasOriginal
BY RaceInvariant, PTL DEF RaceInv

-----------------------------------------------------------------------------
LEMMA AtomicStep ==
  ASSUME TypeOK, RaceInv, [Next]_vars
  PROVE  [Atomic!Next]_<<index, verdict, Disturbed>>
<1>0. /\ doc \in [Callers -> Docs \cup {None}]
      /\ \A c \in Busy : doc[c] \in Docs /\ verdict[doc[c]] = "pending"
  BY DEF TypeOK, RaceInv, BusyIsPending, Busy
<1>1. ASSUME NEW c \in Callers, Index(c)
      PROVE  Atomic!Next
  <2>1. c \in Busy /\ Disturbed' = Disturbed
    BY <1>1 DEF Index, Busy, Disturbed
  <2>2. doc[c] \in Disturbed \/ \A e \in index : ~Similar(doc[c], e)
    BY <1>1, <2>1 DEF Index, RaceInv, AddIsExcused, Disturbed
  <2>3. Atomic!IndexNew(doc[c])
    BY <1>0, <1>1, <2>1, <2>2 DEF Index, Return, Atomic!IndexNew
  <2>. QED
    BY <1>0, <2>1, <2>3 DEF Atomic!Next
<1>2. ASSUME NEW c \in Callers, Reject(c)
      PROVE  Atomic!Next
  <2>1. c \in Busy /\ Disturbed' = Disturbed
    BY <1>2 DEF Reject, Busy, Disturbed
  <2>2. near[c] \in index /\ Similar(doc[c], near[c])
    BY <1>2, <2>1 DEF Reject, IsDup, RaceInv, NearIsIndexed
  <2>3. Atomic!RejectDuplicate(doc[c])
    BY <1>0, <1>2, <2>1, <2>2 DEF Reject, Return, Atomic!RejectDuplicate
  <2>. QED
    BY <1>0, <2>1, <2>3 DEF Atomic!Next
<1>3. ASSUME NEW c \in Callers, Search(c) \/ \E d \in Docs : Call(c, d)
      PROVE  Atomic!Next
  <2>1. /\ missed \subseteq missed' /\ overlapped \subseteq overlapped'
        /\ UNCHANGED <<index, verdict>>
    BY <1>3 DEF Search, Call
  <2>. QED
    BY <2>1 DEF Disturbed, Atomic!Next, Atomic!Excuse
<1>4. CASE UNCHANGED vars
  BY <1>4 DEF vars, Disturbed
<1>. QED
  BY <1>1, <1>2, <1>3, <1>4 DEF Next, Finished

(***************************************************************************)
(* Although the lock is released between search and add, the index         *)
(* implements atomic deduplication for all documents but those whose call  *)
(* another one overlapped or whose search missed.                          *)
(***************************************************************************)
THEOREM UndisturbedCallsAreAtomic == Spec => ImplementsAtomicDedup
<1>1. Init => Atomic!Init
  BY DEF Init, Atomic!Init, Disturbed
<1>2. TypeOK /\ RaceInv /\ [Next]_vars
        => [Atomic!Next]_<<index, verdict, Disturbed>>
  BY AtomicStep
<1>. QED
  BY <1>1, <1>2, RaceInvariant, PTL DEF Spec, ImplementsAtomicDedup, Atomic!Spec

(***************************************************************************)
(* With one worker in the index stage, as in main.go, no calls overlap, so *)
(* only a search that misses can let a similar document into the index.    *)
(***************************************************************************)
THEOREM OneCallerNeverOverlaps ==
  ASSUME \A b, c \in Callers : b = c
  PROVE  Spec => [](overlapped = {})
<1>1. Init => overlapped = {}
  BY DEF Init
<1>2. overlapped = {} /\ [Next]_vars => (overlapped = {})'
  <2>1. ASSUME NEW c \in Callers, NEW d \in Docs, Call(c, d), overlapped = {}
        PROVE  overlapped' = {}
    <3>1. Busy = {}
      BY <2>1 DEF Call, Busy
    <3>. QED
      BY <2>1, <3>1 DEF Call
  <2>. QED
    BY <2>1 DEF Next, Search, Index, Reject, Finished, vars
<1>. QED
  BY <1>1, <1>2, PTL DEF Spec

-----------------------------------------------------------------------------
\* A loop of n rounds over values of V, and what it computes from c.
Rounds(V, n) == [1 .. n -> [V -> V]]
Computes(g, c, n, F) == g[0] = c /\ \A k \in 1 .. n : g[k] = F[k][g[k - 1]]

(***************************************************************************)
(* A recursive function whose value at k is made of that at k - 1 exists.  *)
(***************************************************************************)
LEMMA PrefixRecursion ==
  ASSUME NEW V, NEW c \in V, NEW n \in Nat, NEW F \in Rounds(V, n)
  PROVE  \E g \in [0 .. n -> V] : Computes(g, c, n, F)
<1> USE DEF Rounds
<1> DEFINE Good(g, m) == g[0] = c /\ \A k \in 1 .. m : g[k] = F[k][g[k - 1]]
           S == {m \in Nat : m <= n => \E g \in [0 .. m -> V] : Good(g, m)}
<1>1. 0 \in S
  <2> DEFINE g == [k \in 0 .. 0 |-> c]
  <2>1. g \in [0 .. 0 -> V] /\ Good(g, 0)
    OBVIOUS
  <2> QED
    BY <2>1
<1>2. ASSUME NEW m \in Nat, m \in S
      PROVE  m + 1 \in S
  <2>1. SUFFICES ASSUME m + 1 <= n
                 PROVE  \E g \in [0 .. m + 1 -> V] : Good(g, m + 1)
    OBVIOUS
  <2>2. PICK g \in [0 .. m -> V] : Good(g, m)
    BY <1>2, <2>1
  <2> DEFINE h == [k \in 0 .. m + 1 |-> IF k = m + 1 THEN F[m + 1][g[m]] ELSE g[k]]
  <2>3. F[m + 1] \in [V -> V] /\ g[m] \in V
    BY <2>1
  <2>4. h \in [0 .. m + 1 -> V]
    BY <2>3
  <2>5. h[0] = c /\ h[m + 1] = F[m + 1][g[m]] /\ \A k \in 0 .. m : h[k] = g[k]
    BY <2>2
  <2> HIDE DEF h
  <2>6. \A k \in 1 .. m + 1 : h[k] = F[k][h[k - 1]]
    <3> TAKE k \in 1 .. m + 1
    <3>1. CASE k = m + 1
      BY <2>5, <3>1
    <3>2. CASE k # m + 1
      <4>1. k \in 1 .. m /\ k \in 0 .. m /\ k - 1 \in 0 .. m
        BY <3>2
      <4> QED
        BY <2>2, <2>5, <4>1
    <3> QED
      BY <3>1, <3>2
  <2> QED
    BY <2>4, <2>5, <2>6
<1> HIDE DEF S
<1>3. n \in S
  BY <1>1, <1>2, Induct
<1> QED
  BY <1>3 DEF S, Computes

\* The vectors of Embed, and what it does for a term.
Vecs == [0 .. Dim - 1 -> Int]
At(term)   == HashOf(term) % Dim
Sign(term) == IF HashOf(term) % 2 = 1 THEN -1 ELSE 1
Count(vec, term) == [vec EXCEPT ![At(term)] = @ + Sign(term)]

(***************************************************************************)
(* The loop of Dot adds one product after the other.                       *)
(***************************************************************************)
LEMMA DotValue ==
  ASSUME NEW u \in Vecs, NEW v \in Vecs
  PROVE  \E g \in [0 .. Dim -> Int] :
           /\ g[0] = 0
           /\ \A k \in 1 .. Dim : g[k] = g[k - 1] + u[k - 1] * v[k - 1]
           /\ Dot(u, v) = g[Dim]
<1> DEFINE F == [k \in 1 .. Dim |-> [x \in Int |-> x + u[k - 1] * v[k - 1]]]
           Body(f, k) == IF k = 0 THEN 0 ELSE f[k - 1] + u[k - 1] * v[k - 1]
           sum == CHOOSE f : f = [k \in 0 .. Dim |-> Body(f, k)]
<1>0. Dim \in Nat \ {0}
  BY DocumentsAssumption
<1>1. \A k \in 1 .. Dim : u[k - 1] * v[k - 1] \in Int
  <2> TAKE k \in 1 .. Dim
  <2>1. u[k - 1] \in Int /\ v[k - 1] \in Int
    BY <1>0 DEF Vecs
  <2> QED
    BY <2>1
<1>2. F \in Rounds(Int, Dim)
  BY <1>1 DEF Rounds
<1>3. \A k \in 1 .. Dim, x \in Int : F[k][x] = x + u[k - 1] * v[k - 1]
  OBVIOUS
<1> HIDE DEF F
<1>4. PICK g \in [0 .. Dim -> Int] : g[0] = 0 /\ \A k \in 1 .. Dim : g[k] = F[k][g[k - 1]]
  <2>1. 0 \in Int /\ Dim \in Nat
    BY <1>0
  <2>2. \E g \in [0 .. Dim -> Int] : Computes(g, 0, Dim, F)
    BY <1>2, <2>1, PrefixRecursion
  <2> QED
    BY <2>2 DEF Computes
<1>5. \A k \in 1 .. Dim : g[k] = g[k - 1] + u[k - 1] * v[k - 1]
  <2> TAKE k \in 1 .. Dim
  <2>1. k - 1 \in 0 .. Dim
    BY <1>0
  <2>2. g[k - 1] \in Int
    BY <2>1
  <2> QED
    BY <1>3, <1>4, <2>2
<1>6. g = [k \in 0 .. Dim |-> Body(g, k)]
  BY <1>0, <1>4, <1>5
<1>7. sum = [k \in 0 .. Dim |-> Body(sum, k)]
  BY <1>6
<1>8. Dot(u, v) = sum[Dim]
  BY DEF Dot
<1> HIDE DEF sum
<1>9. \A k \in 0 .. Dim : sum[k] = g[k]
  <2> DEFINE S == {k \in Nat : k <= Dim => sum[k] = g[k]}
  <2>1. 0 \in S
    BY <1>4, <1>7
  <2>2. ASSUME NEW k \in Nat, k \in S PROVE k + 1 \in S
    <3>1. SUFFICES ASSUME k + 1 <= Dim PROVE sum[k + 1] = g[k + 1]
      OBVIOUS
    <3>2. k + 1 \in 1 .. Dim /\ k + 1 \in 0 .. Dim /\ k + 1 # 0 /\ (k + 1) - 1 = k
      BY <1>0, <3>1
    <3>3. g[k + 1] = g[k] + u[k] * v[k]
      BY <1>5, <3>2
    <3>4. sum[k + 1] = sum[k] + u[k] * v[k]
      BY <1>7, <3>2
    <3>5. k <= Dim
      BY <1>0, <3>1
    <3>6. sum[k] = g[k]
      BY <2>2, <3>5
    <3> QED
      BY <3>3, <3>4, <3>6
  <2> HIDE DEF S
  <2>3. Nat \subseteq S
    BY <2>1, <2>2, Induct
  <2> QED
    BY <1>0, <2>3 DEF S
<1>10. Dot(u, v) = g[Dim]
  BY <1>0, <1>8, <1>9
<1> QED
  BY <1>4, <1>5, <1>10

(***************************************************************************)
(* A vector that is not zero everywhere has a positive length.             *)
(***************************************************************************)
LEMMA SquarePositive ==
  ASSUME NEW v \in Vecs, NEW j \in 0 .. Dim - 1, v[j] # 0
  PROVE  Dot(v, v) \in Int /\ Dot(v, v) > 0
<1>0. Dim \in Nat \ {0}
  BY DocumentsAssumption
<1>1. PICK g \in [0 .. Dim -> Int] :
        /\ g[0] = 0
        /\ \A k \in 1 .. Dim : g[k] = g[k - 1] + v[k - 1] * v[k - 1]
        /\ Dot(v, v) = g[Dim]
  BY DotValue
<1>2. \A x \in Int : x * x \in Int /\ x * x >= 0 /\ (x # 0 => x * x > 0)
  OBVIOUS
<1> DEFINE S == {k \in Nat : k <= Dim => g[k] >= 0 /\ (j < k => g[k] > 0)}
<1>3. 0 \in S
  BY <1>1
<1>4. ASSUME NEW k \in Nat, k \in S PROVE k + 1 \in S
  <2>1. SUFFICES ASSUME k + 1 <= Dim
                 PROVE  g[k + 1] >= 0 /\ (j < k + 1 => g[k + 1] > 0)
    OBVIOUS
  <2>2. k + 1 \in 1 .. Dim /\ (k + 1) - 1 = k /\ k \in 0 .. Dim /\ k \in 0 .. Dim - 1
    BY <1>0, <2>1
  <2>3. g[k + 1] = g[k] + v[k] * v[k]
    BY <1>1, <2>2
  <2>4. v[k] \in Int /\ g[k] \in Int
    BY <2>2 DEF Vecs
  <2> DEFINE sq == v[k] * v[k]
  <2>5. sq \in Int /\ sq >= 0 /\ (v[k] # 0 => sq > 0)
    BY <1>2, <2>4
  <2> HIDE DEF sq
  <2>6. g[k + 1] = g[k] + sq
    BY <2>3 DEF sq
  <2>7. g[k] >= 0 /\ (j < k => g[k] > 0)
    <3>1. k <= Dim
      BY <1>0, <2>1
    <3> QED
      BY <1>4, <3>1
  <2>8. j < k + 1 => j < k \/ j = k
    OBVIOUS
  <2> QED
    BY <2>1, <2>4, <2>5, <2>6, <2>7, <2>8
<1> HIDE DEF S
<1>5. Dim \in S
  BY <1>0, <1>3, <1>4, Induct
<1>6. Dim \in 0 .. Dim /\ j < Dim
  BY <1>0
<1> QED
  BY <1>1, <1>5, <1>6 DEF S

(***************************************************************************)
(* A vector of positive length reaches every threshold with itself.        *)
(***************************************************************************)
LEMMA ReachesItself ==
  ASSUME NEW v \in Vecs, Dot(v, v) \in Int, Dot(v, v) > 0
  PROVE  Reaches(v, v)
<1> DEFINE D == Dot(v, v)
           P == Percent
<1> HIDE DEF D
<1>1. D \in Nat /\ D > 0 /\ D * D \in Nat
  BY DEF D
<1>2. P \in Nat /\ P <= 100 /\ P * P \in Nat
  BY DocumentsAssumption
<1>3. P * P <= 10000
  <2>1. P * P <= P * 100
    BY <1>2
  <2> QED
    BY <1>2, <2>1
<1>4. 10000 * D * D = 10000 * (D * D) /\ P * P * D * D = (P * P) * (D * D)
  BY <1>1, <1>2
<1>5. ASSUME NEW a \in Nat, NEW b \in Nat, a <= 10000
      PROVE  10000 * b >= a * b
  BY <1>5
<1>6. 10000 * (D * D) >= (P * P) * (D * D)
  BY <1>1, <1>2, <1>3, <1>5
<1> QED
  BY <1>1, <1>4, <1>6 DEF D, Reaches

(***************************************************************************)
(* With an even dimension, the place of a term tells the parity of its     *)
(* hash.                                                                   *)
(***************************************************************************)
LEMMA SignByPlace ==
  ASSUME Dim % 2 = 0, NEW h \in Nat
  PROVE  h % Dim \in 0 .. Dim - 1 /\ (h % Dim) % 2 = h % 2
<1> DEFINE c == Dim \div 2
           q == h \div Dim
           r == h % Dim
<1>0. Dim \in Nat \ {0}
  BY DocumentsAssumption
<1>1. h = Dim * q + r /\ r \in 0 .. Dim - 1 /\ q \in Nat
  BY <1>0
<1>2. Dim = 2 * c /\ c \in Nat
  BY <1>0
<1> HIDE DEF c, q, r
<1>3. Dim * q = 2 * (c * q) /\ c * q \in Nat
  BY <1>1, <1>2
<1> DEFINE p == c * q
<1> HIDE DEF p
<1>4. h = 2 * p + r /\ p \in Nat /\ r \in Nat
  BY <1>0, <1>1, <1>3 DEF p
<1>5. r % 2 = h % 2
  BY <1>4
<1> QED
  BY <1>1, <1>5 DEF r

(***************************************************************************)
(* The loop of Embed counts one term after the other.                      *)
(***************************************************************************)
LEMMA EmbedValue ==
  ASSUME NEW tokens, NEW n \in Nat, DOMAIN tokens = 1 .. n, Len(tokens) = n,
         \A k \in 1 .. n : HashOf(tokens[k]) \in Nat
  PROVE  \E g \in [0 .. n -> Vecs] :
           /\ g[0] = Zeros
           /\ \A k \in 1 .. n : g[k] = Count(g[k - 1], tokens[k])
           /\ Embed(tokens) = g[n]
<1> DEFINE F == [k \in 1 .. n |-> [x \in Vecs |-> Count(x, tokens[k])]]
           Body(f, k) == IF k = 0 THEN Zeros ELSE Count(f[k - 1], tokens[k])
           vec == CHOOSE f : f = [k \in 0 .. n |-> Body(f, k)]
<1>0. Dim \in Nat \ {0}
  BY DocumentsAssumption
<1>1. \A k \in 1 .. n, x \in Vecs : Count(x, tokens[k]) \in Vecs
  <2> TAKE k \in 1 .. n, x \in Vecs
  <2>1. At(tokens[k]) \in 0 .. Dim - 1
    BY <1>0 DEF At
  <2>2. Sign(tokens[k]) \in Int
    BY DEF Sign
  <2>3. x[At(tokens[k])] + Sign(tokens[k]) \in Int
    BY <2>1, <2>2 DEF Vecs
  <2> QED
    BY <2>1, <2>3 DEF Vecs, Count
<1>2. F \in Rounds(Vecs, n)
  BY <1>1 DEF Rounds
<1>3. \A k \in 1 .. n, x \in Vecs : F[k][x] = Count(x, tokens[k])
  OBVIOUS
<1>z. Zeros \in Vecs
  BY DEF Zeros, Vecs
<1> HIDE DEF F
<1>4. PICK g \in [0 .. n -> Vecs] : g[0] = Zeros /\ \A k \in 1 .. n : g[k] = F[k][g[k - 1]]
  <2>1. \E g \in [0 .. n -> Vecs] : Computes(g, Zeros, n, F)
    BY <1>2, <1>z, PrefixRecursion
  <2> QED
    BY <2>1 DEF Computes
<1>5. \A k \in 1 .. n : g[k] = Count(g[k - 1], tokens[k])
  <2> TAKE k \in 1 .. n
  <2>1. k - 1 \in 0 .. n
    OBVIOUS
  <2>2. g[k - 1] \in Vecs
    BY <2>1
  <2> QED
    BY <1>3, <1>4, <2>2
<1>6. g = [k \in 0 .. n |-> Body(g, k)]
  BY <1>4, <1>5
<1>7. vec = [k \in 0 .. n |-> Body(vec, k)]
  BY <1>6
<1>8. Embed(tokens) = vec[n]
  BY DEF Embed, Count, At, Sign
<1> HIDE DEF vec
<1>9. vec[n] = g[n]
  <2> DEFINE S == {k \in Nat : k <= n => vec[k] = g[k]}
  <2>1. 0 \in S
    BY <1>4, <1>7
  <2>2. ASSUME NEW k \in Nat, k \in S PROVE k + 1 \in S
    <3>1. SUFFICES ASSUME k + 1 <= n PROVE vec[k + 1] = g[k + 1]
      OBVIOUS
    <3>2. k + 1 \in 1 .. n /\ k + 1 \in 0 .. n /\ k + 1 # 0 /\ (k + 1) - 1 = k /\ k <= n
      BY <3>1
    <3>3. g[k + 1] = Count(g[k], tokens[k + 1])
      BY <1>5, <3>2
    <3>4. vec[k + 1] = Count(vec[k], tokens[k + 1])
      BY <1>7, <3>2
    <3> QED
      BY <2>2, <3>2, <3>3, <3>4
  <2> HIDE DEF S
  <2>3. n \in S
    BY <2>1, <2>2, Induct
  <2> QED
    BY <2>3 DEF S
<1> QED
  BY <1>4, <1>5, <1>8, <1>9

(***************************************************************************)
(* Terms at one place count in one direction, up at even places and down   *)
(* at odd ones, so the place of the first term never returns to zero.      *)
(***************************************************************************)
LEMMA NoCancelling ==
  ASSUME Dim % 2 = 0, NEW tokens, NEW n \in Nat \ {0}, DOMAIN tokens = 1 .. n, Len(tokens) = n,
         \A k \in 1 .. n : HashOf(tokens[k]) \in Nat
  PROVE  /\ Embed(tokens) \in Vecs
         /\ \E j \in 0 .. Dim - 1 : Embed(tokens)[j] # 0
<1>0. Dim \in Nat \ {0} /\ n \in Nat
  BY DocumentsAssumption
<1>1. PICK g \in [0 .. n -> Vecs] :
        /\ g[0] = Zeros
        /\ \A k \in 1 .. n : g[k] = Count(g[k - 1], tokens[k])
        /\ Embed(tokens) = g[n]
  BY <1>0, EmbedValue
<1> DEFINE a == At(tokens[1])
           Signed(v) == \A j \in 0 .. Dim - 1 : IF j % 2 = 1 THEN v[j] <= 0 ELSE v[j] >= 0
           S == {k \in Nat : k <= n => Signed(g[k]) /\ (k > 0 => g[k][a] # 0)}
<1>2. 1 \in 1 .. n
  BY <1>0
<1>a. a \in 0 .. Dim - 1
  BY <1>0, <1>2, SignByPlace DEF At
<1>3. 0 \in S
  <2>1. Signed(Zeros)
    BY DEF Zeros
  <2> HIDE DEF Signed
  <2> QED
    BY <1>1, <2>1
<1>4. ASSUME NEW k \in Nat, k \in S PROVE k + 1 \in S
  <2> HIDE DEF Signed, a
  <2>1. SUFFICES ASSUME k + 1 <= n
                 PROVE  Signed(g[k + 1]) /\ g[k + 1][a] # 0
    OBVIOUS
  <2>2. k + 1 \in 1 .. n /\ (k + 1) - 1 = k /\ k <= n /\ k \in 0 .. n
    BY <1>0, <2>1
  <2> DEFINE t == tokens[k + 1]
             u == g[k]
             v == g[k + 1]
  <2>3. v = Count(u, t) /\ u \in Vecs /\ HashOf(t) \in Nat
    BY <1>1, <2>2
  <2>4. Signed(u) /\ (k > 0 => u[a] # 0)
    BY <1>4, <2>2
  <2>5. k = 0 => a = At(t)
    BY DEF a
  <2> HIDE DEF t, u, v
  <2>6. At(t) \in 0 .. Dim - 1 /\ At(t) % 2 = HashOf(t) % 2
    BY <2>3, SignByPlace DEF At
  <2>7. Sign(t) = IF At(t) % 2 = 1 THEN -1 ELSE 1
    BY <2>6 DEF Sign
  <2>8. \A j \in 0 .. Dim - 1 : v[j] = IF j = At(t) THEN u[j] + Sign(t) ELSE u[j]
    BY <2>3, <2>6 DEF Count, Vecs
  <2>9. \A j \in 0 .. Dim - 1 : u[j] \in Int
    BY <2>3 DEF Vecs
  <2>10. Signed(v) /\ v[At(t)] # 0
    <3>1. v[At(t)] = u[At(t)] + Sign(t) /\ u[At(t)] \in Int
      BY <2>6, <2>8, <2>9
    <3>2. CASE At(t) % 2 = 1
      <4>1. Sign(t) = -1 /\ u[At(t)] <= 0
        BY <2>4, <2>6, <2>7, <3>2 DEF Signed
      <4>2. v[At(t)] < 0 /\ v[At(t)] <= 0
        BY <3>1, <4>1
      <4>3. ASSUME NEW j \in 0 .. Dim - 1
            PROVE  IF j % 2 = 1 THEN v[j] <= 0 ELSE v[j] >= 0
        <5>1. CASE j = At(t)
          BY <3>2, <4>2, <5>1
        <5>2. CASE j # At(t)
          <6>1. v[j] = u[j]
            BY <2>8, <5>2
          <6> QED
            BY <2>4, <6>1 DEF Signed
        <5> QED
          BY <5>1, <5>2
      <4> QED
        BY <4>2, <4>3 DEF Signed
    <3>3. CASE ~(At(t) % 2 = 1)
      <4>1. Sign(t) = 1 /\ u[At(t)] >= 0
        BY <2>4, <2>6, <2>7, <3>3 DEF Signed
      <4>2. v[At(t)] > 0 /\ v[At(t)] >= 0
        BY <3>1, <4>1
      <4>3. ASSUME NEW j \in 0 .. Dim - 1
            PROVE  IF j % 2 = 1 THEN v[j] <= 0 ELSE v[j] >= 0
        <5>1. CASE j = At(t)
          BY <3>3, <4>2, <5>1
        <5>2. CASE j # At(t)
          <6>1. v[j] = u[j]
            BY <2>8, <5>2
          <6> QED
            BY <2>4, <6>1 DEF Signed
        <5> QED
          BY <5>1, <5>2
      <4> QED
        BY <4>2, <4>3 DEF Signed
    <3> QED
      BY <3>2, <3>3
  <2>11. v[a] # 0
    <3>1. CASE a = At(t)
      BY <2>10, <3>1
    <3>2. CASE a # At(t)
      BY <1>a, <2>4, <2>5, <2>8, <3>2
    <3> QED
      BY <3>1, <3>2
  <2> QED
    BY <2>10, <2>11 DEF v
<1> HIDE DEF S
<1>5. n \in S
  BY <1>0, <1>3, <1>4, Induct
<1>6. Embed(tokens)[a] # 0
  BY <1>0, <1>1, <1>5 DEF S
<1> QED
  BY <1>0, <1>1, <1>a, <1>6

(***************************************************************************)
(* What Tokenize returns has a first element, a second, and so on.         *)
(***************************************************************************)
LEMMA TokensAreSequences ==
  ASSUME NEW d \in Docs
  PROVE  \E n \in Nat : DOMAIN Tokens[d] = 1 .. n /\ Len(Tokens[d]) = n
<1> DEFINE text == ToLower(LoadData(d))
           first == {i \in DOMAIN text : IsLetter(text[i]) /\ (i = 1 \/ ~IsLetter(text[i - 1]))}
<1>1. \E m \in Int : DOMAIN LoadData(d) = 1 .. m
  BY EmbeddedAssumption DEF LoadData
<1>2. IsFiniteSet(DOMAIN text)
  BY <1>1, FS_Interval DEF ToLower
<1>3. Cardinality(first) \in Nat
  BY <1>2, FS_Subset, FS_CardinalityType
<1>4. Tokens[d] = Fields(text)
  BY DEF Tokens, Tokenize
<1> HIDE DEF text
<1>5. DOMAIN Fields(text) = 1 .. Cardinality(first)
  BY DEF Fields
<1>6. Len(Fields(text)) = Cardinality(first)
  BY <1>3, <1>5
<1> QED
  BY <1>3, <1>4, <1>5, <1>6

(***************************************************************************)
(* Whatever the hash, two documents with the same words, and at least one, *)
(* reach the threshold: no word cancels another out, so the vector they    *)
(* share is not zero.                                                      *)
(***************************************************************************)
THEOREM SameTextIsSimilar ==
  ASSUME NEW d \in Docs, NEW e \in Docs, Tokens[d] = Tokens[e], Tokens[d] # <<>>
  PROVE  Similar(d, e)
<1>1. PICK n \in Nat : DOMAIN Tokens[d] = 1 .. n /\ Len(Tokens[d]) = n
  BY TokensAreSequences
<1>2. n # 0
  BY <1>1
<1>3. \A k \in 1 .. n : HashOf(Tokens[d][k]) \in Nat
  BY <1>1, EmbeddedAssumption
<1>4. Dim % 2 = 0
  BY EmbeddedAssumption
<1> DEFINE v == Embed(Tokens[d])
<1>5. v \in Vecs /\ \E j \in 0 .. Dim - 1 : v[j] # 0
  BY <1>1, <1>2, <1>3, <1>4, NoCancelling
<1>6. Vectors[d] = v /\ Vectors[e] = v
  BY DEF Vectors
<1> HIDE DEF v
<1>7. Reaches(v, v)
  BY <1>5, SquarePositive, ReachesItself
<1>8. SimilarDocs(d, e) = Reaches(Vectors[d], Vectors[e])
  BY DEF SimilarDocs, Alike
<1> QED
  BY <1>6, <1>7, <1>8, EmbeddedAssumption

(***************************************************************************)
(* Two documents with the same words are a case of two similar ones.       *)
(***************************************************************************)
LEMMA FromSimilar ==
  ASSUME TypeOK, SimilarOnlyIfOverlapped
  PROVE  SameTextIndexedOnce
<1>1. index \subseteq Docs
  BY DEF TypeOK
<1> QED
  BY <1>1, SameTextIsSimilar DEF SimilarOnlyIfOverlapped, SameTextIndexedOnce

(***************************************************************************)
(* However many workers share the index, whatever the file and the hash: a *)
(* text is indexed twice, in whatever case and however separated, only if  *)
(* two calls overlapped or a search missed.                                *)
(***************************************************************************)
THEOREM SameTextOnce == Spec => []SameTextIndexedOnce
<1>1. TypeOK /\ RaceInv => SameTextIndexedOnce
  BY FromSimilar DEF RaceInv
<1>. QED
  BY <1>1, RaceInvariant, PTL
=============================================================================
