----------------------------- MODULE DedupIndex -----------------------------
(***************************************************************************)
(* EmbeddingIndex.DedupAndIndex of                                         *)
(* applications/doc-pipeline/internal/index/index.go, called by the        *)
(* workers of the index stage.                                             *)
(*                                                                         *)
(* The nearest neighbour is searched under the read lock and the document  *)
(* is added under the write lock: each is one step, and nothing is held    *)
(* between them.  Embeddings are abstracted to the relation Similar, which *)
(* says whether the cosine similarity reaches the threshold.  The graph    *)
(* library is external: its search is approximate, and may overlook the    *)
(* nearest neighbour.                                                      *)
(***************************************************************************)
EXTENDS Integers, FiniteSets

CONSTANTS
  Callers,        \* the goroutines that call DedupAndIndex
  Docs,           \* documents, with distinct IDs (see LoadGenerator)
  None,
  Similar(_, _)   \* similarity >= dedupThreshold

ASSUME DedupAssumption ==
  /\ None \notin Docs
  /\ \A d, e \in Docs : Similar(d, e) \in BOOLEAN
  /\ \A d, e \in Docs : Similar(d, e) = Similar(e, d)

VARIABLES
  pc,          \* per caller: "idle", "search" or "decide"
  doc,         \* per caller: the document it judges, or None
  near,        \* per caller: the neighbour it found, or None
  index,       \* keys of the graph
  verdict,     \* per document: "pending", "new" or "duplicate"
  nearest,     \* per document: NearestID of its DedupResult, or None
  processed,   \* counter behind IncTotalProcessedDocumentsForIndexing
  duplicates,  \* counter behind IncTotalDuplicateDocuments
  overlapped,  \* history: pairs of documents whose calls overlapped in time
  missed       \* history: documents whose search overlooked a similar one

vars == <<pc, doc, near, index, verdict, nearest, processed, duplicates, overlapped,
          missed>>

Busy == {c \in Callers : pc[c] # "idle"}

Init ==
  /\ pc = [c \in Callers |-> "idle"]
  /\ doc = [c \in Callers |-> None]
  /\ near = [c \in Callers |-> None]
  /\ index = {}
  /\ verdict = [d \in Docs |-> "pending"]
  /\ nearest = [d \in Docs |-> None]
  /\ processed = 0
  /\ duplicates = 0
  /\ overlapped = {}
  /\ missed = {}

-----------------------------------------------------------------------------
\* SearchWithDistance(vec, 1): what the search may return.
Neighbours(d) == IF index = {} THEN {None} ELSE index

\* The search of d returned n although a similar document was there.
Misses(d, n) == (\E e \in index : Similar(d, e)) /\ ~Similar(d, n)

\* Slip: any neighbour counts.
IsDupIfAny(c) == near[c] # None

IsDup(c) == near[c] # None /\ Similar(doc[c], near[c])

Return(c, v) ==
  /\ verdict' = [verdict EXCEPT ![doc[c]] = v]
  /\ nearest' = [nearest EXCEPT ![doc[c]] = near[c]]
  /\ pc' = [pc EXCEPT ![c] = "idle"]
  /\ doc' = [doc EXCEPT ![c] = None]
  /\ near' = [near EXCEPT ![c] = None]

\* Slips, told from the code by the properties below.
IndexUnchecked(c) ==
  /\ pc[c] = "decide"
  /\ index' = index \cup {doc[c]}
  /\ Return(c, "new")
  /\ UNCHANGED <<processed, duplicates, overlapped, missed>>

\* A worker of the stage calls DedupAndIndex on a document it received.
Call(c, d) ==
  /\ pc[c] = "idle"
  /\ verdict[d] = "pending"
  /\ \A b \in Busy : doc[b] # d
  /\ pc' = [pc EXCEPT ![c] = "search"]
  /\ doc' = [doc EXCEPT ![c] = d]
  /\ processed' = processed + 1
  /\ overlapped' = overlapped \cup {{d, doc[b]} : b \in Busy}
  /\ UNCHANGED <<near, index, verdict, nearest, duplicates, missed>>

\* RLock .. RUnlock.
Search(c) ==
  /\ pc[c] = "search"
  /\ \E n \in Neighbours(doc[c]) :
       /\ near' = [near EXCEPT ![c] = n]
       /\ missed' = IF Misses(doc[c], n) THEN missed \cup {doc[c]} ELSE missed
  /\ pc' = [pc EXCEPT ![c] = "decide"]
  /\ UNCHANGED <<doc, index, verdict, nearest, processed, duplicates, overlapped>>

\* Lock .. Unlock, on whatever the index holds by now.
Index(c) ==
  /\ pc[c] = "decide"
  /\ ~IsDup(c)
  /\ index' = index \cup {doc[c]}
  /\ Return(c, "new")
  /\ UNCHANGED <<processed, duplicates, overlapped, missed>>

Reject(c) ==
  /\ pc[c] = "decide"
  /\ IsDup(c)
  /\ duplicates' = duplicates + 1
  /\ Return(c, "duplicate")
  /\ UNCHANGED <<index, processed, overlapped, missed>>

Finished ==
  /\ \A d \in Docs : verdict[d] # "pending"
  /\ UNCHANGED vars

Next ==
  \/ \E c \in Callers : \/ \E d \in Docs : Call(c, d)
                        \/ Search(c) \/ Index(c) \/ Reject(c)
  \/ Finished

Spec == Init /\ [][Next]_vars

-----------------------------------------------------------------------------
(***************************************************************************)
(* Type invariant.                                                         *)
(***************************************************************************)
TypeOK ==
  /\ pc \in [Callers -> {"idle", "search", "decide"}]
  /\ doc \in [Callers -> Docs \cup {None}]
  /\ \A c \in Callers : doc[c] = None <=> c \notin Busy
  /\ near \in [Callers -> Docs \cup {None}]
  /\ index \subseteq Docs
  /\ verdict \in [Docs -> {"pending", "new", "duplicate"}]
  /\ nearest \in [Docs -> Docs \cup {None}]
  /\ processed \in Nat
  /\ duplicates \in Nat
  /\ overlapped \subseteq SUBSET Docs
  /\ missed \subseteq Docs
  /\ \A b, c \in Busy : doc[b] = doc[c] => b = c

(***************************************************************************)
(* The lock is released between the search and the add, so two similar     *)
(* documents can both be indexed; but only if their calls overlapped, or   *)
(* the search for one of them missed.  Calls that follow each other never  *)
(* index a duplicate, however many other calls run beside them.            *)
(***************************************************************************)
SimilarOnlyIfOverlapped ==
  \A d, e \in index :
    d # e /\ Similar(d, e) => {d, e} \in overlapped \/ {d, e} \cap missed # {}

(***************************************************************************)
(* A document reported as a duplicate has its NearestID in the index for   *)
(* good, and is similar to it, also when other calls changed the index     *)
(* after the search: the pipeline drops only documents it has a near copy  *)
(* of.                                                                     *)
(***************************************************************************)
DuplicateHasOriginal ==
  \A d \in Docs : verdict[d] = "duplicate" =>
    /\ nearest[d] \in index
    /\ Similar(d, nearest[d])

\* Documents not judged by an undisturbed call.
Disturbed == missed \cup UNION overlapped

Atomic == INSTANCE AtomicDedup WITH excused <- Disturbed

(***************************************************************************)
(* Every call that no other overlapped, and whose search missed nothing,   *)
(* acts as if both of its critical sections were one, also while other     *)
(* calls race.  With the one caller main.go configures, no call overlaps.  *)
(***************************************************************************)
ImplementsAtomicDedup == Atomic!Spec
=============================================================================
