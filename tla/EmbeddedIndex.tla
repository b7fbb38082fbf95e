--------------------------- MODULE EmbeddedIndex ---------------------------
(***************************************************************************)
(* DedupIndex and Documents together: the documents are slices of the      *)
(* file, and two of them are similar if their embeddings are.              *)
(***************************************************************************)
EXTENDS DedupIndex, Documents

Tokens  == [d \in Docs |-> Tokenize(LoadData(d))]
Vectors == [d \in Docs |-> Embed(Tokens[d])]
Alike   == [d \in Docs |-> [e \in Docs |-> Reaches(Vectors[d], Vectors[e])]]
SimilarDocs(d, e) == Alike[d][e]

\* Hashes are unsigned, and main.go's dimension is even.
ASSUME EmbeddedAssumption ==
  /\ \A d, e \in Docs : Similar(d, e) = SimilarDocs(d, e)
  /\ \A d \in Docs : d.Offset \in Nat /\ d.TextSize \in Nat
  /\ File \in Seq({File[i] : i \in DOMAIN File})
  /\ \A d \in Docs : \A k \in DOMAIN Tokens[d] : HashOf(Tokens[d][k]) \in Nat
  /\ Dim % 2 = 0

(***************************************************************************)
(* A text is indexed once: of two documents with the same words, in        *)
(* whatever case and however separated, both are in the index only if      *)
(* their calls overlapped or a search missed.  With an even dimension no   *)
(* two terms cancel out, so that only a document without a word, whose     *)
(* embedding is NaN, is never anyone's duplicate.                          *)
(***************************************************************************)
SameTextIndexedOnce ==
  \A d, e \in index :
    d # e /\ Tokens[d] = Tokens[e] /\ Tokens[d] # <<>> =>
      {d, e} \in overlapped \/ {d, e} \cap missed # {}
=============================================================================
