----------------------------- MODULE Documents -----------------------------
(***************************************************************************)
(* What becomes of a document before the index compares it, in             *)
(* applications/doc-pipeline/internal: ingest.LoadData reads a slice of    *)
(* the file, tokenize.Tokenize makes words of it, and Embedder.Embed makes *)
(* a vector of the words by feature hashing.                               *)
(*                                                                         *)
(* The hash is any function from terms to numbers: of FNV only the index   *)
(* and the parity matter.  A vector stays unnormalised: the cosine is told *)
(* from exact integers, where the code divides 32-bit floats.              *)
(***************************************************************************)
EXTENDS Integers, Sequences, FiniteSets

CONSTANTS
  File,       \* the characters of the file
  Small,      \* the small letter of every letter
  HashOf(_),  \* the hash of a term
  Dim,        \* dimension of the embedding (1024 in main.go)
  Percent     \* dedupThreshold, in hundredths (80 in main.go)

ASSUME DocumentsAssumption ==
  /\ Dim \in Nat \ {0}
  /\ Percent \in 1 .. 100

\* LoadData: up to TextSize characters from Offset on, fewer at the end of the
\* file.
LoadData(request) ==
  LET end == request.Offset + request.TextSize
  IN SubSeq(File, request.Offset + 1, IF end < Len(File) THEN end ELSE Len(File))

-----------------------------------------------------------------------------
IsLetter(char) == char \in DOMAIN Small

ToLower(text) == [i \in DOMAIN text |-> IF IsLetter(text[i]) THEN Small[text[i]] ELSE text[i]]

\* FieldsFunc: the longest runs of letters, in their order.
Fields(text) ==
  LET first == {i \in DOMAIN text : IsLetter(text[i]) /\ (i = 1 \/ ~IsLetter(text[i - 1]))}
      last(i) == CHOOSE j \in i .. Len(text) :
                   /\ \A k \in i .. j : IsLetter(text[k])
                   /\ j = Len(text) \/ ~IsLetter(text[j + 1])
      start(k) == CHOOSE i \in first : Cardinality({j \in first : j < i}) = k - 1
  IN [k \in 1 .. Cardinality(first) |-> SubSeq(text, start(k), last(start(k)))]

Tokenize(text) == Fields(ToLower(text))

-----------------------------------------------------------------------------
Zeros == [i \in 0 .. Dim - 1 |-> 0]

\* Slip: a sign that does not go with the index lets terms cancel out.
EmbedWithFreeSign(tokens) ==
  LET vec[k \in 0 .. Len(tokens)] ==
        IF k = 0 THEN Zeros
        ELSE [vec[k - 1] EXCEPT ![HashOf(tokens[k]) % Dim] =
                @ + (IF (HashOf(tokens[k]) \div Dim) % 2 = 1 THEN -1 ELSE 1)]
  IN vec[Len(tokens)]

\* Embed: every term counts up or down at its index, by the parity of its
\* hash; vec[k] is the vector after k of them.
Embed(tokens) ==
  LET vec[k \in 0 .. Len(tokens)] ==
        IF k = 0 THEN Zeros
        ELSE [vec[k - 1] EXCEPT ![HashOf(tokens[k]) % Dim] =
                @ + (IF HashOf(tokens[k]) % 2 = 1 THEN -1 ELSE 1)]
  IN vec[Len(tokens)]

Dot(u, v) ==
  LET sum[k \in 0 .. Dim] == IF k = 0 THEN 0 ELSE sum[k - 1] + u[k - 1] * v[k - 1]
  IN sum[Dim]

\* normalize, and 1 - Distance >= dedupThreshold.  The norm of a vector of
\* zeros is 0: it becomes NaN throughout, and no comparison with it holds.
Reaches(u, v) ==
  /\ Dot(u, u) > 0 /\ Dot(v, v) > 0
  /\ Dot(u, v) > 0
  /\ 10000 * Dot(u, v) * Dot(u, v) >= Percent * Percent * Dot(u, u) * Dot(v, v)
=============================================================================
