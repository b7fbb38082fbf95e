\* Three workers on five documents, three of them a chain of near copies.
CONSTANTS
  Callers = {w1, w2, w3}
  Docs <- Slices
  None = None
  Similar <- SimilarDocs
  File <- Text
  Small <- Letters
  HashOf <- Hash
  Dim = 4
  Percent = 80
SPECIFICATION Spec
INVARIANTS
  SimilarOnlyIfOverlapped
  DuplicateHasOriginal
  SameTextIndexedOnce
PROPERTY ImplementsAtomicDedup
