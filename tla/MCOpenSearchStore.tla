--------------------------- MODULE MCOpenSearchStore ---------------------------
\* Workers and chunks are interchangeable.
EXTENDS OpenSearchStore, TLC

Symmetry == Permutations(Workers) \cup Permutations(Chunks)
================================================================================
