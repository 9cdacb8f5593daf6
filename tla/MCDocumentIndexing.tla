--------------------------- MODULE MCDocumentIndexing ---------------------------
\* The workers of one document are interchangeable, and so are its contents that have text.
EXTENDS DocumentIndexing, TLC

Symmetry == Permutations(Writers) \cup Permutations(Contents \ {Blank})
================================================================================
