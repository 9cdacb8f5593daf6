----------------------------- MODULE MCSqliteStore -----------------------------
\* Processes are interchangeable.
EXTENDS SqliteStore, TLC

Symmetry == Permutations(Processes)
================================================================================
