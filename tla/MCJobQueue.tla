------------------------------ MODULE MCJobQueue ------------------------------
(* Small instances of JobQueue for TLC. *)
EXTENDS JobQueue, TLC

\* Workers are interchangeable; used by the runs that check safety only.
Symmetry == Permutations(Workers)
===============================================================================
