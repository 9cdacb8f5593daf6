----------------------------- MODULE DocumentStore -----------------------------
(***************************************************************************)
(* What a vector store promises of ONE document (interfaces.py,            *)
(* replace_document).  Every write brings a new generation; generations    *)
(* are named by their rank, a larger number ranking higher                 *)
(* (generation_rank).  Until somebody asks for the document's deletion,    *)
(* only generations that a better one has superseded leave the index.      *)
(***************************************************************************)
EXTENDS Integers

CONSTANT Generations

VARIABLES
    stored,   \* generations in the index
    written,  \* history: generations ever written
    erased    \* has a deletion of the document begun?

vars == <<stored, written, erased>>

Init == stored = {} /\ written = {} /\ erased = FALSE

Write(g) ==
    /\ g \notin written
    /\ stored' = stored \cup {g}
    /\ written' = written \cup {g}
    /\ UNCHANGED erased

\* Generations leave because a better one was written, in whatever order they came.
Supersede(S) ==
    /\ \A g \in S : \E better \in written : better > g
    /\ stored' = stored \ S
    /\ UNCHANGED <<written, erased>>

\* replace_document of the stores that do both at once.
WriteAndSupersede(g, S) ==
    /\ g \notin written
    /\ \A s \in S : \E better \in written \cup {g} : better > s
    /\ stored' = (stored \cup {g}) \ S
    /\ written' = written \cup {g}
    /\ UNCHANGED erased

Erase(S) ==
    /\ erased' = TRUE
    /\ stored' = stored \ S
    /\ UNCHANGED written

Next ==
    \/ \E g \in Generations : Write(g)
    \/ \E S \in SUBSET Generations : Supersede(S) \/ Erase(S)
    \/ \E g \in Generations, S \in SUBSET Generations : WriteAndSupersede(g, S)

Spec == Init /\ [][Next]_vars
================================================================================
