------------------------------ MODULE MemoryStore ------------------------------
(***************************************************************************)
(* InMemoryVectorStore (vectorstore/memory.py) as seen by one document.    *)
(* replace_document takes the lock twice: once to insert its own           *)
(* generation, once to delete whatever ranks below the best.  Between the  *)
(* two, other writers and deletions of the document come in.               *)
(*                                                                         *)
(* The chunks of a generation always move together, under the lock, so a   *)
(* generation is one element here; it is named by its generation_rank.     *)
(***************************************************************************)
EXTENDS Integers

CONSTANTS
    Writers,     \* threads that write the document
    MaxGen,      \* bound: generations ever written
    MaxCrashes   \* bound: times the process dies

ASSUME MemoryAssumption == MaxGen \in Nat /\ MaxCrashes \in Nat

Gens == 1..MaxGen

VARIABLES
    records,  \* _records, the same in memory and in the file _save replaces
    writer,   \* 0, or the generation the writer has inserted and not yet pruned
    written,  \* history: generations ever inserted
    erased,   \* has a deletion of the document been asked for?
    crashes

vars == <<records, writer, written, erased, crashes>>

Init ==
    /\ records = {}
    /\ writer = [w \in Writers |-> 0]
    /\ written = {}
    /\ erased = FALSE
    /\ crashes = 0

\* The first critical section.  A writer's rank was fixed when it fetched and chunked the
\* document, so generations are inserted in any order of rank.
Upsert(w, g) ==
    /\ writer[w] = 0
    /\ g \notin written
    /\ records' = records \cup {g}
    /\ writer' = [writer EXCEPT ![w] = g]
    /\ written' = written \cup {g}
    /\ UNCHANGED <<erased, crashes>>

\* Mutant of Outranked: deletes the generations that are not the writer's own.
Outranked_KeepOwn(w) == records \ {writer[w]}

\* Mutant of Outranked: deletes what ranks below the writer's own, and never its own.
Outranked_BelowOwn(w) == {g \in records : g < writer[w]}

Outranked(w) == {g \in records : \E best \in records : g < best}

\* The second critical section.  When the document was deleted in between, max() of
\* nothing raises and the writer gives up: records stays empty either way.
Prune(w) ==
    /\ writer[w] # 0
    /\ records' = records \ Outranked(w)
    /\ writer' = [writer EXCEPT ![w] = 0]
    /\ UNCHANGED <<written, erased, crashes>>

\* delete_by_document: one critical section.
DeleteByDocument ==
    /\ records' = {}
    /\ erased' = TRUE
    /\ UNCHANGED <<writer, written, crashes>>

\* The process dies and starts again from the file; every critical section ends with _save.
Crash ==
    /\ crashes < MaxCrashes
    /\ crashes' = crashes + 1
    /\ writer' = [w \in Writers |-> 0]
    /\ UNCHANGED <<records, written, erased>>

Next ==
    \/ \E w \in Writers, g \in Gens : Upsert(w, g)
    \/ \E w \in Writers : Prune(w)
    \/ DeleteByDocument
    \/ Crash

Spec == Init /\ [][Next]_vars

--------------------------------------------------------------------------------
TypeOK ==
    /\ records \subseteq written
    /\ writer \in [Writers -> {0} \cup written]
    /\ written \subseteq Gens
    /\ erased \in BOOLEAN
    /\ crashes \in 0..MaxCrashes

\* "Concurrent writers of the same document always converge on exactly one surviving
\* generation": with no writer inside replace_document, two generations are left only by a
\* process that died between the two critical sections.
Converged ==
    (\A w \in Writers : writer[w] = 0) /\ crashes = 0 => \A g, h \in records : g = h

\* What is left is the best: "a late retry of older content never deletes newer content".
Document == INSTANCE DocumentStore WITH Generations <- Gens, stored <- records

\* The two critical sections together implement the store's promise.
DocumentSpec == Document!Spec
================================================================================
