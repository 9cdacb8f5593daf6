---------------------------- MODULE OpenSearchStore ----------------------------
(***************************************************************************)
(* AossVectorStore (vectorstore/opensearch.py) as seen by one document.    *)
(* Nothing is transactional: a generation is several chunks, written and   *)
(* deleted by bulk requests that can fail item by item, and a search sees  *)
(* neither until the collection refreshes.                                 *)
(*                                                                         *)
(* A chunk is a pair <<g, c>>; its generation is named by its rank         *)
(* (generation_rank, chunk_rank).  A worker that a bulk error, a timeout   *)
(* or a crash stops in the middle just leaves; its page is delivered       *)
(* again and written under another generation.                             *)
(***************************************************************************)
EXTENDS Integers

CONSTANTS
    Workers,     \* processes that write or delete the document
    MaxGen,      \* bound: generations ever written
    Chunks,      \* chunks of a generation
    MayFail      \* may bulk requests and workers fail?

ASSUME OpenSearchAssumption == MaxGen \in Nat /\ Chunks # {} /\ MayFail \in BOOLEAN

Gens == 1..MaxGen
Entries == Gens \X Chunks

VARIABLES
    index,    \* chunks in the collection
    shown,    \* chunks a search returns
    worker,   \* what each worker is doing
    written,  \* history: chunks ever in the collection
    erased    \* has a deletion of the document been asked for?

vars == <<index, shown, worker, written, erased>>

Idle == [pc |-> "idle", gen |-> 0, doomed |-> {}]

\* A worker between two of its requests: it has written and will scan, or has scanned and
\* will delete what the scan doomed.
Local == [pc: {"idle", "written", "scanned"}, gen: Gens \cup {0}, doomed: SUBSET Entries]

Init ==
    /\ index = {} /\ shown = {} /\ written = {}
    /\ worker = [w \in Workers |-> Idle]
    /\ erased = FALSE

Of(g) == {g} \X Chunks

\* A bulk request on S takes effect on all of it, or fails and has reached any part.
Reached(S) == IF MayFail THEN SUBSET S ELSE {S}

\* upsert.  The rank was fixed when the document was fetched and chunked, so generations
\* arrive in any order of rank.
Upsert(w, g) == \E S \in Reached(Of(g)) :
    /\ worker[w].pc = "idle"
    /\ Of(g) \cap written = {} /\ \A v \in Workers : worker[v].gen # g
    /\ S # {}
    /\ index' = index \cup S
    /\ written' = written \cup S
    /\ worker' = [worker EXCEPT ![w] = IF S = Of(g)
                                       THEN [Idle EXCEPT !.pc = "written", !.gen = g]
                                       ELSE Idle]
    /\ UNCHANGED <<shown, erased>>

\* Mutant of Losers: counts a worker's own generation as the best.
Losers_OwnIsBest(g) == {x \in shown : x[1] # g}

\* What replace_document deletes after a scan: everything shown that ranks below the best
\* of its own generation, shown or not, and the others that are shown.
Losers(g) == {x \in shown : x[1] < g \/ \E y \in shown : x[1] < y[1]}

\* The scan of replace_document, which decides what to delete.
Scan(w) ==
    /\ worker[w].pc = "written"
    /\ worker' = [worker EXCEPT ![w].pc = "scanned", ![w].doomed = Losers(worker[w].gen)]
    /\ UNCHANGED <<index, shown, written, erased>>

\* The scan of delete_by_filter: whatever is shown goes.
ScanAll(w) ==
    /\ worker[w].pc = "idle"
    /\ worker' = [worker EXCEPT ![w].pc = "scanned", ![w].doomed = shown]
    /\ erased' = TRUE
    /\ UNCHANGED <<index, shown, written>>

\* _delete_ids: a chunk that is already gone counts as deleted.
Delete(w) == \E S \in Reached(worker[w].doomed) :
    /\ worker[w].pc = "scanned"
    /\ index' = index \ S
    /\ worker' = [worker EXCEPT ![w] = Idle]
    /\ UNCHANGED <<shown, written, erased>>

\* A worker dies or times out between two requests.
Stop(w) ==
    /\ MayFail /\ worker[w].pc # "idle"
    /\ worker' = [worker EXCEPT ![w] = Idle]
    /\ UNCHANGED <<index, shown, written, erased>>

\* The service refreshes, chunk by chunk: chunks live in different shards.
Refresh(x) ==
    /\ shown' = IF x \in index THEN shown \cup {x} ELSE shown \ {x}
    /\ UNCHANGED <<index, worker, written, erased>>

Next ==
    \/ \E w \in Workers, g \in Gens : Upsert(w, g)
    \/ \E w \in Workers : Scan(w) \/ ScanAll(w) \/ Delete(w) \/ Stop(w)
    \/ \E x \in Entries : Refresh(x)

Spec == Init /\ [][Next]_vars

--------------------------------------------------------------------------------
TypeOK ==
    /\ written \subseteq Entries
    /\ index \subseteq written
    /\ shown \subseteq written
    /\ worker \in [Workers -> Local]
    /\ erased \in BOOLEAN

\* "The best generation is never deleted" (replace_document): unless the document's deletion
\* was asked for, a chunk is gone only because a better generation was written - with bulk
\* requests that fail half-way, stale scans and late refreshes.
OnlySupersededDeleted ==
    ~erased => \A x \in written \ index : \E y \in written : x[1] < y[1]

Quiet == (\A w \in Workers : worker[w].pc = "idle") /\ shown = index

\* "Concurrent writers of the same document always converge on exactly one surviving
\* generation" (generation_rank): nobody is writing and everything is visible.
Converged == Quiet => \A x, y \in index : x[1] = y[1]

\* A generation of the promise is one with a chunk in the collection.
Generation(S) == {x[1] : x \in S}

Document == INSTANCE DocumentStore WITH
    Generations <- Gens, stored <- Generation(index), written <- Generation(written)

\* Failures and stale scans included, the store only lets superseded generations go.
DocumentSpec == Document!Spec
================================================================================
