------------------------------ MODULE SqliteStore ------------------------------
(***************************************************************************)
(* SqliteVectorStore (vectorstore/sqlite.py) as seen by one document, with *)
(* several processes on one file: the server, and CLI commands that come   *)
(* and go.  Each keeps the records in memory and compares PRAGMA           *)
(* data_version with the value it noted last to learn of the others'       *)
(* commits.  Inside a process the RLock makes every operation atomic, so a *)
(* process does one thing at a time.                                       *)
(*                                                                         *)
(* data_version itself is SQLite's: on one connection it changes exactly   *)
(* when another connection commits.  stale[p] says that it differs from    *)
(* the value p noted.                                                      *)
(***************************************************************************)
EXTENDS Integers

CONSTANTS
    Processes,
    MaxGen      \* bound: generations ever written, named by their rank

ASSUME SqliteAssumption == MaxGen \in Nat

Gens == 1..MaxGen

VARIABLES
    rows,     \* committed generations of the document
    mem,      \* _records of each process
    stale,    \* _version() # _data_version
    proc,     \* what each process is doing
    written,  \* history: generations ever committed
    erased    \* has a deletion of the document been asked for?

vars == <<rows, mem, stale, proc, written, erased>>

\* op is "read", "delete", or the generation that replace_document writes.
Ops == {"read", "delete", "write"}
Proc == [pc: {"idle", "refresh", "loaded", "ready", "transaction", "committed"},
         op: Ops, gen: Gens \cup {0}]

\* A process that starts loads the file.
Opening == [pc |-> "refresh", op |-> "read", gen |-> 0]

Init ==
    /\ rows = {} /\ written = {} /\ erased = FALSE
    /\ mem = [p \in Processes |-> {}]
    /\ stale = [p \in Processes |-> TRUE]
    /\ proc = [p \in Processes |-> Opening]

Goto(p, pc) == proc' = [proc EXCEPT ![p].pc = pc]

Finish(p) == proc' = [proc EXCEPT ![p] = [Opening EXCEPT !.pc = "idle"]]

\* A call takes the lock.
Call(p, op, g) ==
    /\ proc[p].pc = "idle"
    /\ IF op = "write"
       THEN g \in Gens \ written /\ \A q \in Processes : proc[q].gen # g
       ELSE g = 0
    /\ proc' = [proc EXCEPT ![p] = [pc |-> "refresh", op |-> op, gen |-> g]]
    /\ erased' = (erased \/ op = "delete")
    /\ UNCHANGED <<rows, mem, stale, written>>

\* _refresh, nothing to reload.
Fresh(p) ==
    /\ proc[p].pc = "refresh" /\ ~stale[p]
    /\ Goto(p, "ready")
    /\ UNCHANGED <<rows, mem, stale, written, erased>>

\* _load reads the rows with one statement and the version with another.
LoadRows(p) ==
    /\ proc[p].pc = "refresh" /\ stale[p]
    /\ mem' = [mem EXCEPT ![p] = rows]
    /\ Goto(p, "loaded")
    /\ UNCHANGED <<rows, stale, written, erased>>

LoadVersion(p) ==
    /\ proc[p].pc = "loaded"
    /\ stale' = [stale EXCEPT ![p] = FALSE]
    /\ Goto(p, "ready")
    /\ UNCHANGED <<rows, mem, written, erased>>

\* A read answers from mem; the reload after a rollback ends by raising.
Return(p) ==
    /\ proc[p].pc = "ready" /\ proc[p].op = "read"
    /\ Finish(p)
    /\ UNCHANGED <<rows, mem, stale, written, erased>>

\* BEGIN IMMEDIATE: one write transaction at a time.
Begin(p) ==
    /\ proc[p].pc = "ready" /\ proc[p].op # "read"
    /\ \A q \in Processes : proc[q].pc # "transaction"
    /\ Goto(p, "transaction")
    /\ UNCHANGED <<rows, mem, stale, written, erased>>

\* The lock was not free for 30 s: the call raises before it changed anything.
Busy(p) ==
    /\ proc[p].pc = "ready" /\ proc[p].op # "read"
    /\ \E q \in Processes \ {p} : proc[q].pc = "transaction"
    /\ Finish(p)
    /\ UNCHANGED <<rows, mem, stale, written, erased>>

Added(p) == IF proc[p].op = "write" THEN {proc[p].gen} ELSE {}

\* Mutant of Doomed: deletes what is not the writer's own.
Doomed_KeepOwn(p) == mem[p] \ Added(p)

\* What the transaction deletes, as far as this process's memory knows.
Doomed(p) ==
    IF proc[p].op = "delete"
    THEN mem[p]
    ELSE {g \in mem[p] \cup Added(p) : \E best \in mem[p] \cup Added(p) : g < best}

\* The transaction's changes go to the file and to mem, and are committed.
Commit(p) ==
    /\ proc[p].pc = "transaction"
    /\ rows' = (rows \cup Added(p)) \ Doomed(p)
    /\ mem' = [mem EXCEPT ![p] = (@ \cup Added(p)) \ Doomed(p)]
    /\ stale' = [q \in Processes |-> stale[q] \/ q # p]
    /\ written' = written \cup Added(p)
    /\ Goto(p, "committed")
    /\ UNCHANGED erased

\* After COMMIT the process notes the version it finds.
NoteVersion(p) ==
    /\ proc[p].pc = "committed"
    /\ stale' = [stale EXCEPT ![p] = FALSE]
    /\ Finish(p)
    /\ UNCHANGED <<rows, mem, written, erased>>

\* The work raised (a vector of another size): ROLLBACK, then _load, whatever the version.
\* mem may hold the new generation until then.
Rollback(p) ==
    /\ proc[p].pc = "transaction"
    /\ mem' = [mem EXCEPT ![p] = rows]
    /\ proc' = [proc EXCEPT ![p] = [Opening EXCEPT !.pc = "loaded"]]
    /\ UNCHANGED <<rows, stale, written, erased>>

\* A process dies, or a CLI command ends and another starts; SQLite drops an open transaction.
Restart(p) ==
    /\ mem' = [mem EXCEPT ![p] = {}]
    /\ stale' = [stale EXCEPT ![p] = TRUE]
    /\ proc' = [proc EXCEPT ![p] = Opening]
    /\ UNCHANGED <<rows, written, erased>>

Next == \E p \in Processes :
    \/ \E op \in Ops, g \in Gens \cup {0} : Call(p, op, g)
    \/ Fresh(p) \/ LoadRows(p) \/ LoadVersion(p) \/ Return(p)
    \/ Begin(p) \/ Busy(p) \/ Commit(p) \/ NoteVersion(p) \/ Rollback(p)
    \/ Restart(p)

Spec == Init /\ [][Next]_vars

--------------------------------------------------------------------------------
TypeOK ==
    /\ rows \subseteq written
    /\ mem \in [Processes -> SUBSET written]
    /\ stale \in [Processes -> BOOLEAN]
    /\ proc \in [Processes -> Proc]
    /\ written \subseteq Gens
    /\ erased \in BOOLEAN

\* "If another process writes to the same file, the next read notices and reloads": a process
\* that would not reload holds what the file holds.
ReadsAreFresh == \A p \in Processes :
    proc[p].pc \in {"idle", "ready"} /\ ~stale[p] => mem[p] = rows

\* "Keep only the highest-ranked generation ..., so concurrent writers converge in any order":
\* the file never holds two generations, because each transaction writes one and removes the
\* others.
OneGeneration == \A g, h \in rows : g = h

\* Whatever stale memory a transaction worked from, only superseded generations leave the
\* file until the document's deletion is asked for.
Document == INSTANCE DocumentStore WITH
    Generations <- Gens, stored <- rows

\* The store implements the promise with any number of processes.
DocumentSpec == Document!Spec
================================================================================
