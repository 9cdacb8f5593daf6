--------------------------- MODULE SqliteStoreProofs ---------------------------
(***************************************************************************)
(* For any number of processes: whatever stale memory a transaction of the *)
(* SQLite store works from, the file only loses superseded generations.    *)
(***************************************************************************)
EXTENDS SqliteStore, TLAPS

\* A write in progress has a generation of its own that is not yet in the file, a read or a
\* delete has none; a delete in progress was announced.
Announced ==
    /\ \A p \in Processes :
        /\ proc[p].op = "write" => proc[p].gen \in Gens
        /\ proc[p].op = "write" /\ proc[p].pc # "committed" => proc[p].gen \notin written
        /\ proc[p].op # "write" => proc[p].gen = 0
        /\ proc[p].op = "delete" => erased
    /\ \A p, q \in Processes : proc[p].gen = proc[q].gen /\ proc[p].gen # 0 => p = q

Inv == TypeOK /\ Announced

\* Where a step leads to: the pc moves, or the process is done, or it starts a call.
LEMMA Moves ==
    ASSUME NEW p \in Processes, Inv, NEW pc \in {"idle", "refresh", "loaded", "ready",
                                                 "transaction", "committed"}
    PROVE  /\ Goto(p, pc) => proc' \in [Processes -> Proc]
           /\ Finish(p) => proc' \in [Processes -> Proc]
           /\ [proc EXCEPT ![p] = [Opening EXCEPT !.pc = pc]] \in [Processes -> Proc]
<1>1. [Opening EXCEPT !.pc = pc] \in Proc /\ [Opening EXCEPT !.pc = "idle"] \in Proc
  BY DEF Opening, Proc, Ops
<1>2. Goto(p, pc) => proc' \in [Processes -> Proc]
  BY DEF Goto, Inv, TypeOK, Proc
<1>3. QED
  BY <1>1, <1>2 DEF Finish, Inv, TypeOK

\* A step that only moves the pc, and not from "committed", keeps the bookkeeping of writes.
LEMMA GotoAnnounced ==
    ASSUME NEW p \in Processes, Inv, NEW pc, Goto(p, pc), UNCHANGED <<written, erased>>,
           proc[p].pc # "committed"
    PROVE  Announced'
BY DEF Goto, Inv, TypeOK, Proc, Announced

\* So does a step that ends the call or starts the process again.
LEMMA EndAnnounced ==
    ASSUME NEW p \in Processes, Inv, NEW pc, UNCHANGED <<written, erased>>,
           proc' = [proc EXCEPT ![p] = [Opening EXCEPT !.pc = pc]]
    PROVE  Announced'
BY DEF Opening, Inv, TypeOK, Proc, Announced

\* Type correctness; each memory, however stale, only holds generations that were committed.
THEOREM TypeCorrect == Spec => []Inv
<1>1. Init => Inv
  <2> SUFFICES ASSUME Init PROVE Inv
    OBVIOUS
  <2>1. Opening \in Proc /\ Opening.gen = 0 /\ Opening.op = "read"
    BY DEF Opening, Proc, Ops
  <2>2. \A p \in Processes : proc[p] = Opening
    BY DEF Init
  <2>3. TypeOK
    BY <2>1 DEF Init, TypeOK
  <2>4. Announced
    BY <2>1, <2>2 DEF Announced
  <2>5. QED
    BY <2>3, <2>4 DEF Inv
<1>2. Inv /\ [Next]_vars => Inv'
  <2> SUFFICES ASSUME Inv, [Next]_vars PROVE Inv'
    OBVIOUS
  <2>1. ASSUME NEW p \in Processes, NEW op \in Ops, NEW g \in Gens \cup {0}, Call(p, op, g)
        PROVE  Inv'
    <3> DEFINE r == [pc |-> "refresh", op |-> op, gen |-> g]
    <3>1. r \in Proc /\ r.op = op /\ r.gen = g /\ r.pc = "refresh"
      BY DEF Proc
    <3>2. proc' = [proc EXCEPT ![p] = r]
      BY <2>1 DEF Call
    <3> HIDE DEF r
    <3>3. TypeOK'
      BY <2>1, <3>1, <3>2 DEF Call, Inv, TypeOK
    <3>4. 0 \notin Gens
      BY DEF Gens
    <3>5. Announced'
      <4>1. \A q \in Processes : proc'[q] = IF q = p THEN r ELSE proc[q]
        BY <3>2 DEF Inv, TypeOK
      <4>2. /\ op = "write" => g \in Gens /\ g \notin written
            /\ \A q \in Processes : op = "write" => proc[q].gen # g
            /\ op # "write" => g = 0
            /\ op = "delete" => erased'
            /\ erased => erased'
            /\ written' = written
        BY <2>1 DEF Call
      <4>3. QED
        BY <3>1, <4>1, <4>2 DEF Inv, Announced
    <3>6. QED
      BY <3>3, <3>5 DEF Inv
  <2>2. ASSUME NEW p \in Processes, Fresh(p) PROVE Inv'
    BY <2>2, Moves, GotoAnnounced DEF Fresh, Inv, TypeOK
  <2>3. ASSUME NEW p \in Processes, LoadRows(p) PROVE Inv'
    BY <2>3, Moves, GotoAnnounced DEF LoadRows, Inv, TypeOK
  <2>4. ASSUME NEW p \in Processes, LoadVersion(p) PROVE Inv'
    BY <2>4, Moves, GotoAnnounced DEF LoadVersion, Inv, TypeOK
  <2>5. ASSUME NEW p \in Processes, Begin(p) PROVE Inv'
    BY <2>5, Moves, GotoAnnounced DEF Begin, Inv, TypeOK
  <2>6. ASSUME NEW p \in Processes, Return(p) \/ Busy(p) PROVE Inv'
    BY <2>6, Moves, EndAnnounced DEF Return, Busy, Finish, Inv, TypeOK
  <2>7. ASSUME NEW p \in Processes, Commit(p) PROVE Inv'
    <3>1. Added(p) \subseteq Gens
      BY DEF Added, Inv, Announced
    <3>2. TypeOK'
      BY <2>7, <3>1, Moves DEF Commit, Inv, TypeOK
    <3>3. Announced'
      <4>1. \A q \in Processes :
              /\ proc'[q].op = proc[q].op /\ proc'[q].gen = proc[q].gen
              /\ proc'[q].pc = IF q = p THEN "committed" ELSE proc[q].pc
        BY <2>7 DEF Commit, Goto, Inv, TypeOK, Proc
      <4>2. proc[p].op = "write" => proc[p].gen # 0
        BY DEF Inv, Announced, Gens
      <4>3. \A q \in Processes : q # p /\ proc[q].op = "write" => proc[q].gen \notin Added(p)
        BY <4>2 DEF Added, Inv, Announced, Gens
      <4>4. written' = written \cup Added(p) /\ erased' = erased
        BY <2>7 DEF Commit
      <4>5. QED
        BY <4>1, <4>3, <4>4 DEF Inv, Announced
    <3>4. QED
      BY <3>2, <3>3 DEF Inv
  <2>8. ASSUME NEW p \in Processes, NoteVersion(p) PROVE Inv'
    BY <2>8, Moves, EndAnnounced DEF NoteVersion, Finish, Inv, TypeOK
  <2>9. ASSUME NEW p \in Processes, Rollback(p) PROVE Inv'
    BY <2>9, Moves, EndAnnounced DEF Rollback, Inv, TypeOK
  <2>10. ASSUME NEW p \in Processes, Restart(p) PROVE Inv'
    <3>1. Opening = [Opening EXCEPT !.pc = "refresh"]
      BY DEF Opening
    <3>2. QED
      BY <2>10, <3>1, Moves, EndAnnounced DEF Restart, Inv, TypeOK
  <2>11. CASE UNCHANGED vars
    BY <2>11 DEF vars, Inv, TypeOK, Announced
  <2>12. QED
    BY <2>1, <2>2, <2>3, <2>4, <2>5, <2>6, <2>7, <2>8, <2>9, <2>10, <2>11 DEF Next
<1>3. QED
  BY <1>1, <1>2, PTL DEF Spec

\* The store implements the promise of DocumentStore with any number of processes on the file:
\* a transaction that works from stale memory still only removes superseded generations.
THEOREM Implements == Spec => DocumentSpec
<1> USE DEF Document!vars
<1>1. Init => Document!Init
  BY DEF Init, Document!Init
<1>2. Inv /\ [Next]_vars => [Document!Next]_(Document!vars)
  <2> SUFFICES ASSUME Inv, [Next]_vars PROVE [Document!Next]_(Document!vars)
    OBVIOUS
  <2>1. ASSUME NEW p \in Processes, NEW op \in Ops, NEW g \in Gens \cup {0}, Call(p, op, g)
        PROVE  [Document!Next]_(Document!vars)
    <3>1. CASE op = "delete"
      <4>1. Document!Erase({})
        BY <2>1, <3>1 DEF Call, Document!Erase
      <4>2. QED
        BY <4>1 DEF Document!Next
    <3>2. CASE op # "delete"
      BY <2>1, <3>2 DEF Call, Inv, TypeOK
    <3>3. QED
      BY <3>1, <3>2
  <2>2. ASSUME NEW p \in Processes, Commit(p) PROVE [Document!Next]_(Document!vars)
    <3>1. Doomed(p) \in SUBSET Gens
      BY DEF Doomed, Added, Inv, TypeOK, Announced
    <3>2. CASE proc[p].op = "write"
      <4> DEFINE g == proc[p].gen
      <4>1. g \in Gens /\ g \notin written /\ Added(p) = {g}
        BY <2>2, <3>2 DEF Commit, Inv, Announced, Added
      <4>2. \A s \in Doomed(p) : \E better \in written \cup {g} : better > s
        <5> SUFFICES ASSUME NEW s \in Doomed(p)
                     PROVE  \E better \in written \cup {g} : better > s
          OBVIOUS
        <5>1. PICK best \in mem[p] \cup {g} : s < best
          BY <3>2, <4>1 DEF Doomed
        <5>2. best \in written \cup {g} /\ best \in Int /\ s \in Int
          BY <3>1, <4>1 DEF Inv, TypeOK, Gens
        <5>3. QED
          BY <5>1, <5>2
      <4>3. Document!WriteAndSupersede(g, Doomed(p))
        BY <2>2, <4>1, <4>2 DEF Commit, Document!WriteAndSupersede
      <4>4. QED
        BY <3>1, <4>1, <4>3 DEF Document!Next
    <3>3. CASE proc[p].op = "delete"
      <4>1. Added(p) = {} /\ erased
        BY <3>3 DEF Added, Inv, Announced
      <4>2. Document!Erase(Doomed(p))
        BY <2>2, <4>1 DEF Commit, Document!Erase, Inv, TypeOK
      <4>3. QED
        BY <3>1, <4>2 DEF Document!Next
    <3>4. CASE proc[p].op = "read"
      <4>1. Added(p) = {} /\ rows \subseteq written
        BY <3>4 DEF Added, Inv, TypeOK
      <4>2. \A s \in Doomed(p) : \E better \in written : better > s
        BY <3>1, <3>4, <4>1 DEF Doomed, Inv, TypeOK, Gens
      <4>3. Document!Supersede(Doomed(p))
        BY <2>2, <4>1, <4>2 DEF Commit, Document!Supersede
      <4>4. QED
        BY <3>1, <4>3 DEF Document!Next
    <3>5. QED
      BY <3>2, <3>3, <3>4 DEF Inv, TypeOK, Proc, Ops
  <2>3. ASSUME NEW p \in Processes,
               \/ Fresh(p) \/ LoadRows(p) \/ LoadVersion(p) \/ Return(p) \/ Begin(p)
               \/ Busy(p) \/ NoteVersion(p) \/ Rollback(p) \/ Restart(p)
        PROVE  UNCHANGED Document!vars
    BY <2>3 DEF Fresh, LoadRows, LoadVersion, Return, Begin, Busy, NoteVersion, Rollback,
                Restart
  <2>4. CASE UNCHANGED vars
    BY <2>4 DEF vars
  <2>5. QED
    BY <2>1, <2>2, <2>3, <2>4 DEF Next
<1>3. QED
  BY <1>1, <1>2, TypeCorrect, PTL DEF Spec, DocumentSpec, Document!Spec

\* The server alone: its memory is the file, except while it loads it, and the file holds one
\* generation.
Exact(p) ==
    /\ ~(proc[p].pc = "refresh" /\ stale[p]) => mem[p] = rows
    /\ OneGeneration

\* With one process, reads are fresh and a document has one generation, whatever is rolled
\* back and however often the process restarts.
THEOREM OneProcess ==
    ASSUME NEW p, Processes = {p}
    PROVE  Spec => [](ReadsAreFresh /\ OneGeneration)
<1>1. Init => Exact(p)
  BY DEF Init, Exact, Opening, OneGeneration
<1>2. Inv /\ Exact(p) /\ [Next]_vars => Exact(p)'
  <2> SUFFICES ASSUME Inv, Exact(p), [Next]_vars PROVE Exact(p)'
    OBVIOUS
  <2>0. p \in Processes /\ rows \subseteq Int
    BY DEF Inv, TypeOK, Gens
  <2>1. ASSUME NEW op \in Ops, NEW g \in Gens \cup {0}, Call(p, op, g) PROVE Exact(p)'
    BY <2>0, <2>1 DEF Call, Exact, OneGeneration, Inv, TypeOK, Proc
  <2>2. CASE Fresh(p) \/ LoadRows(p) \/ LoadVersion(p) \/ Return(p) \/ Begin(p) \/ Busy(p)
    BY <2>0, <2>2 DEF Fresh, LoadRows, LoadVersion, Return, Begin, Busy, Goto, Finish,
                      Opening, Exact, OneGeneration, Inv, TypeOK, Proc
  <2>3. CASE Commit(p)
    <3>1. mem[p] = rows /\ (\A g, h \in rows : g = h)
      BY <2>3 DEF Commit, Exact, OneGeneration
    <3>2. mem'[p] = rows' /\ proc'[p].pc = "committed"
      BY <2>0, <2>3, <3>1 DEF Commit, Goto, Inv, TypeOK, Proc
    <3>3. Added(p) \subseteq Int
      BY <2>0 DEF Added, Inv, Announced, Gens
    <3>4. rows' \subseteq rows \cup Added(p)
      BY <2>3 DEF Commit
    <3>5. \A g, h \in rows' : g = h
      <4> SUFFICES ASSUME NEW g \in rows', NEW h \in rows' PROVE g = h
        OBVIOUS
      <4>1. CASE proc[p].op = "delete"
        BY <2>3, <3>1, <4>1 DEF Commit, Added, Doomed
      <4>2. CASE proc[p].op # "delete"
        <5>1. ~(g < h) /\ ~(h < g)
          BY <2>3, <3>1, <3>4, <4>2 DEF Commit, Doomed
        <5>2. g \in Int /\ h \in Int
          BY <2>0, <3>3, <3>4
        <5>3. QED
          BY <5>1, <5>2
      <4>3. QED
        BY <4>1, <4>2
    <3>6. QED
      BY <3>2, <3>5 DEF Exact, OneGeneration
  <2>4. CASE NoteVersion(p) \/ Rollback(p) \/ Restart(p)
    BY <2>0, <2>4 DEF NoteVersion, Rollback, Restart, Finish, Opening, Exact, OneGeneration,
                      Inv, TypeOK, Proc
  <2>5. CASE UNCHANGED vars
    BY <2>5 DEF vars, Exact, OneGeneration
  <2>6. QED
    BY <2>1, <2>2, <2>3, <2>4, <2>5 DEF Next
<1>3. Exact(p) => ReadsAreFresh /\ OneGeneration
  BY DEF Exact, ReadsAreFresh
<1>4. QED
  BY <1>1, <1>2, <1>3, TypeCorrect, PTL DEF Spec
================================================================================
