------------------------- MODULE OpenSearchStoreProofs -------------------------
(***************************************************************************)
(* For any number of workers, chunks and generations: the OpenSearch store *)
(* never deletes the best generation, however requests fail and however    *)
(* late the collection refreshes, and so implements DocumentStore.         *)
(***************************************************************************)
EXTENDS OpenSearchStore, TLAPS

\* A chunk of a generation that a better one has superseded.
Superseded(x) == \E y \in written : x[1] < y[1]

\* What a worker knows between its requests stays true: its own chunks were written, and what
\* its scan doomed is superseded, or the document is being deleted.
Justified == \A w \in Workers :
    /\ worker[w].pc = "written" => worker[w].gen \in Gens /\ Of(worker[w].gen) \subseteq written
    /\ erased \/ \A x \in worker[w].doomed : Superseded(x)

Inv == TypeOK /\ Justified /\ OnlySupersededDeleted

\* Whatever part of a request takes effect, it is a part of the request.
LEMMA ReachedPart ==
    ASSUME NEW S, NEW T \in Reached(S)
    PROVE  T \subseteq S
BY DEF Reached

\* A scan only dooms what some written generation supersedes.
LEMMA LosersSuperseded ==
    ASSUME TypeOK, NEW g \in Gens, Of(g) \subseteq written
    PROVE  Losers(g) \subseteq Entries /\ \A x \in Losers(g) : Superseded(x)
<1>1. PICK c \in Chunks : TRUE
  BY OpenSearchAssumption
<1>2. <<g, c>> \in written /\ <<g, c>>[1] = g
  BY DEF Of
<1>3. QED
  BY <1>2 DEF Losers, Superseded, TypeOK

\* Types, the workers' knowledge and OnlySupersededDeleted together are inductive.
THEOREM Invariance == Spec => []Inv
<1>1. Init => Inv
  <2> SUFFICES ASSUME Init PROVE Inv
    OBVIOUS
  <2>1. Idle \in Local /\ Idle.pc = "idle" /\ Idle.doomed = {}
    BY DEF Idle, Local
  <2>2. QED
    BY <2>1 DEF Init, Inv, TypeOK, Justified, OnlySupersededDeleted
<1>2. Inv /\ [Next]_vars => Inv'
  <2> SUFFICES ASSUME Inv, [Next]_vars PROVE Inv'
    OBVIOUS
  <2>0. Idle \in Local /\ Idle.pc = "idle" /\ Idle.doomed = {}
    BY DEF Idle, Local
  <2>1. ASSUME NEW w \in Workers, NEW g \in Gens, Upsert(w, g) PROVE Inv'
    <3> DEFINE r == [Idle EXCEPT !.pc = "written", !.gen = g]
    <3>1. PICK S \in Reached(Of(g)) :
            /\ index' = index \cup S /\ written' = written \cup S
            /\ worker' = [worker EXCEPT ![w] = IF S = Of(g) THEN r ELSE Idle]
            /\ UNCHANGED <<shown, erased>>
      BY <2>1 DEF Upsert
    <3>2. S \subseteq Of(g) /\ Of(g) \subseteq Entries
      BY ReachedPart DEF Of, Entries
    <3>3. r \in Local /\ r.gen = g /\ r.doomed = {}
      BY DEF Idle, Local
    <3> HIDE DEF r
    <3>4. TypeOK'
      BY <2>0, <3>1, <3>2, <3>3 DEF Inv, TypeOK
    <3>5. \A x : Superseded(x) => Superseded(x)'
      BY <3>1 DEF Superseded
    <3>6. Justified'
      <4> SUFFICES ASSUME NEW v \in Workers
                   PROVE  /\ worker'[v].pc = "written"
                                => worker'[v].gen \in Gens /\ Of(worker'[v].gen) \subseteq written'
                          /\ erased' \/ \A x \in worker'[v].doomed : Superseded(x)'
        BY DEF Justified, Of
      <4>1. CASE v = w
        <5>1. worker'[v] = IF S = Of(g) THEN r ELSE Idle
          BY <3>1, <4>1 DEF Inv, TypeOK
        <5>2. QED
          BY <2>0, <3>1, <3>3, <5>1
      <4>2. CASE v # w
        <5>1. worker'[v] = worker[v]
          BY <3>1, <4>2 DEF Inv, TypeOK
        <5>2. QED
          BY <3>1, <3>5, <5>1 DEF Inv, Justified
      <4>3. QED
        BY <4>1, <4>2
    <3>7. OnlySupersededDeleted'
      BY <3>1 DEF Inv, OnlySupersededDeleted
    <3>8. QED
      BY <3>4, <3>6, <3>7 DEF Inv
  <2>2. ASSUME NEW w \in Workers, Scan(w) PROVE Inv'
    <3> DEFINE r == [worker[w] EXCEPT !.pc = "scanned", !.doomed = Losers(worker[w].gen)]
    <3>1. /\ worker' = [worker EXCEPT ![w] = r]
          /\ UNCHANGED <<index, shown, written, erased>>
      BY <2>2 DEF Scan, Inv, TypeOK
    <3>2. Losers(worker[w].gen) \subseteq Entries
          /\ \A x \in Losers(worker[w].gen) : Superseded(x)
      BY <2>2, LosersSuperseded DEF Scan, Inv, Justified
    <3>3. r \in Local /\ r.pc = "scanned" /\ r.doomed = Losers(worker[w].gen)
      BY <3>2 DEF Inv, TypeOK, Local
    <3> HIDE DEF r
    <3>4. TypeOK'
      BY <3>1, <3>3 DEF Inv, TypeOK
    <3>5. \A v \in Workers : worker'[v] = IF v = w THEN r ELSE worker[v]
      BY <3>1 DEF Inv, TypeOK
    <3>6. Justified'
      BY <3>1, <3>2, <3>3, <3>5 DEF Inv, Justified, Superseded, Of
    <3>7. QED
      BY <3>1, <3>4, <3>6 DEF Inv, OnlySupersededDeleted
  <2>3. ASSUME NEW w \in Workers, ScanAll(w) PROVE Inv'
    <3> DEFINE r == [worker[w] EXCEPT !.pc = "scanned", !.doomed = shown]
    <3>1. /\ worker' = [worker EXCEPT ![w] = r]
          /\ erased' = TRUE
          /\ UNCHANGED <<index, shown, written>>
      BY <2>3 DEF ScanAll, Inv, TypeOK
    <3>3. r \in Local /\ r.pc = "scanned"
      BY DEF Inv, TypeOK, Local
    <3> HIDE DEF r
    <3>4. TypeOK'
      BY <3>1, <3>3 DEF Inv, TypeOK
    <3>5. \A v \in Workers : worker'[v] = IF v = w THEN r ELSE worker[v]
      BY <3>1 DEF Inv, TypeOK
    <3>6. Justified'
      BY <3>1, <3>3, <3>5 DEF Inv, Justified, Of
    <3>7. QED
      BY <3>1, <3>4, <3>6 DEF Inv, OnlySupersededDeleted
  <2>4. ASSUME NEW w \in Workers, Delete(w) \/ Stop(w) PROVE Inv'
    <3>1. /\ worker' = [worker EXCEPT ![w] = Idle]
          /\ UNCHANGED <<shown, written, erased>>
      BY <2>4 DEF Delete, Stop
    <3>2. index' \subseteq index /\ index \ index' \subseteq worker[w].doomed
      BY <2>4, ReachedPart DEF Delete, Stop
    <3>3. TypeOK'
      BY <2>0, <3>1, <3>2 DEF Inv, TypeOK
    <3>4. \A v \in Workers : worker'[v] = IF v = w THEN Idle ELSE worker[v]
      BY <3>1 DEF Inv, TypeOK
    <3>5. Justified'
      BY <2>0, <3>1, <3>4 DEF Inv, Justified, Superseded, Of
    <3>6. OnlySupersededDeleted'
      BY <3>1, <3>2 DEF Inv, Justified, Superseded, OnlySupersededDeleted
    <3>7. QED
      BY <3>3, <3>5, <3>6 DEF Inv
  <2>5. ASSUME NEW x \in Entries, Refresh(x) PROVE Inv'
    <3>1. TypeOK'
      BY <2>5 DEF Refresh, Inv, TypeOK
    <3>2. QED
      BY <2>5, <3>1 DEF Refresh, Inv, Justified, Superseded, Of, OnlySupersededDeleted
  <2>6. CASE UNCHANGED vars
    BY <2>6 DEF vars, Inv, TypeOK, Justified, Superseded, Of, OnlySupersededDeleted
  <2>7. QED
    BY <2>1, <2>2, <2>3, <2>4, <2>5, <2>6 DEF Next
<1>3. QED
  BY <1>1, <1>2, PTL DEF Spec

\* "The best generation is never deleted": for any number of workers, chunks and generations.
THEOREM BestKept == Spec => []OnlySupersededDeleted
BY Invariance, PTL DEF Inv

\* Bulk requests, scans and refreshes together implement the promise of DocumentStore.
THEOREM Implements == Spec => DocumentSpec
<1> USE DEF Document!vars
<1>1. Init => Document!Init
  BY DEF Init, Generation, Document!Init
<1>2. Inv /\ [Next]_vars => [Document!Next]_(Document!vars)
  <2> SUFFICES ASSUME Inv, [Next]_vars PROVE [Document!Next]_(Document!vars)
    OBVIOUS
  <2>1. ASSUME NEW w \in Workers, NEW g \in Gens, Upsert(w, g)
        PROVE  Document!Next
    <3>1. PICK S \in Reached(Of(g)) :
            /\ Of(g) \cap written = {} /\ S # {}
            /\ index' = index \cup S /\ written' = written \cup S
            /\ UNCHANGED erased
      BY <2>1 DEF Upsert
    <3>2. \A x \in S : x[1] = g
      BY <3>1, ReachedPart DEF Of
    <3>3. g \notin Generation(written)
      <4>1. ASSUME NEW x \in written, x[1] = g PROVE FALSE
        BY <3>1, <4>1 DEF Of, Inv, TypeOK, Entries
      <4>2. QED
        BY <4>1 DEF Generation
    <3>4. /\ Generation(index)' = Generation(index) \cup {g}
          /\ Generation(written)' = Generation(written) \cup {g}
      BY <3>1, <3>2 DEF Generation
    <3>5. Document!Write(g)
      BY <3>1, <3>3, <3>4 DEF Document!Write
    <3>6. QED
      BY <3>5 DEF Document!Next
  <2>2. ASSUME NEW w \in Workers, ScanAll(w) PROVE Document!Next
    <3>1. Document!Erase({})
      BY <2>2 DEF ScanAll, Document!Erase
    <3>2. QED
      BY <3>1 DEF Document!Next
  <2>3. ASSUME NEW w \in Workers, Delete(w) PROVE Document!Next
    <3> DEFINE Gone == Generation(index) \ Generation(index')
    <3>1. /\ index' \subseteq index /\ index \ index' \subseteq worker[w].doomed
          /\ UNCHANGED <<written, erased>>
      BY <2>3, ReachedPart DEF Delete
    <3>2. Generation(index') = Generation(index) \ Gone
      BY <3>1 DEF Generation
    <3>3. Gone \in SUBSET Gens
      BY DEF Generation, Inv, TypeOK, Entries
    <3>4. CASE erased
      <4>1. Document!Erase(Gone)
        BY <3>1, <3>2, <3>4 DEF Document!Erase, Inv, TypeOK
      <4>2. QED
        BY <3>3, <4>1 DEF Document!Next
    <3>5. CASE ~erased
      <4>1. \A g \in Gone : \E better \in Generation(written) : better > g
        <5> SUFFICES ASSUME NEW g \in Gone PROVE \E better \in Generation(written) : better > g
          OBVIOUS
        <5>1. PICK x \in index : x[1] = g /\ x \notin index'
          BY DEF Generation
        <5>2. PICK y \in written : x[1] < y[1]
          BY <3>1, <3>5, <5>1 DEF Inv, Justified, Superseded
        <5>3. y[1] \in Generation(written) /\ y[1] \in Int /\ g \in Int
          BY <5>1, <5>2 DEF Generation, Inv, TypeOK, Entries, Gens
        <5>4. QED
          BY <5>1, <5>2, <5>3
      <4>2. Document!Supersede(Gone)
        BY <3>1, <3>2, <4>1 DEF Document!Supersede
      <4>3. QED
        BY <3>3, <4>2 DEF Document!Next
    <3>6. QED
      BY <3>4, <3>5
  <2>4. ASSUME NEW w \in Workers, Scan(w) \/ Stop(w) PROVE UNCHANGED Document!vars
    BY <2>4 DEF Scan, Stop
  <2>5. ASSUME NEW x \in Entries, Refresh(x) PROVE UNCHANGED Document!vars
    BY <2>5 DEF Refresh
  <2>6. CASE UNCHANGED vars
    BY <2>6 DEF vars
  <2>7. QED
    BY <2>1, <2>2, <2>3, <2>4, <2>5, <2>6 DEF Next
<1>3. QED
  BY <1>1, <1>2, Invariance, PTL DEF Spec, DocumentSpec, Document!Spec
================================================================================
