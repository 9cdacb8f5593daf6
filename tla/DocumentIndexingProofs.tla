--------------------------- MODULE DocumentIndexingProofs ---------------------------
(***************************************************************************)
(* For any number of writers and generations, replace_document of the      *)
(* in-memory store converges, and implements the promise of DocumentStore. *)
(* For any number of workers, contents, versions, writes and crashes, the  *)
(* pipeline is well typed, uses the store as its specification lets its    *)
(* writers do, keeps to the retry budget, and, where the source never goes *)
(* back to a content it had, keeps the index at the source's content.      *)
(*                                                                         *)
(* Each action is described once, by what it does to the state (the Effect *)
(* lemmas); the invariants build on these.                                 *)
(***************************************************************************)
EXTENDS DocumentIndexing, SequenceTheorems, WellFoundedInduction, TLAPS

--------------------------------------------------------------------------------
\* The store.

\* A fresh store is well typed.
LEMMA StoreInitTyped == Init => TypeOK
<1>1. 0 \in 0..MaxCrashes
  BY MemoryAssumption
<1>2. QED
  BY <1>1 DEF Init, TypeOK

\* Every critical section keeps the store's state well typed.
LEMMA StoreStepTyped == TypeOK /\ [Next]_vars => TypeOK'
<1> SUFFICES ASSUME TypeOK, [Next]_vars PROVE TypeOK'
  OBVIOUS
<1> USE DEF TypeOK
<1>1. ASSUME NEW w \in Writers, NEW g \in Gens, Upsert(w, g) PROVE TypeOK'
  BY <1>1 DEF Upsert
<1>2. ASSUME NEW w \in Writers, Prune(w) PROVE TypeOK'
  BY <1>2 DEF Prune
<1>3. CASE DeleteByDocument
  BY <1>3 DEF DeleteByDocument
<1>4. CASE Crash
  BY <1>4, MemoryAssumption DEF Crash
<1>5. CASE UNCHANGED vars
  BY <1>5 DEF vars
<1>6. QED
  BY <1>1, <1>2, <1>3, <1>4, <1>5 DEF Next

\* Type correctness of the in-memory store, and that it only holds generations written to it.
THEOREM TypeCorrect == Spec => []TypeOK
BY StoreInitTyped, StoreStepTyped, PTL DEF Spec

\* Of two generations a prune leaves neither ranks below the other, so they are the same.
LEMMA PruneLeavesOne ==
    ASSUME TypeOK, NEW w \in Writers, Prune(w)
    PROVE  \A g, h \in records' : g = h
<1> SUFFICES ASSUME NEW g \in records', NEW h \in records' PROVE g = h
  OBVIOUS
<1>1. g \in records /\ h \in records /\ ~(g < h) /\ ~(h < g)
  BY DEF Prune, Outranked
<1>2. g \in Int /\ h \in Int
  BY <1>1, MemoryAssumption DEF TypeOK, Gens
<1>3. QED
  BY <1>1, <1>2

\* The inductive strengthening of Converged: two generations are there only while somebody
\* who will prune is still in replace_document.
Pruning == crashes = 0 /\ (\E g, h \in records : g # h) => \E w \in Writers : writer[w] # 0

\* "Concurrent writers of the same document always converge on exactly one surviving
\* generation": true of the in-memory store, for any number of them.
THEOREM Convergence == Spec => []Converged
<1>1. Init => Pruning
  BY DEF Init, Pruning
<1>2. TypeOK /\ Pruning /\ [Next]_vars => Pruning'
  <2> SUFFICES ASSUME TypeOK, Pruning, [Next]_vars PROVE Pruning'
    OBVIOUS
  <2>1. ASSUME NEW w \in Writers, NEW g \in Gens, Upsert(w, g) PROVE Pruning'
    <3>1. writer'[w] = g /\ g # 0
      BY <2>1, MemoryAssumption DEF Upsert, TypeOK, Gens
    <3>2. QED
      BY <3>1 DEF Pruning
  <2>2. ASSUME NEW w \in Writers, Prune(w) PROVE Pruning'
    BY <2>2, PruneLeavesOne DEF Pruning
  <2>3. CASE DeleteByDocument
    BY <2>3 DEF DeleteByDocument, Pruning
  <2>4. CASE Crash
    BY <2>4 DEF Crash, Pruning, TypeOK
  <2>5. CASE UNCHANGED vars
    BY <2>5 DEF vars, Pruning
  <2>6. QED
    BY <2>1, <2>2, <2>3, <2>4, <2>5 DEF Next
<1>3. Pruning => Converged
  BY DEF Pruning, Converged
<1>4. QED
  BY <1>1, <1>2, <1>3, TypeCorrect, PTL DEF Spec

\* Each step of the store is a move of the promise, or a reader does not notice it: a write is a
\* write, a prune supersedes what it removes, a deletion erases what is there, and a crash leaves
\* the records alone.
LEMMA StoreStepPromised == TypeOK /\ [Next]_vars => [Document!Next]_(Document!vars)
<1> SUFFICES ASSUME TypeOK, [Next]_vars, ~UNCHANGED Document!vars
             PROVE  Document!Next
  OBVIOUS
<1>unseen. ~Crash /\ ~UNCHANGED vars
  BY DEF Crash, vars, Document!vars
<1>write. ASSUME NEW w \in Writers, NEW g \in Gens, Upsert(w, g)
          PROVE  Document!Write(g)
  BY <1>write DEF Upsert, Document!Write
<1>prune. ASSUME NEW w \in Writers, Prune(w)
          PROVE  Outranked(w) \in SUBSET Gens /\ Document!Supersede(Outranked(w))
  BY <1>prune DEF Prune, Outranked, Document!Supersede, TypeOK
<1>erase. ASSUME DeleteByDocument
          PROVE  records \in SUBSET Gens /\ Document!Erase(records)
  BY <1>erase DEF DeleteByDocument, Document!Erase, TypeOK
<1>. QED
  BY <1>unseen, <1>write, <1>prune, <1>erase DEF Next, Document!Next

\* The two critical sections implement the promise: only superseded generations go, until the
\* document's deletion is asked for.
THEOREM Implements == Spec => DocumentSpec
<1>1. Init => Document!Init
  BY DEF Init, Document!Init
<1>2. QED
  BY <1>1, StoreStepPromised, TypeCorrect, PTL DEF Spec, DocumentSpec, Document!Spec

--------------------------------------------------------------------------------
\* The pipeline.

\* A non-empty set of numbers up to a bound has a largest one.
LEMMA Largest ==
    ASSUME NEW N \in Nat, NEW S, S \subseteq 0..N, S # {}
    PROVE  \E g \in S : \A h \in S : h <= g
<1> DEFINE T == {N - g : g \in S}
           Less == OpToRel(<, Nat)
<1>1. T \subseteq Nat /\ T # {}
    <2>1. ASSUME NEW g \in S PROVE N - g \in Nat
        <3>1. g \in 0..N
            OBVIOUS
        <3>2. QED
            BY <3>1
    <2>2. PICK g \in S : TRUE
        OBVIOUS
    <2>3. QED
        BY <2>1, <2>2
<1>2. \A x, y \in Nat : <<y, x>> \in Less <=> y < x
    BY Zenon DEF OpToRel
<1>3. IsWellFoundedOn(Less, Nat)
    BY NatLessThanWellFounded
<1> HIDE DEF Less, T
<1>4. PICK x \in T : \A y \in T : ~(<<y, x>> \in Less)
    BY <1>1, <1>3, WFMin
<1>5. \A y \in T : x <= y
    <2>1. ASSUME NEW y \in T PROVE x <= y
        <3>1. x \in Nat /\ y \in Nat
            BY <1>1
        <3>2. ~(y < x)
            BY <1>2, <1>4, <3>1
        <3>3. QED
            BY <3>1, <3>2
    <2>2. QED
        BY <2>1
<1>6. PICK g \in S : x = N - g
    BY DEF T
<1>7. ASSUME NEW h \in S PROVE h <= g
    <2>1. N - h \in T
        BY DEF T
    <2>2. N - g <= N - h
        BY <1>5, <1>6, <2>1
    <2>3. QED
        BY <2>2
<1>8. QED
    BY <1>7

\* What the numbering of generations says: the time of writing is recovered from it, it is
\* within its bound, and it goes by the version first unless nothing dates the document.
LEMMA Ranks ==
    ASSUME NEW v \in 1..MaxVersion, NEW n \in 1..MaxWrites
    PROVE  /\ Rank(v, n) \in Gens /\ At(Rank(v, n)) = n
           /\ dating = "none" => Rank(v, n) = n
<1> USE IndexingAssumption DEF Rank
<1>1. MaxWrites \in Nat \ {0} /\ MaxVersion \in Nat \ {0} /\ MaxGen = MaxVersion * MaxWrites
    OBVIOUS
<1>2. CASE dating = "none"
    <2>1. MaxWrites <= MaxGen
        BY <1>1
    <2>2. (0 * MaxWrites + (n - 1)) % MaxWrites = n - 1
        BY <1>1
    <2>3. QED
        BY <1>1, <1>2, <2>1, <2>2 DEF Gens, At
<1>3. CASE dating # "none"
    <2> DEFINE q == v - 1
               p == q * MaxWrites
    <2>1. q \in Nat /\ p \in Nat /\ (MaxVersion - v) * MaxWrites >= 0
        BY <1>1
    <2>2. p + MaxWrites <= MaxGen
        BY <1>1, <2>1
    <2>3. (q * MaxWrites + (n - 1)) % MaxWrites = n - 1
        <3> HIDE DEF q
        <3>1. n - 1 \in Nat /\ n - 1 < MaxWrites
            BY <1>1
        <3>2. QED
            BY <1>1, <2>1, <3>1
    <2>4. Rank(v, n) = p + n
        BY <1>3
    <2> HIDE DEF q
    <2>5. Rank(v, n) - 1 = p + (n - 1)
        BY <2>1, <2>4
    <2>6. At(Rank(v, n)) = n
        BY <1>1, <2>3, <2>5 DEF At
    <2>7. Rank(v, n) \in Gens
        BY <1>1, <2>1, <2>2, <2>4 DEF Gens
    <2>8. QED
        BY <1>3, <2>6, <2>7
<1>4. QED
    BY <1>2, <1>3

\* Numbers go by the version where something dates the document, and by the time of writing
\* among writes that are no older.
LEMMA RanksOrder ==
    ASSUME NEW v \in 1..MaxVersion, NEW u \in 1..MaxVersion,
           NEW n \in 1..MaxWrites, NEW m \in 1..MaxWrites
    PROVE  /\ dating # "none" /\ v < u => Rank(v, n) < Rank(u, m)
           /\ v <= u /\ n < m => Rank(v, n) < Rank(u, m)
<1> DEFINE p == (v - 1) * MaxWrites
           q == (u - 1) * MaxWrites
<1>1. MaxWrites \in Nat \ {0}
    BY IndexingAssumption
<1>2. p \in Nat /\ q \in Nat /\ (u - v) * MaxWrites = q - p
    BY <1>1
<1>3. v <= u => p <= q
    <2>1. v <= u => (u - v) * MaxWrites >= 0
        BY <1>1
    <2>2. QED
        BY <1>2, <2>1
<1>4. v < u => p + MaxWrites <= q
    <2>1. v < u => (u - v) * MaxWrites >= MaxWrites
        BY <1>1
    <2>2. QED
        BY <1>1, <1>2, <2>1
<1>5. CASE dating = "none"
    BY <1>5 DEF Rank
<1>6. CASE dating # "none"
    <2>1. Rank(v, n) = p + n /\ Rank(u, m) = q + m
        BY <1>6 DEF Rank
    <2> HIDE DEF p, q
    <2>2. QED
        BY <1>1, <1>2, <1>3, <1>4, <2>1
<1>7. QED
    BY <1>5, <1>6
-----------------------------------------------------------------------------
WorkType ==
    [pc : {"idle", "fetched", "listed", "loaded", "extracting", "storing"},
     job : {"none", "fetch", "retry"}, ver : 0..MaxVersion, content : Contents,
     seen : BOOLEAN, attempts : 0..LargerBudget, gen : 0..MaxGen]

\* A generation is named after what was chunked for it.
Named(g) == At(g) \in DOMAIN meta /\ g = Rank(Info(g).ver, At(g))

\* What was chunked holds no version that the source has not had, and waits for a retry only
\* while there is one left.
MetaOK(m) == /\ m.ver <= source.ver
             /\ m.status = "retry_pending" => m.attempts < LargerBudget

\* A worker stores what was chunked for it, and holds a document as the source had it with
\* an attempt left.
WorkerOK(w) ==
    /\ writer[w] # 0 => work[w].pc = "storing" /\ writer[w] = work[w].gen
    /\ work[w].pc = "storing" => Named(work[w].gen)
    /\ Carries(w) => work[w].ver \in 1..source.ver
    /\ work[w].pc = "fetched" => work[w].job = "fetch"
    /\ work[w].pc = "loaded" => work[w].job = "retry"
    /\ work[w].pc \in {"loaded", "extracting"} => work[w].attempts < LargerBudget

IndexingTypeOK ==
    /\ TypeOK
    /\ source \in [ver : 1..MaxVersion, content : Contents, live : BOOLEAN]
    /\ dating \in Datings /\ owed \in BOOLEAN /\ extra \in 0..MaxExtra
    /\ work \in [Writers -> WorkType]
    /\ meta \in Seq(Meta) /\ Len(meta) <= MaxWrites
    /\ tries \in Int /\ overlapped \in BOOLEAN /\ dropped \in BOOLEAN

TypeInv ==
    /\ IndexingTypeOK
    /\ \A g \in written : Named(g)
    /\ \A n \in DOMAIN meta : MetaOK(meta[n])
    /\ \A w \in Writers : WorkerOK(w)

\* The larger budget is one, and bounds both.
LEMMA Budgets == LargerBudget \in Nat \ {0} /\ MaxAttempts <= LargerBudget
                 /\ MaxContentAttempts <= LargerBudget
BY IndexingAssumption DEF LargerBudget

LEMMA IdleType == Idle \in WorkType /\ Idle.pc = "idle" /\ Idle.job = "none"
BY Budgets, IndexingAssumption, MemoryAssumption DEF Idle, WorkType

\* The fields of what was chunked.
LEMMA MetaFields ==
    ASSUME TypeInv
    PROVE  /\ DOMAIN meta = 1..Len(meta) /\ Len(meta) \in 0..MaxWrites
           /\ \A n \in DOMAIN meta :
                /\ n \in 1..MaxWrites
                /\ meta[n] \in Meta /\ meta[n].ver \in 1..MaxVersion
                /\ meta[n].content \in Contents /\ meta[n].status \in Statuses
                /\ meta[n].attempts \in 0..LargerBudget /\ meta[n].due \in BOOLEAN
<1>1. meta \in Seq(Meta) /\ Len(meta) <= MaxWrites /\ MaxWrites \in Nat
    BY IndexingAssumption DEF TypeInv, IndexingTypeOK
<1>2. DOMAIN meta = 1..Len(meta) /\ Len(meta) \in Nat
    BY <1>1
<1>3. ASSUME NEW n \in DOMAIN meta
      PROVE  meta[n] \in Meta /\ n \in 1..MaxWrites
    BY <1>1, <1>2
<1>4. QED
    BY <1>1, <1>2, <1>3 DEF Meta

\* What the index holds was chunked.
LEMMA RecordFields ==
    ASSUME TypeInv, NEW g \in records
    PROVE  /\ g \in Gens /\ Named(g) /\ At(g) \in DOMAIN meta /\ Info(g) = meta[At(g)]
           /\ Info(g).ver \in 1..source.ver /\ MetaOK(Info(g))
<1>1. g \in written /\ g \in Gens
    BY DEF TypeInv, IndexingTypeOK, TypeOK
<1>2. Named(g) /\ Info(g) = meta[At(g)]
    BY <1>1 DEF TypeInv, Info
<1>3. QED
    BY <1>1, <1>2, MetaFields DEF TypeInv, Named, MetaOK

\* What a reader, and the pipeline, take for the document is in the index.
LEMMA Looked ==
    ASSUME TypeInv, records # {}
    PROVE  /\ NewestGeneration \in records /\ \A h \in records : h <= NewestGeneration
           /\ IndexedState \in records
<1>1. MaxGen \in Nat /\ records \subseteq 0..MaxGen
    BY MemoryAssumption DEF TypeInv, IndexingTypeOK, TypeOK, Gens
<1>2. \E g \in records : \A h \in records : h <= g
    BY <1>1, Largest
<1>3. NewestGeneration \in records /\ \A h \in records : NewestGeneration >= h
    <2>1. \E g \in records : \A h \in records : g >= h
        BY <1>1, <1>2
    <2>2. QED
        BY <2>1 DEF NewestGeneration, Max
<1>4. \E g \in records : \A h \in records : At(h) <= At(g)
    <2> DEFINE S == {At(h) : h \in records}
    <2>1. S \subseteq 0..MaxWrites /\ S # {}
        BY RecordFields, MetaFields
    <2>2. PICK n \in S : \A m \in S : m <= n
        BY <2>1, Largest, IndexingAssumption
    <2>3. QED
        BY <2>2
<1>5. IndexedState \in records
    BY <1>4 DEF IndexedState
<1>6. QED
    BY <1>1, <1>3, <1>5

-----------------------------------------------------------------------------
(* What the steps do to the workers.                                       *)

\* Worker w is now at l, and the others are where they were.
Turns(w, l) == /\ work' \in [Writers -> WorkType] /\ work'[w] = l
               /\ \A v \in Writers \ {w} : work'[v] = work[v]

\* What Goto says, for a worker's state of the right type.
LEMMA Turned ==
    ASSUME TypeInv, NEW w \in Writers, NEW l \in WorkType, Goto(w, l)
    PROVE  Turns(w, l)
BY DEF TypeInv, IndexingTypeOK, Goto, Turns

\* A worker that lets its document go.
Leaves(w) == Turns(w, Idle)

LEMMA Left == ASSUME TypeInv, NEW w \in Writers, Goto(w, Idle) PROVE Leaves(w)
BY IdleType, Turned DEF Leaves

\* A worker moves, and neither the source, nor what was chunked, nor the store.
Still == UNCHANGED <<records, writer, written, erased, crashes, source, dating, meta>>

LEMMA FetchEffect ==
    ASSUME TypeInv, NEW w \in Writers, Fetch(w)
    PROVE  /\ ~Busy(w) /\ owed /\ owed' = FALSE /\ Still /\ UNCHANGED <<extra, dropped>>
           /\ Begins(w)
           /\ \E l \in WorkType :
                /\ Turns(w, l) /\ l.pc = IF source.live THEN "fetched" ELSE "listed"
                /\ l.job = "fetch" /\ l.ver = source.ver /\ l.content = source.content
<1> DEFINE l == [Idle EXCEPT !.pc = IF source.live THEN "fetched" ELSE "listed",
                             !.job = "fetch", !.ver = source.ver, !.content = source.content]
<1>1. /\ ~Busy(w) /\ owed /\ owed' = FALSE /\ Still /\ UNCHANGED <<extra, dropped>>
      /\ Begins(w) /\ Goto(w, l)
    BY DEF Fetch, Still, vars
<1>2. source.ver \in 0..MaxVersion /\ source.content \in Contents
    BY DEF TypeInv, IndexingTypeOK
<1>3. /\ l \in WorkType /\ l.pc = IF source.live THEN "fetched" ELSE "listed"
      /\ l.job = "fetch" /\ l.ver = source.ver /\ l.content = source.content
    BY <1>2, IdleType DEF WorkType
<1> HIDE DEF l
<1>4. QED
    BY <1>1, <1>3, Turned

LEMMA DecideEffect ==
    ASSUME TypeInv, NEW w \in Writers, Decide(w)
    PROVE  LET g == IndexedState IN
           /\ work[w].pc = "fetched" /\ Still /\ UNCHANGED <<owed, extra, overlapped, dropped>>
           /\ Count(IF Unchanged(w, g) THEN tries ELSE 0)
           /\ g # 0 => g \in records
           /\ \/ Skips(w, g) /\ Leaves(w)
              \/ \E l \in WorkType :
                   /\ ~Skips(w, g) /\ Turns(w, l) /\ l.pc = "extracting"
                   /\ l.job = "fetch" /\ l.ver = work[w].ver /\ l.content = work[w].content
                   /\ l.attempts = Carried(w, g) /\ l.attempts < LargerBudget
<1> DEFINE g == IndexedState
           c == Carried(w, g)
           s == g # 0
           l == [work[w] EXCEPT !.pc = "extracting", !.seen = s, !.attempts = c]
<1>1. /\ work[w].pc = "fetched" /\ Still /\ UNCHANGED <<owed, extra, overlapped, dropped>>
      /\ Count(IF Unchanged(w, g) THEN tries ELSE 0)
      /\ Skips(w, g) => Goto(w, Idle)
      /\ ~Skips(w, g) => Goto(w, l)
    BY DEF Decide, Still, vars, jobVars
<1>2. g # 0 => g \in records
    BY Looked DEF IndexedState
<1>3. CASE Skips(w, g)
    BY <1>1, <1>2, <1>3, Left
<1>4. CASE ~Skips(w, g)
    <2>1. c \in 0..LargerBudget /\ c < LargerBudget
        <3>1. CASE Unchanged(w, g)
            <4>1. g \in records /\ RetryDue(g)
                BY <1>2, <1>4, <3>1 DEF Skips, Unchanged
            <4>2. Info(g).attempts < LargerBudget
                BY <4>1, RecordFields DEF RetryDue, MetaOK
            <4>3. Info(g).attempts \in 0..LargerBudget
                BY <4>1, RecordFields, MetaFields
            <4>4. QED
                BY <3>1, <4>2, <4>3 DEF Carried
        <3>2. CASE ~Unchanged(w, g)
            BY <3>2, Budgets DEF Carried
        <3>3. QED
            BY <3>1, <3>2
    <2>2. work[w] \in WorkType /\ work[w].job = "fetch"
        BY <1>1 DEF TypeInv, IndexingTypeOK, WorkerOK
    <2>3. s \in BOOLEAN
        OBVIOUS
    <2> HIDE DEF c, s
    <2>4. /\ l \in WorkType /\ l.pc = "extracting" /\ l.job = "fetch" /\ l.ver = work[w].ver
          /\ l.content = work[w].content /\ l.attempts = c
        BY <2>1, <2>2, <2>3 DEF WorkType
    <2>5. Turns(w, l)
        BY <1>1, <1>4, <2>4, Turned
    <2> HIDE DEF l
    <2>6. QED
        BY <1>1, <1>2, <1>4, <2>1, <2>4, <2>5 DEF c
<1>5. QED
    BY <1>3, <1>4

\* What a retry starts from.
LEMMA RebuiltType ==
    ASSUME TypeInv, records # {}
    PROVE  /\ Rebuilt \in WorkType /\ Rebuilt.pc = "loaded" /\ Rebuilt.job = "retry"
           /\ Rebuilt.ver = Info(NewestGeneration).ver
           /\ Rebuilt.content = Info(NewestGeneration).content
           /\ Rebuilt.attempts = Info(NewestGeneration).attempts
           /\ NewestGeneration \in records
<1> DEFINE m == Info(NewestGeneration)
<1>1. NewestGeneration \in records
    BY Looked
<1>2. m.ver \in 0..MaxVersion /\ m.content \in Contents /\ m.attempts \in 0..LargerBudget
    BY <1>1, RecordFields, MetaFields
<1>3. Rebuilt = [Idle EXCEPT !.pc = "loaded", !.job = "retry", !.ver = m.ver,
                             !.content = m.content, !.seen = TRUE, !.attempts = m.attempts]
    BY DEF Rebuilt
<1> HIDE DEF m
<1>4. QED
    BY <1>1, <1>2, <1>3, IdleType DEF WorkType, m

LEMMA ReprocessEffect ==
    ASSUME TypeInv, NEW w \in Writers, Reprocess(w) \/ ReprocessFailed(w)
    PROVE  /\ ~Busy(w) /\ Still /\ UNCHANGED <<owed, dropped>> /\ extra' \in 0..MaxExtra
           /\ overlapped' = (overlapped \/ ~Alone(w))
           /\ \/ Alone(w) /\ tries' \in {tries, 0}
              \/ tries' = Uncounted
           /\ \E l \in WorkType :
                /\ Turns(w, l) /\ l.pc = "loaded" /\ l.job = "retry"
                /\ NewestGeneration \in records /\ l.ver = Info(NewestGeneration).ver
                /\ l.content = Info(NewestGeneration).content
                /\ l.attempts < LargerBudget
                /\ l.attempts = Info(NewestGeneration).attempts \/ tries' \in {Uncounted, 0}
<1>1. CASE Reprocess(w)
    <2>1. /\ ~Busy(w) /\ records # {} /\ RetryDue(NewestGeneration) /\ Goto(w, Rebuilt)
          /\ Begins(w) /\ Still /\ UNCHANGED <<owed, extra, dropped>>
        BY <1>1 DEF Reprocess, Still, vars, jobVars
    <2>2. Rebuilt \in WorkType /\ NewestGeneration \in records
        BY <2>1, RebuiltType
    <2>3. Rebuilt.attempts < LargerBudget
        BY <2>1, <2>2, RebuiltType, RecordFields DEF RetryDue, MetaOK
    <2>4. extra' \in 0..MaxExtra
        BY <2>1 DEF TypeInv, IndexingTypeOK
    <2>5. QED
        BY <2>1, <2>2, <2>3, <2>4, RebuiltType, Turned DEF Begins
<1>2. CASE ReprocessFailed(w)
    <2> DEFINE l == [Rebuilt EXCEPT !.attempts = 0]
    <2>1. /\ ~Busy(w) /\ records # {} /\ extra < MaxExtra /\ extra' = extra + 1
          /\ Goto(w, l) /\ Still /\ UNCHANGED <<owed, dropped>>
          /\ overlapped' = (overlapped \/ ~Alone(w))
          /\ IF Alone(w) THEN Count(0) ELSE tries' = Uncounted
        BY <1>2 DEF ReprocessFailed, Still, vars
    <2>2. /\ l \in WorkType /\ l.pc = "loaded" /\ l.job = "retry" /\ l.attempts = 0
          /\ l.ver = Info(NewestGeneration).ver
          /\ l.content = Info(NewestGeneration).content
          /\ NewestGeneration \in records
        BY <2>1, RebuiltType, Budgets DEF WorkType
    <2>3. Turns(w, l)
        BY <2>1, <2>2, Turned
    <2> HIDE DEF l
    <2>4. extra' \in 0..MaxExtra
        BY <2>1, IndexingAssumption DEF TypeInv, IndexingTypeOK
    <2>5. QED
        BY <2>1, <2>2, <2>3, <2>4, Budgets DEF Count
<1>3. QED
    BY <1>1, <1>2

LEMMA RecheckEffect ==
    ASSUME TypeInv, NEW w \in Writers, Recheck(w)
    PROVE  /\ work[w].pc = "loaded" /\ Still
           /\ UNCHANGED <<owed, extra, tries, overlapped, dropped>>
           /\ \/ Leaves(w)
              \/ \E l \in WorkType :
                   /\ Turns(w, l) /\ l.pc = "extracting" /\ l.job = "retry"
                   /\ l.ver = work[w].ver /\ l.content = work[w].content
                   /\ l.attempts = work[w].attempts
<1> DEFINE l == [work[w] EXCEPT !.pc = "extracting"]
<1>1. /\ work[w].pc = "loaded" /\ Still /\ UNCHANGED <<owed, extra, tries, overlapped, dropped>>
      /\ Goto(w, Idle) \/ Goto(w, l)
    BY DEF Recheck, Still, vars, jobVars, history
<1>2. work[w] \in WorkType /\ work[w].job = "retry"
    BY <1>1 DEF TypeInv, IndexingTypeOK, WorkerOK
<1>3. /\ l \in WorkType /\ l.pc = "extracting" /\ l.job = "retry" /\ l.ver = work[w].ver
      /\ l.content = work[w].content /\ l.attempts = work[w].attempts
    BY <1>2 DEF WorkType
<1> HIDE DEF l
<1>4. QED
    BY <1>1, <1>3, Left, Turned

\* A worker lets the document go, for one reason or another.
LEMMA LeaveEffect ==
    ASSUME TypeInv, NEW w \in Writers, Reconcile(w) \/ Empty(w) \/ Transient(w) \/ Permanent(w)
    PROVE  /\ Leaves(w) /\ writer[w] = 0
           /\ UNCHANGED <<writer, written, crashes, source, dating, meta, extra, overlapped>>
           /\ \/ UNCHANGED <<records, erased>>
              \/ records' = {} /\ erased' = TRUE
           /\ owed' = (owed \/ (Transient(w) /\ work[w].job = "fetch"))
           /\ dropped' \in BOOLEAN
           /\ dropped' = dropped \/ dropped' = TRUE
           /\ tries' \in {tries, Uncounted}
           /\ work[w].pc = "storing" => tries' = Uncounted
<1>1. WorkerOK(w)
    BY DEF TypeInv
<1>2. owed \in BOOLEAN /\ dropped \in BOOLEAN
    BY DEF TypeInv, IndexingTypeOK
<1>3. CASE Reconcile(w)
    BY <1>1, <1>2, <1>3, Left DEF Reconcile, DeleteByDocument, vars, jobVars, history, WorkerOK,
       Transient
<1>4. CASE Empty(w)
    BY <1>1, <1>2, <1>4, Left DEF Empty, DeleteByDocument, vars, jobVars, history, WorkerOK,
       Transient
<1>5. CASE Transient(w)
    BY <1>1, <1>2, <1>5, Left DEF Transient, vars
<1>6. CASE Permanent(w)
    BY <1>1, <1>2, <1>6, Left DEF Permanent, vars, jobVars, Transient
<1>7. QED
    BY <1>3, <1>4, <1>5, <1>6

\* Chunking a document leaves what was chunked before as it is.
LEMMA MetaGrows ==
    ASSUME TypeInv, NEW m \in Meta, Len(meta) < MaxWrites, meta' = Append(meta, m),
           dating' = dating, NEW n, n = Len(meta) + 1, NEW k, k = Rank(m.ver, n)
    PROVE  /\ meta' \in Seq(Meta) /\ Len(meta') = n /\ n \in 1..MaxWrites
           /\ DOMAIN meta' = DOMAIN meta \cup {n} /\ n \notin DOMAIN meta
           /\ \A i \in DOMAIN meta : meta'[i] = meta[i]
           /\ meta'[n] = m
           /\ \A g : Named(g) => Named(g)' /\ Info(g)' = Info(g)
           /\ k \in Gens /\ Named(k)' /\ At(k) = n /\ Info(k)' = m
<1>1. meta \in Seq(Meta) /\ Len(meta) \in Nat /\ MaxWrites \in Nat /\ m.ver \in 1..MaxVersion
    BY IndexingAssumption DEF TypeInv, IndexingTypeOK, Meta
<1>2. /\ meta' \in Seq(Meta) /\ Len(meta') = n /\ n \in 1..MaxWrites
      /\ DOMAIN meta' = DOMAIN meta \cup {n} /\ n \notin DOMAIN meta
      /\ \A i \in DOMAIN meta : meta'[i] = meta[i]
      /\ meta'[n] = m
    BY <1>1
<1>3. ASSUME NEW g, Named(g) PROVE Named(g)' /\ Info(g)' = Info(g)
    <2>1. At(g) \in DOMAIN meta /\ g = Rank(Info(g).ver, At(g))
        BY <1>3 DEF Named
    <2>2. Info(g)' = Info(g)
        BY <1>2, <2>1 DEF Info, At
    <2>3. At(g)' = At(g) /\ At(g)' \in DOMAIN meta'
        BY <1>2, <2>1 DEF At
    <2>4. g = Rank(Info(g).ver, At(g))'
        BY <2>1, <2>2 DEF Rank, At
    <2>5. QED
        BY <2>2, <2>3, <2>4 DEF Named
<1>4. k \in Gens /\ At(k) = n
    BY <1>1, <1>2, Ranks
<1>5. Info(k)' = m
    BY <1>2, <1>4 DEF Info, At
<1>6. Named(k)'
    <2>1. At(k)' = n
        BY <1>4 DEF At
    <2>2. Rank(m.ver, n)' = k
        BY DEF Rank
    <2>3. QED
        BY <1>2, <1>5, <2>1, <2>2 DEF Named, Rank, At
<1>7. QED
    BY <1>2, <1>3, <1>4, <1>5, <1>6

LEMMA ExtractEffect ==
    ASSUME TypeInv, NEW w \in Writers, Extract(w)
    PROVE  \E m \in Meta, l \in WorkType :
             /\ work[w].pc = "extracting" /\ work[w].content # Blank
             /\ UNCHANGED <<vars, source, dating, owed, extra, overlapped, dropped>>
             /\ m.ver = work[w].ver /\ m.content = work[w].content /\ MetaOK(m)
             /\ \/ Count(0)
                \/ Count(tries + 1) /\ m.attempts = work[w].attempts + 1
             /\ Len(meta) < MaxWrites /\ meta' = Append(meta, m)
             /\ Turns(w, l) /\ l.pc = "storing" /\ l.job = work[w].job
             /\ l.gen = Rank(m.ver, Len(meta) + 1)
<1>1. PICK outcome \in {"ok"} \cup FailureKinds :
             /\ Chunked(w, Extracted(w, outcome))
             /\ Count(IF outcome = "ok" THEN 0 ELSE tries + 1)
    BY DEF Extract
<1> DEFINE m == Extracted(w, outcome)
           n == work[w].attempts + 1
           g == Rank(m.ver, Len(meta) + 1)
           l == [Idle EXCEPT !.pc = "storing", !.job = work[w].job, !.gen = g]
<1>2. work[w].pc = "extracting" /\ work[w] \in WorkType /\ WorkerOK(w)
    BY DEF Extract, TypeInv, IndexingTypeOK
<1>3. /\ work[w].ver \in 1..source.ver /\ work[w].attempts < LargerBudget
      /\ work[w].attempts \in 0..LargerBudget /\ work[w].content \in Contents
      /\ work[w].job \in {"none", "fetch", "retry"} /\ source.ver \in 1..MaxVersion
    BY <1>2 DEF WorkerOK, Carries, WorkType, TypeInv, IndexingTypeOK
<1>4. n \in 1..LargerBudget /\ work[w].ver \in 1..MaxVersion
    BY <1>3, Budgets, IndexingAssumption
<1>5. /\ m.ver = work[w].ver /\ m.content = work[w].content /\ m.due = FALSE
      /\ m.attempts = IF outcome = "ok" THEN 0 ELSE n
      /\ m.status = IF outcome = "ok" THEN "ok"
                    ELSE IF n >= Budget(outcome) THEN "failed" ELSE "retry_pending"
      /\ m = [ver |-> m.ver, content |-> m.content, due |-> m.due, status |-> m.status,
              attempts |-> m.attempts]
    BY DEF Extracted
<1>6. Budget(outcome) <= LargerBudget /\ Budget(outcome) \in Nat
    BY Budgets, IndexingAssumption DEF Budget
<1>7. Chunked(w, m)
    BY <1>1
<1> HIDE DEF m
<1>8. m.status \in Statuses /\ m.attempts \in 0..LargerBudget
    BY <1>4, <1>5, Budgets DEF Statuses
<1>9. m \in Meta
    BY <1>3, <1>4, <1>5, <1>8 DEF Meta
<1>10. MetaOK(m)
    <2>1. m.ver <= source.ver
        BY <1>3, <1>5
    <2>2. ASSUME m.status = "retry_pending" PROVE m.attempts < LargerBudget
        BY <1>4, <1>5, <1>6, <2>2, Budgets
    <2>3. QED
        BY <2>1, <2>2 DEF MetaOK
<1>11. Len(meta) < MaxWrites /\ meta' = Append(meta, m) /\ Goto(w, l)
    BY <1>7 DEF Chunked
<1>12. g \in Gens
    <2>1. Len(meta) + 1 \in 1..MaxWrites
        BY <1>11, IndexingAssumption DEF TypeInv, IndexingTypeOK
    <2>2. QED
        BY <1>4, <1>5, <2>1, Ranks
<1> HIDE DEF g
<1>13. l \in WorkType /\ l.pc = "storing" /\ l.job = work[w].job /\ l.gen = g
    <2>1. g \in 0..MaxGen
        BY <1>12 DEF Gens
    <2>2. QED
        BY <1>3, <2>1, IdleType DEF WorkType
<1>14. Turns(w, l)
    BY <1>11, <1>13, Turned
<1> HIDE DEF l
<1>15. Count(0) \/ (Count(tries + 1) /\ m.attempts = work[w].attempts + 1)
    BY <1>1, <1>5
<1>16. /\ work[w].content # Blank
       /\ UNCHANGED <<vars, source, dating, owed, extra, overlapped, dropped>>
    BY DEF Extract, jobVars
<1>17. QED
    BY <1>2, <1>5, <1>9, <1>10, <1>11, <1>13, <1>14, <1>15, <1>16 DEF g

LEMMA StoreEffect ==
    ASSUME TypeInv, NEW w \in Writers, Store(w)
    PROVE  LET g == work[w].gen IN
           /\ work[w].pc = "storing" /\ writer[w] = 0 /\ g \in Gens /\ Named(g)
           /\ Upsert(w, g) /\ writer' = [writer EXCEPT ![w] = g] /\ records' = records \cup {g}
           /\ UNCHANGED <<erased, crashes, jobVars, work, meta, history>>
<1>1. WorkerOK(w) /\ work[w].pc = "storing"
    BY DEF TypeInv, Store
<1>2. work[w].gen \in Gens /\ Named(work[w].gen)
    <2>1. Named(work[w].gen)
        BY <1>1 DEF WorkerOK
    <2>2. QED
        BY <2>1, Ranks, MetaFields DEF Named, Info
<1>3. QED
    BY <1>1, <1>2 DEF Store, Upsert

LEMMA FinishEffect ==
    ASSUME TypeInv, NEW w \in Writers, Finish(w)
    PROVE  /\ Prune(w) /\ Leaves(w) /\ work[w].pc = "storing" /\ writer[w] = work[w].gen
           /\ writer' = [writer EXCEPT ![w] = 0] /\ writer[w] # 0
           /\ records' = records \ Outranked(w)
           /\ UNCHANGED <<written, erased, crashes, jobVars, meta, history>>
<1>1. Prune(w) /\ writer[w] # 0 /\ Goto(w, Idle)
    BY DEF Finish, Prune
<1>2. work[w].pc = "storing" /\ writer[w] = work[w].gen
    BY <1>1 DEF TypeInv, WorkerOK
<1>3. QED
    BY <1>1, <1>2, Left DEF Finish, Prune

\* An entry of what was chunked falls due.
LEMMA DueEffect ==
    ASSUME TypeInv, Due
    PROVE  /\ UNCHANGED <<vars, jobVars, work, history>>
           /\ meta' \in Seq(Meta) /\ Len(meta') = Len(meta) /\ DOMAIN meta' = DOMAIN meta
           /\ \A n \in DOMAIN meta :
                /\ meta'[n].ver = meta[n].ver /\ meta'[n].content = meta[n].content
                /\ meta'[n].status = meta[n].status /\ meta'[n].attempts = meta[n].attempts
           /\ \A g : Named(g) => /\ Named(g)'
                                 /\ Info(g)'.ver = Info(g).ver
                                 /\ Info(g)'.content = Info(g).content
                                 /\ Info(g)'.attempts = Info(g).attempts
<1>1. PICK n \in DOMAIN meta : meta' = [meta EXCEPT ![n].due = TRUE]
    BY DEF Due
<1> DEFINE m == [meta[n] EXCEPT !.due = TRUE]
<1>2. meta[n] \in Meta /\ meta \in Seq(Meta)
    BY MetaFields DEF TypeInv, IndexingTypeOK
<1>3. /\ m \in Meta /\ m.ver = meta[n].ver /\ m.content = meta[n].content
      /\ m.status = meta[n].status /\ m.attempts = meta[n].attempts
    BY <1>2 DEF Meta
<1>4. meta' = [meta EXCEPT ![n] = m]
    BY <1>1
<1> HIDE DEF m
<1>5. n \in 1..Len(meta)
    BY <1>2
<1>6. meta' \in Seq(Meta) /\ Len(meta') = Len(meta) /\ DOMAIN meta' = DOMAIN meta
    BY <1>2, <1>3, <1>4, <1>5, ExceptSeq
<1>7. \A i \in DOMAIN meta : meta'[i] = IF i = n THEN m ELSE meta[i]
    BY <1>4
<1>8. /\ UNCHANGED <<vars, jobVars, work, history>>
      /\ \A i \in DOMAIN meta :
                /\ meta'[i].ver = meta[i].ver /\ meta'[i].content = meta[i].content
                /\ meta'[i].status = meta[i].status /\ meta'[i].attempts = meta[i].attempts
    BY <1>3, <1>7 DEF Due
<1>9. ASSUME NEW g, Named(g)
      PROVE  /\ Named(g)' /\ Info(g)'.ver = Info(g).ver
             /\ Info(g)'.content = Info(g).content /\ Info(g)'.attempts = Info(g).attempts
    <2>1. At(g) \in DOMAIN meta /\ g = Rank(Info(g).ver, At(g))
        BY <1>9 DEF Named
    <2>2. At(g)' = At(g) /\ Info(g)' = meta'[At(g)] /\ Info(g) = meta[At(g)]
        BY DEF At, Info
    <2>3. /\ Info(g)'.ver = Info(g).ver
          /\ Info(g)'.content = Info(g).content /\ Info(g)'.attempts = Info(g).attempts
        BY <1>8, <2>1, <2>2
    <2>4. dating' = dating
        BY <1>8 DEF jobVars
    <2>5. g = Rank(Info(g).ver, At(g))'
        BY <2>1, <2>3, <2>4 DEF Rank, At
    <2>6. QED
        BY <1>6, <2>1, <2>2, <2>3, <2>5 DEF Named
<1>10. QED
    BY <1>6, <1>8, <1>9
-----------------------------------------------------------------------------
(* The pipeline is a user of the store, and its own state is well typed.   *)

\* Every step of the pipeline is one of the store's critical sections, or none of them.
LEMMA UsesStore == TypeInv /\ [PipelineNext]_pipelineVars => [Next]_vars
<1> SUFFICES ASSUME TypeInv, [PipelineNext]_pipelineVars PROVE [Next]_vars
    OBVIOUS
<1>1. CASE Edit \/ Discover \/ Due
    BY <1>1 DEF Edit, Discover, Due
<1>2. CASE Die
    BY <1>2 DEF Die, Next
<1>3. ASSUME NEW w \in Writers, Run(w) PROVE [Next]_vars
    <2>1. CASE Fetch(w) \/ Decide(w) \/ Extract(w) \/ Transient(w) \/ Permanent(w)
               \/ Reprocess(w) \/ ReprocessFailed(w) \/ Recheck(w)
        BY <2>1 DEF Fetch, Decide, Extract, Transient, Permanent, Reprocess, ReprocessFailed,
           Recheck
    <2>2. CASE Reconcile(w)
        BY <2>2 DEF Reconcile, Next
    <2>3. CASE Empty(w)
        BY <2>3 DEF Empty, Next
    <2>4. CASE Store(w)
        BY <2>4, StoreEffect DEF Next
    <2>5. CASE Finish(w)
        BY <2>5 DEF Finish, Next
    <2>6. QED
        BY <1>3, <2>1, <2>2, <2>3, <2>4, <2>5 DEF Run
<1>4. CASE UNCHANGED pipelineVars
    BY <1>4 DEF pipelineVars
<1>5. QED
    BY <1>1, <1>2, <1>3, <1>4 DEF PipelineNext

\* A document that has never been fetched.
LEMMA TypeInit == PipelineInit => TypeInv
<1> SUFFICES ASSUME PipelineInit PROVE TypeInv
    OBVIOUS
<1> USE DEF PipelineInit
<1>1. IndexingTypeOK
    <2>1. TypeOK
        BY StoreInitTyped
    <2>2. /\ source \in [ver : 1..MaxVersion, content : Contents, live : BOOLEAN]
          /\ extra \in 0..MaxExtra /\ Len(meta) <= MaxWrites /\ meta \in Seq(Meta)
        BY IndexingAssumption
    <2>3. work \in [Writers -> WorkType]
        BY IdleType
    <2>4. /\ owed \in BOOLEAN /\ tries \in Int /\ overlapped \in BOOLEAN /\ dropped \in BOOLEAN
          /\ dating \in Datings
        <3>1. owed \in BOOLEAN
            BY Zenon
        <3>2. overlapped \in BOOLEAN /\ dropped \in BOOLEAN
            BY Zenon
        <3>3. tries \in Int
            OBVIOUS
        <3>4. QED
            BY <3>1, <3>2, <3>3
    <2> HIDE DEF PipelineInit
    <2>5. QED
        BY <2>1, <2>2, <2>3, <2>4 DEF IndexingTypeOK
<1>2. written = {} /\ DOMAIN meta = {} /\ \A w \in Writers : work[w] = Idle /\ writer[w] = 0
    BY DEF Init
<1>3. ASSUME NEW w \in Writers PROVE WorkerOK(w)
    BY <1>2, IdleType DEF WorkerOK, Carries
<1>4. QED
    BY <1>1, <1>2, <1>3 DEF TypeInv

\* What was chunked stays what it is.
Lasting == \A g : Named(g) => Named(g)'

LEMMA StillLasts == Still => Lasting
BY DEF Still, Lasting, Named, Info, At, Rank

\* A worker that does nothing stays well typed, whatever the others chunk.
LEMMA OtherOK ==
    ASSUME TypeInv, Lasting, NEW w \in Writers, work'[w] = work[w], writer'[w] \in {writer[w], 0},
           source.ver <= source'.ver, source'.ver \in Int
    PROVE  WorkerOK(w)'
<1>1. source.ver \in Int /\ work[w].ver \in Int /\ WorkerOK(w)
    BY DEF TypeInv, IndexingTypeOK, WorkType
<1>2. writer'[w] # 0 => work'[w].pc = "storing" /\ writer'[w] = work'[w].gen
    BY <1>1 DEF WorkerOK
<1>3. work'[w].pc = "storing" => Named(work[w].gen)'
    <2>1. work[w].pc = "storing" => Named(work[w].gen)
        BY <1>1 DEF WorkerOK
    <2>2. PICK g : g = work[w].gen
        OBVIOUS
    <2>3. Named(g) => Named(g)'
        BY DEF Lasting
    <2>4. QED
        BY <2>1, <2>2, <2>3
<1>4. QED
    BY <1>1, <1>2, <1>3 DEF WorkerOK, Carries, Named, Info, At, Rank

\* A step that leaves alone what was chunked keeps the pipeline's state well typed, if it
\* keeps every worker's.
LEMMA TypeKept ==
    ASSUME TypeInv, TypeOK', Still \/ UNCHANGED <<source, dating, meta>>,
           \A g \in written' \ written : Named(g),
           owed' \in BOOLEAN, extra' \in 0..MaxExtra, work' \in [Writers -> WorkType],
           tries' \in Int, overlapped' \in BOOLEAN, dropped' \in BOOLEAN,
           \A w \in Writers : WorkerOK(w)'
    PROVE  TypeInv'
<1>1. UNCHANGED <<source, dating, meta>>
    BY DEF Still
<1>2. IndexingTypeOK'
    BY <1>1 DEF TypeInv, IndexingTypeOK
<1>3. ASSUME NEW g \in written' PROVE Named(g)'
    <2>1. Named(g)
        BY DEF TypeInv
    <2>2. QED
        BY <1>1, <2>1 DEF Named, Info, At, Rank
<1>4. ASSUME NEW n \in DOMAIN meta' PROVE MetaOK(meta[n])'
    BY <1>1 DEF TypeInv, MetaOK
<1>5. QED
    BY <1>2, <1>3, <1>4 DEF TypeInv

\* One worker turns, and nothing else moves.
LEMMA TurnTyped ==
    ASSUME TypeInv, Still, owed' \in BOOLEAN, extra' \in 0..MaxExtra,
           tries' \in Int, overlapped' \in BOOLEAN, dropped' \in BOOLEAN,
           NEW w \in Writers, NEW l \in WorkType, Turns(w, l), writer[w] = 0,
           l.pc # "storing",
           l.pc \in {"fetched", "loaded", "extracting"} => l.ver \in 1..source.ver,
           l.pc = "fetched" => l.job = "fetch", l.pc = "loaded" => l.job = "retry",
           l.pc \in {"loaded", "extracting"} => l.attempts < LargerBudget
    PROVE  TypeInv'
<1>1. TypeOK' /\ UNCHANGED <<source, writer, written>> /\ source.ver \in Int
    BY DEF TypeInv, IndexingTypeOK, TypeOK, Still
<1>2. WorkerOK(w)'
    BY <1>1 DEF WorkerOK, Turns, Carries
<1>3. ASSUME NEW v \in Writers \ {w} PROVE WorkerOK(v)'
    <2>1. work'[v] = work[v] /\ writer'[v] = writer[v]
        BY <1>1 DEF Turns
    <2>2. QED
        BY <1>1, <2>1, StillLasts, OtherOK
<1>4. \A v \in Writers : WorkerOK(v)'
    BY <1>2, <1>3
<1>5. QED
    BY <1>1, <1>4, TypeKept DEF Turns

\* A worker that is not storing is not inside replace_document.
LEMMA Outside ==
    ASSUME TypeInv, NEW w \in Writers, work[w].pc # "storing"
    PROVE  writer[w] = 0
BY DEF TypeInv, WorkerOK

LEMMA BeginsTyped ==
    ASSUME TypeInv, NEW w \in Writers, Begins(w)
    PROVE  overlapped' \in BOOLEAN /\ tries' \in Int
BY DEF Begins, TypeInv, IndexingTypeOK, Uncounted

\* TypeInv is inductive.
LEMMA TypeStep == TypeInv /\ [PipelineNext]_pipelineVars => TypeInv'
<1> SUFFICES ASSUME TypeInv, [PipelineNext]_pipelineVars PROVE TypeInv'
    OBVIOUS
<1>1. TypeOK' /\ IndexingTypeOK /\ source.ver \in 1..MaxVersion /\ source.content \in Contents
    BY UsesStore, StoreStepTyped DEF TypeInv, IndexingTypeOK
<1>2. CASE Edit
    <2>1. /\ source' \in [ver : 1..MaxVersion, content : Contents, live : BOOLEAN]
          /\ source'.ver = source.ver + 1
          /\ owed' = TRUE
        BY <1>1, <1>2, IndexingAssumption DEF Edit
    <2>2. UNCHANGED <<vars, dating, work, meta, extra, history>> /\ UNCHANGED <<writer, written>>
        BY <1>2 DEF Edit, vars
    <2>3. IndexingTypeOK'
        BY <1>1, <2>1, <2>2 DEF IndexingTypeOK, history
    <2>4. Lasting
        BY <2>2 DEF Lasting, Named, Info, At, Rank
    <2>5. \A w \in Writers : WorkerOK(w)'
        BY <1>1, <2>1, <2>2, <2>4, OtherOK
    <2>6. \A g \in written' : Named(g)'
        BY <2>2, <2>4 DEF TypeInv, Lasting
    <2>7. \A n \in DOMAIN meta' : MetaOK(meta[n])'
        <3>1. ASSUME NEW n \in DOMAIN meta PROVE MetaOK(meta[n])'
            <4>1. MetaOK(meta[n]) /\ meta[n].ver \in 1..MaxVersion
                BY MetaFields DEF TypeInv
            <4>2. QED
                BY <1>1, <2>1, <2>2, <4>1 DEF MetaOK
        <3>2. QED
            BY <2>2, <3>1
    <2>8. QED
        BY <2>3, <2>5, <2>6, <2>7 DEF TypeInv
<1>3. CASE Discover
    <2>1. /\ UNCHANGED <<vars, source, dating, work, meta, history>> /\ owed' = TRUE
          /\ extra' \in 0..MaxExtra /\ UNCHANGED <<writer, written>> /\ Lasting
        BY <1>1, <1>3, IndexingAssumption
           DEF Discover, vars, IndexingTypeOK, Lasting, Named, Info, At, Rank
    <2>2. \A w \in Writers : WorkerOK(w)'
        BY <1>1, <2>1, OtherOK
    <2>3. QED
        BY <1>1, <2>1, <2>2, TypeKept DEF IndexingTypeOK, history
<1>4. CASE Due
    <2>1. /\ UNCHANGED <<vars, jobVars, work, history>> /\ UNCHANGED <<writer, written, source>>
          /\ Lasting /\ meta' \in Seq(Meta) /\ Len(meta') = Len(meta) /\ DOMAIN meta' = DOMAIN meta
          /\ \A n \in DOMAIN meta : /\ meta'[n].ver = meta[n].ver
                                    /\ meta'[n].status = meta[n].status
                                    /\ meta'[n].attempts = meta[n].attempts
        BY <1>4, DueEffect DEF Lasting, vars, jobVars
    <2>2. IndexingTypeOK'
        BY <1>1, <2>1 DEF IndexingTypeOK, jobVars, history
    <2>3. \A w \in Writers : WorkerOK(w)'
        BY <1>1, <2>1, OtherOK
    <2>4. \A g \in written' : Named(g)'
        BY <2>1 DEF TypeInv, Lasting
    <2>5. \A n \in DOMAIN meta' : MetaOK(meta[n])'
        BY <2>1 DEF TypeInv, MetaOK
    <2>6. QED
        BY <2>2, <2>3, <2>4, <2>5 DEF TypeInv
<1>5. CASE Die
    <2>1. /\ UNCHANGED <<source, dating, meta, extra, overlapped, dropped, written>>
          /\ work' = [w \in Writers |-> Idle] /\ writer' = [w \in Writers |-> 0]
          /\ owed' \in BOOLEAN /\ tries' \in Int
        BY <1>1, <1>5 DEF Die, Crash, IndexingTypeOK, Uncounted
    <2>2. \A w \in Writers : work'[w] = Idle /\ writer'[w] = 0
        BY <2>1
    <2>3. \A w \in Writers : WorkerOK(w)'
        BY <2>2, IdleType DEF WorkerOK, Carries
    <2>4. work' \in [Writers -> WorkType]
        BY <2>1, IdleType
    <2>5. QED
        BY <1>1, <2>1, <2>3, <2>4, TypeKept DEF IndexingTypeOK
<1>6. ASSUME NEW w \in Writers, Run(w) PROVE TypeInv'
    <2>1. CASE Fetch(w)
        <3>1. /\ ~Busy(w) /\ Still /\ owed' = FALSE /\ UNCHANGED <<extra, dropped>> /\ Begins(w)
              /\ \E l \in WorkType :
                   /\ Turns(w, l) /\ l.pc = IF source.live THEN "fetched" ELSE "listed"
                   /\ l.job = "fetch" /\ l.ver = source.ver
            BY <2>1, FetchEffect
        <3>2. PICK l \in WorkType :
                   /\ Turns(w, l) /\ l.pc = IF source.live THEN "fetched" ELSE "listed"
                   /\ l.job = "fetch" /\ l.ver = source.ver
            BY <3>1
        <3>3. l.pc \in {"fetched", "listed"} /\ l.ver \in 1..source.ver /\ writer[w] = 0
            BY <1>1, <3>1, <3>2, Outside DEF Busy
        <3>4. QED
            BY <1>1, <3>1, <3>2, <3>3, TurnTyped, BeginsTyped DEF IndexingTypeOK
    <2>2. CASE Decide(w)
        <3>1. /\ work[w].pc = "fetched" /\ Still /\ UNCHANGED <<owed, extra, overlapped, dropped>>
              /\ \/ Leaves(w)
                 \/ \E l \in WorkType :
                      /\ Turns(w, l) /\ l.pc = "extracting" /\ l.ver = work[w].ver
                      /\ l.attempts < LargerBudget
            BY <2>2, DecideEffect
        <3>2. PICK l \in WorkType :
                      /\ Turns(w, l)
                      /\ \/ l.pc = "idle"
                         \/ l.pc = "extracting" /\ l.ver = work[w].ver /\ l.attempts < LargerBudget
            BY <3>1, IdleType DEF Leaves
        <3>3. writer[w] = 0 /\ work[w].ver \in 1..source.ver /\ tries' \in Int
            <4>1. tries' \in {tries, 0, Uncounted}
                BY <2>2, DecideEffect DEF Count
            <4>2. QED
                BY <1>1, <3>1, <4>1, Outside
                   DEF TypeInv, WorkerOK, Carries, IndexingTypeOK, Uncounted
        <3>4. QED
            BY <1>1, <3>1, <3>2, <3>3, TurnTyped DEF IndexingTypeOK
    <2>3. CASE Recheck(w)
        <3>1. /\ work[w].pc = "loaded" /\ Still
              /\ UNCHANGED <<owed, extra, tries, overlapped, dropped>>
              /\ \/ Leaves(w)
                 \/ \E l \in WorkType :
                      /\ Turns(w, l) /\ l.pc = "extracting" /\ l.ver = work[w].ver
                      /\ l.attempts = work[w].attempts
            BY <2>3, RecheckEffect
        <3>2. writer[w] = 0 /\ work[w].ver \in 1..source.ver /\ work[w].attempts < LargerBudget
            BY <1>1, <3>1, Outside DEF TypeInv, WorkerOK, Carries
        <3>3. PICK l \in WorkType :
                      /\ Turns(w, l)
                      /\ \/ l.pc = "idle"
                         \/ l.pc = "extracting" /\ l.ver = work[w].ver /\ l.attempts < LargerBudget
            BY <3>1, <3>2, IdleType DEF Leaves
        <3>4. QED
            BY <1>1, <3>1, <3>2, <3>3, TurnTyped DEF IndexingTypeOK
    <2>4. CASE Reprocess(w) \/ ReprocessFailed(w)
        <3>1. /\ ~Busy(w) /\ Still /\ UNCHANGED <<owed, dropped>> /\ extra' \in 0..MaxExtra
              /\ overlapped' = (overlapped \/ ~Alone(w))
              /\ tries' \in {tries, 0, Uncounted}
              /\ \E l \in WorkType :
                   /\ Turns(w, l) /\ l.pc = "loaded" /\ l.job = "retry"
                   /\ NewestGeneration \in records /\ l.ver = Info(NewestGeneration).ver
                   /\ l.attempts < LargerBudget
            BY <2>4, ReprocessEffect
        <3>2. PICK l \in WorkType :
                   /\ Turns(w, l) /\ l.pc = "loaded" /\ l.job = "retry"
                   /\ NewestGeneration \in records /\ l.ver = Info(NewestGeneration).ver
                   /\ l.attempts < LargerBudget
            BY <3>1
        <3>3. l.ver \in 1..source.ver /\ writer[w] = 0
            BY <3>1, <3>2, RecordFields, Outside DEF Busy
        <3>4. tries' \in Int /\ overlapped' \in BOOLEAN
            BY <1>1, <3>1 DEF IndexingTypeOK, Uncounted
        <3>5. QED
            BY <1>1, <3>1, <3>2, <3>3, <3>4, TurnTyped DEF IndexingTypeOK
    <2>5. CASE Reconcile(w) \/ Empty(w) \/ Transient(w) \/ Permanent(w)
        <3>1. /\ Leaves(w)
              /\ UNCHANGED <<writer, written, source, dating, meta, extra, overlapped>>
              /\ tries' \in {tries, Uncounted} /\ dropped' \in BOOLEAN /\ owed' \in BOOLEAN
            BY <1>1, <2>5, LeaveEffect DEF IndexingTypeOK
        <3>2. Lasting
            BY <3>1 DEF Lasting, Named, Info, At, Rank
        <3>3. ASSUME NEW v \in Writers \ {w} PROVE WorkerOK(v)'
            <4>1. work'[v] = work[v] /\ writer'[v] = writer[v]
                BY <3>1 DEF Turns, Leaves
            <4>2. QED
                BY <1>1, <3>1, <3>2, <4>1, OtherOK
        <3>4. WorkerOK(w)'
            <4>1. writer[w] = 0
                BY <2>5, LeaveEffect
            <4>2. QED
                BY <3>1, <4>1, IdleType DEF WorkerOK, Leaves, Turns, Carries
        <3>5. \A v \in Writers : WorkerOK(v)'
            BY <3>3, <3>4
        <3>6. QED
            BY <1>1, <3>1, <3>5, TypeKept DEF IndexingTypeOK, Uncounted, Leaves, Turns
    <2>6. CASE Extract(w)
        <3>1. PICK m \in Meta, l \in WorkType :
             /\ work[w].pc = "extracting"
             /\ UNCHANGED <<vars, source, dating, owed, extra, overlapped, dropped>>
             /\ MetaOK(m) /\ tries' \in {0, tries + 1, Uncounted}
             /\ Len(meta) < MaxWrites /\ meta' = Append(meta, m)
             /\ Turns(w, l) /\ l.pc = "storing" /\ l.gen = Rank(m.ver, Len(meta) + 1)
            BY <2>6, ExtractEffect DEF Count
        <3>2. PICK n : n = Len(meta) + 1
            OBVIOUS
        <3>3. /\ meta' \in Seq(Meta) /\ Len(meta') = n /\ n \in 1..MaxWrites
              /\ DOMAIN meta' = DOMAIN meta \cup {n} /\ meta'[n] = m
              /\ \A i \in DOMAIN meta : meta'[i] = meta[i]
              /\ Lasting /\ Named(l.gen)'
            BY <3>1, <3>2, MetaGrows DEF Lasting
        <3>4. IndexingTypeOK'
            <4>1. tries' \in Int /\ work' \in [Writers -> WorkType] /\ Len(meta') <= MaxWrites
                BY <1>1, <3>1, <3>3, IndexingAssumption DEF IndexingTypeOK, Uncounted, Turns
            <4>2. UNCHANGED <<source, dating, owed, extra, overlapped, dropped>>
                BY <3>1
            <4>3. QED
                BY <1>1, <3>3, <4>1, <4>2 DEF IndexingTypeOK
        <3>5. WorkerOK(w)'
            <4>1. work'[w] = l /\ writer'[w] = 0
                BY <3>1, Outside DEF Turns, vars
            <4>2. QED
                BY <3>1, <3>3, <4>1 DEF WorkerOK, Carries
        <3>6. ASSUME NEW v \in Writers \ {w} PROVE WorkerOK(v)'
            <4>1. work'[v] = work[v] /\ writer'[v] = writer[v] /\ source' = source
                BY <3>1 DEF Turns, vars
            <4>2. QED
                BY <1>1, <3>3, <4>1, OtherOK
        <3>7. \A g \in written' : Named(g)'
            BY <3>1, <3>3 DEF TypeInv, Lasting, vars
        <3>8. \A i \in DOMAIN meta' : MetaOK(meta[i])'
            <4>1. \A i \in DOMAIN meta : MetaOK(meta[i])
                BY DEF TypeInv
            <4>2. QED
                BY <3>1, <3>3, <4>1 DEF MetaOK
        <3>9. QED
            BY <3>4, <3>5, <3>6, <3>7, <3>8 DEF TypeInv
    <2>7. CASE Store(w)
        <3>1. /\ work[w].pc = "storing" /\ Named(work[w].gen)
              /\ writer' = [writer EXCEPT ![w] = work[w].gen]
              /\ written' = written \cup {work[w].gen}
              /\ UNCHANGED <<jobVars, work, meta, history>> /\ UNCHANGED <<source, dating>>
              /\ UNCHANGED <<owed, extra, tries, overlapped, dropped>>
            BY <2>7, StoreEffect DEF Upsert, jobVars, history
        <3>2. Lasting
            BY <3>1 DEF Lasting, Named, Info, At, Rank
        <3>3. ASSUME NEW v \in Writers \ {w} PROVE WorkerOK(v)'
            BY <1>1, <3>1, <3>2, OtherOK
        <3>4. WorkerOK(w)'
            <4>1. Named(work[w].gen)'
                BY <3>1 DEF Named, Info, At, Rank
            <4>2. writer'[w] = work[w].gen
                BY <1>1, <3>1 DEF TypeOK, IndexingTypeOK
            <4>3. QED
                BY <3>1, <4>1, <4>2 DEF WorkerOK, Carries
        <3>5. \A v \in Writers : WorkerOK(v)'
            BY <3>3, <3>4
        <3>6. \A g \in written' \ written : Named(g)
            BY <3>1
        <3>7. QED
            BY <1>1, <3>1, <3>5, <3>6, TypeKept DEF IndexingTypeOK
    <2>8. CASE Finish(w)
        <3>1. /\ Leaves(w) /\ writer' = [writer EXCEPT ![w] = 0]
              /\ UNCHANGED <<written, source, dating, meta, owed, extra, tries, overlapped, dropped>>
            BY <2>8, FinishEffect DEF jobVars, history
        <3>2. Lasting
            BY <3>1 DEF Lasting, Named, Info, At, Rank
        <3>3. writer'[w] = 0 /\ \A v \in Writers \ {w} : writer'[v] = writer[v]
            BY <1>1, <3>1 DEF TypeOK, IndexingTypeOK
        <3>4. ASSUME NEW v \in Writers \ {w} PROVE WorkerOK(v)'
            <4>1. work'[v] = work[v]
                BY <3>1 DEF Turns, Leaves
            <4>2. QED
                BY <1>1, <3>1, <3>2, <3>3, <4>1, OtherOK
        <3>5. WorkerOK(w)'
            BY <3>1, <3>3, IdleType DEF WorkerOK, Leaves, Turns, Carries
        <3>6. \A v \in Writers : WorkerOK(v)'
            BY <3>4, <3>5
        <3>7. QED
            BY <1>1, <3>1, <3>6, TypeKept DEF IndexingTypeOK, Leaves, Turns
    <2>9. QED
        BY <1>6, <2>1, <2>2, <2>3, <2>4, <2>5, <2>6, <2>7, <2>8 DEF Run
<1>7. CASE UNCHANGED pipelineVars
    <2>1. /\ UNCHANGED <<records, writer, written, erased, crashes, source, dating, meta, work>>
          /\ UNCHANGED <<owed, extra, tries, overlapped, dropped>>
        BY <1>7 DEF pipelineVars, vars, jobVars, history
    <2>2. Lasting
        BY <2>1 DEF Lasting, Named, Info, At, Rank
    <2>3. \A w \in Writers : WorkerOK(w)'
        BY <1>1, <2>1, <2>2, OtherOK
    <2>4. QED
        BY <1>1, <2>1, <2>3, TypeKept DEF IndexingTypeOK
<1>8. QED
    BY <1>2, <1>3, <1>4, <1>5, <1>6, <1>7 DEF PipelineNext

LEMMA PipelineTyped == PipelineSpec => []TypeInv
BY TypeInit, TypeStep, PTL DEF PipelineSpec

\* Type correctness of the pipeline: a worker that stores holds a generation that was chunked,
\* and attempts never exceed the larger budget.
THEOREM PipelineTypeCorrect == PipelineSpec => []PipelineTypeOK
<1>1. TypeInv => PipelineTypeOK
    BY DEF TypeInv, IndexingTypeOK, PipelineTypeOK, WorkerOK, Named
<1>2. QED
    BY <1>1, PipelineTyped, PTL

\* The pipeline uses the store as the store's specification lets its writers do.
THEOREM PipelineUsesStore == PipelineSpec => Spec
<1>1. PipelineInit => Init
    BY DEF PipelineInit
<1>2. QED
    BY <1>1, PipelineTyped, UsesStore, PTL DEF PipelineSpec, Spec

\* Whatever fetches, retries and failures do, the store under the pipeline keeps its promise:
\* only superseded generations go, until a deletion of the document is asked for.
THEOREM PipelineImplements == PipelineSpec => DocumentSpec /\ []Converged
BY PipelineUsesStore, Implements, Convergence, PTL
-----------------------------------------------------------------------------
(* One worker at a time.                                                   *)

\* What was chunked keeps its version, its content and its attempts.
Kept == \A g : Named(g) => /\ Named(g)'
                           /\ Info(g)'.ver = Info(g).ver
                           /\ Info(g)'.content = Info(g).content
                           /\ Info(g)'.attempts = Info(g).attempts

LEMMA StillKeeps == UNCHANGED <<dating, meta>> => Kept
BY DEF Kept, Named, Info, At, Rank

\* Every step of a worker is a step of its own.
LEMMA RunTurns ==
    ASSUME TypeInv, NEW w \in Writers, Run(w)
    PROVE  Kept /\ UNCHANGED <<source, dating>> /\ \E l \in WorkType : Turns(w, l)
<1>1. CASE Fetch(w)
    <2>1. Still /\ \E l \in WorkType : Turns(w, l)
        BY <1>1, FetchEffect
    <2>2. QED
        BY <2>1, StillKeeps DEF Still
<1>2. CASE Decide(w)
    <2>1. Still /\ \E l \in WorkType : Turns(w, l)
        BY <1>2, DecideEffect, IdleType DEF Leaves
    <2>2. QED
        BY <2>1, StillKeeps DEF Still
<1>3. CASE Recheck(w)
    <2>1. Still /\ \E l \in WorkType : Turns(w, l)
        BY <1>3, RecheckEffect, IdleType DEF Leaves
    <2>2. QED
        BY <2>1, StillKeeps DEF Still
<1>4. CASE Reprocess(w) \/ ReprocessFailed(w)
    <2>1. Still /\ \E l \in WorkType : Turns(w, l)
        BY <1>4, ReprocessEffect
    <2>2. QED
        BY <2>1, StillKeeps DEF Still
<1>5. CASE Reconcile(w) \/ Empty(w) \/ Transient(w) \/ Permanent(w)
    <2>1. Leaves(w) /\ UNCHANGED <<source, dating, meta>>
        BY <1>5, LeaveEffect
    <2>2. QED
        BY <2>1, StillKeeps, IdleType DEF Leaves
<1>6. CASE Extract(w)
    <2>1. PICK m \in Meta, l \in WorkType :
             /\ UNCHANGED <<source, dating>>
             /\ Len(meta) < MaxWrites /\ meta' = Append(meta, m) /\ Turns(w, l)
        BY <1>6, ExtractEffect
    <2>2. PICK n, k : n = Len(meta) + 1 /\ k = Rank(m.ver, n)
        OBVIOUS
    <2>3. \A g : Named(g) => Named(g)' /\ Info(g)' = Info(g)
        BY <2>1, <2>2, MetaGrows
    <2>4. QED
        BY <2>1, <2>3 DEF Kept
<1>7. CASE Store(w)
    <2>1. UNCHANGED <<source, dating, meta, work>>
        BY <1>7 DEF Store, jobVars
    <2>2. work[w] \in WorkType /\ Turns(w, work[w])
        BY <2>1 DEF TypeInv, IndexingTypeOK, Turns
    <2>3. QED
        BY <2>1, <2>2, StillKeeps
<1>8. CASE Finish(w)
    <2>1. Leaves(w) /\ UNCHANGED <<source, dating, meta>>
        BY <1>8, FinishEffect DEF jobVars
    <2>2. QED
        BY <2>1, StillKeeps, IdleType DEF Leaves
<1>9. QED
    BY <1>1, <1>2, <1>3, <1>4, <1>5, <1>6, <1>7, <1>8 DEF Run

\* The version of the document that a worker has in hand, and whether it has one.
VersionOf(w) == IF work[w].pc = "storing" THEN Info(work[w].gen).ver ELSE work[w].ver
Holds(w) == Carries(w) \/ work[w].pc = "storing"

\* Nothing in the index is newer than what the worker has in hand.
InHand(w) ==
    Holds(w) => \A g \in records : /\ Info(g).ver <= VersionOf(w)
                                   /\ work[w].pc = "storing" => At(g) <= At(work[w].gen)

\* As long as two workers are never at the document at once, the one that is has the newest
\* version in hand; and then, or when the source dates the document, the index has the
\* versions in the order of their ranks.
Calm == dating = "none" => ~overlapped
OneBusy == \A v, w \in Writers : Busy(v) /\ Busy(w) => v = w
Ordered == \A g, h \in records : g <= h => Info(g).ver <= Info(h).ver
AloneInv ==
    /\ tries # Uncounted => ~overlapped
    /\ ~overlapped => OneBusy /\ \A w \in Writers : InHand(w)
    /\ Calm => Ordered

\* Where the source dates the document, the ranks put the versions in order by themselves.
LEMMA DatedOrder == TypeInv /\ dating # "none" => Ordered
<1> SUFFICES ASSUME TypeInv, dating # "none", NEW g \in records, NEW h \in records, g <= h
             PROVE  Info(g).ver <= Info(h).ver
    BY DEF Ordered
<1> DEFINE v == Info(g).ver
           u == Info(h).ver
           n == At(g)
           m == At(h)
<1>1. /\ v \in 1..MaxVersion /\ n \in 1..MaxWrites /\ g = Rank(v, n)
      /\ u \in 1..MaxVersion /\ m \in 1..MaxWrites /\ h = Rank(u, m)
    BY RecordFields, MetaFields DEF Named
<1>2. g \in Int /\ h \in Int
    BY RecordFields DEF Gens
<1> HIDE DEF v, u, n, m
<1>3. ~(u < v)
    BY <1>1, <1>2, RanksOrder
<1>4. v <= u
    BY <1>1, <1>3
<1>5. QED
    BY <1>4 DEF v, u

\* Who steps without overlapping anybody finds the others idle, and leaves them so.
LEMMA RunAlone ==
    ASSUME TypeInv, AloneInv, NEW w \in Writers, Run(w), ~overlapped'
    PROVE  /\ ~overlapped /\ Alone(w)
           /\ \A v \in Writers \ {w} : work[v].pc = "idle" /\ work'[v] = work[v]
<1>1. overlapped \in BOOLEAN /\ (overlapped' = overlapped \/ overlapped' = (overlapped \/ ~Alone(w)))
    <2>1. CASE Fetch(w) \/ Reprocess(w) \/ ReprocessFailed(w)
        BY <2>1 DEF Fetch, Reprocess, ReprocessFailed, Begins, TypeInv, IndexingTypeOK
    <2>2. CASE ~(Fetch(w) \/ Reprocess(w) \/ ReprocessFailed(w))
        BY <2>2 DEF Run, Reconcile, Decide, Extract, Empty, Store, Finish, Transient, Permanent,
           Recheck, history, TypeInv, IndexingTypeOK
    <2>3. QED
        BY <2>1, <2>2
<1>2. ~overlapped
    BY <1>1
<1>3. Alone(w)
    <2>1. CASE Fetch(w) \/ Reprocess(w) \/ ReprocessFailed(w)
        <3>1. overlapped' = (overlapped \/ ~Alone(w))
            BY <2>1 DEF Fetch, Reprocess, ReprocessFailed, Begins
        <3>2. QED
            BY <3>1
    <2>2. CASE ~(Fetch(w) \/ Reprocess(w) \/ ReprocessFailed(w))
        <3>1. Busy(w)
            <4>1. CASE Finish(w)
                BY <4>1, FinishEffect DEF Busy
            <4>2. CASE ~Finish(w)
                BY <2>2, <4>2 DEF Run, Reconcile, Decide, Extract, Empty, Store, Transient,
                   Permanent, Recheck, Busy
            <4>3. QED
                BY <4>1, <4>2
        <3>2. QED
            BY <1>2, <3>1 DEF AloneInv, OneBusy, Alone
    <2>3. QED
        BY <2>1, <2>2
<1>4. \A v \in Writers \ {w} : work[v].pc = "idle" /\ work'[v] = work[v]
    BY <1>3, RunTurns DEF Alone, Busy, Turns
<1>5. QED
    BY <1>2, <1>3, <1>4

\* A count that goes on has not been given up, and nobody has overlapped.
LEMMA RunCounted ==
    ASSUME TypeInv, AloneInv, NEW w \in Writers, Run(w), tries' # Uncounted
    PROVE  tries # Uncounted /\ ~overlapped'
<1>1. tries # Uncounted => ~overlapped
    BY DEF AloneInv
<1>2. CASE Fetch(w) \/ Reprocess(w) \/ ReprocessFailed(w)
    <2>1. CASE Alone(w)
        BY <1>1, <1>2, <2>1 DEF Fetch, Reprocess, ReprocessFailed, Begins, Count
    <2>2. CASE ~Alone(w)
        BY <1>2, <2>2 DEF Fetch, Reprocess, ReprocessFailed, Begins
    <2>3. QED
        BY <2>1, <2>2
<1>3. CASE Reconcile(w) \/ Empty(w) \/ Transient(w) \/ Permanent(w)
    BY <1>1, <1>3, LeaveEffect
<1>4. CASE Decide(w) \/ Extract(w)
    BY <1>1, <1>4 DEF Decide, Extract, Count
<1>5. CASE Store(w) \/ Finish(w) \/ Recheck(w)
    BY <1>1, <1>5 DEF Store, Finish, Recheck, history
<1>6. QED
    BY <1>2, <1>3, <1>4, <1>5 DEF Run

LEMMA AloneInit == PipelineInit => AloneInv
<1> SUFFICES ASSUME PipelineInit PROVE AloneInv
    OBVIOUS
<1>1. /\ overlapped = FALSE /\ records = {} /\ \A w \in Writers : work[w] = Idle
    BY DEF PipelineInit, Init
<1>2. QED
    BY <1>1, IdleType DEF AloneInv, OneBusy, Busy, InHand, Ordered

\* What a worker has in hand does not change while it does nothing, and the index only grows
\* by what a worker stores.
LEMMA InHandKept ==
    ASSUME TypeInv, Kept, NEW w \in Writers, work'[w] = work[w], records' \subseteq records, InHand(w)
    PROVE  InHand(w)'
<1> SUFFICES ASSUME Holds(w), NEW g \in records'
             PROVE  /\ (Info(g).ver <= VersionOf(w))'
                    /\ work[w].pc = "storing" => At(g) <= At(work[w].gen)
    BY DEF InHand, Holds, Carries, At
<1>1. /\ Info(g).ver <= VersionOf(w)
      /\ work[w].pc = "storing" => At(g) <= At(work[w].gen)
    BY DEF InHand
<1>2. Info(g)'.ver = Info(g).ver
    BY RecordFields DEF Kept
<1>3. VersionOf(w)' = VersionOf(w)
    <2>1. CASE work[w].pc = "storing"
        <3>1. PICK k : k = work[w].gen
            OBVIOUS
        <3>2. Named(k)
            BY <2>1, <3>1 DEF TypeInv, WorkerOK
        <3>3. Info(k)'.ver = Info(k).ver
            BY <3>2 DEF Kept
        <3>4. QED
            BY <2>1, <3>1, <3>3 DEF VersionOf, Info, At
    <2>2. CASE work[w].pc # "storing"
        BY <2>2 DEF VersionOf
    <2>3. QED
        BY <2>1, <2>2
<1>4. QED
    BY <1>1, <1>2, <1>3

LEMMA OrderKept ==
    ASSUME TypeInv, Kept, records' \subseteq records, Ordered
    PROVE  Ordered'
<1> SUFFICES ASSUME NEW g \in records', NEW h \in records', g <= h
             PROVE  (Info(g).ver <= Info(h).ver)'
    BY DEF Ordered
<1>1. Info(g)'.ver = Info(g).ver /\ Info(h)'.ver = Info(h).ver
    BY RecordFields DEF Kept
<1>2. QED
    BY <1>1 DEF Ordered

\* The worker that is at the document alone has the newest version in hand when it is done.
LEMMA StepInHand ==
    ASSUME TypeInv, AloneInv, NEW w \in Writers, Run(w), ~overlapped'
    PROVE  InHand(w)'
<1>1. Kept /\ ~overlapped /\ InHand(w) /\ Ordered
    BY RunAlone, RunTurns DEF AloneInv, Calm
<1>2. CASE Fetch(w)
    <2>1. Still /\ \E l \in WorkType : /\ Turns(w, l) /\ l.pc \in {"fetched", "listed"}
                                       /\ l.ver = source.ver
        BY <1>2, FetchEffect
    <2>2. \A g \in records : Info(g)'.ver = Info(g).ver /\ Info(g).ver <= source.ver
        BY <1>1, RecordFields DEF Kept, MetaOK
    <2>3. QED
        BY <2>1, <2>2 DEF InHand, VersionOf, Turns, Still
<1>3. CASE Decide(w) \/ Recheck(w)
    <2>1. /\ Still /\ Holds(w) /\ work[w].pc # "storing"
          /\ \/ Leaves(w)
             \/ \E l \in WorkType : Turns(w, l) /\ l.pc = "extracting" /\ l.ver = work[w].ver
        BY <1>3, DecideEffect, RecheckEffect DEF Holds, Carries
    <2>2. CASE Leaves(w)
        BY <2>2, IdleType DEF InHand, Leaves, Turns, Holds, Carries
    <2>3. CASE \E l \in WorkType : Turns(w, l) /\ l.pc = "extracting" /\ l.ver = work[w].ver
        <3>1. work'[w].pc = "extracting" /\ work'[w].ver = work[w].ver /\ records' = records
            BY <2>1, <2>3 DEF Turns, Still
        <3>2. \A g \in records : Info(g)'.ver = Info(g).ver /\ Info(g).ver <= work[w].ver
            BY <1>1, <2>1, RecordFields DEF Kept, InHand, VersionOf
        <3>3. QED
            BY <3>1, <3>2 DEF InHand, VersionOf
    <2>4. QED
        BY <2>1, <2>2, <2>3
<1>4. CASE Reprocess(w) \/ ReprocessFailed(w)
    <2>1. PICK l \in WorkType :
            /\ Still /\ Turns(w, l) /\ l.pc = "loaded"
            /\ NewestGeneration \in records /\ l.ver = Info(NewestGeneration).ver
        BY <1>4, ReprocessEffect
    <2>2. work'[w].pc = "loaded" /\ work'[w].ver = l.ver /\ records' = records
        BY <2>1 DEF Turns, Still
    <2>3. ASSUME NEW g \in records PROVE Info(g)'.ver = Info(g).ver /\ Info(g).ver <= l.ver
        <3>1. g <= NewestGeneration
            BY Looked
        <3>2. QED
            BY <1>1, <2>1, <3>1, RecordFields DEF Kept, Ordered
    <2>4. QED
        BY <2>2, <2>3 DEF InHand, VersionOf
<1>5. CASE Reconcile(w) \/ Empty(w) \/ Transient(w) \/ Permanent(w) \/ Finish(w)
    <2>1. Leaves(w)
        BY <1>5, LeaveEffect, FinishEffect
    <2>2. QED
        BY <2>1, IdleType DEF InHand, Leaves, Turns, Holds, Carries
<1>6. CASE Extract(w)
    <2>1. PICK m \in Meta, l \in WorkType :
             /\ work[w].pc = "extracting" /\ UNCHANGED <<vars, dating>>
             /\ m.ver = work[w].ver
             /\ Len(meta) < MaxWrites /\ meta' = Append(meta, m)
             /\ Turns(w, l) /\ l.pc = "storing"
             /\ l.gen = Rank(m.ver, Len(meta) + 1)
        BY <1>6, ExtractEffect
    <2>2. PICK n, k : n = Len(meta) + 1 /\ k = Rank(m.ver, n)
        OBVIOUS
    <2>3. Info(k)' = m /\ At(k) = n
        BY <2>1, <2>2, MetaGrows
    <2>4. work'[w].pc = "storing" /\ work'[w].gen = k /\ records' = records
        BY <2>1, <2>2 DEF Turns, vars
    <2>5. VersionOf(w)' = m.ver /\ At(work[w].gen)' = n
        BY <2>3, <2>4 DEF VersionOf, Info, At
    <2>6. ASSUME NEW g \in records
          PROVE  Info(g)'.ver = Info(g).ver /\ Info(g).ver <= m.ver /\ At(g) <= n
        <3>1. Info(g)'.ver = Info(g).ver
            BY <1>1, RecordFields DEF Kept
        <3>2. Info(g).ver <= m.ver
            BY <1>1, <2>1 DEF InHand, Holds, Carries, VersionOf
        <3>3. At(g) <= n
            BY <2>2, RecordFields, MetaFields
        <3>4. QED
            BY <3>1, <3>2, <3>3
    <2>7. QED
        BY <2>4, <2>5, <2>6 DEF InHand, At
<1>7. CASE Store(w)
    <2>1. PICK k : k = work[w].gen
        OBVIOUS
    <2>2. /\ work[w].pc = "storing" /\ records' = records \cup {k} /\ work' = work /\ meta' = meta
        BY <1>7, <2>1, StoreEffect
    <2>3. Info(k).ver \in Int /\ At(k) \in Int /\ VersionOf(w) = Info(k).ver
        <3>1. Named(k)
            BY <1>7, <2>1, StoreEffect
        <3>2. QED
            BY <2>1, <2>2, <3>1, MetaFields DEF Named, Info, VersionOf
    <2>4. \A g \in records' : Info(g).ver <= VersionOf(w) /\ At(g) <= At(k)
        BY <1>1, <2>1, <2>2, <2>3 DEF InHand, Holds
    <2>5. QED
        BY <2>1, <2>2, <2>4 DEF InHand, VersionOf, Info, At
<1>8. QED
    BY <1>2, <1>3, <1>4, <1>5, <1>6, <1>7 DEF Run

\* What nothing dates is in the order of writing, which the worker alone keeps.
LEMMA StepOrder ==
    ASSUME TypeInv, AloneInv, NEW w \in Writers, Run(w), ~overlapped', dating = "none"
    PROVE  Ordered'
<1>1. Kept /\ ~overlapped /\ InHand(w) /\ Ordered
    BY RunAlone, RunTurns DEF AloneInv, Calm
<1>2. CASE ~Store(w)
    <2>1. records' \subseteq records
        <3>1. CASE Fetch(w) \/ Decide(w) \/ Recheck(w) \/ Reprocess(w) \/ ReprocessFailed(w)
            BY <3>1, FetchEffect, DecideEffect, RecheckEffect, ReprocessEffect DEF Still
        <3>2. CASE Reconcile(w) \/ Empty(w) \/ Transient(w) \/ Permanent(w)
            BY <3>2, LeaveEffect
        <3>3. CASE Extract(w) \/ Finish(w)
            BY <3>3, FinishEffect DEF Extract, vars
        <3>4. QED
            BY <1>2, <3>1, <3>2, <3>3 DEF Run
    <2>2. QED
        BY <1>1, <2>1, OrderKept
<1>3. CASE Store(w)
    <2>1. PICK k : k = work[w].gen
        OBVIOUS
    <2>2. /\ work[w].pc = "storing" /\ records' = records \cup {k} /\ work' = work /\ meta' = meta
          /\ Named(k) /\ Info(k).ver \in 1..MaxVersion /\ At(k) \in 1..MaxWrites /\ k = At(k)
        <3>1. Named(k)
            BY <1>3, <2>1, StoreEffect
        <3>2. Info(k).ver \in 1..MaxVersion /\ At(k) \in 1..MaxWrites
            BY <3>1, MetaFields DEF Named, Info
        <3>3. k = At(k)
            BY <3>1, <3>2, Ranks DEF Named
        <3>4. QED
            BY <1>3, <2>1, <3>1, <3>2, <3>3, StoreEffect
    <2>3. ASSUME NEW g \in records
          PROVE  Info(g).ver <= Info(k).ver /\ g <= k /\ g \in Int
        <3>1. Info(g).ver <= Info(k).ver /\ At(g) <= At(k)
            BY <1>1, <2>1, <2>2 DEF InHand, Holds, VersionOf
        <3>2. g = At(g) /\ g \in Int
            BY RecordFields, MetaFields, Ranks DEF Named, Gens
        <3>3. QED
            BY <2>2, <3>1, <3>2
    <2>4. ASSUME NEW g \in records', NEW h \in records', g <= h
          PROVE  Info(g).ver <= Info(h).ver
        <3>1. CASE g \in records /\ h \in records
            BY <1>1, <2>4, <3>1 DEF Ordered
        <3>2. CASE h = k
            BY <2>2, <2>3, <3>2
        <3>3. CASE g = k /\ h \in records
            <4>1. h = k
                BY <2>2, <2>3, <2>4, <3>3
            <4>2. QED
                BY <2>2, <3>3, <4>1
        <3>4. QED
            BY <2>2, <3>1, <3>2, <3>3
    <2>5. QED
        BY <2>2, <2>4 DEF Ordered, Info, At
<1>4. QED
    BY <1>2, <1>3

\* Outside the workers' steps the index stays as it is, and so do the workers or they all stop.
LEMMA Around ==
    ASSUME TypeInv, Edit \/ Discover \/ Due \/ Die \/ UNCHANGED pipelineVars
    PROVE  /\ Kept /\ UNCHANGED <<records, dating, overlapped, erased, dropped>>
           /\ \/ work' = work /\ UNCHANGED <<writer, tries>>
              \/ /\ Die /\ \A w \in Writers : work'[w] = Idle /\ writer'[w] = 0
                 /\ tries' \in {tries, Uncounted}
                 /\ (\E w \in Writers : Busy(w)) => tries' = Uncounted
<1>1. CASE Edit \/ Discover \/ UNCHANGED pipelineVars
    BY <1>1, StillKeeps DEF Edit, Discover, pipelineVars, vars, jobVars, history
<1>2. CASE Due
    BY <1>2, DueEffect DEF Kept, vars, jobVars, history
<1>3. CASE Die
    <2>1. Kept
        BY <1>3, StillKeeps DEF Die
    <2>2. QED
        BY <1>3, <2>1 DEF Die, Crash
<1>4. QED
    BY <1>1, <1>2, <1>3

\* AloneInv is inductive.
LEMMA AloneStep == TypeInv /\ AloneInv /\ [PipelineNext]_pipelineVars => AloneInv'
<1> SUFFICES ASSUME TypeInv, AloneInv, [PipelineNext]_pipelineVars PROVE AloneInv'
    OBVIOUS
<1>1. CASE Edit \/ Discover \/ Due \/ Die \/ UNCHANGED pipelineVars
    <2>1. Kept /\ UNCHANGED <<records, dating, overlapped>> /\ tries' \in {tries, Uncounted}
        BY <1>1, Around
    <2>2. tries' # Uncounted => ~overlapped'
        BY <2>1 DEF AloneInv, Uncounted
    <2>3. Calm' => Ordered'
        BY <2>1, OrderKept DEF AloneInv, Calm
    <2>4. CASE work' = work
        <3>1. ASSUME ~overlapped, NEW w \in Writers PROVE InHand(w)'
            BY <2>1, <2>4, <3>1, InHandKept DEF AloneInv
        <3>2. ~overlapped => OneBusy'
            BY <2>4 DEF AloneInv, OneBusy, Busy
        <3>3. QED
            BY <2>1, <2>2, <2>3, <3>1, <3>2 DEF AloneInv
    <2>5. CASE \A w \in Writers : work'[w] = Idle
        <3>1. OneBusy'
            BY <2>5, IdleType DEF OneBusy, Busy
        <3>2. \A w \in Writers : InHand(w)'
            BY <2>5, IdleType DEF InHand, Holds, Carries
        <3>3. QED
            BY <2>2, <2>3, <3>1, <3>2 DEF AloneInv
    <2>6. QED
        BY <1>1, <2>4, <2>5, Around
<1>2. ASSUME NEW w \in Writers, Run(w) PROVE AloneInv'
    <2>1. tries' # Uncounted => ~overlapped'
        BY <1>2, RunCounted
    <2>2. ASSUME ~overlapped' PROVE OneBusy' /\ \A v \in Writers : InHand(v)'
        <3>1. \A v \in Writers \ {w} : work'[v].pc = "idle"
            BY <1>2, <2>2, RunAlone
        <3>2. OneBusy'
            BY <3>1 DEF OneBusy, Busy
        <3>3. ASSUME NEW v \in Writers PROVE InHand(v)'
            <4>1. CASE v = w
                BY <1>2, <2>2, <4>1, StepInHand
            <4>2. CASE v # w
                BY <3>1, <4>2 DEF InHand, Holds, Carries
            <4>3. QED
                BY <4>1, <4>2
        <3>4. QED
            BY <3>2, <3>3
    <2>3. Calm' => Ordered'
        <3>1. dating' = dating /\ TypeInv'
            BY <1>2, RunTurns, TypeStep
        <3>2. CASE dating = "none"
            BY <1>2, <3>1, <3>2, StepOrder DEF Calm
        <3>3. CASE dating # "none"
            <4>1. (TypeInv /\ dating # "none" => Ordered)'
                BY DatedOrder, PTL
            <4>2. QED
                BY <3>1, <3>3, <4>1
        <3>4. QED
            BY <3>2, <3>3
    <2>4. QED
        BY <2>1, <2>2, <2>3 DEF AloneInv
<1>3. QED
    BY <1>1, <1>2 DEF PipelineNext
-----------------------------------------------------------------------------
(* The retry budget.                                                       *)

\* Nobody is past the interceptors with the document.
NoneStoring == \A w \in Writers : work[w].pc # "storing"

\* What a worker has in hand carries every failed attempt that is counted, and it ranks above
\* what it will replace.
Carrying(w) ==
    /\ work[w].pc \in {"loaded", "extracting"} => tries <= work[w].attempts
    /\ work[w].pc = "storing" =>
         /\ tries <= Info(work[w].gen).attempts
         /\ \A g \in records : g <= work[w].gen
         /\ writer[w] # 0 => writer[w] \in records

\* Failed attempts are counted in what the index holds, or in what is about to replace it.
CountedInv ==
    tries # Uncounted =>
        /\ tries \in 0..LargerBudget
        /\ NoneStoring => \A g \in records : tries <= Info(g).attempts
        /\ \A w \in Writers : Carrying(w)

LEMMA CountedInit == PipelineInit => CountedInv
<1> SUFFICES ASSUME PipelineInit PROVE CountedInv
    OBVIOUS
<1>1. tries = 0 /\ records = {} /\ \A w \in Writers : work[w] = Idle
    BY DEF PipelineInit, Init
<1>2. QED
    BY <1>1, IdleType, Budgets DEF CountedInv, Carrying

\* What is not being replaced counts every failed attempt, before and after the step of the
\* worker that is at the document alone.
LEMMA CountedRun ==
    ASSUME TypeInv, AloneInv, CountedInv, NEW w \in Writers, Run(w), tries' # Uncounted
    PROVE  /\ tries' \in 0..LargerBudget
           /\ work'[w].pc # "storing" => \A g \in records' : tries' <= (Info(g).attempts)'
           /\ Carrying(w)'
<1>1. /\ tries # Uncounted /\ Kept /\ InHand(w) /\ tries \in 0..LargerBudget /\ Carrying(w)
      /\ \A v \in Writers \ {w} : work[v].pc = "idle"
      /\ LargerBudget \in Nat
    BY RunCounted, RunAlone, RunTurns, Budgets DEF AloneInv, CountedInv
<1>2. ASSUME work[w].pc # "storing", NEW g \in records PROVE tries <= Info(g).attempts
    BY <1>1, <1>2 DEF CountedInv, NoneStoring
<1>3. ASSUME NEW g \in records
      PROVE  Info(g)'.attempts = Info(g).attempts /\ Info(g).attempts \in 0..LargerBudget
    BY <1>1, RecordFields, MetaFields DEF Kept
<1>4. CASE Fetch(w)
    <2>1. /\ Still /\ work[w].pc = "idle" /\ tries' = tries
          /\ \E l \in WorkType : Turns(w, l) /\ l.pc \in {"fetched", "listed"}
        BY <1>4, FetchEffect DEF Busy, Begins
    <2>2. work'[w].pc \in {"fetched", "listed"} /\ records' = records
        BY <2>1 DEF Turns, Still
    <2>3. QED
        BY <1>1, <1>2, <1>3, <2>1, <2>2 DEF Carrying
<1>5. CASE Decide(w)
    <2>1. PICK k : k = IndexedState
        OBVIOUS
    <2>2. /\ work[w].pc = "fetched" /\ Still /\ (k # 0 => k \in records)
          /\ tries' = IF Unchanged(w, k) THEN tries ELSE 0
          /\ \/ Leaves(w)
             \/ \E l \in WorkType : /\ Turns(w, l) /\ l.pc = "extracting"
                                    /\ l.attempts = Carried(w, k)
        BY <1>1, <1>5, <2>1, DecideEffect DEF Count
    <2>3. Unchanged(w, k) => k \in records
        BY <2>2 DEF Unchanged
    <2>4. tries' <= Carried(w, k)
        BY <1>2, <1>3, <2>2, <2>3 DEF Carried
    <2>5. work'[w].pc = "idle" \/ (work'[w].pc = "extracting" /\ work'[w].attempts = Carried(w, k))
        BY <2>2, IdleType DEF Leaves, Turns
    <2>6. ASSUME NEW g \in records PROVE tries' <= (Info(g).attempts)'
        BY <1>1, <1>2, <1>3, <2>2
    <2>7. tries' \in 0..LargerBudget /\ records' = records
        BY <1>1, <2>2 DEF Still
    <2>8. QED
        BY <2>4, <2>5, <2>6, <2>7 DEF Carrying
<1>6. CASE Recheck(w)
    <2>1. /\ work[w].pc = "loaded" /\ Still /\ tries' = tries
          /\ \/ Leaves(w)
             \/ \E l \in WorkType : /\ Turns(w, l) /\ l.pc = "extracting"
                                    /\ l.attempts = work[w].attempts
        BY <1>6, RecheckEffect
    <2>2. work'[w].pc = "idle" \/ (work'[w].pc = "extracting" /\ work'[w].attempts = work[w].attempts)
        BY <2>1, IdleType DEF Leaves, Turns
    <2>3. QED
        BY <1>1, <1>2, <1>3, <2>1, <2>2 DEF Carrying, Still
<1>7. CASE Reprocess(w) \/ ReprocessFailed(w)
    <2>1. PICK l \in WorkType :
            /\ work[w].pc = "idle" /\ Still /\ Turns(w, l) /\ l.pc = "loaded"
            /\ tries' \in {tries, 0} /\ NewestGeneration \in records
            /\ l.attempts = Info(NewestGeneration).attempts \/ tries' = 0
        BY <1>7, ReprocessEffect DEF Busy
    <2>2. work'[w].pc = "loaded" /\ work'[w].attempts = l.attempts /\ records' = records
        BY <2>1 DEF Turns, Still
    <2>3. tries' <= l.attempts
        <3>1. l.attempts \in 0..LargerBudget
            BY DEF WorkType
        <3>2. QED
            BY <1>1, <1>2, <2>1, <3>1
    <2>4. ASSUME NEW g \in records PROVE tries' <= (Info(g).attempts)'
        BY <1>1, <1>2, <1>3, <2>1
    <2>5. QED
        BY <1>1, <2>1, <2>2, <2>3, <2>4 DEF Carrying
<1>8. CASE Reconcile(w) \/ Empty(w) \/ Transient(w) \/ Permanent(w)
    <2>1. /\ Leaves(w) /\ work[w].pc # "storing" /\ tries' = tries
          /\ records' = records \/ records' = {}
        BY <1>8, LeaveEffect
    <2>2. work'[w].pc = "idle"
        BY <2>1, IdleType DEF Leaves, Turns
    <2>3. QED
        BY <1>1, <1>2, <1>3, <2>1, <2>2 DEF Carrying
<1>9. CASE Extract(w)
    <2>1. PICK m \in Meta, l \in WorkType :
             /\ work[w].pc = "extracting" /\ UNCHANGED <<vars, dating>> /\ UNCHANGED records
             /\ m.ver = work[w].ver
             /\ tries' = 0 \/ (tries' = tries + 1 /\ m.attempts = work[w].attempts + 1)
             /\ Len(meta) < MaxWrites /\ meta' = Append(meta, m)
             /\ Turns(w, l) /\ l.pc = "storing"
             /\ l.gen = Rank(m.ver, Len(meta) + 1)
        BY <1>1, <1>9, ExtractEffect DEF Count, vars
    <2>2. PICK n, k : n = Len(meta) + 1 /\ k = Rank(m.ver, n)
        OBVIOUS
    <2>3. Info(k)' = m /\ At(k) = n /\ n \in 1..MaxWrites /\ k \in Gens
        BY <2>1, <2>2, MetaGrows
    <2>4. work'[w].pc = "storing" /\ work'[w].gen = k /\ writer'[w] = 0
        BY <2>1, <2>2, Outside DEF Turns, vars
    <2>5. ASSUME NEW g \in records PROVE g <= k
        <3>1. Info(g).ver <= m.ver /\ Info(g).ver \in 1..MaxVersion /\ m.ver \in 1..MaxVersion
            BY <1>1, <2>1, RecordFields, MetaFields DEF InHand, Holds, Carries, VersionOf, Meta
        <3>2. At(g) \in 1..MaxWrites /\ At(g) < n
            BY <2>2, RecordFields, MetaFields
        <3>3. g = Rank(Info(g).ver, At(g)) /\ g \in Gens
            BY RecordFields DEF Named
        <3>4. PICK v, i : v = Info(g).ver /\ i = At(g)
            OBVIOUS
        <3>5. Rank(v, i) < Rank(m.ver, n)
            BY <2>3, <3>1, <3>2, <3>4, RanksOrder
        <3>6. QED
            BY <2>2, <2>3, <3>3, <3>4, <3>5 DEF Gens
    <2>6. tries' <= m.attempts /\ tries' \in 0..LargerBudget
        <3>1. m.attempts \in 0..LargerBudget /\ work[w].attempts \in 0..LargerBudget
            BY DEF Meta, TypeInv, IndexingTypeOK, WorkType
        <3>2. tries <= work[w].attempts
            BY <1>1, <2>1 DEF Carrying
        <3>3. QED
            BY <1>1, <2>1, <3>1, <3>2
    <2>7. (Info(work[w].gen).attempts)' = m.attempts
        BY <2>3, <2>4 DEF Info, At
    <2>8. QED
        BY <2>1, <2>4, <2>5, <2>6, <2>7 DEF Carrying
<1>10. CASE Store(w)
    <2>1. PICK k : k = work[w].gen
        OBVIOUS
    <2>2. /\ work[w].pc = "storing" /\ records' = records \cup {k} /\ k \in Gens /\ tries' = tries
          /\ work' = work /\ meta' = meta /\ writer' = [writer EXCEPT ![w] = k]
        BY <1>10, <2>1, StoreEffect DEF history
    <2>3. writer'[w] = k /\ k <= k
        BY <2>2 DEF TypeInv, IndexingTypeOK, TypeOK, Gens
    <2>4. tries <= Info(k).attempts /\ \A g \in records' : g <= k
        BY <1>1, <2>1, <2>2, <2>3 DEF Carrying
    <2>5. (Info(work[w].gen).attempts)' = Info(k).attempts
        BY <2>1, <2>2 DEF Info, At
    <2>6. QED
        BY <1>1, <2>1, <2>2, <2>3, <2>4, <2>5 DEF Carrying
<1>11. CASE Finish(w)
    <2>1. PICK k : k = work[w].gen
        OBVIOUS
    <2>2. /\ work[w].pc = "storing" /\ writer[w] = k /\ writer[w] # 0 /\ Leaves(w)
          /\ records' = records \ Outranked(w) /\ tries' = tries /\ meta' = meta
        BY <1>11, <2>1, FinishEffect DEF history
    <2>3. k \in records /\ \A g \in records : g <= k
        BY <1>1, <2>1, <2>2 DEF Carrying
    <2>4. ASSUME NEW g \in records' PROVE g = k
        BY <2>2, <2>3, RecordFields DEF Outranked, Gens
    <2>5. tries <= Info(k).attempts
        BY <1>1, <2>1, <2>2 DEF Carrying
    <2>6. \A g \in records' : tries' <= (Info(g).attempts)'
        BY <2>2, <2>4, <2>5 DEF Info, At
    <2>7. work'[w].pc = "idle"
        BY <2>2, IdleType DEF Leaves, Turns
    <2>8. QED
        BY <1>1, <2>2, <2>6, <2>7 DEF Carrying
<1>12. QED
    BY <1>4, <1>5, <1>6, <1>7, <1>8, <1>9, <1>10, <1>11 DEF Run

\* CountedInv is inductive.
LEMMA CountedStep ==
    TypeInv /\ AloneInv /\ CountedInv /\ [PipelineNext]_pipelineVars => CountedInv'
<1> SUFFICES ASSUME TypeInv, AloneInv, CountedInv, [PipelineNext]_pipelineVars,
                    tries' # Uncounted
             PROVE  /\ tries' \in 0..LargerBudget
                    /\ NoneStoring' => \A g \in records' : tries' <= (Info(g).attempts)'
                    /\ \A w \in Writers : Carrying(w)'
    BY DEF CountedInv, Uncounted
<1>1. CASE Edit \/ Discover \/ Due \/ Die \/ UNCHANGED pipelineVars
    <2>1. Kept /\ UNCHANGED <<records, dating>> /\ tries' = tries /\ tries # Uncounted
        BY <1>1, Around
    <2>2. ASSUME NEW g \in records PROVE Info(g)'.attempts = Info(g).attempts
        BY <2>1, RecordFields DEF Kept
    <2>3. CASE work' = work /\ writer' = writer
        <3>1. ASSUME NEW w \in Writers PROVE Carrying(w)'
            <4>1. PICK k : k = work[w].gen
                OBVIOUS
            <4>2. work[w].pc = "storing" => Info(k)'.attempts = Info(k).attempts
                BY <2>1, <4>1 DEF Kept, TypeInv, WorkerOK
            <4>3. Carrying(w)
                BY <2>1 DEF CountedInv
            <4>4. (Info(work[w].gen).attempts)' = Info(k)'.attempts
                BY <2>3, <4>1 DEF Info, At
            <4>5. QED
                BY <2>1, <2>3, <4>1, <4>2, <4>3, <4>4 DEF Carrying
        <3>2. NoneStoring' = NoneStoring
            BY <2>3 DEF NoneStoring
        <3>3. QED
            BY <2>1, <2>2, <3>1, <3>2 DEF CountedInv
    <2>4. CASE \A w \in Writers : work'[w] = Idle /\ ~Busy(w)
        <3>1. \A w \in Writers : Carrying(w)'
            BY <2>4, IdleType DEF Carrying
        <3>2. NoneStoring
            BY <2>4 DEF NoneStoring, Busy
        <3>3. QED
            BY <2>1, <2>2, <3>1, <3>2 DEF CountedInv
    <2>5. QED
        BY <1>1, <2>3, <2>4, Around
<1>2. ASSUME NEW w \in Writers, Run(w)
      PROVE  /\ tries' \in 0..LargerBudget
             /\ NoneStoring' => \A g \in records' : tries' <= (Info(g).attempts)'
             /\ \A v \in Writers : Carrying(v)'
    <2>1. ~overlapped'
        BY <1>2, RunCounted
    <2>2. ASSUME NEW v \in Writers \ {w} PROVE Carrying(v)'
        BY <1>2, <2>1, RunAlone DEF Carrying
    <2>3. QED
        BY <1>2, <2>2, CountedRun DEF NoneStoring
<1>3. QED
    BY <1>1, <1>2 DEF PipelineNext

\* A content that cannot be extracted costs no more calls of the model than its budget,
\* whoever retries it: for any number of workers, and whichever of the two budgets is larger.
THEOREM Budgeted == PipelineSpec => []BudgetKept
<1>1. TypeInv /\ CountedInv => BudgetKept
    BY Budgets DEF CountedInv, BudgetKept, Uncounted
<1>2. PipelineSpec => [](TypeInv /\ AloneInv /\ CountedInv)
    BY TypeInit, TypeStep, AloneInit, AloneStep, CountedInit, CountedStep, PTL DEF PipelineSpec
<1>3. QED
    BY <1>1, <1>2, PTL
-----------------------------------------------------------------------------
(* The index follows the source.                                           *)

\* Where the source never goes back to a content, the content tells the version.
Contented ==
    /\ \A n \in DOMAIN meta : meta[n].ver = source.ver <=> meta[n].content = source.content
    /\ \A w \in Writers :
         Carries(w) => (work[w].ver = source.ver <=> work[w].content = source.content)

\* The worker will write the newest version, or queue another fetch of it.
Arriving(w) ==
    /\ work[w].job = "fetch" /\ VersionOf(w) = source.ver
    /\ Carries(w) \/ (work[w].pc = "storing" /\ writer[w] = 0)

\* The source's text is wanted in the index, and nobody has asked for its deletion.
Wanted == ~erased /\ ~dropped /\ source.live /\ source.content # Blank /\ Calm

OnItsWay ==
    Wanted => \/ owed
              \/ \E w \in Writers : Arriving(w)
              \/ \E g \in records : Info(g).ver = source.ver

LEMMA FollowInit == PipelineInit => Contented /\ OnItsWay
<1> SUFFICES ASSUME PipelineInit PROVE Contented /\ OnItsWay
    OBVIOUS
<1>1. meta = <<>> /\ owed = TRUE /\ \A w \in Writers : work[w] = Idle
    BY DEF PipelineInit
<1>2. QED
    BY <1>1, IdleType DEF Contented, Carries, OnItsWay

\* Contented is inductive, where the source goes back to nothing it had.
LEMMA ContentedStep ==
    ASSUME ~Reverts
    PROVE  TypeInv /\ Contented /\ [PipelineNext]_pipelineVars => Contented'
<1> SUFFICES ASSUME TypeInv, Contented, [PipelineNext]_pipelineVars PROVE Contented'
    OBVIOUS
<1>1. /\ \A n \in DOMAIN meta : /\ meta[n].ver \in 1..MaxVersion /\ meta[n].ver <= source.ver
                                /\ meta[n].ver = source.ver <=> meta[n].content = source.content
      /\ \A w \in Writers : Carries(w) =>
            /\ work[w].ver \in 1..source.ver
            /\ work[w].ver = source.ver <=> work[w].content = source.content
      /\ source.ver \in Int
    BY MetaFields DEF TypeInv, IndexingTypeOK, Contented, MetaOK, WorkerOK
<1>2. CASE Edit
    <2>1. PICK c \in Contents, l \in BOOLEAN :
            Unseen(c) /\ source' = [ver |-> source.ver + 1, content |-> c, live |-> l]
        BY <1>2 DEF Edit
    <2>2. work' = work /\ meta' = meta /\ source'.ver = source.ver + 1 /\ source'.content = c
        BY <1>2, <2>1 DEF Edit
    <2>3. \A n \in DOMAIN meta : meta[n].content # c /\ meta[n].ver # source'.ver
        BY <1>1, <2>1, <2>2 DEF Unseen
    <2>4. ASSUME NEW w \in Writers, Carries(w)
          PROVE  work[w].content # c /\ work[w].ver # source'.ver
        BY <1>1, <2>1, <2>2, <2>4 DEF Unseen
    <2>5. QED
        BY <2>2, <2>3, <2>4 DEF Contented, Carries
<1>3. CASE Due
    <2>1. /\ UNCHANGED <<source, work>> /\ DOMAIN meta' = DOMAIN meta
          /\ \A n \in DOMAIN meta :
                meta'[n].ver = meta[n].ver /\ meta'[n].content = meta[n].content
        BY <1>3, DueEffect DEF jobVars
    <2>2. QED
        BY <1>1, <2>1 DEF Contented, Carries
<1>4. CASE Discover \/ UNCHANGED pipelineVars
    <2>1. UNCHANGED <<source, work, meta>>
        BY <1>4 DEF Discover, pipelineVars, jobVars
    <2>2. QED
        BY <2>1 DEF Contented, Carries
<1>5. CASE Die
    <2>1. UNCHANGED <<source, meta>> /\ \A w \in Writers : work'[w] = Idle
        BY <1>5 DEF Die
    <2>2. QED
        BY <2>1, IdleType DEF Contented, Carries
<1>6. ASSUME NEW w \in Writers, Run(w) PROVE Contented'
    <2>1. source' = source /\ \A v \in Writers \ {w} : work'[v] = work[v]
        BY <1>6, RunTurns DEF Turns
    <2>2. CASE Extract(w)
        <3>1. PICK m \in Meta, l \in WorkType :
                 /\ work[w].pc = "extracting" /\ UNCHANGED dating
                 /\ m.ver = work[w].ver /\ m.content = work[w].content
                 /\ Len(meta) < MaxWrites /\ meta' = Append(meta, m)
                 /\ Turns(w, l) /\ l.pc = "storing"
            BY <2>2, ExtractEffect
        <3>2. PICK n, k : n = Len(meta) + 1 /\ k = Rank(m.ver, n)
            OBVIOUS
        <3>3. /\ DOMAIN meta' = DOMAIN meta \cup {n} /\ meta'[n] = m
              /\ \A i \in DOMAIN meta : meta'[i] = meta[i]
            BY <3>1, <3>2, MetaGrows
        <3>4. \A i \in DOMAIN meta' : meta'[i].ver = source.ver <=> meta'[i].content = source.content
            BY <1>1, <3>1, <3>3 DEF Carries
        <3>5. work'[w].pc = "storing"
            BY <3>1 DEF Turns
        <3>6. QED
            BY <1>1, <2>1, <3>4, <3>5 DEF Contented, Carries
    <2>3. ASSUME meta' = meta,
                 \/ work'[w].pc \in {"idle", "listed", "storing"}
                 \/ work'[w].ver = source.ver <=> work'[w].content = source.content
          PROVE  Contented'
        BY <1>1, <2>1, <2>3 DEF Contented, Carries
    <2>4. CASE Fetch(w)
        <3>1. Still /\ \E l \in WorkType : /\ Turns(w, l) /\ l.ver = source.ver
                                           /\ l.content = source.content
            BY <2>4, FetchEffect
        <3>2. QED
            BY <2>3, <3>1 DEF Turns, Still
    <2>5. CASE Decide(w) \/ Recheck(w)
        <3>1. /\ Still /\ Carries(w)
              /\ \/ Leaves(w)
                 \/ \E l \in WorkType : /\ Turns(w, l) /\ l.ver = work[w].ver
                                        /\ l.content = work[w].content
            BY <2>5, DecideEffect, RecheckEffect DEF Carries
        <3>2. QED
            BY <1>1, <2>3, <3>1, IdleType DEF Turns, Leaves, Still
    <2>6. CASE Reprocess(w) \/ ReprocessFailed(w)
        <3>1. PICK l \in WorkType :
                /\ Still /\ Turns(w, l) /\ NewestGeneration \in records
                /\ l.ver = Info(NewestGeneration).ver
                /\ l.content = Info(NewestGeneration).content
            BY <2>6, ReprocessEffect
        <3>2. l.ver = source.ver <=> l.content = source.content
            BY <1>1, <3>1, RecordFields
        <3>3. QED
            BY <2>3, <3>1, <3>2 DEF Turns, Still
    <2>7. CASE Reconcile(w) \/ Empty(w) \/ Transient(w) \/ Permanent(w) \/ Finish(w)
        <3>1. Leaves(w) /\ meta' = meta
            BY <2>7, LeaveEffect, FinishEffect
        <3>2. QED
            BY <2>3, <3>1, IdleType DEF Turns, Leaves
    <2>8. CASE Store(w)
        <3>1. work' = work /\ meta' = meta /\ work[w].pc = "storing"
            BY <2>8, StoreEffect
        <3>2. QED
            BY <2>3, <3>1
    <2>9. QED
        BY <1>6, <2>2, <2>4, <2>5, <2>6, <2>7, <2>8 DEF Run
<1>7. QED
    BY <1>2, <1>3, <1>4, <1>5, <1>6 DEF PipelineNext

\* A worker that does nothing goes on arriving.
LEMMA StillArriving ==
    ASSUME TypeInv, Kept, source' = source, NEW w \in Writers, work'[w] = work[w],
           writer'[w] = writer[w], Arriving(w)
    PROVE  Arriving(w)'
<1>1. PICK k : k = work[w].gen
    OBVIOUS
<1>2. work[w].pc = "storing" => Info(k)'.ver = Info(k).ver
    BY <1>1 DEF Kept, TypeInv, WorkerOK
<1>3. VersionOf(w)' = VersionOf(w)
    BY <1>1, <1>2 DEF VersionOf, Info, At
<1>4. QED
    BY <1>3 DEF Arriving, Carries

\* What the index holds of the newest version is there until it is pruned or deleted.
LEMMA StillThere ==
    ASSUME TypeInv, Kept, source' = source, NEW g \in records, Info(g).ver = source.ver,
           g \in records'
    PROVE  \E h \in records' : (Info(h).ver = source.ver)'
<1>1. Info(g)'.ver = source'.ver
    BY RecordFields DEF Kept
<1>2. QED
    BY <1>1

\* The step of a worker that was bringing the newest version keeps it on its way.
LEMMA ArrivingRun ==
    ASSUME TypeInv, AloneInv, Contented, NEW w \in Writers, Run(w), Arriving(w), Wanted, Wanted'
    PROVE  \/ owed' \/ Arriving(w)'
           \/ \E g \in records' : (Info(g).ver = source.ver)'
<1>1. /\ Kept /\ source' = source /\ ~erased' /\ ~dropped' /\ source.content # Blank
      /\ work[w].job = "fetch" /\ VersionOf(w) = source.ver
      /\ Carries(w) \/ (work[w].pc = "storing" /\ writer[w] = 0)
      /\ Carries(w) => work[w].content = source.content /\ work[w].ver = source.ver
    <2>1. Carries(w) => VersionOf(w) = work[w].ver
        BY DEF Carries, VersionOf
    <2>2. QED
        BY <2>1, RunTurns DEF Wanted, Arriving, Contented
<1>2. CASE Decide(w)
    <2>1. PICK g : g = IndexedState
        OBVIOUS
    <2>2. /\ work[w].pc = "fetched" /\ Still /\ (g # 0 => g \in records)
          /\ \/ Skips(w, g)
             \/ \E l \in WorkType : /\ Turns(w, l) /\ l.pc = "extracting"
                                    /\ l.job = "fetch" /\ l.ver = work[w].ver
        BY <1>2, <2>1, DecideEffect
    <2>3. CASE Skips(w, g)
        <3>1. g \in records /\ work[w].content = source.content /\ work[w].ver = source.ver
            BY <1>1, <2>2, <2>3 DEF Skips, Carries
        <3>2. /\ Info(g).ver \in 1..source.ver /\ At(g) \in DOMAIN meta /\ Info(g) = meta[At(g)]
            BY <3>1, RecordFields
        <3>3. CASE Unchanged(w, g)
            <4>1. Info(g).ver = source.ver
                BY <3>1, <3>2, <3>3 DEF Unchanged, Contented
            <4>2. QED
                BY <1>1, <2>2, <3>1, <4>1, StillThere DEF Still
        <3>4. CASE ~Unchanged(w, g)
            <4>1. source.ver < Info(g).ver
                BY <2>3, <3>1, <3>4 DEF Skips
            <4>2. source.ver \in Int
                BY DEF TypeInv, IndexingTypeOK
            <4>3. QED
                BY <3>2, <4>1, <4>2
        <3>5. QED
            BY <3>3, <3>4
    <2>4. CASE \E l \in WorkType : /\ Turns(w, l) /\ l.pc = "extracting"
                                   /\ l.job = "fetch" /\ l.ver = work[w].ver
        <3>1. /\ work'[w].pc = "extracting" /\ work'[w].job = "fetch"
              /\ work'[w].ver = source'.ver
            BY <1>1, <2>2, <2>4 DEF Turns, Carries
        <3>2. QED
            BY <3>1 DEF Arriving, VersionOf, Carries
    <2>5. QED
        BY <2>2, <2>3, <2>4
<1>3. CASE Extract(w)
    <2>1. PICK m \in Meta, l \in WorkType :
             /\ work[w].pc = "extracting" /\ UNCHANGED <<vars, dating>>
             /\ m.ver = work[w].ver
             /\ Len(meta) < MaxWrites /\ meta' = Append(meta, m)
             /\ Turns(w, l) /\ l.pc = "storing" /\ l.job = work[w].job
             /\ l.gen = Rank(m.ver, Len(meta) + 1)
        BY <1>3, ExtractEffect
    <2>2. PICK n, k : n = Len(meta) + 1 /\ k = Rank(m.ver, n)
        OBVIOUS
    <2>3. Info(k)' = m
        BY <2>1, <2>2, MetaGrows
    <2>4. /\ work'[w].pc = "storing" /\ work'[w].gen = k /\ work'[w].job = "fetch"
          /\ writer'[w] = 0
        BY <1>1, <2>1, <2>2, Outside DEF Turns, vars
    <2>5. VersionOf(w)' = source'.ver
        BY <1>1, <2>1, <2>3, <2>4 DEF VersionOf, Info, At, Carries
    <2>6. QED
        BY <2>4, <2>5 DEF Arriving
<1>4. CASE Store(w)
    <2>1. PICK k : k = work[w].gen
        OBVIOUS
    <2>2. /\ work[w].pc = "storing" /\ records' = records \cup {k} /\ meta' = meta
        BY <1>4, <2>1, StoreEffect
    <2>3. Info(k)'.ver = source'.ver
        BY <1>1, <2>1, <2>2 DEF VersionOf, Info, At
    <2>4. QED
        BY <2>2, <2>3
<1>5. CASE Transient(w)
    BY <1>1, <1>5 DEF Transient
<1>6. CASE Fetch(w) \/ Reprocess(w) \/ ReprocessFailed(w)
    BY <1>1, <1>6 DEF Fetch, Reprocess, ReprocessFailed, Busy, Carries
<1>7. CASE Reconcile(w) \/ Empty(w) \/ Permanent(w) \/ Recheck(w) \/ Finish(w)
    <2>1. ~Reconcile(w)
        BY <1>1 DEF Reconcile, Carries
    <2>2. ~Empty(w)
        BY <1>1 DEF Empty, Carries
    <2>3. ~Permanent(w)
        BY <1>1 DEF Permanent
    <2>4. ~Recheck(w)
        BY <1>1 DEF Recheck, TypeInv, WorkerOK
    <2>5. ~Finish(w)
        BY <1>1, FinishEffect DEF Carries
    <2>6. QED
        BY <1>7, <2>1, <2>2, <2>3, <2>4, <2>5
<1>8. QED
    BY <1>2, <1>3, <1>4, <1>5, <1>6, <1>7 DEF Run

\* Of the newest version something stays: a prune keeps what ranks highest.
LEMMA ThereRun ==
    ASSUME TypeInv, AloneInv, NEW w \in Writers, Run(w), Wanted, Wanted',
           NEW g \in records, Info(g).ver = source.ver
    PROVE  \E h \in records' : (Info(h).ver = source.ver)'
<1>1. Kept /\ source' = source /\ erased' = FALSE /\ erased = FALSE /\ Ordered
    <2>1. erased = FALSE /\ erased' = FALSE
        <3>1. erased \in BOOLEAN /\ erased' \in BOOLEAN
            BY TypeStep DEF PipelineNext, TypeInv, IndexingTypeOK, TypeOK
        <3>2. QED
            BY <3>1 DEF Wanted
    <2>2. QED
        BY <2>1, RunTurns DEF AloneInv, Wanted
<1>2. CASE ~Finish(w)
    <2>1. records \subseteq records'
        <3>1. CASE Fetch(w) \/ Decide(w) \/ Recheck(w) \/ Reprocess(w) \/ ReprocessFailed(w)
            BY <3>1, FetchEffect, DecideEffect, RecheckEffect, ReprocessEffect DEF Still
        <3>2. CASE Reconcile(w) \/ Empty(w) \/ Transient(w) \/ Permanent(w)
            BY <1>1, <3>2, LeaveEffect
        <3>3. CASE Extract(w) \/ Store(w)
            BY <3>3, StoreEffect DEF Extract, vars
        <3>4. QED
            BY <1>2, <3>1, <3>2, <3>3 DEF Run
    <2>2. QED
        BY <1>1, <2>1, StillThere
<1>3. CASE Finish(w)
    <2>1. PICK h : h = NewestGeneration
        OBVIOUS
    <2>2. h \in records /\ \A k \in records : k <= h
        BY <2>1, Looked
    <2>3. h \in records'
        <3>1. \A k \in records : k \in Int /\ h \in Int /\ k <= h
            BY <2>2, RecordFields DEF Gens
        <3>2. h \notin Outranked(w)
            BY <3>1 DEF Outranked
        <3>3. QED
            BY <1>3, <2>2, <3>2, FinishEffect
    <2>4. Info(h).ver = source.ver
        <3>1. Info(g).ver <= Info(h).ver
            BY <1>1, <2>2 DEF Ordered
        <3>2. Info(h).ver \in 1..source.ver /\ source.ver \in Int
            BY <2>2, RecordFields DEF TypeInv, IndexingTypeOK
        <3>3. QED
            BY <3>1, <3>2
    <2>5. QED
        BY <1>1, <2>2, <2>3, <2>4, StillThere
<1>4. QED
    BY <1>2, <1>3

\* A wanted text stays on its way until it has arrived, and then it is there.
LEMMA FollowStep ==
    TypeInv /\ AloneInv /\ Contented /\ OnItsWay /\ [PipelineNext]_pipelineVars => OnItsWay'
<1> SUFFICES ASSUME TypeInv, AloneInv, Contented, OnItsWay, [PipelineNext]_pipelineVars, Wanted'
             PROVE  \/ owed'
                    \/ \E w \in Writers : Arriving(w)'
                    \/ \E g \in records' : (Info(g).ver = source.ver)'
    BY DEF OnItsWay
<1>1. CASE Edit \/ Discover
    BY <1>1 DEF Edit, Discover
<1>2. CASE Due \/ Die \/ UNCHANGED pipelineVars
    <2>1. /\ Kept /\ UNCHANGED <<records, source>> /\ Wanted
          /\ owed => owed'
        <3>1. UNCHANGED <<records, source, dating, overlapped, erased, dropped>> /\ (owed => owed')
            <4>1. CASE Due \/ UNCHANGED pipelineVars
                BY <4>1 DEF Due, pipelineVars, vars, jobVars, history
            <4>2. CASE Die
                <5>1. owed' = (owed \/ \E w \in Writers : work[w].job = "fetch")
                    BY <4>2 DEF Die
                <5>2. UNCHANGED <<records, source, dating, overlapped, erased, dropped>>
                    BY <4>2 DEF Die, Crash
                <5>3. QED
                    BY <5>1, <5>2
            <4>3. QED
                BY <1>2, <4>1, <4>2
        <3>2. QED
            BY <1>2, <3>1, Around DEF Wanted, Calm
    <2>2. CASE owed
        BY <2>1, <2>2
    <2>3. CASE \E w \in Writers : Arriving(w)
        <3>1. PICK w \in Writers : Arriving(w)
            BY <2>3
        <3>2. CASE Die
            BY <3>1, <3>2 DEF Die, Arriving
        <3>3. CASE ~Die
            <4>1. work' = work /\ writer' = writer
                BY <1>2, <3>3, Around
            <4>2. QED
                BY <2>1, <3>1, <4>1, StillArriving
        <3>4. QED
            BY <3>2, <3>3
    <2>4. CASE \E g \in records : Info(g).ver = source.ver
        BY <2>1, <2>4, StillThere
    <2>5. QED
        BY <2>1, <2>2, <2>3, <2>4 DEF OnItsWay
<1>3. ASSUME NEW w \in Writers, Run(w)
      PROVE  \/ owed'
             \/ \E v \in Writers : Arriving(v)'
             \/ \E g \in records' : (Info(g).ver = source.ver)'
    <2>1. Kept /\ UNCHANGED <<source, dating>> /\ \A v \in Writers \ {w} : work'[v] = work[v]
        BY <1>3, RunTurns DEF Turns
    <2>2. CASE Fetch(w)
        <3>1. /\ Still /\ \E l \in WorkType :
                   /\ Turns(w, l) /\ l.pc = IF source.live THEN "fetched" ELSE "listed"
                   /\ l.job = "fetch" /\ l.ver = source.ver
            BY <2>2, FetchEffect
        <3>2. source.live /\ source' = source
            BY <2>1 DEF Wanted
        <3>3. work'[w].pc = "fetched" /\ work'[w].job = "fetch" /\ work'[w].ver = source'.ver
            BY <3>1, <3>2 DEF Turns
        <3>4. QED
            BY <3>3 DEF Arriving, VersionOf, Carries
    <2>3. CASE ~Fetch(w)
        <3>1. (owed => owed') /\ (erased => erased') /\ (dropped => dropped')
              /\ (overlapped => overlapped') /\ \A v \in Writers \ {w} : writer'[v] = writer[v]
            <4>1. CASE Decide(w) \/ Recheck(w) \/ Reprocess(w) \/ ReprocessFailed(w)
                BY <4>1, DecideEffect, RecheckEffect, ReprocessEffect DEF Still
            <4>2. CASE Reconcile(w) \/ Empty(w) \/ Transient(w) \/ Permanent(w)
                BY <4>2, LeaveEffect
            <4>3. CASE Extract(w)
                BY <4>3 DEF Extract, vars, jobVars
            <4>4. CASE Store(w)
                BY <4>4, StoreEffect DEF jobVars, history, TypeInv, IndexingTypeOK, TypeOK
            <4>5. CASE Finish(w)
                BY <4>5, FinishEffect DEF jobVars, history, TypeInv, IndexingTypeOK, TypeOK
            <4>6. QED
                BY <1>3, <2>3, <4>1, <4>2, <4>3, <4>4, <4>5 DEF Run
        <3>2. Wanted
            BY <2>1, <3>1 DEF Wanted, Calm
        <3>3. CASE owed
            BY <3>1, <3>3
        <3>4. CASE \E v \in Writers : Arriving(v)
            <4>1. PICK v \in Writers : Arriving(v)
                BY <3>4
            <4>2. CASE v = w
                BY <1>3, <3>2, <4>1, <4>2, ArrivingRun
            <4>3. CASE v # w
                BY <2>1, <3>1, <4>1, <4>3, StillArriving
            <4>4. QED
                BY <4>2, <4>3
        <3>5. CASE \E g \in records : Info(g).ver = source.ver
            BY <1>3, <3>2, <3>5, ThereRun
        <3>6. QED
            BY <3>2, <3>3, <3>4, <3>5 DEF OnItsWay
    <2>4. QED
        BY <2>2, <2>3
<1>4. QED
    BY <1>1, <1>2, <1>3 DEF PipelineNext

\* With every fetch done, readers see the source's content.
LEMMA Follows == TypeInv /\ AloneInv /\ Contented /\ OnItsWay => IndexFollowsSource
<1> SUFFICES ASSUME TypeInv, AloneInv, Contented, OnItsWay, Quiet, ~erased, ~dropped,
                    source.live, source.content # Blank, dating = "none" => ~overlapped
             PROVE  NewestGeneration # 0 /\ Info(NewestGeneration).content = source.content
    BY DEF IndexFollowsSource
<1>1. \A w \in Writers : ~Arriving(w)
    BY DEF Quiet, Busy, Arriving, Carries
<1>2. PICK g \in records : Info(g).ver = source.ver
    BY <1>1 DEF OnItsWay, Wanted, Calm, Quiet
<1>3. NewestGeneration \in records /\ g <= NewestGeneration
    BY <1>2, Looked
<1>4. Info(g).ver <= Info(NewestGeneration).ver
    BY <1>3 DEF AloneInv, Calm, Ordered
<1>5. /\ Info(NewestGeneration).ver \in 1..source.ver /\ source.ver \in Int
      /\ At(NewestGeneration) \in DOMAIN meta
      /\ Info(NewestGeneration) = meta[At(NewestGeneration)]
    BY <1>3, RecordFields DEF TypeInv, IndexingTypeOK
<1>6. Info(NewestGeneration).ver = source.ver
    BY <1>2, <1>4, <1>5
<1>7. Info(NewestGeneration).content = source.content
    BY <1>5, <1>6 DEF Contented
<1>8. NewestGeneration # 0
    BY <1>3, RecordFields DEF Gens
<1>9. QED
    BY <1>7, <1>8

\* Where the source never goes back to a content it had, the index follows it: through skips,
\* failed extractions, retries, redelivered jobs and late writers of older content, for any
\* number of workers, versions, writes and crashes.
THEOREM Following == ASSUME ~Reverts PROVE PipelineSpec => []IndexFollowsSource
BY TypeInit, TypeStep, AloneInit, AloneStep, FollowInit, ContentedStep, FollowStep, Follows, PTL
   DEF PipelineSpec
================================================================================
