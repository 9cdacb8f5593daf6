---------------------------- MODULE DocumentIndexing ----------------------------
(***************************************************************************)
(* The ingestion pipeline (ingestion/pipeline.py) and the extraction       *)
(* interceptor (semantic/interceptor.py) as seen by one document, over the *)
(* in-memory store.  Workers fetch it after it changed, or process it      *)
(* again from the index because its extraction is due for a retry.  Each   *)
(* call to the source, the model or the store is a step of its own.        *)
(*                                                                         *)
(* A generation of MemoryStore is named by its generation_rank; what it    *)
(* holds is kept in meta, in the order of indexed_at.                      *)
(***************************************************************************)
EXTENDS MemoryStore, Sequences, FiniteSetsExt

CONSTANTS
    Contents,            \* contents the document can have
    Blank,               \* the one of them that has no text at all
    MaxAttempts,         \* settings.max_attempts
    MaxContentAttempts,  \* settings.max_content_attempts
    Reverts,             \* may the source go back to a content it had before?
    MaxVersion,          \* bound: versions of the document at the source
    MaxWrites,           \* bound: documents ever chunked
    MaxExtra             \* bound: fetches of an unchanged document that discoveries queue,
                         \* and times the operator asks for failed documents

ASSUME IndexingAssumption ==
    /\ Blank \in Contents
    /\ {MaxAttempts, MaxContentAttempts, MaxVersion, MaxWrites} \subseteq Nat \ {0}
    /\ MaxExtra \in Nat
    /\ Reverts \in BOOLEAN
    /\ MaxGen = MaxVersion * MaxWrites

VARIABLES
    source,      \* the document at its source
    dating,      \* what the source says of its version
    owed,        \* is a fetch of the document queued?
    work,        \* what each worker is doing
    meta,        \* what was chunked, in the order of indexed_at
    extra,       \* such fetches and requests so far
    tries,       \* history: failed extractions since the document last got a fresh budget, or
                 \* Uncounted once one of them was not stored or two workers were at it
    overlapped,  \* history: have two workers been at the document at the same time?
    dropped      \* history: has the document been given up for a permanent failure?

jobVars == <<source, dating, owed, extra>>
history == <<tries, overlapped, dropped>>
pipelineVars == <<vars, jobVars, work, meta, history>>

--------------------------------------------------------------------------------
\* Issues and pull requests carry updated_at, files the time of their commit, READMEs and
\* local files nothing.
Datings == {"updated", "committed", "none"}

\* Mutant of Rank: the later write wins, whatever it holds.
Rank_ByWriteTime(ver, at) == at

\* generation_rank: the source's version if there is one, then the time of writing.
Rank(ver, at) == (IF dating = "none" THEN 0 ELSE (ver - 1) * MaxWrites) + at

At(g) == ((g - 1) % MaxWrites) + 1
Info(g) == meta[At(g)]

\* What a reader takes the document to be; 0 when it has none.
NewestGeneration == IF records = {} THEN 0 ELSE Max(records)

\* The pipeline's view goes by the time of writing alone.
IndexedState ==
    IF records = {} THEN 0 ELSE CHOOSE g \in records : \A h \in records : At(h) <= At(g)

Statuses == {"ok", "retry_pending", "failed"}

\* Nothing orders the two budgets.
LargerBudget == IF MaxContentAttempts > MaxAttempts THEN MaxContentAttempts ELSE MaxAttempts

Meta == [ver : 1..MaxVersion, content : Contents, status : Statuses,
         attempts : 0..LargerBudget, due : BOOLEAN]

RetryDue(g) == Info(g).status = "retry_pending" /\ Info(g).due

Idle == [pc |-> "idle", job |-> "none", ver |-> 0, content |-> Blank, seen |-> FALSE,
         attempts |-> 0, gen |-> 0]

PipelineInit ==
    /\ Init
    /\ \E c \in Contents \ {Blank} : source = [ver |-> 1, content |-> c, live |-> TRUE]
    /\ dating \in Datings
    /\ owed = TRUE
    /\ work = [w \in Writers |-> Idle]
    /\ meta = <<>>
    /\ extra = 0
    /\ tries = 0
    /\ overlapped = FALSE
    /\ dropped = FALSE

Busy(w) == work[w].pc # "idle"
Goto(w, l) == work' = [work EXCEPT ![w] = l]

Alone(w) == \A v \in Writers \ {w} : ~Busy(v)
Uncounted == -1
Count(n) == tries' = IF tries = Uncounted THEN Uncounted ELSE n
Begins(w) ==
    /\ overlapped' = (overlapped \/ ~Alone(w))
    /\ IF Alone(w) THEN UNCHANGED tries ELSE tries' = Uncounted

--------------------------------------------------------------------------------
\* A fetch of the document.

\* Until it is chunked the document is in the worker's hands.
Carries(w) == work[w].pc \in {"fetched", "loaded", "extracting"}

Unseen(c) ==
    /\ c # source.content
    /\ \A n \in DOMAIN meta : meta[n].content # c
    /\ \A w \in Writers : Carries(w) => work[w].content # c

\* The document changes at its source, and a discovery queues a fetch.
Edit ==
    /\ source.ver < MaxVersion
    /\ \E c \in Contents, l \in BOOLEAN :
         /\ Reverts \/ Unseen(c)
         /\ source' = [ver |-> source.ver + 1, content |-> c, live |-> l]
    /\ owed' = TRUE
    /\ UNCHANGED <<vars, dating, work, meta, extra, history>>

\* Discoveries also queue documents that have not changed: they overlap, or list everything.
Discover ==
    /\ ~owed /\ extra < MaxExtra
    /\ owed' = TRUE
    /\ extra' = extra + 1
    /\ UNCHANGED <<vars, source, dating, work, meta, history>>

\* run_job, up to the answer of the connector.  A document that is gone is only noticed by
\* the listing that comes with the page.
Fetch(w) ==
    /\ ~Busy(w) /\ owed
    /\ owed' = FALSE
    /\ Goto(w, [Idle EXCEPT !.pc = IF source.live THEN "fetched" ELSE "listed",
                            !.job = "fetch", !.ver = source.ver,
                            !.content = source.content])
    /\ Begins(w)
    /\ UNCHANGED <<vars, source, dating, extra, meta, dropped>>

\* reconcile: nothing is deleted unless something of the scope is indexed.
Reconcile(w) ==
    /\ work[w].pc = "listed"
    /\ IF records = {} THEN UNCHANGED vars ELSE DeleteByDocument
    /\ Goto(w, Idle)
    /\ UNCHANGED <<jobVars, meta, history>>

Unchanged(w, g) == g # 0 /\ Info(g).content = work[w].content

\* unchanged, retry_scheduled, retry_exhausted, and older_than_indexed.
Skips(w, g) ==
    /\ g # 0
    /\ IF Unchanged(w, g)
       THEN ~RetryDue(g)
       ELSE dating = "updated" /\ work[w].ver < Info(g).ver

\* Mutant of Carried: every attempt starts with the whole budget.
Carried_Reset(w, g) == 0

\* "The retry budget belongs to the content version."
Carried(w, g) == IF Unchanged(w, g) THEN Info(g).attempts ELSE 0

\* run_job's look at the index, and process_document up to the interceptors.
Decide(w) ==
    /\ work[w].pc = "fetched"
    /\ LET g == IndexedState IN
       /\ IF Skips(w, g)
          THEN Goto(w, Idle)
          ELSE Goto(w, [work[w] EXCEPT !.pc = "extracting", !.seen = g # 0,
                                       !.attempts = Carried(w, g)])
       /\ Count(IF Unchanged(w, g) THEN tries ELSE 0)
    /\ UNCHANGED <<vars, jobVars, meta, overlapped, dropped>>

--------------------------------------------------------------------------------
\* From the interceptors to the store.

\* What classify_extraction_error tells apart: a failure of this document, or of the
\* service (transient and configuration failures have the same budget).
FailureKinds == {"content", "service"}

\* Mutant of Budget: one attempt more.
Budget_OffByOne(k) == IF k = "content" THEN MaxContentAttempts + 1 ELSE MaxAttempts + 1

Budget(k) == IF k = "content" THEN MaxContentAttempts ELSE MaxAttempts

\* before_ingest: the outcome is written into the document whichever it is.
Extracted(w, outcome) ==
    LET n == work[w].attempts + 1 IN
    [ver |-> work[w].ver, content |-> work[w].content, due |-> FALSE,
     status |-> IF outcome = "ok" THEN "ok"
                ELSE IF n >= Budget(outcome) THEN "failed" ELSE "retry_pending",
     attempts |-> IF outcome = "ok" THEN 0 ELSE n]

\* The document is chunked, which fixes indexed_at and with it the generation's rank.
Chunked(w, m) ==
    /\ Len(meta) < MaxWrites
    /\ meta' = Append(meta, m)
    /\ Goto(w, [Idle EXCEPT !.pc = "storing", !.job = work[w].job,
                            !.gen = Rank(m.ver, Len(meta) + 1)])

Extract(w) ==
    /\ work[w].pc = "extracting" /\ work[w].content # Blank
    /\ \E outcome \in {"ok"} \cup FailureKinds :
         /\ Chunked(w, Extracted(w, outcome))
         /\ Count(IF outcome = "ok" THEN 0 ELSE tries + 1)
    /\ UNCHANGED <<vars, jobVars, overlapped, dropped>>

\* There is nothing to chunk: "its old content must not linger".
Empty(w) ==
    /\ work[w].pc = "extracting" /\ work[w].content = Blank
    /\ IF work[w].seen THEN DeleteByDocument ELSE UNCHANGED vars
    /\ Goto(w, Idle)
    /\ UNCHANGED <<jobVars, meta, history>>

\* replace_document, in MemoryStore's two critical sections.
Store(w) ==
    /\ work[w].pc = "storing" /\ writer[w] = 0
    /\ Upsert(w, work[w].gen)
    /\ UNCHANGED <<jobVars, work, meta, history>>

Finish(w) ==
    /\ Prune(w)
    /\ Goto(w, Idle)
    /\ UNCHANGED <<jobVars, meta, history>>

\* The model, the embedder or the store raises.  A transient error fails the job, which is
\* delivered again; any other is counted, and the rest of the page goes on without this
\* document.
Transient(w) ==
    /\ work[w].pc \in {"fetched", "listed", "loaded", "extracting", "storing"}
    /\ writer[w] = 0
    /\ Goto(w, Idle)
    /\ owed' = (owed \/ work[w].job = "fetch")
    /\ tries' = IF work[w].pc = "storing" THEN Uncounted ELSE tries
    /\ UNCHANGED <<vars, source, dating, extra, meta, overlapped, dropped>>

Permanent(w) ==
    /\ work[w].pc = "storing" /\ writer[w] = 0
    /\ Goto(w, Idle)
    /\ dropped' = TRUE
    /\ tries' = Uncounted
    /\ UNCHANGED <<vars, jobVars, meta, overlapped>>

--------------------------------------------------------------------------------
\* A retry of the extraction, from what the index holds.

\* next_retry_at has come.
Due ==
    /\ \E n \in DOMAIN meta :
         /\ Rank(meta[n].ver, n) \in records
         /\ meta[n].status = "retry_pending" /\ ~meta[n].due
         /\ meta' = [meta EXCEPT ![n].due = TRUE]
    /\ UNCHANGED <<vars, jobVars, work, history>>

\* document_from_index: the document as its newest generation holds it.
Rebuilt ==
    LET m == Info(NewestGeneration) IN
    [Idle EXCEPT !.pc = "loaded", !.job = "retry", !.ver = m.ver, !.content = m.content,
                 !.seen = TRUE, !.attempts = m.attempts]

\* reprocess: the sweep has found the document.
Reprocess(w) ==
    /\ ~Busy(w) /\ records # {}
    /\ RetryDue(NewestGeneration)
    /\ Goto(w, Rebuilt)
    /\ Begins(w)
    /\ UNCHANGED <<vars, jobVars, meta, dropped>>

\* The operator has asked for failed documents: "a fresh retry budget".
ReprocessFailed(w) ==
    /\ ~Busy(w) /\ records # {} /\ extra < MaxExtra
    /\ Info(NewestGeneration).status = "failed"
    /\ Goto(w, [Rebuilt EXCEPT !.attempts = 0])
    /\ extra' = extra + 1
    /\ overlapped' = (overlapped \/ ~Alone(w))
    /\ IF Alone(w) THEN Count(0) ELSE tries' = Uncounted
    /\ UNCHANGED <<vars, source, dating, owed, meta, dropped>>

\* "Re-check right before writing: a concurrent fetch may have stored new content."
Recheck(w) ==
    /\ work[w].pc = "loaded"
    /\ IF Unchanged(w, IndexedState)
       THEN Goto(w, [work[w] EXCEPT !.pc = "extracting"])
       ELSE Goto(w, Idle)
    /\ UNCHANGED <<vars, jobVars, meta, history>>

--------------------------------------------------------------------------------
\* The process dies; the jobs its workers held are delivered again.
Die ==
    /\ Crash
    /\ work' = [w \in Writers |-> Idle]
    /\ owed' = (owed \/ \E w \in Writers : work[w].job = "fetch")
    /\ tries' = IF \E w \in Writers : Busy(w) THEN Uncounted ELSE tries
    /\ UNCHANGED <<source, dating, extra, meta, overlapped, dropped>>

Run(w) ==
    \/ Fetch(w) \/ Reconcile(w) \/ Decide(w)
    \/ Extract(w) \/ Empty(w) \/ Store(w) \/ Finish(w)
    \/ Transient(w) \/ Permanent(w)
    \/ Reprocess(w) \/ ReprocessFailed(w) \/ Recheck(w)

PipelineNext == Edit \/ Discover \/ Due \/ Die \/ \E w \in Writers : Run(w)

PipelineSpec == PipelineInit /\ [][PipelineNext]_pipelineVars

--------------------------------------------------------------------------------
\* The pipeline's state is well typed: a worker that stores holds a generation that was
\* chunked, and attempts never exceed the larger budget.
PipelineTypeOK ==
    /\ TypeOK
    /\ source \in [ver : 1..MaxVersion, content : Contents, live : BOOLEAN]
    /\ meta \in Seq(Meta)
    /\ \A w \in Writers :
         /\ work[w].pc = "storing" => At(work[w].gen) \in DOMAIN meta
         /\ writer[w] # 0 => writer[w] = work[w].gen
    /\ extra \in 0..MaxExtra

Quiet == ~owed /\ \A w \in Writers : ~Busy(w)

\* With every fetch done, readers see the source's content: skips, failed extractions,
\* retries, redelivered jobs and late writers of older content included.  Sources that date
\* nothing get this only as long as two workers are never at the document at once; and
\* nobody has asked for a deletion or given the document up.
IndexFollowsSource ==
    /\ Quiet /\ ~erased /\ ~dropped
    /\ source.live /\ source.content # Blank
    /\ dating = "none" => ~overlapped
    => NewestGeneration # 0 /\ Info(NewestGeneration).content = source.content

\* A content that cannot be extracted costs no more calls of the model than its budget,
\* whoever retries it, until it changes or the operator asks: attempts travel with the
\* document through fetches and retries.  (A job that fails after its call, and two jobs that
\* read the same count, do cost more: tries is Uncounted then.)
BudgetKept == tries <= LargerBudget
================================================================================
