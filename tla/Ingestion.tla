-------------------------------- MODULE Ingestion --------------------------------
(***************************************************************************)
(* Discovery and fetch jobs of one GitHub repository and one kind of its   *)
(* documents: the scheduled runs (ingestion/discovery_handler.py), the     *)
(* page jobs they queue (ingestion/worker_handler.py, node/service.py) and *)
(* the pages the connector reads for them (connectors/github.py), on the   *)
(* node's queue or on SQS.  The repository changes all the while.          *)
(*                                                                         *)
(* A version of an item is the time the source gives it; 0 is no item, no  *)
(* document, no watermark.  How one document reaches the index is          *)
(* DocumentIndexing's subject: here the greater version stays.             *)
(***************************************************************************)
EXTENDS Integers, FiniteSets

CONSTANTS
    Items,        \* numbers of issues, or files in the order of their paths
    Deployments,  \* pairs of a kind of documents and a queue
    Slots,        \* bound: jobs there can be at once
    PageSize,     \* settings.page_size, files_per_page
    Overlap,      \* settings.watermark_overlap_s; no source's clock is behind by more
    MaxAttempts,  \* node.job_max_attempts, maxReceiveCount
    MaxRequeues,  \* settings.max_rate_limit_requeues
    MaxTime,      \* bound
    MaxRuns,      \* bound: discoveries
    MaxEvents     \* bound: changes of the source and the allowlist, failed calls and documents,
                  \* rate limits, crashes, duplicates

ASSUME IngestionAssumption ==
    /\ Items \subseteq Nat \ {0} /\ IsFiniteSet(Items) /\ Items # {}
    /\ Deployments \subseteq {"issue", "pr", "file", "readme"} \X {"node", "sqs"}
    /\ {PageSize, MaxAttempts} \subseteq Nat \ {0}
    /\ {Overlap, MaxRequeues, MaxTime, MaxRuns, MaxEvents} \subseteq Nat
    /\ Overlap < MaxTime

VARIABLES
    kind, queue,  \* chosen once
    now,
    updated,      \* the source: each item's version
    listed,       \* is the repository in the allowlist?
    empty,        \* is nothing in it?
    indexed,      \* the index: each document's version
    watermark,
    jobs,         \* what each slot holds
    runs, events, \* so far
    newest,       \* history: the greatest version each item has had
    settled,      \* history: has a run begun since anything changed, with no older job left?
    late,         \* history: was the repository listed after a watermark was saved?
    stayed,       \* history: documents the source has had ever since the beginning
    shifted,      \* history: was an item removed while its list was being paged?
    failed        \* history: versions given up, since they were last indexed

vars == <<kind, queue, now, updated, listed, empty, indexed, watermark, jobs, runs, events,
          newest, settled, late, stayed, shifted, failed>>
history == <<newest, settled, late, stayed, shifted, failed>>
count == <<runs, events>>
source == <<kind, queue, now, updated, listed, empty>>

Times == 0..MaxTime
Dated == {"issue", "pr"}  \* synced by time
Versions == [Items -> Times]
Nothing == [i \in Items |-> 0]

NoJob == [type |-> "none", pc |-> "none", tries |-> 0, limited |-> 0, full |-> FALSE,
          since |-> 0, page |-> 1, pinned |-> Nothing, docs |-> Nothing, live |-> Items,
          more |-> FALSE, started |-> 0, repos |-> FALSE]

Free(s) == jobs[s] = NoJob
Others(s) == {t \in Slots \ {s} : ~Free(t)}
Running(s) == jobs[s].pc \notin {"none", "queued", "dead"}
At(s, type, pc) == jobs[s].type = type /\ jobs[s].pc = pc
Quiet == \A s \in Slots : Free(s)

Set(s, job) == jobs' = [jobs EXCEPT ![s] = job]
Goto(s, pc) == Set(s, [jobs[s] EXCEPT !.pc = pc])
Event == events < MaxEvents /\ events' = events + 1 /\ UNCHANGED runs

\* enqueue_job, and the job at s goes on.
Enqueue(s, pc, job) ==
    \E t \in Slots : Free(t) /\ jobs' = [jobs EXCEPT ![s].pc = pc, ![t] = job]

\* A job as it is in the queue: what a worker has done of it is forgotten.
Requeued(job) ==
    [NoJob EXCEPT !.type = job.type, !.pc = "queued", !.tries = job.tries, !.full = job.full,
                  !.limited = job.limited, !.page = job.page,
                  !.since = IF job.type = "fetch" THEN job.since ELSE 0,
                  !.pinned = IF job.page = 1 THEN Nothing ELSE job.pinned]

Existing(v) == {i \in Items : v[i] # 0}
Read(S, v) == [i \in Items |-> IF i \in S THEN v[i] ELSE 0]

\* purge_unlisted_repos leaves everything alone if the allowlist is empty.
Belonging(v, kept) == IF kept THEN Existing(v) ELSE {}

\* The repository alone or among others, others alone, none.
Allowlists == (BOOLEAN \X BOOLEAN) \ {<<TRUE, TRUE>>}

\* The queue has counted the delivery before the handler sees the job.
Claimed(s) == [jobs[s] EXCEPT !.tries = @ + 1]

Init ==
    /\ \E d \in Deployments : kind = d[1] /\ queue = d[2]
    /\ now = 1 + Overlap
    /\ updated \in [Items -> 0..1]
    /\ kind = "readme" => \A i \in Items \ {1} : updated[i] = 0
    /\ \E a \in Allowlists : listed = a[1] /\ empty = a[2]
    /\ indexed = Nothing
    /\ watermark = 0
    /\ jobs = [s \in Slots |-> NoJob]
    /\ runs = 0
    /\ events = 0
    /\ newest = updated
    /\ settled = FALSE
    /\ late = FALSE
    /\ stayed = Belonging(updated, listed \/ empty)
    /\ shifted = FALSE
    /\ failed = {}

--------------------------------------------------------------------------------
\* The source and the operator.

Tick ==
    /\ now < MaxTime
    /\ now' = now + 1
    /\ UNCHANGED <<kind, queue, updated, listed, empty, indexed, watermark, jobs, count, history>>

Paging == \E s \in Slots : jobs[s].type = "fetch"

\* The source dates an issue or a pull request later with each change; a file has the date of
\* the commit it is read at, and a branch may be moved back to an earlier one.
Edit(i) ==
    /\ Event
    /\ kind = "readme" => i = 1
    /\ \E t \in {0} \cup (now - Overlap)..now :
         /\ t # updated[i]
         /\ kind \in Dated => t = 0 \/ t > newest[i]
         /\ updated' = [updated EXCEPT ![i] = t]
         /\ newest' = [newest EXCEPT ![i] = IF t > @ THEN t ELSE @]
         /\ stayed' = stayed \cap Belonging(updated', listed \/ empty)
         /\ shifted' = (shifted \/ (t = 0 /\ kind \in Dated /\ Paging))
    /\ settled' = FALSE
    /\ UNCHANGED <<kind, queue, now, listed, empty, indexed, watermark, jobs, late, failed>>

\* The allowlist changes; processes read it when they start.
Relist ==
    /\ Event
    /\ \E a \in Allowlists \ {<<listed, empty>>} : listed' = a[1] /\ empty' = a[2]
    /\ \A s \in Slots : ~Running(s)
    /\ late' = (late \/ (listed' /\ kind \in Dated /\ (watermark # 0 \/ ~Quiet)))
    /\ settled' = FALSE
    /\ stayed' = stayed \cap Belonging(updated, listed' \/ empty')
    /\ UNCHANGED <<kind, queue, now, updated, indexed, watermark, jobs, newest, shifted, failed>>

--------------------------------------------------------------------------------
\* Discovery.

\* The scheduler, EventBridge or the operator; the node's queue has one live job per key.
Discover(s) ==
    /\ runs < MaxRuns
    /\ Free(s)
    /\ queue = "node" => \A t \in Slots : jobs[t].type = "discover" => jobs[t].pc = "dead"
    /\ \E full \in {FALSE} \cup {d \in BOOLEAN : kind \in Dated} :
         Set(s, [NoJob EXCEPT !.type = "discover", !.pc = "queued", !.full = full])
    /\ runs' = runs + 1
    /\ UNCHANGED <<source, indexed, watermark, events, history>>

\* Mutant of Since: no overlap of runs.
Since_NoOverlap(full) == IF full THEN 0 ELSE watermark

\* Where the listing begins: 0 is everything.
Since(full) ==
    IF full \/ watermark = 0 THEN 0 ELSE IF watermark > Overlap THEN watermark - Overlap ELSE 0

\* run_discovery notes the time, then reads the watermark and tries the credentials.  An empty
\* allowlist is no source: there is nothing to list, no watermark to save, and the purge
\* refuses to delete everything.
Begin(s) ==
    /\ At(s, "discover", "queued")
    /\ IF empty
       THEN /\ Set(s, [Claimed(s) EXCEPT !.pc = "done"])
            /\ UNCHANGED <<settled, late>>
       ELSE /\ Set(s, [Claimed(s) EXCEPT !.pc = "queueing", !.started = now, !.repos = listed,
                                         !.since = Since(jobs[s].full)])
            /\ settled' = (settled \/ Others(s) = {})
            /\ late' = (late /\ ~(jobs[s].full /\ Others(s) = {}))
    /\ UNCHANGED <<source, indexed, watermark, count, newest, stayed, shifted, failed>>

\* One job per listed repository and kind.
QueueJobs(s) ==
    /\ At(s, "discover", "queueing")
    /\ IF jobs[s].repos
       THEN Enqueue(s, "saving",
                    [NoJob EXCEPT !.type = "fetch", !.pc = "queued",
                                  !.since = IF kind \in Dated THEN jobs[s].since ELSE 0])
       ELSE Goto(s, "saving")
    /\ UNCHANGED <<source, indexed, watermark, count, history>>

\* The next run starts from where this one began.
SaveWatermark(s) ==
    /\ At(s, "discover", "saving")
    /\ watermark' = jobs[s].started
    /\ Set(s, [jobs[s] EXCEPT !.pc = "purging", !.started = 0, !.since = 0])
    /\ UNCHANGED <<source, indexed, count, history>>

\* Documents of a repository that is no longer listed go.
Purge(s) ==
    /\ At(s, "discover", "purging")
    /\ indexed' = IF jobs[s].repos THEN indexed ELSE Nothing
    /\ Goto(s, "done")
    /\ UNCHANGED <<source, watermark, count, history>>

--------------------------------------------------------------------------------
\* One page.

\* direction=desc: what is updated moves to a page that has been read already, and is newer
\* than the next run's beginning.
NewestFirst(i, j) == updated[i] > updated[j] \/ (updated[i] = updated[j] /\ i > j)

\* Files are read in the order of their paths.
Precedes(i, j) == IF kind \in Dated THEN NewestFirst(i, j) ELSE i < j

Before(S, i) == {j \in S : Precedes(j, i)}
Page(S, n) ==
    {i \in S : Cardinality(Before(S, i)) \in ((n - 1) * PageSize)..(n * PageSize - 1)}

\* GET issues?since=: the server leaves older items out before it counts pages.
FetchIssues(job) ==
    LET page == Page({i \in Existing(updated) : updated[i] >= job.since}, job.page) IN
    [job EXCEPT !.docs = Read(page, updated), !.more = Cardinality(page) = PageSize]

\* GET pulls has no since: the page is filtered here, and the first older item ends it.
FetchPulls(job) ==
    LET page == Page(Existing(updated), job.page)
        fresh == {i \in page : updated[i] >= job.since}
    IN [job EXCEPT !.docs = Read(fresh, updated),
                   !.more = Cardinality(page) = PageSize /\ fresh = page]

\* Mutant of Live: a listing that is cut short counts as complete.
Live_Truncated(job, listing, complete) == IF job.page = 1 THEN Existing(listing) ELSE Items

\* Mutant of Live: every page brings a listing of its own.
Live_EveryPage(job, listing, complete) == Page(Existing(listing), job.page)

\* The documents that may stay: all, unless the first page brings the whole listing.
Live(job, listing, complete) ==
    IF job.page = 1 /\ complete THEN Existing(listing) ELSE Items

\* All pages are of the commit the first one found, which the cursor carries; the server may
\* answer with a part of its tree.  Files whose content is indexed are not downloaded.
FetchFiles(job, part) ==
    LET tree == IF job.page = 1 THEN updated ELSE job.pinned
        listing == Read(part, tree)
        page == Page(Existing(listing), job.page)
    IN [job EXCEPT !.pinned = tree,
                   !.live = Live(job, listing, part = Items),
                   !.docs = Read({i \in page : indexed[i] # tree[i]}, tree),
                   !.more = job.page * PageSize < Cardinality(Existing(listing))]

\* A README that is not found is removed.
FetchReadme(job) ==
    [job EXCEPT !.docs = updated, !.live = IF Existing(updated) = {} THEN {} ELSE Items]

\* fetch_with_reconciliation.
Fetch(s) ==
    /\ At(s, "fetch", "queued")
    /\ \E part \in SUBSET Items :
         /\ IF part # Items THEN kind = "file" /\ Event ELSE UNCHANGED count
         /\ Set(s, [(CASE kind = "issue" -> FetchIssues(Claimed(s))
                       [] kind = "pr" -> FetchPulls(Claimed(s))
                       [] kind = "file" -> FetchFiles(Claimed(s), part)
                       [] OTHER -> FetchReadme(Claimed(s))) EXCEPT !.pc = "indexing"])
         /\ settled' = (settled /\ part = Items)
    /\ UNCHANGED <<source, indexed, watermark, newest, late, stayed, shifted, failed>>

\* run_job takes the documents of the page one after the other.  An item without a version
\* of its own is overwritten.
Index(s) ==
    /\ At(s, "fetch", "indexing")
    /\ \E i \in Existing(jobs[s].docs) :
         LET v == jobs[s].docs[i] IN
         /\ indexed' = [indexed EXCEPT ![i] = IF kind # "readme" /\ @ > v THEN @ ELSE v]
         /\ failed' = failed \ {<<i, v>>}
         /\ Set(s, [jobs[s] EXCEPT !.docs[i] = 0])
    /\ UNCHANGED <<source, watermark, count, newest, settled, late, stayed, shifted>>

\* A document that fails for good is counted and the page goes on without it; so are an item
\* that _normalize_all cannot read and a file that is too large or not text.
GiveUp(s) ==
    /\ At(s, "fetch", "indexing") /\ Event
    /\ \E i \in Existing(jobs[s].docs) :
         /\ indexed[i] # jobs[s].docs[i]
         /\ failed' = failed \cup {<<i, jobs[s].docs[i]>>}
         /\ Set(s, [jobs[s] EXCEPT !.docs[i] = 0])
    /\ UNCHANGED <<source, indexed, watermark, newest, settled, late, stayed, shifted>>

Reconcile(s) ==
    /\ At(s, "fetch", "indexing") /\ Existing(jobs[s].docs) = {}
    /\ indexed' = Read(jobs[s].live, indexed)
    /\ Set(s, [jobs[s] EXCEPT !.pc = "following", !.live = Items])
    /\ UNCHANGED <<source, watermark, count, history>>

\* The successor is queued before the page is acknowledged, with a fresh count of rate limits.
Follow(s) ==
    /\ At(s, "fetch", "following")
    /\ IF jobs[s].more
       THEN Enqueue(s, "done",
                    Requeued([jobs[s] EXCEPT !.page = @ + 1, !.tries = 0, !.limited = 0]))
       ELSE Goto(s, "done")
    /\ UNCHANGED <<source, indexed, watermark, count, history>>

Complete(s) ==
    /\ jobs[s].pc = "done"
    /\ Set(s, NoJob)
    /\ UNCHANGED <<source, indexed, watermark, count, history>>

--------------------------------------------------------------------------------
\* What goes wrong.

\* The source, the model or the store fails after the retries of the call itself; or the
\* worker's invocation dies.  What was done stays done; fail and SQS's redrive policy give the
\* job up when it has been handed out often enough.
Fails(s) ==
    /\ jobs[s].pc \notin {"none", "dead"} /\ Event
    /\ LET job == IF Running(s) THEN jobs[s] ELSE Claimed(s) IN
       Set(s, IF job.tries >= MaxAttempts THEN [Requeued(job) EXCEPT !.pc = "dead"]
                                          ELSE Requeued(job))
    /\ UNCHANGED <<source, indexed, watermark, history>>

\* Mutant of MayWait: once more.
MayWait_OffByOne(job) == job.limited <= MaxRequeues

MayWait(job) == job.limited < MaxRequeues

\* Rate limited for longer than a call waits: the job is postponed on the node, and a delayed
\* copy replaces it on SQS.
RateLimited(s) ==
    /\ At(s, "fetch", "queued") /\ Event
    /\ MayWait(jobs[s])
    /\ LET again == [Requeued(jobs[s]) EXCEPT !.limited = @ + 1] IN
       IF queue = "node"
       THEN Set(s, again)
       ELSE Enqueue(s, "done", [again EXCEPT !.tries = 0])
    /\ UNCHANGED <<source, indexed, watermark, history>>

\* SQS delivers at least once.
Duplicate(s, t) ==
    /\ queue = "sqs" /\ jobs[s].pc = "queued" /\ Free(t) /\ Event
    /\ Set(t, jobs[s])
    /\ UNCHANGED <<source, indexed, watermark, history>>

\* The node's process dies and starts again.
Crash ==
    /\ queue = "node" /\ Event
    /\ \E s \in Slots : Running(s)
    /\ jobs' = [s \in Slots |-> IF Running(s) THEN Requeued(jobs[s]) ELSE jobs[s]]
    /\ UNCHANGED <<source, indexed, watermark, history>>

\* The operator gives a dead letter a new budget.
Revive(s) ==
    /\ jobs[s].pc = "dead"
    /\ queue = "node" /\ jobs[s].type = "discover" =>
         \A t \in Others(s) : jobs[t].type = "discover" => jobs[t].pc = "dead"
    /\ Set(s, [jobs[s] EXCEPT !.pc = "queued", !.tries = 0])
    /\ UNCHANGED <<source, indexed, watermark, count, history>>

Discovery(s) == Discover(s) \/ Begin(s) \/ QueueJobs(s) \/ SaveWatermark(s) \/ Purge(s)
Worker(s) == Fetch(s) \/ Index(s) \/ GiveUp(s) \/ Reconcile(s) \/ Follow(s) \/ Complete(s)
Trouble(s) == Fails(s) \/ RateLimited(s) \/ Revive(s) \/ \E t \in Slots : Duplicate(s, t)

Next ==
    \/ Tick \/ Relist \/ Crash
    \/ \E i \in Items : Edit(i)
    \/ \E s \in Slots : Discovery(s) \/ Worker(s) \/ Trouble(s)

Spec == Init /\ [][Next]_vars

--------------------------------------------------------------------------------
\* The state is well typed; a job is never handed out more often than its budget, but for
\* crashes of the node, and waits for a rate limit no more often than allowed.
TypeOK ==
    /\ updated \in Versions /\ indexed \in Versions
    /\ watermark \in 0..now
    /\ \A s \in Slots :
         /\ jobs[s].tries \in 0..(MaxAttempts + IF queue = "node" THEN events ELSE 0)
         /\ jobs[s].limited \in 0..MaxRequeues
         /\ jobs[s].since <= now /\ jobs[s].docs \in Versions

\* What the index lacks of the source's item i was given up.
GivenUp(i) == updated[i] # 0 /\ <<i, updated[i]>> \in failed

\* Issues and pull requests: with all jobs done, an item is indexed as it is, or the next run
\* will list it, or it has failed for good as it is.  Failed, repeated, forked and late pages,
\* lists that move while they are paged, and clocks that disagree by Overlap included; removals
\* of items while their list is being paged excluded, and repositories listed after the
\* source's first run.
NothingMissed ==
    /\ Quiet /\ kind \in Dated
    /\ listed /\ ~late /\ ~shifted
    => \A i \in Existing(updated) :
         indexed[i] = updated[i] \/ updated[i] >= Since(FALSE) \/ GivenUp(i)

\* "...so concurrent writers of the same document always converge" (schema.py) on the greater
\* version: a file that a commit with an earlier date has changed stays as it was.
Current == kind = "file" => \A i \in Existing(updated) : updated[i] = newest[i]

\* Files and READMEs: once all jobs are done of a run that began with no older job left, and
\* nothing has changed since, the index is the source, but for what has failed for good as it
\* is: what was removed is gone, also when pages of other runs were late before.  Of a
\* repository no longer listed, of whatever kind, nothing is left, unless nothing is listed.
CoversSource ==
    /\ Quiet /\ settled /\ Current
    => /\ ~listed /\ ~empty => indexed = Nothing
       /\ listed /\ kind \notin Dated =>
            \A i \in Items : indexed[i] = updated[i] \/ GivenUp(i)

\* A document the source has had all along is not deleted, by incomplete listings, late pages
\* of older ones or purges, nor when nothing is listed.
DeletesOnlyGone == [][\A i \in stayed : indexed[i] # 0 => indexed'[i] # 0]_vars
================================================================================
