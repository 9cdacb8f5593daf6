# Aquifer in TLA+

Models of the parts of Aquifer whose correctness depends on interleavings, failures and
restarts, checked with TLC and, where marked, proved with TLAPS. Paths are relative to
`src/aquifer/` of the repository unless they start with `docs/`.

    tlc -workers 2 -config JobQueue_timely.cfg MCJobQueue.tla     # one run
    tlc -workers 2 -config Server.cfg MCServer.tla
    tlapm JobQueueProofs.tla                                      # one module's proofs

## 1. The system

Aquifer indexes documents of engineering systems (GitHub, a local tree, or anything that has
an MCP server) into a vector store and serves them to agents through MCP tools. On one server,
everything runs in one process on SQLite files; on AWS, on SQS, Lambda and OpenSearch
Serverless.

| component | state | operations | talks to |
|---|---|---|---|
| job queue `node/queue.py` | table `jobs` (status, attempts, lease, due time, dedupe key), `state` marks | put, claim, complete, fail, postpone, requeue_dead, recover_interrupted | workers, scheduler, and the CLI from another process |
| node service `node/service.py` | worker and scheduler threads | run_once, schedule_due, start, handlers of `discover`, `fetch`, `retry_failed` | queue; ingestion; integrator registers its handlers |
| stores `vectorstore/*.py` | chunk records, grouped by document and generation | upsert, replace_document, deletes, queries | pipeline, integrator, MCP tools |
| integrator sync `integrator/jobs.py`, `sync.py`, `registry.py` | tables `sources`, `runs`, `seen`, `stream_state`, `oauth` | handle_sync, handle_page, reconcile_stream, authorization | queue, the source's MCP server, pipeline, store |
| integrator CLI `integrator/cli.py` | none of its own | connect, enable, pause, remove, sync | the registry, from another process |
| connections, credentials `integrator/client.py`, `credentials.py`, `web.py` | token documents | connect, call, token refresh, the OAuth callback | MCP servers, `oauth` table |
| plans, providers `integrator/models.py`, `plan.py`, `providers.py`, `status.py` | none | validation, coverage, display | |
| pipeline `ingestion/pipeline.py` | none of its own | process_document, retries, purges | store, hooks, embedder |
| discovery and workers `ingestion/*_handler.py`, `runtime.py` | watermark of each source | run_discovery, fetch of one page, successor page, rate-limit copies | connectors, queue or SQS |
| connectors `connectors/`, `local/` | none | discover, fetch | source APIs |
| semantic extraction `semantic/` | attempts and due time in the document's records | extract, classify failures, schedule retries | Bedrock |
| chunking `core/chunking.py` | none | chunk_document, reassemble | pipeline, get_document |
| MCP server `mcp/` | a five-second cache of visible sources | search_context, get_document, list_sources, find_related, list_entities | store, registry |
| the rest of core, embedding, node CLI, benchmark, infrastructure | settings | pure functions, input and output | |

What is hard here, and what would make it correct:

* **Queue.** Leases that end while the handler still runs, updates by id that ignore who holds
  the row, a partial unique index under five different updates, crashes between any two of
  them. Correct: nothing is dropped, dead letters stay listed, at most one live job of a key,
  no job in two hands while handlers are timely, every job settles.
* **Stores.** Several writers of one document with no transaction across them (memory: two
  critical sections; OpenSearch: bulk requests that half-fail and become visible late; SQLite:
  a cached copy in each process). Correct: the best generation is never deleted, and writers
  converge on exactly one.
* **Sync.** A run is a chain of jobs on an at-least-once queue, its knowledge is in three files
  that are not written together, deletions are inferred from what was *not* seen, and the CLI
  edits the source's row at any time. Correct: a document is deleted only if the source lacked
  its item; an undisturbed run leaves the index equal to the source; a run ends, with the
  outcome of its streams; what succeeded stays so; the operator's command stands.
* **Ingestion.** One document is fetched, skipped, extracted and stored by several workers,
  each acting on what it looked up before it called a model for seconds; the repository changes
  while its lists are paged, chains of pages fork when a message is delivered twice, and the
  watermark moves on before the pages are done, and past a document that failed for good. Correct: readers end up with the source's
  content whatever failed on the way; no other change falls behind the watermark; a partial or late
  listing deletes nothing that was there all along; failed extractions cost their budget and no more.
* **Authorization and tools.** A browser, a web process, a CLI and a worker that may die meet in
  one row; tokens are one secret that several processes read, change and save, in a file through one
  temporary name; a plan is checked
  at one time and used at another, against a server that changes its mind. Correct: a code
  reaches the login it answers and no other; tokens keep working unattended; no tool is called
  that was not found usable.
* **Answers.** Boundaries of chunks, of lines and of the overlap; flattened fields that a search
  matches one by one; statements that contradict one another at different times; a scope that
  changes during a call. Correct: a document is read back to the character; find_related reports
  exactly what documents bear out; an answer holds what its reader may see.

`PROJECT.json` lists the hazards with the properties that cover each; hazards that bite at
neighbouring lines share an entry. Smaller ones of the same code, which no property is about:
a requeued fetch keeps its count of rate limits (`node/queue.py:148`), and requeueing all dead
letters is one UPDATE that fails as a whole (`:156`, modelled as `Conflicting`); the scheduler
notes a discovery whose key was taken (`node/service.py:162`); overlapping runs read and save
one checkpoint (`integrator/jobs.py:255`); times with different offsets are compared as strings
(`vectorstore/schema.py:237`, `semantic/status.py:112`); only a document's first statement of an
edge is its evidence (`mcp/tools.py:582`), and the searches of one `find_related` read the store
at different times (`:394`); the CLI shows the first login URL (`integrator/cli.py:174`), and an
authorization whose job is a dead letter leaves its row waiting (`integrator/jobs.py:347`).

## 2. Modules

| module | models | state ↔ code | actions ↔ code |
|---|---|---|---|
| `JobDelivery` | what the queue promises its callers | a job is absent, queued, dead or done; `ran` | Add, Run, Finish, GiveUp, Revive |
| `JobQueue` | `queue.py`, and the worker loop of `service.py` | `jobs` = the table; `worker` = the `Job` snapshot each thread holds; `up` = the process | Put, Claim, Complete, HandlerFails (fail), RateLimited (postpone), RequeueOne/All, Start (recover_interrupted), Crash, Tick |
| `DocumentStore` | the promise of `replace_document` for one document | `stored`, `written` generations, `erased` | Write, Supersede, WriteAndSupersede, Erase |
| `MemoryStore` | `memory.py` | `records` = `_records`; `writer` = a thread between the two critical sections | Upsert, Prune, DeleteByDocument, Crash |
| `OpenSearchStore` | `opensearch.py` | `index` = chunks in the collection, `shown` = chunks a search returns, `worker` = what a scan has doomed | Upsert, Scan, ScanAll, Delete, Stop, Refresh |
| `SqliteStore` | `sqlite.py` | `rows` = the committed file, `mem` = each process's `_records`, `stale` = `data_version` differs from the noted one | Call, Fresh, LoadRows, LoadVersion, Return, Begin, Busy, Commit, NoteVersion, Rollback, Restart |
| `SourceSync` | `jobs.py`, `sync.py`, `registry.py`, the commands of `cli.py` | `source`, `runs`, `seen` = the tables; `jobs` = the queue, reduced; `worker` = a handler's place and locals; `index`; `live` = the source's items | one action per stretch of a handler between two calls to the source, two files or two statements of the registry that other workers come between (ReadRun and FinishRun of `_maybe_finish`; see the module) |
| `DocumentIndexing` | `pipeline.py` and `interceptor.py` for one document, over `MemoryStore` | `source` = the document at its source; `work` = each worker's place in process_document or reprocess; `meta` = what the records of a generation hold | Fetch, Decide (skip or carry the attempts on), Extract, Empty, Store, Finish, Reconcile, Reprocess, ReprocessFailed, Recheck, Transient, Permanent, Due, Die |
| `Ingestion` | `discovery_handler.py`, `worker_handler.py`, `_handle_fetch`, the pages of `github.py` | `jobs` = messages and what their handlers have done; `updated` = the versions of the repository's items, `newest` the greatest each has had; `listed`, `empty` = the allowlist; `indexed`; `watermark` | Discover, Begin, QueueJobs, SaveWatermark, Purge; Fetch (FetchIssues, FetchPulls, FetchFiles, FetchReadme), Index, GiveUp (a document that fails for good), Reconcile, Follow, Complete; Fails, RateLimited, Duplicate, Crash, Revive |
| `Chunking` | `chunking.py`, `_excerpt` of `tools.py` | `document`, `sizes`; `first`, `fresh` = where chunk_spans is; `chunks`; `joined`, `read` = what reassemble has put together | Pack (a turn of chunk_spans that ends a chunk), Join (one chunk of reassemble); Excerpt as an operator |
| `RelationshipStatus` | `semantic/status.py`, the merge and grounding of `structured/`, `engine.py` | none | Classify, Structured, Grounded, Merge, Aggregate as operators |
| `FindRelated` | `find_related`, the fields of `schema.py` it matches | the documents in the lake, a question, its edges | Answer |
| `SourceScope` | the scope of the five tools, the provider of `jobs.py` | `cache` = the provider's; `call` = the tool call in progress; `enabled` = the registry | Prepare, ReadSources, StoreSources, QueryStore, CountEntities, ListSources, Post, Return; Enable, Disable |
| `OAuthHandoff` | `handle_authorize`, `cmd_authorize`, `web.py`, the table `oauth` | `oauth` = the table; `attempt` = the worker's handler for each request | BeginRequest, Start, Redirect, Deliver, Collect, GiveUp, Exchange, Connect, Report, RemoveSource, Die |
| `TokenStore` | `credentials.py`, the retry of `connect`, `store_secret` of `core/secrets.py` | `stored` = the secret, a parameter or a file (`medium`); `draft` = the file with the temporary name, `fd` = what a saving connection has open; `link` = each connection's copy of the secret; `provider` (external) | Open, Send, Refresh, LoadTokens, Reject (with force_refresh), Misread, Use, Leave; PutParameter, or OpenTmp, WriteTmp, ReplaceTmp; Withdraw |
| `ToolGate` | `plan.py`, the commands that change a plan, the checks of `handle_sync`, `handle_page` and `call` | `row` = the source; `command`, `handler` = processes between reading and saving it; `hints` = the server's annotations | Load, ListTools, Commit (Import, AddStream, Enabled), ShowTools, Sample, Preview, Add; BeginSync, CheckPlan, Call; ReadRow, SaveRow; Annotate |
| `*Proofs` | the theorems about the module and their proofs; `AccessProofs` is about how sources come to be used (`ToolGate`, `OAuthHandoff`, `TokenStore`), `AnswerProofs` about what readers are given (`SourceScope`, `FindRelated` with `RelationshipStatus`, `Chunking`) | | |
| `MC*` | the instances for TLC: symmetry sets, the settings of `SourceSync`, the documents cut and the questions asked | | |
| `MCServer` | `Chunking`, `FindRelated`, `SourceScope`, `OAuthHandoff`, `TokenStore` and `ToolGate` side by side | `part` = which of them moves | the actions of that part |

`JobQueue` implements `JobDelivery`; the three stores implement `DocumentStore`, each through a
refinement mapping at the end of its module. `SourceSync` uses the queue as `JobDelivery`
describes it, plus the attempt budget and the dedupe key it depends on; so does `Ingestion`,
whose queue is also SQS, where a duplicate may come at any time. `DocumentIndexing` *extends*
`MemoryStore`: every write is one of its actions, and its run checks the store's promise again
under the pipeline's own writers instead of arbitrary ones. `Ingestion` sees one document as
`DocumentIndexing` leaves it: the greater version stays.

Conventions: a constant choice of an instance (`setting`, `part`, `dating`, `kind`, `queue`,
`scoping`) is a variable that Init chooses and no step changes. A history variable is marked as
one in its declaration. A document's generations are named by their rank (`generation_rank` is a
total order), so `g < h` means that `h` outranks `g`. A definition whose comment starts with
"Mutant of" is a plausible bug of the code, kept to see that a property would notice it; nothing
in a specification uses it. Times in `JobQueue` are relative to now, and an overdue row keeps
only its place in the order, which makes the state space finite without bounding time.

## 3. Runs

| run | instance | question |
|---|---|---|
| `JobQueue_timely` | 2 workers, 1 key, 3 jobs, 2 attempts, 1 crash, 1 rate limit, leases of 1 tick; handlers end within it | Does the queue implement `JobDelivery`? Are workers kept apart, by job (`OneWorkerPerJob`) and by key (`OneJobPerKey`)? Has a dead letter had its whole budget, and does it stay until requeued? |
| `JobQueue_overrun` | 2 workers, 1 key, 2 jobs, leases of 0 ticks; handlers may outlive them; fair, no crash, no free postponement | Which guarantees survive stale snapshots: `NothingDropped`, `DedupeUnique`, `DoneIsFinal`; and does every job settle? |
| `OpenSearch` | 2 workers, 2 generations of 2 chunks, requests fail half-way | the best generation is never deleted, and the promise |
| `OpenSearch_converge` | the same, nothing fails | *violated*: `Converged` |
| `SqliteStore_shared` | 2 processes, 3 generations | the promise, with stale copies |
| `SqliteStore_converge` | 2 processes, 2 generations | *violated*: `OneGeneration` |
| `SourceSync` | four instances (`MCSourceSync`): *Failing*, 2 streams, 2 workers, all four failures of a call; *Overlapping*, 1 stream of 3 items, 2 runs, 2 workers, 1 change at the source; *Checked*, 2 items listed by position with a checker, 2 runs, 2 commands of the CLI, 1 change; *Dying*, the same by key with 1 command and 1 crash | `QuietMeansOver`, `OutcomeFinal` (without commands and crashes), `DeletionsJustified`, `CoversSource` |
| `SourceSync_forgotten` | 1 stream of 3 items, 1 crash; 2 streams of 2 items, 1 worker, calls may be denied | *violated*: `DeletionsJustified` |
| `SourceSync_operator` | 1 worker, pause or remove | *violated*: `OperatorDecides` |
| `DocumentIndexing` | 2 workers, 2 versions of the document at the source, 3 writes, budgets of 2 attempts and 1, 1 crash, 1 fetch without a change or request of the operator; sources that date items, files or nothing | `IndexFollowsSource`, `BudgetKept`, and `Converged` and `DocumentSpec` of the store |
| `Ingestion` | 2 items on pages of 1, 2 jobs at a time, 2 discoveries, 2 events (edit, change of the allowlist to or from this repository, another or none, failure of a call or of one document, rate limit, duplicate, truncated answer, crash); issues, pull requests, files and READMEs on the node, pull requests and files on SQS | `NothingMissed`, `CoversSource`, `DeletesOnlyGone` |
| `Server`, cutting | every body of up to 6 characters of ink, space and line break without a title, and of up to 5 under 2 titles; 6 settings of size and overlap | `ReassemblesExactly`, `ChunksFit`, `EvidenceLines` |
| `Server`, relating | two documents of every kind and age with every assertion about one edge, asked without a type and, where the first is a file, with one; two documents with up to three statements of any names and types, 4 questions | `RelatedExactly`, `StatusJustified` |
| `Server`, scope | 1 repository, 2 managed sources, a cache of 1 second | `AnswersStayInScope` |
| `Server`, handoff | 2 requests, 3 logins, 2 deliveries | `CodesReachTheirLogin`, `OneAnswerEach` |
| `Server`, tokens | 2 connections, 3 tokens, in a parameter or a file | `WorksUnattended` |
| `Server`, gate | a tool that reads and one whose name also writes, 1 sync at a time with any number of plan changes | `NoWriteIsCalled`, `CheckedBeforeCalled` |

Bounds. Every one is a constant with "bound" in its comment. They are chosen so that the case the
property is about occurs: two workers and one key are the smallest instance with a conflict, a
third job lets a key be reused while a dead letter still has it, two attempts have a failure that
is retried and one that is not. Three writers are needed for a writer that is neither the best
nor the last: the theorems about `MemoryStore` cover them, and the two workers of
`DocumentIndexing` write up to three generations one after the other. Two chunks let a bulk
request stop between them. Three items, one to a page, give a stream a first, a middle and a last
page; two runs are the smallest overlap, and one change is enough to come at every point of both.
In `Ingestion` two slots hold a discovery and a page, a page and its successor, or two chains
that overlap, and one item to a page makes every list one of pages; an event is any trouble at
any point, and two of them are a failure and its repetition, or a change that meets a failure. A
clock of three ticks with an overlap of one has a watermark that lies before, in and after it. In
`DocumentIndexing` two versions are the old and the new content, and three writes are a stored
one, a late one and a retry. The cut texts are long enough for several chunks with overlap between
them; every character of ink differs, so that a wrong one cannot look right. Two statements in a
document are what flattened fields can mix up. Three logins are two attempts at one request and
one at another. In `SourceSync` every instance names its own bounds: `runs` and `slots` of a
setting, and the `limits` on commands, changes and crashes. `Rest` lets the system stand still
when all is done or a bound leaves it nowhere to go, and deadlock is checked. `minMissing` stands
for the 10 of `reconcile_stream`: 1, so that the suspension rule applies to 3 items; 10 in
`SourceSync_forgotten`, where the code's own value lets the small listing delete.
`CHECK_DEADLOCK FALSE` stands in `DocumentIndexing`, `Ingestion` and `Server`, where bounds stop
the clock, the source and the failures, and everything is done.

Symmetry (workers, writers, chunks, contents, slots, processes, connections) is used in the runs
that check safety. No run uses it with a liveness property.

Fairness, only in `JobQueue_overrun`: the clock advances; a stopped server is started again (the
service manager does); each worker keeps polling (`_work_loop` wakes at least every two
seconds) and each handler ends (every network call has a timeout). It is weak and per worker.
Nothing forces a handler to succeed, and `EveryJobSettles` needs none to: the budget ends the
failing ones. It would not hold with endless crashes, because `claim` does not look at the
budget; the run has none, and the hazard is listed.

### What the violated runs show

* `OpenSearch_converge`: each of two writers upserts and scans before the other's chunks are
  visible. Neither finds a rival, both generations stay, until the next write of the document.
  `generation_rank`'s comment says that concurrent writers always converge.
* `SqliteStore_converge`: `_transaction` refreshes its copy *before* `BEGIN IMMEDIATE`; another
  process commits in between. Its generation is not in the copy the losers are computed from,
  and noting `data_version` after the own commit hides it from this process for good. Inside
  one process (the deployed server) this cannot happen: theorem `OneProcess`.
* `SourceSync_forgotten`: `finish_run` deletes the run's `seen` rows, and `handle_page` does not
  ask whether its run is over. A page that comes or goes on afterwards sees only itself, infers
  that the other pages' documents are gone, and deletes them. Each of the run's two instances
  violates alone. *Redelivered*: the server dies after the last page has finished the run and
  before its job is completed. *Denied*: a call of one stream is denied, `_authorization_failed`
  fails every stream and so finishes the run, and a page of another stream that is still queued
  or at work succeeds (the denial was of one call, or the operator has authorized the source
  before a postponed page comes back). The run `SourceSync` does not meet this: its instance
  *Failing*, where calls are denied, has one item in a stream. With a checker the items are asked
  for first and nothing is lost: theorem `CheckedDeletions`, and the instance *Dying* of the run
  `SourceSync`.
* `SourceSync_operator`: `_set_state` and `_maybe_finish` read the source's row, change the
  state and save the whole row; a pause or a removal in between is undone.

## 4. Theorems

All hold for every value of the constants that the modules' assumptions admit, so for any
number of workers, jobs, generations, chunks and crashes.

**`JobQueueProofs`.** `TypeInv` adds to `TypeOK` that a busy worker's job exists. Without any
assumption on handlers: `Dedupe` (each of the updates that make a row live is guarded by the
unique index), and `AtLeastOnce`, from `DeliveryInv`, which adds that a worker past its handler
has run it. Under `~HandlersMayOverrun`: `LeaseInv` says that a busy worker's row is `running`,
with the attempts of the snapshot and an unexpired lease, and that no worker is busy while the
process is down. It is needed because complete, fail and postpone never look at the row: only
the lease makes the snapshot true. From it follow `Exclusive`, `ExclusiveKey`, `FullBudget` and
`Implements`, the refinement of `JobDelivery`: each action maps to a move of one job, a revival
of several, or a stutter. Two action properties: `Final`, without any assumption (a row that has
gone is bare, and no update by id finds it, however stale the snapshot), and `DeadStays` under
`~HandlersMayOverrun` (nobody holds a dead row, so no late `fail` or `postpone` revives it).

**`OpenSearchStoreProofs`.** `Invariance` is the inductive invariant: whatever a worker's scan
doomed is outranked by something ever written, or the document's deletion was asked for. It
holds however late the scan's result is used, because `written` only grows. `BestKept`,
`Implements`.

**`SqliteStoreProofs`.** `Implements` for any number of processes: a stale copy holds only
generations that were once committed. `OneProcess`: with a single process a copy that is not
marked stale equals the file, and the file never holds two generations.

**`SourceSyncProofs`**, for any streams, items, workers, runs, commands, changes and crashes.
`SyncInv` adds to `TypeOK` that a queued job has an attempt of its budget left (a crash gives
one more), that the job of a busy worker is running and in no other hands, with the worker's
run and stream, and that what the source lacks now is in `away` of every run that has begun.
Without the second part `doomed` could be compared with another run's `away`; the third is why
asking for an item once, at any time of the run, justifies its deletion. `TypeCorrect`, and
`CheckedDeletions`: `DeletionsJustified` for every plan with a checker. Without one it is false
(`SourceSync_forgotten`) unless `ListedDeletions`, below, applies.

Two more invariants say who sees to a stream of a run. `ChainInv` holds until the server dies: a
run has one sync, a stream of a run is carried by one page job at most (a page at work carries
its stream until it has queued the next page or noted the end; a job that will be tried again
carries it too), and a stream that is done, a run that was never begun, or a run whose source is
gone is carried by none. It has to name every handler that could still note the stream, because a
page queues its successor before its own job is settled. `_maybe_finish` works the outcome out from what it read and writes it later, whatever the row
says by then (`ReadRun`, `FinishRun`), and a denial fails streams that others are at; so two
workers may read one run at different times and the later write replaces the earlier, partial by
failed or failed by partial. `ChainInv` therefore speaks of the outcome in a worker's hands as
well (`Succeeds`): success, written or about to be, means that every stream is done. Two smaller
invariants say the rest that `RunsAreFinal` (`OutcomeFinal`) needs. `SpoiltInv`: a run of which something has failed, noted, written or about to be written,
has a stream that nobody will ever note as done (`Forsaken`: no page of it goes on or waits, and no
sync has still to queue it), so it never succeeds. `FirmInv`, unless calls are denied and there
are several streams: a failed stream is forsaken, a run that is over keeps its streams, and so
whoever writes an outcome writes the one that stands (`Firm`).

`OverInv` holds until a crash or a command comes across, and says the converse of `ChainInv`: every stream of a running run that is not done or failed is carried by a
page, or by the sync that has still to queue or to fail it, and a run whose streams have all
ended has a handler that is about to finish it. From it `RunsEnd` (`QuietMeansOver`). What a
handler's step may leave behind is said once (`Tends`), and each action is shown to leave it.

Two more lead to `SourceCovered`: `CoversSource` for every plan with a checker, and for every plan
until the server dies. `OrderInv`: there is one sync at a time, it is at the last run that has
begun, and a run that has not begun is blank. `CoverInv`: while nothing comes across a run its
pages are the only ones there are; the items before a page's cursor are those the run has seen,
and what it has seen is indexed (`Reached`); once a stream is done its index is the source. The
first part is what makes the second true: another run's page could delete what this one has
indexed. Without a checker a crash makes it false for the reason above: the page that comes again
after its run has ended deletes what the run had indexed.

Last, `ListedDeletions`: `DeletionsJustified` of a plan without a checker whose listing is by key,
while the server does not die, the source is not removed, and no call is denied or there is one
stream. `GaplessInv` is about the pages that may still go on, queued, at work or to be retried
(`Proceeds`): whatever the items up to such a page's cursor, the source has lacked them or the run
has seen them (`Passed`), and the same of what its worker has in hand between the listing and the
deletion (`Traces`); its stream has not failed. With `ChainInv` - which also says that it is not
done - its run is then not over, so the seen ids are still there when the page adds its own. The
conditions rule out the three ways a run ends before its pages, and a listing by position, which
skips an item when an earlier one goes while it is read. Pausing, overlapping runs, early ends and
all other failures are covered.

**`DocumentIndexingProofs`** begins with the store alone, for any writers. `Convergence`: while no
process has died, two stored generations mean that a writer has still to prune, and the last to
prune leaves one. `Implements`. Then the pipeline over it, for any workers, contents, versions,
writes and crashes, and budgets in either order. The numbering of generations is taken apart once
(`Ranks`, `RanksOrder`), each action is described once by what it does to the state (the `Effect`
lemmas), and five invariants build on that:

* `TypeInv`: what is stored was chunked, under the rank of its version and time; what a worker
  carries is a version the source has had, with an attempt left; a due retry has one too.
  `PipelineTypeCorrect`. Every step is one of `MemoryStore`'s or leaves the store alone
  (`PipelineUsesStore`), so the store's theorems hold under the pipeline (`PipelineImplements`).
* `AloneInv`: while no two workers have been at the document at once, the one that is has a
  version in hand no older than what is indexed, and the index has the versions in the order of
  their ranks; dated documents have that order always, by `RanksOrder`.
* `CountedInv`: every failed attempt that is counted is recorded in what the index holds or in
  what is about to replace it, which ranks above everything indexed. It is needed because the
  count travels through four places (record, worker, chunked document, record).
  `Budgeted`: `BudgetKept`.
* `Contented` and `OnItsWay`, where the source never goes back to a content (`~Reverts`): the
  content tells the version; and a wanted text is queued, in the hands of a fetch that holds the
  newest version, or in the index, where a prune keeps it because it ranks highest.
  `Following`: `IndexFollowsSource`. The invariant has to say *who* brings the newest version:
  a worker may skip only because the index has it, and fail only by queueing it again.

Nothing in `config.py` orders `max_attempts` and `max_content_attempts`, so the theorems speak of
the larger (`LargerBudget`).

**`IngestionProofs`**, for any items, places for jobs, sizes of pages, overlaps and budgets, and
any number of discoveries, changes of the source, failures, duplicates and crashes. What an
action makes of a job is said once for each (the `Is` lemmas), and a few lemmas count: the items
before one in its list are fewer than those before its successor, a page that ends before an item
is full, and an item that is not changed itself only moves to later places when others are
changed. Four invariants build on that:

* `BasicInv`: what jobs and versions can be. A job has an attempt left, or the crash that took
  one was an event; a page's listing has in it what the source has had all along; nothing is
  dated later than the newest. `TypeCorrect`, and the action property `StayedStays`.
* `KeptInv`, the reason for all the rest: an item that is not indexed as it is, is brought by
  somebody (`Carries`: a discovery that will list everything, or a page that holds it, deletes it
  or comes before it in its list), or is so new that the discovery at work and the next one list
  it (`Later`), or its version has failed for good, of which only the exclusion says anything
  (`GivenUp`). It cannot count pages, because chains fork and fall behind; it speaks of the
  item's place in the list as it is *now*, which a change of another item moves only away from
  the pages that were read. It speaks of the watermark and of what the discovery at work will
  save as one, because that was noted before the pages were queued.
* `FreshInv`: while nothing changes, every page of a run that began alone is of the source as it
  is, with the same tree. It is needed because the index takes the greater version, and a late
  page of an older tree could bring back a file that has been removed.
* `GoneInv`: of a repository that is not listed while another one is, nothing is fetched any more,
  and there is a discovery that has still to purge, or nothing is left. With an empty allowlist a
  discovery ends at once: it lists, saves and purges nothing.

Together they are `Invariance`; from them `NothingIsMissed` and `SourceCovered`. The attempt to
prove the latter found it false as it first stood: a branch moved back to an earlier commit dates
a file earlier than what is indexed, and the index keeps what it has. The model had let a file go
back only by being removed first, which takes more changes than the run's bounds allow; now one
change moves it back, and without `Current`, which excludes such files, the run fails. The hazard
is listed.

**`AccessProofs`.** Of `ToolGate`: `GateInv` says that no plan that any process holds, saved or
not, has a tool whose name writes, and that the tools of the saved plan are among those each sync
has checked or has still to check. Processes save rows they read long ago, so it has to speak of
all the copies. `NoWrites`, `Checked`. Of `OAuthHandoff`: `HandoffInv` says that a row waits for
the last login of its request, that no two rows have one login, that the logins of attempts under
way are distinct and unspent, and that a row with a code has the code of its login. A redelivered
attempt begins a new login and so cannot take the answer to the old one. `CodesMatch`,
`SingleAnswers`. Of `TokenStore`, for any number of connections and tokens, and for a secret that
is a parameter or a file: `Steady` is what holds while the history is benign (`~raced`), and a
race leaves only the types and that nobody has been refused without a reason (`TokenInv`). `Files`
is the part about the file: whoever has the temporary name open is saving and alone, the file is
empty until it is written and then the document, so what replaces the secret is a document,
whatever a dead process left under the name. The rest of `Steady`: the secret holds the refresh token the provider takes, except between
a rotation and its save, when only the rotating link has it; that no link holds a token the
provider has not issued; and that a link on its second try holds one that was not withdrawn.
`Unattended`: `WorksUnattended`.

**`AnswerProofs`.** Of `SourceScope`: `ScopeInv` bounds how long ago whatever is enabled, read,
cached or in a call's scope was enabled last; the bound of an answer is the sum along its way.
`PauseReachesReaders`.

Of `FindRelated`, for any finite lake and any question: the invariant (`RelatedInv`) only says
that an answer is the one computed, and the work is in what is computed. `RelatedIsExact`: a
statement that names the entity puts its key, and its type, among the flattened fields of its
row, so some search returns the row; and a row that is returned for another reason is looked
through statement by statement. `StatusIsJustified`: each document's first statement of the edge
that the question does not rule out is what the merge left of it (the parser's last or else the
model's first), so its status tells what the document states; the newest claim is the one that
counts, since the claims of a finite lake have a newest, and the documents' places in the answer
tell claims of one age apart.

Of `Chunking`, for texts of any length, with any blanks, sizes and overlaps, and any estimate of a
token's length: `CutInv` says of the chunk being filled that it begins with a word no later than
the first word that is in no chunk, that what it repeats is within the overlap, and that the new
word fits beside it (`InHand`); of each chunk made that it is a slice of the text that ends with
ink, begins where the one before ended or earlier, fits, and has its new word after its overlap
(`Made`, `Linked`); and of what is read that it is the text up
to the end of the last chunk joined (`ReadSoFar`). `ReadsBackExactly` is that last part at the
end. `NoChunkIsLarger` needs more, because `ChunksFit` counts the tokens of a chunk *by itself*:
a cut may begin inside a run of ink (`SliceCount`: the pieces of a slice are those of the text
there, as long as the slice begins at a piece or at a blank, which `_words` and `_make_span`
see to), and a piece of a split word must not be counted as more tokens than it had as a part
of the whole (`PieceStep`: the pieces of a chunk's length are whole numbers of pieces of a
token's). `LinesAreEvidence` puts three things together: the lines that are noted (counted in the
body), the text that is read (title and body, without the white space in front), and the way
`_excerpt` takes the title off again. The attempt to prove it made its exclusion exact
(`LinesKept`): white space in front of a text is not stored, which shifts the lines if it broke
one, and leaves the title in the excerpt if it was the title's; white space that does neither is
now covered.

That is why `Chunking` is a state machine with one step for each chunk, although the code is two
pure functions: of a recursive function nothing could be proved here. Words are known by where
they begin and sizes are counted, so that no definition recurs over a text.

Only model-checked: `EveryJobSettles` (liveness is not provable with these backends), and that the
violated runs' properties fail. Of `DeletionsJustified` the theorems leave out the plans without a
checker that list by position, and those whose runs can end before their pages: `SourceSync_forgotten` has two of them.

## 5. Not modelled, and the plan

Every component that keeps state which another actor can disturb has a module. What is left to
do, in this order:

1. The checkpoint of a stream (high-water mark, run counter, `run_max`) under overlapping runs.
   `SourceSync` lets any page end its listing early instead, which covers what deletion depends
   on; that an early end misses no change needs an order of the source's list.
2. `DocumentIndexing` over `OpenSearchStore`, where a bulk request can store a part of a
   generation under the content's hash.
3. Several repositories in one discovery, and the local connector, whose one listing of the
   working tree is neither paged nor dated.

Left out for good, because it is text, numbers or input and output and keeps no state:
prompts and the parsers of Terraform and YAML, rendering and sanitizing, HTTP and the MCP
protocol, similarity and embedding, AWS deployment, displays of the command lines, the
benchmark.

Abstracted within the modelled parts:

* Stores: contents and vectors (a generation or an item stands for them), limits on the number
  of results, similarity. Queries are reads under the store's lock.
* Sync: the wording of errors, a change of the plan during a run (in `ToolGate` instead), the
  first authorization (in `OAuthHandoff`).
* Ingestion: globs and the cap on the number of files (a file that is too large or not text is one that
  fails for good), types and labels of items, the scheduler's mark.
* Extraction: what a model answers (an outcome), the matching of quotes, `_evidence_status`.
* Chunking: the fallback of `reassemble` for chunks indexed before positions were stored.
* Tools: `k` and `fetch_k`, the fields of chunks indexed before normalized keys existed, the order of evidence, bearer authentication.
* Authorization: metadata of the authorization server, client registration, address checks.
* Times are numbers, which is true of sources that always write the same offset.

What properties exclude, each by a history variable or a constant named in its module, because
the code does not promise it: extraction counts once two workers were at the document together
(`Uncounted`), undated sources then (`overlapped`), documents given up for a permanent failure
(`dropped`), content that comes back (`Reverts`); repositories first listed after a watermark
(`late`) and items removed while their list was paged (`shifted`); files whose commit is dated
earlier than what is indexed (`Current`); documents that fail for good, as long as they stay as they are (`GivenUp`), and what
is indexed while the allowlist is empty (`empty`), which purges nothing; a rotation of the refresh
token under another connection, and two connections that save one file at once (both `raced`), and
a token withdrawn inside a session (`entered`); partial and failed outcomes after a denial, which
replace one another (`OutcomeFinal`); lost white space that breaks a line or begins a title
(`LinesKept`); a plan put back by a save of an older row (`restored`). The hazards in `PROJECT.json` give the reasons.
